---------------------------- MODULE WorkflowStore ----------------------------
(***************************************************************************)
(* `.workflow/` shared by concurrent `awf wf` processes.                   *)
(*                                                                         *)
(* Most state functions are load, compute, save: the load takes no lock,   *)
(* and the save holds state.json.lock only while it re-reads the file,     *)
(* merges the database-risk facts and replaces it.  A command is a         *)
(* sequence of such operations, so between any load and its save any other *)
(* process may write.  The approval, Done, database-risk and reset writes  *)
(* keep the lock across their read and write; approval and Done also       *)
(* publish an artifact file first, and a process may die at any step.      *)
(***************************************************************************)
EXTENDS WorkflowState, FiniteSets

CONSTANTS
  Cli,             \* concurrent awf processes
  Commands,        \* subcommands the operators use
  Classes,         \* classes detect_change_class gives the concepts at hand
  PhaseArg,        \* phases operators name on the command line
  OnFail,          \* gate.on_fail routes of each agent card
  MaxReplans,      \* loop.maxReplans, the budget of automatic replans
  FixLoopLimit,    \* VERIFY_FIX_LOOP_HARD_LIMIT
  FsyncMayFail,    \* whether the directory fsync after os.replace can fail
  NoArtifact, NoSnapshot, Nobody,
  MaxGeneration    \* bound: resets explored

ASSUME StoreAssumption ==
  /\ OnFail \in [Phase -> SUBSET (Phase \cup {"stay", "prompt_user"})]
  /\ MaxReplans \in Nat /\ FixLoopLimit \in Nat
  /\ MaxReplans <= ReplanCap
  /\ MaxGeneration \in Nat
  /\ NoSnapshot \notin WorkflowDocument
  /\ NoArtifact \notin Approval /\ NoArtifact \notin [id : WorkflowId, actor : Actor]
  /\ PhaseArg \subseteq Phase /\ Classes \subseteq ChangeClass

VARIABLES
  stateFile,         \* state.json
  approvalFile,      \* artifacts/approval.json
  confirmationFile,  \* artifacts/confirmation.json
  planning,          \* hash of the six planning artifacts now on disk
  cli,               \* per process: operations left and the loaded snapshot
  txn,               \* the approval or Done transaction holding the lock
  executions         \* history: executions really performed in this generation

vars == <<stateFile, approvalFile, confirmationFile, planning, cli, txn, executions>>

\* Phases whose results apply-result and the automatic apply accept.
ResultPhase == {"review", "verify", "impl", "test"}

\* One operation of a command.  arg: the route of a failed gate, the target of a
\* replan, whether the replan budget was left when a provider run began.
Op ==
  [kind : {"save", "mark", "escape", "decide", "continue", "abort"},
   phase : Phase, arg : {"stay"}]
  \cup [kind : {"pass"}, phase : ResultPhase, arg : {"stay"}]
  \cup [kind : {"fail"}, phase : ResultPhase, arg : Phase \cup {"stay", "prompt_user"}]
  \cup [kind : {"replan"}, phase : Phase, arg : Phase]
  \cup [kind : {"run"}, phase : Phase, arg : {"budget", "spent"}]

Do(kind, phase, arg) == [kind |-> kind, phase |-> phase, arg |-> arg]

NoTxn == [kind |-> "none", holder |-> Nobody, decision |-> NoSeal,
          written |-> FALSE, created |-> FALSE]

Confirmation == [id : WorkflowId, actor : Actor]

TypeOK ==
  /\ stateFile \in WorkflowDocument
  /\ approvalFile \in Approval \cup {NoArtifact}
  /\ confirmationFile \in Confirmation \cup {NoArtifact}
  /\ planning \in Identity
  /\ cli \in [Cli -> [ops : Seq(Op), snap : WorkflowDocument \cup {NoSnapshot}]]
  /\ txn \in [kind : {"none", "approve", "complete"}, holder : Cli \cup {Nobody},
              decision : Approval \cup {NoSeal}, written : BOOLEAN, created : BOOLEAN]
  /\ executions \in Nat

Init ==
  /\ \E id \in WorkflowId, class \in Classes :
       stateFile = InitialWorkflowState(id, 0, class)
  /\ approvalFile = NoArtifact
  /\ confirmationFile = NoArtifact
  /\ planning \in Identity
  /\ cli = [c \in Cli |-> [ops |-> <<>>, snap |-> NoSnapshot]]
  /\ txn = NoTxn
  /\ executions = 0

-----------------------------------------------------------------------------
(* Helpers.                                                                *)

Idle(c) == cli[c].ops = <<>> /\ txn.holder # c

LockFree == txn = NoTxn

Enqueue(c, ops, snap) == cli' = [cli EXCEPT ![c] = [ops |-> ops, snap |-> snap]]

\* validate_approved_planning_seal: G3 passed, approval.json repeats its seal,
\* and the planning artifacts on disk still hash to it.
SealValid(s) ==
  /\ s.gate["approve"] \in {"pass", "auto"}
  /\ s.seal # NoSeal /\ approvalFile # NoArtifact
  /\ s.seal.identity = approvalFile.identity
  /\ approvalFile.identity = planning

\* The document an operation computes from its snapshot.
Outcome(op, s) ==
  CASE op.kind = "mark"     -> MarkPhaseInProgress(s, op.phase)
    [] op.kind = "pass"     -> GatePassed(s, op.phase)
    [] op.kind = "fail"     -> GateFailed(s, op.phase, op.arg # "stay")
    [] op.kind = "escape"   -> RecordPhaseEscape(s, op.phase)
    [] op.kind = "decide"   -> RecordDecision(s, op.phase)
    [] op.kind = "continue" -> ContinueWorkflow(s, op.phase)
    [] op.kind = "abort"    -> AbortWorkflow(s, op.phase)
    [] op.kind = "replan"   -> ReplanWorkflow(s, op.arg)
    [] OTHER                -> s

\* What a failed gate goes on to do after its own save.
FollowUp(op, s) ==
  IF op.kind # "fail" \/ op.arg = "stay" \/ RetryExhausted(s, op.phase) THEN <<>>
  ELSE IF op.arg = "prompt_user" THEN <<Do("decide", op.phase, "stay")>>
  ELSE <<Do("replan", op.phase, op.arg)>>

CountsAsExecution(op) == op.kind \in {"mark", "pass", "fail"}

\* An operation that raises after its load: the execution limit, a forward replan.
Refused(op) ==
  \/ CountsAsExecution(op) /\ ExecutionLimitReached(stateFile)
  \/ op.kind = "replan" /\ PhaseIndex[op.arg] > PhaseIndex[op.phase]

-----------------------------------------------------------------------------
(* The load and the save of one operation.                                 *)

Load(c) ==
  /\ cli[c].ops # <<>>
  /\ cli[c].snap = NoSnapshot
  /\ Head(cli[c].ops).kind # "run"
  /\ IF Refused(Head(cli[c].ops)) THEN Enqueue(c, <<>>, NoSnapshot)
                                  ELSE Enqueue(c, cli[c].ops, stateFile)
  /\ UNCHANGED <<stateFile, approvalFile, confirmationFile, planning, txn, executions>>

Save(c) ==
  LET op == Head(cli[c].ops)
      s  == cli[c].snap
  IN  /\ cli[c].ops # <<>>
      /\ s # NoSnapshot
      /\ LockFree
      /\ stateFile' = MergeDatabaseRisk(Outcome(op, s), stateFile)
      /\ Enqueue(c, FollowUp(op, s) \o Tail(cli[c].ops), NoSnapshot)
      /\ executions' = IF CountsAsExecution(op) /\ executions <= MaxTotalExecutions
                       THEN executions + 1 ELSE executions
      /\ UNCHANGED <<approvalFile, confirmationFile, planning, txn>>

-----------------------------------------------------------------------------
(* awf wf next.                                                            *)

\* Marking the phase, the event-sync saves around it, and the provider run.
PhaseProgram(p, replanCount) ==
  <<Do("mark", p, "stay"), Do("save", p, "stay"),
    Do("run", p, IF replanCount < MaxReplans THEN "budget" ELSE "spent")>>

\* Mutant: the executions done so far are compared, not the one about to start.
PastFixLoopLimit(s) == s.verifyExecutions > FixLoopLimit

\* _verify_fix_loop_status: the next verify would be one too many.
OverFixLoopLimit(s) == s.verifyExecutions + 1 > FixLoopLimit

\* The document is read once, the phase resolved (policy skips in memory), and
\* the same snapshot saved after the ready gate.  A verify phase over the
\* fix-loop limit stops there unless forced.
StartNext(c, s, p, forced) ==
  /\ "next" \in Commands
  /\ Idle(c)
  /\ stateFile.currentPhase # "rejected"
  /\ p \notin {"approve", "done"}
  /\ p = "impl" => SealValid(s)
  /\ Enqueue(c, <<Do("save", p, "stay")>> \o
       (IF p = "verify" /\ OverFixLoopLimit(s) /\ ~forced
        THEN <<>> ELSE PhaseProgram(p, s.replanCount)), s)
  /\ UNCHANGED <<stateFile, approvalFile, confirmationFile, planning, txn, executions>>

WfNext(c, forced) ==
  /\ stateFile.currentPhase \notin Terminal
  /\ LET s == ApplyPolicySkips(stateFile) IN StartNext(c, s, ResolveNextPhase(s), forced)

\* An explicit phase is taken as it is, without the terminal checks.
WfNextPhase(c, p, forced) == StartNext(c, stateFile, p, forced)

\* The provider returns.  Impl re-reads the state and re-validates the seal
\* before the dispatch; review and verify results are applied automatically; an
\* escape is recorded, decided, and the decision applied.  The replan budget was
\* read from the snapshot the command started with.
ProviderResult(c) ==
  LET op == Head(cli[c].ops)
      p  == op.phase
      escape(decision) ==
        <<Do("escape", p, "stay"), Do("decide", p, "stay")>> \o decision
      applied == {<<Do("pass", p, "stay")>>} \cup {<<Do("fail", p, r)>> : r \in OnFail[p]}
      replans == {escape(<<Do("replan", p, t)>>) : t \in PhaseArg}
  IN  /\ cli[c].ops # <<>>
      /\ op.kind = "run"
      /\ \E ops \in {<<>>, escape(<<>>), escape(<<Do("continue", p, "stay")>>),
                     escape(<<Do("abort", p, "stay")>>)}
                    \cup (IF op.arg = "budget" THEN replans ELSE {})
                    \cup (IF p \in {"review", "verify"} THEN applied ELSE {}) :
           Enqueue(c, IF p = "impl" /\ ~(stateFile.currentPhase = "impl" /\ SealValid(stateFile))
                      THEN <<>> ELSE ops, NoSnapshot)
      /\ UNCHANGED <<stateFile, approvalFile, confirmationFile, planning, txn, executions>>

-----------------------------------------------------------------------------
(* awf wf apply-result and awf wf decide.                                  *)

WfApplyResult(c, p) ==
  /\ "apply" \in Commands
  /\ Idle(c)
  /\ p \in ResultPhase
  /\ \E ops \in {<<Do("pass", p, "stay")>>,
                 <<Do("escape", p, "stay"), Do("fail", p, "stay")>>}
                \cup {<<Do("fail", p, r)>> : r \in OnFail[p]} :
       Enqueue(c, ops, NoSnapshot)
  /\ UNCHANGED <<stateFile, approvalFile, confirmationFile, planning, txn, executions>>

\* --force-from overrides the deciding check and saves a history entry on the
\* document it just read.
WfDecide(c, p, forced) ==
  /\ "decide" \in Commands
  /\ Idle(c)
  /\ stateFile.status[p] = "deciding" \/ forced
  /\ \E op \in {Do("continue", p, "stay"), Do("abort", p, "stay")}
               \cup {Do("replan", p, t) : t \in PhaseArg} :
       IF stateFile.status[p] = "deciding"
       THEN Enqueue(c, <<op>>, NoSnapshot)
       ELSE Enqueue(c, <<Do("save", p, "stay"), op>>, stateFile)
  /\ UNCHANGED <<stateFile, approvalFile, confirmationFile, planning, txn, executions>>

-----------------------------------------------------------------------------
(* Commands that read and write under the lock in one step.                *)

WfDbCheck(reason) ==
  /\ "dbcheck" \in Commands
  /\ LockFree
  /\ stateFile' = PromoteToHighRisk(stateFile, reason)
  /\ UNCHANGED <<approvalFile, confirmationFile, planning, cli, txn, executions>>

\* A reset (or init --force) writes a fresh generation; the artifacts stay.
WfReset(id, class) ==
  /\ "reset" \in Commands
  /\ LockFree
  /\ stateFile.generation < MaxGeneration
  /\ stateFile' = MergeDatabaseRisk(
       InitialWorkflowState(id, stateFile.generation + 1, class), stateFile)
  /\ executions' = 0
  /\ UNCHANGED <<approvalFile, confirmationFile, planning, cli, txn>>

-----------------------------------------------------------------------------
(* awf wf approve.                                                         *)

ApproveBegin(c, actor) ==
  LET approval == [identity |-> planning, actor |-> actor]
  IN  /\ "approve" \in Commands
      /\ Idle(c)
      /\ LockFree
      /\ ApprovalPending(stateFile)
      /\ approvalFile \in {NoArtifact, approval}
      /\ txn' = [kind |-> "approve", holder |-> c, decision |-> approval,
                 written |-> approvalFile # NoArtifact, created |-> FALSE]
      /\ UNCHANGED <<stateFile, approvalFile, confirmationFile, planning, cli, executions>>

\* The planning snapshot is taken again before each durable write.
ApproveWriteArtifact(c) ==
  /\ txn.kind = "approve" /\ txn.holder = c /\ ~txn.written
  /\ planning = txn.decision.identity
  /\ approvalFile' = txn.decision
  /\ txn' = [txn EXCEPT !.written = TRUE, !.created = TRUE]
  /\ UNCHANGED <<stateFile, confirmationFile, planning, cli, executions>>

\* Mutant: the state is committed without waiting for the artifact.
ApproveCommitFirst(c) ==
  /\ txn.kind = "approve" /\ txn.holder = c
  /\ planning = txn.decision.identity
  /\ stateFile' = RecordApproved(stateFile, txn.decision)
  /\ txn' = NoTxn
  /\ UNCHANGED <<approvalFile, confirmationFile, planning, cli, executions>>

ApproveCommit(c) ==
  /\ txn.kind = "approve" /\ txn.holder = c /\ txn.written
  /\ planning = txn.decision.identity
  /\ stateFile' = RecordApproved(stateFile, txn.decision)
  /\ txn' = NoTxn
  /\ UNCHANGED <<approvalFile, confirmationFile, planning, cli, executions>>

\* Changed planning artifacts or a failed state write: the artifact this
\* invocation created is removed.  The write can fail after os.replace.
ApproveFail(c) ==
  /\ txn.kind = "approve" /\ txn.holder = c
  /\ \/ UNCHANGED stateFile
     \/ /\ FsyncMayFail /\ txn.written /\ planning = txn.decision.identity
        /\ stateFile' = RecordApproved(stateFile, txn.decision)
  /\ approvalFile' = IF txn.created /\ approvalFile = txn.decision THEN NoArtifact
                     ELSE approvalFile
  /\ txn' = NoTxn
  /\ UNCHANGED <<confirmationFile, planning, cli, executions>>

\* A revise or reject decision is refused while an approval artifact exists.
DecisionAccepted == ApprovalPending(stateFile) /\ approvalFile = NoArtifact

WfRevise ==
  /\ "approve" \in Commands
  /\ LockFree
  /\ DecisionAccepted
  /\ stateFile' = RecordRevision(stateFile)
  /\ UNCHANGED <<approvalFile, confirmationFile, planning, cli, txn, executions>>

WfReject ==
  /\ "approve" \in Commands
  /\ LockFree
  /\ DecisionAccepted
  /\ stateFile' = RecordRejected(stateFile)
  /\ UNCHANGED <<approvalFile, confirmationFile, planning, cli, txn, executions>>

-----------------------------------------------------------------------------
(* awf wf confirm.                                                         *)

ConfirmBegin(c, actor) ==
  LET confirmation == [id |-> stateFile.id, actor |-> actor]
  IN  /\ "confirm" \in Commands
      /\ Idle(c)
      /\ LockFree
      /\ DoneCurrent(stateFile)
      /\ confirmationFile \in {NoArtifact, confirmation}
      /\ txn' = [kind |-> "complete", holder |-> c,
                 decision |-> [identity |-> planning, actor |-> actor],
                 written |-> confirmationFile # NoArtifact, created |-> FALSE]
      /\ UNCHANGED <<stateFile, approvalFile, confirmationFile, planning, cli, executions>>

ConfirmWriteArtifact(c) ==
  /\ txn.kind = "complete" /\ txn.holder = c /\ ~txn.written
  /\ confirmationFile' = [id |-> stateFile.id, actor |-> txn.decision.actor]
  /\ txn' = [txn EXCEPT !.written = TRUE, !.created = TRUE]
  /\ UNCHANGED <<stateFile, approvalFile, planning, cli, executions>>

ConfirmCommit(c) ==
  /\ txn.kind = "complete" /\ txn.holder = c /\ txn.written
  /\ stateFile' = RecordCompleted(stateFile)
  /\ txn' = NoTxn
  /\ UNCHANGED <<approvalFile, confirmationFile, planning, cli, executions>>

\* A failed write leaves the artifact for the same decision to recover.
ConfirmFail(c) ==
  /\ txn.kind = "complete" /\ txn.holder = c
  /\ \/ UNCHANGED stateFile
     \/ FsyncMayFail /\ txn.written /\ stateFile' = RecordCompleted(stateFile)
  /\ txn' = NoTxn
  /\ UNCHANGED <<approvalFile, confirmationFile, planning, cli, executions>>

HoldAccepted == DoneCurrent(stateFile) /\ confirmationFile = NoArtifact

WfHold ==
  /\ "confirm" \in Commands
  /\ LockFree
  /\ HoldAccepted
  /\ stateFile' = RecordHold(stateFile)
  /\ UNCHANGED <<approvalFile, confirmationFile, planning, cli, txn, executions>>

-----------------------------------------------------------------------------
(* The environment.                                                        *)

\* The parent session passes G1 itself and edits state.json (phase-plan skill).
ParentPassesPlan ==
  /\ LockFree
  /\ stateFile.currentPhase = "plan"
  /\ stateFile.status["plan"] \in {"pending", "in_progress", "failed"}
  /\ stateFile' = PlanPassed(stateFile)
  /\ UNCHANGED <<approvalFile, confirmationFile, planning, cli, txn, executions>>

\* Any of the six planning artifacts is edited, by a worker or by hand.
EditPlanning(identity) ==
  /\ "edit" \in Commands
  /\ identity # planning
  /\ planning' = identity
  /\ UNCHANGED <<stateFile, approvalFile, confirmationFile, cli, txn, executions>>

\* The process dies: the kernel drops its lock, files stay as they are.
Crash(c) ==
  /\ "crash" \in Commands
  /\ ~Idle(c)
  /\ Enqueue(c, <<>>, NoSnapshot)
  /\ txn' = IF txn.holder = c THEN NoTxn ELSE txn
  /\ UNCHANGED <<stateFile, approvalFile, confirmationFile, planning, executions>>

-----------------------------------------------------------------------------

\* The steps a command already issued still has to take.
Proceed(c) ==
  \/ Load(c) \/ Save(c) \/ ProviderResult(c)
  \/ ApproveWriteArtifact(c) \/ ApproveCommit(c) \/ ApproveFail(c)
  \/ ConfirmWriteArtifact(c) \/ ConfirmCommit(c) \/ ConfirmFail(c)

\* Whether --force or --force-from is given.
Forced == IF "force" \in Commands THEN BOOLEAN ELSE {FALSE}

Issue(c) ==
  \/ \E forced \in Forced : WfNext(c, forced)
  \/ \E p \in PhaseArg, forced \in Forced : WfNextPhase(c, p, forced) \/ WfDecide(c, p, forced)
  \/ \E p \in PhaseArg : WfApplyResult(c, p)
  \/ \E actor \in Actor : ApproveBegin(c, actor) \/ ConfirmBegin(c, actor)

Environment ==
  \/ \E reason \in Reason : WfDbCheck(reason)
  \/ \E id \in WorkflowId, class \in Classes : WfReset(id, class)
  \/ WfRevise \/ WfReject \/ WfHold
  \/ ParentPassesPlan
  \/ \E identity \in Identity : EditPlanning(identity)

Next ==
  \/ \E c \in Cli : Proceed(c) \/ Issue(c) \/ Crash(c)
  \/ Environment

Spec == Init /\ [][Next]_vars

-----------------------------------------------------------------------------
(* Safety.                                                                 *)

\* Every copy of the document a process can act on: the file and the snapshots.
Documents == {stateFile} \cup {cli[c].snap : c \in {d \in Cli : cli[d].snap # NoSnapshot}}

\* A database escalation is never half undone: no copy of the document, however
\* stale the save that wrote it, is escalated and at the same time low risk or
\* still skipping review, approve or verify (the merge in _save_workflow_state).
EscalationInv == \A s \in Documents : EscalationConsistent(s)

\* Gates and phases agree in every copy: restoring a skipped phase restores its
\* gate, replanning clears both, and no merge leaves one without the other.
GatesInv == \A s \in Documents : GatesAgree(s)

\* A save based on a snapshot older than the promotion never loses an audited
\* escalation of the same generation.
EscalationSticks ==
  [][stateFile'.generation = stateFile.generation
       => stateFile.events \subseteq stateFile'.events]_stateFile

\* approve and done are decided by a person only: G3 passes, in any copy, only
\* with the approval artifact of that very decision on disk, and a completed
\* Done has the confirmation artifact of its workflow, whatever crashed.
DecisionsBacked ==
  \A s \in Documents :
    /\ s.gate["approve"] = "pass" => approvalFile # NoArtifact /\ approvalFile = s.seal
    /\ s.status["done"] = "completed" =>
         confirmationFile # NoArtifact /\ confirmationFile.id = s.id

\* With one process at a time the counter that enforces MAX_TOTAL_EXECUTIONS
\* counts every execution of the generation, across replans and crashes.
ExecutionsAccounted == executions = stateFile.totalExecutions /\ executions <= MaxTotalExecutions

\* "verify warns at 3 and aborts hard at 5": with one process at a time and no
\* --force the verify executions stay within the limit, whatever crashes and
\* however often a replan makes verify pending again.
FixLoopHardLimit == stateFile.verifyExecutions <= FixLoopLimit

-----------------------------------------------------------------------------
(* What documents and comments of the repository say and the code does not *)
(* keep.                                                                   *)

\* A failed state commit rolls the approval back: state and artifact both absent.
FailedApprovalRolledBack == stateFile.gate["approve"] = "pass" => approvalFile # NoArtifact
=============================================================================
