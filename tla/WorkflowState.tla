---------------------------- MODULE WorkflowState ----------------------------
(***************************************************************************)
(* The document `.workflow/state.json` and every function of the workflow  *)
(* core that computes a new document from an old one.  There are no        *)
(* variables here: the modules that own a copy of the document (the file,  *)
(* a CLI process's snapshot of it) apply these operators to their copy.    *)
(*                                                                         *)
(* Kept of the document: identity, change class, current phase, per-phase  *)
(* status and retries, the gates, the approval seal in G3, the execution   *)
(* and replan counters and the database-risk audit events.  Timestamps,    *)
(* telemetry, provider names and the rest of the history are left out: no  *)
(* code path of the state machine reads them.                              *)
(***************************************************************************)
EXTENDS Naturals, Sequences

CONSTANTS
  Reason,              \* normalised reason sets a database check can report
  Identity,            \* contents the six planning artifacts can have, by hash
  Actor,               \* (actor, reason text) pairs an operator can decide under
  WorkflowId,          \* workflow ids: creation date and concept slug
  RetryMax,            \* retry.max of each phase's agent card
  MaxTotalExecutions,  \* MAX_TOTAL_EXECUTIONS, 30 in the code
  ReplanCap,           \* bound: replanCount is counted up to here
  NoSeal               \* G3.scope_hash = null

PHASE_ORDER == <<"plan", "review", "approve", "impl", "verify", "test", "done">>

Phase == {"plan", "review", "approve", "impl", "verify", "test", "done"}

\* Phases with an entry in PHASE_GATE; gates are indexed by their phase, so
\* "plan" stands for G1, ..., "test" for G6.
GatedPhase == Phase \ {"done"}

PhaseIndex == [p \in Phase |-> CHOOSE i \in 1..Len(PHASE_ORDER) : PHASE_ORDER[i] = p]

ASSUME ConstantsAssumption ==
  /\ RetryMax \in [Phase -> Nat]
  /\ MaxTotalExecutions \in Nat /\ ReplanCap \in Nat
  /\ NoSeal \notin [identity : Identity, actor : Actor]

ChangeClass == {"small", "standard", "high_risk"}

PhaseStatus == {"pending", "in_progress", "completed", "failed", "skipped",
                "escaped", "deciding", "aborted", "rejected"}

Terminal == {"aborted", "completed", "rejected"}

\* passed = null, passed = true, passed = false, and the policy auto-pass.
GateValue == {"none", "pass", "fail", "auto"}

\* What G3 and approval.json record of one approval.
Approval == [identity : Identity, actor : Actor]

WorkflowDocument ==
  [id : WorkflowId, generation : Nat, changeClass : ChangeClass,
   currentPhase : Phase \cup Terminal,
   status : [Phase -> PhaseStatus], retries : [Phase -> Nat],
   verifyExecutions : Nat,
   gate : [GatedPhase -> GateValue], seal : Approval \cup {NoSeal},
   totalExecutions : Nat, replanCount : Nat, events : SUBSET Reason]

\* _initial_workflow_state, with the class detect_change_class gave the concept.
InitialWorkflowState(id, generation, changeClass) ==
  [id |-> id, generation |-> generation, changeClass |-> changeClass,
   currentPhase |-> "plan",
   status |-> [p \in Phase |-> "pending"], retries |-> [p \in Phase |-> 0],
   verifyExecutions |-> 0,
   gate |-> [p \in GatedPhase |-> "none"], seal |-> NoSeal,
   totalExecutions |-> 0, replanCount |-> 0, events |-> {}]

-----------------------------------------------------------------------------
(* Policy skips of the change class.                                       *)

PolicySkippable == {"review", "approve", "verify"}

SkipPhases(changeClass) == IF changeClass = "small" THEN PolicySkippable ELSE {}

\* Every pending skippable phase becomes skipped and its gate auto-passes.
\* "skipped" is written nowhere else, so a skipped phase is a small-policy one.
ApplyPolicySkips(s) ==
  LET skipped == {p \in SkipPhases(s.changeClass) : s.status[p] = "pending"}
  IN  [s EXCEPT
        !.status = [p \in Phase |-> IF p \in skipped THEN "skipped" ELSE s.status[p]],
        !.gate = [p \in GatedPhase |-> IF p \in skipped THEN "auto" ELSE s.gate[p]],
        !.seal = IF "approve" \in skipped THEN NoSeal ELSE s.seal]

-----------------------------------------------------------------------------
(* Database risk: the promotion, and the merge every plain save performs.  *)

Escalated(s) == s.events # {}

\* Mutant: the phases are restored, their auto-passed gates are not.
PromoteKeepingGates(s, reason) ==
  LET restored == {p \in PolicySkippable : s.status[p] = "skipped"}
  IN  [s EXCEPT
        !.changeClass = "high_risk",
        !.status = [p \in Phase |-> IF p \in restored THEN "pending" ELSE s.status[p]],
        !.events = s.events \cup {reason}]

PromoteToHighRisk(s, reason) ==
  LET restored == {p \in PolicySkippable : s.status[p] = "skipped"}
  IN  [s EXCEPT
        !.changeClass = "high_risk",
        !.status = [p \in Phase |-> IF p \in restored THEN "pending" ELSE s.status[p]],
        !.retries = [p \in Phase |-> IF p \in restored THEN 0 ELSE s.retries[p]],
        !.verifyExecutions = IF "verify" \in restored THEN 0 ELSE s.verifyExecutions,
        !.gate = [p \in GatedPhase |->
                    IF p \in restored /\ s.gate[p] = "auto" THEN "none" ELSE s.gate[p]],
        !.events = s.events \cup {reason}]

\* Mutant: only the class and the audit events are merged.
MergeEventsOnly(s, current) ==
  IF ~Escalated(current) \/ s.generation # current.generation THEN s
  ELSE [s EXCEPT !.changeClass = "high_risk", !.events = s.events \cup current.events]

\* Mutant: the merge keeps the class and forgets the audit events behind it.
MergeWithoutEvents(s, current) ==
  IF ~Escalated(current) \/ s.generation # current.generation THEN s
  ELSE [s EXCEPT !.changeClass = "high_risk"]

\* _merge_database_risk_facts: s is about to replace current on disk.
MergeDatabaseRisk(s, current) ==
  LET stale == {p \in PolicySkippable : s.status[p] = "skipped"}
      staleGate == {p \in stale : s.gate[p] = "auto"}
  IN  IF ~Escalated(current) \/ s.generation # current.generation THEN s
      ELSE [s EXCEPT
        !.changeClass = "high_risk",
        !.status = [p \in Phase |-> IF p \in stale THEN current.status[p] ELSE s.status[p]],
        !.retries = [p \in Phase |-> IF p \in stale THEN current.retries[p] ELSE s.retries[p]],
        !.verifyExecutions =
            IF "verify" \in stale THEN current.verifyExecutions ELSE s.verifyExecutions,
        !.gate = [p \in GatedPhase |-> IF p \in staleGate THEN current.gate[p] ELSE s.gate[p]],
        !.seal = IF "approve" \in staleGate THEN current.seal ELSE s.seal,
        !.events = s.events \cup current.events]

-----------------------------------------------------------------------------
(* Phase order.                                                            *)

IsFirstOpen(s, from, p) ==
  /\ PhaseIndex[p] >= from
  /\ s.status[p] \notin {"completed", "skipped"}
  /\ \A q \in Phase : /\ PhaseIndex[q] >= from
                      /\ s.status[q] \notin {"completed", "skipped"}
                      => PhaseIndex[q] >= PhaseIndex[p]

\* The first phase at or after position `from` that is neither completed nor
\* skipped, "completed" when there is none.
NextOpenPhase(s, from) ==
  IF \E p \in Phase : IsFirstOpen(s, from, p)
  THEN CHOOSE p \in Phase : IsFirstOpen(s, from, p)
  ELSE "completed"

\* resolve_next_phase without an explicit phase, on a document whose policy
\* skips were applied; the callers check that the workflow is not terminal.
ResolveNextPhase(s) ==
  IF NextOpenPhase(s, 1) = "completed" THEN s.currentPhase ELSE NextOpenPhase(s, 1)

-----------------------------------------------------------------------------
(* Starting a phase and applying its gate.                                 *)

ExecutionLimitReached(s) == s.totalExecutions >= MaxTotalExecutions

\* Mutant: starting a phase is not counted, only its gate results are.
MarkWithoutCounting(s, p) ==
  [s EXCEPT !.verifyExecutions = IF p = "verify" THEN @ + 1 ELSE @,
            !.status[p] = "in_progress",
            !.currentPhase = p]

MarkPhaseInProgress(s, p) ==
  [s EXCEPT !.totalExecutions = @ + 1,
            !.verifyExecutions = IF p = "verify" THEN @ + 1 ELSE @,
            !.status[p] = "in_progress",
            !.currentPhase = p]

GatePassed(s, p) ==
  LET recorded == ApplyPolicySkips(
        [s EXCEPT !.totalExecutions = @ + 1, !.gate[p] = "pass", !.status[p] = "completed"])
  IN  [recorded EXCEPT !.currentPhase = NextOpenPhase(recorded, PhaseIndex[p] + 1)]

RetryExhausted(s, p) == s.retries[p] + 1 > RetryMax[p]

\* The save of a failed gate.  Without on_fail routing the failed phase becomes
\* the current one; with it the current phase is left to the routing's own save.
GateFailed(s, p, routed) ==
  [s EXCEPT !.totalExecutions = @ + 1, !.gate[p] = "fail", !.retries[p] = @ + 1,
            !.status[p] = IF RetryExhausted(s, p) THEN "aborted" ELSE "failed",
            !.currentPhase = IF RetryExhausted(s, p) THEN "aborted"
                             ELSE IF routed THEN @ ELSE p]

-----------------------------------------------------------------------------
(* Escapes and orchestrator decisions.                                     *)

\* The counter is read only by the comparison with maxReplans, which ReplanCap
\* is not below, so counting further tells no two documents apart.
OneMoreReplan(n) == IF n < ReplanCap THEN n + 1 ELSE n

\* Mutant: the status is written where the phase belongs.
EscapeAsCurrentPhase(s, p) == [s EXCEPT !.status[p] = "escaped", !.currentPhase = "escaped"]

RecordPhaseEscape(s, p) == [s EXCEPT !.status[p] = "escaped", !.currentPhase = p]

RecordDecision(s, p) == [s EXCEPT !.status[p] = "deciding", !.currentPhase = p]

ContinueWorkflow(s, p) == [s EXCEPT !.status[p] = "in_progress", !.currentPhase = p]

AbortWorkflow(s, p) == [s EXCEPT !.status[p] = "aborted", !.currentPhase = "aborted"]

\* The target and every later phase are pending again and their gates initial;
\* retries and executions are kept.
ReplanWorkflow(s, target) ==
  LET reopened == {p \in Phase : PhaseIndex[p] >= PhaseIndex[target]}
  IN  [s EXCEPT
        !.status = [p \in Phase |-> IF p \in reopened THEN "pending" ELSE s.status[p]],
        !.gate = [p \in GatedPhase |-> IF p \in reopened THEN "none" ELSE s.gate[p]],
        !.seal = IF "approve" \in reopened THEN NoSeal ELSE s.seal,
        !.currentPhase = target,
        !.replanCount = OneMoreReplan(@)]

-----------------------------------------------------------------------------
(* Parent-only decisions: approval (G3) and the Done confirmation.         *)

ApprovalPending(s) ==
  /\ s.gate["review"] \in {"pass", "auto"}
  /\ s.currentPhase = "approve"
  /\ s.status["review"] = "completed"
  /\ s.status["approve"] = "pending"
  /\ s.gate["approve"] = "none"
  /\ s.seal = NoSeal

RecordApproved(s, approval) ==
  [s EXCEPT !.status["approve"] = "completed", !.gate["approve"] = "pass",
            !.seal = approval, !.currentPhase = "impl"]

RecordRevision(s) ==
  [s EXCEPT !.status = [p \in Phase |-> "pending"], !.retries = [p \in Phase |-> 0],
            !.verifyExecutions = 0, !.gate = [p \in GatedPhase |-> "none"],
            !.seal = NoSeal, !.currentPhase = "plan", !.replanCount = OneMoreReplan(@)]

RecordRejected(s) ==
  [s EXCEPT !.status["approve"] = "rejected", !.gate["approve"] = "fail",
            !.seal = NoSeal, !.currentPhase = "rejected"]

DoneCurrent(s) ==
  /\ s.gate["test"] = "pass"
  /\ s.currentPhase = "done"
  /\ s.status["test"] = "completed"
  /\ s.status["done"] \in {"pending", "in_progress"}

RecordCompleted(s) == [s EXCEPT !.status["done"] = "completed", !.currentPhase = "completed"]

RecordHold(s) == [s EXCEPT !.status["done"] = "pending"]

\* The parent session records a passed G1 by editing the document itself.
PlanPassed(s) == [s EXCEPT !.status["plan"] = "completed", !.gate["plan"] = "pass",
                           !.currentPhase = "review"]

-----------------------------------------------------------------------------
(* What every document the program writes is meant to satisfy.             *)

\* An escalated workflow is high risk and none of its phases is policy-skipped.
EscalationConsistent(s) ==
  Escalated(s) => /\ s.changeClass = "high_risk"
                  /\ \A p \in Phase : s.status[p] # "skipped"

\* Only the phases the small policy may skip are ever skipped.
OnlyPolicySkips(s) == \A p \in Phase : s.status[p] = "skipped" => p \in PolicySkippable

\* A phase that still has to run has no verdict, a skipped one has the policy's,
\* a completed one has a passed gate.
GatesAgree(s) ==
  \A p \in GatedPhase :
    /\ s.status[p] = "pending" => s.gate[p] = "none"
    /\ s.status[p] = "skipped" => s.gate[p] = "auto"
    /\ s.status[p] = "completed" => s.gate[p] = "pass"
=============================================================================
