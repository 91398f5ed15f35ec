------------------------- MODULE WorkflowStoreProofs -------------------------
(***************************************************************************)
(* Theorems about the shared workflow store, for any number of processes,  *)
(* phases in use, retry budgets and bounds; first what the functions on    *)
(* the state document preserve, for all phases, classes and reasons.       *)
(*                                                                         *)
(* The inductive invariant says that the file and every snapshot a process *)
(* holds are sound documents, and that the operations a process has queued *)
(* are ones a command may queue: the merge of a save is only as good as    *)
(* the stale snapshot it starts from.                                      *)
(***************************************************************************)
EXTENDS WorkflowStore, SequenceTheorems, TLAPS

-----------------------------------------------------------------------------
(* The document.                                                           *)

\* The conditions every document written by the program satisfies.  The third
\* is what makes the second inductive: the promotion restores three phases, so it
\* must know that no other phase is skipped.
Sound(s) ==
  /\ s \in WorkflowDocument
  /\ EscalationConsistent(s)
  /\ OnlyPolicySkips(s)
  /\ GatesAgree(s)

\* The next open phase is a phase, or the workflow is completed.
LEMMA NextOpenPhaseType ==
  ASSUME NEW s, NEW from
  PROVE  NextOpenPhase(s, from) \in Phase \cup {"completed"}
BY DEF NextOpenPhase

\* A fresh workflow of any class is sound.
LEMMA InitialSound ==
  ASSUME NEW id \in WorkflowId, NEW generation \in Nat, NEW class \in ChangeClass
  PROVE  Sound(InitialWorkflowState(id, generation, class))
<1> DEFINE s == InitialWorkflowState(id, generation, class)
<1>1. s \in WorkflowDocument
  BY DEF InitialWorkflowState, WorkflowDocument, Phase, GatedPhase, PhaseStatus, GateValue
<1>2. EscalationConsistent(s) /\ OnlyPolicySkips(s)
  BY DEF InitialWorkflowState, EscalationConsistent, Escalated, OnlyPolicySkips
<1>3. GatesAgree(s)
  BY DEF InitialWorkflowState, GatesAgree, GatedPhase
<1> QED BY <1>1, <1>2, <1>3 DEF Sound

\* Policy skips never touch an escalated document, and pass the gates they skip.
LEMMA PolicySkipsSound ==
  ASSUME NEW s, Sound(s)
  PROVE  Sound(ApplyPolicySkips(s))
<1> DEFINE t == ApplyPolicySkips(s)
<1>1. t \in WorkflowDocument
  BY DEF ApplyPolicySkips, SkipPhases, PolicySkippable, Sound, WorkflowDocument,
         Phase, GatedPhase, PhaseStatus, GateValue
<1>2. EscalationConsistent(t) /\ OnlyPolicySkips(t)
  BY DEF ApplyPolicySkips, SkipPhases, PolicySkippable, Sound, WorkflowDocument,
         EscalationConsistent, Escalated, OnlyPolicySkips
<1>3. GatesAgree(t)
  BY DEF ApplyPolicySkips, SkipPhases, PolicySkippable, Sound, WorkflowDocument,
         GatesAgree, GatedPhase
<1> QED BY <1>1, <1>2, <1>3 DEF Sound

\* The promotion leaves a consistently escalated document.
LEMMA PromoteSound ==
  ASSUME NEW s, Sound(s), NEW reason \in Reason
  PROVE  Sound(PromoteToHighRisk(s, reason))
<1> DEFINE t == PromoteToHighRisk(s, reason)
<1>1. t \in WorkflowDocument
  BY DEF PromoteToHighRisk, PolicySkippable, Sound, WorkflowDocument,
         Phase, GatedPhase, PhaseStatus, GateValue, ChangeClass
<1>2. /\ t.changeClass = "high_risk"
      /\ t.status = [p \in Phase |-> IF p \in PolicySkippable /\ s.status[p] = "skipped"
                                     THEN "pending" ELSE s.status[p]]
      /\ t.gate = [p \in GatedPhase |->
                     IF p \in PolicySkippable /\ s.status[p] = "skipped" /\ s.gate[p] = "auto"
                     THEN "none" ELSE s.gate[p]]
  BY DEF PromoteToHighRisk, Sound, WorkflowDocument
<1>3. \A p \in Phase : t.status[p] # "skipped"
  BY <1>2 DEF Sound, OnlyPolicySkips
<1>4. GatesAgree(t)
  BY <1>2 DEF Sound, GatesAgree, GatedPhase
<1> QED BY <1>1, <1>2, <1>3, <1>4 DEF Sound, EscalationConsistent, OnlyPolicySkips

\* A save merged onto an escalated document of its generation is escalated and
\* consistent, whatever the saved document skipped.
LEMMA MergeSound ==
  ASSUME NEW s, Sound(s), NEW current, Sound(current)
  PROVE  /\ Sound(MergeDatabaseRisk(s, current))
         /\ MergeDatabaseRisk(s, current).generation = s.generation
         /\ s.generation = current.generation
              => current.events \subseteq MergeDatabaseRisk(s, current).events
<1> DEFINE t == MergeDatabaseRisk(s, current)
           stale == {p \in PolicySkippable : s.status[p] = "skipped"}
<1>1. CASE ~Escalated(current) \/ s.generation # current.generation
  BY <1>1 DEF MergeDatabaseRisk, Escalated
<1>2. CASE Escalated(current) /\ s.generation = current.generation
  <2>1. t \in WorkflowDocument
    <3> DEFINE status == [p \in Phase |-> IF p \in stale THEN current.status[p] ELSE s.status[p]]
               retries == [p \in Phase |-> IF p \in stale THEN current.retries[p] ELSE s.retries[p]]
               gate == [p \in GatedPhase |-> IF p \in {q \in stale : s.gate[q] = "auto"}
                                              THEN current.gate[p] ELSE s.gate[p]]
               verified == IF "verify" \in stale THEN current.verifyExecutions
                           ELSE s.verifyExecutions
               seal == IF "approve" \in {q \in stale : s.gate[q] = "auto"} THEN current.seal
                       ELSE s.seal
    <3>1. status \in [Phase -> PhaseStatus] /\ retries \in [Phase -> Nat]
      BY DEF Sound, WorkflowDocument
    <3>2. gate \in [GatedPhase -> GateValue]
      BY DEF Sound, WorkflowDocument
    <3>3. verified \in Nat /\ seal \in Approval \cup {NoSeal}
      BY DEF Sound, WorkflowDocument
    <3>4. "high_risk" \in ChangeClass /\ s.events \cup current.events \in SUBSET Reason
      BY DEF Sound, WorkflowDocument, ChangeClass
    <3>5. t = [s EXCEPT !.changeClass = "high_risk", !.status = status, !.retries = retries,
                        !.verifyExecutions = verified, !.gate = gate, !.seal = seal,
                        !.events = s.events \cup current.events]
      BY <1>2 DEF MergeDatabaseRisk
    <3> HIDE DEF status, retries, gate, verified, seal
    <3> QED BY <3>1, <3>2, <3>3, <3>4, <3>5 DEF Sound, WorkflowDocument
  <2>2. /\ t.changeClass = "high_risk"
        /\ t.generation = s.generation
        /\ t.events = s.events \cup current.events
        /\ t.status = [p \in Phase |-> IF p \in stale THEN current.status[p] ELSE s.status[p]]
        /\ t.gate = [p \in GatedPhase |->
                       IF p \in stale /\ s.gate[p] = "auto" THEN current.gate[p] ELSE s.gate[p]]
    BY <1>2 DEF MergeDatabaseRisk, Sound, WorkflowDocument
  <2>3. \A p \in Phase : t.status[p] # "skipped"
    BY <1>2, <2>2 DEF Sound, OnlyPolicySkips, EscalationConsistent
  <2>4. GatesAgree(t)
    BY <2>2 DEF Sound, GatesAgree, GatedPhase, PolicySkippable, Phase
  <2> QED BY <2>1, <2>2, <2>3, <2>4 DEF Sound, EscalationConsistent, OnlyPolicySkips
<1> QED BY <1>1, <1>2

-----------------------------------------------------------------------------
(* Operations on one phase.                                                *)

\* A document that differs from a sound one in the entries of one phase, which is
\* not skipped and has a passed gate if it is completed, is sound.
LEMMA OnePhaseSound ==
  ASSUME NEW s, Sound(s), NEW t \in WorkflowDocument, NEW p \in Phase,
         t.changeClass = s.changeClass, t.events = s.events,
         \A q \in Phase \ {p} : t.status[q] = s.status[q],
         \A q \in GatedPhase \ {p} : t.gate[q] = s.gate[q],
         t.status[p] # "skipped",
         p \in GatedPhase => /\ t.status[p] = "pending" => t.gate[p] = "none"
                             /\ t.status[p] = "completed" => t.gate[p] = "pass"
  PROVE  Sound(t)
<1>1. EscalationConsistent(t) /\ OnlyPolicySkips(t)
  BY DEF Sound, WorkflowDocument, EscalationConsistent, Escalated, OnlyPolicySkips
<1>2. GatesAgree(t)
  BY DEF Sound, WorkflowDocument, GatesAgree, GatedPhase
<1> QED BY <1>1, <1>2 DEF Sound

\* Starting a phase leaves its gate alone.
LEMMA MarkSound ==
  ASSUME NEW s, Sound(s), NEW p \in Phase
  PROVE  Sound(MarkPhaseInProgress(s, p))
<1> DEFINE t == MarkPhaseInProgress(s, p)
           verified == IF p = "verify" THEN s.verifyExecutions + 1 ELSE s.verifyExecutions
<1>1. verified \in Nat /\ s.totalExecutions + 1 \in Nat
  BY DEF Sound, WorkflowDocument
<1>2. [s.status EXCEPT ![p] = "in_progress"] \in [Phase -> PhaseStatus]
  BY DEF Sound, WorkflowDocument, PhaseStatus
<1>3. t = [s EXCEPT !.totalExecutions = s.totalExecutions + 1, !.verifyExecutions = verified,
                    !.status = [s.status EXCEPT ![p] = "in_progress"], !.currentPhase = p]
  BY DEF MarkPhaseInProgress, Sound, WorkflowDocument
<1> HIDE DEF verified, t
<1>4. t \in WorkflowDocument
  BY <1>1, <1>2, <1>3 DEF Sound, WorkflowDocument
<1>5. /\ t.changeClass = s.changeClass /\ t.events = s.events /\ t.gate = s.gate
      /\ t.status = [s.status EXCEPT ![p] = "in_progress"]
  BY <1>3 DEF Sound, WorkflowDocument
<1>6. Sound(t)
  BY <1>4, <1>5, OnePhaseSound DEF Sound, WorkflowDocument
<1> QED BY <1>6 DEF t

\* Escaping, deciding, continuing and aborting a phase leave every gate alone.
LEMMA DecisionsSound ==
  ASSUME NEW s, Sound(s), NEW p \in Phase
  PROVE  /\ Sound(RecordPhaseEscape(s, p)) /\ Sound(RecordDecision(s, p))
         /\ Sound(ContinueWorkflow(s, p)) /\ Sound(AbortWorkflow(s, p))
<1>1. ASSUME NEW status \in {"escaped", "deciding", "in_progress", "aborted"},
             NEW current \in Phase \cup Terminal
      PROVE  Sound([s EXCEPT !.status[p] = status, !.currentPhase = current])
  <2> DEFINE t == [s EXCEPT !.status[p] = status, !.currentPhase = current]
  <2>1. t \in WorkflowDocument
    BY DEF Sound, WorkflowDocument, PhaseStatus
  <2>2. /\ t.changeClass = s.changeClass /\ t.events = s.events /\ t.gate = s.gate
        /\ t.status = [s.status EXCEPT ![p] = status]
    BY DEF Sound, WorkflowDocument
  <2> QED BY <2>1, <2>2, OnePhaseSound DEF Sound, WorkflowDocument
<1>2. "aborted" \in Terminal
  BY DEF Terminal
<1> QED BY <1>1, <1>2 DEF RecordPhaseEscape, RecordDecision, ContinueWorkflow, AbortWorkflow

\* A passed gate completes its phase; the policy skips that follow keep it sound.
LEMMA GatePassedSound ==
  ASSUME NEW s, Sound(s), NEW p \in GatedPhase
  PROVE  Sound(GatePassed(s, p))
<1> DEFINE status == [s.status EXCEPT ![p] = "completed"]
           gate == [s.gate EXCEPT ![p] = "pass"]
           t == [s EXCEPT !.totalExecutions = s.totalExecutions + 1, !.gate = gate,
                          !.status = status]
           u == ApplyPolicySkips(t)
           next == NextOpenPhase(u, PhaseIndex[p] + 1)
<1>1. p \in Phase
  BY DEF GatedPhase
<1>2. /\ status \in [Phase -> PhaseStatus] /\ gate \in [GatedPhase -> GateValue]
      /\ s.totalExecutions + 1 \in Nat
  BY <1>1 DEF Sound, WorkflowDocument, PhaseStatus, GateValue
<1>3. GatePassed(s, p) = [u EXCEPT !.currentPhase = next]
  BY DEF GatePassed, Sound, WorkflowDocument
<1>4. /\ \A q \in Phase \ {p} : status[q] = s.status[q]
      /\ \A q \in GatedPhase \ {p} : gate[q] = s.gate[q]
      /\ status[p] = "completed" /\ gate[p] = "pass"
  BY <1>1 DEF Sound, WorkflowDocument
<1> HIDE DEF status, gate
<1>5. /\ t \in WorkflowDocument
      /\ t.changeClass = s.changeClass /\ t.events = s.events
      /\ t.status = status /\ t.gate = gate
  BY <1>2 DEF Sound, WorkflowDocument
<1> HIDE DEF t
<1>6. Sound(t)
  BY <1>1, <1>4, <1>5, OnePhaseSound
<1>7. Sound(u)
  BY <1>6, PolicySkipsSound
<1>8. next \in Phase \cup Terminal
  BY NextOpenPhaseType DEF Terminal
<1> HIDE DEF u, next
<1>9. Sound([u EXCEPT !.currentPhase = next])
  BY <1>7, <1>8 DEF Sound, WorkflowDocument, EscalationConsistent, Escalated,
                    OnlyPolicySkips, GatesAgree
<1> QED BY <1>3, <1>9

\* A failed gate leaves its phase failed or aborted.
LEMMA GateFailedSound ==
  ASSUME NEW s, Sound(s), NEW p \in GatedPhase, NEW routed \in BOOLEAN
  PROVE  Sound(GateFailed(s, p, routed))
<1> DEFINE outcome == IF RetryExhausted(s, p) THEN "aborted" ELSE "failed"
           current == IF RetryExhausted(s, p) THEN "aborted"
                      ELSE IF routed THEN s.currentPhase ELSE p
           status == [s.status EXCEPT ![p] = outcome]
           gate == [s.gate EXCEPT ![p] = "fail"]
           retries == [s.retries EXCEPT ![p] = s.retries[p] + 1]
           t == [s EXCEPT !.totalExecutions = s.totalExecutions + 1, !.gate = gate,
                          !.retries = retries, !.status = status, !.currentPhase = current]
<1>1. p \in Phase
  BY DEF GatedPhase
<1>2. GateFailed(s, p, routed) = t
  BY <1>1 DEF GateFailed, Sound, WorkflowDocument
<1>3. outcome \in {"aborted", "failed"} /\ current \in Phase \cup Terminal
  BY <1>1 DEF Sound, WorkflowDocument, Terminal
<1> HIDE DEF outcome, current
<1>4. /\ status \in [Phase -> PhaseStatus] /\ gate \in [GatedPhase -> GateValue]
      /\ retries \in [Phase -> Nat] /\ s.totalExecutions + 1 \in Nat
  BY <1>1, <1>3 DEF Sound, WorkflowDocument, PhaseStatus, GateValue
<1>5. /\ \A q \in Phase \ {p} : status[q] = s.status[q]
      /\ \A q \in GatedPhase \ {p} : gate[q] = s.gate[q]
      /\ status[p] = outcome
  BY <1>1 DEF Sound, WorkflowDocument
<1> HIDE DEF status, gate, retries
<1>6. /\ t \in WorkflowDocument
      /\ t.changeClass = s.changeClass /\ t.events = s.events
      /\ t.status = status /\ t.gate = gate
  BY <1>3, <1>4 DEF Sound, WorkflowDocument
<1> HIDE DEF t
<1>7. Sound(t)
  BY <1>1, <1>3, <1>5, <1>6, OnePhaseSound
<1> QED BY <1>2, <1>7

\* A replan reopens phases together with their gates.
LEMMA ReplanSound ==
  ASSUME NEW s, Sound(s), NEW target \in Phase, ReplanCap \in Nat
  PROVE  Sound(ReplanWorkflow(s, target))
<1> DEFINE reopened == {p \in Phase : PhaseIndex[p] >= PhaseIndex[target]}
           status == [p \in Phase |-> IF p \in reopened THEN "pending" ELSE s.status[p]]
           gate == [p \in GatedPhase |-> IF p \in reopened THEN "none" ELSE s.gate[p]]
           seal == IF "approve" \in reopened THEN NoSeal ELSE s.seal
           t == ReplanWorkflow(s, target)
<1>1. /\ status \in [Phase -> PhaseStatus] /\ gate \in [GatedPhase -> GateValue]
      /\ seal \in Approval \cup {NoSeal}
  BY DEF Sound, WorkflowDocument, PhaseStatus, GateValue
<1>2. OneMoreReplan(s.replanCount) \in Nat
  BY DEF OneMoreReplan, Sound, WorkflowDocument
<1>3. t = [s EXCEPT !.status = status, !.gate = gate, !.seal = seal,
                    !.currentPhase = target, !.replanCount = OneMoreReplan(s.replanCount)]
  BY DEF ReplanWorkflow, Sound, WorkflowDocument
<1>4. \A p \in Phase : status[p] \in {"pending", s.status[p]}
  OBVIOUS
<1>5. GatesAgree([s EXCEPT !.status = status, !.gate = gate])
  BY DEF Sound, WorkflowDocument, GatesAgree, GatedPhase
<1> HIDE DEF reopened, status, gate, seal, t
<1>6. t \in WorkflowDocument
  BY <1>1, <1>2, <1>3 DEF Sound, WorkflowDocument
<1>7. /\ t.changeClass = s.changeClass /\ t.events = s.events
      /\ t.status = status /\ t.gate = gate
  BY <1>3 DEF Sound, WorkflowDocument
<1>8. EscalationConsistent(t) /\ OnlyPolicySkips(t)
  BY <1>4, <1>7 DEF Sound, EscalationConsistent, Escalated, OnlyPolicySkips
<1>9. GatesAgree(t)
  BY <1>5, <1>7 DEF GatesAgree, Sound, WorkflowDocument
<1>10. Sound(t)
  BY <1>6, <1>8, <1>9 DEF Sound
<1> QED BY <1>10 DEF t

-----------------------------------------------------------------------------
(* Parent-only decisions.                                                  *)

\* An approval completes its phase and passes G3 in one document.
LEMMA ApprovedSound ==
  ASSUME NEW s, Sound(s), NEW approval \in Approval
  PROVE  Sound(RecordApproved(s, approval))
<1> DEFINE t == RecordApproved(s, approval)
<1>1. t \in WorkflowDocument
  BY DEF RecordApproved, Sound, WorkflowDocument, Phase, GatedPhase, PhaseStatus, GateValue,
         Terminal
<1>2. /\ t.changeClass = s.changeClass /\ t.events = s.events
      /\ t.status = [s.status EXCEPT !["approve"] = "completed"]
      /\ t.gate = [s.gate EXCEPT !["approve"] = "pass"]
  BY DEF RecordApproved, Sound, WorkflowDocument
<1> HIDE DEF t
<1>3. Sound(t)
  BY <1>1, <1>2, OnePhaseSound DEF Sound, WorkflowDocument, Phase, GatedPhase
<1> QED BY <1>3 DEF t

\* A rejection fails G3 with its phase.
LEMMA RejectedSound ==
  ASSUME NEW s, Sound(s)
  PROVE  Sound(RecordRejected(s))
<1> DEFINE t == RecordRejected(s)
<1>1. t \in WorkflowDocument
  BY DEF RecordRejected, Sound, WorkflowDocument, Phase, GatedPhase, PhaseStatus, GateValue,
         Terminal
<1>2. /\ t.changeClass = s.changeClass /\ t.events = s.events
      /\ t.status = [s.status EXCEPT !["approve"] = "rejected"]
      /\ t.gate = [s.gate EXCEPT !["approve"] = "fail"]
  BY DEF RecordRejected, Sound, WorkflowDocument
<1> HIDE DEF t
<1>3. Sound(t)
  BY <1>1, <1>2, OnePhaseSound DEF Sound, WorkflowDocument, Phase, GatedPhase
<1> QED BY <1>3 DEF t

\* Completing Done touches no gate.
LEMMA CompletedSound ==
  ASSUME NEW s, Sound(s)
  PROVE  Sound(RecordCompleted(s))
<1> DEFINE t == RecordCompleted(s)
<1>1. t \in WorkflowDocument
  BY DEF RecordCompleted, Sound, WorkflowDocument, Phase, GatedPhase, PhaseStatus, GateValue,
         Terminal
<1>2. /\ t.changeClass = s.changeClass /\ t.events = s.events
      /\ t.status = [s.status EXCEPT !["done"] = "completed"]
      /\ t.gate = s.gate
  BY DEF RecordCompleted, Sound, WorkflowDocument
<1> HIDE DEF t
<1>3. Sound(t)
  BY <1>1, <1>2, OnePhaseSound DEF Sound, WorkflowDocument, Phase, GatedPhase
<1> QED BY <1>3 DEF t

\* Holding Done touches no gate.
LEMMA HoldSound ==
  ASSUME NEW s, Sound(s)
  PROVE  Sound(RecordHold(s))
<1> DEFINE t == RecordHold(s)
<1>1. t \in WorkflowDocument
  BY DEF RecordHold, Sound, WorkflowDocument, Phase, GatedPhase, PhaseStatus, GateValue,
         Terminal
<1>2. /\ t.changeClass = s.changeClass /\ t.events = s.events
      /\ t.status = [s.status EXCEPT !["done"] = "pending"]
      /\ t.gate = s.gate
  BY DEF RecordHold, Sound, WorkflowDocument
<1> HIDE DEF t
<1>3. Sound(t)
  BY <1>1, <1>2, OnePhaseSound DEF Sound, WorkflowDocument, Phase, GatedPhase
<1> QED BY <1>3 DEF t

\* The parent completes plan and passes G1 in one document.
LEMMA PlanPassedSound ==
  ASSUME NEW s, Sound(s)
  PROVE  Sound(PlanPassed(s))
<1> DEFINE t == PlanPassed(s)
<1>1. t \in WorkflowDocument
  BY DEF PlanPassed, Sound, WorkflowDocument, Phase, GatedPhase, PhaseStatus, GateValue,
         Terminal
<1>2. /\ t.changeClass = s.changeClass /\ t.events = s.events
      /\ t.status = [s.status EXCEPT !["plan"] = "completed"]
      /\ t.gate = [s.gate EXCEPT !["plan"] = "pass"]
  BY DEF PlanPassed, Sound, WorkflowDocument
<1> HIDE DEF t
<1>3. Sound(t)
  BY <1>1, <1>2, OnePhaseSound DEF Sound, WorkflowDocument, Phase, GatedPhase
<1> QED BY <1>3 DEF t

\* A revision reopens every phase and every gate.
LEMMA RevisionSound ==
  ASSUME NEW s, Sound(s), ReplanCap \in Nat
  PROVE  Sound(RecordRevision(s))
<1> DEFINE t == RecordRevision(s)
<1>1. OneMoreReplan(s.replanCount) \in Nat
  BY DEF OneMoreReplan, Sound, WorkflowDocument
<1>2. t \in WorkflowDocument
  BY <1>1 DEF RecordRevision, Sound, WorkflowDocument, Phase, PhaseStatus, GateValue
<1>3. /\ t.changeClass = s.changeClass /\ t.events = s.events
      /\ t.status = [p \in Phase |-> "pending"] /\ t.gate = [p \in GatedPhase |-> "none"]
  BY DEF RecordRevision, Sound, WorkflowDocument
<1> HIDE DEF t
<1>4. EscalationConsistent(t) /\ OnlyPolicySkips(t) /\ GatesAgree(t)
  BY <1>3 DEF Sound, EscalationConsistent, Escalated, OnlyPolicySkips, GatesAgree, GatedPhase
<1>5. Sound(t)
  BY <1>2, <1>4 DEF Sound
<1> QED BY <1>5 DEF t

-----------------------------------------------------------------------------
(* The store.                                                              *)


CliOK ==
  /\ cli \in [Cli -> [ops : Seq(Op), snap : WorkflowDocument \cup {NoSnapshot}]]
  /\ \A c \in Cli : cli[c].snap # NoSnapshot => Sound(cli[c].snap)

FilesOK ==
  /\ Sound(stateFile)
  /\ approvalFile \in Approval \cup {NoArtifact}
  /\ confirmationFile \in Confirmation \cup {NoArtifact}
  /\ planning \in Identity
  /\ executions \in Nat

\* Beyond its type: a transaction has a holder and a decision.
TxnOK ==
  /\ txn \in [kind : {"none", "approve", "complete"}, holder : Cli \cup {Nobody},
              decision : Approval \cup {NoSeal}, written : BOOLEAN, created : BOOLEAN]
  /\ txn.kind # "none" => txn.decision \in Approval

StoreInv == CliOK /\ FilesOK /\ TxnOK

-----------------------------------------------------------------------------
(* Queues of operations.                                                   *)

\* The operations commands queue have the type of operations.
LEMMA OpTypes ==
  ASSUME NEW p \in Phase
  PROVE  /\ \A k \in {"save", "mark", "escape", "decide", "continue", "abort"} :
              Do(k, p, "stay") \in Op
         /\ p \in ResultPhase =>
              /\ Do("pass", p, "stay") \in Op
              /\ \A r \in Phase \cup {"stay", "prompt_user"} : Do("fail", p, r) \in Op
         /\ \A t \in Phase : Do("replan", p, t) \in Op
         /\ \A b \in {"budget", "spent"} : Do("run", p, b) \in Op
BY DEF Do, Op

\* Short queues over a set are sequences over it.
LEMMA QueueTypes ==
  ASSUME NEW S, NEW x \in S, NEW y \in S, NEW z \in S
  PROVE  /\ <<>> \in Seq(S) /\ <<x>> \in Seq(S) /\ <<x, y>> \in Seq(S)
         /\ <<x, y, z>> \in Seq(S)
OBVIOUS

\* Queueing typed operations with a sound snapshot, or none, keeps CliOK.
LEMMA EnqueueOK ==
  ASSUME CliOK, NEW c \in Cli, NEW ops \in Seq(Op), NEW snap,
         snap = NoSnapshot \/ Sound(snap),
         Enqueue(c, ops, snap)
  PROVE  CliOK'
<1>1. cli' = [cli EXCEPT ![c] = [ops |-> ops, snap |-> snap]]
  BY DEF Enqueue
<1>2. [ops |-> ops, snap |-> snap] \in [ops : Seq(Op), snap : WorkflowDocument \cup {NoSnapshot}]
  BY DEF Sound
<1> QED BY <1>1, <1>2 DEF CliOK

\* The document an operation computes from a sound snapshot is sound.
LEMMA OutcomeSound ==
  ASSUME NEW op \in Op, NEW s, Sound(s)
  PROVE  /\ Sound(Outcome(op, s))
<1> USE ConstantsAssumption DEF Outcome
<1>1. op.phase \in Phase
  BY DEF Op, Phase, ResultPhase
<1>2. CASE op.kind = "mark"
  BY <1>1, <1>2, MarkSound
<1>3. CASE op.kind = "pass"
  <2>1. op.phase \in GatedPhase
    BY <1>3 DEF Op, ResultPhase, GatedPhase, Phase
  <2> QED BY <1>3, <2>1, GatePassedSound
<1>4. CASE op.kind = "fail"
  <2>1. op.phase \in GatedPhase
    BY <1>4 DEF Op, ResultPhase, GatedPhase, Phase
  <2>2. (op.arg # "stay") \in BOOLEAN
    OBVIOUS
  <2> QED BY <1>4, <2>1, <2>2, GateFailedSound
<1>5. CASE op.kind \in {"escape", "decide", "continue", "abort"}
  BY <1>1, <1>5, DecisionsSound
<1>6. CASE op.kind = "replan"
  <2>1. op.arg \in Phase
    BY <1>6 DEF Op
  <2> QED BY <1>6, <2>1, ReplanSound
<1>7. CASE op.kind \in {"save", "run"}
  BY <1>7
<1>8. op.kind \in {"mark", "pass", "fail", "escape", "decide", "continue", "abort", "replan",
                   "save", "run"}
  BY DEF Op
<1> QED BY <1>2, <1>3, <1>4, <1>5, <1>6, <1>7, <1>8

-----------------------------------------------------------------------------
(* Each action keeps the invariant.                                        *)

\* A freshly initialised workflow satisfies the invariant.
LEMMA InitOK == Init => StoreInv
<1> SUFFICES ASSUME Init PROVE StoreInv
  OBVIOUS
<1> USE StoreAssumption
<1>1. Sound(stateFile)
  BY InitialSound DEF Init
<1>2. CliOK
  BY QueueTypes DEF Init, CliOK
<1>3. TxnOK
  BY DEF Init, TxnOK, NoTxn
<1> QED BY <1>1, <1>2, <1>3 DEF StoreInv, FilesOK, Init

\* A load takes a snapshot of a sound file, or drops a refused command.
LEMMA LoadOK ==
  ASSUME StoreInv, NEW c \in Cli, Load(c)
  PROVE  StoreInv'
<1>1. CliOK'
  <2>1. cli[c].ops \in Seq(Op) /\ <<>> \in Seq(Op)
    BY DEF StoreInv, CliOK
  <2>2. Sound(stateFile)
    BY DEF StoreInv, FilesOK
  <2>3. CASE Enqueue(c, <<>>, NoSnapshot)
    BY <2>1, <2>3, EnqueueOK DEF StoreInv
  <2>4. CASE Enqueue(c, cli[c].ops, stateFile)
    BY <2>1, <2>2, <2>4, EnqueueOK DEF StoreInv
  <2> QED BY <2>3, <2>4 DEF Load
<1> QED BY <1>1 DEF Load, StoreInv, FilesOK, TxnOK

\* A save writes a sound document and queues what a failed gate routes to.
LEMMA SaveOK ==
  ASSUME StoreInv, NEW c \in Cli, Save(c)
  PROVE  StoreInv'
<1> DEFINE op == Head(cli[c].ops)
           s == cli[c].snap
<1>1. op \in Op /\ Tail(cli[c].ops) \in Seq(Op)
  BY HeadTailProperties DEF Save, StoreInv, CliOK
<1>2. Sound(s) /\ Sound(stateFile)
  BY DEF Save, StoreInv, CliOK, FilesOK
<1>3. Sound(stateFile')
  BY <1>1, <1>2, OutcomeSound, MergeSound DEF Save
<1>4. FollowUp(op, s) \in Seq(Op)
  <2>1. CASE FollowUp(op, s) = <<>>
    <3>1. <<>> \in Seq(Op)
      OBVIOUS
    <3> QED BY <2>1, <3>1
  <2>2. CASE FollowUp(op, s) = <<Do("decide", op.phase, "stay")>>
    <3>1. op.phase \in Phase
      BY <1>1 DEF Op, Phase, ResultPhase
    <3>2. Do("decide", op.phase, "stay") \in Op
      BY <3>1, OpTypes
    <3> QED BY <2>2, <3>2, QueueTypes
  <2>3. CASE /\ op.kind = "fail" /\ op.arg \notin {"stay", "prompt_user"}
             /\ FollowUp(op, s) = <<Do("replan", op.phase, op.arg)>>
    <3>1. op.phase \in Phase /\ op.arg \in Phase
      BY <1>1, <2>3 DEF Op, Phase, ResultPhase
    <3>2. Do("replan", op.phase, op.arg) \in Op
      BY <3>1, OpTypes
    <3> QED BY <2>3, <3>2, QueueTypes
  <2> QED BY <2>1, <2>2, <2>3 DEF FollowUp
<1>5. CliOK'
  <2>1. FollowUp(op, s) \o Tail(cli[c].ops) \in Seq(Op)
    BY <1>1, <1>4, ConcatProperties
  <2> QED BY <2>1, EnqueueOK DEF Save, StoreInv
<1>6. executions' \in Nat
  BY DEF Save, StoreInv, FilesOK
<1> QED BY <1>3, <1>5, <1>6 DEF Save, StoreInv, FilesOK, TxnOK

\* Starting a phase queues typed operations on a sound snapshot.
LEMMA StartNextOK ==
  ASSUME StoreInv, NEW c \in Cli, NEW s, Sound(s), NEW p \in Phase, NEW forced,
         StartNext(c, s, p, forced)
  PROVE  StoreInv'
<1> DEFINE first == <<Do("save", p, "stay")>>
           budget == IF s.replanCount < MaxReplans THEN "budget" ELSE "spent"
           rest == IF p = "verify" /\ OverFixLoopLimit(s) /\ ~forced THEN <<>>
                   ELSE PhaseProgram(p, s.replanCount)
<1>1. /\ Do("save", p, "stay") \in Op /\ Do("mark", p, "stay") \in Op
      /\ Do("run", p, budget) \in Op
  BY OpTypes
<1>2. first \in Seq(Op) /\ PhaseProgram(p, s.replanCount) \in Seq(Op)
  BY <1>1, QueueTypes DEF PhaseProgram
<1>3. <<>> \in Seq(Op)
  OBVIOUS
<1>4. rest \in Seq(Op)
  BY <1>2, <1>3
<1>5. first \o rest \in Seq(Op)
  BY <1>2, <1>4, ConcatProperties
<1>6. CliOK'
  BY <1>5, EnqueueOK DEF StartNext, StoreInv
<1> QED BY <1>6 DEF StartNext, StoreInv, FilesOK, TxnOK

\* Both forms of awf wf next start from a sound snapshot and a real phase.
LEMMA NextCommandsOK ==
  ASSUME StoreInv, NEW c \in Cli, NEW forced,
         \/ WfNext(c, forced)
         \/ \E p \in PhaseArg : WfNextPhase(c, p, forced)
  PROVE  StoreInv'
<1>1. Sound(stateFile)
  BY DEF StoreInv, FilesOK
<1>2. CASE WfNext(c, forced)
  <2> DEFINE s == ApplyPolicySkips(stateFile)
  <2>1. Sound(s)
    BY <1>1, PolicySkipsSound
  <2>2. s.currentPhase = stateFile.currentPhase
    BY <1>1 DEF ApplyPolicySkips, Sound, WorkflowDocument
  <2>3. stateFile.currentPhase \in Phase
    BY <1>1, <1>2 DEF WfNext, Sound, WorkflowDocument
  <2>4. ResolveNextPhase(s) \in Phase
    BY <2>2, <2>3, NextOpenPhaseType DEF ResolveNextPhase
  <2> QED BY <1>2, <2>1, <2>4, StartNextOK DEF WfNext
<1>3. CASE \E p \in PhaseArg : WfNextPhase(c, p, forced)
  BY <1>1, <1>3, StartNextOK, StoreAssumption DEF WfNextPhase
<1> QED BY <1>2, <1>3

\* Whatever a provider returns, the operations it leads to are typed.
LEMMA ProviderResultOK ==
  ASSUME StoreInv, NEW c \in Cli, ProviderResult(c)
  PROVE  StoreInv'
<1> DEFINE p == Head(cli[c].ops).phase
           escape(decision) ==
             <<Do("escape", p, "stay"), Do("decide", p, "stay")>> \o decision
           applied == {<<Do("pass", p, "stay")>>} \cup {<<Do("fail", p, r)>> : r \in OnFail[p]}
           replans == {escape(<<Do("replan", p, t)>>) : t \in PhaseArg}
<1>1. p \in Phase
  <2>1. Head(cli[c].ops) \in Op
    BY HeadTailProperties DEF ProviderResult, StoreInv, CliOK
  <2> QED BY <2>1 DEF Op, Phase, ResultPhase
<1>2. <<>> \in Seq(Op)
  OBVIOUS
<1>3. ASSUME NEW decision \in Seq(Op) PROVE escape(decision) \in Seq(Op)
  <2>1. Do("escape", p, "stay") \in Op /\ Do("decide", p, "stay") \in Op
    BY <1>1, OpTypes
  <2>2. <<Do("escape", p, "stay"), Do("decide", p, "stay")>> \in Seq(Op)
    BY <2>1, QueueTypes
  <2> QED BY <2>2, ConcatProperties
<1>4. <<Do("continue", p, "stay")>> \in Seq(Op) /\ <<Do("abort", p, "stay")>> \in Seq(Op)
  <2>1. Do("continue", p, "stay") \in Op /\ Do("abort", p, "stay") \in Op
    BY <1>1, OpTypes
  <2> QED BY <2>1, QueueTypes
<1>5. replans \subseteq Seq(Op)
  <2>1. ASSUME NEW t \in PhaseArg PROVE <<Do("replan", p, t)>> \in Seq(Op)
    BY <1>1, OpTypes, QueueTypes, StoreAssumption
  <2> QED BY <1>3, <2>1
<1>6. p \in {"review", "verify"} => applied \subseteq Seq(Op)
  <2> SUFFICES ASSUME p \in {"review", "verify"} PROVE applied \subseteq Seq(Op)
    OBVIOUS
  <2>1. p \in ResultPhase
    BY DEF ResultPhase
  <2>2. Do("pass", p, "stay") \in Op
    BY <1>1, <2>1, OpTypes
  <2>3. \A r \in OnFail[p] : Do("fail", p, r) \in Op
    BY <1>1, <2>1, OpTypes, StoreAssumption
  <2> QED BY <2>2, <2>3, QueueTypes
<1>7. \E ops \in Seq(Op) : Enqueue(c, ops, NoSnapshot)
  <2> DEFINE outcomes == {<<>>, escape(<<>>), escape(<<Do("continue", p, "stay")>>),
                          escape(<<Do("abort", p, "stay")>>)}
                         \cup (IF Head(cli[c].ops).arg = "budget" THEN replans ELSE {})
                         \cup (IF p \in {"review", "verify"} THEN applied ELSE {})
  <2>1. outcomes \subseteq Seq(Op)
    <3>1. /\ escape(<<>>) \in Seq(Op)
          /\ escape(<<Do("continue", p, "stay")>>) \in Seq(Op)
          /\ escape(<<Do("abort", p, "stay")>>) \in Seq(Op)
      BY <1>2, <1>3, <1>4
    <3> HIDE DEF escape, applied, replans, p
    <3> QED BY <1>2, <1>5, <1>6, <3>1
  <2>2. PICK ops \in outcomes :
          Enqueue(c, IF p = "impl" /\ ~(stateFile.currentPhase = "impl" /\ SealValid(stateFile))
                     THEN <<>> ELSE ops, NoSnapshot)
    BY DEF ProviderResult
  <2> HIDE DEF outcomes, p
  <2> QED BY <1>2, <2>1, <2>2
<1>8. CliOK'
  BY <1>7, EnqueueOK DEF StoreInv
<1> QED BY <1>8 DEF ProviderResult, StoreInv, FilesOK, TxnOK

\* An explicit result queues typed operations.
LEMMA ApplyResultOK ==
  ASSUME StoreInv, NEW c \in Cli, NEW p \in PhaseArg, WfApplyResult(c, p)
  PROVE  StoreInv'
<1>1. p \in Phase /\ p \in ResultPhase
  BY StoreAssumption DEF WfApplyResult
<1>2. Do("pass", p, "stay") \in Op /\ Do("escape", p, "stay") \in Op
  BY <1>1, OpTypes
<1>3. \A r \in OnFail[p] \cup {"stay"} : Do("fail", p, r) \in Op
  BY <1>1, OpTypes, StoreAssumption
<1> DEFINE results == {<<Do("pass", p, "stay")>>,
                       <<Do("escape", p, "stay"), Do("fail", p, "stay")>>}
                      \cup {<<Do("fail", p, r)>> : r \in OnFail[p]}
<1>4. results \subseteq Seq(Op)
  BY <1>2, <1>3, QueueTypes
<1>5. CliOK'
  <2>1. PICK ops \in results : Enqueue(c, ops, NoSnapshot)
    BY DEF WfApplyResult
  <2> HIDE DEF results
  <2> QED BY <1>4, <2>1, EnqueueOK DEF StoreInv
<1> QED BY <1>5 DEF WfApplyResult, StoreInv, FilesOK, TxnOK

\* An orchestrator decision queues typed operations.
LEMMA DecideOK ==
  ASSUME StoreInv, NEW c \in Cli, NEW p \in PhaseArg, NEW forced, WfDecide(c, p, forced)
  PROVE  StoreInv'
<1> DEFINE decisions == {Do("continue", p, "stay"), Do("abort", p, "stay")}
                        \cup {Do("replan", p, t) : t \in PhaseArg}
<1>1. p \in Phase /\ PhaseArg \subseteq Phase
  BY StoreAssumption
<1>2. decisions \subseteq Op /\ Do("save", p, "stay") \in Op
  BY <1>1, OpTypes
<1>3. PICK op \in decisions :
        \/ Enqueue(c, <<op>>, NoSnapshot)
        \/ Enqueue(c, <<Do("save", p, "stay"), op>>, stateFile)
  BY DEF WfDecide
<1>4. Sound(stateFile)
  BY DEF StoreInv, FilesOK
<1> HIDE DEF decisions
<1>5. <<op>> \in Seq(Op) /\ <<Do("save", p, "stay"), op>> \in Seq(Op)
  BY <1>2, QueueTypes
<1>6. CliOK'
  BY <1>3, <1>4, <1>5, EnqueueOK DEF StoreInv
<1> QED BY <1>6 DEF WfDecide, StoreInv, FilesOK, TxnOK

\* The commands that read and write under the lock keep the invariant.
LEMMA LockedCommandsOK ==
  ASSUME StoreInv,
         \/ \E reason \in Reason : WfDbCheck(reason)
         \/ \E id \in WorkflowId, class \in Classes : WfReset(id, class)
         \/ WfRevise \/ WfReject \/ WfHold \/ ParentPassesPlan
         \/ \E identity \in Identity : EditPlanning(identity)
  PROVE  StoreInv'
<1> USE DEF StoreInv, CliOK, FilesOK, TxnOK
<1>1. ASSUME NEW reason \in Reason, WfDbCheck(reason) PROVE StoreInv'
  BY <1>1, PromoteSound DEF WfDbCheck
<1>2. ASSUME NEW id \in WorkflowId, NEW class \in Classes, WfReset(id, class)
      PROVE  StoreInv'
  <2>1. stateFile.generation + 1 \in Nat /\ class \in ChangeClass
    BY StoreAssumption DEF Sound, WorkflowDocument
  <2>2. Sound(stateFile')
    BY <1>2, <2>1, InitialSound, MergeSound DEF WfReset
  <2> QED BY <1>2, <2>2 DEF WfReset
<1>3. ASSUME WfRevise PROVE StoreInv'
  BY <1>3, RevisionSound, ConstantsAssumption DEF WfRevise
<1>4. CASE WfReject \/ WfHold
  BY <1>4, RejectedSound, HoldSound DEF WfReject, WfHold
<1>5. ASSUME ParentPassesPlan PROVE StoreInv'
  BY <1>5, PlanPassedSound DEF ParentPassesPlan
<1>6. ASSUME NEW identity \in Identity, EditPlanning(identity) PROVE StoreInv'
  BY <1>6 DEF EditPlanning
<1> QED BY <1>1, <1>2, <1>3, <1>4, <1>5, <1>6

\* Every step of the approval transaction keeps the invariant.
LEMMA ApprovalOK ==
  ASSUME StoreInv, NEW c \in Cli,
         \/ \E actor \in Actor : ApproveBegin(c, actor)
         \/ ApproveWriteArtifact(c) \/ ApproveCommit(c) \/ ApproveFail(c)
  PROVE  StoreInv'
<1> USE DEF StoreInv, CliOK, FilesOK, TxnOK
<1>1. ASSUME NEW actor \in Actor, ApproveBegin(c, actor) PROVE StoreInv'
  <2>1. [identity |-> planning, actor |-> actor] \in Approval
    BY DEF Approval
  <2>2. TxnOK'
    BY <1>1, <2>1 DEF ApproveBegin
  <2> QED BY <1>1, <2>2 DEF ApproveBegin
<1>2. CASE ApproveWriteArtifact(c)
  <2>1. TxnOK' /\ approvalFile' \in Approval
    BY <1>2 DEF ApproveWriteArtifact
  <2> QED BY <1>2, <2>1 DEF ApproveWriteArtifact
<1>3. NoTxn \in [kind : {"none", "approve", "complete"}, holder : Cli \cup {Nobody},
                 decision : Approval \cup {NoSeal}, written : BOOLEAN, created : BOOLEAN]
      /\ NoTxn.kind = "none"
  BY DEF NoTxn
<1>4. CASE ApproveCommit(c)
  <2>1. Sound(stateFile')
    BY <1>4, ApprovedSound DEF ApproveCommit
  <2> QED BY <1>3, <1>4, <2>1 DEF ApproveCommit
<1>5. CASE ApproveFail(c)
  <2>1. Sound(stateFile')
    BY <1>5, ApprovedSound DEF ApproveFail
  <2>2. approvalFile' \in Approval \cup {NoArtifact}
    BY <1>5 DEF ApproveFail
  <2> QED BY <1>3, <1>5, <2>1, <2>2 DEF ApproveFail
<1> QED BY <1>1, <1>2, <1>4, <1>5

\* Every step of the Done transaction keeps the invariant.
LEMMA ConfirmationOK ==
  ASSUME StoreInv, NEW c \in Cli,
         \/ \E actor \in Actor : ConfirmBegin(c, actor)
         \/ ConfirmWriteArtifact(c) \/ ConfirmCommit(c) \/ ConfirmFail(c)
  PROVE  StoreInv'
<1> USE DEF StoreInv, CliOK, FilesOK, TxnOK
<1>1. ASSUME NEW actor \in Actor, ConfirmBegin(c, actor) PROVE StoreInv'
  <2>1. [identity |-> planning, actor |-> actor] \in Approval
    BY DEF Approval
  <2>2. TxnOK'
    BY <1>1, <2>1 DEF ConfirmBegin
  <2> QED BY <1>1, <2>2 DEF ConfirmBegin
<1>2. CASE ConfirmWriteArtifact(c)
  <2>1. confirmationFile' \in Confirmation
    BY <1>2 DEF ConfirmWriteArtifact, Confirmation, Approval, Sound, WorkflowDocument
  <2>2. TxnOK'
    BY <1>2 DEF ConfirmWriteArtifact
  <2> QED BY <1>2, <2>1, <2>2 DEF ConfirmWriteArtifact
<1>3. NoTxn \in [kind : {"none", "approve", "complete"}, holder : Cli \cup {Nobody},
                 decision : Approval \cup {NoSeal}, written : BOOLEAN, created : BOOLEAN]
      /\ NoTxn.kind = "none"
  BY DEF NoTxn
<1>4. CASE ConfirmCommit(c)
  BY <1>3, <1>4, CompletedSound DEF ConfirmCommit
<1>5. CASE ConfirmFail(c)
  <2>1. Sound(stateFile')
    BY <1>5, CompletedSound DEF ConfirmFail
  <2> QED BY <1>3, <1>5, <2>1 DEF ConfirmFail
<1> QED BY <1>1, <1>2, <1>4, <1>5

\* A crash only forgets the process's queue, snapshot and lock.
LEMMA CrashOK ==
  ASSUME StoreInv, NEW c \in Cli, Crash(c)
  PROVE  StoreInv'
<1>1. <<>> \in Seq(Op)
  OBVIOUS
<1>2. CliOK'
  BY <1>1, EnqueueOK DEF Crash, StoreInv
<1>3. TxnOK'
  BY DEF Crash, StoreInv, TxnOK, NoTxn
<1> QED BY <1>2, <1>3 DEF Crash, StoreInv, FilesOK

-----------------------------------------------------------------------------
(* The theorems.                                                           *)

\* Every step keeps the invariant.
LEMMA StepOK == StoreInv /\ [Next]_vars => StoreInv'
<1> SUFFICES ASSUME StoreInv, [Next]_vars PROVE StoreInv'
  OBVIOUS
<1>1. ASSUME NEW c \in Cli, Proceed(c) PROVE StoreInv'
  BY <1>1, LoadOK, SaveOK, ProviderResultOK, ApprovalOK, ConfirmationOK DEF Proceed
<1>2. ASSUME NEW c \in Cli, Issue(c) PROVE StoreInv'
  BY <1>2, NextCommandsOK, DecideOK, ApplyResultOK, ApprovalOK, ConfirmationOK DEF Issue
<1>3. ASSUME NEW c \in Cli, Crash(c) PROVE StoreInv'
  BY <1>3, CrashOK
<1>4. CASE Environment
  BY <1>4, LockedCommandsOK DEF Environment
<1>5. CASE UNCHANGED vars
  BY <1>5 DEF vars, StoreInv, CliOK, FilesOK, TxnOK
<1> QED BY <1>1, <1>2, <1>3, <1>4, <1>5 DEF Next

\* The inductive invariant holds in every reachable state.
THEOREM StoreInvariant == Spec => []StoreInv
<1> QED BY InitOK, StepOK, PTL DEF Spec

\* Type correctness of the store.
THEOREM TypeCorrect == Spec => []TypeOK
<1>1. StoreInv => TypeOK
  BY DEF StoreInv, CliOK, FilesOK, TxnOK, TypeOK, Sound
<1> QED BY <1>1, StoreInvariant, PTL

\* No copy of the document is escalated and still low risk or skipping a phase,
\* however stale the snapshots that save over one another.
THEOREM EscalationNeverHalfUndone == Spec => []EscalationInv
<1>1. StoreInv => EscalationInv
  BY DEF StoreInv, CliOK, FilesOK, EscalationInv, Documents, Sound
<1> QED BY <1>1, StoreInvariant, PTL

\* Phases and gates agree in every copy of the document.
THEOREM GatesFollowPhases == Spec => []GatesInv
<1>1. StoreInv => GatesInv
  BY DEF StoreInv, CliOK, FilesOK, GatesInv, Documents, Sound
<1> QED BY <1>1, StoreInvariant, PTL

-----------------------------------------------------------------------------
(* An audited escalation is never lost within its generation.              *)

\* What a step may do to the audit events of the document it replaces.
EventsKept ==
  stateFile'.generation = stateFile.generation => stateFile.events \subseteq stateFile'.events

\* A save keeps them however old its snapshot is: the merge adds them back.
LEMMA SaveKeepsEvents ==
  ASSUME StoreInv, NEW c \in Cli, Save(c)
  PROVE  EventsKept
<1> DEFINE op == Head(cli[c].ops)
           s == cli[c].snap
<1>1. op \in Op
  BY HeadTailProperties DEF Save, StoreInv, CliOK
<1>2. Sound(Outcome(op, s)) /\ Sound(stateFile)
  BY <1>1, OutcomeSound DEF Save, StoreInv, CliOK, FilesOK
<1>3. stateFile' = MergeDatabaseRisk(Outcome(op, s), stateFile)
  BY DEF Save
<1> QED BY <1>2, <1>3, MergeSound DEF EventsKept

\* A parent-only decision changes neither the generation nor the events.
LEMMA DecisionsKeepEvents ==
  ASSUME StoreInv, NEW decision,
         \/ stateFile' = RecordApproved(stateFile, decision)
         \/ stateFile' = RecordRejected(stateFile) \/ stateFile' = RecordRevision(stateFile)
         \/ stateFile' = RecordCompleted(stateFile) \/ stateFile' = RecordHold(stateFile)
         \/ stateFile' = PlanPassed(stateFile)
  PROVE  EventsKept
BY DEF StoreInv, FilesOK, Sound, WorkflowDocument, EventsKept, RecordApproved, RecordRejected,
       RecordRevision, RecordCompleted, RecordHold, PlanPassed

\* A promotion adds an event, and a reset starts a generation of its own.
LEMMA LockedWritesKeepEvents ==
  ASSUME StoreInv,
         \/ \E reason \in Reason : WfDbCheck(reason)
         \/ \E id \in WorkflowId, class \in Classes : WfReset(id, class)
  PROVE  EventsKept
<1>1. Sound(stateFile) /\ stateFile.generation \in Nat
  BY DEF StoreInv, FilesOK, Sound, WorkflowDocument
<1>2. ASSUME NEW reason \in Reason, WfDbCheck(reason) PROVE EventsKept
  BY <1>1, <1>2 DEF WfDbCheck, PromoteToHighRisk, Sound, WorkflowDocument, EventsKept
<1>3. ASSUME NEW id \in WorkflowId, NEW class \in Classes, WfReset(id, class) PROVE EventsKept
  <2> DEFINE fresh == InitialWorkflowState(id, stateFile.generation + 1, class)
  <2>1. Sound(fresh) /\ fresh.generation = stateFile.generation + 1
    BY <1>1, InitialSound, StoreAssumption DEF InitialWorkflowState
  <2>2. stateFile'.generation = stateFile.generation + 1
    <3>1. stateFile' = MergeDatabaseRisk(fresh, stateFile)
      BY <1>3 DEF WfReset
    <3> HIDE DEF fresh
    <3> QED BY <1>1, <2>1, <3>1, MergeSound
  <2> QED BY <1>1, <2>2 DEF EventsKept
<1> QED BY <1>2, <1>3

\* An escalation recorded in a generation stays recorded in it, whatever processes
\* with older snapshots save afterwards.
THEOREM EscalationIsKept == Spec => EscalationSticks
<1>1. ASSUME StoreInv, Next PROVE EventsKept \/ UNCHANGED stateFile
  <2>1. ASSUME NEW c \in Cli, Proceed(c) PROVE EventsKept \/ UNCHANGED stateFile
    <3>1. CASE Save(c)
      BY <1>1, <3>1, SaveKeepsEvents
    <3>2. CASE Load(c) \/ ProviderResult(c) \/ ApproveWriteArtifact(c) \/ ConfirmWriteArtifact(c)
      BY <3>2 DEF Load, ProviderResult, ApproveWriteArtifact, ConfirmWriteArtifact
    <3>3. CASE ApproveCommit(c) \/ ApproveFail(c) \/ ConfirmCommit(c) \/ ConfirmFail(c)
      BY <1>1, <3>3, DecisionsKeepEvents
         DEF ApproveCommit, ApproveFail, ConfirmCommit, ConfirmFail
    <3> QED BY <2>1, <3>1, <3>2, <3>3 DEF Proceed
  <2>2. ASSUME NEW c \in Cli, Issue(c) \/ Crash(c) PROVE UNCHANGED stateFile
    BY <2>2 DEF Issue, Crash, WfNext, WfNextPhase, StartNext, WfDecide, WfApplyResult,
                ApproveBegin, ConfirmBegin
  <2>3. CASE Environment
    <3>1. CASE \/ \E reason \in Reason : WfDbCheck(reason)
               \/ \E id \in WorkflowId, class \in Classes : WfReset(id, class)
      BY <1>1, <3>1, LockedWritesKeepEvents
    <3>2. CASE WfRevise \/ WfReject \/ WfHold \/ ParentPassesPlan
      BY <1>1, <3>2, DecisionsKeepEvents DEF WfRevise, WfReject, WfHold, ParentPassesPlan
    <3>3. CASE \E identity \in Identity : EditPlanning(identity)
      BY <3>3 DEF EditPlanning
    <3> QED BY <2>3, <3>1, <3>2, <3>3 DEF Environment
  <2> QED BY <1>1, <2>1, <2>2, <2>3 DEF Next
<1>2. StoreInv /\ [Next]_vars
        => [stateFile'.generation = stateFile.generation
              => stateFile.events \subseteq stateFile'.events]_stateFile
  BY <1>1 DEF vars, EventsKept
<1> QED BY <1>2, StoreInvariant, PTL DEF Spec, EscalationSticks
-----------------------------------------------------------------------------
(* Decisions: approve and done are decided by a person only, whatever      *)
(* crashes and whichever stale document is saved.                          *)
(*                                                                         *)
(* No function of the state machine but RecordApproved and RecordCompleted *)
(* makes a document more decided than the one it starts from               *)
(* (NoNewDecision), those two run under the lock after their artifact was  *)
(* published, and an artifact is removed only by the transaction that      *)
(* created it, in which no copy of the document was approved.              *)

\* A document's decisions are the ones the two artifacts record.
Backed(s, approval, confirmation) ==
  /\ s.gate["approve"] = "pass" => approval # NoArtifact /\ approval = s.seal
  /\ s.status["done"] = "completed" => confirmation # NoArtifact /\ confirmation.id = s.id

\* t claims no decision that s does not claim.
NoNewDecision(s, t) ==
  /\ t.id = s.id
  /\ t.gate["approve"] = "pass" => s.gate["approve"] = "pass" /\ t.seal = s.seal
  /\ t.status["done"] = "completed" => s.status["done"] = "completed"

Unapproved(s) == s.gate["approve"] # "pass"

CopiesBacked ==
  /\ Backed(stateFile, approvalFile, confirmationFile)
  /\ \A c \in Cli : cli[c].snap # NoSnapshot =>
       Backed(cli[c].snap, approvalFile, confirmationFile)

CopiesUnapproved ==
  Unapproved(stateFile) /\ \A c \in Cli : cli[c].snap # NoSnapshot => Unapproved(cli[c].snap)

\* What a transaction knows of its artifact and of the copies of the document.
TxnFacts ==
  /\ txn.kind = "approve" =>
       /\ txn.written => approvalFile = txn.decision
       /\ ~txn.written => approvalFile = NoArtifact
       /\ txn.created => CopiesUnapproved
  /\ txn.kind = "complete" =>
       /\ txn.written => confirmationFile # NoArtifact /\ confirmationFile.id = stateFile.id
       /\ ~txn.written => confirmationFile = NoArtifact

DecisionInv == StoreInv /\ CopiesBacked /\ TxnFacts

-----------------------------------------------------------------------------
(* Documents.                                                              *)

\* The names of the two phases and of the gate that decisions are about.
LEMMA DecisionPhases ==
  "approve" \in Phase /\ "done" \in Phase /\ "approve" \in GatedPhase
BY DEF Phase, GatedPhase

\* A document with no new decision is backed by the same artifacts, and no more
\* approved than the one it comes from.
LEMMA NoNewDecisionBacked ==
  ASSUME NEW s, NEW t, NEW a, NEW f, NoNewDecision(s, t)
  PROVE  /\ Backed(s, a, f) => Backed(t, a, f)
         /\ Unapproved(s) => Unapproved(t)
BY DEF NoNewDecision, Backed, Unapproved

\* Skipping by policy passes gates as "auto" only.
LEMMA PolicySkipsNoDecision ==
  ASSUME NEW s, Sound(s)
  PROVE  NoNewDecision(s, ApplyPolicySkips(s))
BY DecisionPhases DEF ApplyPolicySkips, Sound, WorkflowDocument, NoNewDecision

\* No operation a command queues decides approve or done.
LEMMA OutcomeNoDecision ==
  ASSUME NEW op \in Op, NEW s, Sound(s)
  PROVE  NoNewDecision(s, Outcome(op, s))
<1> USE DecisionPhases DEF Outcome, Sound, WorkflowDocument, NoNewDecision
<1>1. op.phase \in Phase
  BY DEF Op, Phase, ResultPhase
<1>2. CASE op.kind = "mark"
  BY <1>1, <1>2 DEF MarkPhaseInProgress
<1>3. CASE op.kind = "pass"
  <2> DEFINE p == op.phase
             status == [s.status EXCEPT ![p] = "completed"]
             gate == [s.gate EXCEPT ![p] = "pass"]
             t == [s EXCEPT !.totalExecutions = s.totalExecutions + 1, !.gate = gate,
                            !.status = status]
             next == NextOpenPhase(ApplyPolicySkips(t), PhaseIndex[p] + 1)
  <2>1. p \in Phase \ {"approve", "done"}
    BY <1>3 DEF Op, ResultPhase, Phase
  <2>2. /\ status["done"] = s.status["done"] /\ gate["approve"] = s.gate["approve"]
        /\ status \in [Phase -> PhaseStatus] /\ gate \in [GatedPhase -> GateValue]
    BY <2>1 DEF GatedPhase, PhaseStatus, GateValue
  <2>3. Outcome(op, s) = [ApplyPolicySkips(t) EXCEPT !.currentPhase = next]
    BY <1>3 DEF GatePassed
  <2> HIDE DEF status, gate, next
  <2>4. NoNewDecision(s, ApplyPolicySkips(t))
    BY <2>2 DEF ApplyPolicySkips
  <2> DEFINE u == ApplyPolicySkips(t)
  <2>5. LET v == [u EXCEPT !.currentPhase = next]
        IN  v.id = u.id /\ v.gate = u.gate /\ v.seal = u.seal /\ v.status = u.status
    BY DEF ApplyPolicySkips
  <2> HIDE DEF u
  <2> QED BY <2>3, <2>4, <2>5 DEF u
<1>4. CASE op.kind = "fail"
  BY <1>1, <1>4 DEF GateFailed
<1>5. CASE op.kind \in {"escape", "decide", "continue", "abort"}
  BY <1>1, <1>5 DEF RecordPhaseEscape, RecordDecision, ContinueWorkflow, AbortWorkflow
<1>6. CASE op.kind = "replan"
  BY <1>6 DEF ReplanWorkflow
<1>7. CASE op.kind \in {"save", "run"}
  BY <1>7
<1>8. op.kind \in {"mark", "pass", "fail", "escape", "decide", "continue", "abort", "replan",
                   "save", "run"}
  BY DEF Op
<1> QED BY <1>2, <1>3, <1>4, <1>5, <1>6, <1>7, <1>8

\* The merge of a save can copy an approval from the file, with its seal.
LEMMA MergeBacked ==
  ASSUME NEW s, Sound(s), NEW current, Sound(current), NEW a, NEW f,
         Backed(s, a, f), Backed(current, a, f)
  PROVE  Backed(MergeDatabaseRisk(s, current), a, f)
<1> DEFINE t == MergeDatabaseRisk(s, current)
<1>1. CASE ~Escalated(current) \/ s.generation # current.generation
  BY <1>1 DEF MergeDatabaseRisk
<1>2. CASE Escalated(current) /\ s.generation = current.generation
  <2> DEFINE copied == s.status["approve"] = "skipped" /\ s.gate["approve"] = "auto"
  <2>1. t.id = s.id /\ t.status["done"] = s.status["done"]
    BY <1>2, DecisionPhases DEF MergeDatabaseRisk, PolicySkippable, Sound, WorkflowDocument
  <2>2. /\ t.gate["approve"] = IF copied THEN current.gate["approve"] ELSE s.gate["approve"]
        /\ t.seal = IF copied THEN current.seal ELSE s.seal
    BY <1>2, DecisionPhases DEF MergeDatabaseRisk, PolicySkippable, Sound, WorkflowDocument
  <2> QED BY <2>1, <2>2 DEF Backed
<1> QED BY <1>1, <1>2

-----------------------------------------------------------------------------
(* Steps.                                                                  *)

\* What is true of the document a process takes as its snapshot.
GoodSnapshot(snap) ==
  snap # NoSnapshot => /\ Backed(snap, approvalFile, confirmationFile)
                       /\ CopiesUnapproved => Unapproved(snap)

\* The document on disk, with policy skips or without, is a good snapshot.
LEMMA FileGoodSnapshot ==
  ASSUME DecisionInv
  PROVE  GoodSnapshot(stateFile) /\ GoodSnapshot(ApplyPolicySkips(stateFile))
<1>1. NoNewDecision(stateFile, ApplyPolicySkips(stateFile))
  BY PolicySkipsNoDecision DEF DecisionInv, StoreInv, FilesOK
<1> QED BY <1>1, NoNewDecisionBacked DEF DecisionInv, CopiesBacked, CopiesUnapproved, GoodSnapshot

\* Queueing operations with a good snapshot changes nothing about decisions.
LEMMA EnqueueBacked ==
  ASSUME DecisionInv, NEW c \in Cli, NEW ops, NEW snap, GoodSnapshot(snap),
         Enqueue(c, ops, snap),
         UNCHANGED <<stateFile, approvalFile, confirmationFile, txn>>
  PROVE  CopiesBacked' /\ TxnFacts'
<1>1. \A d \in Cli : cli'[d].snap = IF d = c THEN snap ELSE cli[d].snap
  BY DEF Enqueue, DecisionInv, StoreInv, CliOK
<1>2. CopiesBacked'
  BY <1>1 DEF DecisionInv, CopiesBacked, GoodSnapshot, Backed
<1>3. CopiesUnapproved => CopiesUnapproved'
  BY <1>1 DEF CopiesUnapproved, GoodSnapshot, Unapproved
<1> QED BY <1>2, <1>3 DEF DecisionInv, TxnFacts

\* Loads, provider results and the commands that only queue operations.
LEMMA QueueingSteps ==
  ASSUME DecisionInv, NEW c \in Cli,
         \/ Load(c) \/ ProviderResult(c)
         \/ \E forced \in Forced : WfNext(c, forced)
         \/ \E p \in PhaseArg, forced \in Forced : WfNextPhase(c, p, forced) \/ WfDecide(c, p, forced)
         \/ \E p \in PhaseArg : WfApplyResult(c, p)
  PROVE  CopiesBacked' /\ TxnFacts'
<1>1. /\ \E ops, snap : GoodSnapshot(snap) /\ Enqueue(c, ops, snap)
      /\ UNCHANGED <<stateFile, approvalFile, confirmationFile, txn>>
  <2>1. GoodSnapshot(NoSnapshot)
    BY DEF GoodSnapshot
  <2>2. GoodSnapshot(stateFile) /\ GoodSnapshot(ApplyPolicySkips(stateFile))
    BY FileGoodSnapshot
  <2>3. CASE Load(c)
    BY <2>1, <2>2, <2>3 DEF Load
  <2>4. CASE ProviderResult(c)
    BY <2>1, <2>4 DEF ProviderResult
  <2>5. CASE \E forced \in Forced : WfNext(c, forced)
    BY <2>2, <2>5 DEF WfNext, StartNext
  <2>6. CASE \E p \in PhaseArg, forced \in Forced : WfNextPhase(c, p, forced)
    BY <2>2, <2>6 DEF WfNextPhase, StartNext
  <2>7. CASE \E p \in PhaseArg, forced \in Forced : WfDecide(c, p, forced)
    BY <2>1, <2>2, <2>7 DEF WfDecide
  <2>8. CASE \E p \in PhaseArg : WfApplyResult(c, p)
    BY <2>1, <2>8 DEF WfApplyResult
  <2> QED BY <2>3, <2>4, <2>5, <2>6, <2>7, <2>8
<1> QED BY <1>1, EnqueueBacked

\* A save: no transaction is open, and the merged document is backed.
LEMMA SaveStep ==
  ASSUME DecisionInv, NEW c \in Cli, Save(c)
  PROVE  CopiesBacked' /\ TxnFacts'
<1> DEFINE op == Head(cli[c].ops)
           s == cli[c].snap
<1>1. op \in Op
  BY HeadTailProperties DEF Save, DecisionInv, StoreInv, CliOK
<1>2. Sound(s) /\ Sound(stateFile) /\ Backed(s, approvalFile, confirmationFile)
  BY DEF Save, DecisionInv, StoreInv, CliOK, FilesOK, CopiesBacked
<1>3. Sound(Outcome(op, s)) /\ Backed(Outcome(op, s), approvalFile, confirmationFile)
  BY <1>1, <1>2, OutcomeSound, OutcomeNoDecision, NoNewDecisionBacked
<1>4. Backed(stateFile', approvalFile, confirmationFile)
  BY <1>2, <1>3, MergeBacked DEF Save, DecisionInv, CopiesBacked
<1>5. \A d \in Cli : cli'[d].snap # NoSnapshot => cli'[d].snap = cli[d].snap
  BY DEF Save, Enqueue, DecisionInv, StoreInv, CliOK
<1>6. CopiesBacked'
  BY <1>4, <1>5 DEF Save, DecisionInv, CopiesBacked
<1>7. TxnFacts'
  BY DEF Save, LockFree, NoTxn, TxnFacts
<1> QED BY <1>6, <1>7

\* A write of state.json alone, under the lock, by a command that decides neither
\* approve nor done.
LEMMA UndecidingWrite ==
  ASSUME DecisionInv, LockFree,
         Backed(stateFile', approvalFile, confirmationFile),
         UNCHANGED <<approvalFile, confirmationFile, cli, txn>>
  PROVE  CopiesBacked' /\ TxnFacts'
BY DEF DecisionInv, CopiesBacked, LockFree, NoTxn, TxnFacts

\* Database checks, resets, revisions, rejections, holds, the parent's G1 and edits.
LEMMA EnvironmentStep ==
  ASSUME DecisionInv, Environment
  PROVE  CopiesBacked' /\ TxnFacts'
<1> DEFINE Good == Backed(stateFile', approvalFile, confirmationFile)
<1>1. Sound(stateFile) /\ Backed(stateFile, approvalFile, confirmationFile)
  BY DEF DecisionInv, StoreInv, FilesOK, CopiesBacked
<1>2. ASSUME NEW reason \in Reason, WfDbCheck(reason) PROVE Good
  <2>1. NoNewDecision(stateFile, stateFile')
    BY <1>1, <1>2, DecisionPhases
       DEF WfDbCheck, PromoteToHighRisk, Sound, WorkflowDocument, NoNewDecision
  <2> QED BY <1>1, <2>1, NoNewDecisionBacked
<1>3. ASSUME NEW id \in WorkflowId, NEW class \in Classes, WfReset(id, class) PROVE Good
  <2> DEFINE fresh == InitialWorkflowState(id, stateFile.generation + 1, class)
  <2>1. Sound(fresh)
    BY <1>1, InitialSound, StoreAssumption DEF Sound, WorkflowDocument
  <2>2. Backed(fresh, approvalFile, confirmationFile)
    BY DecisionPhases DEF Backed, InitialWorkflowState
  <2> QED BY <1>1, <1>3, <2>1, <2>2, MergeBacked DEF WfReset
<1>4. ASSUME WfRevise \/ WfReject \/ WfHold \/ ParentPassesPlan PROVE Good
  <2>1. NoNewDecision(stateFile, stateFile')
    <3> USE <1>1, DecisionPhases DEF Sound, WorkflowDocument, NoNewDecision
    <3>1. CASE WfRevise
      BY <3>1 DEF WfRevise, RecordRevision
    <3>2. CASE WfReject
      BY <3>2 DEF WfReject, RecordRejected, GatedPhase
    <3>3. CASE WfHold
      BY <3>3 DEF WfHold, RecordHold
    <3>4. CASE ParentPassesPlan
      BY <3>4 DEF ParentPassesPlan, PlanPassed, Phase, GatedPhase
    <3> QED BY <1>4, <3>1, <3>2, <3>3, <3>4
  <2> QED BY <1>1, <2>1, NoNewDecisionBacked
<1>5. CASE \E identity \in Identity : EditPlanning(identity)
  BY <1>5 DEF EditPlanning, DecisionInv, CopiesBacked, TxnFacts, CopiesUnapproved
<1>6. CASE \/ \E reason \in Reason : WfDbCheck(reason)
           \/ \E id \in WorkflowId, class \in Classes : WfReset(id, class)
           \/ WfRevise \/ WfReject \/ WfHold \/ ParentPassesPlan
  <2>1. Good
    BY <1>2, <1>3, <1>4, <1>6
  <2>2. LockFree /\ UNCHANGED <<approvalFile, confirmationFile, cli, txn>>
    BY <1>6 DEF WfDbCheck, WfReset, WfRevise, WfReject, WfHold, ParentPassesPlan
  <2> QED BY <2>1, <2>2, UndecidingWrite
<1> QED BY <1>5, <1>6 DEF Environment

\* The approval transaction: the artifact comes first, the commit repeats it, and
\* a rollback removes only what this transaction created.
LEMMA ApprovalStep ==
  ASSUME DecisionInv, ~FsyncMayFail, NEW c \in Cli,
         \/ \E actor \in Actor : ApproveBegin(c, actor)
         \/ ApproveWriteArtifact(c) \/ ApproveCommit(c) \/ ApproveFail(c)
  PROVE  CopiesBacked' /\ TxnFacts'
<1> USE DEF DecisionInv, CopiesBacked, TxnFacts, CopiesUnapproved, Unapproved, Backed
<1>1. txn.kind = "approve" => txn.decision \in Approval /\ txn.decision # NoArtifact
  BY StoreAssumption DEF StoreInv, TxnOK
<1>2. NoTxn.kind = "none"
  BY DEF NoTxn
<1>3. CASE \E actor \in Actor : ApproveBegin(c, actor)
  <2>1. PICK actor \in Actor : ApproveBegin(c, actor)
    BY <1>3
  <2>2. /\ txn' = [kind |-> "approve", holder |-> c,
                   decision |-> [identity |-> planning, actor |-> actor],
                   written |-> approvalFile # NoArtifact, created |-> FALSE]
        /\ approvalFile \in {NoArtifact, [identity |-> planning, actor |-> actor]}
        /\ UNCHANGED <<stateFile, approvalFile, confirmationFile, cli>>
    BY <2>1 DEF ApproveBegin
  <2>3. /\ txn'.kind = "approve" /\ ~txn'.created
        /\ txn'.written <=> approvalFile # NoArtifact
        /\ approvalFile \in {NoArtifact, txn'.decision}
    BY <2>2
  <2> QED BY <2>2, <2>3
<1>4. CASE ApproveWriteArtifact(c)
  <2>1. CopiesUnapproved
    BY <1>4 DEF ApproveWriteArtifact
  <2>2. /\ txn'.kind = "approve" /\ txn'.written /\ txn'.decision = txn.decision
        /\ approvalFile' = txn.decision /\ UNCHANGED <<stateFile, confirmationFile, cli>>
    BY <1>4 DEF ApproveWriteArtifact, StoreInv, TxnOK
  <2> QED BY <2>1, <2>2
<1>5. CASE ApproveCommit(c)
  <2>1. /\ stateFile'.seal = approvalFile /\ approvalFile # NoArtifact
        /\ stateFile'.status["done"] = stateFile.status["done"]
        /\ stateFile'.id = stateFile.id
    BY <1>1, <1>5, DecisionPhases
       DEF ApproveCommit, RecordApproved, StoreInv, FilesOK, Sound, WorkflowDocument
  <2> QED BY <1>2, <1>5, <2>1 DEF ApproveCommit
<1>6. CASE ApproveFail(c)
  <2>1. UNCHANGED <<stateFile, confirmationFile, cli>> /\ txn' = NoTxn
    BY <1>6 DEF ApproveFail
  <2>2. CASE txn.created
    BY <1>2, <1>6, <2>1, <2>2 DEF ApproveFail
  <2>3. CASE ~txn.created
    BY <1>2, <1>6, <2>1, <2>3 DEF ApproveFail
  <2> QED BY <2>2, <2>3
<1> QED BY <1>3, <1>4, <1>5, <1>6

\* The Done transaction: the artifact stays whatever happens to the commit.
LEMMA ConfirmationStep ==
  ASSUME DecisionInv, NEW c \in Cli,
         \/ \E actor \in Actor : ConfirmBegin(c, actor)
         \/ ConfirmWriteArtifact(c) \/ ConfirmCommit(c) \/ ConfirmFail(c)
  PROVE  CopiesBacked' /\ TxnFacts'
<1> USE DEF DecisionInv, CopiesBacked, TxnFacts, Backed
<1>1. NoTxn.kind = "none"
  BY DEF NoTxn
<1>2. CASE \E actor \in Actor : ConfirmBegin(c, actor)
  <2>1. PICK actor \in Actor : ConfirmBegin(c, actor)
    BY <1>2
  <2>2. /\ txn' = [kind |-> "complete", holder |-> c,
                   decision |-> [identity |-> planning, actor |-> actor],
                   written |-> confirmationFile # NoArtifact, created |-> FALSE]
        /\ confirmationFile \in {NoArtifact, [id |-> stateFile.id, actor |-> actor]}
        /\ UNCHANGED <<stateFile, approvalFile, confirmationFile, cli>>
    BY <2>1 DEF ConfirmBegin
  <2>3. /\ txn'.kind = "complete"
        /\ txn'.written <=> confirmationFile # NoArtifact
    BY <2>2
  <2>4. confirmationFile # NoArtifact => confirmationFile.id = stateFile.id
    BY <2>2
  <2> QED BY <2>2, <2>3, <2>4
<1>3. CASE ConfirmWriteArtifact(c)
  <2>1. confirmationFile' # NoArtifact /\ confirmationFile'.id = stateFile.id
    BY <1>3, StoreAssumption
       DEF ConfirmWriteArtifact, StoreInv, FilesOK, TxnOK, Sound, WorkflowDocument, Approval
  <2>2. /\ txn'.kind = "complete" /\ txn'.written
        /\ confirmationFile = NoArtifact /\ UNCHANGED <<stateFile, approvalFile, cli>>
    BY <1>3 DEF ConfirmWriteArtifact, StoreInv, TxnOK
  <2> QED BY <2>1, <2>2
<1>4. ASSUME txn.kind = "complete", txn.written, stateFile' = RecordCompleted(stateFile),
             txn' = NoTxn, UNCHANGED <<approvalFile, confirmationFile, planning, cli>>
      PROVE  CopiesBacked' /\ TxnFacts'
  <2>1. /\ stateFile'.gate = stateFile.gate /\ stateFile'.seal = stateFile.seal
        /\ stateFile'.id = stateFile.id
    BY <1>4 DEF RecordCompleted, StoreInv, FilesOK, Sound, WorkflowDocument
  <2> QED BY <1>1, <1>4, <2>1
<1>5. CASE ConfirmCommit(c)
  BY <1>4, <1>5 DEF ConfirmCommit
<1>6. CASE ConfirmFail(c)
  <2>1. CASE UNCHANGED stateFile
    BY <1>1, <1>6, <2>1 DEF ConfirmFail
  <2>2. CASE txn.written /\ stateFile' = RecordCompleted(stateFile)
    BY <1>4, <1>6, <2>2 DEF ConfirmFail
  <2> QED BY <1>6, <2>1, <2>2 DEF ConfirmFail
<1> QED BY <1>2, <1>3, <1>5, <1>6

\* A crash leaves the files, and forgets the snapshot and the transaction.
LEMMA CrashStep ==
  ASSUME DecisionInv, NEW c \in Cli, Crash(c)
  PROVE  CopiesBacked' /\ TxnFacts'
<1>1. \A d \in Cli : cli'[d].snap # NoSnapshot => cli'[d].snap = cli[d].snap
  BY DEF Crash, Enqueue, DecisionInv, StoreInv, CliOK
<1>2. UNCHANGED <<stateFile, approvalFile, confirmationFile>>
  BY DEF Crash
<1>3. CopiesBacked'
  BY <1>1, <1>2 DEF DecisionInv, CopiesBacked
<1>4. CopiesUnapproved => CopiesUnapproved'
  BY <1>1, <1>2 DEF CopiesUnapproved
<1>5. txn' \in {txn, NoTxn} /\ NoTxn.kind = "none"
  BY DEF Crash, NoTxn
<1> QED BY <1>2, <1>3, <1>4, <1>5 DEF DecisionInv, TxnFacts

-----------------------------------------------------------------------------
(* The theorem.                                                            *)

\* When a reported failure of a write means that the write did not happen, G3
\* passes only with the approval artifact of that very decision on disk and a
\* completed Done has the confirmation artifact of its workflow, for any number of
\* processes, crashes, resets and edits.
THEOREM DecisionsAreBacked == ~FsyncMayFail /\ Spec => []DecisionsBacked
<1> SUFFICES ASSUME ~FsyncMayFail PROVE Spec => []DecisionsBacked
  OBVIOUS
<1>1. Init => DecisionInv
  <2> SUFFICES ASSUME Init PROVE DecisionInv
    OBVIOUS
  <2>1. StoreInv
    BY InitOK
  <2>2. stateFile.gate["approve"] = "none" /\ stateFile.status["done"] = "pending"
    BY DecisionPhases DEF Init, InitialWorkflowState
  <2>3. \A c \in Cli : cli[c].snap = NoSnapshot
    BY DEF Init
  <2>4. txn.kind = "none"
    BY DEF Init, NoTxn
  <2> QED BY <2>1, <2>2, <2>3, <2>4 DEF DecisionInv, CopiesBacked, Backed, TxnFacts
<1>2. DecisionInv /\ [Next]_vars => DecisionInv'
  <2> SUFFICES ASSUME DecisionInv, [Next]_vars PROVE DecisionInv'
    OBVIOUS
  <2>1. StoreInv'
    BY StepOK DEF DecisionInv
  <2>2. ASSUME NEW c \in Cli, Proceed(c) \/ Issue(c) \/ Crash(c)
        PROVE  CopiesBacked' /\ TxnFacts'
    <3>1. CASE Proceed(c)
      BY <3>1, QueueingSteps, SaveStep, ApprovalStep, ConfirmationStep DEF Proceed
    <3>2. CASE Issue(c)
      BY <3>2, QueueingSteps, ApprovalStep, ConfirmationStep DEF Issue
    <3>3. CASE Crash(c)
      BY <3>3, CrashStep
    <3> QED BY <2>2, <3>1, <3>2, <3>3
  <2>3. ASSUME Environment PROVE CopiesBacked' /\ TxnFacts'
    BY <2>3, EnvironmentStep
  <2>4. ASSUME UNCHANGED vars PROVE CopiesBacked' /\ TxnFacts'
    BY <2>4 DEF vars, DecisionInv, CopiesBacked, TxnFacts, CopiesUnapproved
  <2>5. CopiesBacked' /\ TxnFacts'
    BY <2>2, <2>3, <2>4 DEF Next
  <2> QED BY <2>1, <2>5 DEF DecisionInv
<1>3. DecisionInv => DecisionsBacked
  BY DEF DecisionInv, CopiesBacked, Backed, DecisionsBacked, Documents
<1> QED BY <1>1, <1>2, <1>3, PTL DEF Spec

-----------------------------------------------------------------------------
(* The counters, with one process at a time.                               *)

OneProcess == \A c, d \in Cli : c = d

\* The execution counters of a document.
SameTotal(s, t) == t.totalExecutions = s.totalExecutions
NoMoreVerify(s, t) == t.verifyExecutions \in {0, s.verifyExecutions}

\* The counters are numbers.
LEMMA CounterTypes ==
  ASSUME NEW s, Sound(s)
  PROVE  s.totalExecutions \in Nat /\ s.verifyExecutions \in Nat
BY DEF Sound, WorkflowDocument

\* An operation counts the execution it stands for, and only a mark of verify
\* counts a verify execution.
LEMMA OutcomeCounts ==
  ASSUME NEW op \in Op, NEW s, Sound(s)
  PROVE  /\ Outcome(op, s).totalExecutions =
              IF CountsAsExecution(op) THEN s.totalExecutions + 1 ELSE s.totalExecutions
         /\ Outcome(op, s).verifyExecutions =
              IF op.kind = "mark" /\ op.phase = "verify" THEN s.verifyExecutions + 1
              ELSE s.verifyExecutions
<1> USE DEF Outcome, CountsAsExecution, Sound, WorkflowDocument
<1>1. CASE op.kind = "mark"
  BY <1>1 DEF MarkPhaseInProgress
<1>2. CASE op.kind = "pass"
  <2> DEFINE p == op.phase
             t == [s EXCEPT !.totalExecutions = s.totalExecutions + 1, !.gate[p] = "pass",
                            !.status[p] = "completed"]
  <2>1. /\ t.totalExecutions = s.totalExecutions + 1
        /\ t.verifyExecutions = s.verifyExecutions
        /\ DOMAIN t = DOMAIN s
    OBVIOUS
  <2>2. /\ ApplyPolicySkips(t).totalExecutions = t.totalExecutions
        /\ ApplyPolicySkips(t).verifyExecutions = t.verifyExecutions
        /\ DOMAIN ApplyPolicySkips(t) = DOMAIN s
    <3> HIDE DEF t
    <3> QED BY <2>1 DEF ApplyPolicySkips
  <2>3. /\ GatePassed(s, p).totalExecutions = ApplyPolicySkips(t).totalExecutions
        /\ GatePassed(s, p).verifyExecutions = ApplyPolicySkips(t).verifyExecutions
    <3>1. GatePassed(s, p) = [ApplyPolicySkips(t) EXCEPT
             !.currentPhase = NextOpenPhase(ApplyPolicySkips(t), PhaseIndex[p] + 1)]
      BY DEF GatePassed
    <3> HIDE DEF t
    <3> QED BY <2>2, <3>1
  <2>4. Outcome(op, s) = GatePassed(s, p)
    BY <1>2
  <2> HIDE DEF t, p
  <2> QED BY <1>2, <2>1, <2>2, <2>3, <2>4
<1>3. CASE op.kind = "fail"
  BY <1>3 DEF GateFailed
<1>4. CASE op.kind \in {"escape", "decide", "continue", "abort"}
  BY <1>4 DEF RecordPhaseEscape, RecordDecision, ContinueWorkflow, AbortWorkflow
<1>5. CASE op.kind = "replan"
  BY <1>5 DEF ReplanWorkflow
<1>6. CASE op.kind \in {"save", "run"}
  BY <1>6
<1>7. op.kind \in {"mark", "pass", "fail", "escape", "decide", "continue", "abort", "replan",
                   "save", "run"}
  BY DEF Op
<1> QED BY <1>1, <1>2, <1>3, <1>4, <1>5, <1>6, <1>7

\* The merge of a save keeps the total it saves; the verify executions are those of
\* the saved document, or of the file when the policy had skipped verify.
LEMMA MergeCounts ==
  ASSUME NEW s, Sound(s), NEW current
  PROVE  /\ SameTotal(s, MergeDatabaseRisk(s, current))
         /\ MergeDatabaseRisk(s, current).verifyExecutions
              \in {s.verifyExecutions, current.verifyExecutions}
BY DEF MergeDatabaseRisk, Sound, WorkflowDocument, SameTotal

\* Policy skips count nothing.
LEMMA PolicySkipsCount ==
  ASSUME NEW s, Sound(s)
  PROVE  /\ ApplyPolicySkips(s).totalExecutions = s.totalExecutions
         /\ ApplyPolicySkips(s).verifyExecutions = s.verifyExecutions
BY DEF ApplyPolicySkips, Sound, WorkflowDocument

\* A parent-only decision counts nothing; a revision clears the verify executions.
LEMMA DecisionsCount ==
  ASSUME StoreInv, NEW decision,
         \/ UNCHANGED stateFile
         \/ stateFile' = RecordApproved(stateFile, decision)
         \/ stateFile' = RecordRejected(stateFile) \/ stateFile' = RecordRevision(stateFile)
         \/ stateFile' = RecordCompleted(stateFile) \/ stateFile' = RecordHold(stateFile)
         \/ stateFile' = PlanPassed(stateFile)
  PROVE  SameTotal(stateFile, stateFile') /\ NoMoreVerify(stateFile, stateFile')
BY DEF StoreInv, FilesOK, Sound, WorkflowDocument, SameTotal, NoMoreVerify, RecordApproved,
       RecordRejected, RecordRevision, RecordCompleted, RecordHold, PlanPassed

\* Nothing the environment does adds to a counter, and only a reset clears the total.
LEMMA EnvironmentCounts ==
  ASSUME StoreInv, Environment
  PROVE  /\ NoMoreVerify(stateFile, stateFile')
         /\ UNCHANGED cli
         /\ "reset" \notin Commands => SameTotal(stateFile, stateFile') /\ UNCHANGED executions
<1>1. Sound(stateFile)
  BY DEF StoreInv, FilesOK
<1>2. ASSUME NEW reason \in Reason, WfDbCheck(reason)
      PROVE  SameTotal(stateFile, stateFile') /\ NoMoreVerify(stateFile, stateFile')
  BY <1>1, <1>2
     DEF WfDbCheck, PromoteToHighRisk, Sound, WorkflowDocument, SameTotal, NoMoreVerify
<1>3. ASSUME NEW id \in WorkflowId, NEW class \in Classes, WfReset(id, class)
      PROVE  "reset" \in Commands /\ NoMoreVerify(stateFile, stateFile')
  <2> DEFINE fresh == InitialWorkflowState(id, stateFile.generation + 1, class)
  <2>1. Sound(fresh)
    BY <1>1, InitialSound, StoreAssumption DEF Sound, WorkflowDocument
  <2>2. fresh.verifyExecutions = 0
    BY DEF InitialWorkflowState
  <2>3. stateFile' = MergeDatabaseRisk(fresh, stateFile)
    BY <1>3 DEF WfReset
  <2>4. stateFile'.verifyExecutions \in {fresh.verifyExecutions, stateFile.verifyExecutions}
    <3> HIDE DEF fresh
    <3> QED BY <2>1, <2>3, MergeCounts
  <2> QED BY <1>3, <2>2, <2>4 DEF WfReset, NoMoreVerify
<1>4. CASE WfRevise \/ WfReject \/ WfHold \/ ParentPassesPlan
           \/ \E identity \in Identity : EditPlanning(identity)
  <2>1. SameTotal(stateFile, stateFile') /\ NoMoreVerify(stateFile, stateFile')
    BY <1>4, DecisionsCount DEF WfRevise, WfReject, WfHold, ParentPassesPlan, EditPlanning
  <2>2. UNCHANGED <<cli, executions>>
    BY <1>4 DEF WfRevise, WfReject, WfHold, ParentPassesPlan, EditPlanning
  <2> QED BY <2>1, <2>2
<1>5. CASE \E reason \in Reason : WfDbCheck(reason)
  BY <1>2, <1>5 DEF WfDbCheck
<1>6. CASE \E id \in WorkflowId, class \in Classes : WfReset(id, class)
  BY <1>3, <1>6 DEF WfReset
<1> QED BY <1>4, <1>5, <1>6 DEF Environment

\* Steps of the approval and Done transactions count nothing and queue nothing.
TransactionStep(c) ==
  \/ \E actor \in Actor : ApproveBegin(c, actor) \/ ConfirmBegin(c, actor)
  \/ ApproveWriteArtifact(c) \/ ApproveCommit(c) \/ ApproveFail(c)
  \/ ConfirmWriteArtifact(c) \/ ConfirmCommit(c) \/ ConfirmFail(c)

LEMMA TransactionCounts ==
  ASSUME StoreInv, NEW c \in Cli, TransactionStep(c)
  PROVE  /\ SameTotal(stateFile, stateFile') /\ NoMoreVerify(stateFile, stateFile')
         /\ UNCHANGED <<cli, executions>>
<1>1. /\ \E decision : \/ UNCHANGED stateFile
                       \/ stateFile' = RecordApproved(stateFile, decision)
                       \/ stateFile' = RecordCompleted(stateFile)
      /\ UNCHANGED <<cli, executions>>
  BY DEF TransactionStep, ApproveBegin, ConfirmBegin, ApproveWriteArtifact, ApproveCommit,
         ApproveFail, ConfirmWriteArtifact, ConfirmCommit, ConfirmFail
<1> QED BY <1>1, DecisionsCount

\* An operation put before a queue is its head, and the queue its tail.
LEMMA PutFirst ==
  ASSUME NEW S, NEW x \in S, NEW queue \in Seq(S)
  PROVE  /\ <<x>> \o queue \in Seq(S)
         /\ <<x>> \o queue # <<>>
         /\ Head(<<x>> \o queue) = x
         /\ Tail(<<x>> \o queue) = queue
<1> DEFINE whole == <<x>> \o queue
<1>1. <<x>> \in Seq(S) /\ Len(<<x>>) = 1 /\ <<x>>[1] = x
  OBVIOUS
<1>2. /\ whole \in Seq(S) /\ Len(whole) = 1 + Len(queue)
      /\ \A i \in 1..1 + Len(queue) : whole[i] = IF i <= 1 THEN <<x>>[i] ELSE queue[i - 1]
  BY <1>1, ConcatProperties
<1>3. Len(queue) \in Nat
  BY LenProperties
<1> HIDE DEF whole
<1>4. whole # <<>> /\ whole[1] = x /\ Head(whole) = whole[1]
  BY <1>1, <1>2, <1>3, EmptySeq
<1>5. /\ Tail(whole) \in Seq(S) /\ Len(Tail(whole)) = Len(queue)
      /\ \A i \in 1..Len(queue) : Tail(whole)[i] = whole[i + 1]
  BY <1>2, <1>3, <1>4, HeadTailProperties
<1>6. \A i \in 1..Len(queue) : Tail(whole)[i] = queue[i]
  BY <1>2, <1>3, <1>5
<1>7. Tail(whole) = queue
  BY <1>5, <1>6, SeqEqual
<1> QED BY <1>2, <1>4, <1>7 DEF whole
-----------------------------------------------------------------------------
(* The execution counter.                                                  *)

\* What a process may hold: a snapshot that agrees with the file, and that is not
\* at the limit when the next save counts an execution.
Counted(ops, snap) ==
  snap # NoSnapshot =>
    /\ SameTotal(snap, stateFile)
    /\ CountsAsExecution(Head(ops)) => stateFile.totalExecutions < MaxTotalExecutions

CountInv ==
  /\ StoreInv
  /\ ExecutionsAccounted
  /\ \A c \in Cli : Counted(cli[c].ops, cli[c].snap)

\* Steps that only queue operations or drop them.
QueueingStep(c) ==
  \/ Load(c) \/ ProviderResult(c) \/ Crash(c)
  \/ \E forced \in Forced : WfNext(c, forced)
  \/ \E p \in PhaseArg, forced \in Forced : WfNextPhase(c, p, forced) \/ WfDecide(c, p, forced)
  \/ \E p \in PhaseArg : WfApplyResult(c, p)

\* The steps of a process are saves, transaction steps and queueing steps.
LEMMA StepKinds ==
  ASSUME NEW c \in Cli, Proceed(c) \/ Issue(c) \/ Crash(c)
  PROVE  Save(c) \/ TransactionStep(c) \/ QueueingStep(c)
BY DEF Proceed, Issue, TransactionStep, QueueingStep

\* Starting a phase takes a snapshot of the file, and saves before it counts.
LEMMA StartNextCounted ==
  ASSUME NEW c \in Cli, NEW s, SameTotal(s, stateFile), NEW p \in Phase, NEW forced,
         StartNext(c, s, p, forced)
  PROVE  \E ops, snap : Counted(ops, snap) /\ Enqueue(c, ops, snap)
<1> DEFINE rest == IF p = "verify" /\ OverFixLoopLimit(s) /\ ~forced THEN <<>>
                   ELSE PhaseProgram(p, s.replanCount)
           budget == IF s.replanCount < MaxReplans THEN "budget" ELSE "spent"
           ops == <<Do("save", p, "stay")>> \o rest
<1>1. /\ Do("save", p, "stay") \in Op /\ Do("mark", p, "stay") \in Op
      /\ Do("run", p, budget) \in Op
  BY OpTypes
<1>2. <<>> \in Seq(Op) /\ PhaseProgram(p, s.replanCount) \in Seq(Op)
  BY <1>1, QueueTypes DEF PhaseProgram
<1>3. rest \in Seq(Op)
  BY <1>2
<1>4. Head(ops) = Do("save", p, "stay")
  <2> HIDE DEF rest
  <2> QED BY <1>1, <1>3, PutFirst
<1>5. ~CountsAsExecution(Head(ops))
  <2> HIDE DEF ops
  <2> QED BY <1>4 DEF CountsAsExecution, Do
<1>6. Enqueue(c, ops, s)
  BY DEF StartNext
<1> HIDE DEF ops
<1> QED BY <1>5, <1>6 DEF Counted

\* Whatever is queued is counted from the file as it is now.
LEMMA QueueingCounted ==
  ASSUME StoreInv, NEW c \in Cli, QueueingStep(c)
  PROVE  /\ \E ops, snap : Counted(ops, snap) /\ Enqueue(c, ops, snap)
         /\ UNCHANGED <<stateFile, executions>>
<1>1. \A ops : Counted(ops, NoSnapshot)
  BY DEF Counted
<1>2. Sound(stateFile) /\ MaxTotalExecutions \in Nat
  BY ConstantsAssumption DEF StoreInv, FilesOK
<1>3. CASE Load(c)
  <2>1. CASE Refused(Head(cli[c].ops))
    BY <1>1, <1>3, <2>1 DEF Load
  <2>2. CASE ~Refused(Head(cli[c].ops))
    <3>1. Counted(cli[c].ops, stateFile)
      BY <1>2, <2>2, CounterTypes DEF Refused, ExecutionLimitReached, Counted, SameTotal
    <3> QED BY <1>3, <2>2, <3>1 DEF Load
  <2> QED BY <1>3, <2>1, <2>2 DEF Load
<1>4. CASE ProviderResult(c) \/ Crash(c) \/ \E p \in PhaseArg : WfApplyResult(c, p)
  BY <1>1, <1>4 DEF ProviderResult, Crash, WfApplyResult
<1>5. ASSUME NEW forced \in Forced, WfNext(c, forced)
      PROVE  /\ \E ops, snap : Counted(ops, snap) /\ Enqueue(c, ops, snap)
             /\ UNCHANGED <<stateFile, executions>>
  <2> DEFINE s == ApplyPolicySkips(stateFile)
  <2>1. SameTotal(s, stateFile) /\ s.currentPhase = stateFile.currentPhase
    BY <1>2, PolicySkipsCount DEF SameTotal, ApplyPolicySkips, Sound, WorkflowDocument
  <2>2. stateFile.currentPhase \in Phase
    BY <1>2, <1>5 DEF WfNext, Sound, WorkflowDocument
  <2>3. ResolveNextPhase(s) \in Phase
    BY <2>1, <2>2, NextOpenPhaseType DEF ResolveNextPhase
  <2>4. StartNext(c, s, ResolveNextPhase(s), forced)
    BY <1>5 DEF WfNext
  <2> HIDE DEF s
  <2>5. UNCHANGED <<stateFile, executions>>
    BY <2>4 DEF StartNext
  <2> QED BY <2>1, <2>3, <2>4, <2>5, StartNextCounted
<1>6. ASSUME NEW p \in PhaseArg, NEW forced \in Forced, WfNextPhase(c, p, forced)
      PROVE  /\ \E ops, snap : Counted(ops, snap) /\ Enqueue(c, ops, snap)
             /\ UNCHANGED <<stateFile, executions>>
  <2>1. SameTotal(stateFile, stateFile) /\ p \in Phase
    BY StoreAssumption DEF SameTotal
  <2>2. StartNext(c, stateFile, p, forced)
    BY <1>6 DEF WfNextPhase
  <2>3. UNCHANGED <<stateFile, executions>>
    BY <2>2 DEF StartNext
  <2> QED BY <2>1, <2>2, <2>3, StartNextCounted
<1>7. ASSUME NEW p \in PhaseArg, NEW forced \in Forced, WfDecide(c, p, forced)
      PROVE  /\ \E ops, snap : Counted(ops, snap) /\ Enqueue(c, ops, snap)
             /\ UNCHANGED <<stateFile, executions>>
  <2>1. PICK op : \/ Enqueue(c, <<op>>, NoSnapshot)
                  \/ Enqueue(c, <<Do("save", p, "stay"), op>>, stateFile)
    BY <1>7 DEF WfDecide
  <2>2. ~CountsAsExecution(Head(<<Do("save", p, "stay"), op>>))
    BY DEF CountsAsExecution, Do
  <2>3. Counted(<<Do("save", p, "stay"), op>>, stateFile)
    BY <2>2 DEF Counted, SameTotal
  <2>4. UNCHANGED <<stateFile, executions>>
    BY <1>7 DEF WfDecide
  <2> QED BY <1>1, <2>1, <2>3, <2>4
<1> QED BY <1>3, <1>4, <1>5, <1>6, <1>7 DEF QueueingStep

\* A save of the only process counts what it executed, in the file and in fact.
LEMMA SaveCounted ==
  ASSUME OneProcess, CountInv, NEW c \in Cli, Save(c)
  PROVE  ExecutionsAccounted' /\ \A d \in Cli : Counted(cli[d].ops, cli[d].snap)'
<1> DEFINE op == Head(cli[c].ops)
           s == cli[c].snap
<1>1. op \in Op
  BY HeadTailProperties DEF Save, CountInv, StoreInv, CliOK
<1>2. Sound(s) /\ Sound(stateFile) /\ s # NoSnapshot
  BY DEF Save, CountInv, StoreInv, CliOK, FilesOK
<1>3. /\ s.totalExecutions = stateFile.totalExecutions
      /\ CountsAsExecution(op) => stateFile.totalExecutions < MaxTotalExecutions
  BY <1>2 DEF CountInv, Counted, SameTotal
<1>4. stateFile'.totalExecutions =
        IF CountsAsExecution(op) THEN s.totalExecutions + 1 ELSE s.totalExecutions
  BY <1>1, <1>2, OutcomeSound, OutcomeCounts, MergeCounts DEF Save, SameTotal
<1>5. executions' = IF CountsAsExecution(op) /\ executions <= MaxTotalExecutions
                    THEN executions + 1 ELSE executions
  BY DEF Save
<1>6. /\ executions = stateFile.totalExecutions /\ executions <= MaxTotalExecutions
      /\ executions \in Nat /\ MaxTotalExecutions \in Nat
  BY ConstantsAssumption DEF CountInv, ExecutionsAccounted, StoreInv, FilesOK
<1>7. ExecutionsAccounted'
  <2> HIDE DEF op, s
  <2> QED BY <1>3, <1>4, <1>5, <1>6 DEF ExecutionsAccounted
<1>8. \A d \in Cli : cli'[d].snap = NoSnapshot
  BY DEF Save, Enqueue, OneProcess, CountInv, StoreInv, CliOK
<1> QED BY <1>7, <1>8 DEF Counted

\* A step that leaves the total, the executions and the queues leaves the counts.
LEMMA NothingCounted ==
  ASSUME CountInv, SameTotal(stateFile, stateFile'), UNCHANGED <<cli, executions>>
  PROVE  ExecutionsAccounted' /\ \A d \in Cli : Counted(cli[d].ops, cli[d].snap)'
BY DEF CountInv, ExecutionsAccounted, SameTotal, Counted

\* One process at a time and no reset: the counter behind MAX_TOTAL_EXECUTIONS is the
\* number of executions done in this generation and never passes the limit, for any
\* number of crashes, replans, edits and database checks.
THEOREM ExecutionsAreCounted ==
  OneProcess /\ "reset" \notin Commands /\ Spec => []ExecutionsAccounted
<1> SUFFICES ASSUME OneProcess, "reset" \notin Commands PROVE Spec => []ExecutionsAccounted
  OBVIOUS
<1>1. Init => CountInv
  <2> SUFFICES ASSUME Init PROVE CountInv
    OBVIOUS
  <2>1. StoreInv
    BY InitOK
  <2>2. stateFile.totalExecutions = 0 /\ executions = 0
    BY DEF Init, InitialWorkflowState
  <2>3. \A c \in Cli : cli[c].snap = NoSnapshot
    BY DEF Init
  <2> QED BY <2>1, <2>2, <2>3, ConstantsAssumption DEF CountInv, ExecutionsAccounted, Counted
<1>2. CountInv /\ [Next]_vars => CountInv'
  <2> SUFFICES ASSUME CountInv, [Next]_vars PROVE CountInv'
    OBVIOUS
  <2> DEFINE Good == ExecutionsAccounted' /\ \A d \in Cli : Counted(cli[d].ops, cli[d].snap)'
  <2>1. StoreInv /\ StoreInv'
    BY StepOK DEF CountInv
  <2>2. ASSUME NEW c \in Cli, QueueingStep(c) PROVE Good
    <3>1. PICK ops, snap : Counted(ops, snap) /\ Enqueue(c, ops, snap)
      BY <2>1, <2>2, QueueingCounted
    <3>2. UNCHANGED <<stateFile, executions>>
      BY <2>1, <2>2, QueueingCounted
    <3>3. \A d \in Cli : cli'[d] = IF d = c THEN [ops |-> ops, snap |-> snap] ELSE cli[d]
      BY <2>1, <3>1 DEF Enqueue, StoreInv, CliOK
    <3>4. \A d \in Cli : Counted(cli'[d].ops, cli'[d].snap)
      BY <3>1, <3>3 DEF CountInv
    <3> QED BY <3>2, <3>4 DEF CountInv, ExecutionsAccounted, Counted
  <2>3. ASSUME NEW c \in Cli, Save(c) \/ TransactionStep(c) PROVE Good
    BY <2>1, <2>3, SaveCounted, TransactionCounts, NothingCounted
  <2>4. ASSUME Environment PROVE Good
    BY <2>1, <2>4, EnvironmentCounts, NothingCounted
  <2>5. ASSUME UNCHANGED vars PROVE Good
    BY <2>5, NothingCounted DEF vars, SameTotal
  <2>6. Good
    BY <2>2, <2>3, <2>4, <2>5, StepKinds DEF Next
  <2> QED BY <2>1, <2>6 DEF CountInv
<1>3. CountInv => ExecutionsAccounted
  BY DEF CountInv
<1> QED BY <1>1, <1>2, <1>3, PTL DEF Spec
-----------------------------------------------------------------------------
(* The fix-loop limit.                                                     *)

\* Operations that start no phase.
Quiet == {op \in Op : op.kind # "mark"}

\* The queue of a wf next that is still going to mark phase p.
Starting(ops, p) ==
  /\ ops # <<>>
  /\ \/ Head(ops) = Do("mark", p, "stay") /\ Tail(ops) \in Seq(Quiet)
     \/ /\ Head(ops) = Do("save", p, "stay")
        /\ Tail(ops) # <<>>
        /\ Head(Tail(ops)) = Do("mark", p, "stay")
        /\ Tail(Tail(ops)) \in Seq(Quiet)

\* One more verify is within the limit, in the file and in the snapshot.
Room(snap) ==
  /\ stateFile.verifyExecutions < FixLoopLimit
  /\ snap # NoSnapshot => snap.verifyExecutions < FixLoopLimit

\* What a process may hold: a snapshot within the limit, and a verify about to start
\* only when there is room for it.
Bounded(ops, snap) ==
  /\ snap # NoSnapshot => snap.verifyExecutions <= FixLoopLimit
  /\ \/ ops \in Seq(Quiet)
     \/ \E p \in Phase : Starting(ops, p) /\ (p = "verify" => Room(snap))

LoopInv ==
  /\ StoreInv
  /\ FixLoopHardLimit
  /\ \A c \in Cli : Bounded(cli[c].ops, cli[c].snap)

\* The operations that are not marks.
LEMMA QuietTypes ==
  ASSUME NEW p \in Phase
  PROVE  /\ \A k \in {"save", "escape", "decide", "continue", "abort"} :
              Do(k, p, "stay") \in Quiet
         /\ p \in ResultPhase =>
              /\ Do("pass", p, "stay") \in Quiet
              /\ \A r \in Phase \cup {"stay", "prompt_user"} : Do("fail", p, r) \in Quiet
         /\ \A t \in Phase : Do("replan", p, t) \in Quiet
         /\ \A b \in {"budget", "spent"} : Do("run", p, b) \in Quiet
BY OpTypes DEF Quiet, Do

\* A queue of explicit operations is taken apart at its head.
LEMMA ProgramParts ==
  ASSUME NEW x, NEW y, NEW z
  PROVE  /\ <<x, y, z>> # <<>>
         /\ Head(<<x, y, z>>) = x
         /\ Tail(<<x, y, z>>) = <<y, z>>
OBVIOUS

\* wf next may start verify only when one more is within the limit.
LEMMA StartNextBounded ==
  ASSUME LoopInv, "force" \notin Commands, NEW c \in Cli,
         NEW s, s.verifyExecutions = stateFile.verifyExecutions,
         NEW p \in Phase, NEW forced \in Forced, StartNext(c, s, p, forced)
  PROVE  \E ops, snap : Bounded(ops, snap) /\ Enqueue(c, ops, snap)
<1> DEFINE rest == IF p = "verify" /\ OverFixLoopLimit(s) /\ ~forced THEN <<>>
                   ELSE PhaseProgram(p, s.replanCount)
           budget == IF s.replanCount < MaxReplans THEN "budget" ELSE "spent"
           save == Do("save", p, "stay")
           mark == Do("mark", p, "stay")
           run == Do("run", p, budget)
           ops == <<save>> \o rest
<1>1. save \in Quiet /\ run \in Quiet /\ Quiet \subseteq Op /\ save \in Op /\ run \in Op
      /\ mark \in Op
  BY OpTypes, QuietTypes DEF Quiet
<1>2. stateFile.verifyExecutions \in Nat /\ FixLoopLimit \in Nat
      /\ stateFile.verifyExecutions <= FixLoopLimit
  BY CounterTypes, StoreAssumption DEF LoopInv, StoreInv, FilesOK, FixLoopHardLimit
<1>3. ~forced
  BY DEF Forced
<1>4. Enqueue(c, ops, s)
  BY DEF StartNext
<1>5. CASE p = "verify" /\ OverFixLoopLimit(s)
  <2>1. rest = <<>> /\ <<>> \in Seq(Quiet)
    BY <1>3, <1>5
  <2>2. ops \in Seq(Quiet)
    <3> HIDE DEF rest, save
    <3> QED BY <1>1, <2>1, PutFirst
  <2> HIDE DEF ops
  <2> QED BY <1>2, <1>4, <2>2 DEF Bounded
<1>6. CASE ~(p = "verify" /\ OverFixLoopLimit(s))
  <2>1. rest = <<mark, save, run>>
    BY <1>6 DEF PhaseProgram
  <2>2. rest \in Seq(Op) /\ rest # <<>> /\ Head(rest) = mark /\ Tail(rest) \in Seq(Quiet)
    <3>1. <<mark, save, run>> \in Seq(Op) /\ <<save, run>> \in Seq(Quiet)
      <4> HIDE DEF mark, save, run
      <4> QED BY <1>1, QueueTypes
    <3> HIDE DEF mark, save, run, rest
    <3> QED BY <2>1, <3>1, ProgramParts
  <2>3. ops # <<>> /\ Head(ops) = save /\ Tail(ops) = rest
    <3> HIDE DEF rest, save
    <3> QED BY <1>1, <2>2, PutFirst
  <2>4. Starting(ops, p)
    <3> HIDE DEF ops, rest
    <3> QED BY <2>2, <2>3 DEF Starting
  <2>5. p = "verify" => Room(s)
    BY <1>2, <1>6 DEF OverFixLoopLimit, Room
  <2> HIDE DEF ops
  <2> QED BY <1>2, <1>4, <2>4, <2>5 DEF Bounded
<1> QED BY <1>5, <1>6

\* Results, decisions and whatever a provider leads to start no phase.
LEMMA ProviderResultQuiet ==
  ASSUME StoreInv, NEW c \in Cli, ProviderResult(c)
  PROVE  \E ops \in Seq(Quiet) : Enqueue(c, ops, NoSnapshot)
<1> DEFINE p == Head(cli[c].ops).phase
           escape(decision) ==
             <<Do("escape", p, "stay"), Do("decide", p, "stay")>> \o decision
           applied == {<<Do("pass", p, "stay")>>} \cup {<<Do("fail", p, r)>> : r \in OnFail[p]}
           replans == {escape(<<Do("replan", p, t)>>) : t \in PhaseArg}
<1>1. p \in Phase
  <2>1. Head(cli[c].ops) \in Op
    BY HeadTailProperties DEF ProviderResult, StoreInv, CliOK
  <2> QED BY <2>1 DEF Op, Phase, ResultPhase
<1>2. <<>> \in Seq(Quiet)
  OBVIOUS
<1>3. ASSUME NEW decision \in Seq(Quiet) PROVE escape(decision) \in Seq(Quiet)
  <2>1. Do("escape", p, "stay") \in Quiet /\ Do("decide", p, "stay") \in Quiet
    BY <1>1, QuietTypes
  <2>2. <<Do("escape", p, "stay"), Do("decide", p, "stay")>> \in Seq(Quiet)
    BY <2>1, QueueTypes
  <2> QED BY <2>2, ConcatProperties
<1>4. <<Do("continue", p, "stay")>> \in Seq(Quiet) /\ <<Do("abort", p, "stay")>> \in Seq(Quiet)
  <2>1. Do("continue", p, "stay") \in Quiet /\ Do("abort", p, "stay") \in Quiet
    BY <1>1, QuietTypes
  <2> QED BY <2>1, QueueTypes
<1>5. replans \subseteq Seq(Quiet)
  <2>1. ASSUME NEW t \in PhaseArg PROVE <<Do("replan", p, t)>> \in Seq(Quiet)
    BY <1>1, QuietTypes, QueueTypes, StoreAssumption
  <2> QED BY <1>3, <2>1
<1>6. p \in {"review", "verify"} => applied \subseteq Seq(Quiet)
  <2> SUFFICES ASSUME p \in {"review", "verify"} PROVE applied \subseteq Seq(Quiet)
    OBVIOUS
  <2>1. p \in ResultPhase
    BY DEF ResultPhase
  <2>2. Do("pass", p, "stay") \in Quiet
    BY <1>1, <2>1, QuietTypes
  <2>3. \A r \in OnFail[p] : Do("fail", p, r) \in Quiet
    BY <1>1, <2>1, QuietTypes, StoreAssumption
  <2> QED BY <2>2, <2>3, QueueTypes
<1> DEFINE outcomes == {<<>>, escape(<<>>), escape(<<Do("continue", p, "stay")>>),
                        escape(<<Do("abort", p, "stay")>>)}
                       \cup (IF Head(cli[c].ops).arg = "budget" THEN replans ELSE {})
                       \cup (IF p \in {"review", "verify"} THEN applied ELSE {})
<1>7. outcomes \subseteq Seq(Quiet)
  <2>1. /\ escape(<<>>) \in Seq(Quiet)
        /\ escape(<<Do("continue", p, "stay")>>) \in Seq(Quiet)
        /\ escape(<<Do("abort", p, "stay")>>) \in Seq(Quiet)
    BY <1>2, <1>3, <1>4
  <2> HIDE DEF escape, applied, replans, p
  <2> QED BY <1>2, <1>5, <1>6, <2>1
<1>8. PICK ops \in outcomes :
        Enqueue(c, IF p = "impl" /\ ~(stateFile.currentPhase = "impl" /\ SealValid(stateFile))
                   THEN <<>> ELSE ops, NoSnapshot)
  BY DEF ProviderResult
<1> HIDE DEF outcomes, p
<1> QED BY <1>2, <1>7, <1>8

\* An explicit result and an orchestrator decision start no phase either.
LEMMA CommandsQuiet ==
  ASSUME NEW c \in Cli, NEW p \in PhaseArg,
         WfApplyResult(c, p) \/ \E forced \in Forced : WfDecide(c, p, forced)
  PROVE  \E ops \in Seq(Quiet), snap \in {NoSnapshot, stateFile} : Enqueue(c, ops, snap)
<1>1. p \in Phase /\ PhaseArg \subseteq Phase
  BY StoreAssumption
<1>2. CASE WfApplyResult(c, p)
  <2> DEFINE results == {<<Do("pass", p, "stay")>>,
                         <<Do("escape", p, "stay"), Do("fail", p, "stay")>>}
                        \cup {<<Do("fail", p, r)>> : r \in OnFail[p]}
  <2>1. p \in ResultPhase
    BY <1>2 DEF WfApplyResult
  <2>2. Do("pass", p, "stay") \in Quiet /\ Do("escape", p, "stay") \in Quiet
    BY <1>1, <2>1, QuietTypes
  <2>3. \A r \in OnFail[p] \cup {"stay"} : Do("fail", p, r) \in Quiet
    BY <1>1, <2>1, QuietTypes, StoreAssumption
  <2>4. results \subseteq Seq(Quiet)
    BY <2>2, <2>3, QueueTypes
  <2>5. PICK ops \in results : Enqueue(c, ops, NoSnapshot)
    BY <1>2 DEF WfApplyResult
  <2> HIDE DEF results
  <2> QED BY <2>4, <2>5
<1>3. CASE \E forced \in Forced : WfDecide(c, p, forced)
  <2> DEFINE decisions == {Do("continue", p, "stay"), Do("abort", p, "stay")}
                          \cup {Do("replan", p, t) : t \in PhaseArg}
  <2>1. decisions \subseteq Quiet /\ Do("save", p, "stay") \in Quiet
    BY <1>1, QuietTypes
  <2>2. PICK op \in decisions :
          \/ Enqueue(c, <<op>>, NoSnapshot)
          \/ Enqueue(c, <<Do("save", p, "stay"), op>>, stateFile)
    BY <1>3 DEF WfDecide
  <2> HIDE DEF decisions
  <2>3. <<op>> \in Seq(Quiet) /\ <<Do("save", p, "stay"), op>> \in Seq(Quiet)
    BY <2>1, QueueTypes
  <2> QED BY <2>2, <2>3
<1> QED BY <1>2, <1>3

\* Whatever is queued is within the limit, as long as nothing is forced.
LEMMA QueueingBounded ==
  ASSUME LoopInv, "force" \notin Commands, NEW c \in Cli, QueueingStep(c)
  PROVE  /\ \E ops, snap : Bounded(ops, snap) /\ Enqueue(c, ops, snap)
         /\ UNCHANGED stateFile
<1>1. \A ops \in Seq(Quiet), snap \in {NoSnapshot, stateFile} : Bounded(ops, snap)
  BY DEF Bounded, LoopInv, FixLoopHardLimit
<1>2. Sound(stateFile) /\ <<>> \in Seq(Quiet)
  BY DEF LoopInv, StoreInv, FilesOK
<1>3. CASE Load(c)
  <2>1. Bounded(cli[c].ops, stateFile)
    <3>1. Bounded(cli[c].ops, cli[c].snap) /\ stateFile.verifyExecutions <= FixLoopLimit
      BY DEF LoopInv, FixLoopHardLimit
    <3> QED BY <3>1 DEF Bounded, Room
  <2> QED BY <1>1, <1>2, <1>3, <2>1 DEF Load
<1>4. CASE ProviderResult(c)
  <2>1. UNCHANGED stateFile
    BY <1>4 DEF ProviderResult
  <2> QED BY <1>1, <1>4, <2>1, ProviderResultQuiet DEF LoopInv
<1>5. CASE Crash(c)
  BY <1>1, <1>2, <1>5 DEF Crash
<1>6. CASE \E p \in PhaseArg : WfApplyResult(c, p) \/ \E forced \in Forced : WfDecide(c, p, forced)
  <2>1. UNCHANGED stateFile
    BY <1>6 DEF WfApplyResult, WfDecide
  <2> QED BY <1>1, <1>6, <2>1, CommandsQuiet
<1>7. ASSUME NEW forced \in Forced, WfNext(c, forced)
      PROVE  /\ \E ops, snap : Bounded(ops, snap) /\ Enqueue(c, ops, snap)
             /\ UNCHANGED stateFile
  <2> DEFINE s == ApplyPolicySkips(stateFile)
  <2>1. s.verifyExecutions = stateFile.verifyExecutions /\ s.currentPhase = stateFile.currentPhase
    BY <1>2, PolicySkipsCount DEF ApplyPolicySkips, Sound, WorkflowDocument
  <2>2. stateFile.currentPhase \in Phase
    BY <1>2, <1>7 DEF WfNext, Sound, WorkflowDocument
  <2>3. ResolveNextPhase(s) \in Phase
    BY <2>1, <2>2, NextOpenPhaseType DEF ResolveNextPhase
  <2>4. StartNext(c, s, ResolveNextPhase(s), forced)
    BY <1>7 DEF WfNext
  <2> HIDE DEF s
  <2>5. UNCHANGED stateFile
    BY <2>4 DEF StartNext
  <2> QED BY <2>1, <2>3, <2>4, <2>5, StartNextBounded
<1>8. ASSUME NEW p \in PhaseArg, NEW forced \in Forced, WfNextPhase(c, p, forced)
      PROVE  /\ \E ops, snap : Bounded(ops, snap) /\ Enqueue(c, ops, snap)
             /\ UNCHANGED stateFile
  <2>1. p \in Phase
    BY StoreAssumption
  <2>2. StartNext(c, stateFile, p, forced)
    BY <1>8 DEF WfNextPhase
  <2>3. UNCHANGED stateFile
    BY <2>2 DEF StartNext
  <2> QED BY <2>1, <2>2, <2>3, StartNextBounded
<1> QED BY <1>3, <1>4, <1>5, <1>6, <1>7, <1>8 DEF QueueingStep

\* A save of the only process stays within the limit, and leaves room for a verify
\* that is still to be marked.
LEMMA SaveBounded ==
  ASSUME OneProcess, LoopInv, NEW c \in Cli, Save(c)
  PROVE  FixLoopHardLimit' /\ \A d \in Cli : Bounded(cli[d].ops, cli[d].snap)'
<1> DEFINE ops == cli[c].ops
           op == Head(ops)
           s == cli[c].snap
           merged == {Outcome(op, s).verifyExecutions, stateFile.verifyExecutions}
<1>1. op \in Op /\ Tail(ops) \in Seq(Op) /\ ops # <<>>
  BY HeadTailProperties DEF Save, LoopInv, StoreInv, CliOK
<1>2. Sound(s) /\ Sound(stateFile) /\ s # NoSnapshot
  BY DEF Save, LoopInv, StoreInv, CliOK, FilesOK
<1>3. /\ s.verifyExecutions \in Nat /\ stateFile.verifyExecutions \in Nat
      /\ FixLoopLimit \in Nat
      /\ s.verifyExecutions <= FixLoopLimit /\ stateFile.verifyExecutions <= FixLoopLimit
  BY <1>2, CounterTypes, StoreAssumption DEF LoopInv, FixLoopHardLimit, Bounded
<1>4. stateFile'.verifyExecutions \in merged
  BY <1>1, <1>2, OutcomeSound, MergeCounts DEF Save
<1>5. Outcome(op, s).verifyExecutions =
        IF op.kind = "mark" /\ op.phase = "verify" THEN s.verifyExecutions + 1
        ELSE s.verifyExecutions
  BY <1>1, <1>2, OutcomeCounts
<1>6. cli'[c].ops = FollowUp(op, s) \o Tail(ops) /\ cli'[c].snap = NoSnapshot
  BY DEF Save, Enqueue, LoopInv, StoreInv, CliOK
<1>7. op.kind # "fail" => cli'[c].ops = Tail(ops)
  BY <1>1, <1>6, ConcatEmptySeq DEF FollowUp
<1> HIDE DEF merged, op, ops, s
<1>8. CASE ops \in Seq(Quiet)
  <2>1. op \in Quiet /\ Tail(ops) \in Seq(Quiet)
    BY <1>1, <1>8, HeadTailProperties DEF op
  <2>2. FollowUp(op, s) \in Seq(Quiet)
    <3>1. op.phase \in Phase /\ (op.kind = "fail" => op.arg \in Phase \cup {"stay", "prompt_user"})
      BY <1>1 DEF Op, Phase, ResultPhase
    <3>2. /\ Do("decide", op.phase, "stay") \in Quiet
          /\ op.kind = "fail" /\ op.arg \notin {"stay", "prompt_user"}
               => Do("replan", op.phase, op.arg) \in Quiet
      BY <3>1, QuietTypes
    <3>3. <<>> \in Seq(Quiet)
      OBVIOUS
    <3> QED BY <3>2, <3>3, QueueTypes DEF FollowUp
  <2>3. cli'[c].ops \in Seq(Quiet)
    BY <1>6, <2>1, <2>2, ConcatProperties
  <2>4. stateFile'.verifyExecutions <= FixLoopLimit
    BY <1>3, <1>4, <1>5, <2>1 DEF merged, Quiet
  <2> QED BY <1>6, <2>3, <2>4 DEF Bounded, FixLoopHardLimit, OneProcess
<1>9. ASSUME NEW p \in Phase, Starting(ops, p), p = "verify" => Room(s)
      PROVE  FixLoopHardLimit' /\ \A d \in Cli : Bounded(cli[d].ops, cli[d].snap)'
  <2>1. p = "verify" => /\ stateFile.verifyExecutions < FixLoopLimit
                        /\ s.verifyExecutions < FixLoopLimit
    BY <1>2, <1>9 DEF Room
  <2>2. CASE op = Do("mark", p, "stay") /\ Tail(ops) \in Seq(Quiet)
    <3>1. op.kind = "mark" /\ op.phase = p
      BY <2>2 DEF Do
    <3>2. cli'[c].ops \in Seq(Quiet)
      BY <1>7, <2>2, <3>1
    <3>3. stateFile'.verifyExecutions <= FixLoopLimit
      BY <1>3, <1>4, <1>5, <2>1, <3>1 DEF merged
    <3> QED BY <1>6, <3>2, <3>3 DEF Bounded, FixLoopHardLimit, OneProcess
  <2>3. CASE /\ op = Do("save", p, "stay") /\ Tail(ops) # <<>>
             /\ Head(Tail(ops)) = Do("mark", p, "stay") /\ Tail(Tail(ops)) \in Seq(Quiet)
    <3>1. op.kind = "save"
      BY <2>3 DEF Do
    <3>2. Starting(cli'[c].ops, p)
      BY <1>7, <2>3, <3>1 DEF Starting
    <3>3. /\ stateFile'.verifyExecutions <= FixLoopLimit
          /\ p = "verify" => stateFile'.verifyExecutions < FixLoopLimit
      BY <1>3, <1>4, <1>5, <2>1, <3>1 DEF merged
    <3>4. Bounded(cli[c].ops, cli[c].snap)'
      BY <1>6, <3>2, <3>3 DEF Bounded, Room
    <3> QED BY <3>3, <3>4 DEF FixLoopHardLimit, OneProcess
  <2> QED BY <1>9, <2>2, <2>3 DEF Starting, op
<1> QED BY <1>8, <1>9 DEF LoopInv, Bounded, ops, s

\* A step that leaves the queues and adds no verify execution stays within the limit.
LEMMA NothingStarted ==
  ASSUME LoopInv, NoMoreVerify(stateFile, stateFile'), UNCHANGED cli
  PROVE  FixLoopHardLimit' /\ \A d \in Cli : Bounded(cli[d].ops, cli[d].snap)'
<1>1. /\ stateFile.verifyExecutions \in Nat /\ FixLoopLimit \in Nat
      /\ stateFile.verifyExecutions <= FixLoopLimit
  BY CounterTypes, StoreAssumption DEF LoopInv, StoreInv, FilesOK, FixLoopHardLimit
<1>2. /\ stateFile'.verifyExecutions <= FixLoopLimit
      /\ stateFile.verifyExecutions < FixLoopLimit
           => stateFile'.verifyExecutions < FixLoopLimit
  BY <1>1 DEF NoMoreVerify
<1> QED BY <1>2 DEF LoopInv, FixLoopHardLimit, Bounded, Room

\* One process at a time and no --force: the verify executions never pass the hard
\* limit of the fix loop, for any number of crashes, replans, resets, revisions and
\* database checks, also while an older snapshot is still to be saved.
THEOREM FixLoopIsBounded ==
  OneProcess /\ "force" \notin Commands /\ Spec => []FixLoopHardLimit
<1> SUFFICES ASSUME OneProcess, "force" \notin Commands PROVE Spec => []FixLoopHardLimit
  OBVIOUS
<1>1. Init => LoopInv
  <2> SUFFICES ASSUME Init PROVE LoopInv
    OBVIOUS
  <2>1. StoreInv
    BY InitOK
  <2>2. stateFile.verifyExecutions = 0
    BY DEF Init, InitialWorkflowState
  <2>3. \A c \in Cli : cli[c].snap = NoSnapshot /\ cli[c].ops = <<>>
    BY DEF Init
  <2>4. <<>> \in Seq(Quiet) /\ FixLoopLimit \in Nat
    BY StoreAssumption
  <2>5. FixLoopHardLimit
    BY <2>2, <2>4 DEF FixLoopHardLimit
  <2>6. \A c \in Cli : Bounded(cli[c].ops, cli[c].snap)
    BY <2>3, <2>4 DEF Bounded
  <2> QED BY <2>1, <2>5, <2>6 DEF LoopInv
<1>2. LoopInv /\ [Next]_vars => LoopInv'
  <2> SUFFICES ASSUME LoopInv, [Next]_vars PROVE LoopInv'
    OBVIOUS
  <2> DEFINE Good == FixLoopHardLimit' /\ \A d \in Cli : Bounded(cli[d].ops, cli[d].snap)'
  <2>1. StoreInv /\ StoreInv'
    BY StepOK DEF LoopInv
  <2>2. ASSUME NEW c \in Cli, QueueingStep(c) PROVE Good
    <3>1. PICK ops, snap : Bounded(ops, snap) /\ Enqueue(c, ops, snap)
      BY <2>2, QueueingBounded
    <3>2. UNCHANGED stateFile
      BY <2>2, QueueingBounded
    <3>3. \A d \in Cli : cli'[d] = IF d = c THEN [ops |-> ops, snap |-> snap] ELSE cli[d]
      BY <2>1, <3>1 DEF Enqueue, StoreInv, CliOK
    <3>4. \A d \in Cli : Bounded(cli'[d].ops, cli'[d].snap)
      BY <3>1, <3>3 DEF LoopInv
    <3> QED BY <3>2, <3>4 DEF LoopInv, FixLoopHardLimit, Bounded, Room
  <2>3. ASSUME NEW c \in Cli, Save(c) \/ TransactionStep(c) PROVE Good
    BY <2>1, <2>3, SaveBounded, TransactionCounts, NothingStarted
  <2>4. ASSUME Environment PROVE Good
    BY <2>1, <2>4, EnvironmentCounts, NothingStarted
  <2>5. ASSUME UNCHANGED vars PROVE Good
    BY <2>5, NothingStarted DEF vars, NoMoreVerify
  <2>6. Good
    BY <2>2, <2>3, <2>4, <2>5, StepKinds DEF Next
  <2> QED BY <2>1, <2>6 DEF LoopInv
<1>3. LoopInv => FixLoopHardLimit
  BY DEF LoopInv
<1> QED BY <1>1, <1>2, <1>3, PTL DEF Spec
=============================================================================
