--------------------------- MODULE DatabaseEvidence ---------------------------
(***************************************************************************)
(* `awf wf db-check`: the evidence file of a database change.              *)
(*                                                                         *)
(* A check reads the inputs (the database signal, the profile, the         *)
(* decision), runs the project's commands without a lock for minutes, then *)
(* takes the evidence lock, reads the inputs and the file again, and       *)
(* merges its own stage record into it.  Checks of different stages run    *)
(* concurrently, people edit the inputs, production migrates, and evidence *)
(* ages.                                                                   *)
(***************************************************************************)
EXTENDS Naturals, FiniteSets

CONSTANTS
  Check,        \* concurrent db-check commands
  Schema,       \* identities production's schema can have
  None,
  MaxAge,       \* profile.max_schema_age_hours
  MaxTime,      \* bound: the hours explored
  MaxChanges    \* bound: edits of the inputs

VARIABLES
  inputs,      \* what the signal, the profile and the decision now hash to
  production,  \* the schema of production
  now,
  evidence,    \* artifacts/database-validation-evidence.json
  promoted,    \* signals state.json records a high-risk escalation for
  check,       \* per command: the step it is at and what it has read
  holder       \* who holds the evidence lock

vars == <<inputs, production, now, evidence, promoted, check, holder>>

Stage == {"plan", "verify", "test"}
Downstream == {"verify", "test"}
Identity == [signal : Nat, profile : Nat, decision : Nat]
Capture == [schema : Schema, at : Nat]

\* A stage record; ran is a history of what the inputs were when its commands began.
Record == [identity : Identity, capture : Capture, ran : Identity]

Evidence == [identity : Identity, stage : [Stage -> Record \cup {None}]]

ASSUME EvidenceAssumption ==
  /\ None \notin Check \cup Schema
  /\ None \notin Identity /\ None \notin Capture /\ None \notin Record /\ None \notin Evidence
  /\ MaxAge \in Nat /\ MaxTime \in Nat /\ MaxChanges \in Nat

Idle == [at |-> "idle", stage |-> "plan", identity |-> None, stale |-> FALSE,
         capture |-> None, payload |-> None]

TypeOK ==
  /\ inputs \in Identity
  /\ production \in Schema
  /\ now \in Nat
  /\ evidence \in Evidence \cup {None}
  /\ promoted \subseteq Nat
  /\ holder \in Check \cup {None}
  /\ check \in [Check ->
       [at : {"idle", "detected", "loaded", "captured", "ran", "locked"}, stage : Stage,
        identity : Identity \cup {None}, stale : BOOLEAN, capture : Capture \cup {None},
        payload : Evidence \cup {None}]]

Init ==
  /\ inputs = [signal |-> 0, profile |-> 0, decision |-> 0]
  /\ production \in Schema
  /\ now = 0
  /\ evidence = None
  /\ promoted = {}
  /\ check = [c \in Check |-> Idle]
  /\ holder = None

-----------------------------------------------------------------------------
(* Validation of stored evidence.                                          *)

\* _validated_stored_schema with a profile: captured no longer ago than allowed.
Fresh(record) == now - record.capture.at <= MaxAge

Done(e) == {s \in Stage : e.stage[s] # None}

\* _validated_existing_stages without one: a plan record, and every record of the
\* file's identity and of the plan's schema.
WellFormed(e) ==
  /\ e.stage["plan"] # None
  /\ \A s \in Done(e) :
       /\ e.stage[s].identity = e.identity
       /\ e.stage[s].capture.schema = e.stage["plan"].capture.schema

AllFresh(e) == \A s \in Done(e) : Fresh(e.stage[s])

\* What a stage needs of the evidence it found, before its commands and again under
\* the lock: downstream stages need current and fresh evidence; a refresh of the
\* plan looks at the age only when the identity has not changed.
Blocker(stage, e, id, stale) ==
  IF e = None THEN IF stage = "plan" THEN "none" ELSE "missing"
  ELSE IF ~WellFormed(e) THEN "evidence_invalid"
  ELSE IF stage # "plan" /\ e.identity # id THEN "changed"
  ELSE IF ~stale /\ e.identity = id /\ ~AllFresh(e) THEN "evidence_invalid"
  ELSE "none"

-----------------------------------------------------------------------------
(* The steps of a check.                                                   *)

Stop(c) ==
  /\ check' = [check EXCEPT ![c] = Idle]
  /\ holder' = IF holder = c THEN None ELSE holder

\* The process dies or is interrupted.
Abandon(c) ==
  /\ check[c].at # "idle"
  /\ Stop(c)
  /\ UNCHANGED <<inputs, production, now, evidence, promoted>>

\* detect_database_signal; for the plan stage the callback escalates the workflow
\* before anything else is read.
Detect(c, stage) ==
  /\ check[c].at = "idle"
  /\ check' = [check EXCEPT ![c] =
       [Idle EXCEPT !.at = "detected", !.stage = stage, !.identity = inputs]]
  /\ promoted' = IF stage = "plan" THEN promoted \cup {inputs.signal} ELSE promoted
  /\ UNCHANGED <<inputs, production, now, evidence, holder>>

\* Profile, decision and the evidence that is there.
LoadInputs(c) ==
  LET id == [inputs EXCEPT !.signal = check[c].identity.signal]
      stale == evidence # None /\ evidence.identity # id
      why == Blocker(check[c].stage, evidence, id, stale)
  IN  /\ check[c].at = "detected"
      /\ IF why # "none" THEN Stop(c)
         ELSE /\ check' = [check EXCEPT ![c].at = "loaded", ![c].identity = id,
                                        ![c].stale = stale]
              /\ UNCHANGED holder
      /\ UNCHANGED <<inputs, production, now, evidence, promoted>>

\* The schema command; its capture may be as old as the profile allows.
CaptureSchema(c) ==
  /\ check[c].at = "loaded"
  /\ \E t \in 0..now :
       /\ now - t <= MaxAge
       /\ check' = [check EXCEPT ![c].at = IF check[c].stage = "plan" THEN "ran" ELSE "captured",
                                 ![c].capture = [schema |-> production, at |-> t]]
  /\ UNCHANGED <<inputs, production, now, evidence, promoted, holder>>

\* The verify or test command, which must have seen the schema just captured; a
\* waiver takes the place of a test command.
RunCommand(c) ==
  /\ check[c].at = "captured"
  /\ IF production = check[c].capture.schema
     THEN check' = [check EXCEPT ![c].at = "ran"] /\ UNCHANGED holder
     ELSE Stop(c)
  /\ UNCHANGED <<inputs, production, now, evidence, promoted>>

\* Any command may also exit nonzero, time out or print something else.
CommandFails(c) ==
  /\ check[c].at \in {"loaded", "captured"}
  /\ Stop(c)
  /\ UNCHANGED <<inputs, production, now, evidence, promoted>>

RecordOf(c) == [identity |-> inputs, capture |-> check[c].capture,
                ran |-> check[c].identity]

\* Mutant: a downstream record joins the plan's alone.
MergedWithPlan(c, e) ==
  LET old == IF e = None \/ check[c].stage = "plan" THEN [s \in Stage |-> None]
             ELSE [s \in Stage |-> IF s = "plan" THEN e.stage["plan"] ELSE None]
  IN  [identity |-> inputs, stage |-> [old EXCEPT ![check[c].stage] = RecordOf(c)]]

\* The new file: a plan record replaces the plan and, when the identity or the
\* schema changed, drops the others; a downstream record joins what is there.
Merged(c, e) ==
  LET drop == /\ check[c].stage = "plan"
              /\ \/ check[c].stale \/ e.identity # inputs
                 \/ e.stage["plan"].capture.schema # check[c].capture.schema
      old == IF e = None THEN [s \in Stage |-> None]
             ELSE IF drop THEN [s \in Stage |-> None] ELSE e.stage
  IN  [identity |-> inputs, stage |-> [old EXCEPT ![check[c].stage] = RecordOf(c)]]

\* Mutant: the inputs are not read again under the lock.
AcceptedUnread(c) ==
  /\ Blocker(check[c].stage, evidence, inputs, check[c].stale) = "none"
  /\ check[c].stage # "plan" =>
       evidence.stage["plan"].capture.schema = check[c].capture.schema

\* Under the lock: the inputs are still the ones the commands ran for, the evidence
\* now on disk is checked as before, and a downstream schema is the plan's.
Accepted(c) ==
  /\ inputs = check[c].identity
  /\ Blocker(check[c].stage, evidence, inputs, check[c].stale) = "none"
  /\ check[c].stage # "plan" =>
       evidence.stage["plan"].capture.schema = check[c].capture.schema

LockAndMerge(c) ==
  /\ check[c].at = "ran"
  /\ holder = None
  /\ IF Accepted(c)
     THEN /\ holder' = c
          /\ check' = [check EXCEPT ![c].at = "locked", ![c].payload = Merged(c, evidence)]
     ELSE Stop(c)
  /\ UNCHANGED <<inputs, production, now, evidence, promoted>>

\* _atomic_write_evidence, and the release of the lock.
Write(c) ==
  /\ check[c].at = "locked"
  /\ holder = c
  /\ evidence' = check[c].payload
  /\ Stop(c)
  /\ UNCHANGED <<inputs, production, now, promoted>>

-----------------------------------------------------------------------------
(* The world.                                                              *)

EditInput ==
  /\ \E f \in {"signal", "profile", "decision"} :
       /\ inputs.signal + inputs.profile + inputs.decision < MaxChanges
       /\ inputs' = [inputs EXCEPT ![f] = @ + 1]
  /\ UNCHANGED <<production, now, evidence, promoted, check, holder>>

Migrate ==
  /\ production' \in Schema \ {production}
  /\ UNCHANGED <<inputs, now, evidence, promoted, check, holder>>

Tick ==
  /\ now < MaxTime
  /\ now' = now + 1
  /\ UNCHANGED <<inputs, production, evidence, promoted, check, holder>>

Next ==
  \/ \E c \in Check :
       \/ \E stage \in Stage : Detect(c, stage)
       \/ LoadInputs(c) \/ CaptureSchema(c) \/ RunCommand(c) \/ CommandFails(c)
       \/ LockAndMerge(c) \/ Write(c) \/ Abandon(c)
  \/ EditInput \/ Migrate \/ Tick

Spec == Init /\ [][Next]_vars

-----------------------------------------------------------------------------
(* Gates and properties.                                                   *)

\* evaluate_database_gate: what G1, G5 and G6 accept.
GatePasses(stage) ==
  /\ evidence # None
  /\ evidence.identity = inputs
  /\ WellFormed(evidence) /\ AllFresh(evidence)
  /\ stage \in Done(evidence)
  /\ inputs.signal \in promoted

\* The records of the file always tell of one set of inputs and one production
\* schema, whichever checks interleaved to write them (db_validation.py:2412).
StagesAgree == evidence # None => WellFormed(evidence)

\* A record names the inputs its commands ran for, not ones that came in while they
\* ran (db_validation.py:2369).
EvidenceNamesItsInputs ==
  evidence # None => \A s \in Done(evidence) :
    evidence.stage[s].ran = evidence.stage[s].identity

\* The workflow was escalated for the evidence's signal before the evidence was
\* there (wf.py:615, db_validation.py:2289).
EscalatedFirst == evidence # None => evidence.identity.signal \in promoted

\* A gate that passes vouches for the inputs of today and for one schema.
GateVouches ==
  \A s \in Stage : GatePasses(s) =>
    /\ evidence.stage[s].ran = inputs
    /\ evidence.stage[s].capture.schema = evidence.stage["plan"].capture.schema

\* What a gate relies on, and what it vouches for, whichever checks wrote the file.
EvidenceSound == StagesAgree /\ EvidenceNamesItsInputs /\ EscalatedFirst /\ GateVouches

\* Only a plan check removes the record of another stage: concurrent verify
\* and test checks keep each other's work (db_validation.py:2427).
RecordsKept ==
  [][evidence # None => \A s \in Done(evidence) :
       \/ s \in Done(evidence')
       \/ holder # None /\ check[holder].stage = "plan"]_vars

\* A plan refresh is never refused for the evidence it is to replace (the design: it
\* "accepts stale or changed prior identity, replaces plan evidence").  The code does
\* not keep it.
RefreshNeverRefused ==
  \A c \in Check : check[c].at = "detected" /\ check[c].stage = "plan" =>
    Blocker("plan", evidence, inputs, evidence # None /\ evidence.identity # inputs)
      # "evidence_invalid"
=============================================================================
