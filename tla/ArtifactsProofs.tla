--------------------------- MODULE ArtifactsProofs ---------------------------
(***************************************************************************)
(* What the database gates, the planning options and the set-up of LSP     *)
(* files rely on, for any number of concurrent commands, of schemas, of    *)
(* options, of files and of entries.                                       *)
(***************************************************************************)
EXTENDS DatabaseEvidence, PlanningOptions, LspSetup, TLAPS

-----------------------------------------------------------------------------
(* The evidence. *)

NamesItsInputs(e) == \A s \in Done(e) : e.stage[s].ran = e.stage[s].identity

\* A file a gate may rely on, once its signal is promoted.
Trusted(e, signals) == WellFormed(e) /\ NamesItsInputs(e) /\ e.identity.signal \in signals

\* What a check has read by the step it is at.
ChecksHaveRead ==
  \A c \in Check :
    /\ check[c].at # "idle" => check[c].identity \in Identity
    /\ check[c].at \in {"captured", "ran"} => check[c].capture \in Capture
    /\ check[c].at = "locked" => check[c].payload \in Evidence

\* A plan check escalates before it does anything else.
PlansEscalated ==
  \A c \in Check : check[c].at # "idle" /\ check[c].stage = "plan" =>
    check[c].identity.signal \in promoted

FileTrusted == evidence # None => Trusted(evidence, promoted)

PayloadsTrusted ==
  \A c \in Check : check[c].at = "locked" => Trusted(check[c].payload, promoted)

EvidenceInv ==
  /\ TypeOK /\ ChecksHaveRead /\ PlansEscalated
  /\ FileTrusted /\ PayloadsTrusted

\* The file's part of the invariant is what the gates rely on.
LEMMA EvidenceInvSound == EvidenceInv => EvidenceSound
<1> SUFFICES ASSUME EvidenceInv PROVE EvidenceSound
  OBVIOUS
<1>1. StagesAgree /\ EvidenceNamesItsInputs /\ EscalatedFirst
  BY DEF EvidenceInv, FileTrusted, Trusted, NamesItsInputs, StagesAgree,
     EvidenceNamesItsInputs, EscalatedFirst
<1>2. GateVouches
  BY <1>1 DEF GateVouches, GatePasses, WellFormed, EvidenceNamesItsInputs
<1>3. QED BY <1>1, <1>2 DEF EvidenceSound

\* No file, nothing read.
LEMMA EvidenceInvInit == Init => EvidenceInv
<1> SUFFICES ASSUME Init PROVE EvidenceInv
  OBVIOUS
<1>1. \A c \in Check : check[c].at = "idle"
  BY DEF Init, Idle
<1>2. TypeOK
  <2>1. inputs \in Identity
    BY DEF Init, Identity
  <2>2. QED BY <2>1 DEF Init, TypeOK, Idle, Stage
<1>3. QED BY <1>1, <1>2 DEF Init, EvidenceInv, ChecksHaveRead, PlansEscalated,
     FileTrusted, PayloadsTrusted

\* Escalations are never taken back, so trust lasts.
LEMMA TrustLasts ==
  ASSUME NEW e, NEW S, NEW T, S \subseteq T, Trusted(e, S)
  PROVE  Trusted(e, T)
  BY DEF Trusted

\* A check that stops leaves the others, the file and the inputs alone.
LEMMA StopKeepsInv ==
  ASSUME EvidenceInv, NEW c \in Check, Stop(c),
         UNCHANGED <<inputs, production, now, promoted>>,
         evidence' \in Evidence \cup {None},
         evidence' # None => Trusted(evidence', promoted)
  PROVE  EvidenceInv'
<1> USE DEF EvidenceInv
<1>1. check' = [check EXCEPT ![c] = Idle]
  BY DEF Stop
<1>2. \A d \in Check : check'[d].at = "idle" \/ check'[d] = check[d]
  BY <1>1 DEF TypeOK, Idle
<1>3. TypeOK'
  <2>1. Idle \in [at : {"idle", "detected", "loaded", "captured", "ran", "locked"},
                  stage : Stage, identity : Identity \cup {None}, stale : BOOLEAN,
                  capture : Capture \cup {None}, payload : Evidence \cup {None}]
    BY DEF Idle, Stage
  <2>2. QED BY <1>1, <2>1 DEF TypeOK, Stop
<1>4. ChecksHaveRead' /\ PlansEscalated' /\ PayloadsTrusted'
  BY <1>2 DEF ChecksHaveRead, PlansEscalated, PayloadsTrusted
<1>5. QED BY <1>3, <1>4 DEF FileTrusted

\* A check that goes on changes its own entry alone, in the ways it may.
LEMMA GoingOnKeepsInv ==
  ASSUME EvidenceInv, NEW c \in Check, NEW r,
         check' = [check EXCEPT ![c] = r],
         r \in [at : {"detected", "loaded", "captured", "ran"}, stage : Stage,
                identity : Identity, stale : BOOLEAN, capture : Capture \cup {None},
                payload : Evidence \cup {None}],
         r.at \in {"captured", "ran"} => r.capture \in Capture,
         promoted \subseteq promoted', promoted' \subseteq Nat,
         r.stage = "plan" => r.identity.signal \in promoted',
         UNCHANGED <<inputs, production, now, evidence, holder>>
  PROVE  EvidenceInv'
<1> USE DEF EvidenceInv
<1>1. \A d \in Check : check'[d] = IF d = c THEN r ELSE check[d]
  BY DEF TypeOK
<1>2. TypeOK'
  BY DEF TypeOK
<1>3. ChecksHaveRead' /\ PlansEscalated'
  BY <1>1 DEF ChecksHaveRead, PlansEscalated
<1>4. FileTrusted' /\ PayloadsTrusted'
  BY <1>1, TrustLasts DEF FileTrusted, PayloadsTrusted
<1>5. QED BY <1>2, <1>3, <1>4

\* Everything a check does before it takes the lock.
LEMMA ReadingKeepsInv ==
  ASSUME EvidenceInv, NEW c \in Check,
         \/ \E stage \in Stage : Detect(c, stage)
         \/ LoadInputs(c) \/ CaptureSchema(c) \/ RunCommand(c) \/ CommandFails(c) \/ Abandon(c)
  PROVE  EvidenceInv'
<1> USE DEF EvidenceInv
<1>0. ASSUME Stop(c), UNCHANGED <<inputs, production, now, evidence, promoted>>
      PROVE  EvidenceInv'
  BY <1>0, StopKeepsInv DEF TypeOK, FileTrusted
<1>1. ASSUME NEW stage \in Stage, Detect(c, stage)
      PROVE  EvidenceInv'
  <2> DEFINE r == [Idle EXCEPT !.at = "detected", !.stage = stage, !.identity = inputs]
  <2>1. /\ r.at = "detected" /\ r.stage = stage /\ r.identity = inputs
        /\ r \in [at : {"detected", "loaded", "captured", "ran"}, stage : Stage,
                   identity : Identity, stale : BOOLEAN, capture : Capture \cup {None},
                   payload : Evidence \cup {None}]
    BY DEF Idle, TypeOK
  <2>2. inputs.signal \in Nat
    BY DEF TypeOK, Identity
  <2>3. /\ promoted \subseteq promoted' /\ promoted' \subseteq Nat
        /\ stage = "plan" => inputs.signal \in promoted'
    BY <1>1, <2>2 DEF Detect, TypeOK
  <2>4. check' = [check EXCEPT ![c] = r] /\ UNCHANGED <<inputs, production, now, evidence, holder>>
    BY <1>1 DEF Detect
  <2> HIDE DEF r
  <2>5. QED BY <2>1, <2>3, <2>4, GoingOnKeepsInv
<1>2. CASE LoadInputs(c)
  <2> DEFINE id == [inputs EXCEPT !.signal = check[c].identity.signal]
             stale == evidence # None /\ evidence.identity # id
             r == [check[c] EXCEPT !.at = "loaded", !.identity = id, !.stale = stale]
  <2>1. CASE Stop(c)
    BY <1>0, <1>2, <2>1 DEF LoadInputs
  <2>2. CASE /\ check' = [check EXCEPT ![c].at = "loaded", ![c].identity = id, ![c].stale = stale]
             /\ UNCHANGED holder
    <3>1. check[c].at = "detected" /\ check[c].identity \in Identity
      BY <1>2 DEF LoadInputs, ChecksHaveRead
    <3>2. id \in Identity /\ id.signal = check[c].identity.signal
      BY <3>1 DEF TypeOK, Identity
    <3>3. /\ r.at = "loaded" /\ r.stage = check[c].stage /\ r.identity = id
          /\ r \in [at : {"detected", "loaded", "captured", "ran"}, stage : Stage,
                     identity : Identity, stale : BOOLEAN, capture : Capture \cup {None},
                     payload : Evidence \cup {None}]
      BY <3>2 DEF TypeOK
    <3>4. r.stage = "plan" => r.identity.signal \in promoted
      BY <3>1, <3>2, <3>3 DEF PlansEscalated
    <3>5. check' = [check EXCEPT ![c] = r]
      BY <2>2 DEF TypeOK
    <3>6. UNCHANGED <<inputs, production, now, evidence, promoted, holder>> /\ promoted \subseteq Nat
      BY <1>2, <2>2 DEF LoadInputs, TypeOK
    <3> HIDE DEF r, id
    <3>7. QED BY <3>3, <3>4, <3>5, <3>6, GoingOnKeepsInv
  <2>3. QED BY <1>2, <2>1, <2>2 DEF LoadInputs
<1>3. CASE CaptureSchema(c)
  <2>1. PICK t \in 0..now :
          check' = [check EXCEPT
            ![c].at = IF check[c].stage = "plan" THEN "ran" ELSE "captured",
            ![c].capture = [schema |-> production, at |-> t]]
    BY <1>3 DEF CaptureSchema
  <2> DEFINE r == [check[c] EXCEPT
            !.at = IF check[c].stage = "plan" THEN "ran" ELSE "captured",
            !.capture = [schema |-> production, at |-> t]]
  <2>2. check[c].at = "loaded" /\ check[c].identity \in Identity
    BY <1>3 DEF CaptureSchema, ChecksHaveRead
  <2>3. [schema |-> production, at |-> t] \in Capture
    BY <2>1 DEF TypeOK, Capture
  <2>4. /\ r.capture \in Capture /\ r.stage = check[c].stage /\ r.identity = check[c].identity
        /\ r \in [at : {"detected", "loaded", "captured", "ran"}, stage : Stage,
                   identity : Identity, stale : BOOLEAN, capture : Capture \cup {None},
                   payload : Evidence \cup {None}]
    BY <2>2, <2>3 DEF TypeOK
  <2>5. r.stage = "plan" => r.identity.signal \in promoted
    BY <2>2, <2>4 DEF PlansEscalated
  <2>6. check' = [check EXCEPT ![c] = r]
    BY <2>1 DEF TypeOK
  <2>7. UNCHANGED <<inputs, production, now, evidence, promoted, holder>> /\ promoted \subseteq Nat
    BY <1>3 DEF CaptureSchema, TypeOK
  <2> HIDE DEF r
  <2>8. QED BY <2>4, <2>5, <2>6, <2>7, GoingOnKeepsInv
<1>4. CASE RunCommand(c)
  <2> DEFINE r == [check[c] EXCEPT !.at = "ran"]
  <2>1. CASE Stop(c)
    BY <1>0, <1>4, <2>1 DEF RunCommand
  <2>2. CASE check' = [check EXCEPT ![c].at = "ran"] /\ UNCHANGED holder
    <3>1. /\ check[c].at = "captured" /\ check[c].identity \in Identity
          /\ check[c].capture \in Capture
      BY <1>4 DEF RunCommand, ChecksHaveRead
    <3>2. /\ r.capture \in Capture /\ r.stage = check[c].stage
          /\ r.identity = check[c].identity
          /\ r \in [at : {"detected", "loaded", "captured", "ran"}, stage : Stage,
                     identity : Identity, stale : BOOLEAN, capture : Capture \cup {None},
                     payload : Evidence \cup {None}]
      BY <3>1 DEF TypeOK
    <3>3. r.stage = "plan" => r.identity.signal \in promoted
      BY <3>1, <3>2 DEF PlansEscalated
    <3>4. check' = [check EXCEPT ![c] = r]
      BY <2>2 DEF TypeOK
    <3>5. /\ UNCHANGED <<inputs, production, now, evidence, promoted, holder>>
          /\ promoted \subseteq Nat
      BY <1>4, <2>2 DEF RunCommand, TypeOK
    <3> HIDE DEF r
    <3>6. QED BY <3>2, <3>3, <3>4, <3>5, GoingOnKeepsInv
  <2>3. QED BY <1>4, <2>1, <2>2 DEF RunCommand
<1>5. CASE CommandFails(c) \/ Abandon(c)
  BY <1>0, <1>5 DEF CommandFails, Abandon
<1>6. QED BY <1>1, <1>2, <1>3, <1>4, <1>5

\* What is merged into trusted evidence, for inputs that are still those the commands
\* ran for, can be trusted.
LEMMA MergedIsTrusted ==
  ASSUME EvidenceInv, NEW c \in Check, check[c].at = "ran", Accepted(c)
  PROVE  /\ Merged(c, evidence) \in Evidence
         /\ Trusted(Merged(c, evidence), promoted)
<1> USE DEF EvidenceInv
<1> DEFINE new == Merged(c, evidence)
           mine == check[c].stage
<1>1. /\ inputs \in Identity /\ inputs = check[c].identity
      /\ check[c].capture \in Capture /\ mine \in Stage
  BY DEF TypeOK, ChecksHaveRead, Accepted
<1>2. /\ RecordOf(c) \in Record /\ RecordOf(c) # None
      /\ RecordOf(c).identity = inputs /\ RecordOf(c).ran = inputs
      /\ RecordOf(c).capture = check[c].capture
  BY <1>1, EvidenceAssumption DEF RecordOf, Record
<1>3. evidence # None =>
        /\ evidence.identity \in Identity /\ evidence.stage \in [Stage -> Record \cup {None}]
        /\ WellFormed(evidence) /\ NamesItsInputs(evidence)
        /\ evidence.identity.signal \in promoted
  BY DEF TypeOK, Evidence, FileTrusted, Trusted
<1>4. mine # "plan" =>
        /\ evidence # None /\ evidence.identity = inputs
        /\ evidence.stage["plan"].capture.schema = check[c].capture.schema
  BY DEF Accepted, Blocker
<1>5. PICK old \in [Stage -> Record \cup {None}] :
        /\ new = [identity |-> inputs, stage |-> [old EXCEPT ![mine] = RecordOf(c)]]
        /\ \/ mine = "plan" /\ old = [s \in Stage |-> None]
           \/ /\ evidence # None /\ old = evidence.stage /\ evidence.identity = inputs
              /\ evidence.stage["plan"].capture.schema = check[c].capture.schema
  BY <1>3, <1>4 DEF Merged
<1>6. new.identity = inputs /\ new.stage = [old EXCEPT ![mine] = RecordOf(c)]
  BY <1>5
<1>7. new \in Evidence
  BY <1>1, <1>2, <1>5 DEF Evidence
<1>8. \A s \in Stage : new.stage[s] = IF s = mine THEN RecordOf(c) ELSE old[s]
  BY <1>6
<1> HIDE DEF new, mine
<1>9. "plan" \in Stage
  BY DEF Stage
<1>10. /\ new.stage["plan"] # None
       /\ new.stage["plan"].capture.schema = check[c].capture.schema
  BY <1>2, <1>3, <1>4, <1>5, <1>8, <1>9 DEF WellFormed
<1>11. ASSUME NEW s \in Done(new)
       PROVE  /\ new.stage[s].identity = inputs /\ new.stage[s].ran = inputs
              /\ new.stage[s].capture.schema = check[c].capture.schema
  <2>1. CASE s = mine
    BY <1>2, <1>8, <2>1, <1>11 DEF Done
  <2>2. CASE s # mine
    <3>1. new.stage[s] = old[s] /\ old[s] # None /\ s \in Stage
      BY <1>8, <2>2, <1>11 DEF Done
    <3>2. evidence # None /\ s \in Done(evidence) /\ old[s] = evidence.stage[s]
      BY <1>5, <3>1 DEF Done
    <3>3. QED BY <1>3, <1>5, <3>1, <3>2 DEF WellFormed, NamesItsInputs
  <2>3. QED BY <2>1, <2>2
<1>12. inputs.signal \in promoted
  <2>1. CASE mine = "plan"
    BY <1>1, <2>1 DEF PlansEscalated, mine
  <2>2. CASE mine # "plan"
    BY <1>3, <1>4, <2>2
  <2>3. QED BY <2>1, <2>2
<1>13. Trusted(new, promoted)
  BY <1>6, <1>10, <1>11, <1>12 DEF Trusted, WellFormed, NamesItsInputs
<1>14. QED BY <1>7, <1>13 DEF new

\* The merge under the lock, and the write.
LEMMA WritingKeepsInv ==
  ASSUME EvidenceInv, NEW c \in Check, LockAndMerge(c) \/ Write(c)
  PROVE  EvidenceInv'
<1> USE DEF EvidenceInv
<1>1. CASE LockAndMerge(c) /\ Accepted(c)
  <2>1. /\ check[c].at = "ran"
        /\ check' = [check EXCEPT ![c].at = "locked", ![c].payload = Merged(c, evidence)]
        /\ holder' = c /\ UNCHANGED <<inputs, production, now, evidence, promoted>>
    BY <1>1 DEF LockAndMerge
  <2>2. PICK m \in Evidence : m = Merged(c, evidence) /\ Trusted(m, promoted)
    BY <2>1, <1>1, MergedIsTrusted
  <2>3. PICK r : r = [check[c] EXCEPT !.at = "locked", !.payload = m]
    OBVIOUS
  <2>4. /\ r.at = "locked" /\ r.stage = check[c].stage /\ r.identity = check[c].identity
        /\ r.identity \in Identity /\ r.payload = m
        /\ r \in [at : {"idle", "detected", "loaded", "captured", "ran", "locked"},
                   stage : Stage, identity : Identity \cup {None}, stale : BOOLEAN,
                   capture : Capture \cup {None}, payload : Evidence \cup {None}]
    BY <2>1, <2>3 DEF TypeOK, ChecksHaveRead
  <2>5. check' = [check EXCEPT ![c] = r]
    BY <2>1, <2>2, <2>3 DEF TypeOK
  <2>6. \A d \in Check : check'[d] = IF d = c THEN r ELSE check[d]
    BY <2>5 DEF TypeOK
  <2>7. TypeOK'
    BY <2>1, <2>4, <2>5 DEF TypeOK
  <2>8. ChecksHaveRead'
    BY <2>4, <2>6 DEF ChecksHaveRead
  <2>9. PlansEscalated'
    <3>1. r.stage = "plan" => r.identity.signal \in promoted
      BY <2>1, <2>4 DEF PlansEscalated
    <3>2. promoted' = promoted
      BY <2>1
    <3>3. QED BY <2>6, <3>1, <3>2 DEF PlansEscalated
  <2>10. FileTrusted'
    BY <2>1 DEF FileTrusted
  <2>11. PayloadsTrusted'
    BY <2>1, <2>2, <2>4, <2>6 DEF PayloadsTrusted
  <2>12. QED BY <2>7, <2>8, <2>9, <2>10, <2>11
<1>2. CASE LockAndMerge(c) /\ ~Accepted(c)
  <2>1. Stop(c) /\ UNCHANGED <<inputs, production, now, evidence, promoted>>
    BY <1>2 DEF LockAndMerge
  <2>2. QED BY <2>1, StopKeepsInv DEF TypeOK, FileTrusted
<1>3. CASE Write(c)
  <2>1. /\ Stop(c) /\ UNCHANGED <<inputs, production, now, promoted>>
        /\ check[c].at = "locked" /\ evidence' = check[c].payload
    BY <1>3 DEF Write
  <2>2. evidence' \in Evidence /\ Trusted(evidence', promoted)
    BY <2>1 DEF ChecksHaveRead, PayloadsTrusted
  <2>3. QED BY <2>1, <2>2, StopKeepsInv
<1>4. QED BY <1>1, <1>2, <1>3

\* Edits, migrations and the passing of time change nothing a check has read.
LEMMA EvidenceInvStep == EvidenceInv /\ [Next]_vars => EvidenceInv'
<1> SUFFICES ASSUME EvidenceInv, [Next]_vars PROVE EvidenceInv'
  OBVIOUS
<1> USE DEF EvidenceInv
<1>1. ASSUME UNCHANGED <<evidence, promoted, check, holder>>,
             inputs' \in Identity, production' \in Schema, now' \in Nat
      PROVE  EvidenceInv'
  BY <1>1 DEF TypeOK, ChecksHaveRead, PlansEscalated, FileTrusted, PayloadsTrusted
<1>2. CASE EditInput
  <2>1. inputs' \in Identity
    BY <1>2 DEF EditInput, TypeOK, Identity
  <2>2. QED BY <1>1, <1>2, <2>1 DEF EditInput, TypeOK
<1>3. CASE Migrate \/ Tick
  BY <1>1, <1>3 DEF Migrate, Tick, TypeOK
<1>4. CASE UNCHANGED vars
  BY <1>1, <1>4 DEF vars, TypeOK
<1>5. CASE \E c \in Check :
             \/ \E stage \in Stage : Detect(c, stage)
             \/ LoadInputs(c) \/ CaptureSchema(c) \/ RunCommand(c) \/ CommandFails(c)
             \/ LockAndMerge(c) \/ Write(c) \/ Abandon(c)
  BY <1>5, ReadingKeepsInv, WritingKeepsInv
<1>6. QED BY <1>2, <1>3, <1>4, <1>5 DEF Next

LEMMA EvidenceInvariant == Spec => []EvidenceInv
  BY EvidenceInvInit, EvidenceInvStep, PTL DEF Spec

\* Every variable of the evidence check keeps its type.
THEOREM EvidenceTypeCorrect == Spec => []TypeOK
<1>1. EvidenceInv => TypeOK
  BY DEF EvidenceInv
<1>2. QED BY <1>1, EvidenceInvariant, PTL

\* Whatever checks wrote the evidence, in whatever order, a gate that passes vouches
\* for one production schema, for the inputs of today and for an escalated workflow
\* (db_validation.py).
THEOREM EvidenceIsSound == Spec => []EvidenceSound
  BY EvidenceInvSound, EvidenceInvariant, PTL

-----------------------------------------------------------------------------

\* Whoever is about to write holds the lock, and has what the file holds now.
LockedKeepsRecords ==
  \A c \in Check : check[c].at = "locked" =>
    /\ holder = c
    /\ evidence # None /\ check[c].stage # "plan" =>
         Done(evidence) \subseteq Done(check[c].payload)

\* The merge of a downstream check adds to the records that are there.
LEMMA MergedKeepsRecords ==
  ASSUME EvidenceInv, NEW c \in Check, check[c].at = "ran", Accepted(c),
         check[c].stage # "plan", evidence # None
  PROVE  Done(evidence) \subseteq Done(Merged(c, evidence))
<1>1. evidence.stage \in [Stage -> Record \cup {None}]
  BY DEF EvidenceInv, TypeOK, Evidence
<1>2. RecordOf(c) # None
  <2>1. RecordOf(c) \in Record
    BY DEF EvidenceInv, TypeOK, ChecksHaveRead, Accepted, RecordOf, Record
  <2>2. QED BY <2>1, EvidenceAssumption
<1>3. Merged(c, evidence).stage = [evidence.stage EXCEPT ![check[c].stage] = RecordOf(c)]
  BY DEF Merged
<1>4. QED BY <1>1, <1>2, <1>3 DEF Done

\* Nobody else writes while a check holds the lock.
LEMMA LockedStep ==
  ASSUME EvidenceInv, LockedKeepsRecords, [Next]_vars
  PROVE  LockedKeepsRecords'
<1>0. check \in [Check -> [at : {"idle", "detected", "loaded", "captured", "ran", "locked"},
                          stage : Stage, identity : Identity \cup {None}, stale : BOOLEAN,
                          capture : Capture \cup {None}, payload : Evidence \cup {None}]]
  BY DEF EvidenceInv, TypeOK
<1>1. ASSUME NEW c \in Check, \A d \in Check \ {c} : check'[d] = check[d],
             check'[c].at # "locked", holder' = holder \/ (holder = c /\ holder' = None),
             evidence' = evidence \/ (holder = c /\ check[c].at = "locked")
      PROVE  LockedKeepsRecords'
  <2> SUFFICES ASSUME NEW d \in Check, check'[d].at = "locked"
               PROVE  /\ holder' = d
                      /\ evidence' # None /\ check'[d].stage # "plan" =>
                           Done(evidence') \subseteq Done(check'[d].payload)
    BY DEF LockedKeepsRecords
  <2>1. d # c /\ check'[d] = check[d]
    BY <1>1
  <2>2. holder = d /\ holder' = d /\ evidence' = evidence
    BY <1>1, <2>1 DEF LockedKeepsRecords
  <2>3. QED BY <2>1, <2>2 DEF LockedKeepsRecords
<1>2. ASSUME NEW c \in Check, Stop(c)
      PROVE  /\ \A d \in Check \ {c} : check'[d] = check[d]
             /\ check'[c].at # "locked"
             /\ holder' = holder \/ (holder = c /\ holder' = None)
  BY <1>0, <1>2 DEF Stop, Idle
<1>3. ASSUME NEW c \in Check,
             \/ \E stage \in Stage : Detect(c, stage)
             \/ LoadInputs(c) \/ CaptureSchema(c) \/ RunCommand(c) \/ CommandFails(c)
             \/ Abandon(c)
      PROVE  LockedKeepsRecords'
  <2>1. evidence' = evidence
    BY <1>3 DEF Detect, LoadInputs, CaptureSchema, RunCommand, CommandFails, Abandon
  <2>2. CASE Stop(c)
    BY <1>1, <1>2, <2>1, <2>2
  <2>3. CASE ~Stop(c)
    <3>1. /\ holder' = holder /\ \A d \in Check \ {c} : check'[d] = check[d]
          /\ check'[c].at # "locked"
      <4>1. CASE \E stage \in Stage : Detect(c, stage)
        BY <1>0, <4>1 DEF Detect, Idle
      <4>2. CASE LoadInputs(c) \/ RunCommand(c)
        BY <1>0, <2>3, <4>2 DEF LoadInputs, RunCommand
      <4>3. CASE CaptureSchema(c)
        BY <1>0, <4>3 DEF CaptureSchema
      <4>4. QED BY <1>3, <2>3, <4>1, <4>2, <4>3 DEF CommandFails, Abandon
    <3>2. QED BY <1>1, <2>1, <3>1
  <2>4. QED BY <2>2, <2>3
<1>4. ASSUME NEW c \in Check, LockAndMerge(c)
      PROVE  LockedKeepsRecords'
  <2>1. CASE Accepted(c)
    <3>1. \A d \in Check : check[d].at # "locked"
      BY <1>4, EvidenceAssumption DEF LockAndMerge, LockedKeepsRecords
    <3>2. PICK m : m = Merged(c, evidence)
      OBVIOUS
    <3>3. /\ \A d \in Check \ {c} : check'[d] = check[d]
          /\ check'[c].stage = check[c].stage /\ check'[c].payload = m
          /\ check[c].at = "ran" /\ holder' = c /\ evidence' = evidence
      BY <1>0, <1>4, <2>1, <3>2 DEF LockAndMerge
    <3>4. evidence # None /\ check[c].stage # "plan" => Done(evidence) \subseteq Done(m)
      BY <2>1, <3>2, <3>3, MergedKeepsRecords
    <3>5. QED BY <3>1, <3>3, <3>4 DEF LockedKeepsRecords
  <2>2. CASE ~Accepted(c)
    BY <1>1, <1>2, <1>4, <2>2 DEF LockAndMerge
  <2>3. QED BY <2>1, <2>2
<1>5. ASSUME NEW c \in Check, Write(c)
      PROVE  LockedKeepsRecords'
  BY <1>1, <1>2, <1>5 DEF Write
<1>6. CASE EditInput \/ Migrate \/ Tick \/ UNCHANGED vars
  BY <1>6 DEF EditInput, Migrate, Tick, vars, LockedKeepsRecords
<1>7. QED BY <1>3, <1>4, <1>5, <1>6 DEF Next

\* The file changes only when the holder of the lock writes it.
LEMMA RecordsStep ==
  ASSUME EvidenceInv, LockedKeepsRecords, [Next]_vars, evidence # None, NEW s \in Done(evidence)
  PROVE  s \in Done(evidence') \/ (holder # None /\ check[holder].stage = "plan")
<1>1. ASSUME NEW c \in Check, Write(c)
      PROVE  s \in Done(evidence') \/ (holder # None /\ check[holder].stage = "plan")
  <2>1. holder = c /\ evidence' = check[c].payload /\ check[c].at = "locked"
    BY <1>1 DEF Write
  <2>2. QED BY <2>1, EvidenceAssumption DEF LockedKeepsRecords
<1>2. CASE UNCHANGED evidence
  BY <1>2
<1>3. (\E c \in Check : Write(c)) \/ UNCHANGED evidence
  BY DEF Next, vars, Detect, LoadInputs, CaptureSchema, RunCommand, CommandFails, LockAndMerge,
     Abandon, EditInput, Migrate, Tick
<1>4. QED BY <1>1, <1>2, <1>3

\* Concurrent checks never undo each other's record: only a plan check drops one
\* (db_validation.py).
THEOREM RecordsAreKept == Spec => RecordsKept
<1>1. Init => LockedKeepsRecords
  BY DEF Init, Idle, LockedKeepsRecords
<1>2. EvidenceInv /\ LockedKeepsRecords /\ [Next]_vars => LockedKeepsRecords'
  BY LockedStep
<1>3. EvidenceInv /\ LockedKeepsRecords /\ [Next]_vars =>
        [evidence # None => \A s \in Done(evidence) :
           \/ s \in Done(evidence')
           \/ holder # None /\ check[holder].stage = "plan"]_vars
  BY RecordsStep
<1>4. QED BY <1>1, <1>2, <1>3, EvidenceInvariant, PTL DEF Spec, RecordsKept

-----------------------------------------------------------------------------
(* The options. *)

Steps == {"idle", "begin", "journal", "publish", "stale", "check", "clean", "apply", "clear"}

Command == [at : Steps, decision : Decision \cup {Unset}, option : Option \cup {Unset},
            previous : Hash, todo : SUBSET Output]

\* Nobody is in the middle of a selection without the lock.
UnderLock == \A p \in Selector : selecting # p => cmd[p] = NoCommand

\* The choice is complete once a selection is published.
WouldComplete(c) ==
  \A d \in Decision : [artifact.chosen EXCEPT ![c.decision] = c.option][d] # Unset

\* What the journal announces before the artifact is written.
JournalAnnounces(c) ==
  /\ journal # Unset
  /\ journal.previous = artifact.hash /\ journal.current = artifact.hash + 1
  /\ journal.current \in Hash
  /\ journal.decision = c.decision /\ journal.option = c.option
  /\ journal.complete = WouldComplete(c)

\* An output is of the choice of now, or was written behind the command's back.
Replanned(f) == f \in behind \/ output[f] \in {Unset, artifact.hash}

\* What the holder of the lock has announced, carried out and cleared so far.
Announced(c) ==
  /\ c.at # "idle" => c.decision \in Decision /\ c.option \in Option
  /\ c.at = "publish" => JournalAnnounces(c)
  /\ c.at \in {"clean", "apply", "clear"} => JournalMatches
  /\ c.at = "clean" => \A f \in Output \ c.todo : Replanned(f)
  /\ c.at = "apply" => \A f \in Output : Replanned(f)
  /\ c.at = "clear" => artifact.hash \in applied

OptionsInv ==
  /\ OptionsTypeOK
  /\ UnderLock
  /\ \A p \in Selector : Announced(cmd[p])
  /\ SelectionReconciled

LEMMA CommandTypes ==
  OptionsTypeOK <=>
    /\ artifact \in Artifact /\ journal \in Journal \cup {Unset}
    /\ output \in [Output -> Hash \cup {Unset}]
    /\ seal \in [hash : Hash, output : [Output -> Hash]] \cup {Unset}
    /\ doc \in Document /\ snapshot \in Document \cup {Unset}
    /\ selecting \in Selector \cup {Unset}
    /\ planner \in Hash \cup {Unset} /\ behind \subseteq Output
    /\ cmd \in [Selector -> Command] /\ applied \subseteq Hash
  BY DEF OptionsTypeOK, Command, Steps

LEMMA OptionsInvInit == OptionsAssumption /\ OptionsInit => OptionsInv
<1> SUFFICES ASSUME OptionsAssumption, OptionsInit PROVE OptionsInv
  OBVIOUS
<1>1. 0 \in Hash
  BY DEF OptionsAssumption, Hash
<1>2. OptionsTypeOK
  BY <1>1 DEF OptionsInit, OptionsTypeOK, Artifact, Document, PlanStatus, NoCommand
<1>3. UnderLock /\ (\A p \in Selector : Announced(cmd[p])) /\ SelectionReconciled
  BY DEF OptionsInit, UnderLock, Announced, SelectionReconciled, NoCommand
<1> QED BY <1>2, <1>3 DEF OptionsInv

\* A step of the holder of the lock leaves the other commands where they are.
LEMMA OthersWait ==
  ASSUME OptionsAssumption, OptionsInv, NEW p \in Selector, NEW c \in Command,
         selecting \in {p, Unset}, cmd' = [cmd EXCEPT ![p] = c],
         selecting' = p \/ (selecting' = Unset /\ c = NoCommand),
         Announced(c)'
  PROVE  /\ UnderLock' /\ (\A q \in Selector : Announced(cmd[q])')
         /\ cmd' \in [Selector -> Command] /\ selecting' \in Selector \cup {Unset}
<1>1. cmd \in [Selector -> Command]
  BY CommandTypes DEF OptionsInv
<1>2. \A q \in Selector \ {p} : cmd[q] = NoCommand /\ cmd'[q] = cmd[q]
  BY <1>1 DEF OptionsInv, UnderLock, OptionsAssumption
<1>3. cmd'[p] = c /\ cmd' \in [Selector -> Command]
  BY <1>1
<1>4. \A q \in Selector : Announced(cmd[q])'
  <2> TAKE q \in Selector
  <2>1. CASE q = p
    BY <1>3, <2>1 DEF Announced, JournalAnnounces, WouldComplete
  <2>2. CASE q # p
    <3>1. cmd'[q].at = "idle"
      BY <1>2, <2>2 DEF NoCommand
    <3> QED BY <3>1 DEF Announced
  <2> QED BY <2>1, <2>2
<1>5. UnderLock'
  BY <1>2, <1>3 DEF UnderLock
<1> QED BY <1>3, <1>4, <1>5

\* Between the commands the artifact, the journal and the history are as they were.
LEMMA Unannounced ==
  ASSUME UNCHANGED <<artifact, journal, applied>>
  PROVE  /\ SelectionReconciled' = SelectionReconciled /\ JournalMatches' = JournalMatches
         /\ \A c : JournalAnnounces(c)' = JournalAnnounces(c)
BY DEF SelectionReconciled, JournalMatches, JournalAnnounces, WouldComplete, Complete

\* A command that begins, goes on to look at the journal, or ends before it was
\* carried out.
LEMMA MovingKeepsOptions ==
  ASSUME OptionsAssumption, OptionsInv, NEW p \in Selector,
         \/ \E d \in Decision, o \in Option : SelectBegin(p, d, o)
         \/ Reuse(p) \/ CheckJournal(p) \/ NothingPending(p) \/ AbandonSelection(p)
  PROVE  OptionsInv'
<1>1. /\ UNCHANGED <<artifact, journal, output, seal, doc, snapshot, planner, applied>>
      /\ selecting \in {p, Unset} /\ behind' \in {behind, {}}
  BY DEF SelectBegin, Reuse, CheckJournal, NothingPending, AbandonSelection, Lock
<1>2. cmd \in [Selector -> Command] /\ cmd[p] \in Command /\ 0 \in Hash
  BY CommandTypes DEF OptionsInv, OptionsAssumption, Hash
<1>3. Announced(cmd[p])
  BY DEF OptionsInv
<1>4. NoCommand \in Command /\ Announced(NoCommand)'
  BY <1>2 DEF NoCommand, Command, Steps, Announced
<1>5. PICK c \in Command :
        /\ cmd' = [cmd EXCEPT ![p] = c] /\ Announced(c)'
        /\ selecting' = p \/ (selecting' = Unset /\ c = NoCommand)
  <2>1. CASE \E d \in Decision, o \in Option : SelectBegin(p, d, o)
    <3>1. PICK d \in Decision, o \in Option : SelectBegin(p, d, o)
      BY <2>1
    <3> DEFINE c == [NoCommand EXCEPT !.at = "begin", !.decision = d, !.option = o]
    <3>2. c \in Command /\ c.at = "begin" /\ c.decision = d /\ c.option = o
      BY <1>2 DEF NoCommand, Command, Steps
    <3>3. cmd' = [cmd EXCEPT ![p] = c] /\ selecting' = p
      BY <3>1 DEF SelectBegin
    <3> HIDE DEF c
    <3> QED BY <3>2, <3>3 DEF Announced
  <2>2. CASE Reuse(p)
    <3> DEFINE c == [cmd[p] EXCEPT !.at = "check"]
    <3>1. c \in Command /\ c.at = "check" /\ c.decision = cmd[p].decision
          /\ c.option = cmd[p].option
      BY <1>2 DEF Command, Steps
    <3>2. cmd' = [cmd EXCEPT ![p] = c] /\ selecting' = p /\ cmd[p].at = "begin"
      BY <1>2, <2>2 DEF Reuse, Goto, Lock
    <3> HIDE DEF c
    <3> QED BY <1>3, <3>1, <3>2 DEF Announced
  <2>3. CASE CheckJournal(p)
    <3> DEFINE c == [cmd[p] EXCEPT !.at = "clean", !.todo = Present]
    <3>1. c \in Command /\ c.at = "clean" /\ c.todo = Present
          /\ c.decision = cmd[p].decision /\ c.option = cmd[p].option
      BY <1>2 DEF Command, Steps, Present
    <3>2. cmd' = [cmd EXCEPT ![p] = c] /\ selecting' = p /\ cmd[p].at = "check"
          /\ JournalMatches
      BY <1>2, <2>3 DEF CheckJournal, Lock
    <3> HIDE DEF c
    <3>3. JournalMatches'
      BY <1>1, <3>2, Unannounced
    <3>4. \A f \in Output \ Present : output[f] = Unset
      BY DEF Present
    <3> QED BY <1>1, <1>3, <3>1, <3>2, <3>3, <3>4 DEF Announced, Replanned
  <2>4. CASE NothingPending(p) \/ AbandonSelection(p)
    BY <1>4, <2>4 DEF NothingPending, AbandonSelection
  <2> QED BY <2>1, <2>2, <2>3, <2>4
<1>6. SelectionReconciled'
  BY <1>1, Unannounced DEF OptionsInv
<1>7. OptionsTypeOK'
  BY <1>1, <1>5, OthersWait, CommandTypes DEF OptionsInv, OptionsTypeOK, Command, Steps
<1> QED BY <1>1, <1>5, <1>6, <1>7, OthersWait DEF OptionsInv

\* The journal comes first, and names the selection that is about to be published.
LEMMA JournalKeepsOptions ==
  ASSUME OptionsAssumption, OptionsInv, NEW p \in Selector, WriteJournal(p)
  PROVE  OptionsInv'
<1> DEFINE chosen == [artifact.chosen EXCEPT ![cmd[p].decision] = cmd[p].option]
           j == [current |-> artifact.hash + 1, previous |-> artifact.hash,
                 decision |-> cmd[p].decision, option |-> cmd[p].option,
                 complete |-> \A d \in Decision : chosen[d] # Unset]
<1>1. /\ UNCHANGED <<artifact, output, seal, doc, selecting, snapshot, planner, applied, behind>>
      /\ selecting = p /\ cmd[p].at = "begin" /\ artifact.hash < MaxSelections
      /\ journal' = j /\ cmd' = [cmd EXCEPT ![p].at = "publish"]
  BY DEF WriteJournal, Lock, Goto
<1>2. cmd \in [Selector -> Command] /\ cmd[p] \in Command /\ artifact.hash \in Hash
      /\ cmd[p].decision \in Decision /\ cmd[p].option \in Option
  BY <1>1, CommandTypes DEF OptionsInv, Announced, Artifact
<1>3. artifact.hash + 1 \in Hash
  BY <1>1, <1>2 DEF Hash, OptionsAssumption
<1>4. j \in Journal /\ j # Unset
  <2> DEFINE full == \A d \in Decision : chosen[d] # Unset
  <2>1. full \in BOOLEAN
    OBVIOUS
  <2>2. j = [current |-> artifact.hash + 1, previous |-> artifact.hash,
             decision |-> cmd[p].decision, option |-> cmd[p].option, complete |-> full]
    OBVIOUS
  <2> HIDE DEF full, j
  <2>3. j \in Journal
    BY <1>2, <1>3, <2>1, <2>2 DEF Journal
  <2> QED BY <2>3 DEF OptionsAssumption
<1>5. PICK c \in Command :
        /\ c.at = "publish" /\ c.decision = cmd[p].decision
        /\ c.option = cmd[p].option /\ cmd' = [cmd EXCEPT ![p] = c]
  <2>1. [cmd[p] EXCEPT !.at = "publish"] \in Command
    BY <1>2 DEF Command, Steps
  <2> QED BY <1>1, <1>2, <2>1 DEF Command
<1>6. JournalAnnounces(c)' /\ SelectionReconciled'
  <2>1. WouldComplete(c)' = (\A d \in Decision : chosen[d] # Unset)
    BY <1>1, <1>5 DEF WouldComplete
  <2>2. /\ journal'.previous = artifact'.hash /\ journal'.current = artifact'.hash + 1
        /\ journal'.decision = c.decision /\ journal'.option = c.option
        /\ journal'.complete = WouldComplete(c)'
    BY <1>1, <1>5, <2>1
  <2> HIDE DEF j
  <2> QED BY <1>1, <1>3, <1>4, <2>2 DEF JournalAnnounces, SelectionReconciled
<1> HIDE DEF j
<1>7. Announced(c)'
  BY <1>2, <1>5, <1>6 DEF Announced
<1>8. /\ UnderLock' /\ (\A q \in Selector : Announced(cmd[q])')
      /\ cmd' \in [Selector -> Command] /\ selecting' \in Selector \cup {Unset}
  BY <1>1, <1>5, <1>7, OthersWait
<1>9. OptionsTypeOK'
  BY <1>1, <1>4, <1>8, CommandTypes DEF OptionsInv, OptionsTypeOK, Command, Steps
<1> QED BY <1>6, <1>8, <1>9 DEF OptionsInv

\* What is published is what the journal announces.
LEMMA PublishKeepsOptions ==
  ASSUME OptionsAssumption, OptionsInv, NEW p \in Selector, Publish(p)
  PROVE  OptionsInv'
<1> DEFINE chosen == [artifact.chosen EXCEPT ![cmd[p].decision] = cmd[p].option]
<1>1. /\ UNCHANGED <<journal, output, seal, doc, selecting, snapshot, planner, applied, behind>>
      /\ selecting = p /\ cmd[p].at = "publish"
      /\ artifact' = [chosen |-> chosen, hash |-> journal.current,
                      decision |-> cmd[p].decision, option |-> cmd[p].option]
      /\ cmd' = [cmd EXCEPT ![p].at = "stale", ![p].previous = artifact.hash,
                            ![p].todo = Present]
  BY DEF Publish, Lock
<1>2. cmd \in [Selector -> Command] /\ cmd[p] \in Command /\ artifact \in Artifact
      /\ cmd[p].decision \in Decision /\ cmd[p].option \in Option /\ JournalAnnounces(cmd[p])
  BY <1>1, CommandTypes DEF OptionsInv, Announced
<1>3. PICK c \in Command :
        /\ c.at = "stale" /\ c.decision = cmd[p].decision
        /\ c.option = cmd[p].option /\ cmd' = [cmd EXCEPT ![p] = c]
  <2>1. [cmd[p] EXCEPT !.at = "stale", !.previous = artifact.hash, !.todo = Present] \in Command
    BY <1>2 DEF Command, Steps, Artifact, Present
  <2> QED BY <1>1, <1>2, <2>1 DEF Command
<1>4. chosen \in [Decision -> Option \cup {Unset}] /\ chosen[cmd[p].decision] = cmd[p].option
  BY <1>2 DEF Artifact
<1>5. artifact' \in Artifact /\ artifact'.hash = journal.current /\ artifact'.chosen = chosen
      /\ artifact'.decision = cmd[p].decision /\ artifact'.option = cmd[p].option
  BY <1>1, <1>2, <1>4 DEF Artifact, JournalAnnounces
<1>6. JournalMatches'
  <2>1. Complete(artifact)' = WouldComplete(cmd[p])
    BY <1>5 DEF Complete, WouldComplete
  <2> QED BY <1>1, <1>2, <1>4, <1>5, <2>1 DEF JournalMatches, JournalAnnounces
<1>7. SelectionReconciled'
  BY <1>1, <1>2, <1>6 DEF SelectionReconciled, JournalAnnounces
<1>8. Announced(c)'
  BY <1>2, <1>3 DEF Announced
<1>9. /\ UnderLock' /\ (\A q \in Selector : Announced(cmd[q])')
      /\ cmd' \in [Selector -> Command] /\ selecting' \in Selector \cup {Unset}
  BY <1>1, <1>3, <1>8, OthersWait
<1>10. OptionsTypeOK'
  BY <1>1, <1>5, <1>9 DEF OptionsInv, OptionsTypeOK, Command, Steps
<1> QED BY <1>7, <1>9, <1>10 DEF OptionsInv

\* The outputs are archived one by one, and the seal last.
LEMMA StaleKeepsOptions ==
  ASSUME OptionsAssumption, OptionsInv, NEW p \in Selector, StaleOne(p) \/ StaleDone(p)
  PROVE  OptionsInv'
<1>1. /\ UNCHANGED <<artifact, journal, doc, selecting, snapshot, planner, applied>>
      /\ selecting = p /\ cmd[p].at \in {"stale", "clean"}
  BY DEF StaleOne, StaleDone, Lock
<1>2. cmd \in [Selector -> Command] /\ cmd[p] \in Command /\ Announced(cmd[p])
      /\ output \in [Output -> Hash \cup {Unset}] /\ cmd[p].todo \subseteq Output
  BY CommandTypes DEF OptionsInv, Command
<1>3. SelectionReconciled' /\ (JournalMatches => JournalMatches')
  BY <1>1, Unannounced DEF OptionsInv
<1>4. CASE StaleOne(p)
  <2>1. PICK f \in cmd[p].todo :
          /\ output' = [output EXCEPT ![f] = Unset] /\ UNCHANGED seal /\ behind' = behind \ {f}
          /\ cmd' = [cmd EXCEPT ![p].todo = @ \ {f}]
    BY <1>4 DEF StaleOne
  <2>2. PICK c \in Command :
          /\ c.at = cmd[p].at /\ c.decision = cmd[p].decision /\ c.option = cmd[p].option
          /\ c.todo = cmd[p].todo \ {f} /\ cmd' = [cmd EXCEPT ![p] = c]
    <3>1. [cmd[p] EXCEPT !.todo = cmd[p].todo \ {f}] \in Command
      BY <1>2 DEF Command
    <3> QED BY <1>2, <2>1, <3>1 DEF Command
  <2>3. Announced(c)'
    BY <1>1, <1>2, <1>3, <2>1, <2>2 DEF Announced, Replanned
  <2>4. /\ UnderLock' /\ (\A q \in Selector : Announced(cmd[q])')
        /\ cmd' \in [Selector -> Command] /\ selecting' \in Selector \cup {Unset}
    BY <1>1, <2>2, <2>3, OthersWait
  <2>5. OptionsTypeOK'
    BY <1>1, <1>2, <2>1, <2>4 DEF OptionsInv, OptionsTypeOK, Command, Steps
  <2> QED BY <1>3, <2>4, <2>5 DEF OptionsInv
<1>5. CASE StaleDone(p)
  <2>1. /\ UNCHANGED <<output, behind>> /\ seal' = Unset /\ cmd[p].todo = {}
        /\ cmd' = [cmd EXCEPT ![p].at = IF cmd[p].at = "stale" THEN "check" ELSE "apply"]
    BY <1>5 DEF StaleDone, Goto
  <2>2. PICK c \in Command :
          /\ c.at = (IF cmd[p].at = "stale" THEN "check" ELSE "apply")
          /\ c.decision = cmd[p].decision /\ c.option = cmd[p].option
          /\ cmd' = [cmd EXCEPT ![p] = c]
    <3>1. [cmd[p] EXCEPT !.at = IF cmd[p].at = "stale" THEN "check" ELSE "apply"] \in Command
      BY <1>2 DEF Command, Steps
    <3> QED BY <1>2, <2>1, <3>1 DEF Command
  <2>3. Announced(c)'
    BY <1>1, <1>2, <1>3, <2>1, <2>2 DEF Announced, Replanned
  <2>4. /\ UnderLock' /\ (\A q \in Selector : Announced(cmd[q])')
        /\ cmd' \in [Selector -> Command] /\ selecting' \in Selector \cup {Unset}
    BY <1>1, <2>2, <2>3, OthersWait
  <2>5. OptionsTypeOK'
    BY <1>1, <1>2, <2>1, <2>4 DEF OptionsInv, OptionsTypeOK, Command, Steps
  <2> QED BY <1>3, <2>4, <2>5 DEF OptionsInv
<1> QED BY <1>4, <1>5

\* What the document becomes is a document.
LEMMA SelectionType ==
  ASSUME NEW d \in Document, NEW j, j.current \in Hash
  PROVE  SelectionOf(d, j) \in Document
<1> DEFINE plan == IF j.complete THEN "in_progress" ELSE d.plan
<1>1. plan \in PlanStatus /\ d.replans + 1 \in Nat
  BY DEF Document, PlanStatus
<1>2. [d EXCEPT !.plan = plan, !.marker = j.current] \in Document
  <2> HIDE DEF plan
  <2> QED BY <1>1 DEF Document
<1>3. [d EXCEPT !.plan = "pending", !.past = FALSE, !.marker = j.current,
                !.replans = d.replans + 1] \in Document
  BY <1>1 DEF Document, PlanStatus
<1> QED BY <1>2, <1>3 DEF SelectionOf

\* The document learns of the selection that the journal announces.
LEMMA ApplyKeepsOptions ==
  ASSUME OptionsAssumption, OptionsInv, NEW p \in Selector, Apply(p)
  PROVE  OptionsInv' /\ \A f \in Output : Replanned(f)
<1>1. /\ UNCHANGED <<artifact, journal, output, seal, selecting, snapshot, planner, behind>>
      /\ selecting = p /\ cmd[p].at = "apply" /\ doc' = SelectionOf(doc, journal)
      /\ applied' = applied \cup {journal.current} /\ cmd' = [cmd EXCEPT ![p].at = "clear"]
  BY DEF Apply, Lock, Goto
<1>2. cmd \in [Selector -> Command] /\ cmd[p] \in Command /\ Announced(cmd[p])
      /\ artifact \in Artifact /\ journal \in Journal \cup {Unset} /\ doc \in Document
      /\ applied \subseteq Hash
  BY CommandTypes DEF OptionsInv
<1>3. JournalMatches /\ \A f \in Output : Replanned(f)
  BY <1>1, <1>2 DEF Announced
<1>4. journal \in Journal /\ journal.current = artifact.hash
  BY <1>2, <1>3 DEF JournalMatches
<1>5. JournalMatches' /\ SelectionReconciled' /\ artifact'.hash \in applied'
  BY <1>1, <1>3, <1>4 DEF JournalMatches, Complete, SelectionReconciled
<1>6. doc' \in Document /\ applied' \subseteq Hash
  <2>1. journal.current \in Hash
    BY <1>4 DEF Journal
  <2>2. SelectionOf(doc, journal) \in Document
    BY <1>2, <2>1, SelectionType
  <2> QED BY <1>1, <1>2, <2>1, <2>2
<1>7. PICK c \in Command :
        /\ c.at = "clear" /\ c.decision = cmd[p].decision /\ c.option = cmd[p].option
        /\ cmd' = [cmd EXCEPT ![p] = c]
  <2>1. [cmd[p] EXCEPT !.at = "clear"] \in Command
    BY <1>2 DEF Command, Steps
  <2> QED BY <1>1, <1>2, <2>1 DEF Command
<1>8. Announced(c)'
  BY <1>1, <1>2, <1>5, <1>7 DEF Announced
<1>9. /\ UnderLock' /\ (\A q \in Selector : Announced(cmd[q])')
      /\ cmd' \in [Selector -> Command] /\ selecting' \in Selector \cup {Unset}
  BY <1>1, <1>7, <1>8, OthersWait
<1>10. OptionsTypeOK'
  BY <1>1, <1>6, <1>9 DEF OptionsInv, OptionsTypeOK, Command, Steps
<1> QED BY <1>3, <1>5, <1>9, <1>10 DEF OptionsInv

\* The journal goes once its selection is applied.
LEMMA ClearKeepsOptions ==
  ASSUME OptionsAssumption, OptionsInv, NEW p \in Selector, ClearJournal(p)
  PROVE  OptionsInv'
<1>1. /\ UNCHANGED <<artifact, output, seal, doc, snapshot, planner, applied>> /\ journal' = Unset
      /\ behind' = {}
      /\ selecting = p /\ selecting' = Unset /\ cmd[p].at = "clear"
      /\ cmd' = [cmd EXCEPT ![p] = NoCommand]
  BY DEF ClearJournal, Lock
<1>2. NoCommand \in Command /\ Announced(NoCommand)'
  BY CommandTypes DEF OptionsAssumption, Hash, NoCommand, Command, Steps, Announced
<1>3. SelectionReconciled'
  BY <1>1 DEF OptionsInv, Announced, SelectionReconciled
<1>4. /\ UnderLock' /\ (\A q \in Selector : Announced(cmd[q])')
      /\ cmd' \in [Selector -> Command] /\ selecting' \in Selector \cup {Unset}
  BY <1>1, <1>2, OthersWait
<1>5. OptionsTypeOK'
  BY <1>1, <1>4 DEF OptionsInv, OptionsTypeOK, Command, Steps
<1> QED BY <1>3, <1>4, <1>5 DEF OptionsInv

\* Sealing, planning and the other commands change neither artifact nor journal, and
\* an output that the planner writes from an earlier choice is known to be one.
LEMMA OutsideKeepsOptions ==
  ASSUME OptionsAssumption, OptionsInv,
         \/ \E p \in Selector : SealPlan(p)
         \/ \E f \in Output : PlannerWrites(f)
         \/ PlannerReads \/ OtherLoads \/ OtherSaves \/ OtherKeeps \/ UNCHANGED optionsVars
  PROVE  OptionsInv'
<1>1. UNCHANGED <<artifact, journal, selecting, cmd, applied>>
  BY DEF SealPlan, PlannerWrites, PlannerReads, OtherLoads, OtherSaves, OtherKeeps, optionsVars
<1>2. OptionsTypeOK
  BY DEF OptionsInv
<1>3. output \in [Output -> Hash \cup {Unset}] /\ artifact.hash \in Hash
      /\ doc \in Document /\ snapshot \in Document \cup {Unset}
      /\ planner \in Hash \cup {Unset} /\ behind \subseteq Output
  BY <1>2 DEF OptionsTypeOK, Artifact
<1>4. /\ output' \in [Output -> Hash \cup {Unset}] /\ planner' \in Hash \cup {Unset}
      /\ behind' \subseteq Output
  BY <1>3 DEF SealPlan, PlannerWrites, PlannerReads, OtherLoads, OtherSaves, OtherKeeps, optionsVars
<1>5. seal' \in [hash : Hash, output : [Output -> Hash]] \cup {Unset}
  <2>1. CASE \E p \in Selector : SealPlan(p)
    <3>1. seal' = [hash |-> artifact.hash, output |-> output]
          /\ \A f \in Output : output[f] # Unset
      BY <2>1 DEF SealPlan
    <3>2. output \in [Output -> Hash]
      BY <1>3, <3>1
    <3> QED BY <1>3, <3>1, <3>2
  <2>2. CASE UNCHANGED seal
    BY <1>2, <2>2 DEF OptionsTypeOK
  <2> QED BY <2>1, <2>2 DEF PlannerWrites, PlannerReads, OtherLoads, OtherSaves, OtherKeeps, optionsVars
<1>6. doc' \in Document /\ snapshot' \in Document \cup {Unset}
  <2>1. CASE OtherSaves
    <3>1. snapshot \in Document /\ snapshot' = Unset
      BY <1>3, <2>1 DEF OtherSaves
    <3>2. doc' \in {[snapshot EXCEPT !.plan = "in_progress"],
                    [snapshot EXCEPT !.plan = "completed", !.past = TRUE],
                    [snapshot EXCEPT !.plan = "aborted"]}
      BY <2>1 DEF OtherSaves
    <3> QED BY <3>1, <3>2 DEF Document, PlanStatus
  <2>2. CASE ~OtherSaves
    BY <1>3, <2>2 DEF SealPlan, PlannerWrites, PlannerReads, OtherLoads, OtherKeeps, optionsVars
  <2> QED BY <2>1, <2>2
<1>7. OptionsTypeOK'
  BY <1>1, <1>2, <1>4, <1>5, <1>6 DEF OptionsTypeOK
<1>8. SelectionReconciled' /\ (JournalMatches => JournalMatches')
  BY <1>1, Unannounced DEF OptionsInv
<1>9. ASSUME NEW q \in Selector PROVE Announced(cmd[q])'
  <2>1. Announced(cmd[q]) /\ cmd'[q] = cmd[q] /\ cmd[q].todo \subseteq Output
    BY <1>1, CommandTypes DEF OptionsInv, Command
  <2>2. JournalAnnounces(cmd[q]) => JournalAnnounces(cmd[q])'
    BY <1>1 DEF JournalAnnounces, WouldComplete
  <2>3. cmd[q].at \in {"clean", "apply"} => \A f \in Output : Replanned(f) => Replanned(f)'
    BY <1>1, <1>3 DEF Replanned, SealPlan, PlannerWrites, PlannerReads, OtherLoads,
       OtherSaves, OtherKeeps, optionsVars
  <2> QED BY <1>1, <1>8, <2>1, <2>2, <2>3 DEF Announced
<1>10. UnderLock'
  BY <1>1 DEF OptionsInv, UnderLock
<1> QED BY <1>7, <1>8, <1>9, <1>10 DEF OptionsInv

LEMMA OptionsInvStep == OptionsAssumption /\ OptionsInv /\ [OptionsNext]_optionsVars => OptionsInv'
  BY MovingKeepsOptions, JournalKeepsOptions, PublishKeepsOptions, StaleKeepsOptions,
     ApplyKeepsOptions, ClearKeepsOptions, OutsideKeepsOptions DEF OptionsNext

LEMMA OptionsInvariant == OptionsAssumption /\ OptionsSpec => []OptionsInv
<1>1. CASE OptionsAssumption
  <2>1. OptionsInit => OptionsInv
    BY <1>1, OptionsInvInit
  <2>2. OptionsInv /\ [OptionsNext]_optionsVars => OptionsInv'
    BY <1>1, OptionsInvStep
  <2> QED BY <2>1, <2>2, PTL DEF OptionsSpec
<1> QED BY <1>1

\* Wherever select-option dies (planning_options.py:1204, wf.py:953), the selection it
\* published is applied to state.json or is still announced by a journal: for any
\* number of commands, decisions, options and outputs.
THEOREM SelectionsAreReconciled == OptionsAssumption /\ OptionsSpec => []SelectionReconciled
<1>1. OptionsInv => SelectionReconciled
  BY DEF OptionsInv
<1> QED BY <1>1, OptionsInvariant, PTL

\* When state.json learns of a selection, no output that was there when its command
\* listed them is of an earlier choice (_stale_planning_outputs before
\* apply_planning_option_selection), however many commands died on the way: one of an
\* earlier choice was written after the listing by a planner that had read it before.
THEOREM ReplansStartClean == OptionsAssumption /\ OptionsSpec => ReplanStartsClean
<1> DEFINE Clean == \A f \in Output \ behind : output[f] \in {Unset, artifact.hash}
<1>1. ASSUME OptionsAssumption, OptionsInv, [OptionsNext]_optionsVars
      PROVE  applied' # applied => Clean
  <2>1. CASE \E p \in Selector : Apply(p)
    BY <1>1, <2>1, ApplyKeepsOptions DEF Replanned
  <2>2. CASE ~\E p \in Selector : Apply(p)
    BY <1>1, <2>2 DEF OptionsNext, SelectBegin, WriteJournal, Reuse, Publish, StaleOne,
       StaleDone, CheckJournal, NothingPending, ClearJournal, SealPlan, AbandonSelection,
       PlannerWrites, PlannerReads, OtherLoads, OtherSaves, OtherKeeps, optionsVars
  <2> QED BY <2>1, <2>2
<1>2. CASE OptionsAssumption
  <2>1. OptionsInv /\ [OptionsNext]_optionsVars => [applied' # applied => Clean]_optionsVars
    BY <1>1, <1>2
  <2> QED BY <1>2, <2>1, OptionsInvariant, PTL DEF OptionsSpec, ReplanStartsClean
<1> QED BY <1>2

-----------------------------------------------------------------------------
(* The set-up of shared files. *)

SetupSteps ==
  {"idle", "planned", "next", "current", "noted", "exchanged", "sameInodes", "sameTexts"}

Progress ==
  [at : SetupSteps, k : 1..(Files + 1), source : [File -> Text \cup {Missing}],
   temp : Node \cup {Missing}, old : Nat, new : Nat, applied : BOOLEAN,
   result : {"none", "blocked", "partial", "applied"}]

\* What a command knows of the file it is at, and of those it has read.
Reading(s) ==
  /\ \A f \in File : s.source[f] # Missing =>
       file[f] # Missing /\ s.source[f] \subseteq written[f]
  /\ s.at \in {"current", "noted", "exchanged", "sameInodes", "sameTexts"} =>
       s.k \in File /\ s.temp # Missing
  /\ s.at \in {"noted", "exchanged", "sameInodes", "sameTexts"} => s.source[s.k] # Missing

\* A displaced text that its command has not compared yet.
Displaced(s, f, e) ==
  s.at \in {"exchanged", "sameInodes"} /\ s.k = f /\ s.temp # Missing /\ e \in s.temp.text

\* An entry is at its path, in a text not compared yet, or in a backup, or is one of
\* those NothingLost leaves out.  A text that was compared is on its way out and counts
\* for nothing.
Covered(f, e) ==
  \/ e \in late[f] \/ Unparsed(f, e)
  \/ file[f] # Missing /\ e \in file[f].text
  \/ \E p \in Setup : Displaced(setup[p], f, e)
  \/ \E text \in backup[f] : e \in text

AllCovered == \A f \in File : \A e \in written[f] : Covered(f, e)

\* What is at a path was written there.
Recorded == \A f \in File : file[f] # Missing => file[f].text \subseteq written[f]

SetupInv == SetupTypeOK /\ AllCovered /\ Recorded /\ \A p \in Setup : Reading(setup[p])

LEMMA SetupTypes ==
  SetupTypeOK <=>
    /\ file \in [File -> Node \cup {Missing}] /\ backup \in [File -> SUBSET Text]
    /\ written \in [File -> Text] /\ late \in [File -> Text]
    /\ setup \in [Setup -> Progress]
    /\ inodes \in Nat /\ edits \in 0..MaxEdits /\ runs \in 0..MaxRuns
  BY DEF SetupTypeOK, Progress, SetupSteps

LEMMA NoSetupType ==
  ASSUME SetupAssumption
  PROVE  NoSetup \in Progress /\ NoSetup.at = "idle" /\ \A f \in File : NoSetup.source[f] = Missing
  BY DEF NoSetup, Progress, SetupSteps, SetupAssumption

\* A command that has ended has nothing at hand.
LEMMA EndedType ==
  ASSUME SetupAssumption, NEW r \in {"none", "blocked", "partial", "applied"}
  PROVE  [NoSetup EXCEPT !.result = r] \in Progress /\ Reading([NoSetup EXCEPT !.result = r])
<1>1. PICK s : s = [NoSetup EXCEPT !.result = r]
  OBVIOUS
<1>2. s \in Progress /\ s.at = "idle" /\ \A f \in File : s.source[f] = Missing
  BY <1>1, NoSetupType DEF Progress
<1>3. Reading(s)
  BY <1>2 DEF Reading
<1> QED BY <1>1, <1>2, <1>3

LEMMA SetupInvInit == SetupAssumption /\ SetupInit => SetupInv
<1> SUFFICES ASSUME SetupAssumption, SetupInit PROVE SetupInv
  OBVIOUS
<1>1. NoSetup \in Progress /\ NoSetup.at = "idle" /\ \A f \in File : NoSetup.source[f] = Missing
  BY NoSetupType
<1>2. \A t \in {{}, {Mention}} : t \in Text /\ [inode |-> 1, text |-> t] \in Node
  BY DEF Node, Text, SetupAssumption
<1>3. SetupTypeOK
  <2>1. file \in [File -> Node \cup {Missing}]
    BY <1>2 DEF SetupInit
  <2>2. setup \in [Setup -> Progress]
    BY <1>1 DEF SetupInit
  <2>3. backup \in [File -> SUBSET Text] /\ late \in [File -> Text]
    BY DEF SetupInit, Text
  <2>5. written \in [File -> Text]
    <3>1. \A f \in File : (IF file[f] = Missing THEN {} ELSE file[f].text) \in Text
      BY <2>1 DEF Node, Text
    <3> QED BY <3>1 DEF SetupInit
  <2>4. inodes \in Nat /\ edits \in 0..MaxEdits /\ runs \in 0..MaxRuns
    BY DEF SetupInit, SetupAssumption
  <2> QED BY <2>1, <2>2, <2>3, <2>4, <2>5, SetupTypes
<1>4. \A f \in File : written[f] = IF file[f] = Missing THEN {} ELSE file[f].text
  BY DEF SetupInit
<1>5. AllCovered /\ Recorded
  BY <1>4 DEF AllCovered, Covered, Recorded
<1>6. \A p \in Setup : Reading(setup[p])
  BY <1>1 DEF SetupInit, Reading
<1> QED BY <1>3, <1>5, <1>6 DEF SetupInv

\* A step of a command that changes no shared file keeps what it had displaced, or has
\* put it into a backup, or has found it at its path.
LEMMA PrivateStep ==
  ASSUME SetupInv, NEW p \in Setup, NEW s \in Progress,
         UNCHANGED <<file, written, late, edits>>, inodes' \in Nat, runs' \in 0..MaxRuns,
         setup' = [setup EXCEPT ![p] = s], Reading(s),
         backup' \in [File -> SUBSET Text], \A f \in File : backup[f] \subseteq backup'[f],
         \A f \in File, e \in Entry : Displaced(setup[p], f, e) =>
           \/ Displaced(s, f, e) \/ Unparsed(f, e)
           \/ file[f] # Missing /\ e \in file[f].text
           \/ \E text \in backup'[f] : e \in text
  PROVE  SetupInv'
<1>1. SetupTypeOK
  BY DEF SetupInv
<1>2. setup \in [Setup -> Progress] /\ setup' \in [Setup -> Progress] /\ setup'[p] = s
      /\ \A q \in Setup \ {p} : setup'[q] = setup[q]
  BY <1>1, SetupTypes
<1>3. SetupTypeOK'
  BY <1>1, <1>2 DEF SetupTypeOK, Progress, SetupSteps
<1>4. \A f \in File, e \in Entry : Covered(f, e) => Covered(f, e)'
  BY <1>2 DEF Covered, Displaced, Unparsed
<1>5. AllCovered'
  BY <1>1, <1>4 DEF SetupInv, AllCovered, SetupTypeOK, Text
<1>6. \A q \in Setup : Reading(setup[q])'
  BY <1>2 DEF SetupInv, Reading
<1>7. Recorded'
  BY DEF SetupInv, Recorded
<1> QED BY <1>3, <1>5, <1>6, <1>7 DEF SetupInv

\* A command whose temporary file held a displaced text leaves it as a backup.
LEMMA EndingKeepsTexts ==
  ASSUME SetupAssumption, SetupInv, NEW p \in Setup, setup[p].at # "idle",
         UNCHANGED <<file, written, late, inodes, edits, runs>>,
         Fail(p) \/ End(p, "none", TRUE) \/ (End(p, "applied", FALSE) /\ At(p, "next"))
  PROVE  SetupInv'
<1>1. setup \in [Setup -> Progress] /\ setup[p] \in Progress /\ Reading(setup[p])
      /\ backup \in [File -> SUBSET Text]
  BY SetupTypes DEF SetupInv
<1>2. PICK r \in {"none", "blocked", "partial", "applied"}, keep \in BOOLEAN :
        /\ End(p, r, keep) /\ (setup[p].at \in {"exchanged", "sameInodes"} => keep)
  <2>1. CASE Fail(p)
    <3> DEFINE keep == setup[p].at \in {"exchanged", "sameInodes", "sameTexts"}
    <3>1. End(p, Failure(p), keep) /\ Failure(p) \in {"blocked", "partial"}
      BY <2>1 DEF Fail, Failure
    <3>2. keep \in BOOLEAN /\ (setup[p].at \in {"exchanged", "sameInodes"} => keep)
      OBVIOUS
    <3> HIDE DEF keep
    <3> QED BY <3>1, <3>2
  <2>2. CASE ~Fail(p)
    BY <2>2 DEF At
  <2> QED BY <2>1, <2>2
<1>3. PICK s \in Progress : /\ setup' = [setup EXCEPT ![p] = s] /\ Reading(s)
  BY <1>2, EndedType DEF End
<1>4. backup' \in [File -> SUBSET Text] /\ (\A f \in File : backup[f] \subseteq backup'[f])
      /\ \A f \in File, e \in Entry : Displaced(setup[p], f, e) =>
           \E text \in backup'[f] : e \in text
  <2>1. CASE keep /\ setup[p].temp # Missing
    <3>1. setup[p].temp.text \in Text
      BY <1>1, <2>1 DEF Progress, Node
    <3>2. backup' = [backup EXCEPT ![setup[p].k] = @ \cup {setup[p].temp.text}]
      BY <1>2, <2>1 DEF End
    <3> QED BY <1>1, <3>1, <3>2 DEF Displaced
  <2>2. CASE ~(keep /\ setup[p].temp # Missing)
    BY <1>1, <1>2, <2>2 DEF End, Displaced
  <2> QED BY <2>1, <2>2
<1>5. inodes' \in Nat /\ runs' \in 0..MaxRuns
  BY SetupTypes DEF SetupInv
<1> QED BY <1>3, <1>4, <1>5, PrivateStep

\* A command begins, or goes on without displacing anything.
LEMMA GoingOnKeepsTexts ==
  ASSUME SetupAssumption, SetupInv, NEW p \in Setup,
         Plan(p) \/ Revalidate(p) \/ CheckSource(p) \/ NoteInode(p)
  PROVE  SetupInv'
<1>1. setup \in [Setup -> Progress] /\ setup[p] \in Progress /\ Reading(setup[p])
      /\ backup \in [File -> SUBSET Text] /\ file \in [File -> Node \cup {Missing}]
      /\ inodes \in Nat /\ runs \in 0..MaxRuns
  BY SetupTypes DEF SetupInv
<1>2. /\ UNCHANGED <<file, written, late, edits>> /\ inodes' \in Nat /\ runs' \in 0..MaxRuns
      /\ setup[p].at \in {"idle", "planned", "next", "current"}
  BY <1>1 DEF Plan, Revalidate, CheckSource, NoteInode, At, SetupAssumption
<1>3. \A f \in File, e \in Entry : ~Displaced(setup[p], f, e)
  BY <1>2 DEF Displaced
<1>4. CASE Fail(p) /\ UNCHANGED <<inodes, runs>> /\ setup[p].at # "idle"
  BY <1>2, <1>4, EndingKeepsTexts
<1>5. ASSUME NEW s \in Progress, setup' = [setup EXCEPT ![p] = s], Reading(s), UNCHANGED backup
      PROVE  SetupInv'
  BY <1>1, <1>2, <1>3, <1>5, PrivateStep
<1>6. CASE Plan(p)
  <2> DEFINE source == [f \in File |-> Fingerprint(f)]
  <2>1. source \in [File -> Text \cup {Missing}]
        /\ \A f \in File : source[f] # Missing =>
             file[f] # Missing /\ source[f] \subseteq written[f]
    BY <1>1 DEF Fingerprint, Node, SetupInv, Recorded
  <2>2. setup' = [setup EXCEPT ![p] = [NoSetup EXCEPT !.at = "planned", !.source = source]]
        /\ UNCHANGED backup
    BY <1>6 DEF Plan
  <2> HIDE DEF source
  <2>3. PICK s : s = [NoSetup EXCEPT !.at = "planned", !.source = source]
    OBVIOUS
  <2>4. s \in Progress /\ Reading(s)
    BY <2>1, <2>3, NoSetupType DEF Progress, SetupSteps, Reading
  <2> QED BY <1>5, <2>2, <2>3, <2>4
<1>7. CASE Revalidate(p)
  <2>1. CASE Fail(p)
    BY <1>4, <1>7, <2>1 DEF Revalidate, At
  <2>2. CASE ~Fail(p)
    <3>1. setup' = [setup EXCEPT ![p].at = "next"] /\ UNCHANGED backup
      BY <1>7, <2>2 DEF Revalidate, StepTo
    <3>2. PICK s : s = [setup[p] EXCEPT !.at = "next"]
      OBVIOUS
    <3>3. s \in Progress /\ Reading(s)
      BY <1>1, <3>2 DEF Progress, SetupSteps, Reading
    <3> QED BY <1>1, <1>5, <3>1, <3>2, <3>3
  <2> QED BY <2>1, <2>2
<1>8. CASE CheckSource(p)
  <2> DEFINE k == setup[p].k
  <2>1. k \in File /\ setup[p].at = "next"
    BY <1>1, <1>8 DEF CheckSource, At, Progress, File, SetupAssumption
  <2>2. CASE ~NeedsWrite(p, k)
    <3>1. setup' = [setup EXCEPT ![p].k = @ + 1] /\ UNCHANGED backup
      BY <1>8, <2>2 DEF CheckSource
    <3>2. PICK s : s = [setup[p] EXCEPT !.k = @ + 1]
      OBVIOUS
    <3>3. s.at = "next" /\ s.source = setup[p].source /\ s.k \in 1..(Files + 1)
      BY <1>1, <2>1, <3>2 DEF Progress, File, SetupAssumption
    <3>4. s \in Progress /\ Reading(s)
      BY <1>1, <3>2, <3>3 DEF Progress, Reading
    <3> QED BY <1>1, <1>5, <3>1, <3>2, <3>4
  <2>3. CASE Fail(p) /\ NeedsWrite(p, k) /\ Fingerprint(k) # setup[p].source[k]
    <3>1. UNCHANGED <<inodes, runs>>
      BY <1>8, <2>3 DEF CheckSource
    <3> QED BY <1>4, <2>1, <2>3, <3>1
  <2>4. CASE NeedsWrite(p, k) /\ Fingerprint(k) = setup[p].source[k]
    <3> DEFINE t == [inode |-> inodes + 1, text |-> Desired(p, k)]
    <3>1. setup' = [setup EXCEPT ![p].at = "current", ![p].temp = t] /\ UNCHANGED backup
      BY <1>8, <2>4 DEF CheckSource
    <3>2. t \in Node /\ t # Missing
      BY <1>1, <2>1 DEF Progress, Desired, Node, Text, SetupAssumption
    <3> HIDE DEF t
    <3>3. PICK s : s = [setup[p] EXCEPT !.at = "current", !.temp = t]
      OBVIOUS
    <3>4. s \in Progress /\ Reading(s)
      BY <1>1, <2>1, <3>2, <3>3 DEF Progress, SetupSteps, Reading
    <3> QED BY <1>1, <1>5, <3>1, <3>3, <3>4
  <2> QED BY <1>8, <2>2, <2>3, <2>4 DEF CheckSource
<1>9. CASE NoteInode(p)
  <2> DEFINE k == setup[p].k
  <2>1. k \in File /\ setup[p].at = "current" /\ setup[p].source[k] # Missing
        /\ setup[p].temp # Missing /\ file[k] # Missing
    BY <1>1, <1>9 DEF NoteInode, At, Reading
  <2>2. setup' = [setup EXCEPT ![p].at = "noted", ![p].old = file[k].inode,
                               ![p].new = setup[p].temp.inode] /\ UNCHANGED backup
    BY <1>9 DEF NoteInode
  <2>3. file[k].inode \in Nat /\ setup[p].temp.inode \in Nat
    BY <1>1, <2>1 DEF Progress, Node
  <2>4. PICK s : s = [setup[p] EXCEPT !.at = "noted", !.old = file[k].inode,
                                      !.new = setup[p].temp.inode]
    OBVIOUS
  <2>5. s \in Progress /\ Reading(s)
    BY <1>1, <2>1, <2>3, <2>4 DEF Progress, SetupSteps, Reading
  <2> QED BY <1>1, <1>5, <2>2, <2>4, <2>5
<1> QED BY <1>6, <1>7, <1>8, <1>9

\* Going on to the next file.
LEMMA NextFileType ==
  ASSUME SetupAssumption, NEW p \in Setup, setup \in [Setup -> Progress],
         Reading(setup[p]), setup[p].k \in File, NextFile(p)
  PROVE  \E s \in Progress : setup' = [setup EXCEPT ![p] = s] /\ Reading(s)
<1>1. PICK s : s = [setup[p] EXCEPT !.at = "next", !.k = @ + 1, !.temp = Missing,
                                    !.old = 0, !.new = 0, !.applied = TRUE]
  OBVIOUS
<1>2. setup[p].k + 1 \in 1..(Files + 1)
  BY DEF File, SetupAssumption
<1>3. s \in Progress /\ s.at = "next" /\ s.source = setup[p].source
  BY <1>1, <1>2 DEF Progress, SetupSteps
<1>4. setup' = [setup EXCEPT ![p] = s]
  BY <1>1 DEF NextFile
<1>5. Reading(s)
  BY <1>3 DEF Reading
<1> QED BY <1>3, <1>4, <1>5

\* After the exchange: what was displaced is compared, by inode and by text, and goes
\* only when all of it that is read anew is in the text that took its place.
LEMMA ComparingKeepsTexts ==
  ASSUME SetupAssumption, SetupInv, NEW p \in Setup,
         CheckInodes(p) \/ CheckTexts(p) \/ Unlink(p)
  PROVE  SetupInv'
<1> DEFINE k == setup[p].k
<1>1. setup \in [Setup -> Progress] /\ setup[p] \in Progress /\ Reading(setup[p])
      /\ backup \in [File -> SUBSET Text] /\ file \in [File -> Node \cup {Missing}]
      /\ inodes \in Nat /\ runs \in 0..MaxRuns
  BY SetupTypes DEF SetupInv
<1>2. /\ UNCHANGED <<file, written, late, inodes, edits, runs>>
      /\ setup[p].at \in {"exchanged", "sameInodes", "sameTexts"}
  BY DEF CheckInodes, CheckTexts, Unlink, At
<1>3. k \in File /\ setup[p].temp # Missing /\ setup[p].temp \in Node
      /\ setup[p].source[k] # Missing /\ setup[p].source[k] \in Text
  BY <1>1, <1>2 DEF Reading, Progress
<1>4. CASE Fail(p)
  BY <1>2, <1>4, EndingKeepsTexts
<1>5. CASE CheckInodes(p) /\ ~Fail(p)
  <2>1. setup' = [setup EXCEPT ![p].at = "sameInodes"] /\ UNCHANGED backup
        /\ setup[p].at = "exchanged"
    BY <1>5 DEF CheckInodes, StepTo, At
  <2>2. PICK s : s = [setup[p] EXCEPT !.at = "sameInodes"]
    OBVIOUS
  <2>3. s \in Progress /\ Reading(s)
        /\ \A f \in File, e \in Entry : Displaced(setup[p], f, e) => Displaced(s, f, e)
    BY <1>1, <1>3, <2>1, <2>2 DEF Progress, SetupSteps, Reading, Displaced
  <2> QED BY <1>1, <1>2, <2>1, <2>2, <2>3, PrivateStep
<1>6. CASE CheckTexts(p) /\ ~Fail(p)
  <2>1. setup' = [setup EXCEPT ![p].at = "sameTexts"] /\ UNCHANGED backup
        /\ setup[p].temp.text = setup[p].source[k] /\ Fingerprint(k) = Desired(p, k)
    BY <1>6 DEF CheckTexts, StepTo
  <2>2. Desired(p, k) \in Text
        /\ \A e \in setup[p].source[k] : e \in Desired(p, k) \/ Unparsed(k, e)
    BY <1>1, <1>3 DEF Desired, Text, SetupAssumption, Unparsed, Reading
  <2>3. file[k] # Missing /\ file[k].text = Desired(p, k)
    BY <2>1, <2>2 DEF Fingerprint, SetupAssumption
  <2>4. PICK s : s = [setup[p] EXCEPT !.at = "sameTexts"]
    OBVIOUS
  <2>5. s \in Progress /\ Reading(s)
    BY <1>1, <1>3, <2>4 DEF Progress, SetupSteps, Reading
  <2>6. \A f \in File, e \in Entry : Displaced(setup[p], f, e) =>
          Unparsed(f, e) \/ (file[f] # Missing /\ e \in file[f].text)
    BY <2>1, <2>2, <2>3 DEF Displaced
  <2> QED BY <1>1, <1>2, <2>1, <2>4, <2>5, <2>6, PrivateStep
<1>7. CASE Unlink(p)
  <2>1. NextFile(p) /\ UNCHANGED backup /\ setup[p].at = "sameTexts"
    BY <1>7 DEF Unlink, At
  <2>2. PICK s \in Progress : setup' = [setup EXCEPT ![p] = s] /\ Reading(s)
    BY <1>1, <1>3, <2>1, NextFileType
  <2>3. \A f \in File, e \in Entry : ~Displaced(setup[p], f, e)
    BY <2>1 DEF Displaced
  <2> QED BY <1>1, <1>2, <2>1, <2>2, <2>3, PrivateStep
<1> QED BY <1>4, <1>5, <1>6, <1>7

\* A file is replaced, by a command that holds what it displaced.
LEMMA PublicStep ==
  ASSUME SetupAssumption, SetupInv, NEW p \in Setup, NEW s \in Progress, Reading(s),
         NEW k \in File, NEW t \in Node,
         file' = [file EXCEPT ![k] = t], written' = [written EXCEPT ![k] = @ \cup t.text],
         setup' = [setup EXCEPT ![p] = s], UNCHANGED <<backup, late, inodes, edits, runs>>,
         \A f \in File, e \in Entry : ~Displaced(setup[p], f, e),
         \A e \in Entry : file[k] # Missing /\ e \in file[k].text => Displaced(s, k, e)
  PROVE  SetupInv'
<1>1. SetupTypeOK
  BY DEF SetupInv
<1>2. /\ setup \in [Setup -> Progress] /\ setup' \in [Setup -> Progress] /\ setup'[p] = s
      /\ \A q \in Setup \ {p} : setup'[q] = setup[q]
      /\ file \in [File -> Node \cup {Missing}] /\ written \in [File -> Text]
      /\ t # Missing /\ t.text \in Text
  BY <1>1, SetupTypes DEF SetupAssumption, Node
<1>3. /\ file' \in [File -> Node \cup {Missing}] /\ file'[k] = t
      /\ \A f \in File : file[f] # Missing => file'[f] # Missing
      /\ \A f \in File \ {k} : file'[f] = file[f] /\ written'[f] = written[f]
      /\ written'[k] = written[k] \cup t.text /\ written' \in [File -> Text]
  BY <1>2 DEF Text
<1>4. SetupTypeOK'
  BY <1>1, <1>2, <1>3 DEF SetupTypeOK, Progress, SetupSteps
<1>5. \A f \in File, e \in Entry : Covered(f, e) => Covered(f, e)'
  <2> SUFFICES ASSUME NEW f \in File, NEW e \in Entry, Covered(f, e) PROVE Covered(f, e)'
    OBVIOUS
  <2>0. CASE e \in late[f] \/ Unparsed(f, e)
    BY <1>3, <2>0 DEF Covered, Unparsed
  <2>1. CASE file[f] # Missing /\ e \in file[f].text
    <3>1. CASE f = k
      BY <1>2, <2>1, <3>1 DEF Covered, Displaced
    <3>2. CASE f # k
      BY <1>3, <2>1, <3>2 DEF Covered
    <3> QED BY <3>1, <3>2
  <2>2. CASE \E q \in Setup : Displaced(setup[q], f, e)
    BY <1>2, <2>2 DEF Covered, Displaced
  <2>3. CASE \E text \in backup[f] : e \in text
    BY <2>3 DEF Covered
  <2> QED BY <2>0, <2>1, <2>2, <2>3 DEF Covered
<1>6. AllCovered'
  <2> SUFFICES ASSUME NEW f \in File, NEW e \in written'[f] PROVE Covered(f, e)'
    BY DEF AllCovered
  <2>1. CASE e \in written[f]
    BY <1>2, <1>5, <2>1 DEF SetupInv, AllCovered, Text
  <2>2. CASE e \notin written[f]
    BY <1>2, <1>3, <2>2 DEF Covered
  <2> QED BY <2>1, <2>2
<1>7. \A q \in Setup : Reading(setup[q])'
  BY <1>2, <1>3 DEF SetupInv, Reading
<1>8. Recorded'
  BY <1>3 DEF SetupInv, Recorded
<1> QED BY <1>4, <1>6, <1>7, <1>8 DEF SetupInv

\* A new file is linked where there is none; an existing one is exchanged with it.
LEMMA PublishingKeepsTexts ==
  ASSUME SetupAssumption, SetupInv, NEW p \in Setup, PublishNew(p) \/ Exchange(p)
  PROVE  SetupInv'
<1> DEFINE k == setup[p].k
<1>1. setup \in [Setup -> Progress] /\ setup[p] \in Progress /\ Reading(setup[p])
      /\ file \in [File -> Node \cup {Missing}] /\ setup[p].at \in {"current", "noted"}
  BY SetupTypes DEF SetupInv, PublishNew, Exchange, At
<1>2. k \in File /\ setup[p].temp # Missing /\ setup[p].temp \in Node
      /\ \A f \in File, e \in Entry : ~Displaced(setup[p], f, e)
  BY <1>1 DEF Reading, Progress, Displaced
<1>3. CASE PublishNew(p)
  <2>1. CASE Fail(p) /\ UNCHANGED <<file, written>>
    <3>1. UNCHANGED <<late, inodes, edits, runs>>
      BY <1>3 DEF PublishNew
    <3> QED BY <1>1, <2>1, <3>1, EndingKeepsTexts
  <2>2. CASE ~(Fail(p) /\ UNCHANGED <<file, written>>)
    <3>1. /\ file[k] = Missing /\ NextFile(p) /\ UNCHANGED <<backup, late, inodes, edits, runs>>
          /\ file' = [file EXCEPT ![k] = setup[p].temp]
          /\ written' = [written EXCEPT ![k] = @ \cup setup[p].temp.text]
      BY <1>3, <2>2 DEF PublishNew
    <3>2. PICK s \in Progress : setup' = [setup EXCEPT ![p] = s] /\ Reading(s)
      BY <1>1, <1>2, <3>1, NextFileType
    <3> QED BY <1>2, <3>1, <3>2, PublicStep
  <2> QED BY <2>1, <2>2
<1>4. CASE Exchange(p)
  <2>1. /\ file' = [file EXCEPT ![k] = setup[p].temp] /\ setup[p].at = "noted"
        /\ written' = [written EXCEPT ![k] = @ \cup setup[p].temp.text]
        /\ setup' = [setup EXCEPT ![p].at = "exchanged", ![p].temp = file[k]]
        /\ UNCHANGED <<backup, late, inodes, edits, runs>>
    BY <1>4 DEF Exchange, At
  <2>2. file[k] # Missing /\ setup[p].source[k] # Missing
    BY <1>1, <1>2, <2>1 DEF Reading
  <2>3. PICK s : s = [setup[p] EXCEPT !.at = "exchanged", !.temp = file[k]]
    OBVIOUS
  <2>4. s \in Progress /\ Reading(s)
    BY <1>1, <1>2, <2>2, <2>3 DEF Progress, SetupSteps, Reading
  <2>5. \A e \in Entry : file[k] # Missing /\ e \in file[k].text => Displaced(s, k, e)
    BY <1>1, <1>2, <2>3 DEF Displaced, Progress
  <2>6. setup' = [setup EXCEPT ![p] = s]
    BY <1>1, <2>1, <2>3
  <2> QED BY <1>2, <2>1, <2>4, <2>5, <2>6, PublicStep
<1> QED BY <1>3, <1>4

\* An edit adds an entry, in place or with a new file.
LEMMA EditKeepsTexts ==
  ASSUME SetupAssumption, SetupInv, NEW f \in File, NEW e \in Entry, Edit(f, e)
  PROVE  SetupInv'
<1> DEFINE old == IF file[f] = Missing THEN {} ELSE file[f].text
<1>1. SetupTypeOK /\ file \in [File -> Node \cup {Missing}] /\ written \in [File -> Text]
  BY SetupTypes DEF SetupInv
<1>2. PICK i \in {inodes + 1} \cup (IF file[f] = Missing THEN {} ELSE {file[f].inode}) :
        /\ file' = [file EXCEPT ![f] = [inode |-> i, text |-> old \cup {e}]]
        /\ inodes' = IF i > inodes THEN i ELSE inodes
  BY DEF Edit
<1>3. /\ UNCHANGED <<backup, late, setup, runs>> /\ edits' = edits + 1 /\ edits < MaxEdits
      /\ written' = [written EXCEPT ![f] = @ \cup {e}]
  BY DEF Edit
<1>4. i \in Nat /\ inodes \in Nat
  BY <1>1, <1>2 DEF SetupTypeOK, Node
<1>5. [inode |-> i, text |-> old \cup {e}] \in Node
      /\ [inode |-> i, text |-> old \cup {e}] # Missing
  BY <1>1, <1>4 DEF Node, Text, SetupAssumption
<1>6. /\ file' \in [File -> Node \cup {Missing}] /\ written' \in [File -> Text]
      /\ \A g \in File : file[g] # Missing => file'[g] # Missing
      /\ \A g \in File, x \in Entry :
           (file[g] # Missing /\ x \in file[g].text) \/ (g = f /\ x = e) =>
             file'[g] # Missing /\ x \in file'[g].text
      /\ \A g \in File : written'[g] = written[g] \cup (IF g = f THEN {e} ELSE {})
      /\ \A g \in File : file'[g] # file[g] => g = f /\ file'[g].text = old \cup {e}
  BY <1>1, <1>2, <1>3, <1>5 DEF Text
<1>7. SetupTypeOK'
  BY <1>1, <1>2, <1>3, <1>4, <1>6 DEF SetupTypeOK, SetupAssumption
<1>8. AllCovered'
  <2> SUFFICES ASSUME NEW g \in File, NEW x \in written'[g] PROVE Covered(g, x)'
    BY DEF AllCovered
  <2>1. x \in Entry
    BY <1>6 DEF Text
  <2>2. CASE g = f /\ x = e
    BY <1>6, <2>2 DEF Covered
  <2>3. CASE ~(g = f /\ x = e)
    <3>1. Covered(g, x)
      BY <1>6, <2>3 DEF SetupInv, AllCovered
    <3> QED BY <1>3, <1>6, <2>1, <3>1 DEF Covered, Unparsed
  <2> QED BY <2>2, <2>3
<1>9. \A q \in Setup : Reading(setup[q])'
  BY <1>3, <1>6 DEF SetupInv, Reading
<1>10. Recorded'
  BY <1>6 DEF SetupInv, Recorded
<1> QED BY <1>7, <1>8, <1>9, <1>10 DEF SetupInv

\* What is written into a displaced file is held with it until its text is compared.
LEMMA LateWriteIsCovered ==
  ASSUME SetupAssumption, SetupInv, NEW p \in Setup, NEW e \in Entry, EditDisplaced(p, e)
  PROVE  SetupInv'
<1> DEFINE k == setup[p].k
<1>1. setup \in [Setup -> Progress] /\ setup[p] \in Progress /\ Reading(setup[p])
      /\ written \in [File -> Text] /\ late \in [File -> Text]
  BY SetupTypes DEF SetupInv
<1>2. k \in File /\ setup[p].temp # Missing /\ setup[p].temp \in Node
      /\ setup[p].at \in {"exchanged", "sameInodes", "sameTexts"}
  BY <1>1 DEF EditDisplaced, Reading, Progress
<1>3. /\ UNCHANGED <<file, backup, inodes, runs>> /\ edits' = edits + 1 /\ edits < MaxEdits
      /\ written' = [written EXCEPT ![k] = @ \cup {e}]
      /\ late' = IF At(p, "sameTexts") THEN [late EXCEPT ![k] = @ \cup {e}] ELSE late
      /\ setup' = [setup EXCEPT ![p].temp.text = @ \cup {e}]
  BY DEF EditDisplaced
<1>4. PICK t : t = [setup[p].temp EXCEPT !.text = @ \cup {e}]
  OBVIOUS
<1>5. t \in Node /\ t # Missing /\ e \in t.text /\ setup[p].temp.text \subseteq t.text
  BY <1>2, <1>4 DEF Node, Text, SetupAssumption
<1>6. PICK s : s = [setup[p] EXCEPT !.temp = t]
  OBVIOUS
<1>7. /\ s.temp = t /\ s.at = setup[p].at /\ s.k = k /\ s.source = setup[p].source
      /\ s \in Progress
  BY <1>1, <1>5, <1>6 DEF Progress
<1>8. /\ setup' \in [Setup -> Progress] /\ setup'[p] = s
      /\ \A q \in Setup \ {p} : setup'[q] = setup[q]
  <2>1. setup' = [setup EXCEPT ![p] = s]
    BY <1>1, <1>3, <1>6, <1>4
  <2> QED BY <1>1, <1>7, <2>1
<1>9. /\ written' \in [File -> Text] /\ late' \in [File -> Text]
      /\ \A f \in File : written[f] \subseteq written'[f] /\ late[f] \subseteq late'[f]
      /\ \A f \in File : written'[f] \subseteq written[f] \cup (IF f = k THEN {e} ELSE {})
      /\ At(p, "sameTexts") => e \in late'[k]
  BY <1>1, <1>2, <1>3 DEF Text
<1>10. SetupTypeOK'
  <2>1. edits' \in 0..MaxEdits
    BY <1>3 DEF SetupInv, SetupTypeOK, SetupAssumption
  <2> QED BY <1>3, <1>8, <1>9, <2>1 DEF SetupInv, SetupTypeOK, Progress, SetupSteps
<1>11. AllCovered'
  <2> SUFFICES ASSUME NEW f \in File, NEW x \in written'[f] PROVE Covered(f, x)'
    BY DEF AllCovered
  <2>1. CASE f = k /\ x = e
    <3>1. Displaced(s, k, e) \/ At(p, "sameTexts")
      BY <1>2, <1>7, <1>5 DEF Displaced, At
    <3> QED BY <1>8, <1>9, <2>1, <3>1 DEF Covered, Displaced
  <2>2. CASE ~(f = k /\ x = e)
    <3>1. x \in written[f] /\ Covered(f, x)
      BY <1>9, <2>2 DEF SetupInv, AllCovered
    <3>2. \A q \in Setup : Displaced(setup[q], f, x) => Displaced(setup'[q], f, x)
      BY <1>2, <1>7, <1>8, <1>5 DEF Displaced
    <3> QED BY <1>3, <1>9, <3>1, <3>2 DEF Covered, Displaced, Unparsed
  <2> QED BY <2>1, <2>2
<1>12. \A q \in Setup : Reading(setup[q])'
  <2>1. \A q \in Setup \ {p} : Reading(setup[q])'
    BY <1>3, <1>8, <1>9 DEF SetupInv, Reading
  <2>2. Reading(s)'
    BY <1>1, <1>2, <1>3, <1>7, <1>9, <1>5 DEF Reading
  <2> QED BY <1>8, <2>1, <2>2 DEF Reading
<1>13. Recorded'
  BY <1>3, <1>9 DEF SetupInv, Recorded
<1> QED BY <1>10, <1>11, <1>12, <1>13 DEF SetupInv

LEMMA SetupInvStep == SetupAssumption /\ SetupInv /\ [SetupNext]_setupVars => SetupInv'
<1> SUFFICES ASSUME SetupAssumption, SetupInv, [SetupNext]_setupVars PROVE SetupInv'
  OBVIOUS
<1>1. ASSUME NEW p \in Setup, Finish(p) \/ Broken(p) \/ Die(p) PROVE SetupInv'
  BY <1>1, EndingKeepsTexts DEF Finish, Broken, Die, At
<1>2. CASE UNCHANGED setupVars
  BY <1>2 DEF setupVars, SetupInv, SetupTypeOK, AllCovered, Covered, Unparsed, Displaced,
              Recorded, Reading
<1> QED BY <1>1, <1>2, GoingOnKeepsTexts, ComparingKeepsTexts, PublishingKeepsTexts,
           EditKeepsTexts, LateWriteIsCovered DEF SetupNext

\* Whatever users and any number of set-ups of any worktrees write into the shared
\* files, and wherever set-ups fail or are killed (lsp_setup.py:1754, 1834), every entry
\* is at its path, in a displaced file some set-up holds, or in a backup; except what is
\* written into a displaced file after its text was compared, and what the parser does not
\* know of a worktree.toml that is written anew (1473).
THEOREM SetupLosesNothing == SetupAssumption /\ SetupSpec => []NothingLost
<1>1. SetupInv => NothingLost
  BY DEF SetupInv, AllCovered, Covered, Displaced, NothingLost, Held
<1>2. CASE SetupAssumption
  <2>1. SetupInit => SetupInv
    BY <1>2, SetupInvInit
  <2>2. SetupInv /\ [SetupNext]_setupVars => SetupInv'
    BY <1>2, SetupInvStep
  <2> QED BY <1>1, <2>1, <2>2, PTL DEF SetupSpec
<1> QED BY <1>2

=============================================================================
