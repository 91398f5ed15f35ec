------------------------------- MODULE Delivery -------------------------------
(***************************************************************************)
(* What the broker promises of each artifact put into the outbox: it is    *)
(* settled once, as processed or as failed, and its recipient gets it at   *)
(* most once, and not at all if it failed.  Only an artifact whose         *)
(* handling was cut short may be handled again from the start.             *)
(***************************************************************************)
EXTENDS Naturals

CONSTANTS
  Artifact,
  MayLose     \* whether an artifact can be processed although no copy was written

VARIABLES
  stage,      \* per artifact
  copies,     \* deliveries in the recipient's inbox
  cut         \* artifacts whose handling was cut short

deliveryVars == <<stage, copies, cut>>

Stage == {"unsent", "open", "processed", "failed"}

Init ==
  /\ stage = [a \in Artifact |-> "unsent"]
  /\ copies = [a \in Artifact |-> 0]
  /\ cut = {}

Send(a) ==
  /\ stage[a] = "unsent"
  /\ stage' = [stage EXCEPT ![a] = "open"]
  /\ UNCHANGED <<copies, cut>>

Deliver(a) ==
  /\ stage[a] = "open"
  /\ copies[a] = 0 \/ a \in cut
  /\ copies' = [copies EXCEPT ![a] = @ + 1]
  /\ UNCHANGED <<stage, cut>>

Process(a) ==
  /\ stage[a] = "open"
  /\ copies[a] > 0 \/ MayLose
  /\ stage' = [stage EXCEPT ![a] = "processed"]
  /\ UNCHANGED <<copies, cut>>

Fail(a) ==
  /\ stage[a] = "open"
  /\ copies[a] = 0 \/ a \in cut
  /\ stage' = [stage EXCEPT ![a] = "failed"]
  /\ UNCHANGED <<copies, cut>>

CutShort(a) ==
  /\ stage[a] = "open"
  /\ cut' = cut \cup {a}
  /\ UNCHANGED <<stage, copies>>

Next ==
  \E a \in Artifact : Send(a) \/ Deliver(a) \/ Process(a) \/ Fail(a) \/ CutShort(a)

Spec == Init /\ [][Next]_deliveryVars
=============================================================================
