---------------------------- MODULE MessageBroker ----------------------------
(***************************************************************************)
(* `cmux-agent watch`: the artifact watcher and the message broker behind  *)
(* the pid lock of WatcherLock.                                            *)
(*                                                                         *)
(* Agents put artifacts into `.agent/outbox`, some in place (the file      *)
(* exists before its content does), some by renaming.  A watcher lists the *)
(* outbox once, handles what it lists, and only then starts an observer    *)
(* that reports files created from then on.  Handling one artifact is a    *)
(* sequence of effects on the messages table, the recipient's inbox and    *)
(* the artifact itself, and the watcher may end between any two of them.   *)
(*                                                                         *)
(* The model ends with the run: `stop` deletes the whole directory.  What  *)
(* the broker types into terminals and the results it hands to `awf wf     *)
(* apply-result` follow the delivery and leave this state alone.           *)
(***************************************************************************)
EXTENDS WatcherLock

CONSTANTS
  Artifact, NoArtifact,
  Agent,
  Attached,      \* agents without a terminal surface of their own
  Kind,          \* what reading an artifact gives
  Sender,
  Target         \* the recipient, or the worker to spawn

\* "message": dispatch or result.  "control": a spawn_agent request.  "invalid":
\* no JSON, or a field missing.  "nonobject": JSON that is no object, or no UTF-8.
ArtifactKind == {"message", "control", "invalid", "nonobject"}

ASSUME BrokerAssumption ==
  /\ NoArtifact \notin Artifact
  /\ Attached \subseteq Agent
  /\ Kind \in [Artifact -> ArtifactKind]
  /\ Sender \in [Artifact -> Agent] /\ Target \in [Artifact -> Agent]

VARIABLES
  place,      \* where each artifact is
  agents,     \* the agents table of the run
  closed,     \* agents whose terminal surface is gone
  mode,       \* per watcher: listing the outbox, observing it, ...
  todo,       \* per watcher: artifacts listed or reported and not yet handled
  handling,   \* per watcher: the artifact at hand and the next effect
  rows,       \* messages: one row per artifact and watcher that routed it
  inbox,      \* per artifact: the watchers that delivered a copy
  cut         \* history: artifacts delivered or routed, yet left in the outbox

brokerVars == <<place, agents, closed, mode, todo, handling, rows, inbox, cut>>
vars == <<lockVars, brokerVars>>

InOutbox == {"partial", "outbox"}
Settled == {"processed", "failed"}

Idle == [artifact |-> NoArtifact, step |-> "idle"]

Step == {"reject", "spawn", "save", "deliver", "delivered", "lost", "move"}

TypeOK ==
  /\ LockTypeOK
  /\ place \in [Artifact -> {"unsent"} \cup InOutbox \cup Settled]
  /\ agents \subseteq Agent /\ closed \subseteq Agent
  /\ mode \in [Watcher -> {"start", "list", "observe", "deaf"}]
  /\ todo \in [Watcher -> SUBSET Artifact]
  /\ handling \in [Watcher -> {Idle} \cup [artifact : Artifact, step : Step]]
  /\ rows \in [Artifact -> [Watcher -> {"none", "PENDING", "DELIVERED", "FAILED"}]]
  /\ inbox \in [Artifact -> SUBSET Watcher]
  /\ cut \subseteq Artifact

Init ==
  /\ LockInit
  /\ place = [a \in Artifact |-> "unsent"]
  /\ agents = {} /\ closed = {}
  /\ mode = [w \in Watcher |-> "start"]
  /\ todo = [w \in Watcher |-> {}]
  /\ handling = [w \in Watcher |-> Idle]
  /\ rows = [a \in Artifact |-> [w \in Watcher |-> "none"]]
  /\ inbox = [a \in Artifact |-> {}]
  /\ cut = {}

-----------------------------------------------------------------------------
(* Agents and operators.                                                   *)

\* A file appears in the outbox: observers report it, an earlier listing does not.
Appear(a, as) ==
  /\ place[a] = "unsent"
  /\ place' = [place EXCEPT ![a] = as]
  /\ todo' = [w \in Watcher |-> IF mode[w] = "observe" THEN todo[w] \cup {a} ELSE todo[w]]
  /\ UNCHANGED <<lockVars, agents, closed, mode, handling, rows, inbox, cut>>

\* cmd_send, and any agent that writes its file where it belongs.
SendInPlace(a) == Appear(a, "partial")

SendByRename(a) == Appear(a, "outbox")

FinishWrite(a) ==
  /\ place[a] = "partial"
  /\ place' = [place EXCEPT ![a] = "outbox"]
  /\ UNCHANGED <<lockVars, agents, closed, mode, todo, handling, rows, inbox, cut>>

\* cmd_start saves the run first, and then registers its agents one by one.
BeginRun ==
  /\ ~runActive
  /\ StartRun
  /\ agents' = {} /\ closed' = {}
  /\ UNCHANGED <<place, mode, todo, handling, rows, inbox, cut>>

\* cmd_start, and cmd_register for an agent that joins later.
Register(g) ==
  /\ runActive
  /\ g \notin agents
  /\ agents' = agents \cup {g}
  /\ UNCHANGED <<lockVars, place, closed, mode, todo, handling, rows, inbox, cut>>

CloseSurface(g) ==
  /\ g \in agents \ Attached
  /\ closed' = closed \cup {g}
  /\ UNCHANGED <<lockVars, place, agents, mode, todo, handling, rows, inbox, cut>>

RecoverRun == Recover /\ UNCHANGED brokerVars

-----------------------------------------------------------------------------
(* The life of a watcher.                                                  *)

Working(w) == watcher[w] = "running"

CheckLock(w) == Check(w) /\ UNCHANGED brokerVars
TakeLock(w) == Take(w) /\ UNCHANGED brokerVars
RemoveLock(w) == Unlink(w) /\ UNCHANGED brokerVars

\* What w has delivered and not yet moved stays in the outbox.
LeftBehind(w) == {a \in Artifact : handling[w].artifact = a /\ w \in inbox[a]}

CutShort(w) ==
  /\ cut' = cut \cup LeftBehind(w)
  /\ handling' = [handling EXCEPT ![w] = Idle]
  /\ todo' = [todo EXCEPT ![w] = {}]
  /\ mode' = [mode EXCEPT ![w] = "start"]
  /\ UNCHANGED <<place, agents, closed, rows, inbox>>

\* Ctrl+C: the observer thread is given five seconds, less than an injection takes.
Interrupt(w) == Release(w) /\ CutShort(w)

Crash(w) == Die(w) /\ CutShort(w)

\* No active run: cmd_watch exits, releasing the lock.
NoRun(w) ==
  /\ mode[w] = "start" /\ ~runActive
  /\ Release(w)
  /\ UNCHANGED brokerVars

\* _process_existing lists the outbox.
List(w) ==
  /\ Working(w) /\ mode[w] = "start" /\ runActive
  /\ mode' = [mode EXCEPT ![w] = "list"]
  /\ todo' = [todo EXCEPT ![w] = {a \in Artifact : place[a] \in InOutbox}]
  /\ UNCHANGED <<lockVars, place, agents, closed, handling, rows, inbox, cut>>

Observe(w) ==
  /\ Working(w) /\ mode[w] = "list"
  /\ todo[w] = {} /\ handling[w] = Idle
  /\ mode' = [mode EXCEPT ![w] = "observe"]
  /\ UNCHANGED <<lockVars, place, agents, closed, todo, handling, rows, inbox, cut>>

\* An exception nobody catches: it leaves start() and cmd_watch while listing, and
\* ends the observer's thread, not the process, while observing.
Raise(w) ==
  \/ mode[w] = "list" /\ Interrupt(w)
  \/ /\ mode[w] = "observe"
     /\ mode' = [mode EXCEPT ![w] = "deaf"]
     /\ handling' = [handling EXCEPT ![w] = Idle]
     /\ UNCHANGED <<lockVars, place, agents, closed, todo, rows, inbox, cut>>

-----------------------------------------------------------------------------
(* Handling one artifact.                                                  *)

At(w, step) == Working(w) /\ handling[w].step = step

Continue(w, step) == handling' = [handling EXCEPT ![w].step = step]

\* What _try_process and handle_artifact do with an artifact they could read.
FirstStep(a) ==
  IF place[a] = "partial" \/ Kind[a] = "invalid" \/ Sender[a] \notin agents THEN "reject"
  ELSE IF Kind[a] = "control" THEN "spawn"
  ELSE IF Target[a] \in agents \ closed THEN "save"
  ELSE "reject"

NoObject(a) == place[a] = "outbox" /\ Kind[a] = "nonobject"

\* A file that is gone is skipped, a half-written one is no JSON.
Pick(w, a) ==
  /\ Working(w) /\ mode[w] \in {"list", "observe"} /\ handling[w] = Idle
  /\ a \in todo[w]
  /\ ~NoObject(a)
  /\ todo' = [todo EXCEPT ![w] = @ \ {a}]
  /\ handling' = [handling EXCEPT ![w] =
       IF place[a] \in Settled THEN Idle ELSE [artifact |-> a, step |-> FirstStep(a)]]
  /\ UNCHANGED <<lockVars, place, agents, closed, mode, rows, inbox, cut>>

\* validate_artifact asks for the keys of what is no object.
PickNonObject(w, a) ==
  /\ Working(w) /\ mode[w] \in {"list", "observe"} /\ handling[w] = Idle
  /\ a \in todo[w]
  /\ NoObject(a)
  /\ Raise(w)

\* move_to_failed.  Unlike that of move_to_processed, its failure is not caught.
Reject(w) ==
  /\ At(w, "reject")
  /\ LET a == handling[w].artifact
     IN  \/ /\ place[a] \in InOutbox
            /\ place' = [place EXCEPT ![a] = "failed"]
            /\ handling' = [handling EXCEPT ![w] = Idle]
            /\ UNCHANGED <<lockVars, agents, closed, mode, todo, rows, inbox, cut>>
         \/ /\ place[a] \in Settled \/ "disk" \in Faults
            /\ Raise(w)

\* spawn_worker: a name that is taken, or a terminal that does not open, rejects.
Spawn(w) ==
  /\ At(w, "spawn")
  /\ LET g == Target[handling[w].artifact]
     IN  \/ Continue(w, "reject") /\ UNCHANGED agents
         \/ /\ g \notin agents
            /\ agents' = agents \cup {g}
            /\ Continue(w, "save")
  /\ UNCHANGED <<lockVars, place, closed, mode, todo, rows, inbox, cut>>

Record(w, status) == rows' = [rows EXCEPT ![handling[w].artifact][w] = status]

SaveMessage(w) ==
  /\ At(w, "save")
  /\ Record(w, "PENDING")
  /\ Continue(w, "deliver")
  /\ UNCHANGED <<lockVars, place, agents, closed, mode, todo, inbox, cut>>

\* Mutant: a failed write is reported like a successful one.
DeliverBlindly(w) ==
  /\ At(w, "deliver")
  /\ \/ inbox' = [inbox EXCEPT ![handling[w].artifact] = @ \cup {w}]
     \/ "disk" \in Faults /\ UNCHANGED inbox
  /\ Continue(w, "delivered")
  /\ UNCHANGED <<lockVars, place, agents, closed, mode, todo, rows, cut>>

\* write_to_inbox, up to MAX_RETRIES times.
Deliver(w) ==
  /\ At(w, "deliver")
  /\ \/ /\ inbox' = [inbox EXCEPT ![handling[w].artifact] = @ \cup {w}]
        /\ Continue(w, "delivered")
     \/ /\ "disk" \in Faults
        /\ UNCHANGED inbox
        /\ Continue(w, "lost")
  /\ UNCHANGED <<lockVars, place, agents, closed, mode, todo, rows, cut>>

SaveOutcome(w) ==
  /\ \/ At(w, "delivered") /\ Record(w, "DELIVERED")
     \/ At(w, "lost") /\ Record(w, "FAILED")
  /\ Continue(w, "move")
  /\ UNCHANGED <<lockVars, place, agents, closed, mode, todo, inbox, cut>>

\* Mutant: the artifact is not moved at all.
KeepInOutbox(w) ==
  /\ At(w, "move")
  /\ handling' = [handling EXCEPT ![w] = Idle]
  /\ UNCHANGED <<lockVars, place, agents, closed, mode, todo, rows, inbox, cut>>

\* move_to_processed.  A move that fails is logged, and the artifact stays.
Move(w) ==
  /\ At(w, "move")
  /\ LET a == handling[w].artifact
     IN  \/ /\ place' = [place EXCEPT ![a] = IF @ \in InOutbox THEN "processed" ELSE @]
            /\ UNCHANGED cut
         \/ /\ "disk" \in Faults /\ place[a] \in InOutbox
            /\ cut' = cut \cup {a}
            /\ UNCHANGED place
  /\ handling' = [handling EXCEPT ![w] = Idle]
  /\ UNCHANGED <<lockVars, agents, closed, mode, todo, rows, inbox>>

-----------------------------------------------------------------------------

\* The steps a started watcher takes by itself.
Work(w) ==
  \/ TakeLock(w) \/ RemoveLock(w) \/ NoRun(w) \/ List(w) \/ Observe(w)
  \/ \E a \in Artifact : Pick(w, a) \/ PickNonObject(w, a)
  \/ Reject(w) \/ Spawn(w) \/ SaveMessage(w) \/ Deliver(w) \/ SaveOutcome(w) \/ Move(w)

Next ==
  \/ \E a \in Artifact : SendInPlace(a) \/ SendByRename(a) \/ FinishWrite(a)
  \/ \E g \in Agent : Register(g) \/ CloseSurface(g)
  \/ BeginRun \/ RecoverRun
  \/ \E w \in Watcher : CheckLock(w) \/ Interrupt(w) \/ Crash(w) \/ Work(w)

Spec == Init /\ [][Next]_vars

-----------------------------------------------------------------------------
(* Correctness.                                                            *)

\* The messages table tells the truth about the inboxes, and an artifact is
\* archived as processed only when the outcome of a routing is recorded.
RecordsAgree ==
  \A a \in Artifact :
    /\ \A w \in Watcher :
         /\ rows[a][w] = "DELIVERED" => w \in inbox[a]
         /\ rows[a][w] = "FAILED" => w \notin inbox[a]
         /\ w \in inbox[a] => rows[a][w] \in {"PENDING", "DELIVERED"}
    /\ place[a] = "processed" =>
         \E w \in Watcher : rows[a][w] \in {"DELIVERED", "FAILED"}

\* The broker keeps the promise of Delivery: one settlement, at most one copy
\* unless a watcher ended between the delivery and the move, none for a failure.
D == INSTANCE Delivery WITH
       stage <- [a \in Artifact |-> IF place[a] \in InOutbox THEN "open" ELSE place[a]],
       copies <- [a \in Artifact |-> Cardinality(inbox[a])],
       MayLose <- "disk" \in Faults

DeliveryKept == D!Spec

\* Operators are careful with the lock: no start has raced with another one, and
\* nobody has removed the lock of a living watcher.  Two watchers that run side by
\* side both deliver what they are told of.
Careful == exposed = {}
=============================================================================
