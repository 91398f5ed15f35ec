------------------------- MODULE MessageBrokerProofs -------------------------
(***************************************************************************)
(* The pid lock keeps out every start that races with none, while nobody   *)
(* removes it under its owner.  As long as operators are careful with it,  *)
(* the broker implements Delivery, for any artifacts, agents and watchers; *)
(* crashes, interrupts and disk faults may happen at any step.  The        *)
(* messages table agrees with the inboxes whatever operators do.  The last *)
(* section is of the runs that cmux-agent starts, beside the broker        *)
(* (AgentRun).                                                             *)
(***************************************************************************)
EXTENDS MessageBroker, AgentRun, FiniteSetTheorems, TLAPS

-----------------------------------------------------------------------------
(* The pid lock. *)

Owner(w) == watcher[w] \in {"running", "unlinking"}

\* A watcher that runs or is about to remove its lock owns the file, unless it is
\* exposed; so is one that runs while another is between its check and its write, and
\* so are two of those.
LockInv ==
  /\ LockTypeOK
  /\ \A w \in Watcher \ exposed : Owner(w) => lockFile = w
  /\ \A v, w \in Watcher : watcher[v] = "taking" /\ Owner(w) => w \in exposed
  /\ \A v, w \in Watcher : watcher[v] = "taking" /\ watcher[w] = "taking" => v = w \/ w \in exposed

\* Two watchers that run and are not exposed both own the one lock file.
LEMMA LockInvSingle == LockInv => Singleton
  BY DEF LockInv, Singleton, Owner

\* Nobody has started, nobody owns the lock.
LEMMA LockInvInit == LockInit => LockInv
  BY DEF LockInit, LockInv, LockTypeOK, Owner, WatcherState

\* No step of the lock protocol breaks it, whatever operators do.
LEMMA LockInvStep ==
  ASSUME LockInv, [LockNext]_lockVars
  PROVE  LockInv'
<1> USE LockAssumption DEF LockInv, LockTypeOK, Owner, WatcherState, Become
<1>1. ASSUME NEW w \in Watcher, Check(w)
      PROVE  LockInv'
  <2>1. CASE lockFile \in Watcher /\ Live(lockFile)
    BY <1>1, <2>1 DEF Check
  <2>2. CASE ~(lockFile \in Watcher /\ Live(lockFile))
    <3>1. \A v \in Watcher : Owner(v) => v \in exposed
      BY <2>2 DEF Live
    <3>2. /\ exposed' = IF Taking = {} THEN exposed ELSE exposed \cup Taking \cup {w}
          /\ watcher' = [watcher EXCEPT ![w] = "taking"] /\ lockFile' = lockFile
          /\ runActive' = runActive /\ watcher[w] = "new"
      BY <1>1, <2>2 DEF Check, Race
    <3>3. /\ exposed' \subseteq Watcher /\ exposed \subseteq exposed'
          /\ \A v \in Watcher \ {w} : watcher[v] = "taking" => v \in exposed' /\ w \in exposed'
      BY <3>2 DEF Taking
    <3>4. QED BY <3>1, <3>2, <3>3
  <2>3. QED BY <2>1, <2>2
<1>2. ASSUME NEW w \in Watcher, Take(w)
      PROVE  LockInv'
  BY <1>2 DEF Take
<1>3. ASSUME NEW w \in Watcher, Release(w)
      PROVE  LockInv'
  BY <1>3 DEF Release
<1>4. ASSUME NEW w \in Watcher, Unlink(w)
      PROVE  LockInv'
  BY <1>4 DEF Unlink
<1>5. ASSUME NEW w \in Watcher, Die(w)
      PROVE  LockInv'
  BY <1>5 DEF Die
<1>6. ASSUME StartRun
      PROVE  LockInv'
  BY <1>6 DEF StartRun
<1>7. ASSUME Recover \/ Stop
      PROVE  LockInv'
  <2>1. \A w \in Watcher : Owner(w) \/ watcher[w] = "taking" => w \in exposed'
    BY <1>7 DEF Recover, Stop, RemoveAnyLock, Live
  <2>2. QED BY <1>7, <2>1 DEF Recover, Stop, RemoveAnyLock
<1>8. CASE UNCHANGED lockVars
  BY <1>8 DEF lockVars
<1>9. QED BY <1>1, <1>2, <1>3, <1>4, <1>5, <1>6, <1>7, <1>8 DEF LockNext

\* For any number of starts, that overlap or not, of stops and recoveries under living
\* watchers, and of deaths: two watchers run side by side only if one of them is exposed
\* (pid_lock.py:53-75, 95).
THEOREM LockExcludes == LockSpec => []Singleton
<1>1. LockInv /\ [LockNext]_lockVars => LockInv'
  BY LockInvStep
<1>2. QED BY <1>1, LockInvInit, LockInvSingle, PTL DEF LockSpec

-----------------------------------------------------------------------------
(* The broker's invariant.                                                 *)

\* Only a running watcher handles an artifact, and nobody else settles it.
HandledIsOpen ==
  \A w \in Watcher :
    handling[w] # Idle =>
      Working(w) /\ mode[w] # "start" /\ place[handling[w].artifact] \in InOutbox

\* A copy in an inbox belongs to a settled artifact, to one left behind, or to
\* the one its watcher is about to move.
CopiesAccounted ==
  \A a \in Artifact : \A v \in inbox[a] :
    \/ place[a] \in Settled
    \/ a \in cut
    \/ handling[v].artifact = a /\ handling[v].step \in {"delivered", "move"}

\* What the steps of a routing have behind them.
StepFacts ==
  \A w \in Watcher :
    /\ handling[w].step = "delivered" => w \in inbox[handling[w].artifact]
    /\ handling[w].step = "lost" => "disk" \in Faults
    /\ handling[w].step = "move" => w \in inbox[handling[w].artifact] \/ "disk" \in Faults

\* A watcher has listed, or been told of, files that exist.
ListedIsSent == \A w \in Watcher : \A a \in todo[w] : place[a] # "unsent"

InboxesFinite == \A a \in Artifact : IsFiniteSet(inbox[a])

BrokerInv ==
  /\ LockInv /\ Careful /\ TypeOK
  /\ HandledIsOpen /\ CopiesAccounted /\ StepFacts
  /\ ListedIsSent /\ InboxesFinite

\* Every broker step is a step of the lock or leaves it alone.
LEMMA BrokerStepIsLockStep ==
  ASSUME [Next]_vars
  PROVE  [LockNext]_lockVars
<1> USE DEF LockNext, lockVars
<1>1. CASE UNCHANGED vars
  BY <1>1 DEF vars
<1>2. ASSUME NEW a \in Artifact, SendInPlace(a) \/ SendByRename(a) \/ FinishWrite(a)
      PROVE  [LockNext]_lockVars
  BY <1>2 DEF SendInPlace, SendByRename, FinishWrite, Appear
<1>3. ASSUME NEW g \in Agent, Register(g) \/ CloseSurface(g)
      PROVE  [LockNext]_lockVars
  BY <1>3 DEF Register, CloseSurface
<1>4. ASSUME BeginRun \/ RecoverRun
      PROVE  [LockNext]_lockVars
  BY <1>4 DEF BeginRun, RecoverRun
<1>5. ASSUME NEW w \in Watcher, CheckLock(w) \/ Interrupt(w) \/ Crash(w)
      PROVE  [LockNext]_lockVars
  BY <1>5 DEF CheckLock, Interrupt, Crash
<1>6. ASSUME NEW w \in Watcher, Work(w)
      PROVE  [LockNext]_lockVars
  <2>1. CASE TakeLock(w) \/ RemoveLock(w) \/ NoRun(w)
    BY <2>1 DEF TakeLock, RemoveLock, NoRun
  <2>2. CASE List(w) \/ Observe(w) \/ \E a \in Artifact : Pick(w, a)
    BY <2>2 DEF List, Observe, Pick
  <2>3. CASE (\E a \in Artifact : PickNonObject(w, a)) \/ Reject(w)
    BY <2>3 DEF PickNonObject, Reject, Raise, Interrupt
  <2>4. CASE Spawn(w) \/ SaveMessage(w) \/ Deliver(w) \/ SaveOutcome(w) \/ Move(w)
    BY <2>4 DEF Spawn, SaveMessage, Deliver, SaveOutcome, Move
  <2>5. QED BY <1>6, <2>1, <2>2, <2>3, <2>4 DEF Work
<1>7. QED BY <1>1, <1>2, <1>3, <1>4, <1>5, <1>6 DEF Next

\* A brand-new run has nothing in flight.
LEMMA BrokerInvInit == Init => BrokerInv
<1> SUFFICES ASSUME Init PROVE BrokerInv
  OBVIOUS
<1>1. LockInv /\ Careful
  BY LockInvInit DEF Init, LockInit, Careful
<1>2. TypeOK
  BY <1>1, BrokerAssumption DEF Init, TypeOK, LockInv
<1>3. HandledIsOpen /\ CopiesAccounted /\ StepFacts
  BY DEF Init, HandledIsOpen, CopiesAccounted, StepFacts, Idle
<1>4. ListedIsSent /\ InboxesFinite
  BY FS_EmptySet DEF Init, ListedIsSent, InboxesFinite
<1>5. QED BY <1>1, <1>2, <1>3, <1>4 DEF BrokerInv

\* An end that cuts the watcher's handling short keeps the rest of the invariant.
LEMMA CutKeepsInv ==
  ASSUME BrokerInv, NEW w \in Watcher, CutShort(w), LockInv', Careful',
         \A v \in Watcher \ {w} : watcher'[v] = watcher[v]
  PROVE  BrokerInv'
<1> USE DEF BrokerInv, CutShort
<1>1. TypeOK'
  <2>1. LockTypeOK'
    BY DEF LockInv
  <2>2. cut' \subseteq Artifact
    BY DEF TypeOK, LeftBehind
  <2>3. QED BY <2>1, <2>2 DEF TypeOK
<1>2. HandledIsOpen'
  BY DEF HandledIsOpen, Working, TypeOK
<1>3. CopiesAccounted'
  <2> SUFFICES ASSUME NEW a \in Artifact, NEW v \in inbox[a],
                      place[a] \notin Settled, a \notin cut'
               PROVE  handling'[v].artifact = a /\ handling'[v].step \in {"delivered", "move"}
    BY DEF CopiesAccounted
  <2>1. handling[v].artifact = a /\ handling[v].step \in {"delivered", "move"}
    BY DEF CopiesAccounted
  <2>2. v # w
    BY <2>1 DEF LeftBehind
  <2>3. v \in Watcher
    BY DEF TypeOK
  <2>4. QED BY <2>1, <2>2, <2>3 DEF TypeOK
<1>4. StepFacts'
  BY DEF StepFacts, TypeOK, Idle
<1>5. ListedIsSent' /\ InboxesFinite'
  BY DEF ListedIsSent, InboxesFinite, TypeOK
<1>6. QED BY <1>1, <1>2, <1>3, <1>4, <1>5

\* While w handles a, no other watcher handles anything, and a copy of a that w
\* has not just delivered itself was left behind.
LEMMA Alone ==
  ASSUME BrokerInv, NEW w \in Watcher, handling[w] # Idle
  PROVE  /\ Working(w)
         /\ handling[w].artifact \in Artifact
         /\ place[handling[w].artifact] \in InOutbox
         /\ \A v \in Watcher \ {w} : handling[v] = Idle
         /\ handling[w].step \notin {"delivered", "move"}
              => inbox[handling[w].artifact] = {} \/ handling[w].artifact \in cut
<1> USE DEF BrokerInv
<1>1. Working(w) /\ place[handling[w].artifact] \in InOutbox
  BY DEF HandledIsOpen
<1>2. handling[w].artifact \in Artifact
  BY DEF TypeOK
<1>3. \A v \in Watcher \ {w} : handling[v] = Idle
  BY <1>1, LockInvSingle DEF HandledIsOpen, Working, Singleton, Careful
<1>4. ASSUME handling[w].step \notin {"delivered", "move"},
             handling[w].artifact \notin cut
      PROVE  inbox[handling[w].artifact] = {}
  <2> SUFFICES ASSUME NEW v \in inbox[handling[w].artifact] PROVE FALSE
    OBVIOUS
  <2>1. place[handling[w].artifact] \notin Settled
    BY <1>1 DEF InOutbox, Settled
  <2>2. handling[v].artifact = handling[w].artifact /\ handling[v].step \in {"delivered", "move"}
    BY <1>2, <1>4, <2>1 DEF CopiesAccounted
  <2>3. v \in Watcher
    BY <1>2 DEF TypeOK
  <2>4. QED BY <1>2, <1>3, <1>4, <2>2, <2>3, BrokerAssumption DEF Idle
<1>5. QED BY <1>1, <1>2, <1>3, <1>4

\* Steps outside the handling of an artifact.
LEMMA OtherStepsKeepInv ==
  ASSUME BrokerInv, LockInv', Careful',
         \/ \E a \in Artifact : SendInPlace(a) \/ SendByRename(a) \/ FinishWrite(a)
         \/ \E g \in Agent : Register(g) \/ CloseSurface(g)
         \/ BeginRun \/ RecoverRun
         \/ \E w \in Watcher : \/ CheckLock(w) \/ TakeLock(w) \/ RemoveLock(w)
                               \/ NoRun(w) \/ List(w) \/ Observe(w)
  PROVE  BrokerInv'
<1> USE DEF BrokerInv
<1>0. LockTypeOK'
  BY DEF LockInv
<1>1. ASSUME NEW a \in Artifact, Appear(a, "partial") \/ Appear(a, "outbox") \/ FinishWrite(a)
      PROVE  BrokerInv'
  <2>1. TypeOK'
    <3>1. todo' \in [Watcher -> SUBSET Artifact]
      BY <1>1 DEF TypeOK, Appear, FinishWrite
    <3>2. place' \in [Artifact -> {"unsent"} \cup InOutbox \cup Settled]
      BY <1>1 DEF TypeOK, Appear, FinishWrite, InOutbox
    <3>3. QED BY <1>0, <1>1, <3>1, <3>2 DEF TypeOK, Appear, FinishWrite
  <2>2. HandledIsOpen'
    BY <1>1 DEF HandledIsOpen, Working, TypeOK, Appear, FinishWrite, InOutbox, lockVars
  <2>3. CopiesAccounted'
    BY <1>1 DEF CopiesAccounted, TypeOK, Appear, FinishWrite, InOutbox, Settled
  <2>4. StepFacts' /\ ListedIsSent' /\ InboxesFinite'
    BY <1>1 DEF StepFacts, ListedIsSent, InboxesFinite, TypeOK, Appear, FinishWrite
  <2>5. QED BY <2>1, <2>2, <2>3, <2>4
<1>2. ASSUME \/ \E g \in Agent : Register(g) \/ CloseSurface(g)
             \/ BeginRun \/ RecoverRun
      PROVE  BrokerInv'
  <2> USE DEF Register, CloseSurface, BeginRun, RecoverRun, StartRun, Recover, brokerVars, lockVars
  <2>1. TypeOK'
    BY <1>0, <1>2, BrokerAssumption DEF TypeOK
  <2>2. HandledIsOpen' /\ CopiesAccounted' /\ StepFacts' /\ ListedIsSent' /\ InboxesFinite'
    BY <1>2 DEF HandledIsOpen, Working, CopiesAccounted, StepFacts, ListedIsSent, InboxesFinite
  <2>3. QED BY <2>1, <2>2
<1>3. ASSUME NEW w \in Watcher, CheckLock(w) \/ TakeLock(w) \/ RemoveLock(w) \/ NoRun(w)
      PROVE  BrokerInv'
  <2> USE DEF CheckLock, TakeLock, RemoveLock, NoRun, brokerVars
  <2>1. TypeOK' /\ CopiesAccounted' /\ StepFacts' /\ ListedIsSent' /\ InboxesFinite'
    BY <1>0, <1>3 DEF TypeOK, CopiesAccounted, StepFacts, ListedIsSent, InboxesFinite
  <2>2. handling[w] = Idle
    BY <1>3 DEF HandledIsOpen, Working, Check, Take, Unlink
  <2>3. \A v \in Watcher \ {w} : watcher'[v] = watcher[v]
    BY <1>3 DEF TypeOK, LockTypeOK, Check, Take, Unlink, Release, Become
  <2>4. HandledIsOpen'
    BY <1>3, <2>2, <2>3 DEF HandledIsOpen, Working
  <2>5. QED BY <2>1, <2>4
<1>4. ASSUME NEW w \in Watcher, List(w) \/ Observe(w)
      PROVE  BrokerInv'
  <2> USE DEF List, Observe, lockVars
  <2>1. TypeOK'
    <3>1. todo' \in [Watcher -> SUBSET Artifact]
      BY <1>4 DEF TypeOK
    <3>2. mode' \in [Watcher -> {"start", "list", "observe", "deaf"}]
      BY <1>4 DEF TypeOK
    <3>3. UNCHANGED <<place, agents, closed, handling, rows, inbox, cut>>
      BY <1>4
    <3>4. QED BY <1>0, <3>1, <3>2, <3>3 DEF TypeOK
  <2>2. HandledIsOpen' /\ CopiesAccounted' /\ StepFacts' /\ InboxesFinite'
    BY <1>4 DEF HandledIsOpen, Working, CopiesAccounted, StepFacts, InboxesFinite, TypeOK
  <2>3. ListedIsSent'
    BY <1>4 DEF ListedIsSent, TypeOK, InOutbox
  <2>4. QED BY <2>1, <2>2, <2>3
<1>5. QED BY <1>1, <1>2, <1>3, <1>4 DEF SendInPlace, SendByRename

\* Taking up an artifact: it is in the outbox, or is skipped.
LEMMA PickKeepsInv ==
  ASSUME BrokerInv, LockInv', Careful', NEW w \in Watcher, NEW a \in Artifact, Pick(w, a)
  PROVE  BrokerInv'
<1> USE DEF BrokerInv, Pick
<1>1. FirstStep(a) \in {"reject", "spawn", "save"}
  BY DEF FirstStep
<1>2. TypeOK'
  BY <1>1 DEF TypeOK, LockInv, Step
<1>3. place[a] \notin Settled => place[a] \in InOutbox
  <2>1. a \in todo[w] /\ place[a] \in {"unsent"} \cup InOutbox \cup Settled
    BY DEF TypeOK
  <2>2. place[a] # "unsent"
    BY <2>1 DEF ListedIsSent
  <2>3. QED BY <2>1, <2>2
<1>4. HandledIsOpen'
  BY <1>3 DEF HandledIsOpen, Working, TypeOK, lockVars
<1>5. CopiesAccounted'
  <2> SUFFICES ASSUME NEW b \in Artifact, NEW v \in inbox[b],
                      place[b] \notin Settled, b \notin cut
               PROVE  handling'[v].artifact = b /\ handling'[v].step \in {"delivered", "move"}
    BY DEF CopiesAccounted
  <2>1. handling[v].artifact = b /\ handling[v].step \in {"delivered", "move"}
    BY DEF CopiesAccounted
  <2>2. v # w /\ v \in Watcher
    BY <2>1 DEF Idle, TypeOK
  <2>3. QED BY <2>1, <2>2 DEF TypeOK
<1>6. StepFacts' /\ ListedIsSent' /\ InboxesFinite'
  BY <1>1 DEF StepFacts, ListedIsSent, InboxesFinite, TypeOK, Idle
<1>7. QED BY <1>2, <1>4, <1>5, <1>6

\* The steps of handling an artifact, whose watcher handles alone.
LEMMA HandlingKeepsInv ==
  ASSUME BrokerInv, LockInv', Careful', NEW w \in Watcher,
         Spawn(w) \/ SaveMessage(w) \/ Deliver(w) \/ SaveOutcome(w)
  PROVE  BrokerInv'
<1> USE DEF BrokerInv, At, Continue, Record, lockVars
<1> DEFINE a == handling[w].artifact
<1>1. handling[w] # Idle
  BY DEF Spawn, SaveMessage, Deliver, SaveOutcome, Idle
<1>2. /\ a \in Artifact
      /\ handling[w] \in [artifact : Artifact, step : Step]
      /\ \A v \in Watcher \ {w} : handling[v] = Idle
  BY <1>1, Alone DEF TypeOK
<1>3. \E s \in Step : handling' = [handling EXCEPT ![w].step = s]
  BY DEF Spawn, SaveMessage, Deliver, SaveOutcome, Step
<1>4. handling'[w].artifact = a /\ \A v \in Watcher \ {w} : handling'[v] = handling[v]
  BY <1>3 DEF TypeOK
<1>5. TypeOK'
  <2>1. handling' \in [Watcher -> {Idle} \cup [artifact : Artifact, step : Step]]
    BY <1>2, <1>3 DEF TypeOK
  <2>2. rows' \in [Artifact -> [Watcher -> {"none", "PENDING", "DELIVERED", "FAILED"}]]
    <3>1. \/ UNCHANGED rows
          \/ \E st \in {"PENDING", "DELIVERED", "FAILED"} : rows' = [rows EXCEPT ![a][w] = st]
      BY DEF Spawn, SaveMessage, Deliver, SaveOutcome
    <3>2. ASSUME NEW st \in {"PENDING", "DELIVERED", "FAILED"},
                 rows' = [rows EXCEPT ![a][w] = st]
          PROVE  rows' \in [Artifact -> [Watcher -> {"none", "PENDING", "DELIVERED", "FAILED"}]]
      <4>1. rows[a] \in [Watcher -> {"none", "PENDING", "DELIVERED", "FAILED"}]
        BY <1>2 DEF TypeOK
      <4>2. [rows[a] EXCEPT ![w] = st] \in [Watcher -> {"none", "PENDING", "DELIVERED", "FAILED"}]
        BY <4>1
      <4>3. QED BY <1>2, <3>2, <4>2 DEF TypeOK
    <3>3. QED BY <3>1, <3>2 DEF TypeOK
  <2>3. inbox' \in [Artifact -> SUBSET Watcher]
    BY <1>2 DEF TypeOK, Spawn, SaveMessage, Deliver, SaveOutcome
  <2>4. agents' \subseteq Agent
    BY <1>2, BrokerAssumption DEF TypeOK, Spawn, SaveMessage, Deliver, SaveOutcome
  <2>5. UNCHANGED <<place, closed, mode, todo, cut>>
    BY DEF Spawn, SaveMessage, Deliver, SaveOutcome
  <2>6. QED BY <2>1, <2>2, <2>3, <2>4, <2>5 DEF TypeOK, LockInv
<1>6. HandledIsOpen'
  BY <1>1, <1>2, <1>4 DEF HandledIsOpen, Working, Spawn, SaveMessage, Deliver, SaveOutcome
<1>7. CopiesAccounted'
  <2>1. CASE UNCHANGED inbox /\ UNCHANGED <<place, cut>>
    <3>1. handling[w].step \in {"delivered", "move"}
            => handling'[w].step \in {"delivered", "move"}
      BY <1>2 DEF Spawn, SaveMessage, Deliver, SaveOutcome, TypeOK
    <3>2. QED BY <1>4, <2>1, <3>1 DEF CopiesAccounted, TypeOK
  <2>2. CASE /\ handling[w].step = "deliver" /\ UNCHANGED <<place, cut>>
             /\ inbox' = [inbox EXCEPT ![a] = @ \cup {w}]
             /\ handling'[w].step = "delivered"
    <3>1. inbox[a] = {} \/ a \in cut
      BY <1>1, <2>2, Alone
    <3>2. \A b \in Artifact : inbox'[b] = IF b = a THEN inbox[a] \cup {w} ELSE inbox[b]
      BY <2>2 DEF TypeOK
    <3>3. \A b \in Artifact : \A v \in inbox[b] :
            place[b] \in Settled \/ b \in cut
      BY <1>2, <2>2, BrokerAssumption DEF CopiesAccounted, TypeOK, Idle
    <3>4. QED BY <1>4, <2>2, <3>2, <3>3 DEF CopiesAccounted
  <2>3. Deliver(w) /\ inbox' # inbox => handling'[w].step = "delivered"
    BY <1>2 DEF Deliver, TypeOK
  <2>4. QED BY <2>1, <2>2, <2>3 DEF Spawn, SaveMessage, Deliver, SaveOutcome
<1>8. StepFacts'
  <2>1. \A v \in Watcher \ {w} : handling'[v].step = "idle"
    BY <1>2, <1>4 DEF Idle
  <2>2. CASE Spawn(w) \/ SaveMessage(w)
    <3>1. handling'[w].step \in {"reject", "save", "deliver"}
      BY <1>2, <2>2 DEF Spawn, SaveMessage, TypeOK
    <3>2. QED BY <2>1, <3>1 DEF StepFacts
  <2>3. CASE Deliver(w)
    <3>1. \/ w \in inbox'[a] /\ handling'[w].step = "delivered"
          \/ "disk" \in Faults /\ handling'[w].step = "lost"
      BY <1>2, <2>3 DEF Deliver, TypeOK
    <3>2. QED BY <1>4, <2>1, <3>1 DEF StepFacts
  <2>4. CASE SaveOutcome(w)
    <3>1. /\ w \in inbox'[a] \/ "disk" \in Faults
          /\ handling'[w].step = "move"
      BY <2>4 DEF SaveOutcome, StepFacts, TypeOK
    <3>2. QED BY <1>4, <2>1, <3>1 DEF StepFacts
  <2>5. QED BY <2>2, <2>3, <2>4
<1>9. ListedIsSent'
  BY DEF ListedIsSent, Spawn, SaveMessage, Deliver, SaveOutcome
<1>10. InboxesFinite'
  <2>1. ASSUME NEW b \in Artifact
        PROVE  inbox'[b] = inbox[b] \/ inbox'[b] = inbox[b] \cup {w}
    BY <2>1 DEF TypeOK, Spawn, SaveMessage, Deliver, SaveOutcome
  <2>2. \A b \in Artifact : IsFiniteSet(inbox[b] \cup {w})
    BY FS_AddElement DEF InboxesFinite
  <2>3. QED BY <2>1, <2>2 DEF InboxesFinite
<1>11. QED BY <1>5, <1>6, <1>7, <1>8, <1>9, <1>10

\* Settling the artifact at hand, or failing to move it.
LEMMA SettlingKeepsInv ==
  ASSUME BrokerInv, LockInv', Careful', NEW w \in Watcher,
         Move(w) \/ (Reject(w) /\ ~Raise(w))
  PROVE  BrokerInv'
<1> USE DEF BrokerInv, At, lockVars
<1> DEFINE a == handling[w].artifact
<1>1. handling[w] # Idle
  BY DEF Move, Reject, Idle
<1>2. a \in Artifact /\ place[a] \in InOutbox /\ place[a] \notin Settled
  BY <1>1, Alone DEF InOutbox, Settled
<1>3. /\ handling' = [handling EXCEPT ![w] = Idle]
      /\ UNCHANGED <<lockVars, agents, closed, mode, todo, rows, inbox>>
      /\ \/ /\ place' = [place EXCEPT ![a] = "processed"]
            /\ UNCHANGED cut
         \/ /\ UNCHANGED place
            /\ cut' = cut \cup {a}
         \/ /\ place' = [place EXCEPT ![a] = "failed"]
            /\ UNCHANGED cut
  BY <1>2 DEF Move, Reject
<1>4. TypeOK'
  BY <1>2, <1>3 DEF TypeOK, LockInv, Settled
<1>5. HandledIsOpen'
  <2>1. \A v \in Watcher : handling'[v] = Idle
    BY <1>1, <1>3, Alone DEF TypeOK
  <2>2. QED BY <2>1 DEF HandledIsOpen
<1>6. CopiesAccounted'
  <2> SUFFICES ASSUME NEW b \in Artifact, NEW v \in inbox[b], b # a,
                      place[b] \notin Settled, b \notin cut
               PROVE  handling'[v].artifact = b /\ handling'[v].step \in {"delivered", "move"}
    BY <1>2, <1>3 DEF CopiesAccounted, TypeOK, Settled
  <2>1. handling[v].artifact = b /\ v \in Watcher
    BY DEF CopiesAccounted, TypeOK
  <2>2. QED BY <1>3, <2>1 DEF CopiesAccounted, TypeOK
<1>7. StepFacts'
  BY <1>3 DEF StepFacts, TypeOK, Idle
<1>8. ListedIsSent'
  BY <1>2, <1>3 DEF ListedIsSent, TypeOK
<1>9. InboxesFinite'
  BY <1>3 DEF InboxesFinite
<1>10. QED BY <1>4, <1>5, <1>6, <1>7, <1>8, <1>9

\* Losing the observer only ends a handling that has delivered nothing.
LEMMA RaiseKeepsInv ==
  ASSUME BrokerInv, LockInv', Careful', NEW w \in Watcher, Raise(w),
         handling[w].step \notin {"delivered", "move"}
  PROVE  BrokerInv'
<1> USE DEF BrokerInv, Raise, lockVars
<1>1. CASE Interrupt(w)
  BY <1>1, CutKeepsInv DEF Interrupt, Release, Become, LockInv, LockTypeOK
<1>2. CASE ~Interrupt(w)
  <2>1. handling' = [handling EXCEPT ![w] = Idle] /\ mode' = [mode EXCEPT ![w] = "deaf"]
    BY <1>2
  <2>2. UNCHANGED <<lockVars, place, agents, closed, todo, rows, inbox, cut>>
    BY <1>2
  <2>3. TypeOK'
    BY <2>1, <2>2 DEF TypeOK, LockInv
  <2>4. HandledIsOpen'
    BY <2>1, <2>2 DEF HandledIsOpen, Working, TypeOK
  <2>5. CopiesAccounted'
    <3> SUFFICES ASSUME NEW a \in Artifact, NEW v \in inbox[a],
                        place[a] \notin Settled, a \notin cut
                 PROVE  handling'[v].artifact = a /\ handling'[v].step \in {"delivered", "move"}
      BY <2>2 DEF CopiesAccounted
    <3>1. handling[v].artifact = a /\ handling[v].step \in {"delivered", "move"}
      BY DEF CopiesAccounted
    <3>2. v # w /\ v \in Watcher
      BY <3>1 DEF TypeOK
    <3>3. QED BY <2>1, <3>1, <3>2 DEF TypeOK
  <2>6. StepFacts' /\ ListedIsSent' /\ InboxesFinite'
    BY <2>1, <2>2 DEF StepFacts, ListedIsSent, InboxesFinite, TypeOK, Idle
  <2>7. QED BY <2>3, <2>4, <2>5, <2>6
<1>3. QED BY <1>1, <1>2

\* A step of the broker, by the lemma of its kind.
LEMMA BrokerInvStep ==
  ASSUME BrokerInv, [Next]_vars, Careful'
  PROVE  BrokerInv'
<1>1. LockInv'
  BY BrokerStepIsLockStep, LockInvStep DEF BrokerInv
<1>2. CASE UNCHANGED vars
  BY <1>2 DEF BrokerInv, Careful, LockInv, LockTypeOK, Owner, TypeOK, HandledIsOpen, Working,
       CopiesAccounted, StepFacts, ListedIsSent, InboxesFinite, vars, brokerVars, lockVars
<1>3. ASSUME NEW w \in Watcher, Interrupt(w) \/ Crash(w)
      PROVE  BrokerInv'
  BY <1>1, <1>3, CutKeepsInv
  DEF Interrupt, Crash, Release, Die, Become, BrokerInv, LockInv, LockTypeOK
<1>4. ASSUME NEW w \in Watcher, NEW a \in Artifact, Pick(w, a) \/ PickNonObject(w, a)
      PROVE  BrokerInv'
  BY <1>1, <1>4, PickKeepsInv, RaiseKeepsInv DEF PickNonObject, Idle
<1>5. ASSUME NEW w \in Watcher,
             \/ Spawn(w) \/ SaveMessage(w) \/ Deliver(w) \/ SaveOutcome(w)
             \/ Move(w) \/ Reject(w)
      PROVE  BrokerInv'
  <2>1. Reject(w) /\ Raise(w) => BrokerInv'
    BY <1>1, RaiseKeepsInv DEF Reject, At
  <2>2. QED BY <1>1, <1>5, <2>1, HandlingKeepsInv, SettlingKeepsInv
<1>6. ASSUME \/ \E a \in Artifact : SendInPlace(a) \/ SendByRename(a) \/ FinishWrite(a)
             \/ \E g \in Agent : Register(g) \/ CloseSurface(g)
             \/ BeginRun \/ RecoverRun
             \/ \E w \in Watcher : \/ CheckLock(w) \/ TakeLock(w) \/ RemoveLock(w)
                                   \/ NoRun(w) \/ List(w) \/ Observe(w)
      PROVE  BrokerInv'
  BY <1>1, <1>6, OtherStepsKeepInv
<1>7. QED BY <1>2, <1>3, <1>4, <1>5, <1>6 DEF Next, Work

\* Every reachable state satisfies the invariant, under careful operators.
LEMMA BrokerInvHolds == Spec /\ []Careful => []BrokerInv
<1>1. BrokerInv /\ [Next]_vars /\ Careful' => BrokerInv'
  BY BrokerInvStep
<1>2. QED BY <1>1, BrokerInvInit, PTL DEF Spec

\* The lock under the broker: a watcher that handles artifacts is alone with all that
\* are not exposed.
THEOREM OneWatcher == Spec => []Singleton
<1>1. Init => LockInv
  BY LockInvInit DEF Init
<1>2. LockInv /\ [Next]_vars => LockInv'
  BY BrokerStepIsLockStep, LockInvStep
<1>3. QED BY <1>1, <1>2, LockInvSingle, PTL DEF Spec

-----------------------------------------------------------------------------
(* The refinement.                                                         *)

\* A finite inbox is empty or counts at least one copy.
LEMMA CopiesCounted ==
  ASSUME BrokerInv, NEW a \in Artifact
  PROVE  /\ Cardinality(inbox[a]) \in Nat
         /\ inbox[a] = {} <=> Cardinality(inbox[a]) = 0
         /\ inbox[a] # {} <=> Cardinality(inbox[a]) > 0
         /\ \A w : w \notin inbox[a]
                    => Cardinality(inbox[a] \cup {w}) = Cardinality(inbox[a]) + 1
<1>1. IsFiniteSet(inbox[a])
  BY DEF BrokerInv, InboxesFinite
<1>2. Cardinality(inbox[a]) \in Nat
  BY <1>1, FS_CardinalityType
<1>3. inbox[a] = {} <=> Cardinality(inbox[a]) = 0
  BY <1>1, FS_EmptySet
<1>4. \A w : w \notin inbox[a]
             => Cardinality(inbox[a] \cup {w}) = Cardinality(inbox[a]) + 1
  BY <1>1, FS_AddElement
<1>5. QED BY <1>2, <1>3, <1>4

\* A step that touches no artifact, inbox nor the history is a stutter.
LEMMA DeliveryStutter ==
  ASSUME UNCHANGED <<place, inbox, cut>>
  PROVE  UNCHANGED D!deliveryVars
BY DEF D!deliveryVars

\* What each artifact is for Delivery, after a step that gives it a new place.
LEMMA StageChange ==
  ASSUME BrokerInv, NEW a \in Artifact, NEW p, place' = [place EXCEPT ![a] = p]
  PROVE  [b \in Artifact |-> IF place[b] \in InOutbox THEN "open" ELSE place[b]]' =
         [[b \in Artifact |-> IF place[b] \in InOutbox THEN "open" ELSE place[b]]
            EXCEPT ![a] = IF p \in InOutbox THEN "open" ELSE p]
BY DEF BrokerInv, TypeOK

\* Sending, and the rest of what agents and operators do.
LEMMA OtherStepsRefine ==
  ASSUME BrokerInv,
         \/ \E a \in Artifact : SendInPlace(a) \/ SendByRename(a) \/ FinishWrite(a)
         \/ \E g \in Agent : Register(g) \/ CloseSurface(g)
         \/ BeginRun \/ RecoverRun
         \/ \E w \in Watcher : \/ CheckLock(w) \/ TakeLock(w) \/ RemoveLock(w)
                               \/ NoRun(w) \/ List(w) \/ Observe(w)
  PROVE  [D!Next]_(D!deliveryVars)
<1>1. ASSUME NEW a \in Artifact, NEW p \in InOutbox, Appear(a, p)
      PROVE  D!Send(a)
  BY <1>1, StageChange DEF D!Send, Appear, InOutbox
<1>2. ASSUME NEW a \in Artifact, FinishWrite(a)
      PROVE  UNCHANGED D!deliveryVars
  <2>1. [b \in Artifact |-> IF place[b] \in InOutbox THEN "open" ELSE place[b]]' =
        [b \in Artifact |-> IF place[b] \in InOutbox THEN "open" ELSE place[b]]
    BY <1>2 DEF FinishWrite, InOutbox, BrokerInv, TypeOK
  <2>2. QED BY <1>2, <2>1 DEF FinishWrite, D!deliveryVars
<1>3. ASSUME \/ \E g \in Agent : Register(g) \/ CloseSurface(g)
             \/ BeginRun \/ RecoverRun
             \/ \E w \in Watcher : \/ CheckLock(w) \/ TakeLock(w) \/ RemoveLock(w)
                                   \/ NoRun(w) \/ List(w) \/ Observe(w)
      PROVE  UNCHANGED D!deliveryVars
  BY <1>3, DeliveryStutter
  DEF Register, CloseSurface, BeginRun, RecoverRun, CheckLock, TakeLock, RemoveLock, NoRun,
      List, Observe, brokerVars
<1>4. QED BY <1>1, <1>2, <1>3 DEF D!Next, SendInPlace, SendByRename, InOutbox

\* A watcher that ends cuts short the one artifact it has delivered.
LEMMA CutRefines ==
  ASSUME BrokerInv, NEW w \in Watcher, CutShort(w)
  PROVE  [D!Next]_(D!deliveryVars)
<1> USE DEF CutShort
<1>1. CASE LeftBehind(w) = {}
  BY <1>1, DeliveryStutter
<1>2. CASE LeftBehind(w) # {}
  <2> DEFINE a == handling[w].artifact
  <2>1. LeftBehind(w) = {a} /\ a \in Artifact
    BY <1>2 DEF LeftBehind
  <2>2. place[a] \in InOutbox
    BY <2>1, BrokerAssumption DEF BrokerInv, HandledIsOpen, Idle
  <2>3. D!CutShort(a)
    BY <2>1, <2>2 DEF D!CutShort
  <2>4. QED BY <2>1, <2>3 DEF D!Next
<1>3. QED BY <1>1, <1>2

\* A copy that reaches the inbox is a delivery, unless it overwrites one.
LEMMA DeliverRefines ==
  ASSUME BrokerInv, NEW w \in Watcher, Deliver(w)
  PROVE  [D!Next]_(D!deliveryVars)
<1> USE DEF Deliver, At
<1> DEFINE a == handling[w].artifact
<1>1. /\ a \in Artifact /\ place[a] \in InOutbox
      /\ inbox[a] = {} \/ a \in cut
  BY Alone DEF Idle
<1>2. CASE inbox' = inbox
  BY <1>2, DeliveryStutter
<1>3. CASE inbox' # inbox
  <2>1. inbox' = [inbox EXCEPT ![a] = inbox[a] \cup {w}]
    BY <1>3
  <2> HIDE DEF a
  <2>2. w \notin inbox[a]
    <3>1. SUFFICES ASSUME inbox[a] \cup {w} = inbox[a] PROVE inbox' = inbox
      BY <1>3
    <3>2. QED BY <1>1, <2>1, <3>1 DEF BrokerInv, TypeOK
  <2>3. [b \in Artifact |-> Cardinality(inbox[b])]' =
        [[b \in Artifact |-> Cardinality(inbox[b])] EXCEPT ![a] = @ + 1]
    BY <1>1, <2>1, <2>2, CopiesCounted DEF BrokerInv, TypeOK
  <2>4. D!Deliver(a)
    BY <1>1, <2>3, CopiesCounted DEF D!Deliver
  <2>5. QED BY <1>1, <2>4 DEF D!Next
<1>4. QED BY <1>2, <1>3

\* Settling is Process or Fail; a move that fails cuts the handling short.
LEMMA SettlingRefines ==
  ASSUME BrokerInv, NEW w \in Watcher,
         Move(w) \/ (Reject(w) /\ ~Raise(w))
  PROVE  [D!Next]_(D!deliveryVars)
<1> USE DEF At
<1>1. PICK a \in Artifact : a = handling[w].artifact
  BY Alone DEF Move, Reject, Idle
<1>2. place[a] \in InOutbox /\ place[a] \notin Settled
  BY <1>1, Alone DEF Move, Reject, Idle, InOutbox, Settled
<1>3. CASE Reject(w) /\ ~Raise(w)
  <2>1. place' = [place EXCEPT ![a] = "failed"] /\ UNCHANGED <<inbox, cut>>
    BY <1>1, <1>2, <1>3 DEF Reject
  <2>2. Cardinality(inbox[a]) = 0 \/ a \in cut
    BY <1>1, <1>3, Alone, CopiesCounted DEF Reject, Idle
  <2>3. D!Fail(a)
    BY <1>2, <2>1, <2>2, StageChange DEF D!Fail, InOutbox
  <2>4. QED BY <2>3 DEF D!Next
<1>4. CASE Move(w) /\ UNCHANGED cut /\ place' # place
  <2>1. place' = [place EXCEPT ![a] = "processed"] /\ UNCHANGED inbox
    BY <1>1, <1>2, <1>4 DEF Move
  <2>2. Cardinality(inbox[a]) > 0 \/ "disk" \in Faults
    BY <1>1, <1>4, CopiesCounted DEF Move, BrokerInv, StepFacts
  <2>3. D!Process(a)
    BY <1>2, <1>4, <2>1, <2>2, StageChange DEF D!Process, InOutbox
  <2>4. QED BY <2>3 DEF D!Next
<1>5. CASE Move(w) /\ place' = place
  <2>1. UNCHANGED <<place, inbox>> /\ (cut' = cut \/ cut' = cut \cup {a})
    BY <1>1, <1>5 DEF Move
  <2>2. CASE cut' = cut
    BY <2>1, <2>2, DeliveryStutter
  <2>3. CASE cut' = cut \cup {a}
    BY <1>2, <2>1, <2>3 DEF D!Next, D!CutShort
  <2>4. QED BY <2>1, <2>2, <2>3
<1>6. QED BY <1>3, <1>4, <1>5 DEF Move

\* An exception cuts the handling short, or ends it before it delivers.
LEMMA RaiseRefines ==
  ASSUME BrokerInv, NEW w \in Watcher, Raise(w)
  PROVE  [D!Next]_(D!deliveryVars)
BY CutRefines, DeliveryStutter DEF Raise, Interrupt

\* Every step of the broker is a step of Delivery or leaves it alone.
LEMMA DeliveryStep ==
  ASSUME BrokerInv, [Next]_vars
  PROVE  [D!Next]_(D!deliveryVars)
<1>1. CASE UNCHANGED vars
  BY <1>1, DeliveryStutter DEF vars, brokerVars
<1>2. ASSUME NEW w \in Watcher, Interrupt(w) \/ Crash(w)
      PROVE  [D!Next]_(D!deliveryVars)
  BY <1>2, CutRefines DEF Interrupt, Crash
<1>3. ASSUME NEW w \in Watcher, NEW a \in Artifact, Pick(w, a) \/ PickNonObject(w, a)
      PROVE  [D!Next]_(D!deliveryVars)
  BY <1>3, RaiseRefines, DeliveryStutter DEF Pick, PickNonObject
<1>4. ASSUME NEW w \in Watcher, Spawn(w) \/ SaveMessage(w) \/ SaveOutcome(w)
      PROVE  [D!Next]_(D!deliveryVars)
  BY <1>4, DeliveryStutter DEF Spawn, SaveMessage, SaveOutcome
<1>5. ASSUME NEW w \in Watcher, Deliver(w) \/ Move(w) \/ Reject(w)
      PROVE  [D!Next]_(D!deliveryVars)
  BY <1>5, DeliverRefines, SettlingRefines, RaiseRefines
<1>6. QED BY <1>1, <1>2, <1>3, <1>4, <1>5, OtherStepsRefine DEF Next, Work

\* As long as no start has raced with another one and nobody has removed the lock of a
\* living watcher, the broker implements Delivery: each artifact is settled once, its
\* recipient gets at most one copy unless a handling was cut short, and none if it fails.
THEOREM DeliveryImplemented == Spec /\ []Careful => DeliveryKept
<1>1. Init => D!Init
  BY FS_EmptySet DEF Init, D!Init, InOutbox
<1>2. BrokerInv /\ [Next]_vars => [D!Next]_(D!deliveryVars)
  BY DeliveryStep
<1>3. QED BY <1>1, <1>2, BrokerInvHolds, PTL DEF Spec, DeliveryKept, D!Spec

-----------------------------------------------------------------------------
(* The messages table.                                                     *)

\* A watcher that has not routed an artifact has no row and no copy of it.
Untouched(a, w) == rows[a][w] = "none" /\ w \notin inbox[a]

\* Every artifact a watcher may still take up is untouched by it: one that was not
\* sent, any at all before it lists the outbox, and what it has listed.
NotYetRouted ==
  /\ \A a \in Artifact, w \in Watcher : place[a] = "unsent" => Untouched(a, w)
  /\ \A a \in Artifact, w \in Watcher :
       watcher[w] \in {"new", "taking"} \/ (Working(w) /\ mode[w] = "start") => Untouched(a, w)
  /\ \A w \in Watcher : \A a \in todo[w] :
       Untouched(a, w) /\ handling[w].artifact # a /\ place[a] # "unsent"
  /\ \A w \in Watcher : handling[w] # Idle =>
       mode[w] # "start" /\ place[handling[w].artifact] # "unsent"

\* How far the row and the copy are, by the next step of the routing.
RowAt(h, w) ==
  LET a == h.artifact
  IN  /\ h.step \in {"reject", "spawn", "save"} => Untouched(a, w)
      /\ h.step \in {"deliver", "lost"} => rows[a][w] = "PENDING" /\ w \notin inbox[a]
      /\ h.step = "delivered" => rows[a][w] = "PENDING" /\ w \in inbox[a]
      /\ h.step = "move" => rows[a][w] \in {"DELIVERED", "FAILED"}

RowOfStep == \A w \in Watcher : RowAt(handling[w], w)

RecordsInv == TypeOK /\ NotYetRouted /\ RowOfStep /\ RecordsAgree

\* A brand-new run has routed nothing.
LEMMA RecordsInvInit == Init => RecordsInv
<1> SUFFICES ASSUME Init PROVE RecordsInv
  OBVIOUS
<1>1. TypeOK
  BY LockAssumption, BrokerAssumption DEF Init, TypeOK, LockInit, LockTypeOK, WatcherState
<1>2. NotYetRouted /\ RowOfStep /\ RecordsAgree
  BY DEF Init, NotYetRouted, RowOfStep, RowAt, RecordsAgree, Untouched, Idle
<1>3. QED BY <1>1, <1>2 DEF RecordsInv

\* Files appear and are finished, agents come and go: no row and no copy changes.
LEMMA WorldKeepsRecords ==
  ASSUME RecordsInv,
         \/ \E a \in Artifact : SendInPlace(a) \/ SendByRename(a) \/ FinishWrite(a)
         \/ \E g \in Agent : Register(g) \/ CloseSurface(g)
         \/ BeginRun \/ RecoverRun
  PROVE  RecordsInv'
<1> USE DEF RecordsInv
<1>1. ASSUME NEW a \in Artifact, Appear(a, "partial") \/ Appear(a, "outbox") \/ FinishWrite(a)
      PROVE  RecordsInv'
  <2>1. /\ UNCHANGED <<lockVars, agents, closed, mode, handling, rows, inbox, cut>>
        /\ place' \in [Artifact -> {"unsent"} \cup InOutbox \cup Settled]
        /\ todo' \in [Watcher -> SUBSET Artifact]
        /\ \A b \in Artifact : b # a => place'[b] = place[b]
        /\ place'[a] \in InOutbox
        /\ \A w \in Watcher : todo'[w] = todo[w] \/ (todo'[w] = todo[w] \cup {a} /\ place[a] = "unsent")
    <3>1. CASE Appear(a, "partial") \/ Appear(a, "outbox")
      <4>1. /\ UNCHANGED <<lockVars, agents, closed, mode, handling, rows, inbox, cut>>
            /\ todo' = [w \in Watcher |-> IF mode[w] = "observe" THEN todo[w] \cup {a} ELSE todo[w]]
            /\ place[a] = "unsent"
            /\ \E p \in InOutbox : place' = [place EXCEPT ![a] = p]
        BY <3>1 DEF Appear, InOutbox
      <4>2. todo' \in [Watcher -> SUBSET Artifact]
        BY <4>1 DEF TypeOK
      <4>3. \A w \in Watcher : todo'[w] = todo[w] \/ todo'[w] = todo[w] \cup {a}
        BY <4>1
      <4>4. place' \in [Artifact -> {"unsent"} \cup InOutbox \cup Settled]
        BY <4>1 DEF TypeOK
      <4>5. (\A b \in Artifact : b # a => place'[b] = place[b]) /\ place'[a] \in InOutbox
        BY <4>1 DEF TypeOK
      <4>6. QED BY <4>1, <4>2, <4>3, <4>4, <4>5
    <3>2. CASE FinishWrite(a)
      BY <3>2 DEF FinishWrite, TypeOK, InOutbox
    <3>3. QED BY <1>1, <3>1, <3>2
  <2>2. TypeOK'
    BY <2>1 DEF TypeOK, LockTypeOK, lockVars
  <2>3. NotYetRouted'
    <3>1. \A w \in Watcher : handling[w] # Idle => handling[w].artifact \in Artifact
      BY DEF TypeOK
    <3>2. \A w \in Watcher : handling[w] # Idle => place'[handling[w].artifact] # "unsent"
      BY <2>1, <3>1 DEF NotYetRouted, InOutbox
    <3>3. \A w \in Watcher : place[a] = "unsent" => handling[w].artifact # a
      BY <3>1, BrokerAssumption DEF NotYetRouted, Idle
    <3>4. \A w \in Watcher : \A b \in todo'[w] :
            Untouched(b, w) /\ handling[w].artifact # b /\ place'[b] # "unsent"
      BY <2>1, <3>3 DEF NotYetRouted, InOutbox, TypeOK
    <3>5. \A b \in Artifact : place'[b] = "unsent" => place[b] = "unsent"
      BY <2>1 DEF InOutbox
    <3>6. UNCHANGED <<watcher, mode, handling, rows, inbox>>
      BY <2>1 DEF lockVars
    <3>7. QED BY <3>2, <3>4, <3>5, <3>6 DEF NotYetRouted, Untouched, Working
  <2>4. RowOfStep' /\ RecordsAgree'
    BY <2>1 DEF RowOfStep, RowAt, Untouched, RecordsAgree, InOutbox
  <2>5. QED BY <2>2, <2>3, <2>4
<1>2. ASSUME \/ \E g \in Agent : Register(g) \/ CloseSurface(g)
             \/ BeginRun \/ RecoverRun
      PROVE  RecordsInv'
  <2>1. /\ UNCHANGED <<watcher, place, mode, todo, handling, rows, inbox, cut>>
        /\ LockTypeOK' /\ agents' \subseteq Agent /\ closed' \subseteq Agent
    BY <1>2 DEF Register, CloseSurface, BeginRun, RecoverRun, StartRun, Recover, RemoveAnyLock,
                brokerVars, lockVars, TypeOK, LockTypeOK
  <2>2. TypeOK'
    BY <2>1 DEF TypeOK
  <2>3. NotYetRouted' /\ RowOfStep' /\ RecordsAgree'
    BY <2>1 DEF NotYetRouted, RowOfStep, RowAt, Untouched, RecordsAgree, Working
  <2>4. QED BY <2>2, <2>3
<1>3. QED BY <1>1, <1>2 DEF SendInPlace, SendByRename

\* Starting: a watcher that has not run yet has touched nothing, and lists all.
LEMMA StartKeepsRecords ==
  ASSUME RecordsInv, NEW w \in Watcher,
         CheckLock(w) \/ TakeLock(w) \/ RemoveLock(w) \/ NoRun(w) \/ List(w) \/ Observe(w)
  PROVE  RecordsInv'
<1> USE DEF RecordsInv
<1>1. CASE CheckLock(w) \/ TakeLock(w) \/ RemoveLock(w) \/ NoRun(w)
  <2>1. /\ UNCHANGED brokerVars /\ LockTypeOK'
        /\ \A v \in Watcher \ {w} : watcher'[v] = watcher[v]
        /\ watcher'[w] \in {"new", "taking", "running"} => watcher[w] \in {"new", "taking"}
    BY <1>1, LockAssumption
    DEF CheckLock, TakeLock, RemoveLock, NoRun, Check, Race, Taking, Take, Unlink, Release,
        Become, TypeOK, LockTypeOK, WatcherState
  <2>2. TypeOK'
    BY <2>1 DEF TypeOK, brokerVars
  <2>3. NotYetRouted'
    BY <2>1 DEF NotYetRouted, Untouched, Working, brokerVars
  <2>4. RowOfStep' /\ RecordsAgree'
    BY <2>1 DEF RowOfStep, RowAt, Untouched, RecordsAgree, brokerVars
  <2>5. QED BY <2>2, <2>3, <2>4
<1>2. CASE List(w) \/ Observe(w)
  <2>1. /\ UNCHANGED <<lockVars, place, agents, closed, handling, rows, inbox, cut>>
        /\ mode' \in [Watcher -> {"start", "list", "observe", "deaf"}]
        /\ todo' \in [Watcher -> SUBSET Artifact]
        /\ \A v \in Watcher \ {w} : mode'[v] = mode[v] /\ todo'[v] = todo[v]
        /\ mode'[w] # "start" /\ handling[w] = Idle
        /\ \A a \in todo'[w] : Untouched(a, w) /\ place[a] # "unsent"
    <3>1. CASE List(w)
      <4>1. todo' = [todo EXCEPT ![w] = {a \in Artifact : place[a] \in InOutbox}]
            /\ mode' = [mode EXCEPT ![w] = "list"]
            /\ UNCHANGED <<lockVars, place, agents, closed, handling, rows, inbox, cut>>
        BY <3>1 DEF List
      <4>2. handling[w] = Idle /\ \A a \in Artifact : Untouched(a, w)
        BY <3>1 DEF List, NotYetRouted
      <4>3. todo'[w] = {a \in Artifact : place[a] \in InOutbox}
        BY <4>1 DEF TypeOK
      <4>4. \A a \in todo'[w] : Untouched(a, w) /\ place[a] # "unsent"
        BY <4>2, <4>3 DEF InOutbox
      <4>5. todo' \in [Watcher -> SUBSET Artifact]
        BY <4>1 DEF TypeOK
      <4>6. QED BY <4>1, <4>2, <4>4, <4>5 DEF TypeOK
    <3>2. CASE Observe(w)
      BY <3>2 DEF Observe, TypeOK
    <3>3. QED BY <1>2, <3>1, <3>2
  <2>2. TypeOK'
    BY <2>1 DEF TypeOK, LockTypeOK, lockVars
  <2>3. NotYetRouted'
    <3>1. \A a \in Artifact : handling[w].artifact # a
      BY <2>1, BrokerAssumption DEF Idle
    <3>2. \A v \in Watcher : \A a \in todo'[v] :
            Untouched(a, v) /\ handling[v].artifact # a /\ place[a] # "unsent"
      BY <2>1, <3>1 DEF NotYetRouted
    <3>3. UNCHANGED <<watcher, place, handling, rows, inbox>>
      BY <2>1 DEF lockVars
    <3>4. QED BY <2>1, <3>2, <3>3 DEF NotYetRouted, Untouched, Working
  <2>4. RowOfStep' /\ RecordsAgree'
    BY <2>1 DEF RowOfStep, RowAt, Untouched, RecordsAgree
  <2>5. QED BY <2>2, <2>3, <2>4
<1>3. QED BY <1>1, <1>2

\* A watcher that ends, or loses its observer, changes no row and no copy.
LEMMA EndKeepsRecords ==
  ASSUME RecordsInv, NEW w \in Watcher, Interrupt(w) \/ Crash(w) \/ Raise(w)
  PROVE  RecordsInv'
<1> USE DEF RecordsInv
<1>1. /\ UNCHANGED <<place, agents, closed, rows, inbox>>
      /\ LockTypeOK' /\ cut' \subseteq Artifact
      /\ handling' = [handling EXCEPT ![w] = Idle]
      /\ todo' \in [Watcher -> SUBSET Artifact] /\ \A v \in Watcher : todo'[v] \subseteq todo[v]
      /\ mode' \in [Watcher -> {"start", "list", "observe", "deaf"}]
      /\ \A v \in Watcher \ {w} : mode'[v] = mode[v] /\ watcher'[v] = watcher[v]
      /\ watcher'[w] \in {"unlinking", "dead"} \/ (mode'[w] = "deaf" /\ UNCHANGED watcher)
  <2>1. CASE Interrupt(w) \/ Crash(w)
    <3>1. LeftBehind(w) \subseteq Artifact
      BY DEF LeftBehind
    <3>2. LockTypeOK' /\ watcher'[w] \in {"unlinking", "dead"}
          /\ \A v \in Watcher \ {w} : watcher'[v] = watcher[v]
      BY <2>1 DEF Interrupt, Crash, Release, Die, Become, TypeOK, LockTypeOK, WatcherState
    <3>3. CutShort(w)
      BY <2>1 DEF Interrupt, Crash
    <3>4. QED BY <3>1, <3>2, <3>3 DEF CutShort, TypeOK
  <2>2. CASE Raise(w) /\ ~Interrupt(w)
    BY <2>2 DEF Raise, TypeOK, LockTypeOK, lockVars
  <2>3. QED BY <2>1, <2>2
<1>2. TypeOK'
  BY <1>1 DEF TypeOK
<1>3. \A v \in Watcher : handling'[v] = IF v = w THEN Idle ELSE handling[v]
  BY <1>1 DEF TypeOK
<1>4. NotYetRouted'
  <2>1. \A v \in Watcher : \A a \in todo'[v] : handling'[v].artifact # a
    BY <1>1, <1>3, BrokerAssumption DEF NotYetRouted, Idle, TypeOK
  <2>2. \A v \in Watcher : \A a \in todo'[v] : Untouched(a, v) /\ place[a] # "unsent"
    BY <1>1 DEF NotYetRouted
  <2>3. \A v \in Watcher : handling'[v] # Idle =>
          mode'[v] # "start" /\ place[handling'[v].artifact] # "unsent"
    BY <1>1, <1>3 DEF NotYetRouted
  <2>4. \A a \in Artifact, v \in Watcher :
          watcher'[v] \in {"new", "taking"} \/ (watcher'[v] = "running" /\ mode'[v] = "start")
            => Untouched(a, v)
    <3> SUFFICES ASSUME NEW a \in Artifact, NEW v \in Watcher,
                        \/ watcher'[v] \in {"new", "taking"}
                        \/ watcher'[v] = "running" /\ mode'[v] = "start"
                 PROVE  Untouched(a, v)
      OBVIOUS
    <3>1. CASE v # w
      BY <1>1, <3>1 DEF NotYetRouted, Working
    <3>2. CASE v = w
      BY <1>1, <3>2 DEF NotYetRouted, Working
    <3>3. QED BY <3>1, <3>2
  <2>5. QED BY <1>1, <2>1, <2>2, <2>3, <2>4 DEF NotYetRouted, Untouched, Working
<1>5. RowOfStep'
  BY <1>1, <1>3 DEF RowOfStep, RowAt, Untouched, Idle
<1>6. RecordsAgree'
  BY <1>1 DEF RecordsAgree
<1>7. QED BY <1>2, <1>4, <1>5, <1>6

\* What is taken up is untouched.
LEMMA PickKeepsRecords ==
  ASSUME RecordsInv, NEW w \in Watcher, NEW a \in Artifact, Pick(w, a)
  PROVE  RecordsInv'
<1> USE DEF RecordsInv
<1>1. PICK h \in {Idle} \cup [artifact : {a}, step : {"reject", "spawn", "save"}] :
        handling' = [handling EXCEPT ![w] = h]
  BY DEF Pick, FirstStep
<1>2. /\ UNCHANGED <<lockVars, place, agents, closed, mode, rows, inbox, cut>>
      /\ todo' = [todo EXCEPT ![w] = @ \ {a}] /\ a \in todo[w] /\ mode[w] # "start"
  BY DEF Pick
<1>3. TypeOK'
  BY <1>1, <1>2 DEF TypeOK, LockTypeOK, lockVars, Step
<1>4. /\ handling'[w] = h
      /\ \A v \in Watcher \ {w} : handling'[v] = handling[v] /\ todo'[v] = todo[v]
      /\ todo'[w] = todo[w] \ {a}
  BY <1>1, <1>2 DEF TypeOK
<1>5. Untouched(a, w) /\ place[a] # "unsent"
  BY <1>2 DEF NotYetRouted
<1>6. h # Idle => h.artifact = a /\ h.step \in {"reject", "spawn", "save"}
  OBVIOUS
<1>7. NotYetRouted'
  <2>1. \A v \in Watcher : \A b \in todo'[v] :
          Untouched(b, v) /\ handling'[v].artifact # b /\ place[b] # "unsent"
    <3>1. \A b \in todo'[w] : handling'[w].artifact # b
      BY <1>4, <1>6, BrokerAssumption DEF Idle, TypeOK
    <3>2. QED BY <1>4, <3>1 DEF NotYetRouted
  <2>2. \A v \in Watcher : handling'[v] # Idle =>
          mode[v] # "start" /\ place[handling'[v].artifact] # "unsent"
    BY <1>2, <1>4, <1>5, <1>6 DEF NotYetRouted
  <2>3. UNCHANGED <<watcher, place, mode, rows, inbox>>
    BY <1>2 DEF lockVars
  <2>4. QED BY <2>1, <2>2, <2>3 DEF NotYetRouted, Untouched, Working
<1>8. RowOfStep'
  <2>1. RowAt(h, w)
    BY <1>5, <1>6 DEF RowAt, Idle
  <2>2. \A v \in Watcher : RowAt(handling'[v], v)
    BY <1>4, <2>1 DEF RowOfStep
  <2>3. QED BY <1>2, <2>2 DEF RowOfStep, RowAt, Untouched
<1>9. RecordsAgree'
  BY <1>2 DEF RecordsAgree
<1>10. QED BY <1>3, <1>7, <1>8, <1>9

\* A routing step touches the row and the copy of its own artifact only, and each
\* is where the next step expects it.
LEMMA RoutingKeepsRecords ==
  ASSUME RecordsInv, NEW w \in Watcher,
         Spawn(w) \/ SaveMessage(w) \/ Deliver(w) \/ SaveOutcome(w)
  PROVE  RecordsInv'
<1> USE DEF RecordsInv
<1> DEFINE a == handling[w].artifact
<1>1. /\ a \in Artifact /\ handling[w] \in [artifact : Artifact, step : Step]
      /\ handling[w] # Idle /\ Working(w)
      /\ UNCHANGED <<lockVars, place, closed, mode, todo, cut>>
  BY DEF Spawn, SaveMessage, Deliver, SaveOutcome, At, TypeOK, Idle
<1> DEFINE Routed(s, r, i) ==
      /\ handling' = [handling EXCEPT ![w].step = s]
      /\ rows' = [rows EXCEPT ![a][w] = r]
      /\ inbox' = [inbox EXCEPT ![a] = @ \cup i]
      /\ s \in {"reject", "save"} => r = "none" /\ i = {} /\ w \notin inbox[a]
      /\ s \in {"deliver", "lost"} => r = "PENDING" /\ i = {} /\ w \notin inbox[a]
      /\ s = "delivered" => r = "PENDING" /\ i = {w}
      /\ s = "move" => /\ i = {}
                       /\ \/ r = "DELIVERED" /\ w \in inbox[a]
                          \/ r = "FAILED" /\ w \notin inbox[a]
      /\ s \in {"reject", "save", "deliver", "lost", "delivered", "move"}
<1>2. PICK s \in Step, r \in {"none", "PENDING", "DELIVERED", "FAILED"}, i \in SUBSET {w} :
        Routed(s, r, i)
  <2>1. /\ rows = [rows EXCEPT ![a][w] = rows[a][w]]
        /\ inbox = [inbox EXCEPT ![a] = @ \cup {}]
    BY <1>1 DEF TypeOK
  <2>2. RowAt(handling[w], w)
    BY DEF RowOfStep
  <2>0. ASSUME NEW s \in {"reject", "save", "deliver", "lost", "delivered", "move"},
               NEW r \in {"none", "PENDING", "DELIVERED", "FAILED"},
               NEW i \in {{}, {w}}, Routed(s, r, i)
        PROVE  \E t \in Step, q \in {"none", "PENDING", "DELIVERED", "FAILED"},
                  k \in SUBSET {w} : Routed(t, q, k)
    <3> HIDE DEF Routed
    <3>1. s \in Step /\ i \in SUBSET {w}
      BY DEF Step
    <3>2. QED BY <2>0, <3>1
  <2> USE DEF Step
  <2>3. CASE Spawn(w)
    <3>1. rows[a][w] = "none" /\ w \notin inbox[a] /\ rows' = rows /\ inbox' = inbox
      BY <2>2, <2>3 DEF RowAt, Untouched, Spawn, At
    <3>2. Routed("reject", "none", {}) \/ Routed("save", "none", {})
      BY <2>1, <2>3, <3>1 DEF Spawn, Continue
    <3> HIDE DEF Routed
    <3>3. QED BY <2>0, <3>2
  <2>4. CASE SaveMessage(w)
    <3>1. w \notin inbox[a] /\ inbox' = inbox
      BY <2>2, <2>4 DEF RowAt, Untouched, SaveMessage, At
    <3>2. Routed("deliver", "PENDING", {})
      BY <2>1, <2>4, <3>1 DEF SaveMessage, Continue, Record
    <3> HIDE DEF Routed
    <3>3. QED BY <2>0, <3>2
  <2>5. CASE Deliver(w)
    <3>1. rows[a][w] = "PENDING" /\ w \notin inbox[a] /\ rows' = rows
      BY <2>2, <2>5 DEF RowAt, Untouched, Deliver, At
    <3>2. Routed("delivered", "PENDING", {w}) \/ Routed("lost", "PENDING", {})
      BY <2>1, <2>5, <3>1 DEF Deliver, Continue
    <3> HIDE DEF Routed
    <3>3. QED BY <2>0, <3>2
  <2>6. CASE SaveOutcome(w)
    <3>1. inbox' = inbox
      BY <2>6 DEF SaveOutcome
    <3>2. Routed("move", "DELIVERED", {}) \/ Routed("move", "FAILED", {})
      BY <2>1, <2>2, <2>6, <3>1 DEF SaveOutcome, Record, Continue, RowAt, At
    <3> HIDE DEF Routed
    <3>3. QED BY <2>0, <3>2
  <2>7. QED BY <2>3, <2>4, <2>5, <2>6
<1> HIDE DEF a
<1>3. /\ \A v \in Watcher \ {w} : handling'[v] = handling[v]
      /\ handling'[w] = [artifact |-> a, step |-> s]
  BY <1>1, <1>2 DEF TypeOK, a
<1>4. \A b \in Artifact, v \in Watcher :
        /\ rows'[b][v] = IF b = a /\ v = w THEN r ELSE rows[b][v]
        /\ v \in inbox'[b] <=> v \in inbox[b] \/ (b = a /\ v \in i)
  BY <1>1, <1>2 DEF TypeOK
<1>5. TypeOK'
  <2>1. handling' \in [Watcher -> {Idle} \cup [artifact : Artifact, step : Step]]
    BY <1>1, <1>2, <1>3 DEF TypeOK
  <2>2. rows' \in [Artifact -> [Watcher -> {"none", "PENDING", "DELIVERED", "FAILED"}]]
    <3>1. rows[a] \in [Watcher -> {"none", "PENDING", "DELIVERED", "FAILED"}]
      BY <1>1 DEF TypeOK
    <3>2. [rows[a] EXCEPT ![w] = r] \in [Watcher -> {"none", "PENDING", "DELIVERED", "FAILED"}]
      BY <3>1
    <3>3. QED BY <1>1, <1>2, <3>2 DEF TypeOK
  <2>3. inbox' \in [Artifact -> SUBSET Watcher]
    BY <1>1, <1>2 DEF TypeOK
  <2>4. agents' \subseteq Agent
    BY <1>1, BrokerAssumption DEF TypeOK, Spawn, SaveMessage, Deliver, SaveOutcome, a
  <2>5. QED BY <1>1, <2>1, <2>2, <2>3, <2>4 DEF TypeOK, LockTypeOK, lockVars
<1>6. \A b \in Artifact, v \in Watcher :
        b # a \/ v # w => (Untouched(b, v))' = Untouched(b, v)
  BY <1>2, <1>4 DEF Untouched
<1>7. NotYetRouted'
  <2>1. place[a] # "unsent" /\ mode[w] # "start" /\ a \notin todo[w]
    BY <1>1 DEF NotYetRouted, a
  <2>2. UNCHANGED <<watcher, place, mode, todo>>
    BY <1>1 DEF lockVars
  <2>3. watcher[w] \notin {"new", "taking"}
    BY <1>1 DEF Working
  <2>4. \A v \in Watcher : handling'[v].artifact = handling[v].artifact
    BY <1>3 DEF a
  <2>5. \A v \in Watcher : handling'[v] # Idle =>
          mode[v] # "start" /\ place[handling'[v].artifact] # "unsent"
    BY <1>3, <2>1 DEF NotYetRouted
  <2>6. \A b \in Artifact, v \in Watcher : place[b] = "unsent" => (Untouched(b, v))'
    BY <1>6, <2>1 DEF NotYetRouted
  <2>7. \A b \in Artifact, v \in Watcher :
          watcher[v] \in {"new", "taking"} \/ (watcher[v] = "running" /\ mode[v] = "start")
            => (Untouched(b, v))'
    BY <1>6, <2>1, <2>3 DEF NotYetRouted, Working
  <2>8. \A v \in Watcher : \A b \in todo[v] :
          (Untouched(b, v))' /\ handling'[v].artifact # b /\ place[b] # "unsent"
    BY <1>6, <2>1, <2>4 DEF NotYetRouted, TypeOK
  <2>9. QED BY <2>2, <2>5, <2>6, <2>7, <2>8 DEF NotYetRouted, Working
<1>8. RowOfStep'
  <2>1. RowAt(handling[w], w)'
    BY <1>1, <1>2, <1>3, <1>4 DEF RowAt, Untouched
  <2>2. ASSUME NEW v \in Watcher \ {w} PROVE RowAt(handling[v], v)'
    <3>1. RowAt(handling[v], v) /\ handling'[v] = handling[v]
      BY <1>3 DEF RowOfStep
    <3>2. CASE handling[v] = Idle
      BY <3>1, <3>2 DEF RowAt, Idle
    <3>3. CASE handling[v] # Idle
      <4>1. handling[v].artifact \in Artifact
        BY <3>3 DEF TypeOK
      <4>2. QED BY <1>2, <1>4, <3>1, <4>1 DEF RowAt, Untouched
    <3>4. QED BY <3>2, <3>3
  <2>3. QED BY <2>1, <2>2 DEF RowOfStep
<1>9. RecordsAgree'
  <2> SUFFICES ASSUME NEW b \in Artifact
               PROVE  /\ \A v \in Watcher :
                           /\ rows'[b][v] = "DELIVERED" => v \in inbox'[b]
                           /\ rows'[b][v] = "FAILED" => v \notin inbox'[b]
                           /\ v \in inbox'[b] => rows'[b][v] \in {"PENDING", "DELIVERED"}
                      /\ place'[b] = "processed" =>
                           \E v \in Watcher : rows'[b][v] \in {"DELIVERED", "FAILED"}
    BY DEF RecordsAgree
  <2>1. ASSUME NEW v \in Watcher
        PROVE  /\ rows'[b][v] = "DELIVERED" => v \in inbox'[b]
               /\ rows'[b][v] = "FAILED" => v \notin inbox'[b]
               /\ v \in inbox'[b] => rows'[b][v] \in {"PENDING", "DELIVERED"}
    <3>1. CASE b = a /\ v = w
      BY <1>1, <1>2, <1>4, <3>1
    <3>2. CASE b # a \/ v # w
      BY <1>2, <1>4, <3>2 DEF RecordsAgree
    <3>3. QED BY <3>1, <3>2
  <2>2. ASSUME place'[b] = "processed"
        PROVE  \E v \in Watcher : rows'[b][v] \in {"DELIVERED", "FAILED"}
    <3>1. PICK v \in Watcher : rows[b][v] \in {"DELIVERED", "FAILED"}
      BY <1>1, <2>2 DEF RecordsAgree
    <3>2. RowAt(handling[w], w)
      BY DEF RowOfStep
    <3>3. rows[a][w] \notin {"DELIVERED", "FAILED"}
      BY <3>2 DEF RowAt, Untouched, Spawn, SaveMessage, Deliver, SaveOutcome, At, a
    <3>4. QED BY <1>4, <3>1, <3>3
  <2>3. QED BY <2>1, <2>2
<1>10. QED BY <1>5, <1>7, <1>8, <1>9

\* An artifact is moved to processed only after the outcome is recorded.
LEMMA SettlingKeepsRecords ==
  ASSUME RecordsInv, NEW w \in Watcher, Move(w) \/ (Reject(w) /\ ~Raise(w))
  PROVE  RecordsInv'
<1> USE DEF RecordsInv
<1> DEFINE a == handling[w].artifact
<1>1. a \in Artifact /\ handling[w] # Idle
  BY DEF Move, Reject, At, TypeOK, Idle
<1>2. /\ UNCHANGED <<lockVars, agents, closed, mode, todo, rows, inbox>>
      /\ handling' = [handling EXCEPT ![w] = Idle] /\ cut' \subseteq Artifact
  BY <1>1 DEF Move, Reject, At, TypeOK
<1>3. \/ UNCHANGED place
      \/ place' = [place EXCEPT ![a] = "failed"]
      \/ place' = [place EXCEPT ![a] = "processed"] /\ rows[a][w] \in {"DELIVERED", "FAILED"}
  <2>1. CASE Reject(w)
    BY <2>1 DEF Reject, Move, At
  <2>2. CASE Move(w)
    <3>1. rows[a][w] \in {"DELIVERED", "FAILED"}
      BY <2>2 DEF Move, At, RowOfStep, RowAt
    <3>2. \/ place' = [place EXCEPT ![a] = "processed"]
          \/ place' = [place EXCEPT ![a] = place[a]]
          \/ UNCHANGED place
      BY <2>2 DEF Move
    <3>3. [place EXCEPT ![a] = place[a]] = place
      BY <1>1 DEF TypeOK
    <3>4. QED BY <3>1, <3>2, <3>3
  <2>3. QED BY <2>1, <2>2
<1> HIDE DEF a
<1>4. TypeOK'
  BY <1>1, <1>2, <1>3 DEF TypeOK, LockTypeOK, lockVars, Settled
<1>5. \A b \in Artifact : place'[b] = "unsent" <=> place[b] = "unsent"
  BY <1>1, <1>3 DEF NotYetRouted, TypeOK, a
<1>6. \A v \in Watcher : handling'[v] = IF v = w THEN Idle ELSE handling[v]
  BY <1>2 DEF TypeOK
<1>7. NotYetRouted'
  <2>1. \A v \in Watcher : \A b \in todo[v] :
          Untouched(b, v) /\ handling'[v].artifact # b /\ place'[b] # "unsent"
    BY <1>5, <1>6, BrokerAssumption DEF NotYetRouted, Idle, TypeOK
  <2>2. \A v \in Watcher : handling'[v] # Idle =>
          mode[v] # "start" /\ place'[handling'[v].artifact] # "unsent"
    BY <1>5, <1>6 DEF NotYetRouted, TypeOK
  <2>3. UNCHANGED <<watcher, mode, todo, rows, inbox>>
    BY <1>2 DEF lockVars
  <2>4. QED BY <1>5, <2>1, <2>2, <2>3 DEF NotYetRouted, Untouched, Working
<1>8. RowOfStep'
  BY <1>2, <1>6 DEF RowOfStep, RowAt, Untouched, Idle
<1>9. RecordsAgree'
  <2>1. \A b \in Artifact : place'[b] = "processed" =>
          place[b] = "processed" \/ (b = a /\ rows[a][w] \in {"DELIVERED", "FAILED"})
    BY <1>1, <1>3 DEF TypeOK
  <2>2. QED BY <1>2, <2>1 DEF RecordsAgree
<1>10. QED BY <1>4, <1>7, <1>8, <1>9

\* A step of the broker, by the lemma of its kind.
LEMMA RecordsInvStep ==
  ASSUME RecordsInv, [Next]_vars
  PROVE  RecordsInv'
<1>1. CASE UNCHANGED vars
  BY <1>1 DEF RecordsInv, TypeOK, LockTypeOK, NotYetRouted, RowOfStep, RowAt, Untouched,
              RecordsAgree, Working, vars, brokerVars, lockVars
<1>2. ASSUME NEW w \in Watcher, NEW a \in Artifact, Pick(w, a) \/ PickNonObject(w, a)
      PROVE  RecordsInv'
  BY <1>2, PickKeepsRecords, EndKeepsRecords DEF PickNonObject
<1>3. ASSUME NEW w \in Watcher, Move(w) \/ Reject(w)
      PROVE  RecordsInv'
  BY <1>3, SettlingKeepsRecords, EndKeepsRecords
<1>4. QED BY <1>1, <1>2, <1>3, WorldKeepsRecords, StartKeepsRecords, EndKeepsRecords,
             RoutingKeepsRecords DEF Next, Work

\* The messages table tells the truth about the inboxes, however the watchers end,
\* whatever disk faults there are, and even when two of them run.
THEOREM RecordsAlwaysAgree == Spec => []RecordsAgree
<1>1. RecordsInv /\ [Next]_vars => RecordsInv'
  BY RecordsInvStep
<1>2. RecordsInv => RecordsAgree
  BY DEF RecordsInv
<1>3. QED BY <1>1, <1>2, RecordsInvInit, PTL DEF Spec

\* The broker keeps its variables within their types, whatever operators do.
THEOREM BrokerTypeCorrect == Spec => []TypeOK
<1>1. RecordsInv /\ [Next]_vars => RecordsInv'
  BY RecordsInvStep
<1>2. RecordsInv => TypeOK
  BY DEF RecordsInv
<1>3. QED BY <1>1, <1>2, RecordsInvInit, PTL DEF Spec

-----------------------------------------------------------------------------
(* The life of a run: half a team is never taken for a whole one, for any  *)
(* number of runs whose starts interleave with each other and with the     *)
(* commands that stop, fail, clean and join runs, and any tabs.            *)

Status == {"none", "CREATED", "RUNNING", "FAILED", "COMPLETED", "erased"}

Phase == {"new", "created", "opened", "recorded", "over"}

\* The agents that a start has registered when it has seen so many tabs.
Registered(n) == {Tabs[i] : i \in 1..n}

RunTypeOK ==
  /\ status \in [Runs -> Status]
  /\ recorded \in [Runs -> BOOLEAN]
  /\ team \in [Runs -> SUBSET (TabNames \cup {NoName})]
  /\ start \in [Runs -> Phase]
  /\ tab \in [Runs -> 0..Len(Tabs)]
  /\ command.name \in TabNames \cup {NoName}

\* A run without a row has not been started; one that was recorded names its workspace
\* and has the agents of the tabs so far, as long as it has a row at all.
Partial(r) ==
  /\ status[r] = "none" <=> start[r] = "new"
  /\ start[r] \in {"new", "created", "opened"} => tab[r] = 0
  /\ start[r] = "recorded" /\ Kept(r) => recorded[r] /\ Registered(tab[r]) \subseteq team[r]

RunInv == RunTypeOK /\ (\A r \in Runs : Partial(r)) /\ RunningIsComplete

LEMMA RunInvInit == RunAssumption /\ RunInit => RunInv
BY DEF RunAssumption, RunInit, NoCommand, RunningIsComplete, RunInv, RunTypeOK,
   Partial, Status, Phase, Kept, Registered

\* Steps of the start of one run.
LEMMA StartKeepsRuns ==
  ASSUME RunAssumption, RunInv, NEW r \in Runs,
         \/ Create(r) \/ OpenWorkspace(r) \/ RecordWorkspace(r)
         \/ RegisterTab(r) \/ Publish(r) \/ StartDies(r)
  PROVE  RunInv'
<1> USE DEF RunInv, RunTypeOK, Partial, Status, Phase, Kept, RunningIsComplete
<1>0. Len(Tabs) \in Nat
  BY DEF RunAssumption
<1>1. CASE Create(r)
  BY <1>1 DEF Create, Registered
<1>2. CASE OpenWorkspace(r)
  BY <1>2 DEF OpenWorkspace, Registered
<1>3. CASE RecordWorkspace(r)
  <2>1. Registered(0) = {}
    BY DEF Registered
  <2> QED BY <1>3, <2>1 DEF RecordWorkspace, Written
<1>4. CASE RegisterTab(r)
  <2>1. /\ tab[r] \in Nat /\ tab[r] < Len(Tabs)
        /\ Tabs[tab[r] + 1] \in TabNames
        /\ Registered(tab[r] + 1) = Registered(tab[r]) \cup {Tabs[tab[r] + 1]}
    BY <1>0, <1>4 DEF RegisterTab, RunAssumption, TabNames, Registered
  <2> QED BY <1>0, <1>4, <2>1 DEF RegisterTab
<1>5. CASE Publish(r)
  <2>1. TabNames = Registered(Len(Tabs))
    BY DEF RunAssumption, TabNames, Registered
  <2> QED BY <1>5, <2>1 DEF Publish, Written
<1>6. CASE StartDies(r)
  BY <1>6 DEF StartDies, Starting, Registered
<1> QED BY <1>1, <1>2, <1>3, <1>4, <1>5, <1>6

\* Steps of another command, and a workspace that is closed.
LEMMA CommandKeepsRuns ==
  ASSUME RunAssumption, RunInv, CommandStep
  PROVE  RunInv'
<1> USE DEF RunInv, RunTypeOK, Partial, Status, Phase, Kept, RunningIsComplete
<1>1. command'.name \in TabNames \cup {NoName} /\ UNCHANGED <<recorded, start, tab>>
  BY DEF CommandStep, NoCommand
<1>2. CASE UNCHANGED <<status, team>>
  BY <1>1, <1>2
<1>3. CASE /\ Kept(command.run) /\ UNCHANGED status
           /\ team' = [team EXCEPT ![command.run] = @ \cup {command.name}]
  BY <1>1, <1>3
<1>4. CASE /\ UNCHANGED team
           /\ \E s \in {"FAILED", "COMPLETED"} : status' = Written(command.run, s)
  <2>1. PICK s \in {"FAILED", "COMPLETED"} : status' = Written(command.run, s)
    BY <1>4
  <2>2. /\ status' \in [Runs -> Status]
        /\ \A q \in Runs : status'[q] = status[q] \/ (Kept(q) /\ status'[q] = s)
    BY <2>1 DEF Written
  <2> QED BY <1>1, <1>4, <2>2
<1>5. CASE status' = Erased /\ team' = [q \in Runs |-> {}]
  BY <1>1, <1>5 DEF Erased
<1> QED BY <1>2, <1>3, <1>4, <1>5 DEF CommandStep

LEMMA RunInvStep ==
  ASSUME RunAssumption, RunInv, [RunNext]_runVars
  PROVE  RunInv'
<1> USE DEF RunInv, RunTypeOK, Partial, Kept, RunningIsComplete
<1>1. ASSUME NEW r \in Runs, NEW n \in TabNames, Join(r, n)
      PROVE  RunInv'
  BY <1>1 DEF Join, Begin
<1>2. CASE \/ \E r \in Runs : \E keep, clean \in BOOLEAN : StopRun(r, keep, clean)
           \/ \E force \in BOOLEAN : RecoverStaleRun(force)
           \/ \E r \in Runs \cup {0} : CleanSmoke(r)
  <2>1. /\ command'.name = NoName
        /\ UNCHANGED <<status, recorded, workspace, team, start, tab>>
    BY <1>2 DEF StopRun, RecoverStaleRun, CleanSmoke, Begin
  <2> QED BY <2>1
<1>3. CASE CommandDies
  BY <1>3 DEF CommandDies, NoCommand
<1>4. ASSUME NEW r \in Runs, CloseWorkspace(r)
      PROVE  RunInv'
  BY <1>4 DEF CloseWorkspace
<1>5. CASE UNCHANGED runVars
  BY <1>5 DEF runVars
<1> QED BY <1>1, <1>2, <1>3, <1>4, <1>5, StartKeepsRuns, CommandKeepsRuns DEF RunNext

(* A run that `task`, the watcher or `status` finds RUNNING has its        *)
(* workspace on record and every tab registered (cmd_start), whatever      *)
(* stops, recoveries, deletions and deaths came between its saves.         *)
THEOREM RunningTeamsAreComplete ==
  RunAssumption /\ RunSpec => []RunningIsComplete
<1>1. CASE RunAssumption
  <2>1. RunInv /\ [RunNext]_runVars => RunInv'
    BY <1>1, RunInvStep
  <2>2. RunInv => RunningIsComplete
    BY DEF RunInv
  <2> QED BY <1>1, <2>1, <2>2, RunInvInit, PTL DEF RunSpec
<1> QED BY <1>1
=============================================================================
