------------------------ MODULE WorktreeCleanupProofs ------------------------
(***************************************************************************)
(* No worktree and no branch is lost, and the registry agrees with what is *)
(* on disk, for any number of processes that run any commands and die at   *)
(* any step, next to a user who does anything to the branch.               *)
(***************************************************************************)
EXTENDS WorktreeCleanup, TLAPS

Pull == [state : {"NONE", "OPEN", "MERGED", "CLOSED"}, head : Sha \cup {NoSha}]

ProcRecord == [pc : Pc, id : LeaseId, lease : Lease \cup {NoLease}, pull : Pull,
               sha : Sha \cup {NoSha}]

Waiting == {"idle", "acquire_lock", "import_lock", "adopt_lock", "link_lock", "finish_lock",
            "compact_lock"}

Refreshing == {"refresh", "refresh_write", "refresh_probe", "refresh_sync"}

Acquiring == {"acquire_lock", "acquire", "create", "uncreate", "unbranch"}

Importing == {"import_lock", "import"}

Holding == {"held", "held_view", "held_check", "remove"}

Recovering == {"recover", "recover_check", "recover_act"}

Reserving == Holding \cup Recovering \cup {"hold", "release", "complete"}

Finishing == {"finish_lock", "finish", "finish_read", "finish_view", "finish_check",
              "force_probe", "finish_review", "finish_recheck", "reserve"}

Deleting == {"delete_local", "delete_remote"}

LockKept(p) ==
  /\ proc[p].pc \notin Waiting \cup Refreshing => lock = p
  /\ proc[p].pc \in Waiting => lock # p
  /\ proc[p].pc \in Holding => held = p

CopyCurrent(p) ==
  LET row == reg.leases[proc[p].id]
      lease == proc[p].lease
  IN  proc[p].pc \notin Acquiring \cup Importing \cup {"idle"} =>
        /\ row # NoLease /\ lease # NoLease
        /\ lease.version <= row.version
        /\ lease.version = row.version => lease = row

LiveCopy(p) ==
  proc[p].pc \in {"prepare", "adopt_write", "link_view", "link_staging", "link_final", "finish_view",
             "finish_check", "force_probe", "finish_review", "finish_recheck", "reserve"} =>
    proc[p].lease.state # "REMOVED"

TargetKnown(p) ==
  proc[p].pc \in Refreshing \cup Finishing \cup Reserving \cup Deleting =>
    proc[p].lease.target # NoPr /\ reg.leases[proc[p].id].target # NoPr

ReservationHeld(p) ==
  proc[p].pc \in Reserving => HoldsReservation(reg, proc[p].id, proc[p].lease.version)

PullSeen(p) ==
  proc[p].pc \in {"held_check", "recover_check"} /\ proc[p].pull.state = "MERGED" =>
    pulls[proc[p].lease.target] = proc[p].pull

ShaReserved(p) ==
  proc[p].pc \in Holding \cup {"hold", "recover_act", "complete"} =>
    proc[p].sha = reg.reservations[proc[p].id].branchSha

MergedTip(p) ==
  proc[p].pc \in Deleting \cup {"remove", "recover_act", "complete"} =>
    pulls[proc[p].lease.target] = [state |-> "MERGED", head |-> proc[p].sha]

Removable(p) ==
  proc[p].pc = "remove" =>
    branch = proc[p].sha /\ OnBranch(proc[p].id) /\ Deployed(proc[p].lease)

GoneBeforeComplete(p) == proc[p].pc = "complete" => tree[proc[p].id] = Absent

Uncreated(p) == proc[p].pc \in {"create", "uncreate"} => ~Registered(reg, proc[p].id)

HeadKnown(p) ==
  /\ proc[p].pc = "finish_recheck" /\ proc[p].pull.state = "MERGED" => proc[p].pull.head # NoSha
  /\ proc[p].pc = "reserve" => proc[p].lease.head # NoSha

ProcInv(p) ==
  /\ LockKept(p) /\ CopyCurrent(p) /\ LiveCopy(p) /\ TargetKnown(p) /\ ReservationHeld(p)
  /\ PullSeen(p) /\ ShaReserved(p) /\ MergedTip(p) /\ Removable(p) /\ GoneBeforeComplete(p)
  /\ HeadKnown(p) /\ Uncreated(p)

TreeShape == \A id \in LeaseId : ~tree[id].dir => ~tree[id].dirty /\ ~tree[id].on

ReleaseOfLease == \A id \in LeaseId : reg.releases[id] # NoRelease => Registered(reg, id)

OpenPulls ==
  \A n \in Pr : /\ pulls[n].state # "NONE" => pulls[n].head # NoSha
                /\ pulls[n].state = "OPEN" /\ remote # NoSha => pulls[n].head = remote

CleanupInv ==
  /\ TypeOK /\ ReservationCurrent /\ RemovedTogether
  /\ TreeShape /\ ReleaseOfLease /\ OpenPulls
  /\ \A p \in Proc : ProcInv(p)
-----------------------------------------------------------------------------
(* What a step of a process leaves the others.                             *)

\* A row is left alone, or moves on: under the repository lock, or as a row without
\* a reservation does for status --refresh.
RowStep(p, id) ==
  \/ /\ reg'.leases[id] = reg.leases[id]
     /\ reg'.reservations[id] = reg.reservations[id]
  \/ /\ reg'.leases[id] # NoLease
     /\ Registered(reg, id) =>
          /\ reg'.leases[id].version > reg.leases[id].version
          /\ reg.leases[id].target # NoPr => reg'.leases[id].target # NoPr
     /\ \/ lock = p
        \/ /\ Registered(reg, id) /\ ~Reserved(reg, id)
           /\ reg'.reservations[id] = reg.reservations[id]

ProcStep(p) ==
  /\ \A q \in Proc \ {p} : proc'[q] = proc[q]
  /\ lock' = lock \/ (lock = p /\ lock' = Nobody) \/ (lock = Nobody /\ lock' = p)
  /\ held' = held \/ (held = p /\ held' = Nobody) \/ lock = p
  /\ \A id \in LeaseId : RowStep(p, id)
  /\ lock = p \/ UNCHANGED <<tree, branch>>
  /\ UNCHANGED pulls

LEMMA OthersKeep ==
  ASSUME TypeOK, TypeOK', NEW p \in Proc, ProcStep(p), NEW q \in Proc \ {p}, ProcInv(q)
  PROVE  ProcInv(q)'
<1> DEFINE id == proc[q].id
<1>1. id \in LeaseId /\ proc'[q] = proc[q] /\ p # Nobody /\ q # Nobody
  BY CleanupAssumption DEF TypeOK, ProcStep
<1>2. RowStep(p, id)
  BY <1>1 DEF ProcStep
<1> HIDE DEF id
<1>3. lock = p => proc[q].pc \in Waiting \cup Refreshing
  BY DEF ProcInv, LockKept
<1>4. LockKept(q)'
  BY <1>1, <1>3 DEF ProcStep, ProcInv, LockKept, Waiting, Refreshing, Holding
<1>5. CopyCurrent(q)'
  <2>1. reg.leases[id] \in Lease \cup {NoLease} /\ reg'.leases[id] \in Lease \cup {NoLease}
        /\ proc[q].lease \in Lease \cup {NoLease}
    BY <1>1 DEF TypeOK, Registry
  <2>2. \A l \in Lease : l.version \in Nat
    BY DEF Lease
  <2> SUFFICES ASSUME proc[q].pc \notin Acquiring \cup Importing \cup {"idle"}
               PROVE  /\ reg'.leases[id] # NoLease /\ proc[q].lease # NoLease
                      /\ proc[q].lease.version <= reg'.leases[id].version
                      /\ proc[q].lease.version = reg'.leases[id].version
                           => proc[q].lease = reg'.leases[id]
    BY <1>1 DEF CopyCurrent, id
  <2>3. /\ reg.leases[id] # NoLease /\ proc[q].lease # NoLease
        /\ proc[q].lease.version <= reg.leases[id].version
        /\ proc[q].lease.version = reg.leases[id].version => proc[q].lease = reg.leases[id]
    BY DEF ProcInv, CopyCurrent, id
  <2>4. CASE reg'.leases[id] = reg.leases[id]
    BY <2>3, <2>4
  <2>5. CASE reg'.leases[id].version > reg.leases[id].version /\ reg'.leases[id] # NoLease
    BY <2>1, <2>2, <2>3, <2>5
  <2>6. QED BY <1>2, <2>3, <2>4, <2>5 DEF RowStep, Registered
<1>6. LiveCopy(q)' /\ HeadKnown(q)'
  BY <1>1 DEF ProcInv, LiveCopy, HeadKnown
<1>7. TargetKnown(q)'
  BY <1>1, <1>2 DEF ProcInv, TargetKnown, CopyCurrent, RowStep, Registered, id, Refreshing,
                    Finishing, Reserving, Deleting, Holding, Recovering, Acquiring, Importing
<1>8. ReservationHeld(q)'
  BY <1>1, <1>2, <1>3 DEF ProcInv, ReservationHeld, RowStep, Registered, id, Waiting,
       Refreshing, Reserving, Holding, Recovering, HoldsReservation, Reserved, LeaseAt
<1>9. PullSeen(q)' /\ MergedTip(q)'
  BY <1>1 DEF ProcInv, PullSeen, MergedTip, ProcStep
<1>10. ShaReserved(q)'
  BY <1>1, <1>2, <1>3 DEF ProcInv, ShaReserved, ReservationHeld, HoldsReservation, RowStep,
       id, Waiting, Refreshing, Reserving, Holding, Recovering
<1>11. Removable(q)' /\ GoneBeforeComplete(q)'
  BY <1>1, <1>3 DEF ProcInv, Removable, GoneBeforeComplete, HeadKnown, ProcStep, OnBranch, Waiting,
       Refreshing
<1>12. Uncreated(q)'
  BY <1>1, <1>2, <1>3 DEF ProcInv, Uncreated, RowStep, Registered, id, Waiting, Refreshing
<1>13. QED BY <1>4, <1>5, <1>6, <1>7, <1>8, <1>9, <1>10, <1>11, <1>12 DEF ProcInv

RegistryInv ==
  ReservationCurrent /\ RemovedTogether /\ TreeShape /\ ReleaseOfLease /\ OpenPulls

\* A step of one process keeps the invariant when it keeps what is its own.
LEMMA ProcStepKeeps ==
  ASSUME CleanupInv, NEW p \in Proc, ProcStep(p), TypeOK', ProcInv(p)', RegistryInv'
  PROVE  CleanupInv'
<1>1. \A q \in Proc : ProcInv(q)'
  BY OthersKeep DEF CleanupInv
<1>2. QED BY <1>1 DEF CleanupInv, RegistryInv

-----------------------------------------------------------------------------
(* The small steps a process goes on by.                                   *)

ProcType == proc \in [Proc -> ProcRecord]

LEMMA StepFields ==
  ASSUME ProcType, NEW p \in Proc, NEW pc \in Pc, Step(p, pc)
  PROVE  /\ ProcType'
         /\ proc'[p].pc = pc /\ proc'[p].id = proc[p].id /\ proc'[p].lease = proc[p].lease
         /\ proc'[p].pull = proc[p].pull /\ proc'[p].sha = proc[p].sha
         /\ \A q \in Proc \ {p} : proc'[q] = proc[q]
BY DEF ProcType, ProcRecord, Step

LEMMA ReadFields ==
  ASSUME TypeOK, NEW p \in Proc, NEW pc \in Pc, Read(p, pc)
  PROVE  /\ ProcType'
         /\ proc'[p].pc = pc /\ proc'[p].id = proc[p].id
         /\ proc'[p].lease = reg.leases[proc[p].id]
         /\ proc'[p].pull = proc[p].pull /\ proc'[p].sha = proc[p].sha
         /\ \A q \in Proc \ {p} : proc'[q] = proc[q]
<1>1. reg.leases[proc[p].id] \in Lease \cup {NoLease}
  BY DEF TypeOK, Registry
<1>2. proc \in [Proc -> ProcRecord]
  BY DEF TypeOK, ProcRecord, Pull
<1>3. QED BY <1>1, <1>2 DEF ProcType, ProcRecord, Read, Row

LEMMA ViewFields ==
  ASSUME TypeOK, NEW p \in Proc, NEW n \in Pr, NEW pc \in Pc, View(p, n, pc)
  PROVE  /\ ProcType'
         /\ proc'[p].pc = pc /\ proc'[p].id = proc[p].id /\ proc'[p].lease = proc[p].lease
         /\ proc'[p].pull = pulls[n] /\ proc'[p].sha = proc[p].sha
         /\ \A q \in Proc \ {p} : proc'[q] = proc[q]
<1>1. pulls[n] \in Pull
  BY DEF TypeOK, Pull
<1>2. proc \in [Proc -> ProcRecord]
  BY DEF TypeOK, ProcRecord, Pull
<1>3. QED BY <1>1, <1>2 DEF ProcType, ProcRecord, View

LEMMA EndFields ==
  ASSUME TypeOK, NEW p \in Proc, End(p)
  PROVE  /\ ProcType' /\ proc'[p].pc = "idle"
         /\ lock' # p /\ lock' \in Proc \cup {Nobody} /\ held' \in Proc \cup {Nobody}
         /\ lock' = lock \/ (lock = p /\ lock' = Nobody)
         /\ held' = held \/ (held = p /\ held' = Nobody)
         /\ \A q \in Proc \ {p} : proc'[q] = proc[q]
<1>1. Idle \in ProcRecord /\ Idle.pc = "idle"
  <2>1. NoPull \in Pull
    BY DEF NoPull, Pull
  <2>2. FirstLease \in LeaseId
    BY CleanupAssumption
  <2>3. Idle.pc = "idle"
    BY DEF Idle
  <2>4. "idle" \in Pc
    BY DEF Pc
  <2>5. Idle \in ProcRecord
    BY <2>1, <2>2, <2>4 DEF Idle, ProcRecord
  <2>6. QED BY <2>3, <2>5
<1>2. proc \in [Proc -> ProcRecord]
  BY DEF TypeOK, ProcRecord, Pull
<1>3. QED BY <1>1, <1>2, CleanupAssumption DEF ProcType, End, TypeOK

\* An idle process has nothing to keep but that it does not hold the lock.
LEMMA IdleKeeps ==
  ASSUME NEW p \in Proc, proc'[p].pc = "idle", lock' # p
  PROVE  ProcInv(p)'
BY DEF ProcInv, LockKept, CopyCurrent, LiveCopy, TargetKnown, ReservationHeld, PullSeen,
       ShaReserved, MergedTip, Removable, GoneBeforeComplete, HeadKnown, Uncreated, Waiting, Refreshing,
       Holding, Recovering, Reserving, Finishing, Deleting

LEMMA TypeProc == TypeOK => ProcType
BY DEF TypeOK, ProcType, ProcRecord, Pull

\* What a step that only goes on must see to: its own process.
LEMMA QuietStep ==
  ASSUME CleanupInv, NEW p \in Proc, UNCHANGED <<kind, reg, tree, branch, remote, elsewhere,
           pulls, evidence, commits, edits>>,
         prepared' = prepared \/ prepared' \in [LeaseId -> [marker : BOOLEAN, deps : BOOLEAN]],
         crashes' \in 0..MaxCrashes,
         ProcType', \A q \in Proc \ {p} : proc'[q] = proc[q],
         lock' = lock \/ (lock = p /\ lock' = Nobody) \/ (lock = Nobody /\ lock' = p),
         held' = held \/ (held = p /\ held' = Nobody)
           \/ (lock = p /\ held' \in {p, Nobody}),
         ProcInv(p)'
  PROVE  CleanupInv'
<1>1. TypeOK
  BY DEF CleanupInv
<1>2. TypeOK'
  <2>1. proc' \in [Proc -> ProcRecord] /\ lock' \in Proc \cup {Nobody}
        /\ held' \in Proc \cup {Nobody}
        /\ prepared' \in [LeaseId -> [marker : BOOLEAN, deps : BOOLEAN]]
    BY <1>1 DEF ProcType, TypeOK
  <2>2. QED BY <1>1, <2>1 DEF TypeOK, ProcRecord, Pull
<1>3. ProcStep(p)
  BY DEF ProcStep, RowStep
<1>4. RegistryInv'
  BY DEF CleanupInv, RegistryInv, ReservationCurrent, RemovedTogether, TreeShape,
         ReleaseOfLease, OpenPulls, Reserved, Live, Registered
<1>5. QED BY <1>2, <1>3, <1>4, ProcStepKeeps

\* A command that returns.
LEMMA EndsQuietly ==
  ASSUME CleanupInv, NEW p \in Proc, End(p), UNCHANGED <<kind, reg, tree, branch, remote,
           elsewhere, pulls, evidence, commits, edits>>,
         prepared' = prepared \/ prepared' \in [LeaseId -> [marker : BOOLEAN, deps : BOOLEAN]],
         crashes' \in 0..MaxCrashes
  PROVE  CleanupInv'
<1>1. TypeOK
  BY DEF CleanupInv
<1>2. ProcInv(p)'
  BY <1>1, EndFields, IdleKeeps
<1>3. QED BY <1>1, <1>2, EndFields, QuietStep

LEMMA EndHereKeeps ==
  ASSUME CleanupInv, NEW p \in Proc, EndHere(p)
  PROVE  CleanupInv'
BY EndsQuietly DEF EndHere, world, CleanupInv, TypeOK

LEMMA StepKeeps ==
  ASSUME CleanupInv, NEW p \in Proc, NEW pc \in Pc, Step(p, pc),
         UNCHANGED <<reg, tree, prepared, lock, held, world>>, ProcInv(p)'
  PROVE  CleanupInv'
<1>1. TypeOK /\ ProcType
  BY TypeProc DEF CleanupInv
<1>2. QED BY <1>1, StepFields, QuietStep DEF world, TypeOK

LEMMA ReadKeeps ==
  ASSUME CleanupInv, NEW p \in Proc, NEW pc \in Pc, Read(p, pc), ProcInv(p)'
  PROVE  CleanupInv'
<1>1. TypeOK
  BY DEF CleanupInv
<1>2. UNCHANGED <<reg, tree, prepared, lock, held, world>>
  BY DEF Read
<1>3. QED BY <1>1, <1>2, ReadFields, QuietStep DEF world, TypeOK

LEMMA ViewKeeps ==
  ASSUME CleanupInv, NEW p \in Proc, NEW n \in Pr, NEW pc \in Pc, View(p, n, pc), ProcInv(p)'
  PROVE  CleanupInv'
<1>1. TypeOK
  BY DEF CleanupInv
<1>2. UNCHANGED <<reg, tree, prepared, lock, held, world>>
  BY DEF View
<1>3. QED BY <1>1, <1>2, ViewFields, QuietStep DEF world, TypeOK

\* The pull request a finishing or refreshing process asks about exists.
LEMMA TargetIsPull ==
  ASSUME CleanupInv, NEW p \in Proc,
         proc[p].pc \in Refreshing \cup Finishing \cup Reserving \cup Deleting
  PROVE  /\ proc[p].lease \in Lease /\ proc[p].lease.target \in Pr
         /\ proc[p].id \in LeaseId /\ reg.leases[proc[p].id] \in Lease
         /\ reg.leases[proc[p].id].target \in Pr
<1>1. ProcInv(p) /\ TypeOK
  BY DEF CleanupInv
<1>2. proc[p].lease # NoLease /\ reg.leases[proc[p].id] # NoLease
  BY <1>1 DEF ProcInv, CopyCurrent, Refreshing, Finishing, Reserving, Deleting, Acquiring,
              Importing, Holding, Recovering
<1>3. proc[p].lease.target # NoPr /\ reg.leases[proc[p].id].target # NoPr
  BY <1>1 DEF ProcInv, TargetKnown
<1>4. QED BY <1>1, <1>2, <1>3 DEF TypeOK, Registry, Lease

-----------------------------------------------------------------------------
(* finish, as far as the reservation.                                      *)

LEMMA FinishOpenKeeps ==
  ASSUME CleanupInv, NEW p \in Proc, FinishOpen(p)
  PROVE  CleanupInv'
<1> DEFINE id == proc[p].id
<1>1. TypeOK /\ ProcInv(p) /\ proc[p].pc = "finish"
  BY DEF CleanupInv, FinishOpen, At
<1>2. CASE EndHere(p)
  BY <1>2, EndHereKeeps
<1>3. CASE ~(Row(p).state = "REMOVED" \/ Row(p).target # proc[p].lease.target)
  <2> DEFINE next == IF Reserved(reg, id) THEN "recover" ELSE "refresh"
  <2>1. Read(p, next)
    BY <1>3 DEF FinishOpen
  <2>2. next \in Pc /\ next \in {"recover", "refresh"} /\ (next = "recover" => Reserved(reg, id))
    BY DEF Pc
  <2> HIDE DEF next
  <2>3. reg.leases[id] \in Lease /\ reg.leases[id].target # NoPr /\ lock = p /\ id \in LeaseId
    BY <1>1, TargetIsPull, CleanupAssumption
       DEF ProcInv, LockKept, Finishing, Waiting, Refreshing
  <2>4. /\ proc'[p].pc = next /\ proc'[p].id = id /\ proc'[p].lease = reg.leases[id]
        /\ UNCHANGED <<reg, lock, held>>
    BY <1>1, <2>1, <2>2, ReadFields DEF Read
  <2>5. HoldsReservation(reg, id, reg.leases[id].version) \/ next = "refresh"
    BY <2>2, <2>3 DEF CleanupInv, ReservationCurrent, HoldsReservation, LeaseAt, Live
  <2>6. reg.leases[id] # NoLease /\ reg.leases[id].version \in Nat
    BY <2>3, CleanupAssumption DEF Lease
  <2>7. ProcInv(p)'
    BY <2>2, <2>3, <2>4, <2>5, <2>6 DEF ProcInv, LockKept, CopyCurrent, LiveCopy, TargetKnown,
         ReservationHeld, PullSeen, ShaReserved, MergedTip, Removable, GoneBeforeComplete, HeadKnown,
         Uncreated, Waiting, Refreshing, Acquiring, Importing, Holding, Recovering, Reserving,
         Finishing, Deleting
  <2>8. QED BY <2>1, <2>2, <2>7, ReadKeeps
<1>4. QED BY <1>2, <1>3 DEF FinishOpen

LEMMA FinishReadKeeps ==
  ASSUME CleanupInv, NEW p \in Proc, FinishRead(p)
  PROVE  CleanupInv'
<1>1. TypeOK /\ ProcInv(p) /\ proc[p].pc = "finish_read" /\ "finish_view" \in Pc
  BY DEF CleanupInv, FinishRead, At, Pc
<1>2. CASE EndHere(p)
  BY <1>2, EndHereKeeps
<1>3. CASE Read(p, "finish_view") /\ Row(p).state # "REMOVED"
  <2>1. /\ reg.leases[proc[p].id] \in Lease /\ reg.leases[proc[p].id].target # NoPr
        /\ reg.leases[proc[p].id] # NoLease /\ reg.leases[proc[p].id].version \in Nat
        /\ lock = p
    BY <1>1, TargetIsPull, CleanupAssumption
       DEF ProcInv, LockKept, Finishing, Waiting, Refreshing, Lease
  <2>2. /\ proc'[p].pc = "finish_view" /\ proc'[p].id = proc[p].id
        /\ proc'[p].lease = reg.leases[proc[p].id] /\ UNCHANGED <<reg, lock, held>>
    BY <1>1, <1>3, ReadFields DEF Read
  <2>3. ProcInv(p)'
    BY <1>3, <2>1, <2>2 DEF Row, ProcInv, LockKept, CopyCurrent, LiveCopy, TargetKnown,
         ReservationHeld, PullSeen, ShaReserved, MergedTip, Removable, GoneBeforeComplete, HeadKnown,
         Uncreated, Waiting, Refreshing, Acquiring, Importing, Holding, Recovering, Reserving,
         Finishing, Deleting
  <2>4. QED BY <1>1, <1>3, <2>3, ReadKeeps
<1>4. QED BY <1>2, <1>3 DEF FinishRead

\* Under the lock a finish asks GitHub and goes on, or gives up.
LEMMA FinishViewKeeps ==
  ASSUME CleanupInv, NEW p \in Proc, FinishView(p) \/ FinishReview(p)
  PROVE  CleanupInv'
<1>1. TypeOK /\ ProcInv(p) /\ proc[p].pc \in {"finish_view", "finish_review"}
  BY DEF CleanupInv, FinishView, FinishReview, At
<1>2. CASE EndHere(p)
  BY <1>2, EndHereKeeps
<1>3. ASSUME NEW pc \in {"finish_check", "finish_recheck"}, View(p, proc[p].lease.target, pc)
      PROVE  CleanupInv'
  <2>1. proc[p].lease.target \in Pr /\ pc \in Pc
    BY <1>1, <1>3, TargetIsPull DEF Finishing, Pc
  <2>2. /\ proc'[p].pc = pc /\ proc'[p].id = proc[p].id /\ proc'[p].lease = proc[p].lease
        /\ UNCHANGED <<reg, lock, held>>
        /\ proc'[p].pull = pulls[proc[p].lease.target]
    BY <1>1, <1>3, <2>1, ViewFields DEF View
  <2> DEFINE pull == pulls[proc[p].lease.target]
  <2>5. pull.state = "MERGED" => pull.head # NoSha
    BY <2>1 DEF CleanupInv, OpenPulls
  <2>3. ProcInv(p)'
    BY <1>1, <1>3, <2>2, <2>5 DEF ProcInv, LockKept, CopyCurrent, LiveCopy, TargetKnown,
         ReservationHeld, PullSeen, ShaReserved, MergedTip, Removable, GoneBeforeComplete, HeadKnown,
         Uncreated, Waiting, Refreshing, Acquiring, Importing, Holding, Recovering, Reserving,
         Finishing, Deleting
  <2>4. QED BY <1>3, <2>1, <2>3, ViewKeeps
<1>4. QED BY <1>2, <1>3 DEF FinishView, FinishReview, ViewOr

LEMMA FinishCheckKeeps ==
  ASSUME CleanupInv, NEW p \in Proc, FinishCheck(p) \/ FinishRecheck(p)
  PROVE  CleanupInv'
<1>1. TypeOK /\ ProcType /\ ProcInv(p) /\ proc[p].pc \in {"finish_check", "finish_recheck"}
  BY TypeProc DEF CleanupInv, FinishCheck, FinishRecheck, At
<1>2. CASE EndHere(p)
  BY <1>2, EndHereKeeps
<1>3. ASSUME NEW pc \in {"force_probe", "finish_review", "reserve"}, Step(p, pc),
             pc = "reserve" => proc[p].lease.head # NoSha,
             UNCHANGED <<reg, tree, prepared, lock, held, world>>
      PROVE  CleanupInv'
  <2>1. pc \in Pc
    BY <1>3 DEF Pc
  <2>2. /\ proc'[p].pc = pc /\ proc'[p].id = proc[p].id /\ proc'[p].lease = proc[p].lease
    BY <1>1, <1>3, <2>1, StepFields
  <2>3. ProcInv(p)'
    BY <1>1, <1>3, <2>2 DEF ProcInv, LockKept, CopyCurrent, LiveCopy, TargetKnown,
         ReservationHeld, PullSeen, ShaReserved, MergedTip, Removable, GoneBeforeComplete, HeadKnown,
         Uncreated, Waiting, Refreshing, Acquiring, Importing, Holding, Recovering, Reserving,
         Finishing, Deleting
  <2>4. QED BY <1>3, <2>1, <2>3, StepKeeps
<1>4. CASE FinishCheck(p)
  <2> DEFINE next == IF proc[p].lease.purpose = "promote" THEN "force_probe"
                     ELSE "finish_review"
  <2>1. next \in {"force_probe", "finish_review"}
    OBVIOUS
  <2>2. EndHere(p) \/ (Step(p, next) /\ UNCHANGED <<reg, tree, prepared, lock, held, world>>)
    BY <1>4 DEF FinishCheck
  <2> HIDE DEF next
  <2>3. QED BY <1>2, <1>3, <2>1, <2>2
<1>5. CASE FinishRecheck(p)
  <2>1. CASE ProvenSafe(proc[p].id, proc[p].lease, proc[p].pull)
             /\ Step(p, "reserve") /\ UNCHANGED <<reg, tree, prepared, lock, held, world>>
    <3>1. proc[p].lease.head # NoSha
      BY <1>1, <1>5, <2>1 DEF ProvenSafe, Completed, ProcInv, HeadKnown, FinishRecheck, At
    <3>2. QED BY <1>3, <2>1, <3>1
  <2>2. QED BY <1>2, <1>5, <2>1 DEF FinishRecheck
<1>6. QED BY <1>4, <1>5

-----------------------------------------------------------------------------
(* The reservation held: the branch is locked and everything asked again.  *)

LEMMA HoldKeeps ==
  ASSUME CleanupInv, NEW p \in Proc, HoldBranch(p)
  PROVE  CleanupInv'
<1>1. TypeOK /\ ProcType /\ ProcInv(p) /\ proc[p].pc = "hold" /\ {"held", "release"} \subseteq Pc
  BY TypeProc DEF CleanupInv, HoldBranch, At, Pc
<1>2. /\ UNCHANGED <<reg, tree, prepared, lock, world>>
      /\ \/ held' = p /\ Step(p, "held")
         \/ held' = held /\ Step(p, "release")
  BY DEF HoldBranch
<1>3. /\ ProcType' /\ proc'[p].pc \in {"held", "release"} /\ proc'[p].id = proc[p].id
      /\ proc'[p].lease = proc[p].lease /\ proc'[p].sha = proc[p].sha
      /\ proc'[p].pc = "held" => held' = p
      /\ \A q \in Proc \ {p} : proc'[q] = proc[q]
  BY <1>1, <1>2, StepFields
<1>4. ProcInv(p)'
  BY <1>1, <1>2, <1>3 DEF ProcInv, LockKept, CopyCurrent, LiveCopy, TargetKnown,
       ReservationHeld, PullSeen, ShaReserved, MergedTip, Removable, GoneBeforeComplete, HeadKnown,
       Uncreated, Waiting, Refreshing, Acquiring, Importing, Holding, Recovering, Reserving,
       Finishing, Deleting
<1>5. lock = p
  BY <1>1 DEF ProcInv, LockKept, Waiting, Refreshing
<1>6. QED BY <1>1, <1>2, <1>3, <1>4, <1>5, QuietStep DEF world, TypeOK

\* Giving the branch back before giving up.
LEMMA UnholdKeeps ==
  ASSUME CleanupInv, NEW p \in Proc, proc[p].pc \in Holding, Unhold(p, "release")
  PROVE  CleanupInv'
<1>1. TypeOK /\ ProcType /\ ProcInv(p) /\ "release" \in Pc
  BY TypeProc DEF CleanupInv, Pc
<1>2. Step(p, "release") /\ held' = Nobody /\ UNCHANGED <<reg, tree, prepared, lock, world>>
  BY DEF Unhold
<1>3. /\ ProcType' /\ proc'[p].pc = "release" /\ proc'[p].id = proc[p].id
      /\ proc'[p].lease = proc[p].lease
      /\ \A q \in Proc \ {p} : proc'[q] = proc[q]
  BY <1>1, <1>2, StepFields
<1>4. ProcInv(p)'
  BY <1>1, <1>2, <1>3 DEF ProcInv, LockKept, CopyCurrent, LiveCopy, TargetKnown,
       ReservationHeld, PullSeen, ShaReserved, MergedTip, Removable, GoneBeforeComplete, HeadKnown,
       Uncreated, Waiting, Refreshing, Acquiring, Importing, Holding, Recovering, Reserving,
       Finishing, Deleting
<1>5. lock = p
  BY <1>1 DEF ProcInv, LockKept, Waiting, Refreshing, Holding
<1>6. QED BY <1>1, <1>2, <1>3, <1>4, <1>5, QuietStep DEF world, TypeOK

LEMMA HeldReadKeeps ==
  ASSUME CleanupInv, NEW p \in Proc, HeldRead(p)
  PROVE  CleanupInv'
<1>1. TypeOK /\ ProcInv(p) /\ proc[p].pc = "held" /\ "held_view" \in Pc
  BY DEF CleanupInv, HeldRead, At, Pc
<1>2. CASE Unhold(p, "release")
  BY <1>1, <1>2, UnholdKeeps DEF Holding
<1>3. CASE Read(p, "held_view")
  <2>1. /\ reg.leases[proc[p].id] \in Lease /\ reg.leases[proc[p].id].target # NoPr
        /\ reg.leases[proc[p].id] # NoLease /\ reg.leases[proc[p].id].version \in Nat
    BY <1>1, TargetIsPull, CleanupAssumption
       DEF ProcInv, LockKept, Reserving, Holding, Lease
  <2>2. /\ proc'[p].pc = "held_view" /\ proc'[p].id = proc[p].id
        /\ proc'[p].lease = reg.leases[proc[p].id] /\ proc'[p].sha = proc[p].sha
        /\ UNCHANGED <<reg, lock, held>>
    BY <1>1, <1>3, ReadFields DEF Read
  <2>3. HoldsReservation(reg, proc[p].id, reg.leases[proc[p].id].version)
    BY <1>1 DEF ProcInv, ReservationHeld, Reserving, Holding, HoldsReservation, LeaseAt
  <2>4. ProcInv(p)'
    BY <1>1, <2>1, <2>2, <2>3 DEF ProcInv, LockKept, CopyCurrent, LiveCopy, TargetKnown,
         ReservationHeld, PullSeen, ShaReserved, MergedTip, Removable, GoneBeforeComplete, HeadKnown,
         Uncreated, Waiting, Refreshing, Acquiring, Importing, Holding, Recovering, Reserving,
         Finishing, Deleting
  <2>5. QED BY <1>1, <1>3, <2>4, ReadKeeps
<1>4. QED BY <1>2, <1>3 DEF HeldRead

LEMMA HeldViewKeeps ==
  ASSUME CleanupInv, NEW p \in Proc, HeldView(p) \/ RecoverView(p)
  PROVE  CleanupInv'
<1>1. TypeOK /\ ProcInv(p) /\ proc[p].pc \in {"held_view", "recover"}
  BY DEF CleanupInv, HeldView, RecoverView, At
<1>2. CASE EndHere(p)
  BY <1>2, EndHereKeeps
<1>3. CASE Unhold(p, "release") /\ HeldView(p)
  BY <1>3, UnholdKeeps DEF Holding, HeldView, At
<1>4. ASSUME NEW pc \in {"held_check", "recover_check"}, View(p, proc[p].lease.target, pc),
             pc = "held_check" => proc[p].pc = "held_view"
      PROVE  CleanupInv'
  <2>1. proc[p].lease.target \in Pr /\ pc \in Pc
    BY <1>1, <1>4, TargetIsPull DEF Reserving, Holding, Recovering, Pc
  <2>2. /\ proc'[p].pc = pc /\ proc'[p].id = proc[p].id /\ proc'[p].lease = proc[p].lease
        /\ proc'[p].pull = pulls[proc[p].lease.target] /\ proc'[p].sha = proc[p].sha
        /\ UNCHANGED <<reg, lock, held, pulls>>
    BY <1>1, <1>4, <2>1, ViewFields DEF View, world
  <2>3. ProcInv(p)'
    BY <1>1, <1>4, <2>2 DEF ProcInv, LockKept, CopyCurrent, LiveCopy, TargetKnown,
         ReservationHeld, PullSeen, ShaReserved, MergedTip, Removable, GoneBeforeComplete, HeadKnown,
         Uncreated, Waiting, Refreshing, Acquiring, Importing, Holding, Recovering, Reserving,
         Finishing, Deleting
  <2>4. QED BY <1>4, <2>1, <2>3, ViewKeeps
<1>5. CASE HeldView(p)
  BY <1>3, <1>4, <1>5 DEF HeldView, ViewOr, At
<1>6. CASE RecoverView(p)
  BY <1>2, <1>4, <1>6 DEF RecoverView, ViewOr, At
<1>7. QED BY <1>5, <1>6

\* A process with a reservation has the row it reserved, at the head it reserved.
LEMMA HolderHasRow ==
  ASSUME CleanupInv, NEW p \in Proc, proc[p].pc \in Reserving
  PROVE  /\ lock = p /\ proc[p].id \in LeaseId
         /\ proc[p].lease = reg.leases[proc[p].id] /\ proc[p].lease \in Lease
         /\ Reserved(reg, proc[p].id) /\ Live(reg, proc[p].id)
         /\ reg.reservations[proc[p].id].branchSha = proc[p].lease.head
         /\ proc[p].lease.head \in Sha
<1>1. TypeOK /\ ProcInv(p) /\ ReservationCurrent
  BY DEF CleanupInv
<1>2. proc[p].lease \in Lease /\ proc[p].id \in LeaseId
  BY TargetIsPull
<1>3. HoldsReservation(reg, proc[p].id, proc[p].lease.version)
  BY <1>1 DEF ProcInv, ReservationHeld
<1>4. proc[p].lease = reg.leases[proc[p].id]
  BY <1>1, <1>3 DEF ProcInv, CopyCurrent, HoldsReservation, LeaseAt, Reserving, Holding,
                    Recovering, Acquiring, Importing
<1>5. lock = p
  BY <1>1 DEF ProcInv, LockKept, Reserving, Holding, Recovering, Waiting, Refreshing
<1>6. /\ Reserved(reg, proc[p].id) /\ Live(reg, proc[p].id)
      /\ reg.reservations[proc[p].id].branchSha = proc[p].lease.head
  BY <1>1, <1>2, <1>3, <1>4 DEF HoldsReservation, ReservationCurrent
<1>7. reg.reservations[proc[p].id] \in Reservation
  BY <1>1, <1>2, <1>6 DEF TypeOK, Registry, Reserved
<1>8. proc[p].lease.head \in Sha
  BY <1>6, <1>7 DEF Reservation
<1>9. QED BY <1>2, <1>4, <1>5, <1>6, <1>8

\* What was asked under the reservation still stands when the worktree goes.
LEMMA HeldCheckKeeps ==
  ASSUME CleanupInv, NEW p \in Proc, HeldCheck(p)
  PROVE  CleanupInv'
<1>1. TypeOK /\ ProcType /\ ProcInv(p) /\ proc[p].pc = "held_check" /\ "remove" \in Pc
  BY TypeProc DEF CleanupInv, HeldCheck, At, Pc
<1>2. CASE Unhold(p, "release")
  BY <1>1, <1>2, UnholdKeeps DEF Holding
<1>3. CASE /\ ProvenSafe(proc[p].id, proc[p].lease, proc[p].pull) /\ Deployed(proc[p].lease)
           /\ Step(p, "remove") /\ UNCHANGED <<reg, tree, prepared, lock, held, world>>
  <2>1. /\ proc'[p].pc = "remove" /\ proc'[p].id = proc[p].id
        /\ proc'[p].lease = proc[p].lease /\ proc'[p].sha = proc[p].sha
    BY <1>1, <1>3, StepFields
  <2>2. proc[p].sha = proc[p].lease.head
    BY <1>1, HolderHasRow DEF ProcInv, ShaReserved, Reserving, Holding
  <2>3. branch = proc[p].sha /\ OnBranch(proc[p].id)
    BY <1>3, <2>2 DEF ProvenSafe
  <2>4. pulls[proc[p].lease.target] = [state |-> "MERGED", head |-> proc[p].sha]
    <3>1. /\ pulls[proc[p].lease.target] = proc[p].pull
          /\ proc[p].pull.state = "MERGED" /\ proc[p].pull.head = proc[p].sha
      BY <1>1, <1>3, <2>2 DEF ProvenSafe, Completed, ProcInv, PullSeen
    <3>2. proc[p].pull \in Pull
      BY <1>1 DEF ProcType, ProcRecord
    <3>3. QED BY <3>1, <3>2 DEF Pull
  <2>5. UNCHANGED <<reg, tree, lock, held, branch, pulls>>
    BY <1>3 DEF world
  <2>6. ProcInv(p)'
    BY <1>1, <1>3, <2>1, <2>3, <2>4, <2>5
       DEF ProcInv, LockKept, CopyCurrent, LiveCopy, TargetKnown, OnBranch,
         ReservationHeld, PullSeen, ShaReserved, MergedTip, Removable, GoneBeforeComplete, HeadKnown,
         Uncreated, Waiting, Refreshing, Acquiring, Importing, Holding, Recovering, Reserving,
         Finishing, Deleting
  <2>7. QED BY <1>1, <1>3, <2>6, StepKeeps
<1>4. QED BY <1>2, <1>3 DEF HeldCheck

LEMMA RecoverCheckKeeps ==
  ASSUME CleanupInv, NEW p \in Proc, RecoverCheck(p)
  PROVE  CleanupInv'
<1>1. TypeOK /\ ProcType /\ ProcInv(p) /\ proc[p].pc = "recover_check" /\ "recover_act" \in Pc
  BY TypeProc DEF CleanupInv, RecoverCheck, At, Pc
<1>2. CASE EndHere(p)
  BY <1>2, EndHereKeeps
<1>3. CASE /\ Recoverable(proc[p].lease, reg.reservations[proc[p].id], proc[p].pull)
           /\ proc' = [proc EXCEPT ![p].pc = "recover_act",
                                   ![p].sha = reg.reservations[proc[p].id].branchSha]
           /\ UNCHANGED <<reg, tree, prepared, lock, held, world>>
  <2> DEFINE tip == reg.reservations[proc[p].id].branchSha
  <2>1. tip = proc[p].lease.head /\ tip \in Sha
    BY <1>1, HolderHasRow DEF Reserving, Recovering
  <2>2. pulls[proc[p].lease.target] = [state |-> "MERGED", head |-> tip]
    <3>1. /\ pulls[proc[p].lease.target] = proc[p].pull
          /\ proc[p].pull.state = "MERGED" /\ proc[p].pull.head = tip
      BY <1>1, <1>3, <2>1 DEF Recoverable, Completed, ProcInv, PullSeen
    <3>2. proc[p].pull \in Pull
      BY <1>1 DEF ProcType, ProcRecord
    <3>3. QED BY <3>1, <3>2 DEF Pull
  <2> HIDE DEF tip
  <2>3. proc' = [proc EXCEPT ![p].pc = "recover_act", ![p].sha = tip]
    BY <1>3 DEF tip
  <2>4. /\ ProcType' /\ proc'[p].pc = "recover_act" /\ proc'[p].id = proc[p].id
        /\ proc'[p].lease = proc[p].lease /\ proc'[p].sha = tip
        /\ \A q \in Proc \ {p} : proc'[q] = proc[q]
    BY <1>1, <2>1, <2>3 DEF ProcType, ProcRecord
  <2>5. UNCHANGED <<reg, tree, lock, held, branch, pulls>>
    BY <1>3 DEF world
  <2>6. ProcInv(p)'
    BY <1>1, <2>2, <2>4, <2>5
       DEF tip, ProcInv, LockKept, CopyCurrent, LiveCopy, TargetKnown,
         ReservationHeld, PullSeen, ShaReserved, MergedTip, Removable, GoneBeforeComplete, HeadKnown,
         Uncreated, Waiting, Refreshing, Acquiring, Importing, Holding, Recovering, Reserving,
         Finishing, Deleting
  <2>7. QED BY <1>1, <1>3, <2>4, <2>6, QuietStep DEF world, TypeOK
<1>4. QED BY <1>2, <1>3 DEF RecoverCheck

\* Recovery completes only what is gone with git's record of it.
LEMMA RecoverActKeeps ==
  ASSUME CleanupInv, NEW p \in Proc, RecoverAct(p)
  PROVE  CleanupInv'
<1> DEFINE id == proc[p].id
<1>1. TypeOK /\ ProcType /\ ProcInv(p) /\ proc[p].pc = "recover_act"
      /\ {"release", "complete"} \subseteq Pc
  BY TypeProc DEF CleanupInv, RecoverAct, At, Pc
<1>2. CASE EndHere(p)
  BY <1>2, EndHereKeeps
<1>3. ASSUME NEW pc \in {"release", "complete"}, Step(p, pc),
             pc = "complete" => ~tree[id].dir /\ ~tree[id].admin,
             UNCHANGED <<reg, tree, prepared, lock, held, world>>
      PROVE  CleanupInv'
  <2>1. /\ proc'[p].pc = pc /\ proc'[p].id = proc[p].id
        /\ proc'[p].lease = proc[p].lease /\ proc'[p].sha = proc[p].sha
    BY <1>1, <1>3, StepFields
  <2>2. pc = "complete" => tree[id] = Absent
    <3>1. id \in LeaseId
      BY <1>1 DEF TypeOK
    <3>2. tree[id] \in [dir : BOOLEAN, admin : BOOLEAN, dirty : BOOLEAN, on : BOOLEAN]
      BY <1>1, <3>1 DEF TypeOK
    <3>3. ~tree[id].dir => ~tree[id].dirty /\ ~tree[id].on
      BY <3>1 DEF CleanupInv, TreeShape
    <3>4. QED BY <1>3, <3>2, <3>3 DEF Absent
  <2>3. UNCHANGED <<reg, tree, lock, held, branch, pulls>>
    BY <1>3 DEF world
  <2>4. ProcInv(p)'
    BY <1>1, <1>3, <2>1, <2>2, <2>3
       DEF ProcInv, LockKept, CopyCurrent, LiveCopy, TargetKnown,
         ReservationHeld, PullSeen, ShaReserved, MergedTip, Removable, GoneBeforeComplete, HeadKnown,
         Uncreated, Waiting, Refreshing, Acquiring, Importing, Holding, Recovering, Reserving,
         Finishing, Deleting
  <2>5. QED BY <1>1, <1>3, <2>4, StepKeeps
<1>4. CASE /\ Step(p, IF tree[id].dir \/ tree[id].admin THEN "release" ELSE "complete")
           /\ UNCHANGED <<reg, tree, prepared, lock, held, world>>
  <2>1. CASE tree[id].dir \/ tree[id].admin
    BY <1>3, <1>4, <2>1
  <2>2. CASE ~(tree[id].dir \/ tree[id].admin)
    BY <1>3, <1>4, <2>2
  <2>3. QED BY <2>1, <2>2
<1>5. QED BY <1>2, <1>4 DEF RecoverAct

-----------------------------------------------------------------------------
(* Writes of one row.                                                      *)

LEMMA BumpedLease ==
  ASSUME NEW l \in Lease
  PROVE  /\ Bumped(l) \in Lease /\ Bumped(l).version = l.version + 1
         /\ Bumped(l).state = l.state /\ Bumped(l).head = l.head
         /\ Bumped(l).target = l.target /\ Bumped(l).deployment = l.deployment
         /\ Bumped(l).purpose = l.purpose /\ l.version \in Nat
BY DEF Bumped, Lease

LEMMA TransitionEffect ==
  ASSUME reg \in Registry, NEW id \in LeaseId, NEW l \in Lease
  PROVE  LET new == Transition(reg, id, l)
         IN  /\ new \in Registry
             /\ new.leases[id] = Bumped(l)
             /\ \A other \in LeaseId \ {id} : new.leases[other] = reg.leases[other]
             /\ new.reservations = reg.reservations /\ new.releases = reg.releases
<1>1. Bumped(l) \in Lease
  BY BumpedLease
<1>2. QED BY <1>1 DEF Transition, Registry

\* transition and touch write a live row without a reservation, and leave it live.
LEMMA RowWritten ==
  ASSUME CleanupInv, NEW p \in Proc, NEW id \in LeaseId, NEW l \in Lease,
         reg' = Transition(reg, id, l), Live(reg, id), ~Reserved(reg, id),
         l.state # "REMOVED", l.version = reg.leases[id].version,
         reg.leases[id].target # NoPr => l.target # NoPr,
         UNCHANGED <<tree, remote, pulls>>
  PROVE  /\ RegistryInv' /\ reg' \in Registry
         /\ reg'.leases[id] = Bumped(l)
         /\ \A i \in LeaseId : RowStep(p, i)
<1>1. /\ reg' \in Registry
      /\ reg'.leases[id] = Bumped(l)
      /\ \A other \in LeaseId \ {id} : reg'.leases[other] = reg.leases[other]
      /\ reg'.reservations = reg.reservations /\ reg'.releases = reg.releases
  BY TransitionEffect DEF CleanupInv, TypeOK
<1>2. /\ Bumped(l) # NoLease /\ Bumped(l).version = l.version + 1 /\ l.version \in Nat
      /\ Bumped(l).state = l.state /\ Bumped(l).target = l.target
  BY BumpedLease, CleanupAssumption
<1>3. ReservationCurrent'
  BY <1>1 DEF CleanupInv, ReservationCurrent, Reserved, Live, Registered
<1>4. RemovedTogether'
  BY <1>1, <1>2 DEF CleanupInv, RemovedTogether, Reserved, Live, Registered
<1>5. TreeShape' /\ OpenPulls'
  BY DEF CleanupInv, TreeShape, OpenPulls
<1>6. ReleaseOfLease'
  BY <1>1, <1>2 DEF CleanupInv, ReleaseOfLease, Registered
<1>7. ASSUME NEW i \in LeaseId PROVE RowStep(p, i)
  BY <1>1, <1>2 DEF RowStep, Live, Registered, Reserved
<1>8. QED BY <1>1, <1>3, <1>4, <1>5, <1>6, <1>7 DEF RegistryInv

\* The step that writes it, of a process that sees to itself.
LEMMA WriteStep ==
  ASSUME CleanupInv, NEW p \in Proc, RegistryInv', reg' \in Registry,
         \A i \in LeaseId : RowStep(p, i),
         ProcType', \A q \in Proc \ {p} : proc'[q] = proc[q],
         UNCHANGED <<tree, world>>,
         prepared' \in [LeaseId -> [marker : BOOLEAN, deps : BOOLEAN]],
         lock' = lock \/ (lock = p /\ lock' = Nobody),
         held' = held \/ (held = p /\ held' = Nobody),
         ProcInv(p)'
  PROVE  CleanupInv'
<1>1. TypeOK
  BY DEF CleanupInv
<1>2. TypeOK'
  <2>1. /\ proc' \in [Proc -> ProcRecord] /\ lock' \in Proc \cup {Nobody}
        /\ held' \in Proc \cup {Nobody}
    BY <1>1 DEF ProcType, TypeOK
  <2>2. QED BY <1>1, <2>1 DEF TypeOK, ProcRecord, Pull, world
<1>3. ProcStep(p)
  BY DEF ProcStep, world
<1>4. QED BY <1>2, <1>3, ProcStepKeeps

\* A command that writes one row, if it may, and returns.
LEMMA WriteAndEnd ==
  ASSUME CleanupInv, NEW p \in Proc, End(p), UNCHANGED <<tree, world>>,
         prepared' = prepared,
         \/ reg' = reg
         \/ \E id \in LeaseId, l \in Lease :
              /\ reg' = Transition(reg, id, l) /\ Live(reg, id) /\ ~Reserved(reg, id)
              /\ l.state # "REMOVED" /\ l.version = reg.leases[id].version
              /\ reg.leases[id].target # NoPr => l.target # NoPr
  PROVE  CleanupInv'
<1>1. TypeOK
  BY DEF CleanupInv
<1>2. CASE reg' = reg
  BY <1>1, <1>2, EndsQuietly DEF world, TypeOK
<1>3. ASSUME NEW id \in LeaseId, NEW l \in Lease,
             reg' = Transition(reg, id, l), Live(reg, id), ~Reserved(reg, id),
             l.state # "REMOVED", l.version = reg.leases[id].version,
             reg.leases[id].target # NoPr => l.target # NoPr
      PROVE  CleanupInv'
  <2>1. RegistryInv' /\ reg' \in Registry /\ \A i \in LeaseId : RowStep(p, i)
    BY <1>3, RowWritten DEF world
  <2>2. ProcInv(p)'
    BY <1>1, EndFields, IdleKeeps
  <2>3. prepared' \in [LeaseId -> [marker : BOOLEAN, deps : BOOLEAN]]
    BY <1>1 DEF TypeOK
  <2>4. QED BY <1>1, <2>1, <2>2, <2>3, EndFields, WriteStep
<1>4. QED BY <1>2, <1>3

\* A compare-and-set that succeeds: the row is the copy the process has.
LEMMA CopyIsRow ==
  ASSUME CleanupInv, NEW p \in Proc,
         proc[p].pc \notin Acquiring \cup Importing \cup {"idle"}
  PROVE  /\ proc[p].id \in LeaseId /\ proc[p].lease \in Lease
         /\ reg.leases[proc[p].id] \in Lease
         /\ CanTransition(reg, proc[p].id, proc[p].lease.version) =>
              /\ reg.leases[proc[p].id] = proc[p].lease
              /\ Registered(reg, proc[p].id) /\ ~Reserved(reg, proc[p].id)
<1>1. TypeOK /\ CopyCurrent(p)
  BY DEF CleanupInv, ProcInv
<1>2. proc[p].id \in LeaseId /\ proc[p].lease \in Lease /\ reg.leases[proc[p].id] \in Lease
  BY <1>1 DEF TypeOK, Registry, CopyCurrent
<1>3. QED BY <1>1, <1>2 DEF CopyCurrent, CanTransition, LeaseAt

\* The row it writes is its copy with some fields changed, never the version.
LEMMA WriteOfCopy ==
  ASSUME CleanupInv, NEW p \in Proc, End(p), UNCHANGED <<tree, prepared, world>>,
         proc[p].pc \notin Acquiring \cup Importing \cup {"idle"},
         NEW l \in Lease, l.state # "REMOVED", l.version = proc[p].lease.version,
         proc[p].lease.target # NoPr => l.target # NoPr,
         proc[p].lease.state # "REMOVED",
         \/ reg' = reg
         \/ /\ CanTransition(reg, proc[p].id, proc[p].lease.version)
            /\ reg' = Transition(reg, proc[p].id, l)
  PROVE  CleanupInv'
<1>1. CASE reg' = reg
  BY <1>1, WriteAndEnd
<1>2. CASE /\ CanTransition(reg, proc[p].id, proc[p].lease.version)
           /\ reg' = Transition(reg, proc[p].id, l)
  <2>1. /\ reg.leases[proc[p].id] = proc[p].lease /\ proc[p].id \in LeaseId
        /\ Registered(reg, proc[p].id) /\ ~Reserved(reg, proc[p].id)
    BY <1>2, CopyIsRow
  <2>2. Live(reg, proc[p].id)
    BY <2>1 DEF Live
  <2>3. QED BY <1>2, <2>1, <2>2, WriteAndEnd
<1>3. QED BY <1>1, <1>2

LEMMA AdoptKeeps ==
  ASSUME CleanupInv, NEW p \in Proc, Adopt(p)
  PROVE  CleanupInv'
<1> DEFINE id == proc[p].id
           l  == [reg.leases[id] EXCEPT !.managed = TRUE]
<1>1. proc[p].pc = "adopt" /\ End(p) /\ UNCHANGED <<tree, prepared, world>>
  BY DEF Adopt, At
<1>2. id \in LeaseId /\ reg.leases[id] \in Lease
  BY <1>1, CopyIsRow DEF Acquiring, Importing
<1>3. \/ reg' = reg
      \/ /\ Adoptable(id, reg.leases[id])
         /\ CanTransition(reg, id, reg.leases[id].version)
         /\ reg' = Transition(reg, id, l)
  BY DEF Adopt
<1>4. /\ l \in Lease /\ l.state = reg.leases[id].state
      /\ l.version = reg.leases[id].version /\ l.target = reg.leases[id].target
  BY <1>2 DEF Lease
<1> HIDE DEF l
<1>5. CASE reg' = reg
  BY <1>1, <1>5, WriteAndEnd
<1>6. CASE /\ Adoptable(id, reg.leases[id])
           /\ CanTransition(reg, id, reg.leases[id].version)
           /\ reg' = Transition(reg, id, l)
  <2>1. Live(reg, id) /\ ~Reserved(reg, id) /\ reg.leases[id].state # "REMOVED"
    BY <1>6 DEF Adoptable, CanTransition, LeaseAt, Live
  <2>2. QED BY <1>1, <1>2, <1>4, <1>6, <2>1, WriteAndEnd
<1>7. QED BY <1>3, <1>5, <1>6

LEMMA AdoptWithPrKeeps ==
  ASSUME CleanupInv, NEW p \in Proc, AdoptWithPr(p)
  PROVE  CleanupInv'
<1> DEFINE l == [proc[p].lease EXCEPT !.managed = TRUE, !.target = Final]
<1>1. /\ proc[p].pc = "adopt_write" /\ End(p) /\ UNCHANGED <<tree, prepared, world>>
      /\ ProcInv(p)
  BY DEF AdoptWithPr, At, CleanupInv
<1>2. proc[p].lease \in Lease /\ proc[p].lease.state # "REMOVED"
  BY <1>1, CopyIsRow DEF Acquiring, Importing, ProcInv, LiveCopy
<1>3. /\ l \in Lease /\ l.state = proc[p].lease.state
      /\ l.version = proc[p].lease.version /\ l.target # NoPr
  BY <1>2, CleanupAssumption DEF Lease
<1>4. \/ reg' = reg
      \/ /\ CanTransition(reg, proc[p].id, proc[p].lease.version)
         /\ reg' = Transition(reg, proc[p].id, l)
  BY DEF AdoptWithPr
<1> HIDE DEF l
<1>5. QED BY <1>1, <1>2, <1>3, <1>4, WriteOfCopy DEF Acquiring, Importing

\* The row that link_final writes.
FinalLink(row, sha) ==
  [row EXCEPT !.state = "CLEANABLE", !.target = Final, !.head = sha,
              !.deployment = "NOT_REQUIRED"]

\* A row stays a row when the final pull request of its branch is linked.
LEMMA FinalLinkType ==
  ASSUME NEW row \in Lease, NEW sha \in Sha \cup {NoSha}, Final \in Pr
  PROVE  /\ FinalLink(row, sha) \in Lease
         /\ FinalLink(row, sha).state = "CLEANABLE"
         /\ FinalLink(row, sha).target = Final
         /\ FinalLink(row, sha).version = row.version
<1> DEFINE m == [row EXCEPT !.state = "CLEANABLE", !.head = sha, !.deployment = "NOT_REQUIRED"]
<1>1. m \in Lease /\ m.state = "CLEANABLE" /\ m.version = row.version
  BY DEF Lease, LeaseState, DeploymentState
<1>2. FinalLink(row, sha) = [m EXCEPT !.target = Final]
  BY DEF Lease, FinalLink
<1> HIDE DEF m
<1>3. QED BY <1>1, <1>2 DEF Lease

LEMMA LinkWriteKeeps ==
  ASSUME CleanupInv, NEW p \in Proc, LinkStaging(p) \/ LinkFinal(p)
  PROVE  CleanupInv'
<1>1. /\ proc[p].pc \in {"link_staging", "link_final"} /\ ProcInv(p) /\ TypeOK
  BY DEF LinkStaging, LinkFinal, At, CleanupInv
<1>2. proc[p].lease \in Lease /\ proc[p].lease.state # "REMOVED"
  BY <1>1, CopyIsRow DEF Acquiring, Importing, ProcInv, LiveCopy
<1>3. CASE EndHere(p)
  BY <1>3, EndHereKeeps
<1>4. ASSUME NEW l \in Lease, WriteLink(p, l), l.state # "REMOVED",
             l.version = proc[p].lease.version, proc[p].lease.target # NoPr => l.target # NoPr
      PROVE  CleanupInv'
  <2>1. /\ End(p) /\ UNCHANGED <<tree, prepared, world>>
        /\ \/ reg' = reg
           \/ /\ CanTransition(reg, proc[p].id, proc[p].lease.version)
              /\ reg' = Transition(reg, proc[p].id, l)
    BY <1>4 DEF WriteLink
  <2>2. QED BY <1>1, <1>2, <1>4, <2>1, WriteOfCopy DEF Acquiring, Importing
<1>5. branch \in Sha \cup {NoSha} /\ Final \in Pr /\ Final # NoPr
  BY <1>1, CleanupAssumption DEF TypeOK
<1>6. CASE LinkStaging(p)
  <2> DEFINE l == [proc[p].lease EXCEPT !.state = "ACTIVE", !.staged = branch,
                                        !.head = branch, !.deployment = "NOT_REQUIRED"]
  <2>1. /\ l \in Lease /\ l.state # "REMOVED" /\ l.version = proc[p].lease.version
        /\ l.target = proc[p].lease.target
    BY <1>2, <1>5 DEF Lease, LeaseState, DeploymentState
  <2>2. EndHere(p) \/ WriteLink(p, l)
    BY <1>6 DEF LinkStaging
  <2> HIDE DEF l
  <2>3. QED BY <1>3, <1>4, <2>1, <2>2
<1>7. CASE LinkFinal(p)
  <2>1. EndHere(p) \/ WriteLink(p, FinalLink(proc[p].lease, branch))
    BY <1>7 DEF LinkFinal, FinalLink
  <2>2. /\ FinalLink(proc[p].lease, branch) \in Lease
        /\ FinalLink(proc[p].lease, branch).state = "CLEANABLE"
        /\ FinalLink(proc[p].lease, branch).target = Final
        /\ FinalLink(proc[p].lease, branch).version = proc[p].lease.version
    BY <1>2, <1>5, FinalLinkType
  <2>3. QED BY <1>3, <1>4, <1>5, <2>1, <2>2
<1>8. QED BY <1>6, <1>7

LEMMA RunPrepareKeeps ==
  ASSUME CleanupInv, NEW p \in Proc, RunPrepare(p)
  PROVE  CleanupInv'
<1> DEFINE id == proc[p].id
<1>1. TypeOK /\ ProcType /\ ProcInv(p) /\ proc[p].pc = "prepare" /\ "mark" \in Pc
      /\ UNCHANGED <<tree, world>>
  BY TypeProc DEF CleanupInv, RunPrepare, At, Pc
<1>2. CASE /\ prepared' = [prepared EXCEPT ![id].deps = TRUE] /\ Step(p, "mark")
           /\ UNCHANGED <<reg, lock, held>>
  <2>1. /\ ProcType' /\ proc'[p].pc = "mark" /\ proc'[p].id = id
        /\ proc'[p].lease = proc[p].lease /\ \A q \in Proc \ {p} : proc'[q] = proc[q]
    BY <1>1, <1>2, StepFields
  <2>2. prepared' \in [LeaseId -> [marker : BOOLEAN, deps : BOOLEAN]]
    BY <1>1, <1>2 DEF TypeOK
  <2>3. ProcInv(p)'
    BY <1>1, <1>2, <2>1
       DEF ProcInv, LockKept, CopyCurrent, LiveCopy, TargetKnown,
         ReservationHeld, PullSeen, ShaReserved, MergedTip, Removable, GoneBeforeComplete, HeadKnown,
         Uncreated, Waiting, Refreshing, Acquiring, Importing, Holding, Recovering, Reserving,
         Finishing, Deleting
  <2>4. QED BY <1>1, <1>2, <2>1, <2>2, <2>3, QuietStep DEF world, TypeOK
<1>3. CASE /\ reg' = IF CanTransition(reg, id, proc[p].lease.version)
                       THEN Transition(reg, id, [reg.leases[id] EXCEPT !.state = "BLOCKED"])
                       ELSE reg
           /\ End(p) /\ UNCHANGED prepared
  <2>1. proc[p].lease \in Lease /\ proc[p].lease.state # "REMOVED"
    BY <1>1, CopyIsRow DEF Acquiring, Importing, ProcInv, LiveCopy
  <2> DEFINE l == [proc[p].lease EXCEPT !.state = "BLOCKED"]
  <2>2. /\ l \in Lease /\ l.state # "REMOVED" /\ l.version = proc[p].lease.version
        /\ l.target = proc[p].lease.target
    BY <2>1 DEF Lease, LeaseState
  <2>3. \/ reg' = reg
        \/ /\ CanTransition(reg, id, proc[p].lease.version) /\ reg' = Transition(reg, id, l)
    BY <1>1, <1>3, CopyIsRow DEF Acquiring, Importing
  <2> HIDE DEF l
  <2>4. QED BY <1>1, <1>3, <2>1, <2>2, <2>3, WriteOfCopy DEF Acquiring, Importing
<1>4. QED BY <1>2, <1>3 DEF RunPrepare

-----------------------------------------------------------------------------
(* status --refresh, and the refresh inside finish.                        *)

\* A refresh goes on, to finish when it is under the lock, or returns.
LEMMA RefreshStep ==
  ASSUME CleanupInv, NEW p \in Proc, proc[p].pc \in Refreshing,
         UNCHANGED <<tree, prepared, world>>,
         \/ AfterRefresh(p)
         \/ \E pc \in Refreshing : Step(p, pc) /\ UNCHANGED <<lock, held>>,
         RegistryInv', reg' \in Registry, \A i \in LeaseId : RowStep(p, i)
  PROVE  CleanupInv'
<1>1. TypeOK /\ ProcType /\ ProcInv(p) /\ "finish_read" \in Pc /\ Refreshing \subseteq Pc
  BY TypeProc DEF CleanupInv, Pc, Refreshing
<1>2. CASE End(p)
  <2>1. ProcInv(p)'
    BY <1>1, <1>2, EndFields, IdleKeeps
  <2>2. QED BY <1>1, <1>2, <2>1, EndFields, WriteStep DEF TypeOK
<1>3. ASSUME NEW pc \in Refreshing \cup {"finish_read"}, Step(p, pc), UNCHANGED <<lock, held>>,
             pc = "finish_read" => lock = p
      PROVE  CleanupInv'
  <2> DEFINE id == proc[p].id
  <2>1. /\ ProcType' /\ proc'[p].pc = pc /\ proc'[p].id = id
        /\ proc'[p].lease = proc[p].lease /\ \A q \in Proc \ {p} : proc'[q] = proc[q]
    BY <1>1, <1>3, StepFields
  <2>2. /\ proc[p].lease \in Lease /\ id \in LeaseId
        /\ reg.leases[id] \in Lease /\ reg.leases[id].target # NoPr /\ RowStep(p, id)
    BY <1>1, TargetIsPull, CleanupAssumption
  <2>3. CopyCurrent(p)'
    <3>1. /\ reg.leases[id] # NoLease /\ proc[p].lease # NoLease
          /\ proc[p].lease.version <= reg.leases[id].version
          /\ proc[p].lease.version = reg.leases[id].version => proc[p].lease = reg.leases[id]
      BY <1>1 DEF ProcInv, CopyCurrent, Refreshing, Acquiring, Importing
    <3>2. reg'.leases[id] \in Lease \cup {NoLease} /\ \A l \in Lease : l.version \in Nat
      BY <2>2 DEF Registry, Lease
    <3>3. CASE reg'.leases[id] = reg.leases[id]
      BY <2>1, <3>1, <3>3 DEF CopyCurrent
    <3>4. CASE reg'.leases[id] # NoLease /\ reg'.leases[id].version > reg.leases[id].version
      BY <2>1, <2>2, <3>1, <3>2, <3>4 DEF CopyCurrent
    <3>5. QED BY <2>2, <3>1, <3>3, <3>4 DEF RowStep, Registered
  <2>4. TargetKnown(p)'
    <3>1. reg'.leases[id].target # NoPr
      BY <2>2, CleanupAssumption DEF RowStep, Registered
    <3>2. proc[p].lease.target # NoPr
      BY <1>1 DEF ProcInv, TargetKnown
    <3>3. QED BY <2>1, <3>1, <3>2 DEF TargetKnown
  <2>5. ProcInv(p)'
    BY <1>3, <2>1, <2>3, <2>4
       DEF ProcInv, LockKept, LiveCopy, ReservationHeld, PullSeen, ShaReserved, MergedTip,
         Removable, GoneBeforeComplete, HeadKnown, Uncreated, Waiting, Refreshing, Acquiring,
         Importing, Holding, Recovering, Reserving, Finishing, Deleting
  <2>6. prepared' \in [LeaseId -> [marker : BOOLEAN, deps : BOOLEAN]]
    BY <1>1 DEF TypeOK
  <2>7. QED BY <1>3, <2>1, <2>5, <2>6, WriteStep
<1>4. CASE \E pc \in Refreshing : Step(p, pc) /\ UNCHANGED <<lock, held>>
  <2>1. PICK pc \in Refreshing : Step(p, pc) /\ UNCHANGED <<lock, held>>
    BY <1>4
  <2>2. pc \in Refreshing \cup {"finish_read"} /\ pc # "finish_read"
    BY DEF Refreshing
  <2>3. QED BY <1>3, <2>1, <2>2
<1>5. CASE AfterRefresh(p)
  <2>1. CASE lock = p
    BY <1>3, <1>5, <2>1 DEF AfterRefresh
  <2>2. CASE lock # p
    BY <1>2, <1>5, <2>2 DEF AfterRefresh
  <2>3. QED BY <2>1, <2>2
<1>6. QED BY <1>4, <1>5

\* What a refresh may write: nothing, or the row with another state and deployment.
LEMMA RefreshWritten ==
  ASSUME CleanupInv, NEW p \in Proc, proc[p].pc \in Refreshing,
         UNCHANGED <<tree, prepared, world>>,
         \/ reg' = reg
         \/ /\ Refreshable(p)
            /\ \E state \in LeaseState \ {"REMOVED"}, deployment \in DeploymentState :
                 reg' = Transition(reg, proc[p].id, [Row(p) EXCEPT !.state = state,
                                                                   !.deployment = deployment])
  PROVE  RegistryInv' /\ reg' \in Registry /\ \A i \in LeaseId : RowStep(p, i)
<1>1. CASE reg' = reg
  BY <1>1 DEF CleanupInv, RegistryInv, ReservationCurrent, RemovedTogether, TreeShape,
         ReleaseOfLease, OpenPulls, Reserved, Live, Registered, RowStep, TypeOK, world
<1>2. ASSUME Refreshable(p), NEW state \in LeaseState \ {"REMOVED"},
             NEW deployment \in DeploymentState,
             reg' = Transition(reg, proc[p].id, [Row(p) EXCEPT !.state = state,
                                                               !.deployment = deployment])
      PROVE  RegistryInv' /\ reg' \in Registry /\ \A i \in LeaseId : RowStep(p, i)
  <2> DEFINE id == proc[p].id
             l  == [Row(p) EXCEPT !.state = state, !.deployment = deployment]
  <2>1. id \in LeaseId /\ Row(p) \in Lease /\ Row(p) = reg.leases[id]
    BY TargetIsPull DEF Row
  <2>2. /\ l \in Lease /\ l.state # "REMOVED" /\ l.version = reg.leases[id].version
        /\ l.target = reg.leases[id].target
    BY <2>1 DEF Lease
  <2>3. Live(reg, id) /\ ~Reserved(reg, id)
    BY <1>2, <2>1, CleanupAssumption DEF Refreshable, Live, Registered
  <2>4. UNCHANGED <<tree, remote, pulls>> /\ reg' = Transition(reg, id, l)
    BY <1>2 DEF world
  <2> HIDE DEF id, l
  <2>5. QED BY <2>1, <2>2, <2>3, <2>4, RowWritten
<1>3. QED BY <1>1, <1>2

LEMMA RefreshWriteKeeps ==
  ASSUME CleanupInv, NEW p \in Proc, RefreshWrite(p) \/ RefreshProbe(p)
  PROVE  CleanupInv'
<1>1. /\ proc[p].pc \in Refreshing /\ UNCHANGED <<tree, prepared, world>>
      /\ Row(p) \in Lease
  <2>1. /\ proc[p].pc \in Refreshing /\ UNCHANGED <<tree, prepared, world>>
    BY DEF RefreshWrite, RefreshProbe, At, Refreshing
  <2>2. QED BY <2>1, TargetIsPull DEF Row
<1>2. Row(p).deployment \in DeploymentState
  BY <1>1 DEF Lease
<1>3. ASSUME NEW state \in LeaseState \ {"REMOVED"}, NEW deployment \in DeploymentState
      PROVE  \/ Refreshed(p, state, deployment) = reg
             \/ \E s \in LeaseState \ {"REMOVED"}, d \in DeploymentState :
                  Refreshed(p, state, deployment)
                    = Transition(reg, proc[p].id, [Row(p) EXCEPT !.state = s, !.deployment = d])
  BY DEF Refreshed
<1>4. /\ {"BLOCKED", "PR_OPEN", "CLEANABLE", "CLOSED_UNMERGED", "DEPLOYING"}
           \subseteq LeaseState \ {"REMOVED"}
      /\ {"UNKNOWN", "NOT_REQUIRED", "HEALTHY", "FAILED", "PENDING"} \subseteq DeploymentState
      /\ {"refresh_probe", "refresh_sync"} \subseteq Refreshing
  BY DEF LeaseState, DeploymentState, Refreshing
<1>5. /\ \/ reg' = reg
         \/ /\ Refreshable(p)
            /\ \E state \in LeaseState \ {"REMOVED"}, deployment \in DeploymentState :
                 \/ reg' = Refreshed(p, state, deployment)
                 \/ reg' = Transition(reg, proc[p].id, [Row(p) EXCEPT !.state = state,
                                                                   !.deployment = deployment])
      /\ \/ AfterRefresh(p)
         \/ \E pc \in Refreshing : Step(p, pc) /\ UNCHANGED <<lock, held>>
  <2>1. CASE RefreshWrite(p)
    <3>1. \/ AfterRefresh(p)
          \/ \E pc \in Refreshing : Step(p, pc) /\ UNCHANGED <<lock, held>>
      BY <1>4, <2>1 DEF RefreshWrite
    <3>2. \/ reg' = reg
          \/ /\ Refreshable(p)
             /\ \E state \in LeaseState \ {"REMOVED"}, deployment \in DeploymentState :
                  reg' = Refreshed(p, state, deployment)
      BY <1>2, <1>4, <2>1 DEF RefreshWrite
    <3>3. QED BY <3>1, <3>2
  <2>2. CASE RefreshProbe(p)
    <3>1. \/ AfterRefresh(p)
          \/ \E pc \in Refreshing : Step(p, pc) /\ UNCHANGED <<lock, held>>
      BY <1>4, <2>2 DEF RefreshProbe
    <3>2. \/ reg' = reg
          \/ /\ Refreshable(p)
             /\ \E state \in LeaseState \ {"REMOVED"}, deployment \in DeploymentState :
                  \/ reg' = Refreshed(p, state, deployment)
                  \/ reg' = Transition(reg, proc[p].id, [Row(p) EXCEPT !.state = state,
                                                                   !.deployment = deployment])
      BY <1>4, <2>2 DEF RefreshProbe
    <3>3. QED BY <3>1, <3>2
  <2>3. QED BY <2>1, <2>2
<1>6. \/ reg' = reg
      \/ /\ Refreshable(p)
         /\ \E state \in LeaseState \ {"REMOVED"}, deployment \in DeploymentState :
              reg' = Transition(reg, proc[p].id, [Row(p) EXCEPT !.state = state,
                                                                !.deployment = deployment])
  BY <1>3, <1>5
<1>7. RegistryInv' /\ reg' \in Registry /\ \A i \in LeaseId : RowStep(p, i)
  BY <1>1, <1>6, RefreshWritten
<1>8. QED BY <1>1, <1>5, <1>7, RefreshStep

\* The bridge follows its pull request, and only a published one can.
LEMMA RefreshSyncKeeps ==
  ASSUME CleanupInv, NEW p \in Proc, RefreshSync(p)
  PROVE  CleanupInv'
<1> DEFINE id == proc[p].id
           state == IF Completed(proc[p].pull) THEN "MERGED" ELSE "CLOSED_UNMERGED"
<1>1. /\ proc[p].pc \in Refreshing /\ UNCHANGED <<tree, prepared, world>> /\ AfterRefresh(p)
      /\ reg' = IF CanSync(reg, id, state) THEN SyncRelease(reg, id, state) ELSE reg
  BY DEF RefreshSync, At, Refreshing
<1>2. id \in LeaseId /\ reg \in Registry /\ state \in {"MERGED", "CLOSED_UNMERGED"}
  BY <1>1, TargetIsPull DEF CleanupInv, TypeOK
<1> HIDE DEF state
<1>3. CASE reg' = reg
  BY <1>1, <1>3, RefreshWritten, RefreshStep
<1>4. CASE /\ reg.releases[id] # NoRelease /\ reg.releases[id].state # state
           /\ ValidReleaseTransition(reg.releases[id].state, state)
           /\ reg' = [reg EXCEPT !.releases[id] = Bumped([@ EXCEPT !.state = state])]
  <2> DEFINE release == reg.releases[id]
             new == Bumped([release EXCEPT !.state = state])
  <2>1. release \in Release
    BY <1>2, <1>4 DEF Registry
  <2>2. new \in Release /\ new.state = state
    <3>1. [release EXCEPT !.state = state] \in Release /\ state \in ReleaseState
      BY <1>2, <2>1 DEF Release, ReleaseState
    <3>2. [release EXCEPT !.state = state].state = state
      BY <2>1 DEF Release
    <3>3. ASSUME NEW r \in Release PROVE Bumped(r) \in Release /\ Bumped(r).state = r.state
      BY DEF Bumped, Release
    <3>4. QED BY <3>1, <3>2, <3>3
  <2> HIDE DEF new
  <2>3. /\ reg'.leases = reg.leases /\ reg'.reservations = reg.reservations
        /\ reg'.releases[id] = new
        /\ \A other \in LeaseId \ {id} : reg'.releases[other] = reg.releases[other]
        /\ reg' \in Registry
    BY <1>2, <1>4, <2>2 DEF Registry, new
  <2>4. release.state = "PUBLISHED"
    BY <1>2, <1>4, <2>1 DEF ValidReleaseTransition, ReleaseSuccessors, Release, ReleaseState
  <2>5. reg.leases[id].state # "REMOVED" /\ Registered(reg, id)
    BY <1>2, <1>4, <2>4 DEF CleanupInv, RemovedTogether, ReleaseOfLease
  <2>6. RemovedTogether'
    <3>1. \A other \in LeaseId \ {id} : reg'.releases[other] = reg.releases[other]
      BY <2>3
    <3>2. state # "CLEANED"
      BY <1>2
    <3>3. QED BY <1>1, <1>2, <2>2, <2>3, <2>5, <3>2
              DEF CleanupInv, RemovedTogether, Reserved, Registered
  <2>7. ReservationCurrent' /\ TreeShape' /\ OpenPulls'
    BY <1>1, <2>3 DEF CleanupInv, ReservationCurrent, Reserved, Live, Registered, TreeShape,
                      OpenPulls, world
  <2>8. ReleaseOfLease'
    BY <2>3, <2>5 DEF CleanupInv, ReleaseOfLease, Registered
  <2>9. \A i \in LeaseId : RowStep(p, i)
    BY <2>3 DEF RowStep
  <2>10. QED BY <1>1, <2>3, <2>6, <2>7, <2>8, <2>9, RefreshStep DEF RegistryInv
<1>5. QED BY <1>1, <1>3, <1>4 DEF CanSync, SyncRelease

-----------------------------------------------------------------------------
(* Writes after which the process goes on.                                 *)

LEMMA ForceProbeKeeps ==
  ASSUME CleanupInv, NEW p \in Proc, ForceProbe(p)
  PROVE  CleanupInv'
<1> DEFINE id == proc[p].id
           l  == Probed(proc[p].lease)
<1>1. /\ TypeOK /\ ProcType /\ ProcInv(p) /\ proc[p].pc = "force_probe"
      /\ "finish_review" \in Pc /\ UNCHANGED <<tree, prepared, world>>
  BY TypeProc DEF CleanupInv, ForceProbe, At, Pc
<1>2. /\ proc[p].lease \in Lease /\ proc[p].lease.target # NoPr /\ id \in LeaseId
      /\ proc[p].lease.state # "REMOVED" /\ lock = p
  BY <1>1, TargetIsPull, CleanupAssumption
     DEF Finishing, ProcInv, LiveCopy, LockKept, Waiting, Refreshing
<1>3. /\ l \in Lease /\ l.state # "REMOVED" /\ l.version = proc[p].lease.version
      /\ l.target = proc[p].lease.target
  BY <1>2 DEF Probed, Lease, LeaseState, DeploymentState
<1> HIDE DEF l
<1>4. CASE ~CanTransition(reg, id, proc[p].lease.version)
  BY <1>1, <1>2, <1>3, <1>4, WriteOfCopy DEF ForceProbe, Acquiring, Importing
<1>5. CASE CanTransition(reg, id, proc[p].lease.version) /\ End(p)
  BY <1>1, <1>2, <1>3, <1>5, WriteOfCopy DEF ForceProbe, Acquiring, Importing, l
<1>6. CASE /\ CanTransition(reg, id, proc[p].lease.version)
           /\ proc' = [proc EXCEPT ![p].pc = "finish_review", ![p].lease = Bumped(l)]
           /\ UNCHANGED <<lock, held>>
  <2>1. reg' = Transition(reg, id, l)
    BY <1>6 DEF ForceProbe, l
  <2>2. /\ reg.leases[id] = proc[p].lease /\ Live(reg, id) /\ ~Reserved(reg, id)
    BY <1>1, <1>2, <1>6, CopyIsRow DEF Acquiring, Importing, Live
  <2>3. /\ RegistryInv' /\ reg' \in Registry /\ reg'.leases[id] = Bumped(l)
        /\ \A i \in LeaseId : RowStep(p, i)
    BY <1>1, <1>2, <1>3, <2>1, <2>2, RowWritten DEF world
  <2>4. Bumped(l) \in Lease /\ Bumped(l).state = l.state /\ Bumped(l).target = l.target
        /\ Bumped(l).version \in Nat
    BY <1>3, BumpedLease DEF Lease
  <2>5. /\ ProcType' /\ proc'[p].pc = "finish_review" /\ proc'[p].id = id
        /\ proc'[p].lease = Bumped(l) /\ \A q \in Proc \ {p} : proc'[q] = proc[q]
    BY <1>1, <1>6, <2>4 DEF ProcType, ProcRecord
  <2>6. Bumped(l) # NoLease
    BY <2>4, CleanupAssumption
  <2>7. ProcInv(p)'
    BY <1>2, <1>3, <1>6, <2>3, <2>4, <2>5, <2>6
       DEF ProcInv, LockKept, CopyCurrent, LiveCopy, TargetKnown,
         ReservationHeld, PullSeen, ShaReserved, MergedTip, Removable, GoneBeforeComplete, HeadKnown,
         Uncreated, Waiting, Refreshing, Acquiring, Importing, Holding, Recovering, Reserving,
         Finishing, Deleting
  <2>8. prepared' \in [LeaseId -> [marker : BOOLEAN, deps : BOOLEAN]]
    BY <1>1 DEF TypeOK
  <2>9. QED BY <1>1, <1>6, <2>3, <2>5, <2>7, <2>8, WriteStep
<1>7. QED
  <2>1. CASE evidence = "healthy"
    BY <1>4, <1>6, <2>1 DEF ForceProbe, l
  <2>2. CASE evidence # "healthy"
    BY <1>4, <1>5, <2>2 DEF ForceProbe
  <2>3. QED BY <2>1, <2>2

LEMMA ReuseLeaseKeeps ==
  ASSUME CleanupInv, NEW p \in Proc, ReuseLease(p)
  PROVE  CleanupInv'
<1>1. /\ TypeOK /\ ProcType /\ ProcInv(p) /\ proc[p].pc = "acquire"
      /\ {"end", "prepare"} \subseteq Pc
  BY TypeProc DEF CleanupInv, ReuseLease, At, Pc
<1>2. CASE EndHere(p)
  BY <1>2, EndHereKeeps
<1>3. ASSUME NEW id \in LeaseId, NEW pc \in {"end", "prepare"}, Live(reg, id), Reusable(id),
             reg' = Touch(reg, id, branch),
             proc' = [proc EXCEPT ![p] = [@ EXCEPT !.id = id, !.lease = reg'.leases[id],
                                                   !.pc = pc]],
             UNCHANGED <<tree, prepared, lock, held, world>>
      PROVE  CleanupInv'
  <2> DEFINE l == [reg.leases[id] EXCEPT !.head = branch]
  <2>1. reg.leases[id] \in Lease /\ branch \in Sha \cup {NoSha}
    BY <1>1, <1>3 DEF TypeOK, Registry, Live, Registered
  <2>2. /\ l \in Lease /\ l.state = reg.leases[id].state /\ l.version = reg.leases[id].version
        /\ l.target = reg.leases[id].target
    BY <2>1 DEF Lease
  <2>3. reg' = Transition(reg, id, l)
    BY <1>1, <1>3 DEF Touch, Transition, TypeOK, Registry
  <2> HIDE DEF l
  <2>4. ~Reserved(reg, id) /\ reg.leases[id].state = "ACTIVE"
    BY <1>3 DEF Reusable, CanTransition
  <2>5. /\ RegistryInv' /\ reg' \in Registry /\ reg'.leases[id] = Bumped(l)
        /\ \A i \in LeaseId : RowStep(p, i)
    BY <1>3, <2>2, <2>3, <2>4, RowWritten DEF world
  <2>6. /\ Bumped(l) \in Lease /\ Bumped(l).state = "ACTIVE" /\ Bumped(l).version \in Nat
        /\ Bumped(l) # NoLease
    BY <2>2, <2>4, BumpedLease, CleanupAssumption DEF Lease
  <2>7. /\ ProcType' /\ proc'[p].pc = pc /\ proc'[p].id = id
        /\ proc'[p].lease = Bumped(l) /\ \A q \in Proc \ {p} : proc'[q] = proc[q]
    BY <1>1, <1>3, <2>5, <2>6 DEF ProcType, ProcRecord
  <2>8. lock = p
    BY <1>1 DEF ProcInv, LockKept, Waiting, Refreshing
  <2>9. ProcInv(p)'
    BY <1>3, <2>5, <2>6, <2>7, <2>8
       DEF ProcInv, LockKept, CopyCurrent, LiveCopy, TargetKnown,
         ReservationHeld, PullSeen, ShaReserved, MergedTip, Removable, GoneBeforeComplete, HeadKnown,
         Uncreated, Waiting, Refreshing, Acquiring, Importing, Holding, Recovering, Reserving,
         Finishing, Deleting
  <2>10. prepared' \in [LeaseId -> [marker : BOOLEAN, deps : BOOLEAN]]
    BY <1>1, <1>3 DEF TypeOK
  <2>11. QED BY <1>3, <2>5, <2>7, <2>9, <2>10, WriteStep
<1>4. QED
  <2>1. PICK id \in LeaseId :
          /\ Live(reg, id)
          /\ IF Reusable(id)
             THEN /\ reg' = Touch(reg, id, branch)
                  /\ proc' = [proc EXCEPT
                       ![p] = [@ EXCEPT !.id = id, !.lease = reg'.leases[id],
                         !.pc = IF prepared[id].marker THEN "end" ELSE "prepare"]]
                  /\ UNCHANGED <<tree, prepared, lock, held, world>>
             ELSE EndHere(p)
    BY DEF ReuseLease
  <2>2. CASE Reusable(id) /\ prepared[id].marker
    BY <1>3, <2>1, <2>2
  <2>3. CASE Reusable(id) /\ ~prepared[id].marker
    BY <1>3, <2>1, <2>3
  <2>4. CASE ~Reusable(id)
    BY <1>2, <2>1, <2>4
  <2>5. QED BY <2>2, <2>3, <2>4

LEMMA ReserveKeeps ==
  ASSUME CleanupInv, NEW p \in Proc, Reserve(p)
  PROVE  CleanupInv'
<1> DEFINE id == proc[p].id
           l  == proc[p].lease
<1>1. /\ TypeOK /\ ProcType /\ ProcInv(p) /\ proc[p].pc = "reserve" /\ "hold" \in Pc
  BY TypeProc DEF CleanupInv, Reserve, At, Pc
<1>2. /\ l \in Lease /\ l.target # NoPr /\ id \in LeaseId /\ lock = p /\ l.head # NoSha
  BY <1>1, TargetIsPull, CleanupAssumption
     DEF Finishing, ProcInv, LockKept, Waiting, Refreshing, HeadKnown
<1>3. CASE EndHere(p)
  BY <1>3, EndHereKeeps
<1>4. CASE /\ branch = l.head /\ CanReserve(reg, id, l.version)
           /\ reg' = ReserveCleanup(reg, id, branch)
           /\ proc' = [proc EXCEPT ![p].pc = "hold", ![p].lease = Bumped(l), ![p].sha = branch]
           /\ UNCHANGED <<tree, prepared, lock, held, world>>
  <2> DEFINE r == [version |-> l.version + 1, branchSha |-> branch]
  <2>1. reg.leases[id] = l /\ Live(reg, id) /\ ~Reserved(reg, id)
    BY <1>1, <1>2, <1>4, CopyIsRow
       DEF CanReserve, CanTransition, LeaseAt, Live, Acquiring, Importing
  <2>2. branch \in Sha /\ l.version \in Nat
    BY <1>1, <1>2, <1>4 DEF TypeOK, Lease
  <2>3. r \in Reservation
    BY <2>2 DEF Reservation
  <2>4. /\ Bumped(l) \in Lease /\ Bumped(l).version = l.version + 1 /\ Bumped(l).head = l.head
        /\ Bumped(l).state = l.state /\ Bumped(l).target = l.target /\ Bumped(l) # NoLease
    BY <1>2, BumpedLease, CleanupAssumption
  <2>5. /\ reg' \in Registry /\ reg'.leases[id] = Bumped(l) /\ reg'.reservations[id] = r
        /\ \A other \in LeaseId \ {id} : /\ reg'.leases[other] = reg.leases[other]
                                         /\ reg'.reservations[other] = reg.reservations[other]
        /\ reg'.releases = reg.releases
    BY <1>1, <1>2, <1>4, <2>1, <2>3, <2>4 DEF ReserveCleanup, Registry, TypeOK
  <2>6. r.version = l.version + 1 /\ r.branchSha = branch
    OBVIOUS
  <2> HIDE DEF r
  <2>7. ReservationCurrent'
    <3>1. ReservationCurrent
      BY DEF CleanupInv
    <3>2. Live(reg', id) /\ r.version = Bumped(l).version /\ r.branchSha = Bumped(l).head
      BY <1>4, <2>1, <2>4, <2>5, <2>6 DEF Live, Registered
    <3>3. QED BY <2>5, <3>1, <3>2 DEF ReservationCurrent, Reserved, Live, Registered
  <2>8. RemovedTogether' /\ ReleaseOfLease'
    <3>1. RemovedTogether /\ ReleaseOfLease
      BY DEF CleanupInv
    <3>2. Registered(reg', id) /\ reg'.leases[id].state = reg.leases[id].state
      BY <2>1, <2>4, <2>5 DEF Registered
    <3>3. reg.leases[id].state # "REMOVED" /\ Registered(reg, id) /\ tree' = tree
      BY <1>4, <2>1 DEF Live
    <3>4. QED BY <2>5, <3>1, <3>2, <3>3 DEF RemovedTogether, ReleaseOfLease, Reserved, Registered
  <2>9. TreeShape' /\ OpenPulls'
    BY <1>4 DEF CleanupInv, TreeShape, OpenPulls, world
  <2>10. \A i \in LeaseId : RowStep(p, i)
    BY <1>2, <2>1, <2>2, <2>4, <2>5 DEF RowStep
  <2>11. /\ ProcType' /\ proc'[p].pc = "hold" /\ proc'[p].id = id
         /\ proc'[p].lease = Bumped(l) /\ proc'[p].sha = branch
         /\ \A q \in Proc \ {p} : proc'[q] = proc[q]
    BY <1>1, <1>4, <2>2, <2>4 DEF ProcType, ProcRecord
  <2>12. HoldsReservation(reg', id, Bumped(l).version)
    <3>1. NoReservation \notin Reservation
      BY CleanupAssumption
    <3>2. QED BY <2>3, <2>4, <2>5, <2>6, <3>1 DEF HoldsReservation, Reserved, LeaseAt, Registered
  <2>13. ProcInv(p)'
    <3>1. lock' = p /\ reg'.leases[id].version = Bumped(l).version
      BY <1>2, <1>4, <2>5
    <3>2. reg'.reservations[id].branchSha = branch /\ Bumped(l).version \in Nat
      BY <2>2, <2>4, <2>5, <2>6
    <3>3. QED BY <1>2, <2>4, <2>5, <2>11, <2>12, <3>1, <3>2
       DEF ProcInv, LockKept, CopyCurrent, LiveCopy, TargetKnown,
         ReservationHeld, PullSeen, ShaReserved, MergedTip, Removable, GoneBeforeComplete, HeadKnown,
         Uncreated, Waiting, Refreshing, Acquiring, Importing, Holding, Recovering, Reserving,
         Finishing, Deleting
  <2>14. prepared' \in [LeaseId -> [marker : BOOLEAN, deps : BOOLEAN]]
    BY <1>1, <1>4 DEF TypeOK
  <2>15. QED BY <1>4, <2>5, <2>7, <2>8, <2>9, <2>10, <2>11, <2>13, <2>14, WriteStep
             DEF RegistryInv
<1>5. QED BY <1>3, <1>4 DEF Reserve

\* The row is removed with its reservation and its bridge, and nothing is left at its path.
LEMMA CompleteKeeps ==
  ASSUME CleanupInv, NEW p \in Proc, Complete(p)
  PROVE  CleanupInv'
<1> DEFINE id == proc[p].id
           l  == [proc[p].lease EXCEPT !.state = "REMOVED"]
<1>1. /\ TypeOK /\ ProcType /\ ProcInv(p) /\ proc[p].pc = "complete" /\ "delete_local" \in Pc
  BY TypeProc DEF CleanupInv, Complete, At, Pc
<1>2. CASE EndHere(p)
  BY <1>2, EndHereKeeps
<1>3. CASE /\ CanComplete(reg, id, proc[p].lease.version)
           /\ reg' = CompleteCleanup(reg, id) /\ Step(p, "delete_local")
           /\ UNCHANGED <<tree, prepared, lock, held, world>>
  <2>1. /\ lock = p /\ id \in LeaseId /\ proc[p].lease = reg.leases[id]
        /\ proc[p].lease \in Lease /\ Live(reg, id) /\ proc[p].lease.target # NoPr
    BY <1>1, HolderHasRow, TargetIsPull, CleanupAssumption DEF Reserving
  <2>2. /\ l \in Lease /\ l.state = "REMOVED" /\ l.version = proc[p].lease.version
        /\ l.target = proc[p].lease.target
    BY <2>1 DEF Lease, LeaseState
  <2> DEFINE release == IF reg.releases[id] = NoRelease THEN reg.releases[id]
                        ELSE Bumped([reg.releases[id] EXCEPT !.state = "CLEANED"])
  <2>3. /\ release \in Release \cup {NoRelease}
        /\ reg.releases[id] # NoRelease => release.state = "CLEANED"
        /\ reg.releases[id] = NoRelease => release = NoRelease
    <3>1. reg.releases[id] \in Release \cup {NoRelease}
      BY <1>1, <2>1 DEF TypeOK, Registry
    <3>2. ASSUME NEW r \in Release
          PROVE  /\ Bumped([r EXCEPT !.state = "CLEANED"]) \in Release
                 /\ Bumped([r EXCEPT !.state = "CLEANED"]).state = "CLEANED"
      <4>1. [r EXCEPT !.state = "CLEANED"] \in Release
            /\ [r EXCEPT !.state = "CLEANED"].state = "CLEANED"
        BY DEF Release, ReleaseState
      <4>2. ASSUME NEW s \in Release PROVE Bumped(s) \in Release /\ Bumped(s).state = s.state
        BY DEF Bumped, Release
      <4>3. QED BY <4>1, <4>2
    <3>3. QED BY <3>1, <3>2
  <2>4. /\ Bumped(l) \in Lease /\ Bumped(l).version = l.version + 1 /\ l.version \in Nat
        /\ Bumped(l).state = "REMOVED" /\ Bumped(l).target = l.target /\ Bumped(l) # NoLease
    BY <2>2, BumpedLease, CleanupAssumption
  <2> HIDE DEF release
  <2>5. reg' = [reg EXCEPT !.leases[id] = Bumped(l), !.releases[id] = release,
                           !.reservations[id] = NoReservation]
    BY <1>1, <1>3, <2>1 DEF CompleteCleanup, release, TypeOK, Registry
  <2> HIDE DEF l
  <2>6. /\ reg' \in Registry /\ reg'.leases[id] = Bumped(l)
        /\ reg'.reservations[id] = NoReservation /\ reg'.releases[id] = release
        /\ \A other \in LeaseId \ {id} :
             /\ reg'.leases[other] = reg.leases[other]
             /\ reg'.reservations[other] = reg.reservations[other]
             /\ reg'.releases[other] = reg.releases[other]
    BY <1>1, <2>1, <2>3, <2>4, <2>5 DEF Registry, TypeOK
  <2>7. tree'[id] = Absent
    BY <1>1, <1>3 DEF ProcInv, GoneBeforeComplete
  <2>8. ReservationCurrent'
    BY <2>6 DEF CleanupInv, ReservationCurrent, Reserved, Live, Registered
  <2>9. RemovedTogether'
    BY <1>3, <2>3, <2>4, <2>6, <2>7 DEF CleanupInv, RemovedTogether, Reserved, Registered
  <2>10. ReleaseOfLease' /\ TreeShape' /\ OpenPulls'
    BY <1>3, <2>4, <2>6 DEF CleanupInv, ReleaseOfLease, Registered, TreeShape, OpenPulls, world
  <2>11. \A i \in LeaseId : RowStep(p, i)
    BY <2>1, <2>2, <2>4, <2>6 DEF RowStep
  <2>12. /\ ProcType' /\ proc'[p].pc = "delete_local" /\ proc'[p].id = id
         /\ proc'[p].lease = proc[p].lease /\ proc'[p].sha = proc[p].sha
         /\ \A q \in Proc \ {p} : proc'[q] = proc[q]
    BY <1>1, <1>3, StepFields
  <2>13. CopyCurrent(p)'
    BY <2>1, <2>2, <2>4, <2>6, <2>12, CleanupAssumption DEF CopyCurrent
  <2>14. TargetKnown(p)' /\ MergedTip(p)'
    BY <1>1, <1>3, <2>1, <2>2, <2>4, <2>6, <2>12 DEF TargetKnown, ProcInv, MergedTip, Deleting, world
  <2>15. ProcInv(p)'
    BY <1>3, <2>1, <2>12, <2>13, <2>14
       DEF ProcInv, LockKept, LiveCopy, ReservationHeld, PullSeen, ShaReserved, Removable,
         GoneBeforeComplete, HeadKnown, Uncreated, Waiting, Refreshing, Holding, Recovering,
         Reserving
  <2>16. prepared' \in [LeaseId -> [marker : BOOLEAN, deps : BOOLEAN]]
    BY <1>1, <1>3 DEF TypeOK
  <2>17. QED BY <1>3, <2>6, <2>8, <2>9, <2>10, <2>11, <2>12, <2>15, <2>16, WriteStep
             DEF RegistryInv
<1>4. QED BY <1>2, <1>3 DEF Complete

LEMMA GiveUpKeeps ==
  ASSUME CleanupInv, NEW p \in Proc, GiveUp(p)
  PROVE  CleanupInv'
<1> DEFINE id == proc[p].id
           l  == proc[p].lease
<1>1. /\ TypeOK /\ ProcInv(p) /\ proc[p].pc = "release" /\ End(p)
      /\ UNCHANGED <<tree, prepared, world>>
  BY DEF CleanupInv, GiveUp, At
<1>2. /\ lock = p /\ id \in LeaseId /\ l = reg.leases[id] /\ l \in Lease /\ Live(reg, id)
  BY <1>1, HolderHasRow DEF Reserving
<1>3. CASE reg' = reg
  BY <1>1, <1>3, WriteAndEnd
<1>4. CASE reg' = ReleaseReservation(reg, id)
  <2>1. /\ Bumped(l) \in Lease /\ Bumped(l).version = l.version + 1 /\ l.version \in Nat
        /\ Bumped(l).state = l.state /\ Bumped(l).target = l.target /\ Bumped(l) # NoLease
    BY <1>2, BumpedLease, CleanupAssumption
  <2>2. /\ reg' \in Registry /\ reg'.leases[id] = Bumped(l)
        /\ reg'.reservations[id] = NoReservation
        /\ \A other \in LeaseId \ {id} :
             /\ reg'.leases[other] = reg.leases[other]
             /\ reg'.reservations[other] = reg.reservations[other]
        /\ reg'.releases = reg.releases
    BY <1>1, <1>2, <1>4, <2>1 DEF ReleaseReservation, Registry, TypeOK
  <2>3. RegistryInv'
    BY <1>1, <1>2, <2>1, <2>2
       DEF CleanupInv, RegistryInv, ReservationCurrent, RemovedTogether, TreeShape,
         ReleaseOfLease, OpenPulls, Reserved, Live, Registered, world
  <2>4. \A i \in LeaseId : RowStep(p, i)
    BY <1>2, <2>1, <2>2 DEF RowStep
  <2>5. ProcInv(p)'
    BY <1>1, EndFields, IdleKeeps
  <2>6. prepared' \in [LeaseId -> [marker : BOOLEAN, deps : BOOLEAN]]
    BY <1>1 DEF TypeOK
  <2>7. QED BY <1>1, <2>2, <2>3, <2>4, <2>5, <2>6, EndFields, WriteStep
<1>5. QED BY <1>3, <1>4 DEF GiveUp

-----------------------------------------------------------------------------
(* acquire and import create a row under the lock.                         *)

LEMMA RowCreated ==
  ASSUME CleanupInv, NEW p \in Proc, NEW id \in LeaseId, NEW l \in Lease,
         CanCreate(reg, id), lock = p, l.state # "REMOVED",
         reg' = CreateLease(reg, id, l), UNCHANGED <<tree, remote, pulls>>
  PROVE  /\ RegistryInv' /\ reg' \in Registry
         /\ reg'.leases[id] = l
         /\ \A i \in LeaseId : RowStep(p, i)
<1>1. /\ reg' \in Registry /\ reg'.leases[id] = l
      /\ \A other \in LeaseId \ {id} : reg'.leases[other] = reg.leases[other]
      /\ reg'.reservations = reg.reservations /\ reg'.releases = reg.releases
  BY DEF CleanupInv, TypeOK, CreateLease, Registry
<1>2. /\ ~Registered(reg, id) /\ ~Reserved(reg, id) /\ reg.releases[id] = NoRelease
      /\ l # NoLease
  BY CleanupAssumption DEF CleanupInv, CanCreate, ReservationCurrent, ReleaseOfLease, Live
<1>3. ReservationCurrent'
  BY <1>1, <1>2 DEF CleanupInv, ReservationCurrent, Reserved, Live, Registered
<1>4. RemovedTogether'
  BY <1>1, <1>2 DEF CleanupInv, RemovedTogether, Reserved, Registered
<1>5. TreeShape' /\ OpenPulls' /\ ReleaseOfLease'
  BY <1>1, <1>2 DEF CleanupInv, TreeShape, OpenPulls, ReleaseOfLease, Registered
<1>6. \A i \in LeaseId : RowStep(p, i)
  BY <1>1, <1>2 DEF RowStep
<1>7. QED BY <1>1, <1>3, <1>4, <1>5, <1>6 DEF RegistryInv

LEMMA NewLeaseType ==
  ASSUME NEW purpose \in {"feature", "scratch", "promote"}, NEW head \in Sha \cup {NoSha}
  PROVE  NewLease(purpose, head) \in Lease /\ NewLease(purpose, head).state = "ACTIVE"
BY DEF NewLease, Lease, LeaseState, DeploymentState

LEMMA CreateRowKeeps ==
  ASSUME CleanupInv, NEW p \in Proc, CreateRow(p)
  PROVE  CleanupInv'
<1> DEFINE id == proc[p].id
           l  == NewLease("feature", branch)
<1>1. /\ TypeOK /\ ProcType /\ ProcInv(p) /\ proc[p].pc = "create"
      /\ {"prepare", "uncreate"} \subseteq Pc /\ id \in LeaseId /\ lock = p
  BY TypeProc DEF CleanupInv, CreateRow, At, Pc, ProcInv, LockKept, Waiting, Refreshing, TypeOK
<1>2. l \in Lease /\ l.state = "ACTIVE"
  BY <1>1, NewLeaseType DEF TypeOK
<1> HIDE DEF l
<1>3. CASE /\ CanCreate(reg, id) /\ reg' = CreateLease(reg, id, l)
           /\ proc' = [proc EXCEPT ![p] = [@ EXCEPT !.pc = "prepare", !.lease = reg'.leases[id]]]
           /\ UNCHANGED <<tree, prepared, lock, held, world>>
  <2>1. /\ RegistryInv' /\ reg' \in Registry /\ reg'.leases[id] = l
        /\ \A i \in LeaseId : RowStep(p, i)
    BY <1>1, <1>2, <1>3, RowCreated DEF world
  <2>2. /\ ProcType' /\ proc'[p].pc = "prepare" /\ proc'[p].id = id
        /\ proc'[p].lease = l /\ \A q \in Proc \ {p} : proc'[q] = proc[q]
    BY <1>1, <1>2, <1>3, <2>1 DEF ProcType, ProcRecord
  <2>3. l # NoLease /\ l.version \in Nat /\ lock' = p
    BY <1>1, <1>2, <1>3, CleanupAssumption DEF Lease
  <2>4. ProcInv(p)'
    BY <1>2, <2>1, <2>2, <2>3
       DEF ProcInv, LockKept, CopyCurrent, LiveCopy, TargetKnown,
         ReservationHeld, PullSeen, ShaReserved, MergedTip, Removable, GoneBeforeComplete, HeadKnown,
         Uncreated, Waiting, Refreshing, Acquiring, Importing, Holding, Recovering, Reserving,
         Finishing, Deleting
  <2>5. prepared' \in [LeaseId -> [marker : BOOLEAN, deps : BOOLEAN]]
    BY <1>1, <1>3 DEF TypeOK
  <2>6. QED BY <1>3, <2>1, <2>2, <2>4, <2>5, WriteStep
<1>4. CASE Step(p, "uncreate") /\ UNCHANGED <<reg, tree, prepared, lock, held, world>>
  <2>1. /\ proc'[p].pc = "uncreate" /\ proc'[p].id = id
    BY <1>1, <1>4, StepFields
  <2>2. ProcInv(p)'
    BY <1>1, <1>4, <2>1
       DEF ProcInv, LockKept, CopyCurrent, LiveCopy, TargetKnown,
         ReservationHeld, PullSeen, ShaReserved, MergedTip, Removable, GoneBeforeComplete, HeadKnown,
         Uncreated, Waiting, Refreshing, Acquiring, Importing, Holding, Recovering, Reserving,
         Finishing, Deleting
  <2>3. QED BY <1>1, <1>4, <2>2, StepKeeps
<1>5. QED BY <1>3, <1>4 DEF CreateRow, l

LEMMA ImportKeeps ==
  ASSUME CleanupInv, NEW p \in Proc, Import(p)
  PROVE  CleanupInv'
<1> DEFINE id == proc[p].id
           l  == [NewLease("scratch", branch) EXCEPT
                    !.owner = "imported", !.managed = FALSE,
                    !.state = IF tree[id].dirty THEN "DIRTY" ELSE "ACTIVE"]
<1>1. /\ TypeOK /\ ProcInv(p) /\ End(p) /\ UNCHANGED <<tree, prepared, world>>
      /\ id \in LeaseId /\ lock = p
  BY DEF CleanupInv, Import, At, ProcInv, LockKept, Waiting, Refreshing, TypeOK
<1>2. NewLease("scratch", branch) \in Lease
  BY <1>1, NewLeaseType DEF TypeOK
<1>3. l \in Lease /\ l.state # "REMOVED"
  BY <1>2 DEF Lease, LeaseState
<1>4. reg' = reg \/ (CanCreate(reg, id) /\ reg' = CreateLease(reg, id, l))
  BY DEF Import
<1> HIDE DEF l
<1>5. CASE reg' = reg
  BY <1>1, <1>5, WriteAndEnd
<1>6. CASE CanCreate(reg, id) /\ reg' = CreateLease(reg, id, l)
  <2>1. /\ RegistryInv' /\ reg' \in Registry /\ \A i \in LeaseId : RowStep(p, i)
    BY <1>1, <1>3, <1>6, RowCreated DEF world
  <2>2. ProcInv(p)'
    BY <1>1, EndFields, IdleKeeps
  <2>3. prepared' \in [LeaseId -> [marker : BOOLEAN, deps : BOOLEAN]]
    BY <1>1 DEF TypeOK
  <2>4. QED BY <1>1, <2>1, <2>2, <2>3, EndFields, WriteStep
<1>7. QED BY <1>4, <1>5, <1>6

-----------------------------------------------------------------------------
(* Steps on the directory and on the branches, all under the lock.         *)

\* A step that changes the files and not the rows.
LEMMA DiskStep ==
  ASSUME CleanupInv, NEW p \in Proc, lock = p,
         UNCHANGED <<kind, reg, elsewhere, pulls, evidence, prepared, commits, edits, crashes>>,
         tree' \in [LeaseId -> [dir : BOOLEAN, admin : BOOLEAN, dirty : BOOLEAN, on : BOOLEAN]],
         {branch', remote'} \subseteq Sha \cup {NoSha},
         remote' \in {remote, NoSha},
         \A id \in LeaseId :
           /\ ~tree'[id].dir => ~tree'[id].dirty /\ ~tree'[id].on
           /\ reg.leases[id] # NoLease /\ reg.leases[id].state = "REMOVED" /\ tree[id] = Absent
                => tree'[id] = Absent,
         ProcType', \A q \in Proc \ {p} : proc'[q] = proc[q],
         lock' \in {p, Nobody}, held' \in {held, Nobody},
         ProcInv(p)'
  PROVE  CleanupInv'
<1>1. TypeOK
  BY DEF CleanupInv
<1>2. TypeOK'
  <2>1. proc' \in [Proc -> ProcRecord] /\ lock' \in Proc \cup {Nobody}
        /\ held' \in Proc \cup {Nobody}
    BY <1>1 DEF ProcType, TypeOK
  <2>2. QED BY <1>1, <2>1 DEF TypeOK, ProcRecord, Pull
<1>3. ProcStep(p)
  BY DEF ProcStep, RowStep
<1>4. ReservationCurrent' /\ ReleaseOfLease'
  BY DEF CleanupInv, ReservationCurrent, ReleaseOfLease, Reserved, Live, Registered
<1>5. RemovedTogether'
  BY DEF CleanupInv, RemovedTogether, Reserved, Registered
<1>6. TreeShape' /\ OpenPulls'
  <2>1. TreeShape'
    BY DEF TreeShape
  <2>2. OpenPulls'
    BY DEF CleanupInv, OpenPulls
  <2>3. QED BY <2>1, <2>2
<1>7. QED BY <1>2, <1>3, <1>4, <1>5, <1>6, ProcStepKeeps DEF RegistryInv

LEMMA AddWorktreeKeeps ==
  ASSUME CleanupInv, NEW p \in Proc, AddWorktree(p)
  PROVE  CleanupInv'
<1>1. /\ TypeOK /\ ProcType /\ ProcInv(p) /\ proc[p].pc = "acquire" /\ "create" \in Pc
      /\ lock = p
  BY TypeProc DEF CleanupInv, AddWorktree, At, Pc, ProcInv, LockKept, Waiting, Refreshing
<1>2. CASE EndHere(p)
  BY <1>2, EndHereKeeps
<1>3. ASSUME NEW id \in LeaseId, ~Registered(reg, id), tree[id] = Absent,
             tree' = [tree EXCEPT ![id] = Checkout], branch' = 1,
             proc' = [proc EXCEPT ![p] = [@ EXCEPT !.pc = "create", !.id = id]],
             UNCHANGED <<kind, reg, remote, elsewhere, pulls, evidence,
                         prepared, lock, held, commits, edits, crashes>>
      PROVE  CleanupInv'
  <2>1. /\ ProcType' /\ proc'[p].pc = "create" /\ proc'[p].id = id
        /\ \A q \in Proc \ {p} : proc'[q] = proc[q]
    BY <1>1, <1>3 DEF ProcType, ProcRecord
  <2>2. ProcInv(p)'
    BY <1>1, <1>3, <2>1
       DEF ProcInv, LockKept, CopyCurrent, LiveCopy, TargetKnown,
         ReservationHeld, PullSeen, ShaReserved, MergedTip, Removable, GoneBeforeComplete, HeadKnown,
         Uncreated, Waiting, Refreshing, Acquiring, Importing, Holding, Recovering, Reserving,
         Finishing, Deleting, Registered
  <2>3. /\ Checkout \in [dir : BOOLEAN, admin : BOOLEAN, dirty : BOOLEAN, on : BOOLEAN]
        /\ Checkout.dir
    BY DEF Checkout
  <2>4. /\ tree' \in [LeaseId -> [dir : BOOLEAN, admin : BOOLEAN, dirty : BOOLEAN, on : BOOLEAN]]
        /\ tree'[id] = Checkout /\ \A i \in LeaseId \ {id} : tree'[i] = tree[i]
    BY <1>1, <1>3, <2>3 DEF TypeOK
  <2>5. ASSUME NEW i \in LeaseId
        PROVE  /\ ~tree'[i].dir => ~tree'[i].dirty /\ ~tree'[i].on
               /\ reg.leases[i] # NoLease /\ reg.leases[i].state = "REMOVED" /\ tree[i] = Absent
                    => tree'[i] = Absent
    BY <1>3, <2>3, <2>4 DEF CleanupInv, TreeShape, Registered
  <2>6. {branch', remote'} \subseteq Sha \cup {NoSha}
    BY <1>1, <1>3, CleanupAssumption DEF TypeOK
  <2>7. QED BY <1>1, <1>3, <2>1, <2>2, <2>4, <2>5, <2>6, DiskStep
<1>4. QED BY <1>2, <1>3 DEF AddWorktree

\* A directory that goes: nothing is left, or git's record only.
LEMMA TreeGone ==
  ASSUME CleanupInv, NEW id \in LeaseId, NEW gone \in {Absent, [Absent EXCEPT !.admin = TRUE]},
         tree' = [tree EXCEPT ![id] = gone],
         gone = Absent \/ reg.leases[id].state # "REMOVED"
  PROVE  /\ tree' \in [LeaseId -> [dir : BOOLEAN, admin : BOOLEAN, dirty : BOOLEAN, on : BOOLEAN]]
         /\ tree'[id] = gone
         /\ \A i \in LeaseId :
              /\ ~tree'[i].dir => ~tree'[i].dirty /\ ~tree'[i].on
              /\ reg.leases[i] # NoLease /\ reg.leases[i].state = "REMOVED" /\ tree[i] = Absent
                   => tree'[i] = Absent
<1>1. /\ gone \in [dir : BOOLEAN, admin : BOOLEAN, dirty : BOOLEAN, on : BOOLEAN]
      /\ ~gone.dirty /\ ~gone.on
  <2>1. CASE gone = Absent
    BY <2>1 DEF Absent
  <2>2. CASE gone = [Absent EXCEPT !.admin = TRUE]
    <3>1. gone = [dir |-> FALSE, admin |-> TRUE, dirty |-> FALSE, on |-> FALSE]
      BY <2>2 DEF Absent
    <3>2. QED BY <3>1
  <2>3. QED BY <2>1, <2>2
<1>2. /\ tree' \in [LeaseId -> [dir : BOOLEAN, admin : BOOLEAN, dirty : BOOLEAN, on : BOOLEAN]]
      /\ tree'[id] = gone /\ \A i \in LeaseId \ {id} : tree'[i] = tree[i]
  BY <1>1 DEF CleanupInv, TypeOK
<1>3. QED BY <1>1, <1>2 DEF CleanupInv, TreeShape

LEMMA UndoWorktreeKeeps ==
  ASSUME CleanupInv, NEW p \in Proc, UndoWorktree(p)
  PROVE  CleanupInv'
<1> DEFINE id == proc[p].id
<1>1. /\ TypeOK /\ ProcType /\ ProcInv(p) /\ proc[p].pc = "uncreate" /\ "unbranch" \in Pc
      /\ lock = p /\ id \in LeaseId
  BY TypeProc DEF CleanupInv, UndoWorktree, At, Pc, ProcInv, LockKept, Waiting, Refreshing, TypeOK
<1>2. CASE EndHere(p)
  BY <1>2, EndHereKeeps
<1>3. CASE /\ tree' = [tree EXCEPT ![id] = Absent] /\ Step(p, "unbranch")
           /\ UNCHANGED <<reg, prepared, lock, held, world>>
  <2>1. /\ ProcType' /\ proc'[p].pc = "unbranch" /\ \A q \in Proc \ {p} : proc'[q] = proc[q]
    BY <1>1, <1>3, StepFields
  <2>2. ProcInv(p)'
    BY <1>1, <1>3, <2>1
       DEF ProcInv, LockKept, CopyCurrent, LiveCopy, TargetKnown,
         ReservationHeld, PullSeen, ShaReserved, MergedTip, Removable, GoneBeforeComplete, HeadKnown,
         Uncreated, Waiting, Refreshing, Acquiring, Importing, Holding, Recovering, Reserving,
         Finishing, Deleting
  <2>3. UNCHANGED world /\ {branch', remote'} \subseteq Sha \cup {NoSha}
    BY <1>1, <1>3 DEF world, TypeOK
  <2>4. QED BY <1>1, <1>3, <2>1, <2>2, <2>3, TreeGone, DiskStep DEF world
<1>4. QED BY <1>2, <1>3 DEF UndoWorktree

LEMMA RemoveWorktreeKeeps ==
  ASSUME CleanupInv, NEW p \in Proc, RemoveWorktree(p)
  PROVE  CleanupInv'
<1> DEFINE id == proc[p].id
<1>1. /\ TypeOK /\ ProcType /\ ProcInv(p) /\ proc[p].pc = "remove"
      /\ {"complete", "recover"} \subseteq Pc
      /\ held' = Nobody /\ UNCHANGED <<reg, prepared, lock, world>>
  BY TypeProc DEF CleanupInv, RemoveWorktree, At, Pc
<1>2. lock = p /\ id \in LeaseId /\ Live(reg, id)
  BY <1>1, HolderHasRow DEF Reserving, Holding
<1>3. ASSUME NEW pc \in {"complete", "recover"}, Step(p, pc),
             pc = "complete" => tree'[id] = Absent,
             tree' \in [LeaseId -> [dir : BOOLEAN, admin : BOOLEAN, dirty : BOOLEAN, on : BOOLEAN]],
             \A i \in LeaseId :
               /\ ~tree'[i].dir => ~tree'[i].dirty /\ ~tree'[i].on
               /\ reg.leases[i] # NoLease /\ reg.leases[i].state = "REMOVED" /\ tree[i] = Absent
                    => tree'[i] = Absent
      PROVE  CleanupInv'
  <2>1. /\ ProcType' /\ proc'[p].pc = pc /\ proc'[p].id = id /\ proc'[p].lease = proc[p].lease
        /\ proc'[p].sha = proc[p].sha /\ \A q \in Proc \ {p} : proc'[q] = proc[q]
    BY <1>1, <1>3, StepFields
  <2>2. UNCHANGED <<pulls, branch, remote>> /\ {branch', remote'} \subseteq Sha \cup {NoSha}
    BY <1>1 DEF world, TypeOK
  <2>3. ProcInv(p)'
    BY <1>1, <1>2, <1>3, <2>1, <2>2
       DEF ProcInv, LockKept, CopyCurrent, LiveCopy, TargetKnown,
         ReservationHeld, PullSeen, ShaReserved, MergedTip, Removable, GoneBeforeComplete, HeadKnown,
         Uncreated, Waiting, Refreshing, Acquiring, Importing, Holding, Recovering, Reserving,
         Finishing, Deleting
  <2>4. QED BY <1>1, <1>2, <1>3, <2>1, <2>2, <2>3, DiskStep DEF world
<1>4. CASE tree' = tree /\ Step(p, "recover")
  <2>1. /\ tree' \in [LeaseId -> [dir : BOOLEAN, admin : BOOLEAN, dirty : BOOLEAN, on : BOOLEAN]]
        /\ \A i \in LeaseId :
             /\ ~tree'[i].dir => ~tree'[i].dirty /\ ~tree'[i].on
             /\ reg.leases[i] # NoLease /\ reg.leases[i].state = "REMOVED" /\ tree[i] = Absent
                  => tree'[i] = Absent
    BY <1>1, <1>4 DEF CleanupInv, TreeShape, TypeOK
  <2>2. QED BY <1>3, <1>4, <2>1
<1>5. CASE tree' = [tree EXCEPT ![id] = Absent] /\ Step(p, "complete")
  BY <1>2, <1>3, <1>5, TreeGone
<1>6. CASE tree' = [tree EXCEPT ![id] = [Absent EXCEPT !.admin = TRUE]] /\ Step(p, "recover")
  BY <1>2, <1>3, <1>6, TreeGone DEF Live
<1>7. QED BY <1>4, <1>5, <1>6 DEF RemoveWorktree

LEMMA UndoBranchKeeps ==
  ASSUME CleanupInv, NEW p \in Proc, UndoBranch(p) \/ DeleteRemote(p)
  PROVE  CleanupInv'
<1>1. /\ TypeOK /\ ProcInv(p) /\ proc[p].pc \in {"unbranch", "delete_remote"} /\ End(p)
      /\ UNCHANGED <<kind, reg, tree, elsewhere, pulls, evidence, prepared, commits, edits,
                     crashes>>
      /\ branch' \in {branch, NoSha} /\ remote' \in {remote, NoSha}
  BY DEF CleanupInv, UndoBranch, DeleteRemote, At
<1>2. lock = p
  BY <1>1 DEF ProcInv, LockKept, Waiting, Refreshing
<1>3. ProcInv(p)'
  BY <1>1, EndFields, IdleKeeps
<1>4. lock' \in {p, Nobody} /\ held' \in {held, Nobody}
  BY <1>1, <1>2 DEF End
<1>5. /\ tree' \in [LeaseId -> [dir : BOOLEAN, admin : BOOLEAN, dirty : BOOLEAN, on : BOOLEAN]]
      /\ {branch', remote'} \subseteq Sha \cup {NoSha}
      /\ \A i \in LeaseId :
           /\ ~tree'[i].dir => ~tree'[i].dirty /\ ~tree'[i].on
           /\ reg.leases[i] # NoLease /\ reg.leases[i].state = "REMOVED" /\ tree[i] = Absent
                => tree'[i] = Absent
  BY <1>1 DEF CleanupInv, TreeShape, TypeOK
<1>6. ProcType' /\ \A q \in Proc \ {p} : proc'[q] = proc[q]
  BY <1>1, EndFields
<1>7. QED BY <1>1, <1>2, <1>3, <1>4, <1>5, <1>6, DiskStep

LEMMA DeleteLocalKeeps ==
  ASSUME CleanupInv, NEW p \in Proc, DeleteLocal(p)
  PROVE  CleanupInv'
<1>1. /\ TypeOK /\ ProcType /\ ProcInv(p) /\ proc[p].pc = "delete_local"
      /\ Step(p, "delete_remote") /\ "delete_remote" \in Pc
      /\ UNCHANGED <<kind, reg, tree, remote, elsewhere, pulls, evidence, prepared, lock, held,
                     commits, edits, crashes>>
      /\ branch' \in {branch, NoSha}
  BY TypeProc DEF CleanupInv, DeleteLocal, At, Pc
<1>2. lock = p
  BY <1>1 DEF ProcInv, LockKept, Waiting, Refreshing
<1>3. /\ ProcType' /\ proc'[p].pc = "delete_remote" /\ proc'[p].id = proc[p].id
      /\ proc'[p].lease = proc[p].lease /\ proc'[p].sha = proc[p].sha
      /\ \A q \in Proc \ {p} : proc'[q] = proc[q]
  BY <1>1, StepFields
<1>4. ProcInv(p)'
  BY <1>1, <1>2, <1>3
     DEF ProcInv, LockKept, CopyCurrent, LiveCopy, TargetKnown,
       ReservationHeld, PullSeen, ShaReserved, MergedTip, Removable, GoneBeforeComplete, HeadKnown,
       Uncreated, Waiting, Refreshing, Acquiring, Importing, Holding, Recovering, Reserving,
       Finishing, Deleting
<1>5. /\ tree' \in [LeaseId -> [dir : BOOLEAN, admin : BOOLEAN, dirty : BOOLEAN, on : BOOLEAN]]
      /\ {branch', remote'} \subseteq Sha \cup {NoSha}
      /\ \A i \in LeaseId :
           /\ ~tree'[i].dir => ~tree'[i].dirty /\ ~tree'[i].on
           /\ reg.leases[i] # NoLease /\ reg.leases[i].state = "REMOVED" /\ tree[i] = Absent
                => tree'[i] = Absent
  BY <1>1 DEF CleanupInv, TreeShape, TypeOK
<1>6. QED BY <1>1, <1>2, <1>3, <1>4, <1>5, DiskStep

-----------------------------------------------------------------------------
(* Commands that begin, wait, read, and go on.                             *)

LEMMA StartKeeps ==
  ASSUME CleanupInv, NEW p \in Proc, NEW id \in LeaseId,
         NEW pc \in {"acquire_lock", "import_lock", "adopt_lock", "link_lock", "refresh",
                     "finish_lock", "compact_lock"},
         At(p, "idle"), Start(p, id, pc),
         pc \notin {"acquire_lock", "import_lock"} => Registered(reg, id),
         pc \in {"refresh", "finish_lock"} => reg.leases[id].target # NoPr
  PROVE  CleanupInv'
<1>1. TypeOK /\ ProcType /\ ProcInv(p) /\ pc \in Pc
  BY TypeProc DEF CleanupInv, Pc
<1>2. lock # p
  BY <1>1 DEF ProcInv, LockKept, At, Waiting
<1>3. reg.leases[id] \in Lease \cup {NoLease}
  BY <1>1 DEF TypeOK, Registry
<1> DEFINE new == [Idle EXCEPT !.pc = pc, !.id = id, !.lease = reg.leases[id]]
<1>4. new \in ProcRecord /\ new.pc = pc /\ new.id = id /\ new.lease = reg.leases[id]
  <2>1. NoPull \in Pull
    BY DEF NoPull, Pull
  <2>2. FirstLease \in LeaseId /\ "idle" \in Pc
    BY CleanupAssumption DEF Pc
  <2>3. Idle \in ProcRecord
    BY <2>1, <2>2 DEF Idle, ProcRecord
  <2>4. QED BY <1>1, <1>3, <2>3 DEF ProcRecord
<1> HIDE DEF new
<1>5. proc' = [proc EXCEPT ![p] = new] /\ UNCHANGED <<reg, tree, prepared, lock, held, world>>
  BY DEF Start, new
<1>6. /\ ProcType' /\ proc'[p].pc = pc /\ proc'[p].id = id /\ proc'[p].lease = reg.leases[id]
      /\ \A q \in Proc \ {p} : proc'[q] = proc[q]
  BY <1>1, <1>4, <1>5 DEF ProcType
<1>7. Registered(reg, id) => reg.leases[id].version <= reg.leases[id].version
  BY <1>3 DEF Registered, Lease
<1>8. ProcInv(p)'
  BY <1>2, <1>5, <1>6, <1>7
     DEF ProcInv, LockKept, CopyCurrent, LiveCopy, TargetKnown, Registered,
       ReservationHeld, PullSeen, ShaReserved, MergedTip, Removable, GoneBeforeComplete, HeadKnown,
       Uncreated, Waiting, Refreshing, Acquiring, Importing, Holding, Recovering, Reserving,
       Finishing, Deleting
<1>9. QED BY <1>1, <1>5, <1>6, <1>8, QuietStep DEF world, TypeOK

LEMMA BeginKeeps ==
  ASSUME CleanupInv, NEW p \in Proc, Begin(p)
  PROVE  CleanupInv'
<1>1. FirstLease \in LeaseId
  BY CleanupAssumption
<1>2. CASE StartAcquire(p)
  BY <1>1, <1>2, StartKeeps DEF StartAcquire, MayStart
<1>3. CASE StartImport(p)
  BY <1>1, <1>3, StartKeeps DEF StartImport, MayStart
<1>4. ASSUME NEW id \in LeaseId, StartAdopt(p, id)
      PROVE  CleanupInv'
  BY <1>4, StartKeeps DEF StartAdopt, MayStart
<1>5. ASSUME NEW id \in LeaseId, StartLink(p, id)
      PROVE  CleanupInv'
  BY <1>5, StartKeeps DEF StartLink, MayStart, Live
<1>6. ASSUME NEW id \in LeaseId, StartStatus(p, id)
      PROVE  CleanupInv'
  BY <1>6, StartKeeps DEF StartStatus, MayStart, Live
<1>7. ASSUME NEW id \in LeaseId, StartFinish(p, id) \/ StartGc(p, id)
      PROVE  CleanupInv'
  BY <1>7, StartKeeps DEF StartFinish, StartGc, MayStart, Live
<1>8. ASSUME NEW id \in LeaseId, StartCompact(p, id)
      PROVE  CleanupInv'
  BY <1>8, StartKeeps DEF StartCompact, MayStart, Live
<1>9. QED BY <1>2, <1>3, <1>4, <1>5, <1>6, <1>7, <1>8 DEF Begin

LEMMA TakeLockKeeps ==
  ASSUME CleanupInv, NEW p \in Proc, TakeLock(p)
  PROVE  CleanupInv'
<1> DEFINE pc == Locked[proc[p].pc]
<1>1. TypeOK /\ ProcType /\ ProcInv(p)
  BY TypeProc DEF CleanupInv
<1>2. \/ proc[p].pc = "acquire_lock" /\ pc = "acquire"
      \/ proc[p].pc = "import_lock" /\ pc = "import"
      \/ proc[p].pc = "adopt_lock" /\ pc = "adopt"
      \/ proc[p].pc = "link_lock" /\ pc = "link"
      \/ proc[p].pc = "finish_lock" /\ pc = "finish"
      \/ proc[p].pc = "compact_lock" /\ pc = "compact"
  BY DEF TakeLock, Locked
<1> HIDE DEF pc
<1>3. /\ pc \in Pc /\ Step(p, pc) /\ lock = Nobody /\ lock' = p
      /\ UNCHANGED <<reg, tree, prepared, held, world>>
  BY <1>2 DEF TakeLock, pc, Pc
<1>4. /\ ProcType' /\ proc'[p].pc = pc /\ proc'[p].id = proc[p].id
      /\ proc'[p].lease = proc[p].lease /\ \A q \in Proc \ {p} : proc'[q] = proc[q]
  BY <1>1, <1>3, StepFields
<1>5. ProcInv(p)'
  BY <1>1, <1>2, <1>3, <1>4
     DEF ProcInv, LockKept, CopyCurrent, LiveCopy, TargetKnown,
       ReservationHeld, PullSeen, ShaReserved, MergedTip, Removable, GoneBeforeComplete, HeadKnown,
       Uncreated, Waiting, Refreshing, Acquiring, Importing, Holding, Recovering, Reserving,
       Finishing, Deleting
<1>6. QED BY <1>1, <1>3, <1>4, <1>5, QuietStep DEF world, TypeOK

LEMMA AdoptViewKeeps ==
  ASSUME CleanupInv, NEW p \in Proc, AdoptView(p)
  PROVE  CleanupInv'
<1>1. TypeOK /\ ProcInv(p) /\ proc[p].pc = "adopt" /\ "adopt_write" \in Pc
  BY DEF CleanupInv, AdoptView, At, Pc
<1>2. CASE EndHere(p)
  BY <1>2, EndHereKeeps
<1>3. CASE Read(p, "adopt_write") /\ Adoptable(proc[p].id, reg.leases[proc[p].id])
  <2>1. reg.leases[proc[p].id] \in Lease /\ reg.leases[proc[p].id].state # "REMOVED"
    BY <1>1, <1>3, CopyIsRow DEF Acquiring, Importing, Adoptable
  <2>2. reg.leases[proc[p].id] # NoLease /\ reg.leases[proc[p].id].version \in Nat
    BY <2>1, CleanupAssumption DEF Lease
  <2>3. /\ proc'[p].pc = "adopt_write" /\ proc'[p].id = proc[p].id
        /\ proc'[p].lease = reg.leases[proc[p].id] /\ UNCHANGED <<reg, lock, held>>
    BY <1>1, <1>3, ReadFields DEF Read
  <2>4. ProcInv(p)'
    BY <1>1, <2>1, <2>2, <2>3
       DEF ProcInv, LockKept, CopyCurrent, LiveCopy, TargetKnown,
         ReservationHeld, PullSeen, ShaReserved, MergedTip, Removable, GoneBeforeComplete, HeadKnown,
         Uncreated, Waiting, Refreshing, Acquiring, Importing, Holding, Recovering, Reserving,
         Finishing, Deleting
  <2>5. QED BY <1>1, <1>3, <2>4, ReadKeeps
<1>4. QED BY <1>2, <1>3 DEF AdoptView

LEMMA LinkReadKeeps ==
  ASSUME CleanupInv, NEW p \in Proc, LinkRead(p)
  PROVE  CleanupInv'
<1> DEFINE row == reg.leases[proc[p].id]
<1>1. TypeOK /\ ProcType /\ ProcInv(p) /\ proc[p].pc = "link" /\ "link_view" \in Pc
  BY TypeProc DEF CleanupInv, LinkRead, At, Pc
<1>2. CASE EndHere(p)
  BY <1>2, EndHereKeeps
<1>3. CASE /\ \E n \in Pr : Linkable(reg, proc[p].id, row, n)
           /\ proc' = [proc EXCEPT ![p].pc = "link_view", ![p].lease = row, ![p].sha = branch]
           /\ UNCHANGED <<reg, tree, prepared, lock, held, world>>
  <2>1. row \in Lease /\ row.state # "REMOVED" /\ branch \in Sha \cup {NoSha}
    BY <1>1, <1>3, CopyIsRow DEF Acquiring, Importing, Linkable, TypeOK
  <2>2. row # NoLease /\ row.version \in Nat
    BY <2>1, CleanupAssumption DEF Lease
  <2>3. /\ ProcType' /\ proc'[p].pc = "link_view" /\ proc'[p].id = proc[p].id
        /\ proc'[p].lease = row /\ \A q \in Proc \ {p} : proc'[q] = proc[q]
    BY <1>1, <1>3, <2>1 DEF ProcType, ProcRecord
  <2>4. UNCHANGED <<reg, lock, held>>
    BY <1>3
  <2>5. ProcInv(p)'
    BY <1>1, <2>1, <2>2, <2>3, <2>4
       DEF ProcInv, LockKept, CopyCurrent, LiveCopy, TargetKnown,
         ReservationHeld, PullSeen, ShaReserved, MergedTip, Removable, GoneBeforeComplete, HeadKnown,
         Uncreated, Waiting, Refreshing, Acquiring, Importing, Holding, Recovering, Reserving,
         Finishing, Deleting
  <2>6. QED BY <1>1, <1>3, <2>3, <2>5, QuietStep DEF world, TypeOK
<1>4. QED BY <1>2, <1>3 DEF LinkRead, Row

\* Asking GitHub leaves the row and the copy of it alone.
LEMMA LinkViewKeeps ==
  ASSUME CleanupInv, NEW p \in Proc, LinkView(p)
  PROVE  CleanupInv'
<1>1. TypeOK /\ ProcInv(p) /\ proc[p].pc = "link_view"
  BY DEF CleanupInv, LinkView, At
<1>2. CASE EndHere(p)
  BY <1>2, EndHereKeeps
<1>3. ASSUME NEW number \in {Staging, Final}, NEW pc \in {"link_staging", "link_final"},
             View(p, number, pc)
      PROVE  CleanupInv'
  <2>1. number \in Pr /\ pc \in Pc
    BY CleanupAssumption DEF Pc
  <2>2. /\ proc'[p].pc = pc /\ proc'[p].id = proc[p].id /\ proc'[p].lease = proc[p].lease
        /\ UNCHANGED <<reg, lock, held>>
    BY <1>1, <1>3, <2>1, ViewFields DEF View
  <2>3. ProcInv(p)'
    BY <1>1, <1>3, <2>2
       DEF ProcInv, LockKept, CopyCurrent, LiveCopy, TargetKnown,
         ReservationHeld, PullSeen, ShaReserved, MergedTip, Removable, GoneBeforeComplete, HeadKnown,
         Uncreated, Waiting, Refreshing, Acquiring, Importing, Holding, Recovering, Reserving,
         Finishing, Deleting
  <2>4. QED BY <1>3, <2>1, <2>3, ViewKeeps
<1>4. QED
  <2>1. PICK number \in {Staging, Final} :
          \/ EndHere(p)
          \/ View(p, number, IF number = Staging THEN "link_staging" ELSE "link_final")
    BY DEF LinkView
  <2>2. CASE number = Staging
    BY <1>2, <1>3, <2>1, <2>2
  <2>3. CASE number # Staging
    BY <1>2, <1>3, <2>1, <2>3
  <2>4. QED BY <2>2, <2>3

LEMMA RefreshViewKeeps ==
  ASSUME CleanupInv, NEW p \in Proc, RefreshView(p)
  PROVE  CleanupInv'
<1>1. TypeOK /\ ProcInv(p) /\ proc[p].pc = "refresh" /\ "refresh_write" \in Pc
  BY DEF CleanupInv, RefreshView, At, Pc
<1>2. CASE View(p, proc[p].lease.target, "refresh_write")
  <2>1. proc[p].lease.target \in Pr
    BY <1>1, TargetIsPull DEF Refreshing
  <2>2. /\ proc'[p].pc = "refresh_write" /\ proc'[p].id = proc[p].id
        /\ proc'[p].lease = proc[p].lease /\ UNCHANGED <<reg, lock, held>>
    BY <1>1, <1>2, <2>1, ViewFields DEF View
  <2>3. ProcInv(p)'
    BY <1>1, <2>2
       DEF ProcInv, LockKept, CopyCurrent, LiveCopy, TargetKnown,
         ReservationHeld, PullSeen, ShaReserved, MergedTip, Removable, GoneBeforeComplete, HeadKnown,
         Uncreated, Waiting, Refreshing, Acquiring, Importing, Holding, Recovering, Reserving,
         Finishing, Deleting
  <2>4. QED BY <1>1, <1>2, <2>1, <2>3, ViewKeeps
<1>3. CASE AfterRefresh(p) /\ UNCHANGED <<reg, tree, prepared, world>>
  BY <1>1, <1>3, RefreshWritten, RefreshStep DEF Refreshing
<1>4. QED BY <1>2, <1>3 DEF RefreshView, ViewOr

LEMMA CompactKeeps ==
  ASSUME CleanupInv, NEW p \in Proc, CompactMarker(p) \/ CompactRemove(p)
  PROVE  CleanupInv'
<1>1. TypeOK /\ ProcType /\ ProcInv(p) /\ "compact_remove" \in Pc
  BY TypeProc DEF CleanupInv, Pc
<1>2. CASE EndHere(p)
  BY <1>2, EndHereKeeps
<1>3. CASE /\ proc[p].pc = "compact" /\ Step(p, "compact_remove")
           /\ prepared' = [prepared EXCEPT ![proc[p].id].marker = FALSE]
           /\ UNCHANGED <<reg, tree, lock, held, world>>
  <2>1. /\ ProcType' /\ proc'[p].pc = "compact_remove" /\ proc'[p].id = proc[p].id
        /\ proc'[p].lease = proc[p].lease /\ \A q \in Proc \ {p} : proc'[q] = proc[q]
    BY <1>1, <1>3, StepFields
  <2>2. prepared' \in [LeaseId -> [marker : BOOLEAN, deps : BOOLEAN]]
    BY <1>1, <1>3 DEF TypeOK
  <2>3. ProcInv(p)'
    BY <1>1, <1>3, <2>1
       DEF ProcInv, LockKept, CopyCurrent, LiveCopy, TargetKnown,
         ReservationHeld, PullSeen, ShaReserved, MergedTip, Removable, GoneBeforeComplete, HeadKnown,
         Uncreated, Waiting, Refreshing, Acquiring, Importing, Holding, Recovering, Reserving,
         Finishing, Deleting
  <2>4. QED BY <1>1, <1>3, <2>1, <2>2, <2>3, QuietStep DEF world, TypeOK
<1>4. CASE CompactRemove(p)
  <2>1. prepared' \in [LeaseId -> [marker : BOOLEAN, deps : BOOLEAN]]
    BY <1>1, <1>4 DEF TypeOK, CompactRemove
  <2>2. QED BY <1>1, <1>4, <2>1, EndsQuietly DEF CompactRemove, world, TypeOK
<1>5. QED BY <1>2, <1>3, <1>4 DEF CompactMarker, At

LEMMA ReturnKeeps ==
  ASSUME CleanupInv, NEW p \in Proc, WriteMarker(p) \/ Return(p) \/ Crash(p)
  PROVE  CleanupInv'
<1>1. TypeOK /\ MaxCrashes \in Nat
  BY CleanupAssumption DEF CleanupInv
<1>2. CASE Return(p)
  BY <1>2, EndHereKeeps DEF Return
<1>3. CASE WriteMarker(p)
  <2>1. prepared' \in [LeaseId -> [marker : BOOLEAN, deps : BOOLEAN]]
    BY <1>1, <1>3 DEF TypeOK, WriteMarker
  <2>2. QED BY <1>1, <1>3, <2>1, EndsQuietly DEF WriteMarker, world, TypeOK
<1>4. CASE Crash(p)
  <2>1. crashes' \in 0..MaxCrashes
    BY <1>1, <1>4 DEF Crash, TypeOK
  <2>2. QED BY <1>4, <2>1, EndsQuietly DEF Crash
<1>5. QED BY <1>2, <1>3, <1>4

LEMMA AdvanceKeeps ==
  ASSUME CleanupInv, NEW p \in Proc, Advance(p)
  PROVE  CleanupInv'
<1>1. CASE \/ ReuseLease(p) \/ AddWorktree(p) \/ CreateRow(p) \/ UndoWorktree(p)
           \/ UndoBranch(p) \/ RunPrepare(p) \/ WriteMarker(p) \/ Return(p)
  BY <1>1, ReuseLeaseKeeps, AddWorktreeKeeps, CreateRowKeeps, UndoWorktreeKeeps,
     UndoBranchKeeps, RunPrepareKeeps, ReturnKeeps
<1>2. CASE \/ Import(p) \/ Adopt(p) \/ AdoptView(p) \/ AdoptWithPr(p)
           \/ LinkRead(p) \/ LinkView(p) \/ LinkStaging(p) \/ LinkFinal(p)
  BY <1>2, ImportKeeps, AdoptKeeps, AdoptViewKeeps, AdoptWithPrKeeps, LinkReadKeeps,
     LinkViewKeeps, LinkWriteKeeps
<1>3. CASE \/ RefreshView(p) \/ RefreshWrite(p) \/ RefreshProbe(p) \/ RefreshSync(p)
           \/ FinishOpen(p) \/ FinishRead(p) \/ FinishView(p) \/ FinishCheck(p)
           \/ ForceProbe(p) \/ FinishReview(p) \/ FinishRecheck(p) \/ Reserve(p)
  BY <1>3, RefreshViewKeeps, RefreshWriteKeeps, RefreshSyncKeeps, FinishOpenKeeps,
     FinishReadKeeps, FinishViewKeeps, FinishCheckKeeps, ForceProbeKeeps, ReserveKeeps
<1>4. CASE \/ HoldBranch(p) \/ HeldRead(p) \/ HeldView(p) \/ HeldCheck(p)
           \/ RemoveWorktree(p) \/ Complete(p) \/ GiveUp(p)
           \/ DeleteLocal(p) \/ DeleteRemote(p)
  BY <1>4, HoldKeeps, HeldReadKeeps, HeldViewKeeps, HeldCheckKeeps, RemoveWorktreeKeeps,
     CompleteKeeps, GiveUpKeeps, DeleteLocalKeeps, UndoBranchKeeps
<1>5. CASE \/ RecoverView(p) \/ RecoverCheck(p) \/ RecoverAct(p)
           \/ CompactMarker(p) \/ CompactRemove(p)
  BY <1>5, HeldViewKeeps, RecoverCheckKeeps, RecoverActKeeps, CompactKeeps
<1>6. QED BY <1>1, <1>2, <1>3, <1>4, <1>5 DEF Advance

-----------------------------------------------------------------------------
(* The user and GitHub.                                                    *)

TreeType == [dir : BOOLEAN, admin : BOOLEAN, dirty : BOOLEAN, on : BOOLEAN]

\* What no edit of the user can do: undo a merge, bring a worktree back that is gone, or
\* move a branch that is held.
LEMMA WorldStep ==
  ASSUME CleanupInv, UNCHANGED system,
         tree' \in [LeaseId -> TreeType], {branch', remote'} \subseteq Sha \cup {NoSha},
         elsewhere' \in BOOLEAN, pulls' \in [Pr -> Pull], commits' \in Sha,
         evidence' \in {"healthy", "failed", "pending", "unavailable"},
         edits' \in 0..MaxEdits[kind],
         TreeShape', OpenPulls',
         \A n \in Pr : pulls[n].state = "MERGED" => pulls'[n] = pulls[n],
         \A id \in LeaseId : tree[id] = Absent => tree'[id] = Absent,
         held # Nobody =>
           branch' = branch /\ \A id \in LeaseId : OnBranch(id) => OnBranch(id)'
  PROVE  CleanupInv'
<1>1. TypeOK /\ UNCHANGED <<kind, reg, prepared, lock, held, proc, crashes>>
  BY DEF CleanupInv, system
<1>2. TypeOK'
  BY <1>1 DEF TypeOK, TreeType, Pull
<1>3. ReservationCurrent' /\ ReleaseOfLease' /\ RemovedTogether'
  BY <1>1 DEF CleanupInv, ReservationCurrent, ReleaseOfLease, RemovedTogether, Reserved, Live,
              Registered
<1>4. ASSUME NEW p \in Proc PROVE ProcInv(p)'
  <2>1. ProcInv(p) /\ proc[p].id \in LeaseId /\ p # Nobody
    BY <1>1, CleanupAssumption DEF CleanupInv, TypeOK
  <2>2. PullSeen(p)' /\ MergedTip(p)'
    <3>1. proc[p].pc \in {"held_check", "recover_check", "remove", "recover_act", "complete"}
            \cup Deleting
          => proc[p].lease.target \in Pr
      BY TargetIsPull DEF Reserving, Holding, Recovering, Deleting
    <3>2. PullSeen(p)'
      BY <1>1, <2>1, <3>1 DEF ProcInv, PullSeen
    <3>3. MergedTip(p)'
      BY <1>1, <2>1, <3>1 DEF ProcInv, MergedTip
    <3>4. QED BY <3>2, <3>3
  <2>3. Removable(p)' /\ GoneBeforeComplete(p)'
    <3>1. proc[p].pc = "remove" => held = p
      BY <2>1 DEF ProcInv, LockKept, Holding
    <3>2. Removable(p)'
      BY <1>1, <2>1, <3>1 DEF ProcInv, Removable
    <3>3. QED BY <1>1, <2>1, <3>2 DEF ProcInv, GoneBeforeComplete
  <2>4. QED BY <1>1, <2>1, <2>2, <2>3
            DEF ProcInv, LockKept, CopyCurrent, LiveCopy, TargetKnown, ReservationHeld,
                ShaReserved, HeadKnown, Uncreated
<1>5. QED BY <1>2, <1>3, <1>4 DEF CleanupInv

\* An edit of one worktree that has a directory, with the branch where it is or moved.
LEMMA TreeEdit ==
  ASSUME CleanupInv, UNCHANGED <<system, remote, elsewhere, pulls, evidence>>,
         NEW id \in LeaseId, NEW t \in TreeType, tree' = [tree EXCEPT ![id] = t],
         t.dir \/ t = Absent,
         tree[id] = Absent => t = Absent,
         branch' \in Sha \cup {NoSha}, commits' \in Sha, edits' \in 0..MaxEdits[kind],
         held # Nobody => /\ branch' = branch
                          /\ OnBranch(id) => t.dir /\ t.admin /\ t.on
  PROVE  CleanupInv'
<1>1. TypeOK
  BY DEF CleanupInv
<1>2. /\ tree' \in [LeaseId -> TreeType] /\ tree'[id] = t
      /\ \A i \in LeaseId \ {id} : tree'[i] = tree[i]
  BY <1>1 DEF TypeOK, TreeType
<1>3. TreeShape'
  BY <1>2 DEF CleanupInv, TreeShape, Absent
<1>4. OpenPulls'
  BY DEF CleanupInv, OpenPulls
<1>5. held # Nobody => \A i \in LeaseId : OnBranch(i) => OnBranch(i)'
  BY <1>2 DEF OnBranch
<1>6. QED BY <1>1, <1>2, <1>3, <1>4, <1>5, WorldStep DEF TypeOK, Pull

\* A change of the pull requests or of origin.
LEMMA PullEdit ==
  ASSUME CleanupInv, UNCHANGED <<system, tree, branch, elsewhere, evidence, commits>>,
         remote' \in Sha \cup {NoSha}, pulls' \in [Pr -> Pull], edits' \in 0..MaxEdits[kind],
         OpenPulls', \A n \in Pr : pulls[n].state = "MERGED" => pulls'[n] = pulls[n]
  PROVE  CleanupInv'
<1>1. TypeOK
  BY DEF CleanupInv
<1>2. TreeShape'
  BY DEF CleanupInv, TreeShape
<1>3. QED BY <1>1, <1>2, WorldStep DEF TypeOK, TreeType, OnBranch

LEMMA EditedBound ==
  ASSUME TypeOK, Edited PROVE edits' \in 0..MaxEdits[kind]
BY CleanupAssumption DEF TypeOK, Edited

LEMMA UserKeeps ==
  ASSUME CleanupInv, NEW id \in LeaseId,
         UserCommit(id) \/ UserEdit(id) \/ UserSwitch(id) \/ UserPrune(id)
  PROVE  CleanupInv'
<1>1. TypeOK /\ tree[id] \in TreeType
  BY DEF CleanupInv, TypeOK, TreeType
<1>2. tree[id].dir => tree[id] # Absent
  BY DEF Absent
<1>3. CASE UserCommit(id)
  <2> DEFINE t == [tree[id] EXCEPT !.dirty = FALSE]
  <2>1. t \in TreeType /\ t.dir = tree[id].dir
    BY <1>1 DEF TreeType
  <2>2. tree' = [tree EXCEPT ![id] = t]
    BY <1>1, <1>3 DEF UserCommit, TypeOK
  <2> HIDE DEF t
  <2>3. tree[id].dir /\ held = Nobody /\ branch' \in Sha /\ commits' \in Sha
    BY <1>3 DEF UserCommit, NewCommit, OnBranch
  <2>4. UNCHANGED <<system, remote, elsewhere, pulls, evidence>> /\ edits' \in 0..MaxEdits[kind]
    BY <1>1, <1>3 DEF UserCommit, TypeOK
  <2>5. QED BY <1>2, <2>1, <2>2, <2>3, <2>4, TreeEdit
<1>4. CASE UserEdit(id)
  <2> DEFINE t == [tree[id] EXCEPT !.dirty = TRUE]
  <2>1. t \in TreeType /\ t.dir = tree[id].dir /\ t.admin = tree[id].admin /\ t.on = tree[id].on
    BY <1>1 DEF TreeType
  <2>2. tree' = [tree EXCEPT ![id] = t]
    BY <1>1, <1>4 DEF UserEdit, TypeOK
  <2> HIDE DEF t
  <2>3. tree[id].dir /\ branch' = branch /\ commits' = commits
    BY <1>4 DEF UserEdit
  <2>4. UNCHANGED <<system, remote, elsewhere, pulls, evidence>> /\ edits' \in 0..MaxEdits[kind]
    BY <1>1, <1>4, EditedBound DEF UserEdit
  <2>5. QED BY <1>1, <1>2, <2>1, <2>2, <2>3, <2>4, TreeEdit DEF OnBranch, TypeOK
<1>5. CASE UserSwitch(id)
  <2> DEFINE t == [tree[id] EXCEPT !.on = ~@]
  <2>1. t \in TreeType /\ t.dir = tree[id].dir
    BY <1>1 DEF TreeType
  <2>2. tree' = [tree EXCEPT ![id] = t]
    BY <1>1, <1>5 DEF UserSwitch, TypeOK
  <2> HIDE DEF t
  <2>3. tree[id].dir /\ branch' = branch /\ commits' = commits /\ held = Nobody
    BY <1>5 DEF UserSwitch
  <2>4. UNCHANGED <<system, remote, elsewhere, pulls, evidence>> /\ edits' \in 0..MaxEdits[kind]
    BY <1>1, <1>5, EditedBound DEF UserSwitch
  <2>5. QED BY <1>1, <1>2, <2>1, <2>2, <2>3, <2>4, TreeEdit DEF TypeOK
<1>6. CASE UserPrune(id)
  <2>1. Absent \in TreeType
    BY DEF Absent, TreeType
  <2>2. /\ UNCHANGED <<system, remote, elsewhere, pulls, evidence>> /\ edits' \in 0..MaxEdits[kind]
        /\ branch' = branch /\ commits' = commits /\ ~OnBranch(id)
        /\ tree' = [tree EXCEPT ![id] = Absent]
    BY <1>1, <1>6 DEF UserPrune, TypeOK, OnBranch
  <2>3. QED BY <1>1, <2>1, <2>2, TreeEdit DEF TypeOK
<1>7. QED BY <1>3, <1>4, <1>5, <1>6

LEMMA ElsewhereKeeps ==
  ASSUME CleanupInv, UserCheckoutElsewhere \/ UserCommitElsewhere \/ EvidenceChanges
  PROVE  CleanupInv'
<1>1. TypeOK
  BY DEF CleanupInv
<1>2. /\ UNCHANGED <<system, tree, remote, pulls>> /\ elsewhere' \in BOOLEAN
      /\ evidence' \in {"healthy", "failed", "pending", "unavailable"}
      /\ branch' \in Sha \cup {NoSha} /\ commits' \in Sha
      /\ held # Nobody => branch' = branch
  BY <1>1 DEF UserCheckoutElsewhere, UserCommitElsewhere, EvidenceChanges, NewCommit, TypeOK
<1>3. edits' \in 0..MaxEdits[kind]
  BY <1>1, EditedBound DEF UserCheckoutElsewhere, UserCommitElsewhere, EvidenceChanges, TypeOK
<1>4. TreeShape' /\ OpenPulls'
  BY <1>2 DEF CleanupInv, TreeShape, OpenPulls
<1>5. QED BY <1>1, <1>2, <1>3, <1>4, WorldStep DEF TypeOK, TreeType, Pull, OnBranch

LEMMA PushKeeps ==
  ASSUME CleanupInv, UserPush
  PROVE  CleanupInv'
<1>1. TypeOK /\ branch \in Sha /\ branch # NoSha
  BY DEF CleanupInv, TypeOK, UserPush
<1>2. /\ UNCHANGED <<system, tree, branch, elsewhere, evidence, commits, edits>>
      /\ remote' = branch
      /\ pulls' = [n \in Pr |-> IF pulls[n].state = "OPEN"
                                  THEN [pulls[n] EXCEPT !.head = branch] ELSE pulls[n]]
  BY DEF UserPush
<1>3. ASSUME NEW n \in Pr
      PROVE  /\ pulls'[n] \in Pull
             /\ pulls[n].state = "MERGED" => pulls'[n] = pulls[n]
             /\ pulls'[n].state # "NONE" => pulls'[n].head # NoSha
             /\ pulls'[n].state = "OPEN" => pulls'[n].head = branch
  <2>1. pulls[n] \in Pull /\ (pulls[n].state # "NONE" => pulls[n].head # NoSha)
    BY <1>1 DEF CleanupInv, OpenPulls, TypeOK, Pull
  <2>2. CASE pulls[n].state = "OPEN"
    BY <1>1, <1>2, <2>1, <2>2 DEF Pull
  <2>3. CASE pulls[n].state # "OPEN"
    BY <1>2, <2>1, <2>3
  <2>4. QED BY <2>2, <2>3
<1>4. pulls' \in [Pr -> Pull]
  BY <1>2, <1>3
<1>5. OpenPulls'
  BY <1>2, <1>3 DEF OpenPulls
<1>6. QED BY <1>1, <1>2, <1>3, <1>4, <1>5, PullEdit DEF TypeOK

LEMMA PullKeeps ==
  ASSUME CleanupInv, NEW number \in {Staging, Final},
         UserOpenPull(number) \/ MergePull(number) \/ ClosePull(number)
  PROVE  CleanupInv'
<1>1. TypeOK /\ number \in Pr /\ pulls \in [Pr -> Pull] /\ pulls[number] \in Pull
      /\ remote \in Sha \cup {NoSha}
  BY CleanupAssumption DEF CleanupInv, TypeOK, Pull
<1>2. UNCHANGED <<system, tree, branch, elsewhere, evidence, commits>>
      /\ edits' \in 0..MaxEdits[kind]
  BY <1>1, EditedBound DEF UserOpenPull, MergePull, ClosePull, TypeOK
<1>3. ASSUME NEW pull \in Pull, pulls' = [pulls EXCEPT ![number] = pull],
             remote' \in {remote, NoSha}, pulls[number].state # "MERGED",
             pull.state # "NONE" => pull.head # NoSha,
             pull.state = "OPEN" => remote' = remote /\ pull.head = remote
      PROVE  CleanupInv'
  <2>1. /\ pulls' \in [Pr -> Pull] /\ pulls'[number] = pull
        /\ \A n \in Pr \ {number} : pulls'[n] = pulls[n]
    BY <1>1, <1>3
  <2>2. OpenPulls'
    BY <1>3, <2>1 DEF CleanupInv, OpenPulls
  <2>3. QED BY <1>1, <1>2, <1>3, <2>1, <2>2, PullEdit
<1>4. CASE pulls[number].state \in {"NONE", "CLOSED"} /\ remote # NoSha
           /\ pulls' = [pulls EXCEPT ![number] = [state |-> "OPEN", head |-> remote]]
           /\ remote' = remote
  <2>1. [state |-> "OPEN", head |-> remote] \in Pull
    BY <1>1 DEF Pull
  <2>2. QED BY <1>3, <1>4, <2>1
<1>5. ASSUME NEW state \in {"MERGED", "CLOSED"}, pulls[number].state = "OPEN",
             pulls' = [pulls EXCEPT ![number].state = state], remote' \in {remote, NoSha}
      PROVE  CleanupInv'
  <2> DEFINE pull == [pulls[number] EXCEPT !.state = state]
  <2>1. pull \in Pull /\ pull.state = state /\ pull.head = pulls[number].head
    BY <1>1 DEF Pull
  <2>2. pulls[number].head # NoSha
    BY <1>1, <1>5 DEF CleanupInv, OpenPulls
  <2>3. pulls' = [pulls EXCEPT ![number] = pull]
    BY <1>1, <1>5
  <2> HIDE DEF pull
  <2>4. QED BY <1>3, <1>5, <2>1, <2>2, <2>3
<1>6. CASE UserOpenPull(number)
  BY <1>4, <1>6 DEF UserOpenPull
<1>7. CASE MergePull(number)
  BY <1>5, <1>7 DEF MergePull
<1>8. CASE ClosePull(number)
  BY <1>4, <1>5, <1>8 DEF ClosePull
<1>9. QED BY <1>6, <1>7, <1>8

LEMMA WorldKeeps ==
  ASSUME CleanupInv, World
  PROVE  CleanupInv'
BY UserKeeps, ElsewhereKeeps, PushKeeps, PullKeeps DEF World

-----------------------------------------------------------------------------
(* The invariant and what follows from it.                                 *)

LEMMA CleanupInvInit == Init => CleanupInv
<1> SUFFICES ASSUME Init PROVE CleanupInv
  OBVIOUS
<1> USE CleanupAssumption
<1> DEFINE linked == [NewLease("promote", 1) EXCEPT !.state = "PR_OPEN", !.target = Final]
<1>1. linked \in Lease /\ linked.state = "PR_OPEN"
  <2>1. NewLease("promote", 1) \in Lease
    BY NewLeaseType
  <2>2. QED BY <2>1 DEF Lease, LeaseState
<1>2. PublishedRelease \in Release /\ PublishedRelease.state = "PUBLISHED"
  BY DEF PublishedRelease, Release, ReleaseState
<1> HIDE DEF linked
<1>3. reg = InitialRows
  BY DEF Init
<1>4. \A id \in LeaseId :
        /\ reg.leases[id] = NoLease \/ (id = FirstLease /\ reg.leases[id] = linked)
        /\ reg.reservations[id] = NoReservation
        /\ reg.releases[id] # NoRelease =>
             reg.leases[id] = linked /\ reg.releases[id] = PublishedRelease
  BY <1>3 DEF InitialRows, NoLeases, linked
<1>5. reg \in Registry
  <2>1. reg.leases \in [LeaseId -> Lease \cup {NoLease}]
    BY <1>1, <1>3 DEF InitialRows, NoLeases, linked
  <2>2. reg.reservations \in [LeaseId -> Reservation \cup {NoReservation}]
    BY <1>3 DEF InitialRows
  <2>3. reg.releases \in [LeaseId -> Release \cup {NoRelease}]
    BY <1>2, <1>3 DEF InitialRows
  <2>4. reg = [leases |-> reg.leases, reservations |-> reg.reservations,
               releases |-> reg.releases]
    BY <1>3 DEF InitialRows
  <2>5. QED BY <2>1, <2>2, <2>3, <2>4 DEF Registry
<1>6. tree \in [LeaseId -> TreeType] /\ TreeShape
  <2>1. Absent \in TreeType /\ Checkout \in TreeType /\ Checkout.dir /\ ~Absent.dirty /\ ~Absent.on
    BY DEF Absent, Checkout, TreeType
  <2>2. QED BY <2>1 DEF Init, TreeShape
<1>7. pulls \in [Pr -> Pull] /\ OpenPulls
  <2>1. /\ NoPull \in Pull /\ NoPull.state = "NONE"
        /\ [state |-> "OPEN", head |-> 1] \in Pull
    BY DEF NoPull, Pull
  <2>2. ASSUME NEW n \in Pr
        PROVE  pulls[n] = NoPull
               \/ (pulls[n] = [state |-> "OPEN", head |-> 1] /\ remote = 1)
    BY DEF Init
  <2>3. pulls \in [Pr -> Pull]
    BY <2>1 DEF Init
  <2>4. OpenPulls
    BY <2>1, <2>2 DEF OpenPulls
  <2>5. QED BY <2>3, <2>4
<1>8. prepared \in [LeaseId -> [marker : BOOLEAN, deps : BOOLEAN]]
  BY DEF Init, Unprepared
<1>9. Idle \in ProcRecord /\ Idle.pc = "idle"
  <2>1. NoPull \in Pull /\ "idle" \in Pc
    BY DEF NoPull, Pull, Pc
  <2>2. QED BY <2>1 DEF Idle, ProcRecord
<1>10. proc \in [Proc -> ProcRecord] /\ \A p \in Proc : proc[p].pc = "idle"
  BY <1>9 DEF Init
<1>11. TypeOK
  <2>1. /\ kind \in Kinds /\ branch \in Sha \cup {NoSha} /\ remote \in Sha \cup {NoSha}
        /\ elsewhere \in BOOLEAN /\ evidence = "unavailable" /\ lock = Nobody /\ held = Nobody
        /\ commits \in Sha /\ edits = 0 /\ crashes = 0
    BY DEF Init
  <2>2. edits \in 0..MaxEdits[kind] /\ crashes \in 0..MaxCrashes
    BY <2>1
  <2>3. QED BY <1>5, <1>6, <1>7, <1>8, <1>10, <2>1, <2>2 DEF TypeOK, TreeType, ProcRecord, Pull
<1>12. ReservationCurrent /\ RemovedTogether /\ ReleaseOfLease
  BY <1>1, <1>2, <1>4 DEF ReservationCurrent, RemovedTogether, ReleaseOfLease, Reserved, Registered
<1>13. ASSUME NEW p \in Proc PROVE ProcInv(p)
  <2>1. proc[p].pc = "idle" /\ lock # p
    BY <1>10 DEF Init
  <2>2. QED BY <2>1
     DEF ProcInv, LockKept, CopyCurrent, LiveCopy, TargetKnown,
       ReservationHeld, PullSeen, ShaReserved, MergedTip, Removable, GoneBeforeComplete, HeadKnown,
       Uncreated, Waiting, Refreshing, Holding, Recovering, Reserving, Finishing, Deleting
<1>14. QED BY <1>6, <1>7, <1>11, <1>12, <1>13 DEF CleanupInv

LEMMA CleanupInvStep == CleanupInv /\ [Next]_vars => CleanupInv'
<1> SUFFICES ASSUME CleanupInv, [Next]_vars PROVE CleanupInv'
  OBVIOUS
<1>1. CASE Next
  <2>1. ASSUME NEW p \in Proc, Begin(p) \/ TakeLock(p) \/ Advance(p) \/ Crash(p)
        PROVE  CleanupInv'
    BY <2>1, BeginKeeps, TakeLockKeeps, AdvanceKeeps, ReturnKeeps
  <2>2. QED BY <1>1, <2>1, WorldKeeps DEF Next
<1>2. CASE UNCHANGED vars
  <2>1. TypeOK'
    BY <1>2 DEF CleanupInv, TypeOK, vars
  <2>2. RegistryInv'
    BY <1>2 DEF CleanupInv, RegistryInv, ReservationCurrent, RemovedTogether, TreeShape,
                ReleaseOfLease, OpenPulls, Reserved, Live, Registered, vars
  <2>3. ASSUME NEW p \in Proc PROVE ProcInv(p)'
    BY <1>2 DEF CleanupInv, vars, ProcInv, LockKept, CopyCurrent, LiveCopy, TargetKnown,
       ReservationHeld, PullSeen, ShaReserved, MergedTip, Removable, GoneBeforeComplete,
       HeadKnown, Uncreated, HoldsReservation, Reserved, LeaseAt, Registered, OnBranch
  <2>4. QED BY <2>1, <2>2, <2>3 DEF CleanupInv, RegistryInv
<1>3. QED BY <1>1, <1>2

(* Type correctness of the registry, the files, the pull requests and the  *)
(* processes (service.py and registry.py), for any processes and commands. *)
THEOREM CleanupTypes == Spec => []TypeOK
<1>1. CleanupInv => TypeOK
  BY DEF CleanupInv
<1>2. QED BY <1>1, CleanupInvInit, CleanupInvStep, PTL DEF Spec

(* A reservation is always about the row as it is, so what a later finish  *)
(* compares it with is what the dead one reserved (service.py:5606).       *)
THEOREM ReservationsStayCurrent == Spec => []ReservationCurrent
<1>1. CleanupInv => ReservationCurrent
  BY DEF CleanupInv
<1>2. QED BY <1>1, CleanupInvInit, CleanupInvStep, PTL DEF Spec

(* A removed lease never has a worktree, a reservation or an open bridge.  *)
THEOREM RemovalIsWhole == Spec => []RemovedTogether
<1>1. CleanupInv => RemovedTogether
  BY DEF CleanupInv
<1>2. QED BY <1>1, CleanupInvInit, CleanupInvStep, PTL DEF Spec

-----------------------------------------------------------------------------
(* Which steps of a process touch the files at all.                        *)

LEMMA FilesTouched ==
  ASSUME NEW p \in Proc, Begin(p) \/ TakeLock(p) \/ Advance(p) \/ Crash(p)
  PROVE  \/ UNCHANGED <<tree, branch, remote>>
         \/ AddWorktree(p) \/ UndoWorktree(p) \/ UndoBranch(p)
         \/ RemoveWorktree(p) \/ DeleteLocal(p) \/ DeleteRemote(p)
<1>1. CASE Begin(p)
  BY <1>1 DEF Begin, StartAcquire, StartImport, StartAdopt, StartLink, StartStatus, StartFinish,
              StartGc, StartCompact, Start, world
<1>2. CASE TakeLock(p) \/ Crash(p)
  BY <1>2 DEF TakeLock, Crash, world
<1>3. CASE Advance(p)
  <2>1. CASE ReuseLease(p) \/ CreateRow(p) \/ RunPrepare(p) \/ WriteMarker(p) \/ Return(p)
    BY <2>1 DEF ReuseLease, CreateRow, RunPrepare, WriteMarker, Return, EndHere, world
  <2>2. CASE \/ Import(p) \/ Adopt(p) \/ AdoptView(p) \/ AdoptWithPr(p)
             \/ LinkRead(p) \/ LinkView(p) \/ LinkStaging(p) \/ LinkFinal(p)
    BY <2>2 DEF Import, Adopt, AdoptView, AdoptWithPr, LinkRead, LinkView, LinkStaging,
                LinkFinal, WriteLink, View, Read, EndHere, world
  <2>3. CASE \/ RefreshView(p) \/ RefreshWrite(p) \/ RefreshProbe(p) \/ RefreshSync(p)
             \/ FinishOpen(p) \/ FinishRead(p) \/ FinishView(p) \/ FinishCheck(p)
             \/ ForceProbe(p) \/ FinishReview(p) \/ FinishRecheck(p) \/ Reserve(p)
    BY <2>3 DEF RefreshView, RefreshWrite, RefreshProbe, RefreshSync, FinishOpen, FinishRead,
                FinishView, FinishCheck, ForceProbe, FinishReview, FinishRecheck, Reserve,
                ViewOr, View, Read, EndHere, world
  <2>4. CASE \/ HoldBranch(p) \/ HeldRead(p) \/ HeldView(p) \/ HeldCheck(p)
             \/ Complete(p) \/ GiveUp(p) \/ RecoverView(p) \/ RecoverCheck(p)
             \/ RecoverAct(p) \/ CompactMarker(p) \/ CompactRemove(p)
    BY <2>4 DEF HoldBranch, HeldRead, HeldView, HeldCheck, Complete, GiveUp, RecoverView,
                RecoverCheck, RecoverAct, CompactMarker, CompactRemove, Unhold, ViewOr, View,
                Read, EndHere, world
  <2>5. QED BY <1>3, <2>1, <2>2, <2>3, <2>4 DEF Advance
<1>4. QED BY <1>1, <1>2, <1>3

\* The two steps that take a directory away, and what they have made sure of.
LEMMA RemovalIsSafe ==
  ASSUME CleanupInv, NEW p \in Proc, UndoWorktree(p) \/ RemoveWorktree(p),
         NEW id \in LeaseId, tree[id].dir, ~tree'[id].dir
  PROVE  /\ ~tree[id].dirty /\ tree[id].on
         /\ \/ ~Registered(reg, id) /\ branch = 1
            \/ /\ Reserved(reg, id)
               /\ Deployed(reg.leases[id])
               /\ pulls[reg.leases[id].target].state = "MERGED"
               /\ {pulls[reg.leases[id].target].head, reg.leases[id].head} = {branch}
<1>1. TypeOK /\ ProcInv(p)
  BY DEF CleanupInv
<1>2. CASE UndoWorktree(p)
  <2>1. /\ proc[p].pc = "uncreate" /\ OnBranch(proc[p].id) /\ branch = 1
        /\ ~tree[proc[p].id].dirty /\ tree' = [tree EXCEPT ![proc[p].id] = Absent]
    BY <1>2 DEF UndoWorktree, At, EndHere
  <2>2. id = proc[p].id
    BY <1>1, <2>1 DEF TypeOK
  <2>3. QED BY <1>1, <2>1, <2>2 DEF OnBranch, ProcInv, Uncreated
<1>3. CASE RemoveWorktree(p)
  <2>1. proc[p].pc = "remove"
    BY <1>3 DEF RemoveWorktree, At
  <2>2. id = proc[p].id /\ ~tree[id].dirty
    <3>1. tree' = tree \/ \E t \in {Absent, [Absent EXCEPT !.admin = TRUE]} :
             ~tree[proc[p].id].dirty /\ tree' = [tree EXCEPT ![proc[p].id] = t]
      BY <1>3 DEF RemoveWorktree
    <3>2. QED BY <1>1, <3>1 DEF TypeOK
  <2>3. branch = proc[p].sha /\ OnBranch(id) /\ Deployed(proc[p].lease)
    BY <1>1, <2>1, <2>2 DEF ProcInv, Removable
  <2>4. /\ proc[p].lease = reg.leases[id] /\ Reserved(reg, id)
        /\ reg.reservations[id].branchSha = proc[p].lease.head
    BY <2>1, <2>2, HolderHasRow DEF Reserving, Holding
  <2>5. proc[p].sha = reg.reservations[id].branchSha
    BY <1>1, <2>1, <2>2 DEF ProcInv, ShaReserved, Holding
  <2>6. pulls[proc[p].lease.target] = [state |-> "MERGED", head |-> proc[p].sha]
    BY <1>1, <2>1 DEF ProcInv, MergedTip
  <2>7. QED BY <2>1, <2>2, <2>3, <2>4, <2>5, <2>6 DEF OnBranch
<1>4. QED BY <1>2, <1>3

(* finish never loses work: any worktree that goes is clean, on its branch *)
(* and at the merged head of its lease, or what a failed acquire made      *)
(* (service.py finish, _handle_creation_failure).                          *)
THEOREM FinishLosesNothing == Spec => NoWorkLost
<1> DEFINE Safe(id) ==
       /\ ~tree[id].dirty /\ tree[id].on
       /\ \/ ~Registered(reg, id) /\ branch = 1
          \/ /\ Reserved(reg, id)
             /\ Deployed(reg.leases[id])
             /\ pulls[reg.leases[id].target].state = "MERGED"
             /\ {pulls[reg.leases[id].target].head, reg.leases[id].head} = {branch}
           Kept == \A id \in LeaseId : tree[id].dir /\ ~tree'[id].dir => Safe(id)
<1>1. CleanupInv /\ [Next]_vars => Kept \/ UNCHANGED vars
  <2> SUFFICES ASSUME CleanupInv, Next, NEW id \in LeaseId, tree[id].dir, ~tree'[id].dir
               PROVE  Safe(id)
    OBVIOUS
  <2>1. tree \in [LeaseId -> TreeType]
    BY DEF CleanupInv, TypeOK, TreeType
  <2>2. ASSUME NEW p \in Proc, Begin(p) \/ TakeLock(p) \/ Advance(p) \/ Crash(p)
        PROVE  Safe(id)
    <3>1. CASE UNCHANGED <<tree, branch, remote>>
      BY <3>1
    <3>2. CASE AddWorktree(p)
      <4>1. tree' = tree \/ \E i \in LeaseId : tree' = [tree EXCEPT ![i] = Checkout]
        BY <3>2 DEF AddWorktree, EndHere
      <4>2. Checkout.dir
        BY DEF Checkout
      <4>3. QED BY <2>1, <4>1, <4>2
    <3>3. CASE UndoWorktree(p) \/ RemoveWorktree(p)
      BY <3>3, RemovalIsSafe
    <3>4. CASE UndoBranch(p) \/ DeleteLocal(p) \/ DeleteRemote(p)
      BY <3>4 DEF UndoBranch, DeleteLocal, DeleteRemote
    <3>5. QED BY <2>2, <3>1, <3>2, <3>3, <3>4, FilesTouched
  <2>3. CASE World
    <3>1. CASE tree' = tree
      BY <3>1
    <3>2. ASSUME NEW i \in LeaseId,
                 UserCommit(i) \/ UserEdit(i) \/ UserSwitch(i) \/ UserPrune(i)
          PROVE  Safe(id)
      <4>1. CASE UserCommit(i)
        BY <2>1, <4>1 DEF UserCommit, TreeType
      <4>2. CASE UserEdit(i)
        BY <2>1, <4>2 DEF UserEdit, TreeType
      <4>3. CASE UserSwitch(i)
        BY <2>1, <4>3 DEF UserSwitch, TreeType
      <4>4. CASE UserPrune(i)
        BY <2>1, <4>4 DEF UserPrune, TreeType
      <4>5. QED BY <3>2, <4>1, <4>2, <4>3, <4>4
    <3>3. tree' = tree \/ \E i \in LeaseId :
            UserCommit(i) \/ UserEdit(i) \/ UserSwitch(i) \/ UserPrune(i)
      BY <2>3 DEF World, UserCheckoutElsewhere, UserCommitElsewhere, UserPush, UserOpenPull,
                  MergePull, ClosePull, EvidenceChanges
    <3>4. QED BY <3>1, <3>2, <3>3
  <2>4. QED BY <2>2, <2>3 DEF Next
<1>2. NoWorkLost <=> [][Kept]_vars
  BY DEF NoWorkLost
<1>3. CleanupInv /\ [Next]_vars => [Kept]_vars
  BY <1>1
<1> HIDE DEF Kept
<1>4. QED BY <1>2, <1>3, CleanupInvInit, CleanupInvStep, PTL DEF Spec

(* A branch, local or on origin, goes only at a commit that a merged pull  *)
(* request has or where acquire made it (service.py _cleanup_branches).    *)
THEOREM BranchesGoMerged == Spec => BranchesKept
<1> DEFINE Merged(tip) ==
       \/ tip = 1
       \/ \E n \in Pr : pulls[n].head = tip /\ pulls'[n].state = "MERGED"
           Kept == \A tip \in Sha : \/ branch = tip /\ branch' = NoSha
                                    \/ remote = tip /\ remote' = NoSha
                                    => Merged(tip)
<1>1. CleanupInv /\ [Next]_vars => Kept \/ UNCHANGED vars
  <2> SUFFICES ASSUME CleanupInv, Next, NEW tip \in Sha,
                      \/ branch = tip /\ branch' = NoSha
                      \/ remote = tip /\ remote' = NoSha
               PROVE  Merged(tip)
    OBVIOUS
  <2>1. TypeOK /\ tip # NoSha
    BY CleanupAssumption DEF CleanupInv
  <2>2. ASSUME NEW p \in Proc, Begin(p) \/ TakeLock(p) \/ Advance(p) \/ Crash(p)
        PROVE  Merged(tip)
    <3>1. ProcInv(p)
      BY DEF CleanupInv
    <3>2. CASE UNCHANGED <<tree, branch, remote>>
      BY <2>1, <3>2
    <3>3. CASE AddWorktree(p)
      BY <2>1, <3>3, CleanupAssumption DEF AddWorktree, EndHere, world
    <3>4. CASE UndoWorktree(p) \/ RemoveWorktree(p)
      BY <2>1, <3>4 DEF UndoWorktree, RemoveWorktree, EndHere, world
    <3>5. CASE UndoBranch(p)
      BY <2>1, <3>5 DEF UndoBranch
    <3>6. CASE DeleteLocal(p) \/ DeleteRemote(p)
      <4>1. proc[p].pc \in Deleting /\ pulls' = pulls /\ tip = proc[p].sha
        BY <2>1, <3>6 DEF DeleteLocal, DeleteRemote, At, Deleting
      <4>2. proc[p].lease.target \in Pr
        BY <4>1, TargetIsPull
      <4>3. pulls[proc[p].lease.target] = [state |-> "MERGED", head |-> tip]
        BY <3>1, <4>1 DEF ProcInv, MergedTip
      <4>4. QED BY <4>1, <4>2, <4>3
    <3>7. QED BY <2>2, <3>2, <3>3, <3>4, <3>5, <3>6, FilesTouched
  <2>3. CASE World
    <3>1. ASSUME NEW number \in {Staging, Final}, MergePull(number) PROVE Merged(tip)
      <4>1. number \in Pr /\ branch' = branch /\ pulls \in [Pr -> Pull]
        BY <2>1, <3>1, CleanupAssumption DEF MergePull, TypeOK, Pull
      <4>2. pulls[number].head = tip
        BY <2>1, <3>1, <4>1 DEF MergePull, CleanupInv, OpenPulls
      <4>3. pulls'[number].state = "MERGED"
        BY <3>1, <4>1 DEF MergePull, Pull
      <4>4. QED BY <4>1, <4>2, <4>3
    <3>2. CASE branch' \in {branch} \cup Sha /\ remote' \in {remote} \cup Sha
      BY <2>1, <3>2, CleanupAssumption
    <3>3. \/ branch' \in {branch} \cup Sha /\ remote' \in {remote} \cup Sha
          \/ \E number \in {Staging, Final} : MergePull(number)
      BY <2>1, <2>3 DEF World, UserCommit, UserEdit, UserSwitch, UserPrune,
           UserCheckoutElsewhere, UserCommitElsewhere, UserPush, UserOpenPull,
           ClosePull, EvidenceChanges, NewCommit, TypeOK
    <3>4. QED BY <3>1, <3>2, <3>3
  <2>4. QED BY <2>2, <2>3 DEF Next
<1>2. BranchesKept <=> [][Kept]_vars
  BY DEF BranchesKept
<1>3. CleanupInv /\ [Next]_vars => [Kept]_vars
  BY <1>1
<1> HIDE DEF Kept
<1>4. QED BY <1>2, <1>3, CleanupInvInit, CleanupInvStep, PTL DEF Spec
=============================================================================
