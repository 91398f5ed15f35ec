--------------------------- MODULE LeaseRegistry ---------------------------
(***************************************************************************)
(* The rows of worktrees/registry.py: leases, cleanup reservations and     *)
(* release bridges.  Every write is one BEGIN IMMEDIATE transaction, so    *)
(* it is a guard on the rows and the rows it leaves; a call whose guard    *)
(* is false raises and changes nothing.  A release row is kept under the   *)
(* id of its lease.                                                        *)
(***************************************************************************)
EXTENDS Naturals, Sequences, SequencesExt

CONSTANTS LeaseId,
          Sha,            \* commits
          NoSha,
          Pr,             \* pull request numbers
          NoPr,
          Source,         \* pinned source pull requests of a release
          NoSource,
          NoLease,        \* no row
          NoReservation,
          NoRelease

LeaseState ==
  {"ACTIVE", "PR_OPEN", "DEPLOYING", "CLEANABLE", "REMOVED", "DIRTY",
   "CLOSED_UNMERGED", "BLOCKED"}

DeploymentState == {"UNKNOWN", "PENDING", "HEALTHY", "FAILED", "NOT_REQUIRED"}

ReleaseState ==
  {"OPEN", "SEALED", "PUBLISHED", "MERGED", "CLOSED_UNMERGED", "CLEANED"}

Lease ==
  [state : LeaseState, version : Nat, head : Sha \cup {NoSha},
   purpose : {"feature", "scratch", "promote"}, owner : {"awf", "imported"},
   managed : BOOLEAN, target : Pr \cup {NoPr}, staged : Sha \cup {NoSha},
   base : Sha \cup {NoSha}, deployment : DeploymentState]

Reservation == [version : Nat, branchSha : Sha]

Release ==
  [state : ReleaseState, version : Nat, sources : Seq(Source),
   pending : Source \cup {NoSource}, verified : Sha \cup {NoSha},
   published : Sha \cup {NoSha}, target : Pr \cup {NoPr}]

Registry ==
  [leases : [LeaseId -> Lease \cup {NoLease}],
   reservations : [LeaseId -> Reservation \cup {NoReservation}],
   releases : [LeaseId -> Release \cup {NoRelease}]]

Registered(reg, id) == reg.leases[id] # NoLease

Reserved(reg, id) == reg.reservations[id] # NoReservation

Live(reg, id) == Registered(reg, id) /\ reg.leases[id].state # "REMOVED"

LeaseAt(reg, id, version) ==
  Registered(reg, id) /\ reg.leases[id].version = version

ReleaseAt(reg, id, version) ==
  reg.releases[id] # NoRelease /\ reg.releases[id].version = version

-----------------------------------------------------------------------------
(* Writes of one lease. *)

\* The partial unique index on (repository, initiative, purpose): every id
\* of LeaseId stands for the same identity.
CanCreate(reg, id) ==
  /\ ~Registered(reg, id)
  /\ \A other \in LeaseId : ~Live(reg, other)

CreateLease(reg, id, lease) == [reg EXCEPT !.leases[id] = lease]

CreateReleaseWithLease(reg, id, lease, release) ==
  [CreateLease(reg, id, lease) EXCEPT !.releases[id] = release]

\* transition and touch: a compare-and-set that an open reservation refuses.
CanTransition(reg, id, version) ==
  LeaseAt(reg, id, version) /\ ~Reserved(reg, id)

Bumped(row) == [row EXCEPT !.version = @ + 1]

Transition(reg, id, lease) == [reg EXCEPT !.leases[id] = Bumped(lease)]

Touch(reg, id, head) ==
  [reg EXCEPT !.leases[id] = Bumped([@ EXCEPT !.head = head])]

-----------------------------------------------------------------------------
(* The cleanup reservation. *)

CanReserve(reg, id, version) ==
  /\ LeaseAt(reg, id, version)
  /\ reg.leases[id].state # "REMOVED"
  /\ ~Reserved(reg, id)

\* Mutant: the reservation names the row's old version.
ReserveAtOldVersion(reg, id, branchSha) ==
  [reg EXCEPT
     !.leases[id] = Bumped(@),
     !.reservations[id] =
        [version |-> reg.leases[id].version, branchSha |-> branchSha]]

ReserveCleanup(reg, id, branchSha) ==
  [reg EXCEPT
     !.leases[id] = Bumped(@),
     !.reservations[id] =
        [version |-> reg.leases[id].version + 1, branchSha |-> branchSha]]

HoldsReservation(reg, id, version) ==
  /\ Reserved(reg, id)
  /\ reg.reservations[id].version = version
  /\ LeaseAt(reg, id, version)

\* complete_cleanup raises ValueError for a bridge in any other state.
CanComplete(reg, id, version) ==
  /\ HoldsReservation(reg, id, version)
  /\ \/ reg.releases[id] = NoRelease
     \/ reg.releases[id].state \in {"PUBLISHED", "MERGED"}

CompleteCleanup(reg, id) ==
  [reg EXCEPT
     !.leases[id] = Bumped([@ EXCEPT !.state = "REMOVED"]),
     !.releases[id] = IF @ = NoRelease THEN @
                      ELSE Bumped([@ EXCEPT !.state = "CLEANED"]),
     !.reservations[id] = NoReservation]

ReleaseReservation(reg, id) ==
  [reg EXCEPT !.leases[id] = Bumped(@), !.reservations[id] = NoReservation]

-----------------------------------------------------------------------------
(* Release bridges. *)

ReleaseSuccessors ==
  [OPEN |-> {"SEALED"}, SEALED |-> {"PUBLISHED"},
   PUBLISHED |-> {"MERGED", "CLOSED_UNMERGED"}, MERGED |-> {"CLEANED"},
   CLOSED_UNMERGED |-> {}, CLEANED |-> {}]

ValidReleaseTransition(from, to) == to = from \/ to \in ReleaseSuccessors[from]

CanStage(reg, id, version, source) ==
  /\ ReleaseAt(reg, id, version)
  /\ LET release == reg.releases[id] IN
       /\ release.state = "OPEN"
       /\ source \notin ToSet(release.sources)
       /\ release.pending \in {NoSource, source}

\* Staging the source that is pending already writes nothing.
StageSource(reg, id, source) ==
  IF reg.releases[id].pending = source THEN reg
  ELSE [reg EXCEPT !.releases[id] = Bumped([@ EXCEPT !.pending = source])]

CanClear(reg, id, version, source) ==
  /\ ReleaseAt(reg, id, version)
  /\ reg.releases[id].pending = source

ClearPending(reg, id) ==
  [reg EXCEPT !.releases[id] = Bumped([@ EXCEPT !.pending = NoSource])]

CanAccept(reg, id, version, leaseVersion, source) ==
  /\ CanClear(reg, id, version, source)
  /\ LeaseAt(reg, id, leaseVersion)
  /\ reg.releases[id].state = "OPEN"
  /\ source \notin ToSet(reg.releases[id].sources)

AcceptSource(reg, id, source, head, base) ==
  LET sources == Append(reg.releases[id].sources, source) IN
  [reg EXCEPT
     !.releases[id] = Bumped([@ EXCEPT !.sources = sources,
                                       !.pending = NoSource]),
     !.leases[id] = Bumped([@ EXCEPT !.head = head, !.base = base])]

CanTransitionRelease(reg, id, version, state) ==
  /\ ReleaseAt(reg, id, version)
  /\ ValidReleaseTransition(reg.releases[id].state, state)
  /\ state = "SEALED" => reg.releases[id].pending = NoSource

TransitionRelease(reg, id, state, verified) ==
  [reg EXCEPT !.releases[id] = Bumped([@ EXCEPT !.state = state,
                                                !.verified = verified])]

CanPublish(reg, id, version, leaseVersion, pr) ==
  /\ ReleaseAt(reg, id, version)
  /\ LeaseAt(reg, id, leaseVersion)
  /\ reg.releases[id].state = "SEALED"
  /\ reg.leases[id].state \in {"ACTIVE", "PR_OPEN"}
  /\ reg.leases[id].state = "PR_OPEN" => reg.leases[id].target \in {NoPr, pr}

PublishRelease(reg, id, pr, head, base) ==
  [reg EXCEPT
     !.leases[id] = Bumped([@ EXCEPT !.state = "PR_OPEN", !.target = pr,
                                     !.head = head, !.base = base]),
     !.releases[id] = Bumped([@ EXCEPT !.state = "PUBLISHED",
                                       !.verified = base, !.published = head,
                                       !.target = pr])]

\* sync_release_state_for_lease: nothing for a plain lease or the same state.
CanSync(reg, id, state) ==
  \/ reg.releases[id] = NoRelease
  \/ ValidReleaseTransition(reg.releases[id].state, state)

SyncRelease(reg, id, state) ==
  IF reg.releases[id] = NoRelease \/ reg.releases[id].state = state THEN reg
  ELSE [reg EXCEPT !.releases[id] = Bumped([@ EXCEPT !.state = state])]
=============================================================================
