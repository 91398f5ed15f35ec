-------------------------- MODULE WorktreeCleanup --------------------------
(***************************************************************************)
(* The life of one managed worktree under `awf wt` (worktrees/service.py): *)
(* acquire, import, adopt, link-pr, status --refresh, compact, finish and  *)
(* gc, run by processes that may die at every step, next to a user who     *)
(* commits, switches, pushes and merges at any time.                       *)
(*                                                                         *)
(* Every command but status --refresh works under the repository lock, a   *)
(* flock that a dying process drops.  The registry rows, the worktree, the *)
(* branches and the pull request change in separate steps, and all that    *)
(* protects a step is the check before it: row versions, the cleanup       *)
(* reservation, the ref transaction held on the branch, and the            *)
(* compare-and-delete of the branches.                                     *)
(***************************************************************************)
EXTENDS LeaseRegistry, FiniteSets

CONSTANTS Proc, Nobody,
          Commands,     \* the commands each process runs, per kind
          Kinds,        \* what the worktree starts as
          FirstLease,   \* the id of the lease or worktree there is at first
          Staging,      \* the pull request against the staging branch
          Final,        \* the one against production
          ExternalFaults, \* whether gh, git and the prepare command may fail
          MaxVersion,   \* bound, per kind: of the rows a command starts on
          MaxCrashes,   \* bound on processes that die
          MaxEdits      \* bound, per kind, on what the user and GitHub change

ASSUME CleanupAssumption ==
  /\ Sha \subseteq Nat \ {0}
  /\ 1 \in Sha
  /\ NoSha = 0
  /\ FirstLease \in LeaseId
  /\ {Staging, Final} \subseteq Pr /\ Staging # Final /\ NoPr \notin Pr
  /\ NoLease \notin Lease
  /\ NoReservation \notin Reservation
  /\ Nobody \notin Proc
  /\ ExternalFaults \in BOOLEAN
  /\ MaxEdits \in [Kinds -> Nat] /\ MaxCrashes \in Nat

VARIABLES
  kind,       \* feature, imported, promotion, release
  reg,        \* the registry rows
  tree,       \* per lease path: the directory, git's record of it, its state
  branch,     \* tip of the local branch, NoSha when it is not there
  remote,     \* tip of the branch on origin
  elsewhere,  \* the branch is checked out in a worktree that is not a lease
  pulls,      \* the pull requests
  evidence,   \* what the deployment adapter would answer
  prepared,   \* per lease: the prepare marker and what it stands for
  lock,       \* holder of the repository lock
  held,       \* holder of the prepared ref transaction on the branch
  proc,       \* what each process is doing and what it has read
  commits,    \* number of commits made, the name of the latest
  edits, crashes

vars == <<kind, reg, tree, branch, remote, elsewhere, pulls, evidence,
          prepared, lock, held, proc, commits, edits, crashes>>

world == <<kind, branch, remote, elsewhere, pulls, evidence, commits, edits,
           crashes>>

Absent == [dir |-> FALSE, admin |-> FALSE, dirty |-> FALSE, on |-> FALSE]

Checkout == [dir |-> TRUE, admin |-> TRUE, dirty |-> FALSE, on |-> TRUE]

NoPull == [state |-> "NONE", head |-> NoSha]

Unprepared == [marker |-> FALSE, deps |-> FALSE]

NewLease(purpose, head) ==
  [state |-> "ACTIVE", version |-> 0, head |-> head, purpose |-> purpose,
   owner |-> "awf", managed |-> TRUE, target |-> NoPr, staged |-> NoSha,
   base |-> NoSha, deployment |-> "UNKNOWN"]

PublishedRelease ==
  [state |-> "PUBLISHED", version |-> 0, sources |-> <<>>,
   pending |-> NoSource, verified |-> 1, published |-> 1, target |-> Final]

NoLeases == [id \in LeaseId |-> NoLease]

InitialRows ==
  [leases |-> IF kind \in {"promotion", "release"}
                THEN [NoLeases EXCEPT ![FirstLease] =
                       [NewLease("promote", 1) EXCEPT !.state = "PR_OPEN",
                                                      !.target = Final]]
                ELSE NoLeases,
   reservations |-> [id \in LeaseId |-> NoReservation],
   releases |-> [id \in LeaseId |->
                  IF kind = "release" /\ id = FirstLease
                    THEN PublishedRelease ELSE NoRelease]]

Idle == [pc |-> "idle", id |-> FirstLease, lease |-> NoLease, pull |-> NoPull,
         sha |-> NoSha]

Init ==
  /\ kind \in Kinds
  /\ reg = InitialRows
  /\ tree = [id \in LeaseId |->
              IF kind # "feature" /\ id = FirstLease THEN Checkout ELSE Absent]
  /\ branch = IF kind = "feature" THEN NoSha ELSE 1
  /\ remote = IF kind = "feature" THEN NoSha ELSE 1
  /\ elsewhere = FALSE
  /\ pulls = [n \in Pr |->
               IF n = Final /\ kind \in {"promotion", "release"}
                 THEN [state |-> "OPEN", head |-> 1] ELSE NoPull]
  /\ evidence = "unavailable"
  /\ prepared = [id \in LeaseId |-> Unprepared]
  /\ lock = Nobody /\ held = Nobody
  /\ proc = [p \in Proc |-> Idle]
  /\ commits = 1 /\ edits = 0 /\ crashes = 0

-----------------------------------------------------------------------------
(* Processes. *)

Row(p) == reg.leases[proc[p].id]

Target(p) == pulls[proc[p].lease.target]

At(p, pc) == proc[p].pc = pc

Step(p, pc) == proc' = [proc EXCEPT ![p].pc = pc]

\* The command returns: its lock and its ref transaction go with it.
End(p) ==
  /\ proc' = [proc EXCEPT ![p] = Idle]
  /\ lock' = IF lock = p THEN Nobody ELSE lock
  /\ held' = IF held = p THEN Nobody ELSE held

EndHere(p) == End(p) /\ UNCHANGED <<reg, tree, prepared, world>>

Read(p, pc) ==
  /\ proc' = [proc EXCEPT ![p].pc = pc, ![p].lease = Row(p)]
  /\ UNCHANGED <<reg, tree, prepared, lock, held, world>>

View(p, number, pc) ==
  /\ proc' = [proc EXCEPT ![p].pc = pc, ![p].pull = pulls[number]]
  /\ UNCHANGED <<reg, tree, prepared, lock, held, world>>

\* Asking GitHub about the pull request of the row read last.
ViewOr(p, pc, Failed) ==
  \/ View(p, proc[p].lease.target, pc)
  \/ ExternalFaults /\ Failed

Completed(pull) == pull.state = "MERGED"

\* Registered at its path, on its branch, with a directory.
OnBranch(id) == tree[id].dir /\ tree[id].admin /\ tree[id].on

\* Beyond the bound only a reservation that a dead process left is taken up.
MayStart(p, command, id) ==
  /\ At(p, "idle")
  /\ command \in Commands[kind][p]
  /\ Registered(reg, id) =>
       \/ reg.leases[id].version < MaxVersion[kind]
       \/ Reserved(reg, id) /\ lock = Nobody

Start(p, id, pc) ==
  /\ proc' = [proc EXCEPT ![p] = [Idle EXCEPT !.pc = pc, !.id = id,
                                              !.lease = reg.leases[id]]]
  /\ UNCHANGED <<reg, tree, prepared, lock, held, world>>

\* What a command goes on with once it has the repository lock.
Locked ==
  [acquire_lock |-> "acquire", import_lock |-> "import",
   adopt_lock |-> "adopt", link_lock |-> "link", finish_lock |-> "finish",
   compact_lock |-> "compact"]

TakeLock(p) ==
  /\ proc[p].pc \in DOMAIN Locked
  /\ lock = Nobody
  /\ lock' = p
  /\ Step(p, Locked[proc[p].pc])
  /\ UNCHANGED <<reg, tree, prepared, held, world>>

-----------------------------------------------------------------------------
(* acquire *)

StartAcquire(p) ==
  /\ kind = "feature"
  /\ MayStart(p, "acquire", FirstLease)
  /\ \A id \in LeaseId : Live(reg, id) => reg.leases[id].version < MaxVersion[kind]
  /\ Start(p, FirstLease, "acquire_lock")

Reusable(id) ==
  /\ reg.leases[id].state = "ACTIVE"
  /\ OnBranch(id)
  /\ ~tree[id].dirty
  /\ CanTransition(reg, id, reg.leases[id].version)

ReuseLease(p) ==
  \E id \in LeaseId :
    /\ At(p, "acquire")
    /\ Live(reg, id)
    /\ IF Reusable(id)
       THEN /\ reg' = Touch(reg, id, branch)
            /\ proc' = [proc EXCEPT
                 ![p] = [@ EXCEPT !.id = id, !.lease = reg'.leases[id],
                   !.pc = IF prepared[id].marker THEN "end" ELSE "prepare"]]
            /\ UNCHANGED <<tree, prepared, lock, held, world>>
       ELSE EndHere(p)

\* git worktree add -b refuses a branch that is already there.
AddWorktree(p) ==
  /\ At(p, "acquire")
  /\ \A id \in LeaseId : ~Live(reg, id)
  /\ IF branch = NoSha
     THEN \E id \in LeaseId :
            /\ ~Registered(reg, id) /\ tree[id] = Absent
            /\ tree' = [tree EXCEPT ![id] = Checkout]
            /\ branch' = 1
            /\ proc' = [proc EXCEPT ![p] = [@ EXCEPT !.pc = "create",
                                                     !.id = id]]
            /\ UNCHANGED <<kind, reg, remote, elsewhere, pulls, evidence,
                           prepared, lock, held, commits, edits, crashes>>
     ELSE EndHere(p)

\* The row takes the head that is in the worktree by now.
CreateRow(p) ==
  /\ At(p, "create")
  /\ \/ /\ CanCreate(reg, proc[p].id)
        /\ reg' = CreateLease(reg, proc[p].id, NewLease("feature", branch))
        /\ proc' = [proc EXCEPT ![p] = [@ EXCEPT !.pc = "prepare",
                                                 !.lease = reg'.leases[proc[p].id]]]
        /\ UNCHANGED <<tree, prepared, lock, held, world>>
     \/ /\ ExternalFaults        \* the registry raised
        /\ Step(p, "uncreate")
        /\ UNCHANGED <<reg, tree, prepared, lock, held, world>>

\* _handle_creation_failure keeps what the user has touched meanwhile.
UndoWorktree(p) ==
  LET id == proc[p].id IN
  /\ At(p, "uncreate")
  /\ IF OnBranch(id) /\ branch = 1 /\ ~tree[id].dirty
     THEN /\ tree' = [tree EXCEPT ![id] = Absent]
          /\ Step(p, "unbranch")
          /\ UNCHANGED <<reg, prepared, lock, held, world>>
     ELSE EndHere(p)

UndoBranch(p) ==
  /\ At(p, "unbranch")
  /\ branch' = IF branch = 1 THEN NoSha ELSE branch
  /\ End(p)
  /\ UNCHANGED <<kind, reg, tree, remote, elsewhere, pulls, evidence,
                 prepared, commits, edits, crashes>>

RunPrepare(p) ==
  LET id == proc[p].id IN
  /\ At(p, "prepare")
  /\ \/ /\ prepared' = [prepared EXCEPT ![id].deps = TRUE]
        /\ Step(p, "mark")
        /\ UNCHANGED <<reg, lock, held>>
     \/ /\ ExternalFaults
        /\ reg' = IF CanTransition(reg, id, proc[p].lease.version)
                    THEN Transition(reg, id,
                           [reg.leases[id] EXCEPT !.state = "BLOCKED"])
                    ELSE reg
        /\ End(p)
        /\ UNCHANGED prepared
  /\ UNCHANGED <<tree, world>>

WriteMarker(p) ==
  /\ At(p, "mark")
  /\ prepared' = [prepared EXCEPT ![proc[p].id].marker = TRUE]
  /\ End(p)
  /\ UNCHANGED <<reg, tree, world>>

Return(p) == At(p, "end") /\ EndHere(p)

-----------------------------------------------------------------------------
(* import and adopt *)

StartImport(p) ==
  /\ kind = "imported"
  /\ MayStart(p, "import", FirstLease)
  /\ OnBranch(FirstLease) /\ ~Registered(reg, FirstLease)
  /\ Start(p, FirstLease, "import_lock")

Import(p) ==
  LET id == proc[p].id
      lease == [NewLease("scratch", branch) EXCEPT
                  !.owner = "imported", !.managed = FALSE,
                  !.state = IF tree[id].dirty THEN "DIRTY" ELSE "ACTIVE"] IN
  /\ At(p, "import")
  /\ reg' = IF OnBranch(id) /\ CanCreate(reg, id)
              THEN CreateLease(reg, id, lease) ELSE reg
  /\ End(p)
  /\ UNCHANGED <<tree, prepared, world>>

StartAdopt(p, id) ==
  /\ MayStart(p, "adopt", id)
  /\ Registered(reg, id)
  /\ reg.leases[id].owner = "imported"
  /\ Start(p, id, "adopt_lock")

\* _adoption_blocker and _adoption_git_safety_blocker
Adoptable(id, lease) ==
  /\ lease.state \notin {"REMOVED", "CLOSED_UNMERGED"}
  /\ OnBranch(id) /\ ~elsewhere
  /\ branch = lease.head
  /\ ~tree[id].dirty

\* adopt without --pr; a lease adopted this way can never be linked.
Adopt(p) ==
  LET id == proc[p].id
      lease == reg.leases[id] IN
  /\ At(p, "adopt")
  /\ reg' = IF /\ ~lease.managed
               /\ Adoptable(id, lease)
               /\ CanTransition(reg, id, lease.version)
              THEN Transition(reg, id, [lease EXCEPT !.managed = TRUE])
              ELSE reg
  /\ End(p)
  /\ UNCHANGED <<tree, prepared, world>>

\* adopt --pr: the row and the worktree are checked, then GitHub is asked.
AdoptView(p) ==
  LET id == proc[p].id
      lease == reg.leases[id] IN
  /\ At(p, "adopt")
  /\ IF /\ lease.managed => lease.target = Final
        /\ Adoptable(id, lease)
        /\ Completed(pulls[Final]) /\ pulls[Final].head = lease.head
     THEN Read(p, "adopt_write")
     ELSE EndHere(p)

AdoptWithPr(p) ==
  LET id == proc[p].id
      lease == proc[p].lease IN
  /\ At(p, "adopt_write")
  /\ reg' = IF /\ Adoptable(id, lease)
               /\ ~lease.managed
               /\ CanTransition(reg, id, lease.version)
              THEN Transition(reg, id, [lease EXCEPT !.managed = TRUE,
                                                     !.target = Final])
              ELSE reg
  /\ End(p)
  /\ UNCHANGED <<tree, prepared, world>>

-----------------------------------------------------------------------------
(* link-pr *)

StartLink(p, id) ==
  /\ MayStart(p, "link", id)
  /\ Live(reg, id)
  /\ Start(p, id, "link_lock")

\* _managed_link_lease_blocker
Linkable(reg_, id, lease, number) ==
  /\ lease.state = IF lease.target = NoPr THEN "ACTIVE" ELSE "CLEANABLE"
  /\ lease.managed /\ lease.owner = "awf" /\ lease.purpose = "feature"
  /\ ~Reserved(reg_, id)
  /\ lease.target \in {NoPr, number}

LinkRead(p) ==
  LET id == proc[p].id IN
  /\ At(p, "link")
  /\ IF /\ \E n \in Pr : Linkable(reg, id, Row(p), n)
        /\ OnBranch(id) /\ ~elsewhere /\ ~tree[id].dirty
     THEN /\ proc' = [proc EXCEPT ![p].pc = "link_view", ![p].lease = Row(p),
                                  ![p].sha = branch]
          /\ UNCHANGED <<reg, tree, prepared, lock, held, world>>
     ELSE EndHere(p)

LinkView(p) ==
  \E number \in {Staging, Final} :
    /\ At(p, "link_view")
    /\ proc[p].lease.target \in {NoPr, number}
    /\ IF Completed(pulls[number])
       THEN View(p, number, IF number = Staging THEN "link_staging"
                                                ELSE "link_final")
       ELSE EndHere(p)

\* The head is read again; the final pull request must have the head that
\* the staging one validated, when there was one.
HeadsAgree(p) ==
  LET id == proc[p].id IN
  /\ OnBranch(id) /\ ~elsewhere /\ ~tree[id].dirty
  /\ proc[p].pull.head = branch
  /\ proc[p].sha = branch

WriteLink(p, lease) ==
  /\ reg' = IF CanTransition(reg, proc[p].id, proc[p].lease.version)
              THEN Transition(reg, proc[p].id, lease) ELSE reg
  /\ End(p)
  /\ UNCHANGED <<tree, prepared, world>>

LinkStaging(p) ==
  LET lease == proc[p].lease IN
  /\ At(p, "link_staging")
  /\ IF HeadsAgree(p) /\ lease.target = NoPr /\ lease.staged # branch
     THEN WriteLink(p, [lease EXCEPT !.state = "ACTIVE", !.staged = branch,
                                     !.head = branch,
                                     !.deployment = "NOT_REQUIRED"])
     ELSE EndHere(p)

LinkFinal(p) ==
  LET lease == proc[p].lease IN
  /\ At(p, "link_final")
  /\ IF /\ HeadsAgree(p)
        /\ lease.target = NoPr
        /\ lease.staged \in {NoSha, branch}
     THEN WriteLink(p, [lease EXCEPT !.state = "CLEANABLE", !.target = Final,
                                     !.head = branch,
                                     !.deployment = "NOT_REQUIRED"])
     ELSE EndHere(p)

-----------------------------------------------------------------------------
(* status --refresh, and the refresh inside finish *)

\* status refreshes without the lock.
StartStatus(p, id) ==
  /\ MayStart(p, "status", id)
  /\ Live(reg, id)
  /\ reg.leases[id].target # NoPr
  /\ Start(p, id, "refresh")

AfterRefresh(p) ==
  IF lock = p THEN Step(p, "finish_read") /\ UNCHANGED <<lock, held>>
  ELSE End(p)

RefreshView(p) ==
  /\ At(p, "refresh")
  /\ ViewOr(p, "refresh_write",
            AfterRefresh(p) /\ UNCHANGED <<reg, tree, prepared, world>>)

\* _current_refresh_lease
Refreshable(p) ==
  /\ ~Reserved(reg, proc[p].id)
  /\ Row(p).state # "REMOVED"
  /\ Row(p).target = proc[p].lease.target

Refreshed(p, state, deployment) ==
  LET row == Row(p) IN
  IF row.state = state /\ row.deployment = deployment THEN reg
  ELSE Transition(reg, proc[p].id, [row EXCEPT !.state = state,
                                               !.deployment = deployment])

RefreshWrite(p) ==
  LET row  == Row(p)
      pull == proc[p].pull IN
  /\ At(p, "refresh_write")
  /\ \/ /\ Refreshable(p)
        /\ pull.head # row.head
        /\ reg' = Refreshed(p, "BLOCKED", "UNKNOWN")
        /\ AfterRefresh(p)
     \/ /\ Refreshable(p)
        /\ pull.head = row.head
        /\ \/ /\ pull.state = "OPEN"
              /\ reg' = Refreshed(p, "PR_OPEN", row.deployment)
              /\ AfterRefresh(p)
           \/ /\ pull.state = "MERGED"
              /\ row.purpose # "promote"
              /\ reg' = Refreshed(p, "CLEANABLE", "NOT_REQUIRED")
              /\ AfterRefresh(p)
           \/ /\ pull.state = "MERGED"
              /\ row.purpose = "promote"
              /\ reg' = reg
              /\ Step(p, "refresh_probe") /\ UNCHANGED <<lock, held>>
           \/ /\ pull.state = "CLOSED"
              /\ reg' = Refreshed(p, "CLOSED_UNMERGED", row.deployment)
              /\ Step(p, "refresh_sync") /\ UNCHANGED <<lock, held>>
     \/ /\ ~Refreshable(p)
        /\ reg' = reg
        /\ AfterRefresh(p)
  /\ UNCHANGED <<tree, prepared, world>>

\* _refresh_promotion; an answer of the adapter is recorded every time.
RefreshProbe(p) ==
  LET id == proc[p].id
      Record(state, deployment) ==
        Transition(reg, id, [Row(p) EXCEPT !.state = state,
                                           !.deployment = deployment]) IN
  /\ At(p, "refresh_probe")
  /\ reg' = IF ~Refreshable(p) THEN reg
            ELSE CASE evidence = "healthy" -> Record("CLEANABLE", "HEALTHY")
                   [] evidence = "failed"  -> Record("BLOCKED", "FAILED")
                   [] evidence = "pending" -> Record("DEPLOYING", "PENDING")
                   [] OTHER -> Refreshed(p, "DEPLOYING", "UNKNOWN")
  /\ IF Reserved(reg, id)                  \* raises past the sync
     THEN AfterRefresh(p)
     ELSE Step(p, "refresh_sync") /\ UNCHANGED <<lock, held>>
  /\ UNCHANGED <<tree, prepared, world>>

RefreshSync(p) ==
  LET state == IF Completed(proc[p].pull) THEN "MERGED" ELSE "CLOSED_UNMERGED"
  IN
  /\ At(p, "refresh_sync")
  /\ reg' = IF CanSync(reg, proc[p].id, state)
              THEN SyncRelease(reg, proc[p].id, state) ELSE reg
  /\ AfterRefresh(p)
  /\ UNCHANGED <<tree, prepared, world>>

-----------------------------------------------------------------------------
(* finish and gc *)

StartFinish(p, id) ==
  /\ MayStart(p, "finish", id)
  /\ Live(reg, id)
  /\ reg.leases[id].target # NoPr
  /\ Start(p, id, "finish_lock")

\* gc --merged picks the leases whose pull request GitHub reports merged and
\* finishes them one by one.
StartGc(p, id) ==
  /\ MayStart(p, "gc", id)
  /\ Live(reg, id)
  /\ reg.leases[id].managed /\ reg.leases[id].owner = "awf"
  /\ reg.leases[id].target # NoPr
  /\ pulls[reg.leases[id].target].state = "MERGED"
  /\ Start(p, id, "finish_lock")

\* Under the lock: an open reservation is another process's, or a dead one's.
FinishOpen(p) ==
  LET id == proc[p].id IN
  /\ At(p, "finish")
  /\ IF Row(p).state = "REMOVED" \/ Row(p).target # proc[p].lease.target
     THEN EndHere(p)
     ELSE Read(p, IF Reserved(reg, id) THEN "recover" ELSE "refresh")

FinishRead(p) ==
  /\ At(p, "finish_read")
  /\ IF Row(p).state = "REMOVED" THEN EndHere(p) ELSE Read(p, "finish_view")

FinishView(p) ==
  /\ At(p, "finish_view")
  /\ ViewOr(p, "finish_check", EndHere(p))

CleanupManaged(lease) ==
  lease.managed /\ (lease.owner = "awf" \/ lease.target # NoPr)

\* _cleanup_blockers without the deployment
ProvenSafe(id, lease, pull) ==
  /\ CleanupManaged(lease)
  /\ Completed(pull)
  /\ pull.head = lease.head
  /\ OnBranch(id) /\ ~elsewhere /\ ~tree[id].dirty
  /\ branch = lease.head

Deployed(lease) == lease.purpose = "promote" => lease.deployment = "HEALTHY"

FinishCheck(p) ==
  LET lease == proc[p].lease IN
  /\ At(p, "finish_check")
  /\ IF ProvenSafe(proc[p].id, lease, proc[p].pull)
     THEN /\ Step(p, IF lease.purpose = "promote" THEN "force_probe"
                                                   ELSE "finish_review")
          /\ UNCHANGED <<reg, tree, prepared, lock, held, world>>
     ELSE EndHere(p)

\* _force_cleanup_deployment_probe: the state a probe leaves behind.
Probed(lease) ==
  CASE evidence = "healthy" ->
         [lease EXCEPT !.state = "CLEANABLE", !.deployment = "HEALTHY"]
    [] evidence = "failed"  ->
         [lease EXCEPT !.state = "BLOCKED", !.deployment = "FAILED"]
    [] evidence = "pending" ->
         [lease EXCEPT !.state = "DEPLOYING", !.deployment = "PENDING"]
    [] OTHER ->
         [lease EXCEPT !.state = "BLOCKED", !.deployment = "UNKNOWN"]

ForceProbe(p) ==
  LET id     == proc[p].id
      lease  == proc[p].lease
      stored == CanTransition(reg, id, lease.version) IN
  /\ At(p, "force_probe")
  /\ reg' = IF stored THEN Transition(reg, id, Probed(lease)) ELSE reg
  /\ IF stored /\ evidence = "healthy"
     THEN /\ proc' = [proc EXCEPT ![p].pc = "finish_review",
                                  ![p].lease = Bumped(Probed(lease))]
          /\ UNCHANGED <<lock, held>>
     ELSE End(p)
  /\ UNCHANGED <<tree, prepared, world>>

FinishReview(p) ==
  /\ At(p, "finish_review")
  /\ ViewOr(p, "finish_recheck", EndHere(p))

FinishRecheck(p) ==
  /\ At(p, "finish_recheck")
  /\ IF /\ ProvenSafe(proc[p].id, proc[p].lease, proc[p].pull)
        /\ Deployed(proc[p].lease)
     THEN /\ Step(p, "reserve")
          /\ UNCHANGED <<reg, tree, prepared, lock, held, world>>
     ELSE EndHere(p)

Reserve(p) ==
  LET id    == proc[p].id
      lease == proc[p].lease IN
  /\ At(p, "reserve")
  /\ IF /\ branch = lease.head
        /\ OnBranch(id)
        /\ CanReserve(reg, id, lease.version)
     THEN /\ reg' = ReserveCleanup(reg, id, branch)
          /\ proc' = [proc EXCEPT ![p].pc = "hold", ![p].lease = Bumped(lease),
                                  ![p].sha = branch]
          /\ UNCHANGED <<tree, prepared, lock, held, world>>
     ELSE EndHere(p)

\* Mutant: the branch is compared and not held.
HoldNothing(p) ==
  LET id == proc[p].id IN
  /\ At(p, "hold")
  /\ Step(p, IF branch = proc[p].sha /\ tree[id].dir /\ tree[id].on
                THEN "held" ELSE "release")
  /\ UNCHANGED <<lock, held, reg, tree, prepared, world>>

\* hold_worktree_branch_if_at: from here the branch cannot move and the
\* worktree cannot leave it.
HoldBranch(p) ==
  LET id == proc[p].id IN
  /\ At(p, "hold")
  /\ IF branch = proc[p].sha /\ tree[id].dir /\ tree[id].on
     THEN held' = p /\ Step(p, "held") /\ UNCHANGED lock
     ELSE Step(p, "release") /\ UNCHANGED <<lock, held>>
  /\ UNCHANGED <<reg, tree, prepared, world>>

Unhold(p, pc) ==
  Step(p, pc) /\ held' = Nobody /\ UNCHANGED <<reg, tree, prepared, lock, world>>

HeldRead(p) ==
  /\ At(p, "held")
  /\ IF HoldsReservation(reg, proc[p].id, proc[p].lease.version)
     THEN Read(p, "held_view")
     ELSE Unhold(p, "release")

HeldView(p) ==
  /\ At(p, "held_view")
  /\ ViewOr(p, "held_check", Unhold(p, "release"))

HeldCheck(p) ==
  /\ At(p, "held_check")
  /\ IF /\ ProvenSafe(proc[p].id, proc[p].lease, proc[p].pull)
        /\ Deployed(proc[p].lease)
     THEN /\ Step(p, "remove")
          /\ UNCHANGED <<reg, tree, prepared, lock, held, world>>
     ELSE Unhold(p, "release")

\* git worktree remove without --force refuses a dirty worktree; it may also
\* stop after the directory and before its own record.
RemoveWorktree(p) ==
  LET id == proc[p].id IN
  /\ At(p, "remove")
  /\ \/ /\ ~tree[id].dirty
        /\ tree' = [tree EXCEPT ![id] = Absent]
        /\ Step(p, "complete")
     \/ /\ ~tree[id].dirty /\ ExternalFaults
        /\ tree' = [tree EXCEPT ![id] = [Absent EXCEPT !.admin = TRUE]]
        /\ Step(p, "recover")
     \/ /\ tree[id].dirty \/ ExternalFaults
        /\ tree' = tree
        /\ Step(p, "recover")
  /\ held' = Nobody
  /\ UNCHANGED <<reg, prepared, lock, world>>

\* A bridge that was closed makes complete_cleanup raise ValueError, which
\* finish does not catch.
Complete(p) ==
  LET id == proc[p].id IN
  /\ At(p, "complete")
  /\ IF CanComplete(reg, id, proc[p].lease.version)
     THEN /\ reg' = CompleteCleanup(reg, id)
          /\ Step(p, "delete_local")
          /\ UNCHANGED <<tree, prepared, lock, held, world>>
     ELSE EndHere(p)

GiveUp(p) ==
  LET id == proc[p].id IN
  /\ At(p, "release")
  /\ reg' = IF HoldsReservation(reg, id, proc[p].lease.version)
              THEN ReleaseReservation(reg, id) ELSE reg
  /\ End(p)
  /\ UNCHANGED <<tree, prepared, world>>

\* Mutant: git branch -D.
DeleteLocalForced(p) ==
  /\ At(p, "delete_local")
  /\ branch' = IF proc[p].lease.owner = "awf" THEN NoSha ELSE branch
  /\ Step(p, "delete_remote")
  /\ UNCHANGED <<kind, reg, tree, remote, elsewhere, pulls, evidence,
                 prepared, lock, held, commits, edits, crashes>>

\* _cleanup_branches: compare-and-delete of what AWF created.
DeleteLocal(p) ==
  LET mine == proc[p].lease.owner = "awf" /\ proc[p].lease.managed IN
  /\ At(p, "delete_local")
  /\ branch' = IF mine /\ branch = proc[p].sha THEN NoSha ELSE branch
  /\ Step(p, "delete_remote")
  /\ UNCHANGED <<kind, reg, tree, remote, elsewhere, pulls, evidence,
                 prepared, lock, held, commits, edits, crashes>>

DeleteRemote(p) ==
  LET mine == proc[p].lease.owner = "awf" /\ proc[p].lease.managed IN
  /\ At(p, "delete_remote")
  /\ \/ remote' = IF mine /\ remote = proc[p].sha THEN NoSha ELSE remote
     \/ ExternalFaults /\ remote' = remote
  /\ End(p)
  /\ UNCHANGED <<kind, reg, tree, branch, elsewhere, pulls, evidence,
                 prepared, commits, edits, crashes>>

-----------------------------------------------------------------------------
(* _recover_cleanup_reservation *)

RecoverView(p) ==
  /\ At(p, "recover")
  /\ ViewOr(p, "recover_check", EndHere(p))

\* Mutant: the reservation is compared with the version it was made from.
RecoverableBefore(lease, reservation, pull) ==
  /\ reservation # NoReservation
  /\ reservation.version + 1 = lease.version
  /\ reservation.branchSha = lease.head
  /\ lease.managed /\ lease.owner = "awf"
  /\ Completed(pull)
  /\ pull.head = lease.head

\* Only a reservation of an AWF branch is ever taken up again.
Recoverable(lease, reservation, pull) ==
  /\ reservation # NoReservation
  /\ reservation.version = lease.version
  /\ reservation.branchSha = lease.head
  /\ lease.managed /\ lease.owner = "awf"
  /\ Completed(pull)
  /\ pull.head = lease.head

RecoverCheck(p) ==
  LET id == proc[p].id IN
  /\ At(p, "recover_check")
  /\ IF /\ Recoverable(proc[p].lease, reg.reservations[id], proc[p].pull)
        /\ proc[p].lease.purpose = "promote" => evidence = "healthy"
     THEN /\ proc' = [proc EXCEPT ![p].pc = "recover_act",
                                  ![p].sha = reg.reservations[id].branchSha]
          /\ UNCHANGED <<reg, tree, prepared, lock, held, world>>
     ELSE EndHere(p)

\* Mutant: a directory that is gone is a worktree that is gone.
RecoverByDirectory(p) ==
  LET id == proc[p].id IN
  /\ At(p, "recover_act")
  /\ IF branch = proc[p].sha /\ ~elsewhere
     THEN /\ Step(p, IF tree[id].dir THEN "release" ELSE "complete")
          /\ UNCHANGED <<reg, tree, prepared, lock, held, world>>
     ELSE EndHere(p)

RecoverAct(p) ==
  LET id == proc[p].id IN
  /\ At(p, "recover_act")
  /\ IF branch = proc[p].sha /\ ~elsewhere
     THEN /\ Step(p, IF tree[id].dir \/ tree[id].admin THEN "release"
                                                        ELSE "complete")
          /\ UNCHANGED <<reg, tree, prepared, lock, held, world>>
     ELSE EndHere(p)

-----------------------------------------------------------------------------
(* compact *)

Compactable(id, lease) ==
  /\ lease.state \in {"PR_OPEN", "DEPLOYING", "CLEANABLE"}
  /\ lease.managed /\ lease.owner = "awf"
  /\ ~Reserved(reg, id)
  /\ OnBranch(id) /\ ~tree[id].dirty
  /\ branch = lease.head

\* The preview outside the lock; the lock is then tried once, not waited for.
StartCompact(p, id) ==
  /\ MayStart(p, "compact", id)
  /\ Live(reg, id)
  /\ Compactable(id, reg.leases[id])
  /\ lock = Nobody
  /\ Start(p, id, "compact_lock")

\* The marker goes before what it stands for.
CompactMarker(p) ==
  LET id == proc[p].id IN
  /\ At(p, "compact")
  /\ IF Row(p).version = proc[p].lease.version /\ Compactable(id, Row(p))
     THEN /\ prepared' = [prepared EXCEPT ![id].marker = FALSE]
          /\ Step(p, "compact_remove")
          /\ UNCHANGED <<reg, tree, lock, held, world>>
     ELSE EndHere(p)

CompactRemove(p) ==
  /\ At(p, "compact_remove")
  /\ prepared' = [prepared EXCEPT ![proc[p].id].deps = FALSE]
  /\ End(p)
  /\ UNCHANGED <<reg, tree, world>>

-----------------------------------------------------------------------------
(* Deaths, the user and GitHub. *)

Crash(p) ==
  /\ ~At(p, "idle")
  /\ crashes < MaxCrashes
  /\ crashes' = crashes + 1
  /\ End(p)
  /\ UNCHANGED <<kind, reg, tree, branch, remote, elsewhere, pulls, evidence,
                 prepared, commits, edits>>

system == <<kind, reg, prepared, lock, held, proc, crashes>>

Edited == edits < MaxEdits[kind] /\ edits' = edits + 1

\* A prepared ref transaction refuses every other update of the branch.
NewCommit ==
  /\ held = Nobody
  /\ commits + 1 \in Sha
  /\ commits' = commits + 1
  /\ branch' = commits + 1

UserCommit(id) ==
  /\ OnBranch(id) /\ branch # NoSha
  /\ NewCommit
  /\ tree' = [tree EXCEPT ![id].dirty = FALSE]
  /\ UNCHANGED <<remote, elsewhere, pulls, evidence, edits, system>>

UserEdit(id) ==
  /\ tree[id].dir /\ ~tree[id].dirty
  /\ Edited
  /\ tree' = [tree EXCEPT ![id].dirty = TRUE]
  /\ UNCHANGED <<branch, remote, elsewhere, pulls, evidence, commits, system>>

UserSwitch(id) ==
  /\ tree[id].dir /\ tree[id].admin /\ ~tree[id].dirty
  /\ held = Nobody
  /\ ~tree[id].on => branch # NoSha /\ ~elsewhere
  /\ Edited
  /\ tree' = [tree EXCEPT ![id].on = ~@]
  /\ UNCHANGED <<branch, remote, elsewhere, pulls, evidence, commits, system>>

\* git refuses to check a branch out twice.
UserCheckoutElsewhere ==
  /\ ~elsewhere => branch # NoSha /\ \A id \in LeaseId : ~tree[id].on
  /\ Edited
  /\ elsewhere' = ~elsewhere
  /\ UNCHANGED <<tree, branch, remote, pulls, evidence, commits, system>>

UserCommitElsewhere ==
  /\ elsewhere
  /\ NewCommit
  /\ UNCHANGED <<tree, remote, elsewhere, pulls, evidence, edits, system>>

\* git worktree prune
UserPrune(id) ==
  /\ tree[id].admin /\ ~tree[id].dir
  /\ tree' = [tree EXCEPT ![id] = Absent]
  /\ UNCHANGED <<branch, remote, elsewhere, pulls, evidence, commits, edits,
                 system>>

UserPush ==
  /\ branch \notin {NoSha, remote}
  /\ remote' = branch
  /\ pulls' = [n \in Pr |-> IF pulls[n].state = "OPEN"
                             THEN [pulls[n] EXCEPT !.head = branch]
                             ELSE pulls[n]]
  /\ UNCHANGED <<tree, branch, elsewhere, evidence, commits, edits, system>>

\* Only a feature goes through staging.
UserOpenPull(number) ==
  /\ number = Staging => kind = "feature"
  /\ pulls[number].state = "NONE"
  /\ remote # NoSha
  /\ pulls' = [pulls EXCEPT ![number] = [state |-> "OPEN", head |-> remote]]
  /\ UNCHANGED <<tree, branch, remote, elsewhere, evidence, commits, edits,
                 system>>

\* GitHub may delete the branch it merged.
MergePull(number) ==
  /\ pulls[number].state = "OPEN"
  /\ pulls' = [pulls EXCEPT ![number].state = "MERGED"]
  /\ remote' \in {remote, NoSha}
  /\ UNCHANGED <<tree, branch, elsewhere, evidence, commits, edits, system>>

\* Reopened, a pull request has what was pushed meanwhile.
ClosePull(number) ==
  /\ Edited
  /\ \/ /\ pulls[number].state = "OPEN"
        /\ pulls' = [pulls EXCEPT ![number].state = "CLOSED"]
     \/ /\ pulls[number].state = "CLOSED" /\ remote # NoSha
        /\ pulls' = [pulls EXCEPT ![number] = [state |-> "OPEN",
                                               head |-> remote]]
  /\ UNCHANGED <<tree, branch, remote, elsewhere, evidence, commits, system>>

EvidenceChanges ==
  /\ kind \in {"promotion", "release"}
  /\ Edited
  /\ evidence' \in {"healthy", "failed", "pending", "unavailable"} \ {evidence}
  /\ UNCHANGED <<tree, branch, remote, elsewhere, pulls, commits, system>>

-----------------------------------------------------------------------------
Begin(p) ==
  \/ StartAcquire(p)
  \/ StartImport(p)
  \/ \E id \in LeaseId :
       \/ StartAdopt(p, id)
       \/ StartLink(p, id)
       \/ StartStatus(p, id)
       \/ StartFinish(p, id)
       \/ StartGc(p, id)
       \/ StartCompact(p, id)

Advance(p) ==
  \/ ReuseLease(p) \/ AddWorktree(p) \/ CreateRow(p) \/ UndoWorktree(p)
  \/ UndoBranch(p) \/ RunPrepare(p) \/ WriteMarker(p) \/ Return(p)
  \/ Import(p) \/ Adopt(p) \/ AdoptView(p) \/ AdoptWithPr(p)
  \/ LinkRead(p) \/ LinkView(p) \/ LinkStaging(p) \/ LinkFinal(p)
  \/ RefreshView(p) \/ RefreshWrite(p) \/ RefreshProbe(p) \/ RefreshSync(p)
  \/ FinishOpen(p) \/ FinishRead(p) \/ FinishView(p) \/ FinishCheck(p)
  \/ ForceProbe(p) \/ FinishReview(p) \/ FinishRecheck(p) \/ Reserve(p)
  \/ HoldBranch(p) \/ HeldRead(p) \/ HeldView(p) \/ HeldCheck(p)
  \/ RemoveWorktree(p) \/ Complete(p) \/ GiveUp(p)
  \/ DeleteLocal(p) \/ DeleteRemote(p)
  \/ RecoverView(p) \/ RecoverCheck(p) \/ RecoverAct(p)
  \/ CompactMarker(p) \/ CompactRemove(p)

World ==
  \/ \E id \in LeaseId : \/ UserCommit(id) \/ UserEdit(id) \/ UserSwitch(id)
                          \/ UserPrune(id)
  \/ UserCheckoutElsewhere \/ UserCommitElsewhere \/ UserPush
  \/ \E number \in {Staging, Final} :
       \/ UserOpenPull(number) \/ MergePull(number) \/ ClosePull(number)
  \/ EvidenceChanges

Next ==
  \/ \E p \in Proc : Begin(p) \/ TakeLock(p) \/ Advance(p) \/ Crash(p)
  \/ World

Spec == Init /\ [][Next]_vars

\* A process that runs goes on, a flock that is free over and over is had,
\* and whoever finds a reservation runs finish again.
FairSpec ==
  /\ Spec
  /\ \A p \in Proc : /\ WF_vars(Advance(p)) /\ SF_vars(TakeLock(p))
                     /\ \A id \in LeaseId : SF_vars(StartFinish(p, id))

-----------------------------------------------------------------------------
\* Where a process may be between two of its steps.
Pc ==
  {"idle", "end",
   "acquire_lock", "acquire", "create", "uncreate", "unbranch", "prepare", "mark",
   "import_lock", "import", "adopt_lock", "adopt", "adopt_write",
   "link_lock", "link", "link_view", "link_staging", "link_final",
   "refresh", "refresh_write", "refresh_probe", "refresh_sync",
   "finish_lock", "finish", "finish_read", "finish_view", "finish_check", "force_probe",
   "finish_review", "finish_recheck", "reserve", "hold", "held", "held_view", "held_check",
   "remove", "complete", "release", "delete_local", "delete_remote",
   "recover", "recover_check", "recover_act",
   "compact_lock", "compact", "compact_remove"}

(* Type correctness of the registry, the files, the pull requests and the  *)
(* processes (service.py and registry.py).                                 *)
TypeOK ==
  /\ kind \in Kinds
  /\ reg \in Registry
  /\ tree \in [LeaseId -> [dir : BOOLEAN, admin : BOOLEAN, dirty : BOOLEAN,
                           on : BOOLEAN]]
  /\ {branch, remote} \subseteq Sha \cup {NoSha}
  /\ elsewhere \in BOOLEAN
  /\ pulls \in [Pr -> [state : {"NONE", "OPEN", "MERGED", "CLOSED"},
                       head : Sha \cup {NoSha}]]
  /\ evidence \in {"healthy", "failed", "pending", "unavailable"}
  /\ prepared \in [LeaseId -> [marker : BOOLEAN, deps : BOOLEAN]]
  /\ {lock, held} \subseteq Proc \cup {Nobody}
  /\ proc \in [Proc -> [pc : Pc, id : LeaseId,
                        lease : Lease \cup {NoLease},
                        pull : [state : {"NONE", "OPEN", "MERGED", "CLOSED"},
                                head : Sha \cup {NoSha}],
                        sha : Sha \cup {NoSha}]]
  /\ commits \in Sha
  /\ edits \in 0..MaxEdits[kind] /\ crashes \in 0..MaxCrashes

(* A reservation is about the row as it is: same version, same head, and   *)
(* not removed.  It is what recovery compares before it acts               *)
(* (service.py:5606), long after the process that reserved has died.       *)
ReservationCurrent ==
  \A id \in LeaseId : Reserved(reg, id) =>
    /\ Live(reg, id)
    /\ reg.reservations[id].version = reg.leases[id].version
    /\ reg.reservations[id].branchSha = reg.leases[id].head

(* finish never loses work: a worktree goes only when it is clean, on its  *)
(* branch, at the head of the merged pull request its lease is linked to   *)
(* and, for a promotion, with healthy evidence recorded; or when it is the *)
(* untouched worktree of an acquire that could not be registered.          *)
NoWorkLost ==
  [][\A id \in LeaseId : tree[id].dir /\ ~tree'[id].dir =>
       /\ ~tree[id].dirty /\ tree[id].on
       /\ \/ ~Registered(reg, id) /\ branch = 1
          \/ /\ Reserved(reg, id)
             /\ Deployed(reg.leases[id])
             /\ pulls[reg.leases[id].target].state = "MERGED"
             /\ {pulls[reg.leases[id].target].head, reg.leases[id].head}
                  = {branch}]_vars

(* A branch, local or on origin, is deleted only at a commit that a merged *)
(* pull request has, or at the commit acquire created it at.               *)
BranchesKept ==
  [][\A tip \in Sha :
       \/ branch = tip /\ branch' = NoSha
       \/ remote = tip /\ remote' = NoSha
       => \/ tip = 1
          \/ \E n \in Pr : pulls[n].head = tip /\ pulls'[n].state = "MERGED"]_vars

(* A removed lease has no worktree, no reservation and a cleaned bridge,   *)
(* and a bridge is cleaned with its lease only.                            *)
RemovedTogether ==
  \A id \in LeaseId : Registered(reg, id) =>
    /\ reg.leases[id].state = "REMOVED" =>
         /\ tree[id] = Absent
         /\ ~Reserved(reg, id)
    /\ reg.releases[id] # NoRelease =>
         (reg.leases[id].state = "REMOVED" <=> reg.releases[id].state = "CLEANED")

(* A reservation is resolved, by a later finish when its process died,     *)
(* unless the branch has moved or is checked out elsewhere.                *)
ReservationResolved ==
  \A id \in LeaseId :
    Reserved(reg, id) /\ kind = "feature"
      ~> ~Reserved(reg, id) \/ elsewhere
         \/ branch # reg.reservations[id].branchSha
=============================================================================
