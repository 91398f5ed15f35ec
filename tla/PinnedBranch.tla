---------------------------- MODULE PinnedBranch ----------------------------
(***************************************************************************)
(* What `awf wt sync` and `awf wt promote` (worktrees/service.py) share: a *)
(* lease that pins a source and a target commit, the managed worktree the  *)
(* delta between them is committed in, the branch it is pushed to and the  *)
(* pull request that is opened from it.  SyncBranch and Promotion add the  *)
(* commands.                                                               *)
(*                                                                         *)
(* A command holds the repository lock from its first read to its last     *)
(* write, so one runs at a time and the row version it read is the row's   *)
(* (LeaseRegistry has the compare-and-set); it may die at every step.      *)
(* Both pinned branches, the worktree's files and the pull request move    *)
(* under it.                                                               *)
(***************************************************************************)
EXTENDS Naturals, Sequences

CONSTANTS Kinds,          \* the commands of an instance: sync, exact, outOfOrder
          Source,         \* heads of the source, in the order they appear
          Sha,            \* commits
          NoSha,
          NoSource,
          Patches,        \* patches an out-of-order promotion applies in turn
          Delta(_, _),    \* what applying a source to a target comes to:
                          \* "empty", "same", "change" or "mismatch"
          Conflict(_, _, _),  \* whether a patch of a source meets a conflict
          NoLease,
          Faulty,         \* whether git, GitHub and the gates may fail
          MaxMoves,       \* bound on moves of the two pinned branches
          MaxEdits,       \* bound on what users do to worktree and pull request
          MaxCrashes      \* bound on commands that die

Kind == {"sync", "exact", "outOfOrder"}

Lease ==
  [state : {"ACTIVE", "BLOCKED", "PR_OPEN", "REMOVED"}, head : Sha,
   source : Source, target : Sha,
   why : {"created", "publish_pending", "pr_open", "noop_pending", "not_noop",
          "apply_failed", "prepare_failed", "prepare_dirty", "verify_failed",
          "target_conflict", "conflict", "resolved", "changed", "staging_missing",
          "delta_mismatch", "commit_mismatch", "head_mismatch", "branch_changed",
          "pr_mismatch", "restore_failed"},
   resolution : {"NONE", "PENDING", "AUTOMATIC", "MANUAL_REVIEWED"},
   ordinal : 0..Patches, applied : 0..Patches]

ASSUME PinnedAssumption ==
  /\ Kinds \subseteq Kind
  /\ Sha \subseteq Nat \ {0} /\ 1 \in Sha /\ NoSha = 0
  /\ Source \subseteq Nat /\ NoSource \notin Source
  /\ NoLease \notin Lease
  /\ Patches \in Nat \ {0}
  /\ Faulty \in BOOLEAN

VARIABLES
  kind,       \* which command this instance runs
  lease,      \* the newest lease: its row, and the reason its last event gives
  reserved,   \* branchSha of its cleanup reservation, or NoSha
  made,       \* the commits there are
  tree,       \* worktree and local branch of the lease's source
  remote,     \* the branch on origin
  pull,       \* its pull request
  source,     \* the source's live head
  target,     \* the target's live head
  verified,   \* commits that passed prepare and production verification
  job,        \* the command that has the lock
  moves, edits, crashes

vars == <<kind, lease, reserved, made, tree, remote, pull, source, target,
          verified, job, moves, edits, crashes>>

\* What no command writes.
world == <<kind, source, target, moves, edits, crashes>>

origin == <<remote, pull>>

\* All that a step leaves alone which only moves the command.
vars_ == <<lease, reserved, made, tree, origin, verified, world>>

Tip == tree.tip

NoJob == [pc |-> "none"]

NoPull == [state |-> "NONE", head |-> NoSha, base |-> NoSha]

NoTree(of) == [of |-> of, there |-> FALSE, files |-> "clean", tip |-> NoSha,
               applied |-> 0]

Init ==
  /\ kind \in Kinds
  /\ lease = NoLease /\ reserved = NoSha
  /\ made = <<[base |-> NoSha, of |-> NoSource, patches |-> 0,
               how |-> "target"]>>
  /\ source \in Source /\ target = 1
  /\ tree = NoTree(source)
  /\ remote = NoSha /\ pull = NoPull
  /\ verified = {}
  /\ job = NoJob
  /\ moves = 0 /\ edits = 0 /\ crashes = 0

-----------------------------------------------------------------------------
(* The running command. *)

At(pc) == job.pc = pc

Go(pc) == job' = [job EXCEPT !.pc = pc]

End == job' = NoJob

Stop == End /\ UNCHANGED vars_

\* It reads the two heads it will pin, or compare its lease's pins with.
Begin(command, kinds) ==
  /\ job = NoJob
  /\ kind \in kinds
  /\ job' = [pc |-> command, command |-> command, source |-> source,
             target |-> target, head |-> NoSha]
  /\ UNCHANGED vars_

Live == lease # NoLease /\ lease.state # "REMOVED"

Pinned == lease.source = job.source /\ lease.target = job.target

Drifted == source # lease.source \/ target # lease.target

\* The first reason a lease is blocked for stays until it is active again.
Blocked(why) ==
  IF lease.state = "BLOCKED" THEN lease
  ELSE [lease EXCEPT !.state = "BLOCKED", !.why = why]

\* The registered worktree of the lease, with nothing uncommitted in it.
CleanTree == tree.there /\ tree.files = "clean"

\* A commit of the index on the branch's tip, and the files it leaves.
CommitIndex(how, files) ==
  /\ Len(made) + 1 \in Sha
  /\ made' = Append(made, [base |-> Tip, of |-> job.source,
                           patches |-> Patches, how |-> how])
  /\ tree' = [tree EXCEPT !.tip = Len(made'), !.files = files]

\* An automatic commit carries exactly what the pins come to: nobody
\* committed before it, and its content is the source's.
Exactly == Tip = job.target /\ Delta(job.source, job.target) = "change"

NewLease ==
  [state |-> "ACTIVE", head |-> job.target, source |-> job.source,
   target |-> job.target, why |-> "created", resolution |-> "NONE",
   ordinal |-> 0, applied |-> 0]

-----------------------------------------------------------------------------
(* A new lease: the worktree first, the row after it. *)

\* add_worktree takes a branch that is already there if it is at the target.
AddWorktree ==
  /\ At("worktree")
  /\ IF tree.of = job.source /\ (tree.there \/ Tip \notin {NoSha, job.target})
     THEN Stop
     ELSE \/ /\ tree' = [NoTree(job.source) EXCEPT !.there = TRUE,
                                                   !.tip = job.target]
             /\ Go("lease")
             /\ UNCHANGED <<lease, reserved, made, origin, verified, world>>
          \/ Faulty /\ Stop

\* _handle_creation_failure takes a row that cannot be written back.
CreateLease ==
  /\ At("lease")
  /\ \/ /\ lease' = NewLease
        /\ Go("apply")
        /\ UNCHANGED tree
     \/ /\ Faulty
        /\ tree' = IF Tip = job.target /\ tree.files = "clean"
                     THEN NoTree(tree.of) ELSE tree
        /\ End
        /\ UNCHANGED lease
  /\ UNCHANGED <<reserved, made, origin, verified, world>>

-----------------------------------------------------------------------------
(* The pull request. *)

\* Non-forced pushes move the remote branch to the worktree's head.
Pushed(head) ==
  /\ remote' = head
  /\ pull' = IF pull.state = "OPEN"
               THEN [pull EXCEPT !.head = head, !.base = target] ELSE pull

FindOrCreatePull ==
  /\ At("pull")
  /\ pull' = IF pull.state = "OPEN" THEN pull
             ELSE [state |-> "OPEN", head |-> remote, base |-> target]
  /\ Go("exact")
  /\ UNCHANGED <<lease, reserved, made, tree, remote, verified, world>>

\* ExternalServiceError: the lease stays as it is, for a retry.
GitHubFails ==
  job.pc \in {"check", "push", "drift", "pull", "exact"} /\ Faulty /\ Stop

-----------------------------------------------------------------------------
(* The end of a lease: reserved, held, removed, completed, its branch deleted. *)

Reserve ==
  /\ reserved' = lease.head
  /\ Go("hold")
  /\ UNCHANGED <<lease, made, tree, origin, verified, world>>

Release ==
  /\ reserved' = NoSha
  /\ End
  /\ UNCHANGED lease

\* hold_worktree_branch_if_at: from here on nobody moves the branch.
Hold ==
  /\ At("hold")
  /\ IF Tip = reserved
     THEN Go("held") /\ UNCHANGED <<lease, reserved>>
     ELSE Release
  /\ UNCHANGED <<made, tree, origin, verified, world>>

\* git worktree remove refuses uncommitted changes.
Remove(CanRemove) ==
  /\ \/ /\ CanRemove /\ CleanTree
        /\ tree' = [tree EXCEPT !.there = FALSE]
        /\ Go("complete")
        /\ UNCHANGED <<lease, reserved>>
     \/ /\ ~CanRemove \/ ~CleanTree \/ Faulty
        /\ Release
        /\ UNCHANGED tree
  /\ UNCHANGED <<made, origin, verified, world>>

\* A reservation that a dead command left.
RecoverRemoval ==
  /\ At("removed")
  /\ IF tree.there THEN Release
     ELSE Go("complete") /\ UNCHANGED <<lease, reserved>>
  /\ UNCHANGED <<made, tree, origin, verified, world>>

Complete ==
  /\ At("complete")
  /\ lease' = [lease EXCEPT !.state = "REMOVED"]
  /\ job' = [job EXCEPT !.pc = "delete", !.head = reserved]
  /\ reserved' = NoSha
  /\ UNCHANGED <<made, tree, origin, verified, world>>

\* Mutant: the branch is deleted wherever it is.
DeleteBranchAlways ==
  /\ At("delete")
  /\ tree' = NoTree(tree.of)
  /\ End
  /\ UNCHANGED <<lease, reserved, made, origin, verified, world>>

\* delete_branch_if_at
DeleteBranch ==
  /\ At("delete")
  /\ tree' = IF Tip = job.head THEN NoTree(tree.of) ELSE tree
  /\ End
  /\ UNCHANGED <<lease, reserved, made, origin, verified, world>>

-----------------------------------------------------------------------------
(* Deaths, users and the two pinned branches. *)

Crash ==
  /\ job # NoJob
  /\ crashes < MaxCrashes
  /\ crashes' = crashes + 1
  /\ End
  /\ UNCHANGED <<kind, lease, reserved, made, tree, origin, source, target,
                 verified, moves, edits>>

Edited == edits < MaxEdits /\ edits' = edits + 1

Moved == moves < MaxMoves /\ moves' = moves + 1

\* A later head; a branch does not come back to one it had.  The sources of
\* a promotion are merged pull requests, whose heads stay.
SourceMoves ==
  /\ kind = "sync"
  /\ Moved
  /\ source + 1 \in Source
  /\ source' = source + 1
  /\ UNCHANGED <<kind, lease, reserved, made, tree, origin, target, verified,
                 job, edits, crashes>>

TargetMoves ==
  /\ Moved
  /\ Len(made) + 1 \in Sha
  /\ made' = Append(made, [base |-> target, of |-> NoSource, patches |-> 0,
                           how |-> "target"])
  /\ target' = Len(made')
  /\ UNCHANGED <<kind, lease, reserved, tree, origin, source, verified, job,
                 edits, crashes>>

\* No ref of a held branch can be written.
Held == job.pc \in {"held", "normalize", "remove"}

UserEdit ==
  /\ CleanTree
  /\ Edited
  /\ tree' = [tree EXCEPT !.files = "dirty"]
  /\ UNCHANGED <<kind, lease, reserved, made, origin, source, target, verified,
                 job, moves, crashes>>

\* In the worktree, or on the branch when a removal has left it alone.
UserCommit ==
  /\ CleanTree \/ (~tree.there /\ Tip # NoSha)
  /\ ~Held
  /\ Edited
  /\ Len(made) + 1 \in Sha
  /\ made' = Append(made, [base |-> Tip, of |-> NoSource, patches |-> 0,
                           how |-> "user"])
  /\ tree' = [tree EXCEPT !.tip = Len(made')]
  /\ UNCHANGED <<kind, lease, reserved, origin, source, target, verified, job,
                 moves, crashes>>

\* The markers of a recorded conflict are edited away, before any git add.
UserResolve ==
  /\ tree.there
  /\ tree.files \in IF kind = "sync" THEN {"conflict"} ELSE {"conflict", "marked"}
  /\ tree' = [tree EXCEPT !.files = "resolving"]
  /\ UNCHANGED <<kind, lease, reserved, made, origin, source, target, verified,
                 job, moves, edits, crashes>>

\* What an exact promotion left in the worktree is thrown away.
UserClean ==
  /\ kind = "exact"
  /\ tree.there /\ ~CleanTree
  /\ Edited
  /\ tree' = [tree EXCEPT !.files = "clean", !.applied = 0]
  /\ UNCHANGED <<kind, lease, reserved, made, origin, source, target, verified,
                 job, moves, crashes>>

ClosePull ==
  /\ pull.state = "OPEN"
  /\ Edited
  /\ pull' = [pull EXCEPT !.state = "CLOSED"]
  /\ UNCHANGED <<kind, lease, reserved, made, tree, remote, source, target,
                 verified, job, moves, crashes>>

World ==
  \/ SourceMoves \/ TargetMoves
  \/ UserEdit \/ UserCommit \/ UserResolve \/ UserClean \/ ClosePull

Shared ==
  \/ AddWorktree \/ CreateLease \/ FindOrCreatePull \/ GitHubFails
  \/ Hold \/ RecoverRemoval \/ Complete \/ DeleteBranch
  \/ Crash

-----------------------------------------------------------------------------
(* Type correctness of the rows, the worktree and origin of a pinned branch *)
(* (worktrees/models.py:Lease).                                             *)
TypeOK ==
  /\ kind \in Kinds
  /\ lease \in Lease \cup {NoLease}
  /\ reserved \in Sha \cup {NoSha}
  /\ made \in Seq([base : Sha \cup {NoSha}, of : Source \cup {NoSource},
                   patches : 0..Patches,
                   how : {"target", "delta", "manual", "unreviewed", "user"}])
  /\ tree \in [of : Source, there : BOOLEAN, tip : Sha \cup {NoSha},
               files : {"clean", "patched", "conflict", "resolving", "marked",
                        "staged", "dirty"},
               applied : 0..Patches]
  /\ remote \in Sha \cup {NoSha}
  /\ pull \in [state : {"NONE", "OPEN", "CLOSED"}, head : Sha \cup {NoSha},
               base : Sha \cup {NoSha}]
  /\ source \in Source /\ target \in Sha /\ verified \subseteq Sha

(* A lease is only ever put into PR_OPEN for a commit that passed           *)
(* production verification, that was built from exactly the pinned source   *)
(* on the pinned target with every patch in it, and that is what origin     *)
(* carries -- whatever the user committed between verification and push,    *)
(* and whichever of the resume paths got it there.                          *)
ReadyMeansVerified ==
  Live /\ lease.state = "PR_OPEN" =>
    /\ lease.head \in verified
    /\ made[lease.head].base = lease.target
    /\ made[lease.head].of = lease.source
    /\ made[lease.head].patches = Patches
    /\ remote = lease.head

(* A command only takes a user's commit off a pinned branch, by a reset, a  *)
(* removal or a branch deletion, in the one window where the code does not  *)
(* look again: a rebuild on an advanced target reads the head               *)
(* (service.py:12825-12830), fetches the sources, and then resets the       *)
(* branch (12904), or resets it once more when the commit or its row fails  *)
(* (12936).  A commit made between that reading and those resets is lost;   *)
(* any other stays on the branch, though every command checks the tip in    *)
(* one step and acts on it in another.                                      *)
CommitsKept ==
  [][Tip # NoSha /\ made[Tip].how = "user" /\ tree'.of = tree.of
       /\ ~(job.pc \in {"reset", "rebuilt"} /\ Tip # job.head) =>
       tree'.tip = Tip \/ (tree'.tip # NoSha /\ made'[tree'.tip].base = Tip)]_vars
=============================================================================
