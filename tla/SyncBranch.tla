----------------------------- MODULE SyncBranch -----------------------------
(***************************************************************************)
(* `awf wt sync`, `recover-sync` and `discard-sync`: the delta production  *)
(* has and staging lacks is applied on a pinned staging commit, verified   *)
(* and published as a pull request.  A conflict is left in the worktree    *)
(* and recorded, for recover-sync to commit the user's resolution of it as *)
(* a merge, or for discard-sync to throw it away once a pin is stale.      *)
(***************************************************************************)
EXTENDS PinnedBranch

\* The delta, or the user's resolution of its conflict, as a commit on the pin.
IsSyncCommit(sha) ==
  /\ sha # lease.target
  /\ made[sha].base = lease.target /\ made[sha].of = lease.source
  /\ made[sha].how \in {"delta", "manual"}
  /\ Delta(lease.source, lease.target) # "mismatch"

\* _block_sync_lease
Block(why) ==
  /\ lease' = Blocked(why)
  /\ End

-----------------------------------------------------------------------------
(* sync *)

SyncBegin == Begin("sync", {"sync"})

\* Nothing to do, somebody else's branch, or a lease that is not for this pin.
SyncStart ==
  /\ At("sync")
  /\ IF Delta(job.source, job.target) = "empty" THEN Stop
     ELSE IF Live THEN Go("resume") /\ UNCHANGED vars_
     ELSE IF pull.state = "OPEN" \/ remote # NoSha THEN Stop
     ELSE Go("worktree") /\ UNCHANGED vars_

\* apply_indexed_patch, over edits of the same paths or over a conflict; its
\* other failures leave the index alone.
SyncApply ==
  /\ At("apply") /\ kind = "sync"
  /\ \/ /\ CleanTree /\ ~Conflict(job.source, 1, job.target)
        /\ IF Delta(job.source, job.target) = "same" /\ Tip = job.target
           THEN /\ lease' = [lease EXCEPT !.why = "noop_pending"]
                /\ Go("noop")
                /\ UNCHANGED tree
           ELSE /\ tree' = [tree EXCEPT !.files = "patched"]
                /\ Go("commit")
                /\ UNCHANGED lease
     \/ /\ CleanTree /\ Conflict(job.source, 1, job.target)
        /\ tree' = [tree EXCEPT !.files = "conflict"]
        /\ Go("conflict")
        /\ UNCHANGED lease
     \/ /\ ~CleanTree \/ Faulty
        /\ Block("apply_failed")
        /\ UNCHANGED tree
  /\ UNCHANGED <<reserved, made, origin, verified, world>>

SyncConflict ==
  /\ At("conflict") /\ kind = "sync"
  /\ Block("target_conflict")
  /\ UNCHANGED <<reserved, made, tree, origin, verified, world>>

\* A commit of nothing fails like any other.
SyncCommit ==
  /\ At("commit") /\ kind = "sync"
  /\ \/ /\ Delta(job.source, job.target) # "same"
        /\ CommitIndex("delta", "clean")
        /\ IF Exactly
           THEN /\ job' = [job EXCEPT !.pc = "verify", !.head = Len(made')]
                /\ UNCHANGED lease
           ELSE Block("delta_mismatch")
     \/ /\ Faulty \/ Delta(job.source, job.target) = "same"
        /\ Block("apply_failed")
        /\ UNCHANGED <<made, tree>>
  /\ UNCHANGED <<reserved, origin, verified, world>>

\* Prepare, the status check and verification, each with its reason.
SyncVerify ==
  /\ At("verify") /\ kind = "sync"
  /\ \/ /\ CleanTree
        /\ verified' = verified \cup {Tip}
        /\ Go("check")
        /\ UNCHANGED lease
     \/ \E why \in IF CleanTree THEN {"prepare_failed", "apply_failed"}
                              ELSE {"prepare_dirty"} :
          /\ Faulty \/ why = "prepare_dirty"
          /\ Block(why)
          /\ UNCHANGED verified
  /\ UNCHANGED <<reserved, made, tree, origin, world>>

Pending(head) ==
  [lease EXCEPT !.state = "ACTIVE", !.why = "publish_pending", !.head = head]

\* The first run records its head only now; a resumed one has it recorded.
SyncRecheck ==
  /\ At("check") /\ kind = "sync"
  /\ IF Drifted THEN Block("changed")
     ELSE /\ lease' = IF job.command = "sync" THEN Pending(job.head) ELSE lease
          /\ Go("push")
  /\ UNCHANGED <<reserved, made, tree, origin, verified, world>>

\* _recovered_sync_commit_preflight
RecoveredCommit == Tip = job.head /\ CleanTree

\* push_branch pushes HEAD, whatever it is by now; recover-sync pushes the
\* commit it made, and only where there is no branch.
SyncPush ==
  /\ At("push") /\ kind = "sync"
  /\ CASE remote = NoSha /\ job.command # "recover" ->
            Pushed(Tip) /\ Go("drift") /\ UNCHANGED lease
       [] remote = NoSha /\ job.command = "recover" ->
            IF RecoveredCommit
            THEN Pushed(job.head) /\ Go("drift") /\ UNCHANGED lease
            ELSE Block("commit_mismatch") /\ UNCHANGED origin
       [] remote = job.head -> Go("drift") /\ UNCHANGED <<lease, origin>>
       [] OTHER -> Block("branch_changed") /\ UNCHANGED origin
  /\ UNCHANGED <<reserved, made, tree, verified, world>>

\* Only the first run looks at the pins again before the pull request.
SyncDrift ==
  /\ At("drift") /\ kind = "sync"
  /\ IF job.command = "sync" /\ Drifted THEN Block("changed")
     ELSE Go("pull") /\ UNCHANGED lease
  /\ UNCHANGED <<reserved, made, tree, origin, verified, world>>

\* Mutant: the pull request's head is not compared.
ExactPullOfBase == pull.state = "OPEN" /\ pull.base = lease.target

ExactPull ==
  /\ pull.state = "OPEN" /\ pull.base = lease.target
  /\ pull.head = job.head

SyncOpen ==
  /\ At("exact") /\ kind = "sync"
  /\ IF ~ExactPull THEN Block("pr_mismatch")
     ELSE IF Drifted THEN Block("changed")
     ELSE /\ lease' = [lease EXCEPT !.state = "PR_OPEN", !.why = "pr_open",
                                    !.head = job.head]
          /\ End
  /\ UNCHANGED <<reserved, made, tree, origin, verified, world>>

-----------------------------------------------------------------------------
(* _resume_sync_publication *)

\* _recover_sync_noop: the last reason says that nothing was applied.
NoopCandidate == lease.why \in {"noop_pending", "apply_failed"}

NoopPath ==
  /\ lease.state # "PR_OPEN" /\ Pinned /\ NoopCandidate
  /\ \/ reserved # NoSha
     \/ lease.head = job.target /\ (~tree.there \/ Tip = job.target)

\* A reservation is taken up, the index is found to be the target's, or not.
ResumeNoop ==
  /\ At("resume") /\ NoopPath
  /\ IF reserved # NoSha
     THEN IF /\ lease.head = job.target /\ reserved = job.target
             /\ remote = NoSha /\ pull.state # "OPEN"
          THEN Go("removed") /\ UNCHANGED vars_
          ELSE Stop
     ELSE IF CleanTree THEN Go("noop") /\ UNCHANGED vars_
     ELSE Stop

Resumable ==
  /\ lease.state \in {"ACTIVE", "BLOCKED"} /\ Pinned
  /\ CleanTree /\ IsSyncCommit(Tip)
  /\ reserved = NoSha \/ Tip = lease.head

\* A commit the row does not have yet is recorded before it is verified.
ResumeCommit ==
  /\ At("resume") /\ ~NoopPath
  /\ IF Resumable
     THEN /\ lease' = IF Tip = lease.head THEN lease ELSE Pending(Tip)
          /\ job' = [job EXCEPT !.pc = "verify", !.command = "resume",
                                !.head = Tip]
          /\ UNCHANGED <<reserved, made, tree, origin, verified, world>>
     ELSE Stop

-----------------------------------------------------------------------------
(* _finalize_sync_noop: the index equals the target, so the worktree goes. *)

NoopReserve ==
  /\ At("noop")
  /\ IF /\ CleanTree /\ Tip = job.target /\ lease.head = job.target
        /\ ~Drifted /\ remote = NoSha /\ pull.state # "OPEN"
     THEN Reserve
     ELSE /\ IF CleanTree THEN Block("not_noop") ELSE End /\ UNCHANGED lease
          /\ UNCHANGED <<reserved, made, tree, origin, verified, world>>

NoopRemove ==
  /\ At("held") /\ job.command \in {"sync", "resume"}
  /\ Remove(Tip = job.target)

-----------------------------------------------------------------------------
(* A recorded conflict. *)

Unmerged == tree.files \in {"conflict", "resolving"}

\* The row and the worktree as a target conflict left them.
Conflicted ==
  /\ Live /\ lease.state = "BLOCKED" /\ lease.why = "target_conflict"
  /\ lease.head = lease.target
  /\ tree.there /\ Unmerged /\ Tip = lease.target

RecoverBegin == lease # NoLease /\ Begin("recover", {"sync"})

RecoverStart ==
  /\ At("recover")
  /\ IF /\ Conflicted /\ Pinned /\ reserved = NoSha /\ ~Drifted
        /\ remote = NoSha /\ pull.state = "NONE"
     THEN Go("stage") /\ UNCHANGED vars_
     ELSE Stop

\* stage_paths: the index says "resolved" whatever the files say.
RecoverStage ==
  /\ At("stage")
  /\ tree' = [tree EXCEPT !.files = IF @ = "conflict" THEN "marked" ELSE "staged"]
  /\ Go("final")
  /\ UNCHANGED <<lease, reserved, made, origin, verified, world>>

Unstaged == [tree EXCEPT !.files = IF @ = "marked" THEN "conflict" ELSE "resolving"]

\* _restore_recovery_index, which may fail itself (sync_index_restore_failed):
\* the row is blocked already and keeps its reason, the index what was staged.
RestoreIndex ==
  /\ tree' = Unstaged \/ (Faulty /\ UNCHANGED tree)
  /\ End

\* _recover_sync_final_index_preflight
RecoverFinal ==
  /\ At("final")
  /\ \/ tree.files = "staged" /\ Go("merge") /\ UNCHANGED tree
     \/ (tree.files # "staged" \/ Faulty) /\ RestoreIndex
  /\ UNCHANGED <<lease, reserved, made, origin, verified, world>>

\* commit_index_as_merge moves the branch from the target pin or not at all.
RecoverMerge ==
  /\ At("merge")
  /\ \/ /\ Tip = lease.target
        /\ CommitIndex("manual", "clean")
        /\ job' = [job EXCEPT !.pc = "recovered", !.head = Len(made')]
     \/ /\ Tip # lease.target \/ Faulty
        /\ RestoreIndex
        /\ UNCHANGED made
  /\ UNCHANGED <<lease, reserved, origin, verified, world>>

RecoverRecord ==
  /\ At("recovered")
  /\ IF RecoveredCommit
     THEN lease' = Pending(job.head) /\ Go("verify")
     ELSE Block("commit_mismatch")
  /\ UNCHANGED <<reserved, made, tree, origin, verified, world>>

-----------------------------------------------------------------------------
(* discard-sync *)

DiscardBegin == lease # NoLease /\ Begin("discard", {"sync"})

\* The live half of the preflight: a pin has moved, and nothing was published.
StalePins == Drifted /\ remote = NoSha /\ pull.state = "NONE"

\* _discard_sync_preflight: only a conflict whose pins are stale.
Discardable == Conflicted /\ StalePins

DiscardStart ==
  /\ At("discard")
  /\ IF reserved # NoSha
     THEN IF /\ Live /\ lease.state = "BLOCKED" /\ lease.why = "target_conflict"
             /\ lease.head = lease.target
             /\ StalePins
          THEN Go("discard_recover") /\ UNCHANGED vars_
          ELSE Stop
     ELSE IF Discardable THEN Reserve ELSE Stop

\* Under the held branch everything is looked at again.
DiscardCheck ==
  /\ At("held") /\ job.command = "discard"
  /\ IF Discardable THEN Go("normalize") /\ UNCHANGED <<lease, reserved>>
     ELSE Release
  /\ UNCHANGED <<made, tree, origin, verified, world>>

\* git refuses to remove a worktree with changes, so it is made clean first.
DiscardNormalize ==
  /\ At("normalize")
  /\ tree' = [tree EXCEPT !.files = "clean"]
  /\ Go("remove")
  /\ UNCHANGED <<lease, reserved, made, origin, verified, world>>

\* Mutant: the worktree stays as it was made clean for the removal.
NoRebuild == tree

\* _rebuild_discard_sync_conflict
RebuiltConflict == [tree EXCEPT !.files = "conflict"]

\* A removal that fails gets its conflict back or stays reserved.
DiscardRemove ==
  /\ At("remove")
  /\ \/ /\ CleanTree
        /\ tree' = [tree EXCEPT !.there = FALSE]
        /\ Go("complete")
        /\ UNCHANGED <<lease, reserved>>
     \/ /\ ~CleanTree \/ Faulty
        /\ tree' = RebuiltConflict
        /\ Release
     \/ /\ Faulty
        /\ Stop
  /\ UNCHANGED <<made, origin, verified, world>>

\* _recover_discard_sync_reservation for a command that died.
DiscardRecover ==
  /\ At("discard_recover")
  /\ IF ~tree.there THEN Go("complete") /\ UNCHANGED <<lease, reserved>>
     ELSE IF Unmerged /\ Tip = lease.target THEN Release
     ELSE End /\ UNCHANGED <<lease, reserved>>
  /\ UNCHANGED <<made, tree, origin, verified, world>>

-----------------------------------------------------------------------------
SyncNext ==
  \/ SyncBegin \/ SyncStart \/ SyncApply \/ SyncConflict \/ SyncCommit
  \/ SyncVerify \/ SyncRecheck \/ SyncPush \/ SyncDrift \/ SyncOpen
  \/ ResumeNoop \/ ResumeCommit \/ NoopReserve \/ NoopRemove
  \/ RecoverBegin \/ RecoverStart \/ RecoverStage \/ RecoverFinal
  \/ RecoverMerge \/ RecoverRecord
  \/ DiscardBegin \/ DiscardStart \/ DiscardCheck \/ DiscardNormalize
  \/ DiscardRemove \/ DiscardRecover

(* Neither the content of a recorded sync conflict nor its resolution is    *)
(* lost: whenever no command runs and nothing is reserved, the worktree of  *)
(* a lease that says target conflict has the unmerged paths, or what        *)
(* recover-sync staged of them, or a commit on the branch -- after any      *)
(* number of recoveries, discards, failures and deaths.  It does not say    *)
(* that a command takes the lease any further: once the restore of the      *)
(* index has failed as well (service.py:7336-7342), or a recovery has died  *)
(* with paths staged, recover-sync and discard-sync both refuse it.         *)
ConflictKept ==
  /\ job = NoJob /\ reserved = NoSha
  /\ kind = "sync" /\ Live
  /\ lease.state = "BLOCKED" /\ lease.why = "target_conflict"
  => /\ tree.there
     /\ \/ Unmerged \/ tree.files \in {"marked", "staged"}
        \/ made[Tip].how \in {"manual", "user"}
=============================================================================
