------------------------------ MODULE Promotion ------------------------------
(***************************************************************************)
(* `awf wt promote`, `recover-promotion` and `discard-promotion`: reviewed *)
(* pull requests are applied on the pinned production commit, verified and *)
(* published.  An exact promotion takes the sources' content or nothing;   *)
(* an out-of-order one stops at the first patch that conflicts, takes the  *)
(* user's resolution, applies the patches after it and commits all of it   *)
(* as one manually reviewed commit.                                        *)
(***************************************************************************)
EXTENDS PinnedBranch

Promotions == {"exact", "outOfOrder"}

promotion == kind \in Promotions

OutOfOrder == kind = "outOfOrder"

\* _block_promotion_lease: the row takes the head there is.
BlockP(why) ==
  /\ lease' = IF lease.state = "BLOCKED" THEN lease
              ELSE [Blocked(why) EXCEPT !.head = Tip]
  /\ End

\* What the trailers of a commit say of it.
SaysManual(sha) == made[sha].how \in {"manual", "unreviewed"}

IsPromotion(sha) ==
  /\ made[sha].how \in {"delta", "manual", "unreviewed"}
  /\ made[sha].of = lease.source

ToPublish(head, resolution) ==
  [lease EXCEPT !.state = "ACTIVE", !.why = "publish_pending", !.head = head,
                !.resolution = resolution]

-----------------------------------------------------------------------------
(* promote: a new lease. *)

PromoteBegin == Begin("promote", Promotions)

\* A lease that never had a commit gets a new identity once the target has
\* moved: another lease, another branch.
Retryable ==
  /\ OutOfOrder
  /\ lease.state = "BLOCKED" /\ lease.resolution = "NONE"
  /\ lease.head = lease.target /\ lease.why = "apply_failed"
  /\ CleanTree /\ Tip = lease.head /\ remote = NoSha

PromoteStart ==
  /\ At("promote")
  /\ IF ~Live THEN Go("sources") /\ UNCHANGED vars_
     ELSE IF Retryable THEN Stop
     ELSE Go("reuse") /\ UNCHANGED vars_

\* What the reviewed patches come to on the target, their excluded and their
\* already promoted paths left out.
IncludedDelta == Delta(job.source, job.target)

\* Each source is fetched and compared with its pull request, its base, the
\* staging history and the sources before it; git may fail at any of them.
PromoteSources ==
  /\ At("sources")
  /\ \/ IncludedDelta # "empty" /\ Go("worktree") /\ UNCHANGED vars_
     \/ (IncludedDelta = "empty" \/ Faulty) /\ Stop

Conflicts(done) == {k \in done + 1 .. Patches : Conflict(job.source, k, job.target)}

Earliest(S) == CHOOSE k \in S : \A l \in S : k <= l

\* The patches after the first done, up to one that conflicts or that git
\* fails at.
ApplyAfter(done, NextPc, Failed) ==
  \/ /\ Conflicts(done) = {}
     /\ tree' = [tree EXCEPT !.files = "patched", !.applied = Patches]
     /\ Go(NextPc)
     /\ UNCHANGED lease
  \/ /\ Conflicts(done) # {}
     /\ tree' = [tree EXCEPT !.files = "conflict",
                             !.applied = Earliest(Conflicts(done)) - 1]
     /\ Go("conflict")
     /\ UNCHANGED lease
  \/ /\ Faulty
     /\ \E k \in done .. Patches - 1 :
          /\ \A l \in Conflicts(done) : k < l
          /\ tree' = IF k = done THEN tree
                     ELSE [tree EXCEPT !.applied = k, !.files = "patched"]
     /\ Failed

PromoteApply ==
  /\ At("apply") /\ promotion
  /\ \/ CleanTree /\ ApplyAfter(0, "commit", BlockP("apply_failed"))
     \/ ~CleanTree /\ BlockP("apply_failed") /\ UNCHANGED tree
  /\ UNCHANGED <<reserved, made, origin, verified, world>>

\* _record_out_of_order_conflict remembers the index entries of all the other
\* paths; an exact promotion stays as the conflict left it.
PromoteConflict ==
  /\ At("conflict") /\ promotion
  /\ IF OutOfOrder
     THEN /\ lease' = [lease EXCEPT !.state = "BLOCKED", !.why = "conflict",
                         !.head = Tip, !.resolution = "PENDING",
                         !.ordinal = tree.applied + 1, !.applied = tree.applied]
          /\ End
     ELSE BlockP("apply_failed")
  /\ UNCHANGED <<reserved, made, tree, origin, verified, world>>

\* _block_promotion_lease after the commit: the row's head is the commit.
CommitBlocked(why) ==
  /\ lease' = [Blocked(why) EXCEPT !.head = Len(made')]
  /\ End

PromoteCommit ==
  /\ At("commit") /\ promotion
  /\ \/ /\ CommitIndex("delta", "clean")
        /\ IF Exactly
           THEN /\ job' = [job EXCEPT !.pc = "verify", !.head = Len(made')]
                /\ UNCHANGED lease
           ELSE CommitBlocked(IF OutOfOrder \/ Tip # job.target
                                THEN "delta_mismatch" ELSE "staging_missing")
     \/ /\ Faulty
        /\ BlockP("apply_failed")
        /\ UNCHANGED <<made, tree>>
  /\ UNCHANGED <<reserved, origin, verified, world>>

\* _prepare_promotion, then the production verification.
Verified(pc) ==
  /\ CleanTree
  /\ verified' = verified \cup {Tip}
  /\ Go(pc)
  /\ UNCHANGED lease

Unverified ==
  \/ ~CleanTree /\ BlockP("prepare_dirty")
  \/ Faulty /\ CleanTree /\ \E why \in {"prepare_failed", "verify_failed"} : BlockP(why)

PromoteVerify ==
  /\ At("verify") /\ promotion
  /\ Verified("record") \/ (Unverified /\ UNCHANGED verified)
  /\ UNCHANGED <<reserved, made, tree, origin, world>>

PromoteRecord ==
  /\ At("record") /\ promotion
  /\ lease' = ToPublish(job.head, IF OutOfOrder THEN "AUTOMATIC" ELSE "NONE")
  /\ Go("check")
  /\ UNCHANGED <<reserved, made, tree, origin, verified, world>>

\* _out_of_order_reuse_source_blocker: the pull requests are still the ones the
\* lease has pinned.
SourcesPinned == lease.source = job.source

\* An exact promotion is published whatever its target has become.
PromoteCheck ==
  /\ At("check") /\ promotion
  /\ IF OutOfOrder /\ (~SourcesPinned \/ target # lease.target)
     THEN BlockP("changed")
     ELSE Go("push") /\ UNCHANGED lease
  /\ UNCHANGED <<reserved, made, tree, origin, verified, world>>

\* A resumed publication takes the open pull request as it is; otherwise HEAD
\* is pushed, and origin refuses what is no fast-forward.
PromotePush ==
  /\ At("push") /\ promotion
  /\ IF job.command = "resume" /\ pull.state = "OPEN"
     THEN Go("exact") /\ UNCHANGED vars_
     ELSE IF remote \in {NoSha, Tip, made[Tip].base}
     THEN /\ Pushed(Tip)
          /\ Go("pull")
          /\ UNCHANGED <<lease, reserved, made, tree, verified, world>>
     ELSE Stop

ExactHead == pull.state = "OPEN" /\ pull.head = job.head

PromoteOpen ==
  /\ At("exact") /\ promotion
  /\ IF ExactHead
     THEN /\ lease' = [lease EXCEPT !.state = "PR_OPEN", !.why = "pr_open",
                                    !.head = job.head]
          /\ End
     ELSE BlockP("pr_mismatch")
  /\ UNCHANGED <<reserved, made, tree, origin, verified, world>>

-----------------------------------------------------------------------------
(* promote: the lease there is (_reuse_promotion). *)

Continue(pc) ==
  /\ job' = [job EXCEPT !.pc = pc, !.command = "resume", !.head = Tip]
  /\ UNCHANGED vars_

\* The message of the worktree's commit agrees with the row.
Provenance ==
  /\ tree.there
  /\ IsPromotion(Tip)
  /\ SaysManual(Tip) <=> lease.resolution = "MANUAL_REVIEWED"

\* Which of the reasons a lease is blocked for are retried on a new target.
Rebuildable ==
  /\ lease.state = "BLOCKED"
  /\ \/ OutOfOrder /\ lease.why = "verify_failed" /\ job.target # lease.target
     \/ lease.why = "staging_missing"

\* What every continuation of an out-of-order lease looks at first.
ReuseDrifted ==
  /\ At("reuse") /\ OutOfOrder
  /\ ~SourcesPinned \/ Faulty
  /\ Stop

Reusable == At("reuse") /\ (OutOfOrder => SourcesPinned)

ReuseConflict ==
  /\ Reusable /\ lease.resolution = "PENDING"
  /\ Continue("conflicted")

ReuseBlocked ==
  /\ Reusable /\ lease.resolution # "PENDING"
  /\ lease.state = "BLOCKED"
  /\ IF ~Provenance THEN Stop
     ELSE IF Rebuildable THEN Continue("rebuild")
     ELSE IF lease.resolution = "MANUAL_REVIEWED" THEN Continue("manual")
     ELSE IF lease.why \in {"verify_failed", "prepare_failed"}
     THEN Continue("unrecorded")
     ELSE Stop

ReuseActive ==
  /\ Reusable /\ lease.resolution # "PENDING"
  /\ lease.state # "BLOCKED"
  /\ IF ~Provenance \/ lease.state = "PR_OPEN" THEN Stop
     ELSE IF lease.why = "publish_pending" THEN Continue("publish")
     ELSE Continue("unrecorded")

\* _rebuild_content_mismatch_promotion: the source patches, on the target as
\* it is now.
CanRebuild ==
  /\ CleanTree
  /\ Tip = lease.head
  /\ remote = NoSha
  /\ job.target # made[Tip].base

RebuildCheck ==
  /\ At("rebuild")
  /\ IF CanRebuild
     THEN job' = [job EXCEPT !.pc = "reset", !.head = Tip] /\ UNCHANGED vars_
     ELSE Stop

\* The trailers repeat what the row says of the resolution.
RebuiltHow ==
  IF lease.resolution = "MANUAL_REVIEWED" THEN "unreviewed" ELSE "delta"

\* What fails is reset to the head that was checked, which is the row's.
RestoreHead ==
  /\ tree' = [tree EXCEPT !.tip = lease.head, !.files = "clean"]
  /\ End
  /\ UNCHANGED lease

\* When that reset fails too, the row takes the head there is, if it can be
\* read and the row be written (promotion_recovery_restore_failed).
RestoreFails ==
  /\ Faulty
  /\ \/ \E head \in {lease.head, tree'.tip} :
          lease' = [lease EXCEPT !.why = "restore_failed", !.head = head]
     \/ UNCHANGED lease
  /\ End

\* reset_hard to the target, the patches, a commit of them.
Rebuild ==
  /\ At("reset")
  /\ \/ /\ Conflicts(0) = {}
        /\ Len(made) + 1 \in Sha
        /\ made' = Append(made, [base |-> job.target, of |-> job.source,
                                 patches |-> Patches, how |-> RebuiltHow])
        /\ tree' = [tree EXCEPT !.tip = Len(made'), !.files = "clean"]
        /\ job' = [job EXCEPT !.pc = "rebuilt", !.head = Len(made')]
        /\ UNCHANGED lease
     \/ /\ Conflicts(0) # {} \/ Faulty
        /\ RestoreHead
        /\ UNCHANGED made
     \/ /\ tree' \in {tree} \cup {[tree EXCEPT !.tip = job.target, !.files = files] :
                                    files \in {"clean", "patched"}}
        /\ RestoreFails
        /\ UNCHANGED made
  /\ UNCHANGED <<reserved, origin, verified, world>>

\* A row that cannot be written takes the commit back.
RecordRebuilt ==
  /\ At("rebuilt")
  /\ \/ /\ lease' = [lease EXCEPT !.why = "verify_failed", !.head = job.head,
                                  !.target = job.target]
        /\ Go("unrecorded")
        /\ UNCHANGED tree
     \/ Faulty /\ RestoreHead
     \/ UNCHANGED tree /\ RestoreFails
  /\ UNCHANGED <<reserved, made, origin, verified, world>>

\* _recover_unrecorded_promotion_publish: the commit is on the live target, or
\* on the head of a lease whose commit was never recorded.
Unrecorded ==
  LET base == IF lease.state = "BLOCKED" THEN target ELSE lease.head IN
  /\ CleanTree /\ Provenance
  /\ Tip # base /\ made[Tip].base = base
  /\ Delta(lease.source, base) = "change"

KeptResolution ==
  IF lease.resolution = "MANUAL_REVIEWED" THEN lease.resolution
  ELSE IF OutOfOrder THEN "AUTOMATIC" ELSE "NONE"

\* Only a prepare command that fails blocks the lease.
VerifyUnrecorded ==
  /\ At("unrecorded")
  /\ \/ /\ Unrecorded
        /\ verified' = verified \cup {Tip}
        /\ lease' = ToPublish(Tip, KeptResolution)
        /\ Go("publish")
     \/ /\ Unrecorded /\ Faulty
        /\ BlockP("prepare_failed")
        /\ UNCHANGED verified
     \/ /\ ~Unrecorded \/ Faulty
        /\ End
        /\ UNCHANGED <<lease, verified>>
  /\ UNCHANGED <<reserved, made, tree, origin, world>>

\* _resume_promotion_publish, up to the drift check and the push.
PublishAgain ==
  /\ At("publish")
  /\ \/ /\ CleanTree /\ Tip = lease.head
        /\ verified' = verified \cup {Tip}
        /\ job' = [job EXCEPT !.pc = "check", !.command = "resume", !.head = Tip]
        /\ UNCHANGED lease
     \/ /\ \/ CleanTree /\ Tip # lease.head /\ BlockP("head_mismatch")
           \/ Unverified
        /\ UNCHANGED verified
  /\ UNCHANGED <<reserved, made, tree, origin, world>>

-----------------------------------------------------------------------------
(* An out-of-order conflict and its manual resolution. *)

Unpublished == target = lease.target /\ remote = NoSha /\ pull.state # "OPEN"

Resolved(head) ==
  [lease EXCEPT !.state = "BLOCKED", !.why = "resolved", !.head = head,
                !.resolution = "MANUAL_REVIEWED", !.ordinal = 0]

\* _resume_out_of_order_conflict: nothing but the conflicted paths may have
\* changed since the conflict was recorded.
ResumeConflict ==
  /\ At("conflicted") /\ Tip = lease.head
  /\ IF /\ tree.there /\ lease.head = lease.target
        /\ Unpublished
        /\ tree.applied = lease.applied
     THEN Go("stage_all") /\ UNCHANGED vars_
     ELSE Stop

\* Markers that are still there stay staged.
StageResolution ==
  /\ At("stage_all")
  /\ IF tree.files \in {"resolving", "staged"}
     THEN tree' = [tree EXCEPT !.files = "staged"] /\ Go("remaining")
     ELSE tree' = [tree EXCEPT !.files = "marked"] /\ End
  /\ UNCHANGED <<lease, reserved, made, origin, verified, world>>

\* _apply_remaining_out_of_order_sources
ApplyRemaining ==
  /\ At("remaining")
  /\ ApplyAfter(lease.ordinal, "resolved", End /\ UNCHANGED lease)
  /\ UNCHANGED <<reserved, made, origin, verified, world>>

CommitResolution ==
  /\ At("resolved")
  /\ \/ /\ CommitIndex("manual", "clean")
        /\ job' = [job EXCEPT !.pc = "resolution", !.head = Len(made')]
     \/ Faulty /\ End /\ UNCHANGED <<made, tree>>
  /\ UNCHANGED <<lease, reserved, origin, verified, world>>

RecordResolution ==
  /\ At("resolution")
  /\ lease' = Resolved(job.head)
  /\ Go("manual")
  /\ UNCHANGED <<reserved, made, tree, origin, verified, world>>

\* _reconcile_pending_manual_resolution: the commit of a command that died.
ReconcileResolution ==
  /\ At("conflicted") /\ Tip # lease.head
  /\ IF /\ CleanTree /\ lease.head = lease.target
        /\ made[Tip].base = lease.target
        /\ Unpublished
        /\ made[Tip].how = "manual"
     THEN lease' = Resolved(Tip) /\ Go("manual")
     ELSE End /\ UNCHANGED lease
  /\ UNCHANGED <<reserved, made, tree, origin, verified, world>>

\* _resume_manually_reviewed_promotion
ManualReady ==
  /\ CleanTree /\ Tip = lease.head
  /\ made[Tip].base = lease.target
  /\ Unpublished

ResumeManual ==
  /\ At("manual")
  /\ \/ /\ ManualReady
        /\ verified' = verified \cup {Tip}
        /\ lease' = ToPublish(Tip, "MANUAL_REVIEWED")
        /\ Go("publish")
     \/ /\ ~ManualReady \/ Faulty
        /\ End
        /\ UNCHANGED <<lease, verified>>
  /\ UNCHANGED <<reserved, made, tree, origin, world>>

-----------------------------------------------------------------------------
(* recover-promotion: the user changed the resolution after its commit. *)

AmendBegin == lease # NoLease /\ Begin("amend", {"outOfOrder"})

\* _recover_promotion_source_blocker: GitHub's view of the pinned sources.
AmendSources == SourcesPinned

Amendable ==
  /\ lease.state = "BLOCKED" /\ lease.resolution = "MANUAL_REVIEWED"
  /\ AmendSources
  /\ tree.there
  /\ made[Tip].base = lease.target /\ SaysManual(Tip)
  /\ Unpublished

\* Changes that are not committed, or an amended commit the row does not have.
AmendNeeded == CleanTree <=> Tip # lease.head

\* An amended commit is taken over.
AmendStart ==
  /\ At("amend")
  /\ IF ~Amendable \/ ~AmendNeeded
     THEN End /\ UNCHANGED lease
     ELSE IF CleanTree THEN lease' = Resolved(Tip) /\ End
     ELSE Go("amending") /\ UNCHANGED lease
  /\ UNCHANGED <<reserved, made, tree, origin, verified, world>>

Amend ==
  /\ At("amending")
  /\ \/ /\ Len(made) + 1 \in Sha
        /\ made' = Append(made, made[Tip])
        /\ tree' = [tree EXCEPT !.tip = Len(made'), !.files = "clean"]
        /\ job' = [job EXCEPT !.pc = "amended", !.head = Len(made')]
     \/ Faulty /\ End /\ UNCHANGED <<made, tree>>
  /\ UNCHANGED <<lease, reserved, origin, verified, world>>

AmendRecord ==
  /\ At("amended")
  /\ lease' = IF CleanTree /\ Unpublished THEN Resolved(job.head) ELSE lease
  /\ End
  /\ UNCHANGED <<reserved, made, tree, origin, verified, world>>

-----------------------------------------------------------------------------
(* discard-promotion: an exact promotion that could not be applied. *)

AbandonBegin == lease # NoLease /\ Begin("abandon", {"exact"})

\* The lease's head is what it started from, and nothing was published.
Abandonable ==
  /\ Live /\ lease.state = "BLOCKED" /\ lease.why = "apply_failed"
  /\ made[lease.head].how = "target"
  /\ remote = NoSha

\* The rest of the preflight, which a recovery of a dead command leaves out.
Untouched == CleanTree /\ Tip = lease.head

AbandonStart ==
  /\ At("abandon")
  /\ IF reserved # NoSha
     THEN IF Abandonable THEN Go("removed") /\ UNCHANGED vars_ ELSE Stop
     ELSE IF Abandonable /\ Untouched THEN Reserve
     ELSE Stop

AbandonRemove ==
  /\ At("held") /\ kind = "exact"
  /\ Remove(Abandonable /\ Untouched)

-----------------------------------------------------------------------------
PromoteNext ==
  \/ PromoteBegin \/ PromoteStart \/ PromoteSources \/ PromoteApply \/ PromoteConflict
  \/ PromoteCommit \/ PromoteVerify \/ PromoteRecord \/ PromoteCheck
  \/ PromotePush \/ PromoteOpen
  \/ ReuseDrifted \/ ReuseConflict \/ ReuseBlocked \/ ReuseActive
  \/ RebuildCheck \/ Rebuild \/ RecordRebuilt \/ VerifyUnrecorded \/ PublishAgain
  \/ ResumeConflict \/ StageResolution \/ ApplyRemaining \/ CommitResolution
  \/ RecordResolution \/ ReconcileResolution \/ ResumeManual
  \/ AmendBegin \/ AmendStart \/ Amend \/ AmendRecord
  \/ AbandonBegin \/ AbandonStart \/ AbandonRemove

(* A resolution that a person made and reviewed stays what it was: a lease  *)
(* that says so never carries content that was applied automatically in its *)
(* place.  "It does not reset or transplant a human resolution onto a       *)
(* different target"                                                        *)
(* (docs/superpowers/specs/2026-08-20-out-of-order-promotion-design.md:130).*)
ResolutionKept ==
  kind = "outOfOrder" /\ Live /\ lease.resolution = "MANUAL_REVIEWED"
    => made[lease.head].how # "unreviewed"
=============================================================================
