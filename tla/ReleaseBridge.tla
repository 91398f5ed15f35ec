---------------------------- MODULE ReleaseBridge ----------------------------
(***************************************************************************)
(* `awf wt release open | add | seal | publish` (worktrees/service.py): a  *)
(* release collects merged source pull requests, each pinned, in one       *)
(* managed worktree that is rebuilt from scratch whenever the list or the  *)
(* production branch changes, is verified, and is published as one pull    *)
(* request.                                                                *)
(*                                                                         *)
(* Every command holds the repository lock from its first read to its      *)
(* last write, so one runs at a time; it may die at every step, and the    *)
(* next one meets the rows, the worktree, the remote branch and GitHub in  *)
(* whatever state it left.  The production branch, the pull requests and   *)
(* the files move while it runs, and a user may commit in the managed      *)
(* worktree at any time and take that commit back.                         *)
(***************************************************************************)
EXTENDS LeaseRegistry, FiniteSets

CONSTANTS Bridge,        \* the lease of the release
          TargetPr,      \* the pull request a publication opens
          Faulty,        \* whether git, GitHub and the gates may fail
          MaxVersion,    \* bound: no command starts on rows beyond it
          MaxDrift,      \* bound on moves of the production branch
          MaxEdits,      \* bound on what users change under a release
          MaxCrashes     \* bound on commands that die

\* What the constants must satisfy; a module that instantiates this one assumes it.
ReleaseAssumption ==
  /\ Bridge \in LeaseId
  /\ TargetPr \in Pr /\ NoPr \notin Pr
  /\ Sha \subseteq Nat \ {0} /\ 1 \in Sha /\ NoSha = 0
  /\ NoSource \notin Source
  /\ NoLease \notin Lease /\ NoRelease \notin Release
  /\ Faulty \in BOOLEAN

VARIABLES
  reg,        \* the registry rows
  made,       \* the commits there are: what they were built on and from,
              \* and, of a user's own, the commit underneath
  tree,       \* the managed worktree
  remote,     \* the release branch on origin
  target,     \* the production branch on origin
  pull,       \* the pull request of the release branch
  live,       \* sources whose pull request still matches its pin
  verified,   \* commits that passed prepare and production verification
  job,        \* the command that has the lock
  drifts, edits, crashes

vars == <<reg, made, tree, remote, target, pull, live, verified, job, drifts,
          edits, crashes>>

outside == <<remote, target, pull, live, drifts, edits, crashes>>

NoJob == [pc |-> "none"]

NoPull == [state |-> "NONE", head |-> NoSha, base |-> NoSha]

Init ==
  /\ reg = [leases |-> [id \in LeaseId |-> NoLease],
            reservations |-> [id \in LeaseId |-> NoReservation],
            releases |-> [id \in LeaseId |-> NoRelease]]
  /\ made = <<[base |-> NoSha, sources |-> <<>>, on |-> NoSha]>>
  /\ tree = [there |-> FALSE, head |-> NoSha, files |-> "clean"]
  /\ remote = NoSha
  /\ target = 1
  /\ pull = NoPull
  /\ live = Source
  /\ verified = {}
  /\ job = NoJob
  /\ drifts = 0 /\ edits = 0 /\ crashes = 0

-----------------------------------------------------------------------------
(* The rows and the running command. *)

lease == reg.leases[Bridge]

release == reg.releases[Bridge]

At(pc) == job.pc = pc

Go(pc) == job' = [job EXCEPT !.pc = pc]

End == job' = NoJob

Stop == End /\ UNCHANGED <<reg, made, tree, verified, outside>>

Commit(base, sources) ==
  /\ Len(made) + 1 \in Sha
  /\ made' = Append(made, [base |-> base, sources |-> sources, on |-> NoSha])

\* The commit that a user's commits are on top of.
Under(c) == IF made[c].on = NoSha THEN c ELSE made[c].on

\* _release_live_sources
SourcesLive(sources) == ToSet(sources) \subseteq live

Begin(command, source) ==
  /\ job = NoJob
  /\ release # NoRelease =>
       release.version < MaxVersion /\ lease.version < MaxVersion
  /\ job' = [pc |-> command, command |-> command, source |-> source,
             sources |-> <<>>, target |-> NoSha, remote |-> NoSha,
             original |-> NoSha, head |-> NoSha, attempt |-> 1]
  /\ UNCHANGED <<reg, made, tree, verified, outside>>

Start ==
  \/ \E command \in {"open", "seal", "publish"} : Begin(command, NoSource)
  \/ \E source \in Source : Begin("add", source)

-----------------------------------------------------------------------------
(* open *)

NewLease ==
  [state |-> "ACTIVE", version |-> 0, head |-> target, purpose |-> "promote",
   owner |-> "awf", managed |-> TRUE, target |-> NoPr, staged |-> NoSha,
   base |-> target, deployment |-> "UNKNOWN"]

NewRelease ==
  [state |-> "OPEN", version |-> 0, sources |-> <<>>, pending |-> NoSource,
   verified |-> NoSha, published |-> NoSha, target |-> NoPr]

\* The rows come first, the worktree after them.
OpenNew ==
  /\ At("open") /\ release = NoRelease
  /\ CanCreate(reg, Bridge)
  /\ reg' = CreateReleaseWithLease(reg, Bridge, NewLease, NewRelease)
  /\ Go("worktree")
  /\ UNCHANGED <<made, tree, verified, outside>>

\* _release_reuse: only an empty bridge gets its worktree back.
OpenAgain ==
  /\ At("open") /\ release # NoRelease
  /\ IF /\ ~tree.there
        /\ release.state = "OPEN" /\ release.sources = <<>>
        /\ lease.state = "ACTIVE"
        /\ remote = NoSha
     THEN Go("worktree") /\ UNCHANGED <<reg, made, tree, verified, outside>>
     ELSE Stop

AddWorktree ==
  /\ At("worktree")
  /\ \/ tree' = [there |-> TRUE, head |-> lease.head, files |-> "clean"]
     \/ Faulty /\ tree' = tree
  /\ End
  /\ UNCHANGED <<reg, made, verified, outside>>

-----------------------------------------------------------------------------
(* add *)

\* A source that is already in is taken as a request to rebuild.
AddAgain ==
  /\ At("add") /\ release # NoRelease
  /\ release.state = "OPEN"
  /\ SourcesLive(release.sources)
  /\ job.source \in ToSet(release.sources)
  /\ job' = [job EXCEPT !.pc = "check", !.command = "again",
                        !.sources = release.sources]
  /\ UNCHANGED <<reg, made, tree, verified, outside>>

\* The source is staged before anything is rebuilt, so that a rebuild cut
\* short is known for what it is.
AddStage ==
  LET pending  == release.pending
      sources  == Append(release.sources, job.source)
      resuming == pending = job.source IN
  /\ At("add") /\ release # NoRelease
  /\ SourcesLive(release.sources) /\ job.source \in live
  /\ CanStage(reg, Bridge, release.version, job.source)
  /\ reg' = StageSource(reg, Bridge, job.source)
  /\ job' = IF resuming /\ tree.there /\ tree.files # "clean" THEN NoJob
            ELSE [job EXCEPT !.sources = sources,
                    !.pc = IF resuming /\ tree.there /\ tree.head # lease.head
                             THEN "recover" ELSE "check"]
  /\ UNCHANGED <<made, tree, verified, outside>>

\* Mutant: whatever commit is found is taken for the staged source's.
RecoverUnseen ==
  /\ At("recover")
  /\ job' = [job EXCEPT !.pc = "accept", !.head = tree.head, !.target = made[tree.head].base]
  /\ UNCHANGED <<reg, made, tree, verified, outside>>

\* _recover_pending_release_candidate: the commit tells what it was made of.
Recover ==
  LET commit == made[tree.head] IN
  /\ At("recover")
  /\ IF /\ commit.sources = job.sources /\ commit.base # NoSha
        /\ tree.there /\ tree.files = "clean"
     THEN /\ job' = [job EXCEPT !.pc = "accept", !.head = tree.head, !.target = commit.base]
          /\ UNCHANGED <<reg, made, tree, verified, outside>>
     ELSE Stop

AddRefused ==
  /\ At("add")
  /\ IF release = NoRelease THEN TRUE
     ELSE \/ release.state # "OPEN"
          \/ ~SourcesLive(release.sources)
          \/ /\ job.source \notin ToSet(release.sources)
             /\ \/ job.source \notin live
                \/ ~CanStage(reg, Bridge, release.version, job.source)
  /\ Stop

Accept ==
  /\ At("accept")
  /\ reg' = AcceptSource(reg, Bridge, job.source, job.head, job.target)
  /\ CanAccept(reg, Bridge, release.version, lease.version, job.source)
  /\ End
  /\ UNCHANGED <<made, tree, verified, outside>>

-----------------------------------------------------------------------------
(* _rebuild_release_bridge *)

\* A failed rebuild withdraws the source that add has staged.
Fail ==
  /\ reg' = IF /\ job.command = "add"
               /\ CanClear(reg, Bridge, release.version, job.source)
              THEN ClearPending(reg, Bridge) ELSE reg
  /\ End
  /\ UNCHANGED <<made, verified, outside>>

Rebuildable ==
  /\ job.sources # <<>>
  /\ lease.state \in {"ACTIVE", "PR_OPEN"}
  /\ tree.there /\ tree.files = "clean" /\ tree.head = lease.head
  /\ SourcesLive(job.sources)

RebuildCheck ==
  /\ At("check")
  /\ \/ /\ Rebuildable
        /\ job' = [job EXCEPT !.pc = "reset", !.original = lease.head,
                     !.target = IF @ = NoSha THEN target ELSE @]
        /\ UNCHANGED <<reg, made, tree, verified, outside>>
     \/ /\ ~Rebuildable \/ Faulty
        /\ Fail /\ UNCHANGED tree

ResetToTarget ==
  /\ At("reset")
  /\ tree' = [tree EXCEPT !.head = job.target, !.files = "clean"]
  /\ Go("patch")
  /\ UNCHANGED <<reg, made, verified, outside>>

\* What the user has edited by then stays beside the patches.
ApplyPatches ==
  /\ At("patch")
  /\ tree' = [tree EXCEPT !.files = IF @ = "edited" THEN @ ELSE "patched"]
  /\ Go("commit")
  /\ UNCHANGED <<reg, made, verified, outside>>

\* A user's commit made since the reset is in the way: it is in the paths, or
\* has taken the patches.
CommitRebuilt ==
  /\ At("commit") /\ tree.head = job.target
  /\ Commit(job.target, job.sources)
  /\ tree' = [tree EXCEPT !.head = Len(made'), !.files = IF @ = "edited" THEN @ ELSE "clean"]
  /\ job' = [job EXCEPT !.head = Len(made'),
                        !.pc = IF job.command = "add" THEN "accept" ELSE "record"]
  /\ UNCHANGED <<reg, verified, outside>>

\* A conflict, or contents that are not those of the sources.  The reset that
\* is to take the worktree back may fail too.
RollBack ==
  /\ job.pc \in {"patch", "commit", "record"}
  /\ Faulty \/ (At("commit") /\ tree.head # job.target)
  /\ tree' = [tree EXCEPT !.head = job.original, !.files = "clean"] \/ (Faulty /\ UNCHANGED tree)
  /\ Fail

Record ==
  /\ At("record")
  /\ CanTransition(reg, Bridge, lease.version)
  /\ reg' = Transition(reg, Bridge, [lease EXCEPT !.head = job.head,
                                                  !.base = job.target])
  /\ IF job.command = "again" THEN End ELSE Go("verify")
  /\ UNCHANGED <<made, tree, verified, outside>>

\* The gates run over what is in the worktree, and only look for files that
\* are not committed.  A gate that fails takes the worktree back to the
\* recorded head (_release_gate_blocked); git or the file system failing under
\* it takes the worktree back to the head from before, which the row no longer
\* has; or the reset fails too.
Verify ==
  /\ At("verify")
  /\ \/ /\ tree.files = "clean"
        /\ verified' = verified \cup {tree.head}
        /\ Go("drift")
        /\ UNCHANGED tree
     \/ /\ Faulty \/ tree.files # "clean"
        /\ \/ \E head \in {lease.head, job.original} :
                tree' = [tree EXCEPT !.head = head, !.files = "clean"]
           \/ Faulty /\ UNCHANGED tree
        /\ End
        /\ UNCHANGED verified
  /\ UNCHANGED <<reg, made, outside>>

\* Mutant: the new production commit is recorded, not verified.
DriftNoted ==
  /\ At("drift")
  /\ job' = [job EXCEPT !.pc = "sealed", !.target = target]
  /\ UNCHANGED <<reg, made, tree, verified, outside>>

\* _verify_release_bridge_live: production moved meanwhile, so once more.
Drift ==
  /\ At("drift")
  /\ IF target = job.target
     THEN Go("sealed") /\ UNCHANGED <<reg, made, tree, verified, outside>>
     ELSE IF job.attempt = 1
     THEN /\ job' = [job EXCEPT !.pc = "check", !.attempt = 2,
                                !.target = target]
          /\ UNCHANGED <<reg, made, tree, verified, outside>>
     ELSE Stop

-----------------------------------------------------------------------------
(* seal *)

\* Whether a source is pending is asked before the lock is taken, and so is
\* no obstacle here; the write at the end asks again.
Seal ==
  /\ At("seal") /\ release # NoRelease
  /\ release.state = "OPEN"
  /\ job' = [job EXCEPT !.pc = "check", !.sources = release.sources]
  /\ UNCHANGED <<reg, made, tree, verified, outside>>

SealRefused ==
  /\ At("seal")
  /\ IF release = NoRelease THEN TRUE ELSE release.state # "OPEN"
  /\ Stop

Sealed ==
  /\ At("sealed")
  /\ IF CanTransitionRelease(reg, Bridge, release.version, "SEALED")
     THEN /\ reg' = TransitionRelease(reg, Bridge, "SEALED", job.target)
          /\ IF job.command = "publish" THEN Go("ready") ELSE End
          /\ UNCHANGED <<made, tree, verified, outside>>
     ELSE Stop

-----------------------------------------------------------------------------
(* publish *)

Publish ==
  /\ At("publish")
  /\ IF release = NoRelease THEN Stop
     ELSE IF release.state # "SEALED" \/ remote \notin {NoSha, lease.head}
     THEN Stop
     ELSE /\ job' = [job EXCEPT !.pc = "find", !.remote = remote,
                                !.target = target, !.sources = release.sources]
          /\ UNCHANGED <<reg, made, tree, verified, outside>>

\* A publication that got as far as its pull request, and was merged.
MergedAlready ==
  /\ pull.state = "MERGED"
  /\ pull.base = release.verified /\ pull.head = lease.head

FindPull ==
  /\ At("find")
  /\ IF ~SourcesLive(job.sources) \/ pull.state = "CLOSED" THEN Stop
     ELSE IF pull.state = "MERGED"
     THEN IF MergedAlready /\ CanPublish(reg, Bridge, release.version,
                                         lease.version, TargetPr)
          THEN /\ reg' = PublishRelease(reg, Bridge, TargetPr, lease.head,
                                        pull.base)
               /\ End /\ UNCHANGED <<made, tree, verified, outside>>
          ELSE Stop
     ELSE IF job.target # release.verified
     THEN Go("check") /\ UNCHANGED <<reg, made, tree, verified, outside>>
     ELSE IF tree.there /\ tree.head = lease.head /\ tree.files = "clean"
     THEN Go("ready") /\ UNCHANGED <<reg, made, tree, verified, outside>>
     ELSE Stop

PublishReady ==
  /\ At("ready")
  /\ IF target = job.target /\ SourcesLive(job.sources)
     THEN Go("push") /\ UNCHANGED <<reg, made, tree, verified, outside>>
     ELSE Stop

\* push_branch, and push_branch_if_at, which compares on the server.  What is
\* pushed is HEAD of the worktree, which nothing has compared since.
PushBranch ==
  /\ At("push")
  /\ \/ /\ remote = job.remote
        /\ remote' = IF job.remote = lease.head THEN remote ELSE tree.head
        /\ pull' = IF pull.state = "OPEN"
                     THEN [pull EXCEPT !.head = remote', !.base = target]
                     ELSE pull
        /\ Go("pull")
     \/ /\ remote # job.remote \/ Faulty
        /\ End
        /\ UNCHANGED <<remote, pull>>
  /\ UNCHANGED <<reg, made, tree, target, live, verified, drifts, edits,
                 crashes>>

OpenPull ==
  /\ At("pull")
  /\ pull' = IF pull.state = "NONE"
               THEN [state |-> "OPEN", head |-> remote, base |-> target]
               ELSE pull
  /\ Go("write")
  /\ UNCHANGED <<reg, made, tree, remote, target, live, verified, drifts,
                 edits, crashes>>

PublishFails == job.pc \in {"find", "ready", "pull"} /\ Faulty /\ Stop

ExactPull ==
  /\ pull.state \in {"OPEN", "MERGED"}
  /\ pull.base = job.target
  /\ pull.head = lease.head

PublishWrite ==
  /\ At("write")
  /\ IF ExactPull /\ CanPublish(reg, Bridge, release.version, lease.version,
                                TargetPr)
     THEN /\ reg' = PublishRelease(reg, Bridge, TargetPr, lease.head,
                                   job.target)
          /\ End /\ UNCHANGED <<made, tree, verified, outside>>
     ELSE Stop

-----------------------------------------------------------------------------
(* Deaths, users and GitHub. *)

Crash ==
  /\ job # NoJob
  /\ crashes < MaxCrashes
  /\ crashes' = crashes + 1
  /\ End
  /\ UNCHANGED <<reg, made, tree, remote, target, pull, live, verified,
                 drifts, edits>>

inside == <<reg, tree, verified, job, crashes>>

Edited == edits < MaxEdits /\ edits' = edits + 1

TargetMoves ==
  /\ drifts < MaxDrift
  /\ drifts' = drifts + 1
  /\ Commit(target, <<>>)
  /\ target' = Len(made')
  /\ UNCHANGED <<remote, pull, live, edits, inside>>

SourceChanges ==
  /\ Edited
  /\ \E source \in live : live' = live \ {source}
  /\ UNCHANGED <<made, remote, target, pull, drifts, inside>>

UserEdit ==
  /\ tree.there /\ tree.files # "edited"
  /\ Edited
  /\ tree' = [tree EXCEPT !.files = "edited"]
  /\ UNCHANGED <<reg, made, remote, target, pull, live, verified, job, drifts,
                 crashes>>

\* A commit of the user's own in the managed worktree, of whatever is there.
UserCommit ==
  /\ tree.there /\ Len(made) + 1 \in Sha
  /\ Edited
  /\ made' = Append(made, [base |-> NoSha, sources |-> <<>>, on |-> Under(tree.head)])
  /\ tree' = [tree EXCEPT !.head = Len(made'), !.files = "clean"]
  /\ UNCHANGED <<reg, remote, target, pull, live, verified, job, drifts, crashes>>

\* The user takes such a commit back.
UserUndo ==
  /\ tree.there /\ Under(tree.head) # tree.head
  /\ tree' = [tree EXCEPT !.head = Under(@), !.files = "clean"]
  /\ UNCHANGED <<reg, made, verified, job, outside>>

MergePull ==
  /\ pull.state = "OPEN"
  /\ Commit(target, <<>>)
  /\ pull' = [pull EXCEPT !.state = "MERGED"]
  /\ target' = Len(made')
  /\ UNCHANGED <<remote, live, drifts, edits, inside>>

ClosePull ==
  /\ pull.state \in {"OPEN", "CLOSED"}
  /\ Edited
  /\ pull' = [pull EXCEPT !.state = IF @ = "OPEN" THEN "CLOSED" ELSE "OPEN"]
  /\ UNCHANGED <<made, remote, target, live, drifts, inside>>

-----------------------------------------------------------------------------
Work ==
  \/ OpenNew \/ OpenAgain \/ AddWorktree
  \/ AddAgain \/ AddStage \/ AddRefused \/ Recover \/ Accept
  \/ RebuildCheck \/ ResetToTarget \/ ApplyPatches \/ CommitRebuilt
  \/ RollBack \/ Record \/ Verify \/ Drift
  \/ Seal \/ SealRefused \/ Sealed
  \/ Publish \/ FindPull \/ PublishReady \/ PushBranch \/ OpenPull
  \/ PublishFails \/ PublishWrite

World ==
  \/ TargetMoves \/ SourceChanges \/ MergePull \/ ClosePull
  \/ UserEdit \/ UserCommit \/ UserUndo

Next == Start \/ Work \/ Crash \/ World

Spec == Init /\ [][Next]_vars

-----------------------------------------------------------------------------
(* Type correctness of the rows, the worktree and the published state of a *)
(* release (registry.py and service.py).                                   *)
TypeOK ==
  /\ reg \in Registry
  /\ made \in Seq([base : Sha \cup {NoSha}, sources : Seq(Source), on : Sha \cup {NoSha}])
  /\ tree \in [there : BOOLEAN, head : Sha \cup {NoSha},
               files : {"clean", "patched", "edited"}]
  /\ remote \in Sha \cup {NoSha} /\ target \in Sha
  /\ pull \in [state : {"NONE", "OPEN", "MERGED", "CLOSED"},
               head : Sha \cup {NoSha}, base : Sha \cup {NoSha}]
  /\ live \subseteq Source /\ verified \subseteq Sha

(* The gates have run over a commit, or over what a user had put on top.   *)
GatesPassed(c) == \E d \in verified : Under(d) = c

(* Nothing leaves the machine but a commit made of exactly the sources the *)
(* release has sealed, over which the production gates have passed, or a   *)
(* user's commit on top of one, made after publish last compared HEAD      *)
(* (service.py:2513) and before it pushed HEAD (git.py:1345): the pull     *)
(* request then has the wrong head and is not recorded.  A published       *)
(* release names a commit of its own, never a user's, and the production   *)
(* commit it was verified on.  The gates ran over that very commit, unless *)
(* a user had committed on top of it when they did (service.py:9636 looks  *)
(* for files, not at HEAD) and took that commit back afterwards.           *)
OnlyVerifiedLeaves ==
  /\ remote # NoSha =>
       /\ GatesPassed(Under(remote))
       /\ made[Under(remote)].sources = release.sources
       /\ release.state \notin {"OPEN"}
  /\ release # NoRelease /\ release.state = "PUBLISHED" =>
       /\ made[release.published].on = NoSha
       /\ GatesPassed(release.published)
       /\ made[release.published].sources = release.sources
       /\ made[release.published].base = release.verified

(* The registered head of a bridge is built from its accepted sources, in  *)
(* their order, through every crash: a staged source that was not accepted *)
(* is never in it.                                                         *)
HeadHasSources ==
  release # NoRelease =>
    /\ made[lease.head].sources = release.sources
    /\ release.sources # <<>> => made[lease.head].base = lease.base

=============================================================================
