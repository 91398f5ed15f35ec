------------------------- MODULE PinnedBranchProofs -------------------------
(***************************************************************************)
(* What `awf wt sync` and `awf wt promote` keep of a pinned branch, for    *)
(* any number of commits, users' edits, moves of the pinned branches and   *)
(* deaths: what is ready is verified, a recorded conflict stays there, and *)
(* no commit of the user's is lost.                                        *)
(***************************************************************************)
EXTENDS PinnedBranches, WellFoundedInduction, TLAPS

Newest == Len(made)

Commits == 1..Newest

How(c) == made[c].how

\* Commits of the commands; the others are the user's and the target's.
Automatic == {"delta", "manual", "unreviewed"}

Commit == [base : Sha \cup {NoSha}, of : Source \cup {NoSource}, patches : 0..Patches,
           how : {"target", "delta", "manual", "unreviewed", "user"}]

Steps ==
  {"sync", "recover", "discard", "promote", "amend", "abandon", "resume", "reuse",
   "sources", "worktree", "lease", "apply", "conflict", "commit", "verify", "record",
   "check", "push", "drift", "pull", "exact", "noop", "hold", "held", "removed",
   "complete", "delete", "normalize", "remove", "discard_recover", "stage", "final",
   "merge", "recovered", "rebuild", "reset", "rebuilt", "unrecorded", "publish",
   "conflicted", "stage_all", "remaining", "resolved", "resolution", "manual",
   "amending", "amended"}

Job == [pc : Steps,
        command : {"sync", "recover", "discard", "promote", "amend", "abandon", "resume"},
        source : Source, target : Sha, head : Sha \cup {NoSha}]

TypesInv ==
  /\ TypeOK
  /\ made \in Seq(Commit) /\ Newest >= 1 /\ Commits \subseteq Sha
  /\ job \in Job \cup {NoJob}
  /\ crashes \in Nat

Open == lease # NoLease /\ lease.state \in {"ACTIVE", "BLOCKED"}

\* The user's commit on a branch.
Users(c) == c # NoSha /\ How(c) = "user"

\* What the lease promises of a commit it publishes.
Content(c) ==
  made[c].base = lease.target /\ made[c].of = lease.source /\ How(c) \in Automatic

\* The commits there are.  The sources of a promotion never move.
MadeInv ==
  /\ target \in Commits /\ How(target) = "target"
  /\ \A c \in Commits : How(c) \in Automatic =>
       /\ made[c].patches = Patches /\ made[c].base \in Commits
       /\ kind # "sync" => made[c].of = source

\* The target as the running command, or the next one, has read it.
Seen == IF job = NoJob THEN target ELSE job.target

OnTarget(c) == How(c) \in Automatic /\ How(made[c].base) = "target"

Strict(c) ==
  /\ How(c) = "target" => c = lease.target
  /\ OnTarget(c) => made[c].base = lease.target

\* A rebuild on a later target died before it was recorded, or could not be
\* taken back.
Rebuilt(base) ==
  /\ lease.state = "BLOCKED"
  /\ lease.why \in {"staging_missing", "restore_failed"}
       \/ (OutOfOrder /\ lease.why = "verify_failed" /\ lease.target < base)

\* A promotion's branch is on its lease's target, or was rebuilt on a later one.
Placed(c) ==
  /\ How(c) = "target" => c = lease.target \/ Rebuilt(c)
  /\ OnTarget(c) => /\ made[c].base = lease.target \/ Rebuilt(made[c].base)
                    /\ made[c].base <= Seen

TipInv ==
  /\ Tip \in Commits \cup {NoSha}
  /\ Live => Tip # NoSha
  /\ kind # "sync" /\ Live => Placed(Tip)

\* What a row says for itself.
RowInv ==
  /\ lease # NoLease =>
       /\ lease.head \in Commits /\ lease.target \in Commits
       /\ How(lease.target) = "target" /\ lease.target <= Seen
  /\ Live /\ kind # "sync" =>
       /\ lease.source = source
       /\ lease.resolution = "PENDING" =>
            OutOfOrder /\ lease.state = "BLOCKED" /\ lease.why = "conflict"
       /\ lease.why = "publish_pending" => Content(lease.head)
       /\ lease.state = "ACTIVE" /\ lease.why # "publish_pending" =>
            lease.head = lease.target
  /\ reserved # NoSha => reserved \in Commits /\ How(reserved) = "target"

\* Only what was verified, or the user's own, is on origin.
OriginInv ==
  /\ remote \in Commits \cup {NoSha}
  /\ remote # NoSha => remote \in verified \/ How(remote) = "user"
  /\ pull.state = "OPEN" => pull.head = remote

Tree == [of : Source, there : BOOLEAN, tip : Sha \cup {NoSha},
         files : {"clean", "patched", "conflict", "resolving", "marked", "staged", "dirty"},
         applied : 0..Patches]

Starting == {"none", "sync", "promote", "recover", "discard", "amend", "abandon",
             "resume", "reuse"}

Creating == {"sources", "worktree", "lease"}

\* What the running command has read by the step it is at.
JobRead ==
  job # NoJob =>
    /\ job.target \in Commits /\ How(job.target) = "target" /\ job.target <= target
    /\ job.head \in Commits \cup {NoSha}
    /\ kind # "sync" => job.source = source

\* At which of its steps a command has a lease, and in which state.
LeaseAt(pc) ==
  /\ pc \in Creating => ~Live
  /\ pc \in {"resume", "reuse"} => Live
  /\ pc \in {"sync", "resume", "noop", "recover", "discard",
             "stage", "final", "merge", "recovered"} => kind = "sync"
  /\ pc \in {"promote", "sources", "reuse", "abandon"} => kind # "sync"
  /\ pc = "amend" => lease # NoLease
  /\ pc = "delete" => lease # NoLease /\ ~Live
  /\ pc \notin Starting \cup Creating \cup {"delete"} => Open
  /\ pc = "conflict" =>
       /\ lease.state = "ACTIVE" \/ (OutOfOrder /\ lease.resolution = "PENDING")
       /\ kind # "sync" => tree.applied < Patches
  /\ pc \in {"apply", "commit"} =>
       lease.state = "ACTIVE" /\ lease.source = job.source /\ lease.target = job.target
  /\ pc \in {"verify", "record", "check", "push", "drift", "pull", "exact"} /\ kind # "sync" =>
       lease.state = "ACTIVE"
  /\ pc \in {"stage", "final", "merge"} => lease.source = job.source
  /\ pc \in {"conflicted", "stage_all", "remaining", "resolved", "resolution"} =>
       OutOfOrder /\ lease.resolution = "PENDING"
  /\ pc \in {"rebuild", "reset", "rebuilt"} =>
       /\ kind # "sync" /\ lease.state = "BLOCKED"
       /\ lease.why = "staging_missing"
            \/ (OutOfOrder /\ lease.why = "verify_failed" /\ lease.target < job.target)
  /\ pc \in {"amend", "amending", "amended"} => OutOfOrder
  /\ pc \in {"manual", "amending", "amended"} =>
       /\ kind # "sync"
       /\ lease.state = "BLOCKED" /\ lease.resolution = "MANUAL_REVIEWED"
  /\ pc = "publish" => kind # "sync" /\ lease.state = "ACTIVE" /\ Content(lease.head)
  /\ pc = "unrecorded" =>
       kind # "sync" /\ (lease.state = "ACTIVE" => lease.head = lease.target)

\* What it knows of the branch, though the user may commit at any time.
TipAt(pc, head) ==
  /\ pc = "lease" => Tip = job.target \/ Users(Tip)
  /\ pc \in {"verify", "record", "check", "push", "drift", "pull", "exact", "recovered"} =>
       head # NoSha /\ Content(head)
  /\ pc \in {"record", "check", "push"} => Tip \in verified \/ Users(Tip)
  /\ pc \in {"hold", "held", "removed", "complete", "normalize", "remove",
              "discard_recover"} => reserved # NoSha
  /\ pc = "delete" => head # NoSha /\ How(head) = "target"
  /\ pc \in {"reset", "rebuilt"} =>
       head # NoSha /\ How(head) \in Automatic /\ Placed(lease.head)
  /\ pc = "rebuilt" =>
       /\ How(Tip) # "target"
       /\ OnTarget(Tip) => made[Tip].base = job.target
  /\ pc = "unrecorded" => Strict(Tip)
  /\ pc = "resolution" =>
       /\ head # NoSha /\ How(head) \in Automatic
       /\ Tip = head \/ (Users(Tip) /\ Tip # head)
  /\ pc \in {"manual", "rebuild"} => How(Tip) \in Automatic \/ (Users(Tip) /\ Tip # lease.head)
  /\ pc = "amending" =>
       /\ tree.there /\ tree.files # "clean"
       /\ How(Tip) \in Automatic /\ made[Tip].base = lease.target
  /\ pc = "amended" => head # NoSha /\ Strict(Tip)

JobInv == JobRead /\ LeaseAt(job.pc) /\ (job # NoJob => TipAt(job.pc, job.head))

\* The lease of a recorded target conflict.
Marked == Live /\ lease.state = "BLOCKED" /\ lease.why = "target_conflict"

Kept == tree.there /\ Unmerged

Staged == tree.files \in {"marked", "staged"}

Resolvable == tree.there /\ (Unmerged \/ Staged \/ How(Tip) \in {"manual", "user"})

\* Where the conflict is while commands work on it, and die.
ConflictAt(pc) ==
  /\ Marked => lease.head = lease.target
  /\ Marked /\ reserved = NoSha => Resolvable
  /\ pc \in {"stage", "conflict"} => Kept
  /\ pc \in {"apply", "conflict"} => lease.head = lease.target
  /\ pc = "final" => tree.there /\ Staged
  /\ pc = "merge" => tree.there /\ tree.files = "staged"
  /\ pc \in {"normalize", "remove"} => tree.there
  /\ pc \in {"hold", "held"} /\ Marked => Kept
  /\ pc \in {"noop", "removed", "verify", "check", "push", "drift", "pull", "exact"} => ~Marked

ConflictInv == kind = "sync" => ConflictAt(job.pc)

PinnedInv ==
  TypesInv /\ MadeInv /\ TipInv /\ RowInv /\ OriginInv /\ JobInv /\ ReadyMeansVerified

-----------------------------------------------------------------------------
(* Steps that leave the commits, origin and the world alone. *)

\* A step of the running command to another of its steps.
Moves(pc, head) ==
  /\ job' \in Job /\ job'.pc = pc /\ job'.head = head
  /\ job'.source = job.source /\ job'.target = job.target

LEMMA InStep ==
  ASSUME TypesInv, job.pc # "none"
  PROVE  job \in Job /\ job # NoJob
BY DEF TypesInv, NoJob

LEMMA Going ==
  ASSUME TypesInv, job.pc # "none", NEW pc \in Steps, Go(pc)
  PROVE  Moves(pc, job.head)
<1>1. job \in Job
  BY InStep
<1> QED BY <1>1 DEF Go, Moves, Job

\* Heads of commits may be noted on the way.
LEMMA Noting ==
  ASSUME TypesInv, job.pc # "none", NEW pc \in Steps, NEW head \in Sha,
         job' = [job EXCEPT !.pc = pc, !.head = head]
  PROVE  Moves(pc, head)
<1>1. job \in Job
  BY InStep
<1> QED BY <1>1 DEF Moves, Job

LEMMA Ending ==
  ASSUME End
  PROVE  LeaseAt(job.pc)' /\ job' = NoJob
BY DEF End, NoJob, LeaseAt, Starting, Creating

\* The types after a step of a command that makes no commit.
LEMMA SameTypes ==
  ASSUME TypesInv, UNCHANGED <<made, origin, world>>, job' \in Job \cup {NoJob},
         lease' \in Lease \cup {NoLease}, reserved' \in Sha \cup {NoSha}, tree' \in Tree,
         verified' \subseteq Sha
  PROVE  TypesInv'
BY DEF TypesInv, TypeOK, Tree, Newest, Commits, origin, world, Commit

\* What a running command has read stays true as it goes on, and is forgotten at its end.
LEMMA ReadKept ==
  ASSUME PinnedInv, UNCHANGED <<made, world>>, job # NoJob,
         \/ job' = NoJob
         \/ \E pc \in Steps, head \in Commits \cup {NoSha} : Moves(pc, head)
  PROVE  JobRead' /\ Seen <= Seen'
<1>1. job.target <= target /\ job.target \in Nat /\ target \in Nat
  BY PinnedAssumption DEF PinnedInv, JobInv, JobRead, MadeInv, TypesInv, Commits
<1>2. CASE job' = NoJob
  BY <1>1, <1>2 DEF JobRead, Seen, world
<1>3. ASSUME NEW pc \in Steps, NEW head \in Commits \cup {NoSha}, Moves(pc, head)
      PROVE  JobRead' /\ Seen <= Seen'
  <2>1. JobRead'
    BY <1>3 DEF PinnedInv, JobInv, JobRead, Moves, world, Commits, Newest, How
  <2>2. job' # NoJob => Seen' = Seen
    BY <1>3 DEF Seen, Moves
  <2> QED BY <1>1, <2>1, <2>2 DEF Seen, world
<1> QED BY <1>2, <1>3

\* Only a commit of the target is ever reserved.
Reserving ==
  \/ reserved' = reserved \/ reserved' = NoSha
  \/ reserved' \in Commits /\ How(reserved') = "target"

\* All else, when the lease and its branch's tip stay, and origin while it is ready.
LEMMA SameLease ==
  ASSUME PinnedInv, UNCHANGED <<lease, made, kind, source, target>>, Tip' = Tip, Reserving,
         TypesInv', JobInv', OriginInv', Seen <= Seen', verified \subseteq verified',
         Live /\ lease.state = "PR_OPEN" => remote' = remote
  PROVE  PinnedInv'
<1>1. UNCHANGED <<lease, made, kind, source, target>>
  OBVIOUS
<1>2. MadeInv'
  BY <1>1 DEF PinnedInv, MadeInv, Commits, Newest, How
<1>3. Seen \in Nat /\ Seen' \in Nat
  BY PinnedAssumption DEF PinnedInv, TypesInv, Seen, JobInv, JobRead, MadeInv, Commits, TypeOK,
     Job
<1>4. RowInv'
  <2>1. lease # NoLease => lease.target \in Nat
    BY PinnedAssumption DEF PinnedInv, TypesInv, TypeOK, Lease
  <2> QED BY <1>1, <1>3, <2>1 DEF PinnedInv, RowInv, Reserving, Commits, Newest, How, Live, Content,
            OutOfOrder
<1>5. TipInv'
  <2>1. Live /\ kind # "sync" /\ OnTarget(Tip) => made[Tip].base \in Nat
    BY DEF PinnedInv, TipInv, MadeInv, OnTarget, Commits
  <2>2. Placed(Tip) /\ (OnTarget(Tip) => made[Tip].base \in Nat) => Placed(Tip)'
    BY <1>1, <1>3 DEF Placed, OnTarget, How, Rebuilt, OutOfOrder
  <2> QED BY <1>1, <2>1, <2>2 DEF PinnedInv, TipInv, Live, Commits, Newest
<1>6. ReadyMeansVerified'
  BY <1>1 DEF PinnedInv, ReadyMeansVerified, Live
<1> QED BY <1>2, <1>4, <1>5, <1>6 DEF PinnedInv

LEMMA SameRow ==
  ASSUME PinnedInv, UNCHANGED <<lease, made, origin, kind, source, target>>, Tip' = Tip,
         Reserving, TypesInv', JobInv', Seen <= Seen', verified \subseteq verified'
  PROVE  PinnedInv'
<1>1. OriginInv'
  BY DEF PinnedInv, OriginInv, Commits, Newest, How, origin
<1> QED BY <1>1, SameLease DEF origin

LEMMA GoOn ==
  ASSUME PinnedInv, job.pc # "none", NEW pc \in Steps,
         NEW head \in Commits \cup {NoSha}, Moves(pc, head),
         UNCHANGED <<lease, made, origin, world>>, Tip' = Tip, tree' \in Tree, Reserving,
         verified \subseteq verified', verified' \subseteq Sha,
         LeaseAt(pc)', TipAt(pc, head)'
  PROVE  PinnedInv'
<1>1. job # NoJob
  BY InStep DEF PinnedInv
<1>2. JobRead' /\ Seen <= Seen'
  BY <1>1, ReadKept
<1>3. job'.pc = pc /\ job'.head = head /\ job' \in Job
  BY DEF Moves
<1>4. JobInv'
  BY <1>2, <1>3 DEF JobInv
<1>5. TypesInv'
  BY <1>3, SameTypes DEF PinnedInv, TypesInv, TypeOK, Reserving
<1> QED BY <1>2, <1>4, <1>5, SameRow DEF world

LEMMA PlainGo ==
  ASSUME PinnedInv, job.pc # "none", NEW pc \in Steps, Go(pc), UNCHANGED vars_,
         LeaseAt(pc), TipAt(pc, job.head)
  PROVE  PinnedInv'
<1>1. Moves(pc, job.head) /\ job.head \in Commits \cup {NoSha}
  BY Going, InStep DEF PinnedInv, JobInv, JobRead
<1>2. UNCHANGED <<lease, made, origin, world, tree, reserved, verified, kind>>
  BY DEF vars_, world
<1>3. LeaseAt(pc)'
  BY <1>1, <1>2 DEF LeaseAt, Live, Open, OutOfOrder, Content, How, Moves
<1>4. Seen' = Seen /\ Tip' = Tip
  BY <1>1, <1>2 DEF Seen, NoJob, Moves, Job, Tip
<1>5. TipAt(pc, job.head)'
  BY <1>1, <1>2, <1>4 DEF TipAt, Users, How, Content, Placed, OnTarget, Rebuilt, OutOfOrder,
     Strict, Moves
<1>6. tree' \in Tree /\ verified \subseteq verified' /\ verified' \subseteq Sha
  BY <1>2 DEF PinnedInv, TypesInv, TypeOK, Tree
<1>7. UNCHANGED <<lease, made, origin, world>> /\ Reserving
  BY <1>2 DEF Reserving
<1> QED BY <1>1, <1>3, <1>4, <1>5, <1>6, <1>7, GoOn DEF Moves

\* A command that ends and leaves the lease as it is.
LEMMA Quitting ==
  ASSUME PinnedInv, job.pc # "none", End, UNCHANGED <<lease, made, origin, world>>,
         Tip' = Tip, tree' \in Tree, Reserving, verified \subseteq verified', verified' \subseteq Sha
  PROVE  PinnedInv'
<1>1. job # NoJob
  BY InStep DEF PinnedInv
<1>2. JobRead' /\ Seen <= Seen'
  BY <1>1, ReadKept DEF End
<1>3. JobInv'
  BY <1>2, Ending DEF JobInv
<1>4. TypesInv'
  BY SameTypes DEF PinnedInv, TypesInv, TypeOK, Reserving, End
<1> QED BY <1>2, <1>3, <1>4, SameRow DEF world

LEMMA Stopping ==
  ASSUME PinnedInv, job.pc # "none", Stop
  PROVE  PinnedInv'
<1>1. tree \in Tree /\ verified \subseteq Sha
  BY DEF PinnedInv, TypesInv, TypeOK, Tree
<1> QED BY <1>1, Quitting DEF Stop, vars_, Reserving, Tip

LEMMA Beginning ==
  ASSUME PinnedInv,
         NEW command \in {"sync", "promote", "recover", "discard", "amend", "abandon"},
         NEW kinds, Begin(command, kinds),
         command = "amend" => lease # NoLease /\ kinds = {"outOfOrder"},
         command \in {"sync", "recover", "discard"} => kinds = {"sync"},
         command \in {"promote", "abandon"} => kinds \subseteq Promotions
  PROVE  PinnedInv'
<1> DEFINE begun == [pc |-> command, command |-> command, source |-> source,
                     target |-> target, head |-> NoSha]
<1>1. /\ job = NoJob /\ job' \in Job /\ job'.pc = command /\ job'.head = NoSha
      /\ job'.target = target /\ job'.source = source
  <2>1. source \in Source /\ target \in Sha
    BY DEF PinnedInv, TypesInv, TypeOK
  <2>2. begun \in Job
    BY <2>1 DEF Job, Steps
  <2> QED BY <2>2 DEF Begin
<1>2. UNCHANGED <<lease, made, origin, world, tree, reserved, verified, kind, source, target>>
  BY DEF Begin, vars_, world
<1>3. TypeOK /\ TypesInv
  BY DEF PinnedInv, TypesInv
<1>4. target \in Nat /\ target \in Commits /\ How(target) = "target"
  BY DEF PinnedInv, MadeInv, Commits
<1>5. Seen <= Seen'
  BY <1>1, <1>4 DEF Seen, NoJob
<1>6. JobRead'
  BY <1>1, <1>2, <1>4 DEF JobRead, How, Commits, Newest
<1>7. LeaseAt(command)'
  <2>1. command \in {"sync", "recover", "discard"} => kind = "sync"
    BY DEF Begin
  <2>2. command = "amend" => lease # NoLease /\ kind = "outOfOrder"
    BY DEF Begin
  <2>4. command \in {"promote", "abandon"} => kind # "sync"
    BY DEF Begin, Promotions
  <2>3. /\ command \in Starting \ {"resume", "reuse"}
        /\ command \notin Creating \cup {"resume", "reuse", "delete"}
    BY DEF Starting, Creating
  <2> QED BY <1>2, <2>1, <2>2, <2>3, <2>4 DEF LeaseAt, OutOfOrder, Starting, Creating
<1>8. TipAt(command, NoSha)'
  BY DEF TipAt
<1>9. JobInv'
  BY <1>1, <1>6, <1>7, <1>8 DEF JobInv
<1>10. TypesInv'
  BY <1>1, <1>2, <1>3, SameTypes DEF Tree, TypeOK
<1> QED BY <1>2, <1>5, <1>9, <1>10, SameRow DEF Reserving, Tip

LEMMA Now ==
  ASSUME PinnedInv
  PROVE  /\ tree \in Tree /\ verified \subseteq Sha /\ kind \in Kind
         /\ job.pc # "none" => job \in Job /\ job.head \in Commits \cup {NoSha}
         /\ Seen \in Nat
<1>1. Seen \in Nat
  BY PinnedAssumption DEF PinnedInv, TypesInv, Seen, TypeOK, Job
<1> QED BY <1>1, PinnedAssumption, InStep DEF PinnedInv, TypesInv, TypeOK, Tree, JobInv, JobRead

LEMMA Trees ==
  ASSUME NEW of \in Source
  PROVE  NoTree(of) \in Tree /\ NoTree(of).tip = NoSha
BY PinnedAssumption DEF NoTree, Tree

-----------------------------------------------------------------------------
(* Steps that write the row. *)

LEMMA OpenRow ==
  ASSUME PinnedInv, Open
  PROVE  /\ lease \in Lease /\ Live /\ lease # NoLease
         /\ lease.head \in Commits /\ lease.target \in Commits /\ Tip \in Commits
         /\ lease.head \in Sha /\ lease.target \in Sha /\ Tip \in Sha
BY DEF PinnedInv, TypesInv, TypeOK, Open, RowInv, TipInv, Live

LEMMA NewRow ==
  ASSUME PinnedInv, UNCHANGED <<made, origin, world>>, TypesInv', RowInv', TipInv', JobInv',
         ReadyMeansVerified', verified \subseteq verified'
  PROVE  PinnedInv'
<1>1. UNCHANGED <<made, remote, pull, kind, source, target>>
  BY DEF origin, world
<1>2. MadeInv'
  BY <1>1 DEF PinnedInv, MadeInv, Commits, Newest, How
<1>3. OriginInv'
  BY <1>1 DEF PinnedInv, OriginInv, Commits, Newest, How
<1> QED BY <1>2, <1>3 DEF PinnedInv

Blockings ==
  {"target_conflict", "apply_failed", "prepare_failed", "prepare_dirty", "verify_failed",
   "changed", "commit_mismatch", "head_mismatch", "branch_changed", "pr_mismatch",
   "not_noop", "staging_missing", "delta_mismatch"}

\* The row of a lease that gets blocked; promotions record the head there is.
BlockedRow(row, why) ==
  \/ row = Blocked(why)
  \/ row = IF lease.state = "BLOCKED" THEN lease ELSE [Blocked(why) EXCEPT !.head = Tip]

LEMMA BlockedRows ==
  ASSUME PinnedInv, Open, NEW why \in Blockings, NEW row, BlockedRow(row, why)
  PROVE  /\ row \in Lease /\ row.state = "BLOCKED" /\ row.head \in Commits
         /\ row.source = lease.source /\ row.target = lease.target
         /\ row.resolution = lease.resolution
         /\ row = lease \/ (lease.state = "ACTIVE" /\ row.why = why)
<1>1. /\ lease \in Lease /\ Tip \in Sha /\ Tip \in Commits /\ lease.head \in Commits
      /\ lease.state \in {"ACTIVE", "BLOCKED"}
  BY OpenRow DEF Open
<1>2. CASE lease.state = "BLOCKED"
  BY <1>1, <1>2 DEF BlockedRow, Blocked
<1>3. CASE lease.state = "ACTIVE"
  <2>1. row = [lease EXCEPT !.state = "BLOCKED", !.why = why]
          \/ row = [lease EXCEPT !.state = "BLOCKED", !.why = why, !.head = Tip]
    BY <1>1, <1>3 DEF BlockedRow, Blocked, Lease
  <2> QED BY <1>1, <1>3, <2>1 DEF Lease, Blockings
<1> QED BY <1>1, <1>2, <1>3

LEMMA Blocking ==
  ASSUME PinnedInv, Open, job.pc # "none", End, NEW why \in Blockings,
         BlockedRow(lease', why),
         UNCHANGED <<made, origin, world, verified, reserved>>, Tip' = Tip, tree' \in Tree
  PROVE  PinnedInv'
<1> DEFINE row == lease'
<1>1. /\ row \in Lease /\ row.state = "BLOCKED" /\ row.head \in Commits
      /\ row.source = lease.source /\ row.target = lease.target
      /\ row.resolution = lease.resolution
      /\ row = lease \/ (lease.state = "ACTIVE" /\ row.why = why)
  BY BlockedRows
<1>2. UNCHANGED <<made, remote, pull, kind, source, target>>
  BY DEF origin, world
<1>3. lease \in Lease /\ Live /\ lease # NoLease /\ row # NoLease
  BY <1>1, OpenRow, PinnedAssumption
<1>4. JobRead' /\ Seen <= Seen' /\ LeaseAt(job.pc)' /\ job' = NoJob
  BY ReadKept, Ending, InStep DEF End, PinnedInv
<1>5. JobInv'
  BY <1>4 DEF JobInv
<1>6. TypesInv'
  BY <1>1, <1>4, SameTypes DEF PinnedInv, TypesInv, TypeOK
<1>7. Seen \in Nat /\ Seen' \in Nat /\ lease.target \in Nat
  BY <1>2, <1>3, <1>4, PinnedAssumption
     DEF PinnedInv, TypesInv, Seen, JobInv, JobRead, MadeInv, Commits, TypeOK, Job, Lease
<1>8. RowInv'
  <2>1. row.target \in Commits /\ How(row.target) = "target" /\ row.target <= Seen'
    BY <1>1, <1>3, <1>4, <1>7 DEF PinnedInv, RowInv
  <2>2. kind # "sync" => /\ row.source = source
                         /\ row.resolution = "PENDING" => OutOfOrder /\ row.why = "conflict"
                         /\ row.why = "publish_pending" => row = lease
    BY <1>1, <1>3 DEF PinnedInv, RowInv, Blockings
  <2> QED BY <1>1, <1>2, <1>3, <2>1, <2>2
          DEF PinnedInv, RowInv, Commits, Newest, How, Live, Content, OutOfOrder
<1>9. TipInv'
  <2>1. kind # "sync" /\ OnTarget(Tip) => made[Tip].base \in Nat
    BY OpenRow DEF PinnedInv, MadeInv, OnTarget, Commits
  <2>2. Placed(Tip) /\ (OnTarget(Tip) => made[Tip].base \in Nat) => Placed(Tip)'
    BY <1>1, <1>2, <1>4, <1>7 DEF Placed, OnTarget, How, Rebuilt, OutOfOrder
  <2> QED BY <1>2, <1>3, <2>1, <2>2 DEF PinnedInv, TipInv, Live, Commits, Newest
<1>10. ReadyMeansVerified'
  BY <1>1 DEF ReadyMeansVerified
<1> QED BY <1>5, <1>6, <1>8, <1>9, <1>10, NewRow

LEMMA OpenAtResume ==
  ASSUME PinnedInv, At("resume"), lease.state # "PR_OPEN"
  PROVE  Open
<1>1. Live
  BY DEF PinnedInv, JobInv, LeaseAt, At
<1> QED BY <1>1 DEF Live, Open, PinnedInv, TypesInv, TypeOK, Lease

\* Any row that sync writes for its lease, short of PR_OPEN.
LEMMA SyncRow ==
  ASSUME PinnedInv, Open, kind = "sync", job.pc # "none",
         NEW pc \in Steps, NEW head \in Commits \cup {NoSha}, Moves(pc, head),
         lease' \in Lease, lease'.state \in {"ACTIVE", "BLOCKED"},
         lease'.target = lease.target, lease'.head \in Commits,
         UNCHANGED <<made, origin, world, verified, reserved>>, Tip' = Tip, tree' \in Tree,
         LeaseAt(pc)', TipAt(pc, head)'
  PROVE  PinnedInv'
<1>1. lease \in Lease /\ lease # NoLease /\ lease' # NoLease /\ Live
  BY OpenRow, PinnedAssumption
<1>2. UNCHANGED <<made, remote, pull, kind, source, target>>
  BY DEF origin, world
<1>3. JobRead' /\ Seen <= Seen' /\ job' \in Job
  BY ReadKept, InStep DEF Moves, PinnedInv
<1>4. JobInv'
  BY <1>3 DEF JobInv, Moves
<1>5. TypesInv'
  BY <1>3, SameTypes DEF PinnedInv, TypesInv, TypeOK
<1>6. Seen' = Seen
  <2>1. job # NoJob /\ job' # NoJob
    BY <1>3, InStep DEF PinnedInv, Job, NoJob, Steps
  <2> QED BY <2>1 DEF Seen, Moves
<1>7. RowInv'
  BY <1>1, <1>2, <1>6 DEF PinnedInv, RowInv, Commits, Newest, How
<1>8. TipInv'
  BY <1>1, <1>2 DEF PinnedInv, TipInv, Live, Commits, Newest
<1>9. ReadyMeansVerified'
  BY DEF ReadyMeansVerified
<1> QED BY <1>4, <1>5, <1>7, <1>8, <1>9, NewRow

\* PR_OPEN, for the head that origin and the pull request have.
LEMMA Opening ==
  ASSUME PinnedInv, At("exact"), End, pull.state = "OPEN", pull.head = job.head,
         lease' = [lease EXCEPT !.state = "PR_OPEN", !.why = "pr_open", !.head = job.head],
         UNCHANGED <<reserved, made, tree, origin, verified, world>>
  PROVE  PinnedInv'
<1>1. Open /\ TipAt("exact", job.head) /\ job.pc # "none" /\ job # NoJob
  BY DEF PinnedInv, JobInv, LeaseAt, At, NoJob, Starting, Creating
<1>2. lease \in Lease /\ lease # NoLease /\ lease.target \in Commits /\ Live
  BY <1>1, OpenRow
<1>3. job.head \in Commits /\ job.head \in Sha /\ Content(job.head)
  BY <1>1, Now DEF TipAt, PinnedInv, TypesInv
<1>4. /\ lease' \in Lease /\ lease'.state = "PR_OPEN" /\ lease'.head = job.head
      /\ lease'.target = lease.target /\ lease'.source = lease.source
      /\ lease'.why = "pr_open" /\ lease'.resolution = lease.resolution
  BY <1>2, <1>3 DEF Lease
<1>5. lease' # NoLease
  BY <1>4, PinnedAssumption
<1>6. UNCHANGED <<made, remote, pull, kind, source, target>> /\ Tip' = Tip
  BY DEF origin, world, Tip
<1>7. JobRead' /\ Seen <= Seen' /\ LeaseAt(job.pc)' /\ job' = NoJob
  BY <1>1, ReadKept, Ending DEF End
<1>8. JobInv'
  BY <1>7 DEF JobInv
<1>9. TypesInv'
  BY <1>4, <1>7, SameTypes, Now DEF PinnedInv, TypesInv, TypeOK
<1>10. Seen \in Nat /\ Seen' \in Nat /\ lease.target \in Nat
  BY <1>2, <1>6, <1>7, PinnedAssumption
     DEF PinnedInv, TypesInv, Seen, JobInv, JobRead, MadeInv, Commits, TypeOK, Job, Lease
<1>11. kind # "sync" => lease.state = "ACTIVE"
  BY DEF PinnedInv, JobInv, LeaseAt, At
<1>12. RowInv'
  <2>1. lease.target <= Seen' /\ How(lease.target) = "target"
    BY <1>2, <1>7, <1>10 DEF PinnedInv, RowInv
  <2>2. kind # "sync" => lease.source = source /\ lease.resolution # "PENDING"
    BY <1>2, <1>11 DEF PinnedInv, RowInv
  <2> QED BY <1>2, <1>3, <1>4, <1>5, <1>6, <2>1, <2>2
          DEF PinnedInv, RowInv, Commits, Newest, How
<1>13. TipInv'
  <2>1. kind # "sync" =>
          /\ OnTarget(Tip) => made[Tip].base = lease.target /\ lease.target \in Nat
          /\ How(Tip) = "target" => Tip = lease.target
    BY <1>2, <1>10, <1>11 DEF PinnedInv, TipInv, Placed, Rebuilt
  <2>2. kind # "sync" => Placed(Tip)'
    BY <1>2, <1>4, <1>6, <1>7, <1>10, <2>1 DEF PinnedInv, TipInv, RowInv, Placed, OnTarget, How
  <2> QED BY <1>2, <1>6, <2>2 DEF PinnedInv, TipInv, Live, Commits, Newest
<1>14. ReadyMeansVerified'
  <2>1. remote = job.head /\ job.head # NoSha /\ How(job.head) \in Automatic
    BY <1>1, <1>3 DEF PinnedInv, OriginInv, TipAt, Content
  <2>2. job.head \in verified
    BY <2>1 DEF PinnedInv, OriginInv, Automatic
  <2>3. made[job.head].patches = Patches
    BY <1>3, <2>1 DEF PinnedInv, MadeInv
  <2> QED BY <1>3, <1>4, <1>6, <2>1, <2>2, <2>3 DEF ReadyMeansVerified, Content
<1> QED BY <1>8, <1>9, <1>12, <1>13, <1>14, NewRow

-----------------------------------------------------------------------------
(* sync. *)

LEMMA SyncBegins ==
  ASSUME PinnedInv, SyncBegin \/ RecoverBegin \/ DiscardBegin
  PROVE  PinnedInv'
<1>1. \E command \in {"sync", "recover", "discard"} : Begin(command, {"sync"})
  BY DEF SyncBegin, RecoverBegin, DiscardBegin
<1> QED BY <1>1, Beginning

LEMMA SyncStarts ==
  ASSUME PinnedInv, SyncStart \/ ResumeNoop \/ RecoverStart
  PROVE  PinnedInv'
<1>1. job.pc \in {"sync", "resume", "recover"} /\ kind = "sync"
  BY DEF SyncStart, ResumeNoop, RecoverStart, At, PinnedInv, JobInv, LeaseAt
<1>2. CASE Stop
  BY <1>1, <1>2, Stopping
<1>3. CASE Go("resume") /\ UNCHANGED vars_ /\ Live
  <2>1. LeaseAt("resume") /\ TipAt("resume", job.head)
    BY <1>1, <1>3 DEF LeaseAt, TipAt, Starting, Creating
  <2> QED BY <1>1, <1>3, <2>1, PlainGo DEF Steps
<1>4. CASE Go("worktree") /\ UNCHANGED vars_ /\ ~Live
  <2>1. LeaseAt("worktree") /\ TipAt("worktree", job.head)
    BY <1>4 DEF LeaseAt, TipAt, Starting, Creating
  <2> QED BY <1>1, <1>4, <2>1, PlainGo DEF Steps
<1>5. CASE Go("noop") /\ UNCHANGED vars_ /\ At("resume") /\ NoopPath
  <2>1. Open
    BY <1>5, OpenAtResume DEF NoopPath
  <2>2. LeaseAt("noop") /\ TipAt("noop", job.head)
    BY <1>1, <2>1 DEF LeaseAt, TipAt, Starting, Creating
  <2> QED BY <1>1, <1>5, <2>2, PlainGo DEF Steps
<1>6. CASE Go("removed") /\ UNCHANGED vars_ /\ At("resume") /\ NoopPath /\ reserved # NoSha
  <2>1. Open
    BY <1>6, OpenAtResume DEF NoopPath
  <2>2. LeaseAt("removed") /\ TipAt("removed", job.head)
    BY <1>6, <2>1 DEF LeaseAt, TipAt, Starting, Creating
  <2> QED BY <1>1, <1>6, <2>2, PlainGo DEF Steps
<1>7. CASE Go("stage") /\ UNCHANGED vars_ /\ Conflicted /\ Pinned
  <2>1. LeaseAt("stage") /\ TipAt("stage", job.head)
    BY <1>1, <1>7 DEF LeaseAt, TipAt, Starting, Creating, Conflicted, Live, Pinned, Open
  <2> QED BY <1>1, <1>7, <2>1, PlainGo DEF Steps
<1> QED BY <1>2, <1>3, <1>4, <1>5, <1>6, <1>7 DEF SyncStart, ResumeNoop, RecoverStart

LEMMA SyncWaits ==
  ASSUME PinnedInv, SyncConflict \/ SyncVerify \/ SyncDrift
  PROVE  PinnedInv'
<1>1. /\ job.pc \in {"conflict", "verify", "drift"} /\ kind = "sync"
      /\ UNCHANGED <<made, origin, world, reserved, tree>>
  BY DEF SyncConflict, SyncVerify, SyncDrift, At
<1>2. Open /\ tree \in Tree /\ verified \subseteq Sha /\ Tip \in Sha
  BY <1>1, Now, OpenRow DEF PinnedInv, JobInv, LeaseAt, Starting, Creating
<1>3. CASE /\ UNCHANGED verified
           /\ \E why \in {"target_conflict", "prepare_failed", "apply_failed",
                          "prepare_dirty", "changed"} : Block(why)
  BY <1>1, <1>2, <1>3, Blocking DEF Block, Blockings, BlockedRow, Tip
<1>4. CASE At("verify") /\ verified' = verified \cup {Tip} /\ Go("check") /\ UNCHANGED lease
  <2>1. Moves("check", job.head) /\ job.head \in Commits \cup {NoSha}
    BY <1>4, Going, Now DEF PinnedInv, Steps, At
  <2>2. LeaseAt("check")'
    BY <1>1, <1>2, <1>4 DEF LeaseAt, Open, Starting, Creating, world
  <2>3. TipAt("verify", job.head)
    BY <1>4 DEF PinnedInv, JobInv, At, NoJob
  <2>4. TipAt("check", job.head)'
    BY <1>1, <1>4, <2>1, <2>3 DEF TipAt, Tip, Content, How, Moves
  <2> QED BY <1>1, <1>2, <1>4, <2>1, <2>2, <2>4, GoOn DEF Reserving, Tip, Steps, Moves
<1>5. CASE At("drift") /\ Go("pull") /\ UNCHANGED <<lease, verified>>
  <2>1. LeaseAt("pull")
    BY <1>1, <1>2 DEF LeaseAt, Starting, Creating
  <2>2. TipAt("drift", job.head)
    BY <1>5 DEF PinnedInv, JobInv, At, NoJob
  <2>3. TipAt("pull", job.head)
    BY <2>2 DEF TipAt
  <2> QED BY <1>1, <1>5, <2>1, <2>3, PlainGo DEF vars_, Steps
<1> QED BY <1>1, <1>3, <1>4, <1>5 DEF SyncConflict, SyncVerify, SyncDrift

LEMMA SyncRechecks ==
  ASSUME PinnedInv, SyncRecheck
  PROVE  PinnedInv'
<1>1. /\ job.pc = "check" /\ kind = "sync"
      /\ UNCHANGED <<made, origin, world, reserved, tree, verified>>
  BY DEF SyncRecheck, At
<1>2. Open /\ tree \in Tree /\ TipAt("check", job.head) /\ lease \in Lease
  BY <1>1, Now, OpenRow DEF PinnedInv, JobInv, LeaseAt, Starting, Creating, NoJob
<1>3. CASE Block("changed")
  BY <1>1, <1>2, <1>3, Blocking DEF Block, Blockings, BlockedRow, Tip
<1>4. CASE Go("push") /\ lease' \in {lease, Pending(job.head)}
  <2>1. Moves("push", job.head) /\ job.head \in Commits /\ job.head \in Sha
    BY <1>1, <1>2, <1>4, Going, Now DEF PinnedInv, Steps, TipAt, TypesInv
  <2>2. /\ lease' \in Lease /\ lease'.state \in {"ACTIVE", "BLOCKED"}
        /\ lease'.target = lease.target /\ lease'.source = lease.source
        /\ lease'.head \in Commits
    BY <1>2, <1>4, <2>1, OpenRow DEF Pending, Lease, Open
  <2>3. LeaseAt("push")'
    BY <1>1, <2>2, PinnedAssumption DEF LeaseAt, Open, Starting, Creating, world
  <2>4. TipAt("push", job.head)'
    BY <1>1, <1>2, <2>1, <2>2 DEF TipAt, Tip, Content, How, Moves, Users
  <2> QED BY <1>1, <1>2, <2>1, <2>2, <2>3, <2>4, SyncRow DEF Steps, Tip, Moves
<1> QED BY <1>1, <1>3, <1>4 DEF SyncRecheck

LEMMA SyncOpens ==
  ASSUME PinnedInv, SyncOpen
  PROVE  PinnedInv'
<1>1. /\ job.pc = "exact" /\ kind = "sync"
      /\ UNCHANGED <<made, origin, world, reserved, tree, verified>>
  BY DEF SyncOpen, At
<1>2. Open /\ tree \in Tree
  BY <1>1, Now DEF PinnedInv, JobInv, LeaseAt, Starting, Creating
<1>3. CASE Block("changed") \/ Block("pr_mismatch")
  BY <1>1, <1>2, <1>3, Blocking DEF Block, Blockings, BlockedRow, Tip
<1>4. CASE ~(Block("changed") \/ Block("pr_mismatch"))
  BY <1>1, <1>4, Opening DEF SyncOpen, ExactPull
<1> QED BY <1>3, <1>4

\* Recording a commit that the row does not have, to verify and to publish it.
LEMMA PendingCommit ==
  ASSUME PinnedInv, Open, kind = "sync", job.pc # "none",
         NEW head \in Commits, Content(head), Moves("verify", head),
         lease' \in {lease, Pending(head)},
         UNCHANGED <<made, origin, world, verified, reserved, tree>>
  PROVE  PinnedInv'
<1>1. lease \in Lease /\ tree \in Tree /\ head \in Sha
  BY Now, OpenRow DEF PinnedInv, TypesInv
<1>2. /\ lease' \in Lease /\ lease'.state \in {"ACTIVE", "BLOCKED"}
      /\ lease'.target = lease.target /\ lease'.source = lease.source
      /\ lease'.head \in Commits
  BY <1>1, OpenRow DEF Pending, Lease, Open
<1>3. LeaseAt("verify")'
  BY <1>2, PinnedAssumption DEF LeaseAt, Open, Starting, Creating, world
<1>4. TipAt("verify", head)'
  BY <1>1, <1>2, PinnedAssumption DEF TipAt, Content, How
<1> QED BY <1>1, <1>2, <1>3, <1>4, SyncRow DEF Steps, Tip

LEMMA CommitsResumed ==
  ASSUME PinnedInv, ResumeCommit
  PROVE  PinnedInv'
<1>1. job.pc = "resume" /\ job.pc # "none"
  BY DEF ResumeCommit, At
<1>2. CASE Stop
  BY <1>1, <1>2, Stopping
<1>3. CASE Resumable /\ ~Stop
  <2>1. Open /\ lease \in Lease /\ lease # NoLease /\ Tip \in Commits
    <3>1. Open
      BY <1>1, <1>3, OpenAtResume DEF Resumable, At
    <3> QED BY <3>1, OpenRow
  <2>2. Content(Tip) /\ Tip \in Sha
    BY <1>3, <2>1 DEF Resumable, IsSyncCommit, Content, How, Automatic, PinnedInv, TypesInv
  <2>3. Moves("verify", Tip)
    <3>1. job \in Job
      BY <1>1, InStep DEF PinnedInv
    <3>2. job' = [job EXCEPT !.pc = "verify", !.command = "resume", !.head = Tip]
      BY <1>3 DEF ResumeCommit
    <3> QED BY <2>2, <3>1, <3>2 DEF Moves, Job, Steps
  <2>4. kind = "sync"
    BY <1>1 DEF PinnedInv, JobInv, LeaseAt
  <2> QED BY <1>1, <1>3, <2>1, <2>2, <2>3, <2>4, PendingCommit DEF ResumeCommit
<1> QED BY <1>2, <1>3 DEF ResumeCommit

LEMMA CommitsRecovered ==
  ASSUME PinnedInv, RecoverRecord
  PROVE  PinnedInv'
<1>1. /\ job.pc = "recovered" /\ job.pc # "none" /\ kind = "sync"
      /\ UNCHANGED <<made, origin, world, reserved, tree, verified>>
  BY DEF RecoverRecord, At, PinnedInv, JobInv, LeaseAt
<1>2. Open /\ tree \in Tree /\ TipAt("recovered", job.head)
  BY <1>1, Now DEF PinnedInv, JobInv, LeaseAt, Starting, Creating, NoJob
<1>3. CASE Block("commit_mismatch")
  BY <1>1, <1>2, <1>3, Blocking DEF Block, Blockings, BlockedRow, Tip
<1>4. CASE lease' = Pending(job.head) /\ Go("verify")
  <2>1. Moves("verify", job.head) /\ job.head \in Commits /\ Content(job.head)
    BY <1>1, <1>2, <1>4, Going, Now DEF PinnedInv, Steps, TipAt
  <2> QED BY <1>1, <1>2, <1>4, <2>1, PendingCommit
<1> QED BY <1>3, <1>4 DEF RecoverRecord

-----------------------------------------------------------------------------
(* Reserving a lease, holding its branch, removing its worktree. *)

LEMMA Releasing ==
  ASSUME PinnedInv, job.pc # "none", Release, UNCHANGED <<made, origin, verified, world>>,
         Tip' = Tip, tree' \in Tree
  PROVE  PinnedInv'
<1>1. verified \subseteq verified' /\ verified' \subseteq Sha
  BY Now
<1> QED BY <1>1, Quitting DEF Release, Reserving

LEMMA Reserves ==
  ASSUME PinnedInv, Open, job.pc # "none", How(lease.head) = "target", Reserve
  PROVE  PinnedInv'
<1>1. /\ UNCHANGED <<lease, made, origin, world, tree, verified>> /\ Tip' = Tip
      /\ reserved' = lease.head
  BY DEF Reserve, Tip
<1>2. Moves("hold", job.head) /\ job.head \in Commits \cup {NoSha} /\ tree \in Tree
  BY Going, Now DEF PinnedInv, Reserve, Steps
<1>3. lease.head \in Commits /\ lease.head # NoSha /\ lease # NoLease
  BY OpenRow, PinnedAssumption
<1>4. LeaseAt("hold")'
  BY <1>1, <1>3 DEF LeaseAt, Open, Starting, Creating
<1>5. TipAt("hold", job.head)'
  BY <1>1, <1>3 DEF TipAt
<1>6. Reserving /\ verified \subseteq verified' /\ verified' \subseteq Sha
  BY <1>1, <1>3, Now DEF Reserving
<1> QED BY <1>1, <1>2, <1>4, <1>5, <1>6, GoOn DEF Steps, Moves

\* From one step of a removal to the next; a promotion is removed only blocked.
LEMMA Removing ==
  ASSUME PinnedInv, Open, job.pc # "none", reserved # NoSha,
         NEW pc \in {"held", "complete", "normalize", "remove", "discard_recover"},
         Go(pc), UNCHANGED <<lease, reserved, made, origin, verified, world>>,
         Tip' = Tip, tree' \in Tree
  PROVE  PinnedInv'
<1>1. Moves(pc, job.head) /\ job.head \in Commits \cup {NoSha}
  BY Going, Now DEF PinnedInv, Steps
<1>2. LeaseAt(pc)'
  BY OpenRow DEF LeaseAt, Open, Starting, Creating, world
<1>3. TipAt(pc, job.head)'
  BY DEF TipAt
<1>4. Reserving /\ verified \subseteq verified' /\ verified' \subseteq Sha /\ pc \in Steps
  BY Now DEF Reserving, Steps
<1> QED BY <1>1, <1>2, <1>3, <1>4, GoOn DEF Moves

LEMMA Reserved ==
  ASSUME PinnedInv,
         job.pc \in {"hold", "held", "removed", "complete", "normalize", "remove",
                     "discard_recover"}
  PROVE  Open /\ reserved # NoSha /\ job.pc # "none" /\ job # NoJob /\ tree \in Tree
<1>1. job # NoJob /\ job.pc # "none" /\ tree \in Tree
  BY InStep, Now DEF PinnedInv
<1>2. Open
  BY DEF PinnedInv, JobInv, LeaseAt, Starting, Creating
<1>3. reserved # NoSha
  BY <1>1 DEF PinnedInv, JobInv, TipAt
<1> QED BY <1>1, <1>2, <1>3

LEMMA Holding ==
  ASSUME PinnedInv, Hold \/ RecoverRemoval
  PROVE  PinnedInv'
<1>1. /\ Open /\ reserved # NoSha /\ job.pc # "none" /\ tree \in Tree
      /\ UNCHANGED <<made, origin, verified, world, tree>> /\ Tip' = Tip
  BY Reserved DEF Hold, RecoverRemoval, At, Tip
<1>2. CASE Release
  BY <1>1, <1>2, Releasing
<1>3. CASE \E pc \in {"held", "complete"} : Go(pc) /\ UNCHANGED <<lease, reserved>>
  BY <1>1, <1>3, Removing
<1> QED BY <1>2, <1>3 DEF Hold, RecoverRemoval

LEMMA Removals ==
  ASSUME PinnedInv, job.pc = "held", NEW CanRemove, Remove(CanRemove)
  PROVE  PinnedInv'
<1>1. /\ Open /\ reserved # NoSha /\ job.pc # "none" /\ tree \in Tree
      /\ UNCHANGED <<made, origin, verified, world>>
  BY Reserved DEF Remove
<1>2. CASE Release /\ UNCHANGED tree
  BY <1>1, <1>2, Releasing DEF Tip
<1>3. CASE /\ tree' = [tree EXCEPT !.there = FALSE]
           /\ Go("complete") /\ UNCHANGED <<lease, reserved>>
  <2>1. Tip' = Tip /\ tree' \in Tree
    BY <1>1, <1>3 DEF Tip, Tree
  <2> QED BY <1>1, <1>3, <2>1, Removing
<1> QED BY <1>2, <1>3 DEF Remove

LEMMA NoopSteps ==
  ASSUME PinnedInv, NoopReserve \/ NoopRemove
  PROVE  PinnedInv'
<1>1. CASE NoopRemove
  BY <1>1, Removals DEF NoopRemove, At
<1>2. CASE NoopReserve
  <2>1. /\ job.pc = "noop" /\ job.pc # "none" /\ job # NoJob /\ Open /\ tree \in Tree
    BY <1>2, InStep, Now DEF NoopReserve, At, PinnedInv, JobInv, LeaseAt, Starting, Creating
  <2>2. CASE Reserve /\ lease.head = job.target
    BY <2>1, <2>2, Reserves DEF PinnedInv, JobInv, JobRead
  <2>3. CASE Block("not_noop") /\ UNCHANGED <<reserved, made, tree, origin, verified, world>>
    BY <2>1, <2>3, Blocking DEF Block, Blockings, BlockedRow, Tip
  <2>4. CASE End /\ UNCHANGED lease /\ UNCHANGED <<reserved, made, tree, origin, verified, world>>
    BY <2>1, <2>4, Stopping DEF Stop, vars_
  <2> QED BY <1>2, <2>2, <2>3, <2>4 DEF NoopReserve
<1> QED BY <1>1, <1>2

LEMMA DiscardSteps ==
  ASSUME PinnedInv,
         DiscardStart \/ DiscardCheck \/ DiscardNormalize \/ DiscardRemove \/ DiscardRecover
  PROVE  PinnedInv'
<1>1. CASE DiscardStart
  <2>1. job.pc = "discard" /\ job.pc # "none" /\ kind = "sync" /\ tree \in Tree
    BY <1>1, Now DEF DiscardStart, At, PinnedInv, JobInv, LeaseAt
  <2>2. CASE Stop
    BY <2>1, <2>2, Stopping
  <2>3. CASE Discardable /\ Reserve
    <3>1. Open /\ How(lease.head) = "target"
      BY <2>3 DEF Discardable, Conflicted, Live, Open, PinnedInv, RowInv
    <3> QED BY <2>1, <2>3, <3>1, Reserves
  <2>4. CASE /\ Live /\ lease.state = "BLOCKED" /\ reserved # NoSha
             /\ Go("discard_recover") /\ UNCHANGED vars_
    <3>1. Open /\ Tip' = Tip /\ tree' \in Tree
      BY <2>1, <2>4 DEF Live, Open, Tip, vars_
    <3> QED BY <2>1, <2>4, <3>1, Removing DEF vars_
  <2> QED BY <1>1, <2>2, <2>3, <2>4 DEF DiscardStart
<1>2. CASE ~DiscardStart
  <2>1. /\ job.pc \in {"held", "normalize", "remove", "discard_recover"}
        /\ UNCHANGED <<made, origin, verified, world>>
    BY <1>2 DEF DiscardCheck, DiscardNormalize, DiscardRemove, DiscardRecover, At, Stop, vars_
  <2>2. Open /\ reserved # NoSha /\ job.pc # "none" /\ tree \in Tree
    BY <2>1, Reserved
  <2>3. Tip' = Tip /\ tree' \in Tree
    BY <1>2, <2>2 DEF DiscardCheck, DiscardNormalize, DiscardRemove, DiscardRecover, Tree, Tip,
       RebuiltConflict, Stop, vars_
  <2>4. CASE Release
    BY <2>1, <2>2, <2>3, <2>4, Releasing
  <2>5. CASE End /\ UNCHANGED <<lease, reserved>>
    <3>1. verified \subseteq verified' /\ verified' \subseteq Sha /\ Reserving
      BY <2>1, <2>5, Now DEF Reserving
    <3> QED BY <2>1, <2>2, <2>3, <2>5, <3>1, Quitting
  <2>6. CASE /\ UNCHANGED <<lease, reserved>>
             /\ \E pc \in {"complete", "normalize", "remove"} : Go(pc)
    BY <2>1, <2>2, <2>3, <2>6, Removing
  <2> QED BY <1>2, <2>4, <2>5, <2>6
          DEF DiscardCheck, DiscardNormalize, DiscardRemove, DiscardRecover, Stop, vars_
<1> QED BY <1>1, <1>2

LEMMA SyncApplies ==
  ASSUME PinnedInv, SyncApply
  PROVE  PinnedInv'
<1>1. /\ job.pc = "apply" /\ job.pc # "none" /\ kind = "sync"
      /\ UNCHANGED <<reserved, made, origin, verified, world>>
  BY DEF SyncApply, At
<1>2. /\ Open /\ tree \in Tree /\ lease.state = "ACTIVE"
      /\ lease.source = job.source /\ lease.target = job.target
  BY <1>1, Now DEF PinnedInv, JobInv, LeaseAt, Starting, Creating
<1>3. lease \in Lease /\ lease.head \in Commits
  BY <1>2, OpenRow
<1>4. CASE Block("apply_failed") /\ UNCHANGED tree
  BY <1>1, <1>2, <1>4, Blocking DEF Block, Blockings, BlockedRow, Tip
<1>5. CASE lease' = [lease EXCEPT !.why = "noop_pending"] /\ Go("noop") /\ UNCHANGED tree
  <2>1. Moves("noop", job.head) /\ job.head \in Commits \cup {NoSha}
    BY <1>1, <1>5, Going, Now DEF PinnedInv, Steps
  <2>2. /\ lease' \in Lease /\ lease'.state = "ACTIVE" /\ lease'.target = lease.target
        /\ lease'.head \in Commits
    BY <1>2, <1>3, <1>5 DEF Lease
  <2>3. LeaseAt("noop")' /\ TipAt("noop", job.head)'
    BY <1>1, <2>2, PinnedAssumption DEF LeaseAt, TipAt, Open, Starting, Creating, world
  <2> QED BY <1>1, <1>2, <1>5, <2>1, <2>2, <2>3, SyncRow DEF Steps, Moves, Tip
<1>6. CASE /\ \E files \in {"patched", "conflict"} : tree' = [tree EXCEPT !.files = files]
           /\ \E pc \in {"commit", "conflict"} : Go(pc)
           /\ UNCHANGED lease
  <2>1. Tip' = Tip /\ tree' \in Tree
    BY <1>2, <1>6 DEF Tip, Tree
  <2>2. PICK pc \in {"commit", "conflict"} : Go(pc)
    BY <1>6
  <2>3. Moves(pc, job.head) /\ job.head \in Commits \cup {NoSha}
    BY <1>1, <2>2, Going, Now DEF PinnedInv, Steps
  <2>4. LeaseAt(pc)'
    BY <1>1, <1>2, <1>6, <2>2, <2>3 DEF LeaseAt, Open, Starting, Creating, world, Moves
  <2>5. TipAt(pc, job.head)'
    BY DEF TipAt
  <2>6. Reserving /\ verified \subseteq verified' /\ verified' \subseteq Sha /\ pc \in Steps
    BY <1>1, Now DEF Reserving, Steps
  <2> QED BY <1>1, <1>6, <2>1, <2>3, <2>4, <2>5, <2>6, GoOn DEF Moves
<1> QED BY <1>4, <1>5, <1>6 DEF SyncApply

LEMMA RecoverySteps ==
  ASSUME PinnedInv, RecoverStage \/ RecoverFinal
  PROVE  PinnedInv'
<1>1. /\ job.pc \in {"stage", "final"} /\ job.pc # "none"
      /\ UNCHANGED <<lease, reserved, made, origin, verified, world>>
  BY DEF RecoverStage, RecoverFinal, At
<1>2. Open /\ tree \in Tree /\ lease.source = job.source /\ kind = "sync"
  BY <1>1, Now DEF PinnedInv, JobInv, LeaseAt, Starting, Creating
<1>3. Tip' = Tip /\ tree' \in Tree
  BY <1>2 DEF RecoverStage, RecoverFinal, RestoreIndex, Unstaged, Tip, Tree
<1>4. Reserving /\ verified \subseteq verified' /\ verified' \subseteq Sha
  BY <1>1, Now DEF Reserving
<1>5. CASE End
  BY <1>1, <1>3, <1>4, <1>5, Quitting
<1>6. CASE \E pc \in {"final", "merge"} : Go(pc)
  <2>1. PICK pc \in {"final", "merge"} : Go(pc)
    BY <1>6
  <2>2. Moves(pc, job.head) /\ job.head \in Commits \cup {NoSha}
    BY <1>1, <2>1, Going, Now DEF PinnedInv, Steps
  <2>3. LeaseAt(pc)' /\ TipAt(pc, job.head)'
    BY <1>1, <1>2, <2>2 DEF LeaseAt, TipAt, Open, Starting, Creating, world, Moves
  <2> QED BY <1>1, <1>3, <1>4, <2>2, <2>3, GoOn DEF Moves, Steps
<1> QED BY <1>5, <1>6 DEF RecoverStage, RecoverFinal, RestoreIndex

-----------------------------------------------------------------------------
(* Pushing, and the pull request. *)

\* Only what was verified, or the user's, is pushed.
LEMMA Pushing ==
  ASSUME PinnedInv, Open, job.pc # "none", NEW head \in Commits,
         head \in verified \/ Users(head), Pushed(head),
         NEW pc \in {"drift", "pull"}, Go(pc),
         pc = "drift" => kind = "sync",
         kind # "sync" => lease.state = "ACTIVE",
         job.head # NoSha /\ Content(job.head),
         UNCHANGED <<lease, reserved, made, tree, verified, world>>
  PROVE  PinnedInv'
<1>1. Moves(pc, job.head) /\ job.head \in Commits \cup {NoSha} /\ job # NoJob
  BY Going, Now, InStep DEF PinnedInv, Steps
<1>2. JobRead' /\ Seen <= Seen' /\ job' \in Job
  BY <1>1, ReadKept DEF Moves, Steps
<1>3. LeaseAt(pc)'
  BY OpenRow DEF LeaseAt, Open, Starting, Creating, world
<1>4. TipAt(pc, job.head)'
  BY <1>1 DEF TipAt, Content, How, Moves
<1>5. JobInv'
  BY <1>1, <1>2, <1>3, <1>4 DEF JobInv, Moves
<1>6. head \in Sha /\ target \in Sha
  BY DEF PinnedInv, TypesInv, TypeOK
<1>7. /\ remote' = head
      /\ pull' \in [state : {"NONE", "OPEN", "CLOSED"}, head : Sha \cup {NoSha},
                    base : Sha \cup {NoSha}]
      /\ pull'.state = "OPEN" => pull'.head = head
  BY <1>6 DEF Pushed, PinnedInv, TypesInv, TypeOK
<1>8. TypesInv'
  BY <1>2, <1>6, <1>7 DEF PinnedInv, TypesInv, TypeOK, world, Newest, Commits
<1>9. OriginInv'
  BY <1>7 DEF OriginInv, Users, How, Commits, Newest
<1>10. ~(Live /\ lease.state = "PR_OPEN")
  BY DEF Open
<1> QED BY <1>2, <1>5, <1>8, <1>9, <1>10, SameLease DEF Reserving, Tip, world

LEMMA Publishing ==
  ASSUME PinnedInv,
         job.pc \in {"verify", "record", "check", "push", "drift", "pull", "exact"}
  PROVE  /\ Open /\ job.pc # "none" /\ job # NoJob /\ tree \in Tree
         /\ job.head # NoSha /\ Content(job.head) /\ job.head \in Commits
         /\ kind # "sync" => lease.state = "ACTIVE"
<1>1. job # NoJob /\ job.pc # "none" /\ tree \in Tree
  BY InStep, Now DEF PinnedInv
<1>2. Open /\ (kind # "sync" => lease.state = "ACTIVE")
  BY DEF PinnedInv, JobInv, LeaseAt, Starting, Creating
<1>3. job.head # NoSha /\ Content(job.head)
  BY <1>1 DEF PinnedInv, JobInv, TipAt
<1> QED BY <1>1, <1>2, <1>3, Now

LEMMA SyncPushes ==
  ASSUME PinnedInv, SyncPush
  PROVE  PinnedInv'
<1>1. /\ job.pc = "push" /\ kind = "sync"
      /\ UNCHANGED <<reserved, made, tree, verified, world>>
  BY DEF SyncPush, At
<1>2. /\ Open /\ job.pc # "none" /\ job # NoJob /\ tree \in Tree
      /\ job.head # NoSha /\ Content(job.head)
  BY <1>1, Publishing
<1>3. Tip \in Commits /\ (Tip \in verified \/ Users(Tip))
  BY <1>1, <1>2, OpenRow DEF PinnedInv, JobInv, TipAt
<1>4. CASE Pushed(Tip) /\ Go("drift") /\ UNCHANGED lease
  BY <1>1, <1>2, <1>3, <1>4, Pushing
<1>5. CASE RecoveredCommit /\ Pushed(job.head) /\ Go("drift") /\ UNCHANGED lease
  BY <1>1, <1>2, <1>3, <1>5, Pushing DEF RecoveredCommit
<1>6. CASE Go("drift") /\ UNCHANGED <<lease, origin>>
  <2>1. LeaseAt("drift") /\ TipAt("drift", job.head)
    BY <1>1, <1>2 DEF LeaseAt, TipAt, Starting, Creating
  <2> QED BY <1>1, <1>2, <1>6, <2>1, PlainGo DEF Steps, vars_
<1>7. CASE \E why \in Blockings : Block(why) /\ UNCHANGED origin
  BY <1>1, <1>2, <1>7, Blocking DEF Block, BlockedRow, Tip
<1>8. "commit_mismatch" \in Blockings /\ "branch_changed" \in Blockings
  BY DEF Blockings
<1> QED BY <1>4, <1>5, <1>6, <1>7, <1>8 DEF SyncPush

LEMMA Pulls ==
  ASSUME PinnedInv, FindOrCreatePull
  PROVE  PinnedInv'
<1>1. /\ job.pc = "pull" /\ Go("exact")
      /\ UNCHANGED <<lease, reserved, made, tree, remote, verified, world>>
  BY DEF FindOrCreatePull, At
<1>2. /\ Open /\ job.pc # "none" /\ job # NoJob /\ tree \in Tree
      /\ job.head # NoSha /\ Content(job.head)
      /\ kind # "sync" => lease.state = "ACTIVE"
  BY <1>1, Publishing
<1>3. Moves("exact", job.head) /\ job.head \in Commits \cup {NoSha}
  BY <1>1, <1>2, Going, Now DEF PinnedInv, Steps
<1>4. JobRead' /\ Seen <= Seen' /\ job' \in Job
  BY <1>1, <1>2, <1>3, ReadKept DEF Moves, Steps
<1>5. LeaseAt("exact")'
  BY <1>1, <1>2, OpenRow DEF LeaseAt, Open, Starting, Creating, world
<1>6. TipAt("exact", job.head)'
  BY <1>1, <1>2, <1>3 DEF TipAt, Content, How, Moves
<1>7. JobInv'
  BY <1>3, <1>4, <1>5, <1>6 DEF JobInv, Moves
<1>8. /\ remote \in Sha \cup {NoSha} /\ target \in Sha
      /\ pull \in [state : {"NONE", "OPEN", "CLOSED"}, head : Sha \cup {NoSha},
                   base : Sha \cup {NoSha}]
  BY DEF PinnedInv, TypesInv, TypeOK
<1>9. /\ pull' \in [state : {"NONE", "OPEN", "CLOSED"}, head : Sha \cup {NoSha},
                    base : Sha \cup {NoSha}]
      /\ pull'.head = remote
  BY <1>8 DEF FindOrCreatePull, PinnedInv, OriginInv
<1>10. TypesInv'
  BY <1>1, <1>4, <1>9 DEF PinnedInv, TypesInv, TypeOK, world, Newest, Commits
<1>11. OriginInv'
  BY <1>1, <1>9 DEF PinnedInv, OriginInv, How, Commits, Newest
<1> QED BY <1>1, <1>4, <1>7, <1>10, <1>11, SameLease DEF Reserving, Tip, world

LEMMA Failing ==
  ASSUME PinnedInv, GitHubFails
  PROVE  PinnedInv'
BY Stopping DEF GitHubFails

-----------------------------------------------------------------------------
(* The first and the last steps of a lease. *)

\* Nothing depends on the branch of a lease there is not.
LEMMA Unleased ==
  ASSUME PinnedInv, UNCHANGED <<lease, made, origin, kind, source, target>>, ~Live,
         Tip' \in Commits \cup {NoSha}, Reserving,
         TypesInv', JobInv', Seen <= Seen', verified \subseteq verified'
  PROVE  PinnedInv'
<1>1. UNCHANGED <<lease, made, remote, pull, kind, source, target>> /\ ~Live'
  BY DEF origin, Live
<1>2. MadeInv'
  BY <1>1 DEF PinnedInv, MadeInv, Commits, Newest, How
<1>3. Seen \in Nat /\ Seen' \in Nat
  BY PinnedAssumption DEF PinnedInv, TypesInv, Seen, JobInv, JobRead, MadeInv, Commits, TypeOK,
     Job
<1>4. RowInv'
  <2>1. lease # NoLease => lease.target \in Nat
    BY PinnedAssumption DEF PinnedInv, TypesInv, TypeOK, Lease
  <2> QED BY <1>1, <1>3, <2>1 DEF PinnedInv, RowInv, Reserving, Commits, Newest, How
<1>5. TipInv'
  BY <1>1 DEF TipInv, Commits, Newest
<1>6. OriginInv'
  BY <1>1 DEF PinnedInv, OriginInv, Commits, Newest, How
<1>7. ReadyMeansVerified'
  BY <1>1 DEF ReadyMeansVerified
<1> QED BY <1>2, <1>4, <1>5, <1>6, <1>7 DEF PinnedInv

LEMMA Worktrees ==
  ASSUME PinnedInv, AddWorktree
  PROVE  PinnedInv'
<1>1. job.pc = "worktree" /\ job.pc # "none" /\ job # NoJob /\ job \in Job /\ ~Live
  BY InStep DEF AddWorktree, At, PinnedInv, JobInv, LeaseAt, Creating
<1>2. CASE Stop
  BY <1>1, <1>2, Stopping
<1>3. CASE ~Stop
  <2>1. /\ tree' = [NoTree(job.source) EXCEPT !.there = TRUE, !.tip = job.target]
        /\ Go("lease")
        /\ UNCHANGED <<lease, reserved, made, origin, verified, world>>
    BY <1>3 DEF AddWorktree
  <2>2. job.target \in Commits /\ job.target \in Sha /\ job.source \in Source
    BY <1>1 DEF PinnedInv, TypesInv, JobInv, JobRead, Job
  <2>3. Tip' = job.target /\ tree' \in Tree
    <3>1. NoTree(job.source) \in Tree
      BY <2>2, Trees
    <3> QED BY <2>1, <2>2, <3>1 DEF Tip, Tree
  <2>4. Moves("lease", job.head) /\ job.head \in Commits \cup {NoSha}
    BY <1>1, <2>1, Going, Now DEF PinnedInv, Steps
  <2>5. JobRead' /\ Seen <= Seen' /\ job' \in Job
    BY <1>1, <2>1, <2>4, ReadKept DEF Moves, Steps
  <2>6. LeaseAt("lease")' /\ TipAt("lease", job.head)'
    BY <1>1, <2>1, <2>3, <2>4 DEF LeaseAt, TipAt, Live, Starting, Creating, Moves
  <2>7. JobInv'
    BY <2>4, <2>5, <2>6 DEF JobInv, Moves
  <2>8. TypesInv'
    BY <2>1, <2>3, <2>5, SameTypes DEF PinnedInv, TypesInv, TypeOK
  <2> QED BY <1>1, <2>1, <2>2, <2>3, <2>5, <2>7, <2>8, Unleased DEF Reserving, world
<1> QED BY <1>2, <1>3

LEMMA Created ==
  ASSUME PinnedInv, CreateLease
  PROVE  PinnedInv'
<1>1. /\ job.pc = "lease" /\ job.pc # "none" /\ job # NoJob /\ job \in Job /\ ~Live
      /\ UNCHANGED <<reserved, made, origin, verified, world>>
  BY InStep DEF CreateLease, At, PinnedInv, JobInv, LeaseAt, Creating
<1>2. /\ job.target \in Commits /\ job.target \in Sha /\ job.source \in Source
      /\ How(job.target) = "target" /\ tree \in Tree
  BY <1>1, Now DEF PinnedInv, TypesInv, JobInv, JobRead, Job
<1>3. CASE lease' = NewLease /\ Go("apply") /\ UNCHANGED tree
  <2>1. Moves("apply", job.head) /\ job.head \in Commits \cup {NoSha}
    BY <1>1, <1>3, Going, Now DEF PinnedInv, Steps
  <2>2. JobRead' /\ Seen <= Seen' /\ job' \in Job
    BY <1>1, <2>1, ReadKept DEF Moves, Steps
  <2>3. /\ lease' \in Lease /\ lease'.state = "ACTIVE" /\ lease'.head = job.target
        /\ lease'.source = job.source /\ lease'.target = job.target
        /\ lease'.resolution = "NONE" /\ lease'.why = "created"
    BY <1>2, <1>3, PinnedAssumption DEF NewLease, Lease
  <2>4. lease' # NoLease /\ Live'
    BY <2>3, PinnedAssumption DEF Live
  <2>5. LeaseAt("apply")' /\ TipAt("apply", job.head)'
    BY <1>1, <2>1, <2>3, <2>4 DEF LeaseAt, TipAt, Open, Starting, Creating, Moves
  <2>6. JobInv'
    BY <2>1, <2>2, <2>5 DEF JobInv, Moves
  <2>7. TypesInv'
    BY <1>1, <1>2, <1>3, <2>2, <2>3, SameTypes DEF PinnedInv, TypesInv, TypeOK
  <2>8. Seen' = job.target /\ job.target \in Nat
    <3>1. job' # NoJob /\ job.target \in Nat
      <4>1. job' # NoJob
        BY <2>1 DEF Moves, NoJob
      <4> QED BY <1>2, <4>1, PinnedAssumption
    <3> QED BY <2>1, <3>1 DEF Seen, Moves
  <2>9. UNCHANGED <<made, remote, pull, kind, source, target>> /\ Tip' = Tip
    BY <1>1, <1>3 DEF origin, world, Tip
  <2>10. RowInv'
    <3>1. kind # "sync" => job.source = source
      BY <1>1 DEF PinnedInv, JobInv, JobRead
    <3> QED BY <1>1, <1>2, <2>3, <2>4, <2>8, <2>9, <3>1
            DEF PinnedInv, RowInv, Commits, Newest, How
  <2>11. TipInv'
    <3>1. Tip = job.target \/ Users(Tip)
      BY <1>1 DEF PinnedInv, JobInv, TipAt
    <3>2. Tip \in Commits
      BY <1>2, <3>1 DEF PinnedInv, TipInv, Users
    <3>3. Placed(Tip)'
      BY <1>2, <2>3, <2>9, <3>1 DEF Placed, OnTarget, How, Users, Automatic
    <3> QED BY <2>9, <3>2, <3>3, PinnedAssumption DEF TipInv, PinnedInv, TypesInv, Commits, Newest
  <2>12. ReadyMeansVerified'
    BY <2>3 DEF ReadyMeansVerified
  <2> QED BY <1>1, <2>6, <2>7, <2>10, <2>11, <2>12, NewRow
<1>4. CASE /\ tree' = IF Tip = job.target /\ tree.files = "clean" THEN NoTree(tree.of) ELSE tree
           /\ End /\ UNCHANGED lease
  <2>1. tree' \in Tree /\ Tip' \in Commits \cup {NoSha}
    <3>1. tree.of \in Source /\ Tip \in Commits \cup {NoSha}
      BY <1>2 DEF Tree, PinnedInv, TipInv
    <3> QED BY <1>2, <1>4, <3>1, Trees DEF Tip
  <2>2. JobRead' /\ Seen <= Seen' /\ LeaseAt(job.pc)' /\ job' = NoJob
    BY <1>1, <1>4, ReadKept, Ending DEF End
  <2>3. JobInv'
    BY <2>2 DEF JobInv
  <2>4. TypesInv'
    BY <1>1, <1>4, <2>1, <2>2, SameTypes DEF PinnedInv, TypesInv, TypeOK
  <2> QED BY <1>1, <1>4, <2>1, <2>2, <2>3, <2>4, Unleased DEF Reserving, world
<1> QED BY <1>3, <1>4 DEF CreateLease

LEMMA Completes ==
  ASSUME PinnedInv, Complete
  PROVE  PinnedInv'
<1>1. /\ job.pc = "complete" /\ reserved # NoSha /\ Open /\ job # NoJob /\ job.pc # "none"
      /\ tree \in Tree /\ UNCHANGED <<made, tree, origin, verified, world>>
      /\ reserved' = NoSha
  BY Reserved DEF Complete, At
<1>2. lease \in Lease /\ lease # NoLease
  BY <1>1, OpenRow
<1>3. reserved \in Commits /\ How(reserved) = "target" /\ reserved \in Sha
  BY <1>1 DEF PinnedInv, RowInv, TypesInv
<1>4. Moves("delete", reserved)
  BY <1>1, <1>3, Noting DEF Complete, PinnedInv, Steps
<1>5. /\ lease' \in Lease /\ lease'.state = "REMOVED" /\ lease'.head = lease.head
      /\ lease'.target = lease.target
  BY <1>1, <1>2 DEF Complete, Lease
<1>6. lease' # NoLease /\ ~Live'
  BY <1>5, PinnedAssumption DEF Live
<1>7. JobRead' /\ Seen <= Seen' /\ job' \in Job
  BY <1>1, <1>3, <1>4, ReadKept DEF Moves, Steps
<1>8. LeaseAt("delete")'
  BY <1>1, <1>6 DEF LeaseAt, Starting, Creating
<1>9. JobInv'
  <2>1. job'.pc = "delete" /\ job'.head = reserved
    BY <1>4 DEF Moves
  <2>2. TipAt("delete", job.head)'
    BY <1>1, <1>3, <2>1, PinnedAssumption DEF TipAt, How
  <2> QED BY <1>7, <1>8, <2>1, <2>2 DEF JobInv
<1>10. TypesInv'
  BY <1>1, <1>5, <1>7, SameTypes, Now DEF PinnedInv, TypesInv, TypeOK
<1>11. UNCHANGED <<made, remote, pull, kind, source, target>> /\ Tip' = Tip
  BY <1>1 DEF origin, world, Tip
<1>12. Seen \in Nat /\ Seen' \in Nat /\ lease.target \in Nat
  BY <1>2, <1>7, <1>11, PinnedAssumption
     DEF PinnedInv, TypesInv, Seen, JobInv, JobRead, MadeInv, Commits, TypeOK, Job, Lease
<1>13. RowInv'
  BY <1>1, <1>2, <1>5, <1>6, <1>7, <1>11, <1>12 DEF PinnedInv, RowInv, Commits, Newest, How
<1>14. TipInv'
  BY <1>6, <1>11 DEF PinnedInv, TipInv, Commits, Newest
<1>15. ReadyMeansVerified'
  BY <1>6 DEF ReadyMeansVerified
<1> QED BY <1>1, <1>9, <1>10, <1>13, <1>14, <1>15, NewRow

LEMMA Deletes ==
  ASSUME PinnedInv, DeleteBranch
  PROVE  PinnedInv'
<1>1. /\ job.pc = "delete" /\ job.pc # "none" /\ job # NoJob /\ ~Live /\ End
      /\ UNCHANGED <<lease, reserved, made, origin, verified, world>>
  BY InStep DEF DeleteBranch, At, PinnedInv, JobInv, LeaseAt
<1>2. tree' \in Tree /\ Tip' \in Commits \cup {NoSha}
  <2>1. tree \in Tree /\ tree.of \in Source /\ Tip \in Commits \cup {NoSha}
    BY Now DEF Tree, PinnedInv, TipInv
  <2> QED BY <2>1, Trees DEF DeleteBranch, Tip
<1>3. JobRead' /\ Seen <= Seen' /\ LeaseAt(job.pc)' /\ job' = NoJob
  BY <1>1, ReadKept, Ending DEF End
<1>4. JobInv'
  BY <1>3 DEF JobInv
<1>5. TypesInv'
  BY <1>1, <1>2, <1>3, SameTypes DEF PinnedInv, TypesInv, TypeOK
<1> QED BY <1>1, <1>2, <1>3, <1>4, <1>5, Unleased DEF Reserving, world

-----------------------------------------------------------------------------
(* Deaths, users' edits, and the source of a synchronization. *)

LEMMA Dies ==
  ASSUME PinnedInv, Crash
  PROVE  PinnedInv'
<1>1. /\ job # NoJob /\ End /\ crashes' = crashes + 1 /\ Tip' = Tip
      /\ UNCHANGED <<kind, lease, reserved, made, tree, origin, source, target, verified>>
  BY DEF Crash, Tip
<1>2. LeaseAt(job.pc)' /\ job' = NoJob
  BY <1>1, Ending
<1>3. JobInv'
  BY <1>2 DEF JobInv, JobRead
<1>4. Seen <= Seen'
  <2>1. job.target <= target /\ job.target \in Nat /\ target \in Nat
    BY <1>1, PinnedAssumption DEF PinnedInv, JobInv, JobRead, MadeInv, TypesInv, Commits
  <2> QED BY <1>1, <1>2, <2>1 DEF Seen
<1>5. TypesInv'
  BY <1>1, <1>2 DEF PinnedInv, TypesInv, TypeOK, origin, Newest, Commits
<1> QED BY <1>1, <1>3, <1>4, <1>5, SameRow DEF Reserving

\* What a user does to the files while a command may be running.
LEMMA Edits ==
  ASSUME PinnedInv, UserEdit \/ UserResolve \/ UserClean
  PROVE  PinnedInv'
<1>1. /\ UNCHANGED <<kind, lease, reserved, made, origin, source, target, verified, job, crashes>>
      /\ tree \in Tree
  BY Now DEF UserEdit, UserResolve, UserClean
<1>2. Tip' = Tip /\ tree' \in Tree
  <2>1. \A files \in {"dirty", "resolving"} :
          /\ [tree EXCEPT !.files = files] \in Tree
          /\ [tree EXCEPT !.files = files].tip = tree.tip
    BY <1>1 DEF Tree
  <2>2. /\ [tree EXCEPT !.files = "clean", !.applied = 0] \in Tree
        /\ [tree EXCEPT !.files = "clean", !.applied = 0].tip = tree.tip
    <3>1. 0 \in 0..Patches
      BY PinnedAssumption
    <3> QED BY <1>1, <3>1 DEF Tree
  <2> QED BY <2>1, <2>2 DEF UserEdit, UserResolve, UserClean, Tip
<1>3. /\ tree.there' = tree.there
      /\ tree.applied' = tree.applied \/ (kind = "exact" /\ tree.applied' = 0)
      /\ kind = "exact" \/ tree.files' # "clean"
  BY <1>1 DEF UserEdit, UserResolve, UserClean, Tree
<1>4. LeaseAt(job.pc)'
  <2>1. tree.applied < Patches => tree.applied' < Patches
    BY <1>3, PinnedAssumption
  <2> QED BY <1>1, <2>1 DEF PinnedInv, JobInv, LeaseAt, Live, Open, Content, How, OutOfOrder
<1>5. JobRead' /\ Seen' = Seen
  BY <1>1 DEF PinnedInv, JobInv, JobRead, Seen, Commits, Newest, How
<1>6. job # NoJob => TipAt(job.pc, job.head)'
  <2>1. job.pc = "amending" => kind # "exact"
    BY DEF PinnedInv, JobInv, LeaseAt, OutOfOrder
  <2> QED BY <1>1, <1>2, <1>3, <2>1
          DEF PinnedInv, JobInv, TipAt, Users, Content, How, Placed, OnTarget, Rebuilt, Strict,
              OutOfOrder, Seen
<1>7. JobInv'
  BY <1>1, <1>4, <1>5, <1>6 DEF JobInv
<1>8. TypesInv'
  BY <1>1, <1>2 DEF PinnedInv, TypesInv, TypeOK, Tree, origin, Newest, Commits
<1>9. Seen <= Seen'
  BY <1>5, Now
<1> QED BY <1>1, <1>2, <1>7, <1>8, <1>9, SameRow DEF Reserving

LEMMA Closes ==
  ASSUME PinnedInv, ClosePull
  PROVE  PinnedInv'
<1>1. /\ UNCHANGED <<kind, lease, reserved, made, remote, tree, source, target, verified, job,
                     crashes>>
      /\ Tip' = Tip
  BY DEF ClosePull, Tip
<1>2. pull \in [state : {"NONE", "OPEN", "CLOSED"}, head : Sha \cup {NoSha},
                base : Sha \cup {NoSha}]
  BY DEF PinnedInv, TypesInv, TypeOK
<1>3. /\ pull' \in [state : {"NONE", "OPEN", "CLOSED"}, head : Sha \cup {NoSha},
                    base : Sha \cup {NoSha}]
      /\ pull'.state = "CLOSED"
  BY <1>2 DEF ClosePull
<1>4. TypesInv'
  BY <1>1, <1>3 DEF PinnedInv, TypesInv, TypeOK, Newest, Commits
<1>5. JobInv'
  BY <1>1 DEF PinnedInv, JobInv, JobRead, LeaseAt, TipAt, Live, Open, Users, Content, How,
     OutOfOrder, Placed, OnTarget, Rebuilt, Strict, Commits, Newest, Seen
<1>6. OriginInv'
  BY <1>1, <1>3 DEF PinnedInv, OriginInv, Commits, Newest, How
<1>7. Seen <= Seen'
  <2>1. Seen' = Seen
    BY <1>1 DEF Seen
  <2> QED BY <2>1, Now
<1> QED BY <1>1, <1>4, <1>5, <1>6, <1>7, SameLease DEF Reserving

LEMMA Sources ==
  ASSUME PinnedInv, SourceMoves
  PROVE  PinnedInv'
<1>1. /\ UNCHANGED <<kind, lease, reserved, made, tree, origin, target, verified, job, crashes>>
      /\ kind = "sync" /\ source' \in Source /\ remote' = remote /\ pull' = pull /\ Tip' = Tip
  BY DEF SourceMoves, origin, Tip
<1>2. TypesInv' /\ MadeInv'
  BY <1>1 DEF PinnedInv, TypesInv, TypeOK, Newest, Commits, MadeInv, How
<1>3. TipInv' /\ RowInv' /\ OriginInv'
  BY <1>1 DEF PinnedInv, TipInv, RowInv, OriginInv, Seen, Live, Commits, Newest, How
<1>4. JobInv'
  BY <1>1 DEF PinnedInv, JobInv, JobRead, LeaseAt, TipAt, Live, Open, Users, Content, How,
     OutOfOrder, Placed, OnTarget, Rebuilt, Strict, Commits, Newest, Seen
<1>5. ReadyMeansVerified'
  BY <1>1 DEF PinnedInv, ReadyMeansVerified, Live
<1> QED BY <1>2, <1>3, <1>4, <1>5 DEF PinnedInv

-----------------------------------------------------------------------------
(* Steps that make a commit. *)

Growing(c) ==
  /\ c \in Commit /\ Newest + 1 \in Sha
  /\ made' = Append(made, c)
  /\ c.how \in Automatic =>
       c.patches = Patches /\ c.base \in Commits /\ (kind # "sync" => c.of = source)
  /\ UNCHANGED <<reserved, origin, verified, kind, source, crashes>>
  /\ target' = target \/ (target' = Newest + 1 /\ c.how = "target")

LEMMA Growth ==
  ASSUME PinnedInv, NEW c, Growing(c)
  PROVE  /\ Newest \in Nat /\ Newest' = Newest + 1 /\ Newest + 1 \notin Commits
         /\ Newest + 1 # NoSha /\ Newest + 1 \in Sha
         /\ made'[Newest + 1] = c
         /\ \A i \in Commits : made'[i] = made[i]
         /\ Commits' = Commits \cup {Newest + 1}
         /\ made' \in Seq(Commit) /\ Commits' \subseteq Sha /\ Newest' >= 1
<1>1. made \in Seq(Commit) /\ c \in Commit /\ made' = Append(made, c) /\ Newest >= 1
  BY DEF PinnedInv, TypesInv, Growing
<1>2. Newest \in Nat /\ Newest' = Newest + 1 /\ made' \in Seq(Commit)
  BY <1>1 DEF Newest
<1>3. made'[Newest + 1] = c /\ \A i \in Commits : made'[i] = made[i]
  BY <1>1, <1>2 DEF Newest, Commits
<1>4. Commits' = Commits \cup {Newest + 1} /\ Newest + 1 \notin Commits
  BY <1>2 DEF Commits
<1>5. Newest + 1 \in Sha /\ Newest + 1 # NoSha
  BY PinnedAssumption DEF Growing
<1>6. Commits' \subseteq Sha /\ Newest' >= 1
  BY <1>1, <1>2, <1>4, <1>5 DEF PinnedInv, TypesInv
<1> QED BY <1>2, <1>3, <1>4, <1>5, <1>6

LEMMA GrownTypes ==
  ASSUME PinnedInv, NEW c, Growing(c), job' \in Job \cup {NoJob},
         lease' \in Lease \cup {NoLease}, tree' \in Tree
  PROVE  TypesInv'
<1>1. made' \in Seq(Commit) /\ Commits' \subseteq Sha /\ Newest' >= 1 /\ Newest + 1 \in Sha
  BY Growth
<1>2. UNCHANGED <<reserved, remote, pull, verified, kind, source, crashes>> /\ target' \in Sha
  BY <1>1 DEF Growing, origin, PinnedInv, TypesInv, TypeOK
<1>3. TypeOK'
  BY <1>1, <1>2 DEF PinnedInv, TypesInv, TypeOK, Tree, Commit
<1> QED BY <1>1, <1>2, <1>3 DEF PinnedInv, TypesInv

\* What is kept whatever becomes of the lease and its branch.
LEMMA Grown ==
  ASSUME PinnedInv, NEW c, Growing(c),
         TypesInv', RowInv', TipInv', JobInv', ReadyMeansVerified'
  PROVE  PinnedInv'
<1>1. UNCHANGED <<reserved, remote, pull, verified, kind, source>>
  BY DEF Growing, origin
<1>2. MadeInv'
  <2>1. target' \in Commits' /\ made'[target'].how = "target"
    BY Growth DEF PinnedInv, MadeInv, Growing, How
  <2>2. ASSUME NEW i \in Commits', made'[i].how \in Automatic
        PROVE  /\ made'[i].patches = Patches /\ made'[i].base \in Commits'
               /\ kind # "sync" => made'[i].of = source
    <3>1. CASE i \in Commits
      BY <2>2, <3>1, Growth DEF PinnedInv, MadeInv, How
    <3>2. CASE i = Newest + 1
      BY <2>2, <3>2, Growth DEF Growing
    <3> QED BY <3>1, <3>2, Growth
  <2> QED BY <1>1, <2>1, <2>2 DEF MadeInv, How
<1>3. OriginInv'
  BY <1>1, Growth DEF PinnedInv, OriginInv, How
<1> QED BY <1>2, <1>3 DEF PinnedInv

\* The row of the same lease.
LEMMA GrownRow ==
  ASSUME PinnedInv, NEW c, Growing(c), UNCHANGED lease, Seen <= Seen', Seen' \in Nat
  PROVE  RowInv' /\ ReadyMeansVerified'
<1>1. UNCHANGED <<reserved, remote, pull, verified, kind, source, lease>>
  BY DEF Growing, origin
<1>2. lease # NoLease => lease.target \in Nat /\ lease.head \in Commits /\ lease.target \in Commits
  BY PinnedAssumption DEF PinnedInv, TypesInv, TypeOK, Lease, RowInv
<1>3. RowInv'
  BY <1>1, <1>2, Growth, Now DEF PinnedInv, RowInv, How, Live, Content, OutOfOrder
<1>4. ReadyMeansVerified'
  BY <1>1, <1>2, Growth DEF PinnedInv, ReadyMeansVerified, Live
<1> QED BY <1>3, <1>4

\* A commit of before is placed as before.
LEMMA PlacedStays ==
  ASSUME PinnedInv, NEW c, Growing(c), UNCHANGED lease, Seen <= Seen', Seen' \in Nat,
         NEW i \in Commits, Placed(i)
  PROVE  Placed(i)'
<1>1. made'[i] = made[i] /\ UNCHANGED <<kind, lease>>
  BY Growth DEF Growing
<1>2. How(i) \in Automatic =>
        made[i].base \in Commits /\ made[i].base \in Nat /\ made'[made[i].base] = made[made[i].base]
  BY Growth DEF PinnedInv, MadeInv, Commits
<1> QED BY <1>1, <1>2, Now DEF Placed, OnTarget, How, Rebuilt, OutOfOrder

LEMMA GrownRead ==
  ASSUME PinnedInv, NEW c, Growing(c), target' = target, job # NoJob,
         \/ job' = NoJob
         \/ \E pc \in Steps : Moves(pc, Newest + 1)
  PROVE  JobRead' /\ Seen <= Seen' /\ Seen' \in Nat
<1>1. job.target <= target /\ job.target \in Nat /\ target \in Nat
  BY PinnedAssumption DEF PinnedInv, JobInv, JobRead, MadeInv, TypesInv, Commits
<1>2. CASE job' = NoJob
  BY <1>1, <1>2 DEF JobRead, Seen
<1>3. ASSUME NEW pc \in Steps, Moves(pc, Newest + 1)
      PROVE  JobRead' /\ Seen <= Seen' /\ Seen' \in Nat
  <2>1. JobRead'
    BY <1>3, Growth DEF PinnedInv, JobInv, JobRead, Moves, How, Growing
  <2>2. job' # NoJob => Seen' = Seen
    BY <1>3 DEF Seen, Moves
  <2> QED BY <1>1, <2>1, <2>2 DEF Seen
<1> QED BY <1>2, <1>3

\* A commit of the command's, of which the row says nothing yet.
LEMMA Committing ==
  ASSUME PinnedInv, Open, job.pc # "none", NEW c, Growing(c), c.how \in Automatic,
         NEW pc \in Steps, Moves(pc, Newest + 1),
         UNCHANGED <<lease, target>>, tree' \in Tree, Tip' = Newest + 1,
         kind # "sync" /\ How(c.base) = "target" =>
           (c.base = lease.target \/ Rebuilt(c.base)) /\ c.base <= Seen,
         LeaseAt(pc)', TipAt(pc, job.head)'
  PROVE  PinnedInv'
<1>1. job # NoJob /\ job' \in Job /\ job'.pc = pc /\ job'.head = Newest + 1
  BY InStep DEF Moves, PinnedInv
<1>2. JobRead' /\ Seen <= Seen' /\ Seen' \in Nat
  BY <1>1, GrownRead
<1>3. JobInv'
  BY <1>1, <1>2 DEF JobInv
<1>4. TypesInv'
  BY <1>1, GrownTypes DEF PinnedInv, TypesInv, TypeOK
<1>5. TipInv'
  <2>1. Tip' \in Commits' /\ Tip' # NoSha /\ kind' = kind
    BY Growth DEF Growing
  <2>2. /\ c.base \in Commits /\ c.base \in Nat
        /\ made'[c.base] = made[c.base] /\ made'[Newest + 1] = c
    <3>1. c.base \in Commits
      BY DEF Growing
    <3> QED BY <3>1, Growth DEF Commits
  <2>3. kind # "sync" => Placed(Tip)'
    <3>1. made'[Tip'] = c /\ UNCHANGED <<lease, kind>> /\ c.how # "target"
      BY <2>2 DEF Growing, Automatic
    <3>2. kind # "sync" /\ made[c.base].how = "target" =>
            (c.base = lease.target \/ Rebuilt(c.base)) /\ c.base <= Seen'
      BY <1>2, <2>2, Now DEF How
    <3> QED BY <2>2, <3>1, <3>2 DEF Placed, OnTarget, How, Rebuilt, OutOfOrder
  <2> QED BY <2>1, <2>3 DEF TipInv
<1>6. RowInv' /\ ReadyMeansVerified'
  BY <1>2, GrownRow
<1> QED BY <1>3, <1>4, <1>5, <1>6, Grown

LEMMA Indexing ==
  ASSUME PinnedInv, Open, job.pc # "none", NEW how \in Automatic, CommitIndex(how, "clean"),
         UNCHANGED <<reserved, origin, verified, world>>
  PROVE  LET c == [base |-> Tip, of |-> job.source, patches |-> Patches, how |-> how]
         IN  /\ Growing(c) /\ tree' \in Tree /\ Tip' = Newest + 1 /\ Len(made') = Newest + 1
             /\ UNCHANGED target
<1> DEFINE c == [base |-> Tip, of |-> job.source, patches |-> Patches, how |-> how]
<1>1. job \in Job /\ job # NoJob /\ tree \in Tree /\ Tip \in Commits /\ Tip \in Sha
  BY InStep, Now, OpenRow DEF PinnedInv
<1>2. c \in Commit
  <2>1. job.source \in Source /\ Patches \in 0..Patches
    BY <1>1, PinnedAssumption DEF Job
  <2> QED BY <1>1, <2>1 DEF Commit, Automatic
<1>3. kind # "sync" => job.source = source
  BY <1>1 DEF PinnedInv, JobInv, JobRead
<1>4. made' = Append(made, c) /\ Newest + 1 \in Sha /\ tree' = [tree EXCEPT !.tip = Len(made'), !.files = "clean"]
  BY DEF CommitIndex, Newest
<1>5. Growing(c)
  BY <1>1, <1>2, <1>3, <1>4 DEF Growing, world
<1>6. Len(made') = Newest + 1
  BY <1>5, Growth DEF Newest
<1>7. tree' \in Tree /\ Tip' = Newest + 1
  <2>1. Newest + 1 \in Sha
    BY <1>4
  <2> QED BY <1>1, <1>4, <1>6, <2>1 DEF Tree, Tip
<1> QED BY <1>5, <1>6, <1>7 DEF world

\* A commit that is not what it should be blocks the lease.
LEMMA CommitBlocks ==
  ASSUME PinnedInv, Open, lease.state = "ACTIVE", job.pc # "none", End,
         NEW how \in Automatic, CommitIndex(how, "clean"),
         NEW why \in {"delta_mismatch", "staging_missing"},
         lease' = Blocked(why) \/ lease' = [Blocked(why) EXCEPT !.head = Len(made')],
         UNCHANGED <<reserved, origin, verified, world>>
  PROVE  PinnedInv'
<1> DEFINE c == [base |-> Tip, of |-> job.source, patches |-> Patches, how |-> how]
<1>1. /\ Growing(c) /\ tree' \in Tree /\ Tip' = Newest + 1 /\ Len(made') = Newest + 1
      /\ UNCHANGED target
  BY Indexing
<1> HIDE DEF c
<1>2. /\ lease \in Lease /\ Live /\ lease # NoLease /\ lease.head \in Commits
      /\ lease.target \in Commits /\ Tip \in Commits
  BY OpenRow
<1>3. Newest + 1 \in Commits' /\ lease.head \in Commits' /\ Newest + 1 \in Sha
  BY <1>1, <1>2, Growth
<1>4. /\ lease' \in Lease /\ lease'.state = "BLOCKED" /\ lease'.why = why
      /\ lease'.head \in Commits' /\ lease'.target = lease.target
      /\ lease'.source = lease.source /\ lease'.resolution = lease.resolution
  <2>1. \/ lease' = [lease EXCEPT !.state = "BLOCKED", !.why = why]
        \/ lease' = [lease EXCEPT !.state = "BLOCKED", !.why = why, !.head = Newest + 1]
    BY <1>1, <1>2 DEF Blocked, Lease
  <2> QED BY <1>2, <1>3, <2>1 DEF Lease
<1>5. lease' # NoLease
  BY <1>4, PinnedAssumption
<1>6. JobRead' /\ Seen <= Seen' /\ Seen' \in Nat /\ LeaseAt(job.pc)' /\ job' = NoJob
  BY <1>1, GrownRead, Ending, InStep DEF End, PinnedInv
<1>7. JobInv'
  BY <1>6 DEF JobInv
<1>8. TypesInv'
  BY <1>1, <1>4, <1>6, GrownTypes
<1>9. lease.target \in Nat /\ lease.target <= Seen' /\ How(lease.target) = "target"
  BY <1>2, <1>6, Now, PinnedAssumption DEF PinnedInv, RowInv, Lease
<1>10. RowInv'
  <2>1. kind # "sync" => lease.source = source /\ lease.resolution # "PENDING"
    BY <1>2 DEF PinnedInv, RowInv
  <2>2. made'[lease.target].how = "target" /\ lease.target \in Commits'
    BY <1>1, <1>2, <1>9, Growth DEF How
  <2>3. UNCHANGED <<kind, source, reserved>>
    BY <1>1 DEF Growing
  <2>4. reserved' # NoSha => reserved' \in Commits' /\ made'[reserved'].how = "target"
    BY <1>1, <2>3, Growth DEF PinnedInv, RowInv, How
  <2> QED BY <1>4, <1>9, <2>1, <2>2, <2>3, <2>4 DEF RowInv, How
<1>11. TipInv'
  <2>1. Tip' \in Commits' /\ Tip' # NoSha /\ kind' = kind
    BY <1>1, Growth DEF Growing
  <2>2. made'[Newest + 1] = c /\ made'[Tip] = made[Tip]
    BY <1>1, <1>2, Growth
  <2>3. kind # "sync" /\ How(Tip) = "target" => Tip = lease.target
    BY <1>2 DEF PinnedInv, TipInv, Placed, Rebuilt
  <2>4. kind # "sync" => Placed(Tip)'
    BY <1>1, <1>4, <1>9, <2>2, <2>3 DEF Placed, OnTarget, How, Automatic, c
  <2> QED BY <2>1, <2>4 DEF TipInv
<1>12. ReadyMeansVerified'
  BY <1>4 DEF ReadyMeansVerified
<1> QED BY <1>1, <1>7, <1>8, <1>10, <1>11, <1>12, Grown

LEMMA SyncCommits ==
  ASSUME PinnedInv, SyncCommit
  PROVE  PinnedInv'
<1>1. /\ job.pc = "commit" /\ job.pc # "none" /\ kind = "sync"
      /\ UNCHANGED <<reserved, origin, verified, world>>
  BY DEF SyncCommit, At
<1>2. /\ Open /\ lease.state = "ACTIVE" /\ tree \in Tree
      /\ lease.source = job.source /\ lease.target = job.target
  BY <1>1, Now DEF PinnedInv, JobInv, LeaseAt, Starting, Creating
<1>3. CASE Block("apply_failed") /\ UNCHANGED <<made, tree>>
  BY <1>1, <1>2, <1>3, Blocking DEF Block, Blockings, BlockedRow, Tip
<1>4. CASE CommitIndex("delta", "clean") /\ Block("delta_mismatch")
  BY <1>1, <1>2, <1>4, CommitBlocks DEF Block, Automatic
<1>5. CASE /\ CommitIndex("delta", "clean") /\ Exactly
           /\ job' = [job EXCEPT !.pc = "verify", !.head = Len(made')]
           /\ UNCHANGED lease
  <2> DEFINE c == [base |-> Tip, of |-> job.source, patches |-> Patches, how |-> "delta"]
  <2>1. /\ Growing(c) /\ tree' \in Tree /\ Tip' = Newest + 1 /\ Len(made') = Newest + 1
        /\ UNCHANGED target
    BY <1>1, <1>2, <1>5, Indexing DEF Automatic
  <2>2. Growing(c)
    BY <2>1
  <2>3. /\ c.how = "delta" /\ c.base = lease.target /\ c.of = lease.source
    BY <1>2, <1>5 DEF Exactly
  <2> HIDE DEF c
  <2>4. Moves("verify", Newest + 1) /\ Newest + 1 # NoSha /\ made'[Newest + 1] = c
    BY <1>1, <1>5, <2>1, <2>2, Noting, Growth DEF PinnedInv, Steps
  <2>5. LeaseAt("verify")'
    BY <1>1, <1>2, <1>5 DEF LeaseAt, Open, Starting, Creating, world
  <2>6. TipAt("verify", job.head)'
    BY <1>5, <2>3, <2>4 DEF TipAt, Content, How, Automatic, Moves
  <2> QED BY <1>1, <1>2, <1>5, <2>1, <2>2, <2>3, <2>4, <2>5, <2>6, Committing DEF Steps, Automatic, Moves
<1> QED BY <1>3, <1>4, <1>5 DEF SyncCommit

LEMMA RecoveryMerges ==
  ASSUME PinnedInv, RecoverMerge
  PROVE  PinnedInv'
<1>1. /\ job.pc = "merge" /\ job.pc # "none"
      /\ UNCHANGED <<lease, reserved, origin, verified, world>>
  BY DEF RecoverMerge, At
<1>2. /\ Open /\ tree \in Tree /\ lease.source = job.source /\ kind = "sync"
  BY <1>1, Now DEF PinnedInv, JobInv, LeaseAt, Starting, Creating
<1>3. CASE RestoreIndex /\ UNCHANGED made
  <2>1. Tip' = Tip /\ tree' \in Tree /\ End
    BY <1>2, <1>3 DEF RestoreIndex, Unstaged, Tip, Tree
  <2>2. Reserving /\ verified \subseteq verified' /\ verified' \subseteq Sha
    BY <1>1, Now DEF Reserving
  <2> QED BY <1>1, <1>3, <2>1, <2>2, Quitting
<1>4. CASE /\ Tip = lease.target /\ CommitIndex("manual", "clean")
           /\ job' = [job EXCEPT !.pc = "recovered", !.head = Len(made')]
  <2> DEFINE c == [base |-> Tip, of |-> job.source, patches |-> Patches, how |-> "manual"]
  <2>1. /\ Growing(c) /\ tree' \in Tree /\ Tip' = Newest + 1 /\ Len(made') = Newest + 1
        /\ UNCHANGED target
    BY <1>1, <1>2, <1>4, Indexing DEF Automatic
  <2>2. Growing(c)
    BY <2>1
  <2>3. c.how = "manual" /\ c.base = lease.target /\ c.of = lease.source
    BY <1>2, <1>4
  <2> HIDE DEF c
  <2>4. Moves("recovered", Newest + 1) /\ Newest + 1 # NoSha /\ made'[Newest + 1] = c
    BY <1>1, <1>4, <2>1, <2>2, Noting, Growth DEF PinnedInv, Steps
  <2>5. LeaseAt("recovered")'
    BY <1>1, <1>2, <1>4 DEF LeaseAt, Open, Starting, Creating, world
  <2>6. TipAt("recovered", job.head)'
    BY <1>1, <2>3, <2>4 DEF TipAt, Content, How, Automatic, Moves
  <2> QED BY <1>1, <1>2, <1>4, <2>1, <2>2, <2>3, <2>4, <2>5, <2>6, Committing DEF Steps, Automatic, Moves
<1> QED BY <1>3, <1>4 DEF RecoverMerge

\* What the running command knows, when others commit around it.
LEMMA GrownJob ==
  ASSUME PinnedInv, NEW c, Growing(c), UNCHANGED <<job, lease>>, Seen <= Seen', Seen' \in Nat,
         tree.there' = tree.there, tree.applied' = tree.applied,
         \/ UNCHANGED tree
         \/ /\ Tip' = Newest + 1 /\ c.how = "user"
            /\ ~(tree.there /\ tree.files # "clean")
  PROVE  JobInv'
<1>1. UNCHANGED <<kind, source, reserved, verified, lease, job>>
  BY DEF Growing
<1>2. JobRead'
  <2>1. target \in Nat /\ target <= target'
    BY Growth DEF PinnedInv, MadeInv, Growing, Commits
  <2>2. job # NoJob => job.target \in Nat /\ job.target <= target'
    <3>1. job # NoJob => job.target \in Nat /\ job.target <= target
      BY DEF PinnedInv, JobInv, JobRead, Commits
    <3>2. target' \in Nat
      BY <2>1, Growth DEF Growing
    <3> QED BY <2>1, <3>1, <3>2
  <2> QED BY <1>1, <2>2, Growth DEF PinnedInv, JobInv, JobRead, How
<1>3. Open => /\ lease.head \in Commits /\ lease.target \in Commits
              /\ made'[lease.head] = made[lease.head]
  BY OpenRow, Growth
<1>4. LeaseAt(job.pc)'
  <2>1. job.pc = "publish" => Open
    BY DEF PinnedInv, JobInv, LeaseAt, Starting, Creating
  <2>2. job.pc = "publish" => Content(lease.head)'
    BY <1>1, <1>3, <2>1 DEF PinnedInv, JobInv, LeaseAt, Content, How
  <2> QED BY <1>1, <2>2 DEF PinnedInv, JobInv, LeaseAt, Live, Open, OutOfOrder
<1>5. ASSUME job # NoJob
      PROVE  TipAt(job.pc, job.head)'
  <2>1. TipAt(job.pc, job.head) /\ LeaseAt(job.pc)
    BY <1>5 DEF PinnedInv, JobInv
  <2>2. job.head \in Commits \cup {NoSha}
    BY <1>5 DEF PinnedInv, JobInv, JobRead
  <2>3. job.head # NoSha => made'[job.head] = made[job.head]
    BY <2>2, Growth
  <2>4. job.pc \in {"reset", "rebuilt"} => Placed(lease.head)'
    <3>1. job.pc \in {"reset", "rebuilt"} => Open
      BY <2>1 DEF LeaseAt, Starting, Creating
    <3>2. ASSUME job.pc \in {"reset", "rebuilt"} PROVE Placed(lease.head)'
      <4>1. lease.head \in Commits /\ Placed(lease.head)
        BY <1>3, <2>1, <3>1, <3>2 DEF TipAt
      <4>2. \A i \in Commits : Placed(i) => Placed(i)'
        BY <1>1, PlacedStays
      <4> QED BY <1>1, <4>1, <4>2 DEF Placed, OnTarget, How, Rebuilt
    <3> QED BY <3>2
  <2>5. CASE UNCHANGED tree
    <3>1. Tip' = Tip /\ Tip \in Commits \cup {NoSha}
      BY <2>5 DEF Tip, PinnedInv, TipInv
    <3>2. Tip # NoSha => made'[Tip] = made[Tip]
      BY <3>1, Growth
    <3>3. Tip # NoSha /\ How(Tip) \in Automatic => made'[made[Tip].base] = made[made[Tip].base]
      BY <3>1, Growth DEF PinnedInv, MadeInv
    <3>4. Users(Tip) => Users(Tip)'
      BY <3>1, <3>2 DEF Users, How
    <3>5. Open => Tip \in Commits /\ Tip # NoSha
      BY OpenRow, PinnedAssumption
    <3>6. job.pc \in {"rebuild", "rebuilt", "unrecorded", "manual", "amending", "amended", "resolution"} => Open
      BY <2>1 DEF LeaseAt, Starting, Creating
    <3> QED BY <1>1, <2>1, <2>3, <2>4, <2>5, <3>1, <3>2, <3>3, <3>4, <3>5, <3>6
            DEF TipAt, Content, How, OnTarget, Strict, Users
  <2>6. CASE /\ Tip' = Newest + 1 /\ c.how = "user"
             /\ ~(tree.there /\ tree.files # "clean")
    <3>1. made'[Tip'] = c /\ Tip' # NoSha
      BY <2>6, Growth
    <3>2. Users(Tip)' /\ How(Tip)' = "user"
      BY <2>6, <3>1 DEF Users, How
    <3>3. ~OnTarget(Tip)'
      BY <3>2 DEF OnTarget, Automatic, How
    <3>4. Tip' # job.head /\ (Open => Tip' # lease.head)
      BY <1>3, <2>2, <2>6, <3>1, Growth
    <3>5. job.pc \in {"manual", "rebuild"} => Open
      BY <2>1 DEF LeaseAt, Starting, Creating
    <3>6. job.pc # "amending"
      BY <2>1, <2>6 DEF TipAt
    <3> QED BY <1>1, <2>1, <2>3, <2>4, <3>2, <3>3, <3>4, <3>5, <3>6
            DEF TipAt, Content, How, Strict, Users
  <2> QED BY <2>5, <2>6
<1> QED BY <1>2, <1>4, <1>5 DEF JobInv

LEMMA TargetAdvances ==
  ASSUME PinnedInv, TargetMoves
  PROVE  PinnedInv'
<1> DEFINE c == [base |-> target, of |-> NoSource, patches |-> 0, how |-> "target"]
<1>1. /\ made' = Append(made, c) /\ Newest + 1 \in Sha /\ target' = Len(made')
      /\ UNCHANGED <<kind, lease, reserved, tree, origin, source, verified, job, crashes>>
  BY DEF TargetMoves, Newest
<1>2. c \in Commit
  <2>1. target \in Sha /\ 0 \in 0..Patches
    BY PinnedAssumption DEF PinnedInv, TypesInv, TypeOK
  <2> QED BY <2>1 DEF Commit
<1>3. Newest \in Nat /\ Len(made') = Newest + 1
  BY <1>1, <1>2 DEF PinnedInv, TypesInv, Newest
<1>4. Growing(c)
  BY <1>1, <1>2, <1>3 DEF Growing, Automatic
<1> HIDE DEF c
<1>5. target \in Nat /\ target <= Newest /\ target' = Newest + 1
  BY <1>1, <1>3 DEF PinnedInv, MadeInv, Commits
<1>6. Seen <= Seen' /\ Seen' \in Nat
  BY <1>1, <1>3, <1>5, Now DEF Seen
<1>7. RowInv' /\ ReadyMeansVerified'
  BY <1>1, <1>4, <1>6, GrownRow
<1>8. Tip' = Tip /\ tree' \in Tree
  BY <1>1, Now DEF Tip
<1>9. TypesInv'
  BY <1>1, <1>4, <1>8, GrownTypes DEF PinnedInv, TypesInv, TypeOK
<1>10. TipInv'
  <2>1. Tip' \in Commits' \cup {NoSha} /\ Live' = Live /\ kind' = kind
    BY <1>1, <1>4, <1>8, Growth DEF PinnedInv, TipInv, Live
  <2>2. ASSUME kind # "sync", Live PROVE Placed(Tip)'
    <3>1. Tip \in Commits /\ Placed(Tip)
      BY <2>2 DEF PinnedInv, TipInv
    <3>2. \A i \in Commits : Placed(i) => Placed(i)'
      BY <1>1, <1>4, <1>6, PlacedStays
    <3> QED BY <1>8, <3>1, <3>2 DEF Placed, OnTarget, How, Rebuilt
  <2> QED BY <1>8, <2>1, <2>2 DEF PinnedInv, TipInv
<1>11. JobInv'
  BY <1>1, <1>4, <1>6, GrownJob
<1> QED BY <1>4, <1>7, <1>9, <1>10, <1>11, Grown

LEMMA UserCommits ==
  ASSUME PinnedInv, UserCommit
  PROVE  PinnedInv'
<1> DEFINE c == [base |-> Tip, of |-> NoSource, patches |-> 0, how |-> "user"]
<1>1. /\ made' = Append(made, c) /\ Newest + 1 \in Sha /\ tree' = [tree EXCEPT !.tip = Len(made')]
      /\ ~(tree.there /\ tree.files # "clean")
      /\ UNCHANGED <<kind, lease, reserved, origin, source, target, verified, job, crashes>>
  BY DEF UserCommit, Newest, CleanTree
<1>2. c \in Commit /\ tree \in Tree
  <2>1. tree \in Tree /\ Tip \in Sha \cup {NoSha} /\ 0 \in 0..Patches
    BY Now, PinnedAssumption DEF Tree, Tip
  <2> QED BY <2>1 DEF Commit
<1>3. Newest \in Nat /\ Len(made') = Newest + 1
  BY <1>1, <1>2 DEF PinnedInv, TypesInv, Newest
<1>4. Growing(c)
  BY <1>1, <1>2 DEF Growing, Automatic
<1>5. c.how = "user"
  OBVIOUS
<1> HIDE DEF c
<1>6. Seen' = Seen /\ Seen <= Seen' /\ Seen' \in Nat
  BY <1>1, Now DEF Seen
<1>7. RowInv' /\ ReadyMeansVerified'
  BY <1>1, <1>4, <1>6, GrownRow
<1>8. /\ Tip' = Newest + 1 /\ tree' \in Tree
      /\ tree.there' = tree.there /\ tree.applied' = tree.applied
  BY <1>1, <1>2, <1>3 DEF Tip, Tree
<1>9. TypesInv'
  BY <1>1, <1>4, <1>8, GrownTypes DEF PinnedInv, TypesInv, TypeOK
<1>10. TipInv'
  <2>1. Tip' \in Commits' /\ Tip' # NoSha /\ made'[Tip'] = c
    BY <1>4, <1>8, Growth
  <2>2. Placed(Tip)'
    BY <1>5, <2>1 DEF Placed, OnTarget, How, Automatic
  <2> QED BY <2>1, <2>2 DEF TipInv
<1>11. JobInv'
  BY <1>1, <1>4, <1>5, <1>6, <1>8, GrownJob
<1> QED BY <1>4, <1>7, <1>9, <1>10, <1>11, Grown

-----------------------------------------------------------------------------
(* promote: a new lease. *)

LEMMA PromoteBegins ==
  ASSUME PinnedInv, PromoteBegin \/ AmendBegin \/ AbandonBegin
  PROVE  PinnedInv'
<1>1. CASE PromoteBegin
  BY <1>1, Beginning DEF PromoteBegin
<1>2. CASE AmendBegin
  BY <1>2, Beginning DEF AmendBegin
<1>3. CASE AbandonBegin
  BY <1>3, Beginning DEF AbandonBegin, Promotions
<1> QED BY <1>1, <1>2, <1>3

LEMMA PromoteStarts ==
  ASSUME PinnedInv, PromoteStart \/ PromoteSources
  PROVE  PinnedInv'
<1>1. job.pc \in {"promote", "sources"} /\ job.pc # "none"
  BY DEF PromoteStart, PromoteSources, At
<1>2. CASE Stop
  BY <1>1, <1>2, Stopping
<1>3. CASE ~Live /\ (Go("sources") \/ Go("worktree")) /\ UNCHANGED vars_
  <2>1. \A pc \in {"sources", "worktree"} : LeaseAt(pc) /\ TipAt(pc, job.head)
    BY <1>1, <1>3 DEF LeaseAt, TipAt, Starting, Creating, PinnedInv, JobInv
  <2>2. {"sources", "worktree"} \subseteq Steps
    BY DEF Steps
  <2> QED BY <1>1, <1>3, <2>1, <2>2, PlainGo
<1>4. CASE Live /\ job.pc = "promote" /\ Go("reuse") /\ UNCHANGED vars_
  <2>1. LeaseAt("reuse") /\ TipAt("reuse", job.head)
    BY <1>4 DEF LeaseAt, TipAt, Starting, Creating, PinnedInv, JobInv
  <2> QED BY <1>1, <1>4, <2>1, PlainGo DEF Steps
<1>5. job.pc = "sources" => ~Live
  BY DEF PinnedInv, JobInv, LeaseAt, Creating
<1> QED BY <1>2, <1>3, <1>4, <1>5 DEF PromoteStart, PromoteSources, At

\* The earliest of the patches that conflict is one of them.
LEMMA EarliestIn ==
  ASSUME NEW S \in SUBSET Nat, S # {}
  PROVE  Earliest(S) \in S
<1>1. PICK k \in S : \A l \in S : ~(<<l, k>> \in OpToRel(<, Nat))
  <2> HIDE DEF OpToRel
  <2> QED BY NatLessThanWellFounded, WFMin
<1>2. ASSUME NEW l \in S PROVE k <= l
  <2>1. k \in Nat /\ l \in Nat
    BY <1>2
  <2>2. l < k => <<l, k>> \in OpToRel(<, Nat)
    BY <2>1 DEF OpToRel
  <2>3. ~(l < k)
    BY <1>1, <1>2, <2>2, Zenon
  <2> QED BY <2>1, <2>3
<1> QED BY <1>2 DEF Earliest

\* The tree after the patches that apply; how far they got when one conflicts.
LEMMA Applying ==
  ASSUME PinnedInv, NEW done \in 0..Patches, NEW NextPc, NEW Failed,
         ApplyAfter(done, NextPc, Failed)
  PROVE  /\ tree' \in Tree /\ Tip' = Tip
         /\ \/ Go(NextPc) /\ UNCHANGED lease
            \/ Go("conflict") /\ UNCHANGED lease /\ tree'.applied < Patches
            \/ Failed
<1>1. tree \in Tree /\ Patches \in Nat
  BY Now, PinnedAssumption
<1>2. CASE tree' = [tree EXCEPT !.files = "patched", !.applied = Patches]
           /\ Go(NextPc) /\ UNCHANGED lease
  <2>1. Patches \in 0..Patches
    BY <1>1
  <2> QED BY <1>1, <1>2, <2>1 DEF Tree, Tip
<1>3. CASE /\ Conflicts(done) # {}
           /\ tree' = [tree EXCEPT !.files = "conflict",
                                   !.applied = Earliest(Conflicts(done)) - 1]
           /\ Go("conflict") /\ UNCHANGED lease
  <2>1. Conflicts(done) \in SUBSET Nat /\ Conflicts(done) \subseteq 1..Patches
    BY <1>1 DEF Conflicts
  <2>2. Earliest(Conflicts(done)) \in 1..Patches
    BY <1>3, <2>1, EarliestIn
  <2>3. /\ Earliest(Conflicts(done)) - 1 \in 0..Patches
        /\ Earliest(Conflicts(done)) - 1 < Patches
    BY <1>1, <2>2
  <2> QED BY <1>1, <1>3, <2>3 DEF Tree, Tip
<1>4. CASE /\ Failed
           /\ \E k \in done .. Patches - 1 :
                tree' = IF k = done THEN tree
                        ELSE [tree EXCEPT !.applied = k, !.files = "patched"]
  <2>1. PICK k \in 0..Patches : tree' = tree \/ tree' = [tree EXCEPT !.applied = k, !.files = "patched"]
    <3>1. done .. Patches - 1 \subseteq 0..Patches
      BY <1>1
    <3> QED BY <1>4, <3>1
  <2> QED BY <1>1, <1>4, <2>1 DEF Tree, Tip
<1> QED BY <1>2, <1>3, <1>4 DEF ApplyAfter

LEMMA PromoteApplies ==
  ASSUME PinnedInv, PromoteApply
  PROVE  PinnedInv'
<1>1. /\ job.pc = "apply" /\ job.pc # "none" /\ kind # "sync"
      /\ UNCHANGED <<reserved, made, origin, verified, world>>
  BY DEF PromoteApply, At, promotion, Promotions
<1>2. /\ Open /\ tree \in Tree /\ lease.state = "ACTIVE"
      /\ lease.source = job.source /\ lease.target = job.target
  BY <1>1, Now DEF PinnedInv, JobInv, LeaseAt, Starting, Creating
<1>3. CASE BlockP("apply_failed") /\ UNCHANGED tree
  BY <1>1, <1>2, <1>3, Blocking DEF BlockP, Blockings, BlockedRow, Tip
<1>4. CASE ApplyAfter(0, "commit", BlockP("apply_failed"))
  <2>1. 0 \in 0..Patches
    BY PinnedAssumption
  <2>2. /\ tree' \in Tree /\ Tip' = Tip
        /\ \/ Go("commit") /\ UNCHANGED lease
           \/ Go("conflict") /\ UNCHANGED lease /\ tree'.applied < Patches
           \/ BlockP("apply_failed")
    BY <1>4, <2>1, Applying
  <2>3. CASE BlockP("apply_failed")
    BY <1>1, <1>2, <2>2, <2>3, Blocking DEF BlockP, Blockings, BlockedRow
  <2>4. CASE /\ UNCHANGED lease
             /\ \E pc \in {"commit", "conflict"} :
                  Go(pc) /\ (pc = "conflict" => tree'.applied < Patches)
    <3>1. PICK pc \in {"commit", "conflict"} :
             Go(pc) /\ (pc = "conflict" => tree'.applied < Patches)
      BY <2>4
    <3>2. Moves(pc, job.head) /\ job.head \in Commits \cup {NoSha}
      BY <1>1, <3>1, Going, Now DEF PinnedInv, Steps
    <3>3. LeaseAt(pc)'
      BY <1>1, <1>2, <2>4, <3>1, <3>2 DEF LeaseAt, Open, Starting, Creating, world, Moves
    <3>4. TipAt(pc, job.head)'
      BY DEF TipAt
    <3>5. Reserving /\ verified \subseteq verified' /\ verified' \subseteq Sha /\ pc \in Steps
      BY <1>1, Now DEF Reserving, Steps
    <3> QED BY <1>1, <2>2, <2>4, <3>2, <3>3, <3>4, <3>5, GoOn DEF Moves
  <2> QED BY <2>2, <2>3, <2>4
<1> QED BY <1>3, <1>4 DEF PromoteApply

LEMMA PromoteCommits ==
  ASSUME PinnedInv, PromoteCommit
  PROVE  PinnedInv'
<1>1. /\ job.pc = "commit" /\ job.pc # "none" /\ kind # "sync"
      /\ UNCHANGED <<reserved, origin, verified, world>>
  BY DEF PromoteCommit, At, promotion, Promotions
<1>2. /\ Open /\ lease.state = "ACTIVE" /\ tree \in Tree
      /\ lease.source = job.source /\ lease.target = job.target
  BY <1>1, Now DEF PinnedInv, JobInv, LeaseAt, Starting, Creating
<1>3. CASE BlockP("apply_failed") /\ UNCHANGED <<made, tree>>
  BY <1>1, <1>2, <1>3, Blocking DEF BlockP, Blockings, BlockedRow, Tip
<1>4. CASE /\ CommitIndex("delta", "clean")
           /\ \E why \in {"delta_mismatch", "staging_missing"} : CommitBlocked(why)
  BY <1>1, <1>2, <1>4, CommitBlocks DEF CommitBlocked, Automatic
<1>5. CASE /\ CommitIndex("delta", "clean") /\ Exactly
           /\ job' = [job EXCEPT !.pc = "verify", !.head = Len(made')]
           /\ UNCHANGED lease
  <2> DEFINE c == [base |-> Tip, of |-> job.source, patches |-> Patches, how |-> "delta"]
  <2>1. /\ Growing(c) /\ tree' \in Tree /\ Tip' = Newest + 1 /\ Len(made') = Newest + 1
        /\ UNCHANGED target
    BY <1>1, <1>2, <1>5, Indexing DEF Automatic
  <2>2. Growing(c)
    BY <2>1
  <2>3. /\ c.how = "delta" /\ c.base = lease.target /\ c.of = lease.source
    BY <1>2, <1>5 DEF Exactly
  <2> HIDE DEF c
  <2>4. Moves("verify", Newest + 1) /\ Newest + 1 # NoSha /\ made'[Newest + 1] = c
    BY <1>1, <1>5, <2>1, <2>2, Noting, Growth DEF PinnedInv, Steps
  <2>5. LeaseAt("verify")'
    BY <1>1, <1>2, <1>5 DEF LeaseAt, Open, Starting, Creating, world
  <2>6. TipAt("verify", job.head)'
    BY <1>5, <2>3, <2>4 DEF TipAt, Content, How, Automatic, Moves
  <2>7. c.base <= Seen
    BY <1>2, <2>3 DEF PinnedInv, RowInv, Open
  <2> QED BY <1>1, <1>2, <1>5, <2>1, <2>2, <2>3, <2>4, <2>5, <2>6, <2>7, Committing
          DEF Steps, Automatic, Moves
<1> QED BY <1>3, <1>4, <1>5 DEF PromoteCommit

\* A row that a promotion writes for its lease, short of PR_OPEN.
LEMMA PromotionRow ==
  ASSUME PinnedInv, Open, kind # "sync", job.pc # "none",
         NEW pc \in Steps, NEW head \in Commits \cup {NoSha},
         End \/ (Moves(pc, head) /\ LeaseAt(pc)' /\ TipAt(pc, job.head)'),
         lease' \in Lease, lease'.state \in {"ACTIVE", "BLOCKED"},
         lease'.source = lease.source, lease'.head \in Commits, lease'.target \in Commits,
         How(lease'.target) = "target", lease'.target <= Seen', Placed(Tip)',
         lease'.resolution = "PENDING" =>
           OutOfOrder /\ lease'.state = "BLOCKED" /\ lease'.why = "conflict",
         lease'.why = "publish_pending" => Content(lease.head)',
         lease'.state = "ACTIVE" => lease'.why = "publish_pending",
         UNCHANGED <<reserved, made, origin, world>>, Tip' = Tip, tree' \in Tree,
         verified \subseteq verified', verified' \subseteq Sha
  PROVE  PinnedInv'
<1>1. lease \in Lease /\ lease # NoLease /\ lease' # NoLease /\ Live /\ Tip \in Commits
  BY OpenRow, PinnedAssumption
<1>2. UNCHANGED <<made, remote, pull, kind, source, target>>
  BY DEF origin, world
<1>3. JobRead' /\ job' \in Job \cup {NoJob}
  BY ReadKept, InStep DEF Moves, PinnedInv, End
<1>4. JobInv'
  <2>1. CASE End
    BY <1>3, <2>1, Ending DEF JobInv
  <2>2. CASE Moves(pc, head) /\ LeaseAt(pc)' /\ TipAt(pc, job.head)'
    BY <1>3, <2>2 DEF JobInv, Moves
  <2> QED BY <2>1, <2>2
<1>5. TypesInv'
  BY <1>3, SameTypes DEF PinnedInv, TypesInv, TypeOK
<1>6. RowInv'
  BY <1>1, <1>2 DEF PinnedInv, RowInv, Commits, Newest, How, Live, OutOfOrder
<1>7. TipInv'
  BY <1>1, <1>2, PinnedAssumption DEF PinnedInv, TypesInv, TipInv, Live, Commits, Newest
<1>8. ReadyMeansVerified'
  BY DEF ReadyMeansVerified
<1> QED BY <1>4, <1>5, <1>6, <1>7, <1>8, NewRow

LEMMA PromoteRecordsConflict ==
  ASSUME PinnedInv, PromoteConflict
  PROVE  PinnedInv'
<1>1. /\ job.pc = "conflict" /\ job.pc # "none" /\ kind # "sync"
      /\ UNCHANGED <<reserved, made, tree, origin, verified, world>> /\ Tip' = Tip
  BY DEF PromoteConflict, At, promotion, Promotions, Tip
<1>2. /\ Open /\ tree \in Tree /\ verified \subseteq Sha
      /\ lease.state = "ACTIVE" \/ lease.resolution = "PENDING"
      /\ tree.applied < Patches
  BY <1>1, Now DEF PinnedInv, JobInv, LeaseAt, Starting, Creating
<1>3. CASE BlockP("apply_failed")
  BY <1>1, <1>2, <1>3, Blocking DEF BlockP, Blockings, BlockedRow, Tip
<1>4. CASE /\ OutOfOrder /\ End
           /\ lease' = [lease EXCEPT !.state = "BLOCKED", !.why = "conflict",
                          !.head = Tip, !.resolution = "PENDING",
                          !.ordinal = tree.applied + 1, !.applied = tree.applied]
  <2>1. lease \in Lease /\ lease.target \in Commits /\ Tip \in Commits /\ Tip \in Sha /\ Live
    BY <1>2, OpenRow
  <2>2. tree.applied + 1 \in 0..Patches /\ tree.applied \in 0..Patches
    BY <1>2, PinnedAssumption DEF Tree
  <2>3. /\ lease' \in Lease /\ lease'.state = "BLOCKED" /\ lease'.why = "conflict"
        /\ lease'.head = Tip /\ lease'.target = lease.target /\ lease'.source = lease.source
        /\ lease'.resolution = "PENDING"
    BY <1>4, <2>1, <2>2 DEF Lease
  <2>4. ~Rebuilt(made[Tip].base) /\ ~Rebuilt(Tip) /\ Placed(Tip)
    BY <1>1, <1>2, <2>1 DEF PinnedInv, TipInv, RowInv, Rebuilt
  <2>5. Seen <= Seen' /\ Seen' \in Nat /\ Seen \in Nat /\ lease.target \in Nat
        /\ lease.target <= Seen
    <3>1. Seen <= Seen'
      BY <1>1, <1>4, ReadKept, InStep DEF End, PinnedInv
    <3>2. Seen' = target
      BY <1>1, <1>4 DEF Seen, End, world
    <3>3. target \in Nat /\ lease.target \in Nat /\ lease.target <= Seen
      BY <1>2, <2>1, PinnedAssumption DEF PinnedInv, TypesInv, TypeOK, RowInv, Lease, Open
    <3> QED BY <3>1, <3>2, <3>3, Now
  <2>6. Placed(Tip)'
    <3>1. How(Tip) \in Automatic => made[Tip].base \in Nat
      BY <2>1 DEF PinnedInv, MadeInv, Commits
    <3> QED BY <1>1, <2>3, <2>4, <2>5, <3>1 DEF Placed, OnTarget, How
  <2>7. How(lease'.target) = "target" /\ lease'.target <= Seen'
    BY <1>2, <2>3, <2>5 DEF PinnedInv, RowInv, Open
  <2>8. "conflict" \in Steps /\ NoSha \in Commits \cup {NoSha}
    BY DEF Steps
  <2> QED BY <1>1, <1>2, <1>4, <2>1, <2>3, <2>6, <2>7, <2>8, PromotionRow
<1> QED BY <1>1, <1>3, <1>4 DEF PromoteConflict

\* A target that the row has, and a branch that is on it.
LEMMA KeptTarget ==
  ASSUME PinnedInv, Open, kind # "sync", job.pc # "none", Strict(Tip),
         UNCHANGED <<made, world>>, Tip' = Tip, lease'.target = lease.target,
         End \/ \E pc \in Steps, head \in Commits \cup {NoSha} : Moves(pc, head)
  PROVE  /\ lease'.target \in Commits /\ How(lease'.target) = "target"
         /\ lease'.target <= Seen' /\ Placed(Tip)'
<1>1. /\ lease \in Lease /\ lease.target \in Commits /\ Tip \in Commits /\ Live
      /\ lease # NoLease /\ job # NoJob
  BY OpenRow, InStep DEF PinnedInv
<1>2. Seen <= Seen' /\ job' \in Job \cup {NoJob}
  BY <1>1, ReadKept DEF End, Moves
<1>3. Seen \in Nat /\ Seen' \in Nat /\ lease.target \in Nat
  BY <1>1, <1>2, Now, PinnedAssumption DEF PinnedInv, TypesInv, TypeOK, Seen, Job, Lease, world
<1>4. lease.target <= Seen' /\ How(lease.target) = "target"
  BY <1>1, <1>2, <1>3 DEF PinnedInv, RowInv
<1>5. How(Tip) = "target" => Tip = lease.target
  BY DEF Strict
<1>6. Placed(Tip)'
  BY <1>1, <1>3, <1>4, <1>5 DEF Strict, Placed, OnTarget, How
<1> QED BY <1>1, <1>4, <1>6

\* _record_pending_publish, for a head that is what the lease promises.
LEMMA Publishes ==
  ASSUME PinnedInv, Open, kind # "sync", job.pc # "none", Strict(Tip),
         NEW head \in Commits, Content(head),
         NEW resolution \in {"NONE", "AUTOMATIC", "MANUAL_REVIEWED"},
         lease' = ToPublish(head, resolution),
         NEW pc \in {"check", "publish"}, Go(pc), pc = "check" => job.pc = "record",
         verified \subseteq verified', verified' \subseteq Sha,
         UNCHANGED <<reserved, made, tree, origin, world>>
  PROVE  PinnedInv'
<1>1. /\ lease \in Lease /\ head \in Sha /\ tree \in Tree
  BY Now, OpenRow DEF PinnedInv, TypesInv
<1>2. /\ lease' \in Lease /\ lease'.state = "ACTIVE" /\ lease'.why = "publish_pending"
      /\ lease'.head = head /\ lease'.target = lease.target /\ lease'.source = lease.source
      /\ lease'.resolution = resolution
  BY <1>1 DEF ToPublish, Lease
<1>3. lease' # NoLease /\ Tip' = Tip
  BY <1>2, PinnedAssumption DEF Tip
<1>4. Moves(pc, job.head) /\ job.head \in Commits \cup {NoSha} /\ pc \in Steps
  BY Going, Now DEF PinnedInv, Steps
<1>5. Content(lease.head)'
  BY <1>2 DEF Content, How
<1>6. LeaseAt(pc)'
  BY <1>2, <1>3, <1>5 DEF LeaseAt, Open, Starting, Creating, world
<1>7. TipAt(pc, job.head)'
  <2>1. pc = "check" => /\ job.head # NoSha /\ Content(job.head)
                        /\ Tip \in verified \/ Users(Tip)
    BY InStep DEF PinnedInv, JobInv, TipAt
  <2> QED BY <1>2, <1>3, <1>4, <2>1 DEF TipAt, Content, How, Users, Moves
<1>8. /\ lease'.target \in Commits /\ How(lease'.target) = "target"
      /\ lease'.target <= Seen' /\ Placed(Tip)'
  BY <1>2, <1>3, <1>4, KeptTarget
<1> QED BY <1>1, <1>2, <1>3, <1>4, <1>5, <1>6, <1>7, <1>8, PromotionRow

\* An active lease is on its target.
LEMMA ActiveIsStrict ==
  ASSUME PinnedInv, Open, kind # "sync",
         lease.state = "ACTIVE" \/ lease.resolution = "PENDING"
  PROVE  Strict(Tip)
<1>1. Live /\ lease # NoLease /\ Placed(Tip)
  BY OpenRow DEF PinnedInv, TipInv
<1>2. \A base : ~Rebuilt(base)
  BY <1>1 DEF PinnedInv, RowInv, Rebuilt
<1> QED BY <1>1, <1>2 DEF Placed, Strict

LEMMA PromotePublishes ==
  ASSUME PinnedInv,
         PromoteVerify \/ PromoteRecord \/ PromoteCheck \/ PromotePush \/ PromoteOpen
  PROVE  PinnedInv'
<1>1. /\ job.pc \in {"verify", "record", "check", "push", "exact"} /\ kind # "sync"
  BY DEF PromoteVerify, PromoteRecord, PromoteCheck, PromotePush, PromoteOpen, At,
     promotion, Promotions
<1>2. /\ Open /\ job.pc # "none" /\ job # NoJob /\ tree \in Tree /\ verified \subseteq Sha
      /\ job.head # NoSha /\ Content(job.head) /\ job.head \in Commits
      /\ lease.state = "ACTIVE" /\ Tip \in Commits /\ Tip \in Sha
  BY <1>1, Publishing, Now, OpenRow
<1>3. ASSUME UNCHANGED <<reserved, made, tree, origin, verified, world>>,
             NEW why \in Blockings, BlockP(why)
      PROVE  PinnedInv'
  BY <1>1, <1>2, <1>3, Blocking DEF BlockP, BlockedRow, Tip
<1>4. CASE PromoteVerify
  <2>1. CASE Unverified /\ UNCHANGED verified
    BY <1>3, <1>4, <2>1 DEF PromoteVerify, Unverified, Blockings
  <2>2. CASE Verified("record")
    <3>1. UNCHANGED <<lease, reserved, made, tree, origin, world>> /\ Tip' = Tip
          /\ verified' = verified \cup {Tip} /\ Go("record") /\ job.pc = "verify"
      BY <1>4, <2>2 DEF PromoteVerify, Verified, Tip, At
    <3>2. Moves("record", job.head)
      BY <1>2, <3>1, Going DEF PinnedInv, Steps
    <3>3. LeaseAt("record")'
      BY <1>1, <1>2, <3>1 DEF LeaseAt, Open, Starting, Creating, world
    <3>4. TipAt("record", job.head)'
      BY <1>2, <3>1, <3>2 DEF TipAt, Content, How, Moves
    <3> QED BY <1>2, <3>1, <3>2, <3>3, <3>4, GoOn DEF Reserving, Steps, Moves
  <2> QED BY <1>4, <2>1, <2>2 DEF PromoteVerify
<1>5. CASE PromoteRecord
  BY <1>1, <1>2, <1>5, ActiveIsStrict, Publishes DEF PromoteRecord, At
<1>6. CASE PromoteCheck
  <2>1. CASE Go("push") /\ UNCHANGED lease
    <3>1. TipAt("check", job.head) /\ UNCHANGED vars_
      BY <1>2, <1>6, <2>1 DEF PinnedInv, JobInv, PromoteCheck, At, vars_
    <3>2. LeaseAt("push") /\ TipAt("push", job.head)
      BY <1>1, <1>2, <3>1 DEF LeaseAt, TipAt, Starting, Creating
    <3> QED BY <1>2, <2>1, <3>1, <3>2, PlainGo DEF Steps
  <2> QED BY <1>3, <1>6, <2>1 DEF PromoteCheck, Blockings
<1>7. CASE PromotePush
  <2>1. CASE Stop
    BY <1>2, <2>1, Stopping
  <2>2. CASE Go("exact") /\ UNCHANGED vars_
    <3>1. LeaseAt("exact") /\ TipAt("exact", job.head)
      BY <1>1, <1>2 DEF LeaseAt, TipAt, Starting, Creating
    <3> QED BY <1>2, <2>2, <3>1, PlainGo DEF Steps
  <2>3. CASE Pushed(Tip) /\ Go("pull") /\ UNCHANGED <<lease, reserved, made, tree, verified, world>>
    <3>1. Tip \in verified \/ Users(Tip)
      BY <1>2, <1>7 DEF PinnedInv, JobInv, TipAt, PromotePush, At
    <3> QED BY <1>1, <1>2, <2>3, <3>1, Pushing
  <2> QED BY <1>7, <2>1, <2>2, <2>3 DEF PromotePush
<1>8. CASE PromoteOpen
  <2>1. CASE ExactHead
    BY <1>8, <2>1, Opening DEF PromoteOpen, ExactHead
  <2>2. CASE ~ExactHead
    BY <1>3, <1>8, <2>2 DEF PromoteOpen, Blockings
  <2> QED BY <2>1, <2>2
<1> QED BY <1>4, <1>5, <1>6, <1>7, <1>8

-----------------------------------------------------------------------------
(* promote: the lease there is. *)

LEMMA Continues ==
  ASSUME PinnedInv, job.pc # "none", NEW pc \in Steps, Continue(pc), Tip \in Commits,
         LeaseAt(pc), TipAt(pc, Tip)
  PROVE  PinnedInv'
<1>1. job \in Job /\ job # NoJob /\ Tip \in Sha
  BY InStep DEF PinnedInv, TypesInv
<1>2. Moves(pc, Tip)
  <2>1. job' = [job EXCEPT !.pc = pc, !.command = "resume", !.head = Tip]
    BY DEF Continue
  <2> QED BY <1>1, <2>1 DEF Moves, Job
<1>3. UNCHANGED <<lease, made, origin, world, tree, reserved, verified, kind>> /\ Tip' = Tip
  BY DEF Continue, vars_, world, Tip
<1>4. LeaseAt(pc)'
  BY <1>2, <1>3 DEF LeaseAt, Live, Open, OutOfOrder, Content, How, Moves
<1>5. Seen' = Seen
  BY <1>1, <1>2 DEF Seen, Moves, NoJob, Job, Steps
<1>6. TipAt(pc, job.head)'
  BY <1>2, <1>3, <1>5 DEF TipAt, Users, How, Content, Placed, OnTarget, Rebuilt, OutOfOrder,
     Strict, Moves
<1>7. tree' \in Tree /\ verified \subseteq verified' /\ verified' \subseteq Sha /\ Reserving
  BY <1>3, Now DEF Reserving
<1> QED BY <1>2, <1>3, <1>4, <1>6, <1>7, GoOn DEF Moves

LEMMA Reuses ==
  ASSUME PinnedInv,
         ReuseDrifted \/ ReuseConflict \/ ReuseBlocked \/ ReuseActive
  PROVE  PinnedInv'
<1>1. job.pc = "reuse" /\ job.pc # "none" /\ job # NoJob /\ Live /\ kind # "sync"
  BY InStep DEF ReuseDrifted, ReuseConflict, ReuseBlocked, ReuseActive, Reusable, At, PinnedInv,
     JobInv, LeaseAt
<1>2. /\ Tip \in Commits /\ Placed(Tip) /\ lease \in Lease /\ lease # NoLease
      /\ lease.state \in {"ACTIVE", "BLOCKED", "PR_OPEN"}
  BY <1>1 DEF PinnedInv, TipInv, TypesInv, TypeOK, Live, Lease
<1>3. Seen = job.target /\ lease.target <= Seen /\ lease.target \in Nat /\ Seen \in Nat
  BY <1>1, <1>2, Now, PinnedAssumption DEF Seen, PinnedInv, RowInv, Lease
<1>4. CASE Stop
  BY <1>1, <1>4, Stopping
<1>5. CASE ReuseConflict
  <2>1. Open /\ OutOfOrder
    BY <1>1, <1>2, <1>5 DEF ReuseConflict, PinnedInv, RowInv, Open
  <2>2. LeaseAt("conflicted") /\ TipAt("conflicted", Tip)
    BY <1>5, <2>1 DEF ReuseConflict, LeaseAt, TipAt, Starting, Creating
  <2> QED BY <1>1, <1>2, <1>5, <2>2, Continues DEF ReuseConflict, Steps
<1>6. CASE ReuseBlocked /\ ~Stop
  <2>1. Open /\ Provenance /\ lease.state = "BLOCKED" /\ How(Tip) \in Automatic
    BY <1>2, <1>6 DEF ReuseBlocked, Open, Provenance, IsPromotion, How, Automatic
  <2>2. CASE Rebuildable /\ Continue("rebuild")
    <3>1. LeaseAt("rebuild") /\ TipAt("rebuild", Tip)
      BY <1>1, <1>3, <2>1, <2>2 DEF Rebuildable, LeaseAt, TipAt, Starting, Creating
    <3> QED BY <1>1, <1>2, <2>2, <3>1, Continues DEF Steps
  <2>3. CASE lease.resolution = "MANUAL_REVIEWED" /\ Continue("manual")
    <3>1. LeaseAt("manual") /\ TipAt("manual", Tip)
      BY <1>1, <2>1, <2>3 DEF LeaseAt, TipAt, Starting, Creating
    <3> QED BY <1>1, <1>2, <2>3, <3>1, Continues DEF Steps
  <2>4. CASE /\ ~Rebuildable /\ lease.why \in {"verify_failed", "prepare_failed"}
             /\ Continue("unrecorded")
    <3>1. LeaseAt("unrecorded")
      BY <1>1, <2>1 DEF LeaseAt, Starting, Creating
    <3>2. OnTarget(Tip) => made[Tip].base \in Nat /\ made[Tip].base <= Seen
      BY <1>2 DEF Placed, PinnedInv, MadeInv, OnTarget, Commits
    <3>3. Strict(Tip)
      BY <1>2, <1>3, <2>1, <2>4, <3>2 DEF Placed, Strict, Rebuilt, Rebuildable, Automatic
    <3>4. TipAt("unrecorded", Tip)
      BY <3>3 DEF TipAt
    <3> QED BY <1>1, <1>2, <2>4, <3>1, <3>4, Continues DEF Steps
  <2> QED BY <1>6, <2>1, <2>2, <2>3, <2>4 DEF ReuseBlocked
<1>7. CASE ReuseActive /\ ~Stop
  <2>1. lease.state = "ACTIVE" /\ Open
    BY <1>2, <1>7 DEF ReuseActive, Open
  <2>2. CASE lease.why = "publish_pending" /\ Continue("publish")
    <3>1. LeaseAt("publish") /\ TipAt("publish", Tip)
      BY <1>1, <2>1, <2>2 DEF LeaseAt, TipAt, Starting, Creating, PinnedInv, RowInv
    <3> QED BY <1>1, <1>2, <2>2, <3>1, Continues DEF Steps
  <2>3. CASE lease.why # "publish_pending" /\ Continue("unrecorded")
    <3>1. Strict(Tip)
      BY <1>1, <2>1, ActiveIsStrict
    <3>2. LeaseAt("unrecorded") /\ TipAt("unrecorded", Tip)
      BY <1>1, <2>1, <2>3, <3>1 DEF LeaseAt, TipAt, Starting, Creating, PinnedInv, RowInv
    <3> QED BY <1>1, <1>2, <2>3, <3>2, Continues DEF Steps
  <2> QED BY <1>7, <2>2, <2>3 DEF ReuseActive
<1> QED BY <1>4, <1>5, <1>6, <1>7 DEF ReuseDrifted

(* A commit that is not after one already seen is not after a later one.    *)
LEMMA UpTo ==
  ASSUME NEW n \in Nat, NEW seen \in Nat, NEW later \in Nat, n <= seen, seen <= later
  PROVE  n <= later
OBVIOUS

\* A rebuild that fails, whether or not its reset to the row's head does.
LEMMA TakenBack ==
  ASSUME PinnedInv, job.pc \in {"reset", "rebuilt"}, End,
         NEW place \in Commits, Placed(place), Tip' = place, tree' \in Tree,
         \/ UNCHANGED lease
         \/ \E head \in Commits : lease' = [lease EXCEPT !.why = "restore_failed", !.head = head],
         UNCHANGED <<reserved, made, origin, verified, world>>
  PROVE  PinnedInv'
<1>1. /\ job.pc # "none" /\ job # NoJob
      /\ Open /\ kind # "sync" /\ lease.state = "BLOCKED"
      /\ lease.why \in {"staging_missing", "verify_failed"}
  BY InStep DEF PinnedInv, JobInv, LeaseAt, Starting, Creating
<1>2. lease \in Lease /\ Live /\ lease # NoLease /\ lease.target \in Commits
  BY <1>1, OpenRow
<1>3. /\ lease' \in Lease /\ lease'.state = "BLOCKED" /\ lease'.why \in {lease.why, "restore_failed"}
      /\ lease'.head \in Commits /\ lease'.target = lease.target /\ lease'.source = lease.source
      /\ lease'.resolution = lease.resolution
  <2>1. Commits \subseteq Sha /\ lease.head \in Commits
    BY <1>1, OpenRow DEF PinnedInv, TypesInv
  <2> QED BY <1>1, <1>2, <2>1 DEF Lease
<1>4. lease' # NoLease /\ lease.resolution # "PENDING"
  BY <1>1, <1>2, <1>3, PinnedAssumption DEF PinnedInv, RowInv
<1>5. UNCHANGED <<made, remote, pull, kind, source, target, reserved>>
  BY DEF origin, world
<1>6. JobRead' /\ Seen <= Seen' /\ LeaseAt(job.pc)' /\ job' = NoJob
  BY <1>1, ReadKept, Ending DEF End
<1>7. Seen' \in Nat /\ Seen \in Nat /\ lease.target \in Nat
  <2>1. Seen' = target
    BY <1>5, <1>6 DEF Seen
  <2> QED BY <1>2, <2>1, Now, PinnedAssumption DEF PinnedInv, TypesInv, TypeOK, Lease
<1>8. JobInv'
  BY <1>6 DEF JobInv
<1>9. TypesInv'
  <2>1. reserved' \in Sha \cup {NoSha} /\ verified' \subseteq Sha
    BY <1>5, Now DEF PinnedInv, TypesInv, TypeOK
  <2> QED BY <1>3, <1>6, <2>1, SameTypes DEF PinnedInv
<1>10. RowInv'
  <2>1. How(lease.target) = "target" /\ lease.target <= Seen /\ lease.source = source
    BY <1>1, <1>2 DEF PinnedInv, RowInv
  <2>2. Commits' = Commits
    BY <1>5 DEF Commits, Newest
  <2>3. reserved # NoSha => reserved \in Commits /\ How(reserved) = "target"
    BY DEF PinnedInv, RowInv
  <2>4. lease.target <= Seen'
    BY <1>6, <1>7, <2>1, UpTo
  <2>5. lease'.why # "publish_pending" /\ lease'.state # "ACTIVE" /\ lease'.resolution # "PENDING"
    BY <1>1, <1>3, <1>4
  <2>6. How(lease.target)' = "target" /\ (reserved' # NoSha => How(reserved)' = "target")
    BY <1>3, <1>5, <2>1, <2>3 DEF How
  <2> QED BY <1>2, <1>3, <1>4, <1>5, <2>1, <2>2, <2>3, <2>4, <2>5, <2>6 DEF RowInv, How
<1>11. TipInv'
  <2>1. OnTarget(place) => made[place].base \in Nat
    <3>1. OnTarget(place) => made[place].base \in Commits
      BY DEF PinnedInv, MadeInv, OnTarget
    <3>2. Commits \subseteq Nat
      BY PinnedAssumption DEF PinnedInv, TypesInv
    <3> QED BY <3>1, <3>2
  <2>2. \A b : Rebuilt(b) => Rebuilt(b)'
    <3>1. \/ UNCHANGED lease
          \/ lease'.why = "restore_failed" /\ lease'.state = "BLOCKED"
      BY <1>2, <1>3 DEF Lease
    <3> QED BY <1>5, <3>1 DEF Rebuilt, OutOfOrder
  <2>3. Placed(Tip)'
    <3>1. made' = made /\ lease'.target = lease.target /\ Tip' = place
      BY <1>3, <1>5
    <3>2. How(place) = "target" => place = lease.target \/ Rebuilt(place)'
      BY <2>2 DEF Placed
    <3>3. OnTarget(place) => made[place].base = lease.target \/ Rebuilt(made[place].base)'
      BY <2>2 DEF Placed
    <3>4. OnTarget(place) => made[place].base <= Seen
      BY DEF Placed
    <3>5. OnTarget(place) => made[place].base <= Seen'
      BY <1>6, <1>7, <2>1, <3>4, UpTo
    <3> QED BY <1>5, <3>1, <3>2, <3>3, <3>5 DEF Placed, OnTarget, How, Rebuilt, OutOfOrder
  <2>4. place # NoSha /\ Commits' = Commits
    BY <1>5, PinnedAssumption DEF PinnedInv, TypesInv, Commits, Newest
  <2> QED BY <2>3, <2>4 DEF TipInv
<1>12. ReadyMeansVerified'
  BY <1>3 DEF ReadyMeansVerified
<1> QED BY <1>8, <1>9, <1>10, <1>11, <1>12, NewRow

LEMMA Rebuilding ==
  ASSUME PinnedInv, RebuildCheck \/ Rebuild
  PROVE  PinnedInv'
<1>1. /\ job.pc \in {"rebuild", "reset"} /\ job.pc # "none" /\ job # NoJob /\ job \in Job
  BY InStep DEF RebuildCheck, Rebuild, At, PinnedInv
<1>2. /\ Open /\ tree \in Tree /\ kind # "sync" /\ lease.state = "BLOCKED"
      /\ \/ lease.why = "staging_missing"
         \/ OutOfOrder /\ lease.why = "verify_failed" /\ lease.target < job.target
  BY <1>1, Now DEF PinnedInv, JobInv, LeaseAt, Starting, Creating
<1>3. /\ lease \in Lease /\ Live /\ lease # NoLease /\ lease.head \in Commits
      /\ lease.head \in Sha /\ Tip \in Commits /\ Tip \in Sha
  BY <1>2, OpenRow
<1>4. CASE RebuildCheck
  <2>1. CASE Stop
    BY <1>1, <2>1, Stopping
  <2>2. CASE /\ Tip = lease.head /\ UNCHANGED vars_
             /\ job' = [job EXCEPT !.pc = "reset", !.head = Tip]
    <3>1. Placed(lease.head) /\ How(Tip) \in Automatic /\ Tip # NoSha
      BY <1>1, <1>2, <1>3, <1>4, <2>2, PinnedAssumption
         DEF PinnedInv, TipInv, JobInv, TipAt, RebuildCheck, At
    <3>2. Moves("reset", Tip)
      BY <1>1, <1>3, <2>2, Noting DEF PinnedInv, Steps
    <3>3. UNCHANGED <<lease, made, origin, world, tree, reserved, verified, kind>> /\ Tip' = Tip
      BY <2>2 DEF vars_, world, Tip
    <3>4. LeaseAt("reset")'
      BY <1>2, <3>2, <3>3 DEF LeaseAt, Open, Starting, Creating, OutOfOrder, Moves
    <3>5. Seen' = Seen
      BY <1>1, <3>2 DEF Seen, Moves, NoJob, Job, Steps
    <3>6. TipAt("reset", job.head)'
      BY <3>1, <3>2, <3>3, <3>5 DEF TipAt, How, Placed, OnTarget, Rebuilt, OutOfOrder, Moves
    <3>7. tree' \in Tree /\ verified \subseteq verified' /\ verified' \subseteq Sha /\ Reserving
      BY <3>3, Now DEF Reserving
    <3> QED BY <1>1, <1>3, <3>2, <3>3, <3>4, <3>6, <3>7, GoOn DEF Moves, Steps
  <2> QED BY <1>4, <2>1, <2>2 DEF RebuildCheck, CanRebuild
<1>5. CASE Rebuild /\ End
  <2>1. /\ UNCHANGED <<reserved, made, origin, verified, world>> /\ job.pc = "reset"
        /\ Placed(lease.head)
    <3>1. UNCHANGED <<reserved, origin, verified, world>> /\ job.pc = "reset"
      BY <1>5 DEF Rebuild, At
    <3>2. job'.pc # "rebuilt"
      BY <1>5 DEF End, NoJob
    <3>3. UNCHANGED made
      BY <1>1, <1>5, <3>2 DEF Rebuild, Job
    <3> QED BY <1>1, <3>1, <3>3 DEF PinnedInv, JobInv, TipAt
  <2>2. job.target \in Commits /\ job.target \in Sha /\ Placed(job.target)
    <3>1. job.target \in Commits /\ How(job.target) = "target"
      BY <1>1 DEF PinnedInv, JobInv, JobRead
    <3>2. Rebuilt(job.target)
      BY <1>2 DEF Rebuilt
    <3>3. Placed(job.target)
      BY <3>1, <3>2 DEF Placed, OnTarget, Automatic
    <3> QED BY <3>1, <3>3 DEF PinnedInv, TypesInv
  <2>3. Placed(Tip)
    BY <1>2, <1>3 DEF PinnedInv, TipInv
  <2>4. CASE RestoreHead
    <3>1. Tip' = lease.head /\ tree' \in Tree /\ UNCHANGED lease
      BY <1>2, <1>3, <2>4 DEF RestoreHead, Tip, Tree
    <3> QED BY <1>3, <1>5, <2>1, <3>1, TakenBack
  <2>5. CASE /\ RestoreFails
             /\ tree' \in {tree} \cup {[tree EXCEPT !.tip = job.target, !.files = files] :
                                       files \in {"clean", "patched"}}
    <3>1. tree' \in Tree /\ Tip' \in {Tip, job.target}
      BY <1>2, <2>2, <2>5 DEF Tree, Tip
    <3>2. \/ UNCHANGED lease
          \/ \E head \in Commits : lease' = [lease EXCEPT !.why = "restore_failed", !.head = head]
      BY <1>3, <2>2, <2>5, <3>1 DEF RestoreFails, Tip
    <3> QED BY <1>3, <1>5, <2>1, <2>2, <2>3, <3>1, <3>2, TakenBack
  <2>6. job'.pc # "rebuilt"
    BY <1>5 DEF End, NoJob
  <2> QED BY <1>1, <1>5, <2>4, <2>5, <2>6 DEF Rebuild, Job
<1>6. CASE /\ Rebuild /\ Newest + 1 \in Sha /\ UNCHANGED lease
           /\ made' = Append(made, [base |-> job.target, of |-> job.source,
                                    patches |-> Patches, how |-> RebuiltHow])
           /\ tree' = [tree EXCEPT !.tip = Len(made'), !.files = "clean"]
           /\ job' = [job EXCEPT !.pc = "rebuilt", !.head = Len(made')]
  <2> DEFINE c == [base |-> job.target, of |-> job.source, patches |-> Patches, how |-> RebuiltHow]
  <2>1. UNCHANGED <<lease, reserved, origin, verified, world>> /\ job.pc = "reset"
    BY <1>6 DEF Rebuild, At
  <2>2. /\ job.target \in Commits /\ How(job.target) = "target" /\ job.source = source
        /\ job.target \in Sha
    BY <1>1, <1>2 DEF PinnedInv, JobInv, JobRead, TypesInv
  <2>3. c.base = job.target /\ c.how \in {"unreviewed", "delta"}
    BY DEF RebuiltHow
  <2>4. c \in Commit
    <3>1. job.source \in Source /\ Patches \in 0..Patches
      BY <1>1, PinnedAssumption DEF Job
    <3> QED BY <2>2, <2>3, <3>1 DEF Commit
  <2>5. Growing(c)
    BY <1>6, <2>1, <2>2, <2>4 DEF Growing, world
  <2> HIDE DEF c
  <2>6. Len(made') = Newest + 1 /\ Newest + 1 # NoSha /\ made'[Newest + 1] = c
    BY <2>5, Growth DEF Newest
  <2>7. Tip' = Newest + 1 /\ tree' \in Tree
    BY <1>2, <1>6, <2>6 DEF Tip, Tree
  <2>8. Moves("rebuilt", Newest + 1)
    BY <1>1, <1>6, <2>6, Noting DEF PinnedInv, Steps
  <2>9. LeaseAt("rebuilt")'
    BY <1>2, <2>1, <2>8 DEF LeaseAt, Open, Starting, Creating, world, OutOfOrder, Moves
  <2>10. TipAt("rebuilt", job.head)'
    <3>1. Placed(lease.head)
      BY <1>1, <2>1 DEF PinnedInv, JobInv, TipAt
    <3>2. Seen' = Seen /\ Seen \in Nat
      BY <1>1, <2>8, Now DEF Seen, Moves, NoJob, Job, Steps
    <3>3. \A i \in Commits : Placed(i) => Placed(i)'
      BY <2>1, <2>5, <3>2, PlacedStays
    <3>4. Placed(lease.head)'
      BY <1>3, <2>1, <3>1, <3>3 DEF Placed, OnTarget, How, Rebuilt
    <3> QED BY <2>3, <2>6, <2>7, <2>8, <3>4 DEF TipAt, How, Moves, Automatic
  <2>11. Rebuilt(c.base) /\ c.base <= Seen
    <3>1. Seen = job.target /\ job.target \in Nat
      BY <1>1, <2>2, PinnedAssumption DEF Seen
    <3> QED BY <1>2, <2>3, <3>1 DEF Rebuilt
  <2>12. target' = target
    BY <2>1 DEF world
  <2> QED BY <1>1, <1>2, <1>3, <2>1, <2>3, <2>5, <2>7, <2>8, <2>9, <2>10, <2>11, <2>12, Committing
          DEF Steps, Automatic, Moves
<1> QED BY <1>4, <1>5, <1>6 DEF Rebuild, RestoreHead, RestoreFails, Newest

LEMMA RebuiltRecorded ==
  ASSUME PinnedInv, RecordRebuilt
  PROVE  PinnedInv'
<1>a. CASE RestoreHead \/ (UNCHANGED tree /\ RestoreFails)
  <2>1. /\ job.pc = "rebuilt" /\ job.pc # "none" /\ End
        /\ UNCHANGED <<reserved, made, origin, verified, world>>
    BY <1>a DEF RecordRebuilt, At, RestoreHead, RestoreFails
  <2>2. Open /\ tree \in Tree /\ kind # "sync" /\ Placed(lease.head)
    BY <2>1, InStep, Now DEF PinnedInv, JobInv, LeaseAt, TipAt, Starting, Creating
  <2>3. Tip \in Commits /\ lease.head \in Commits /\ lease.head \in Sha /\ Placed(Tip)
    BY <2>2, OpenRow DEF PinnedInv, TipInv
  <2>4. CASE RestoreHead
    <3>1. Tip' = lease.head /\ tree' \in Tree /\ UNCHANGED lease
      BY <2>2, <2>3, <2>4 DEF RestoreHead, Tip, Tree
    <3> QED BY <2>1, <2>2, <2>3, <3>1, TakenBack
  <2>5. CASE UNCHANGED tree /\ RestoreFails
    <3>1. Tip' = Tip /\ tree' \in Tree
      BY <2>2, <2>5 DEF Tip
    <3>2. \/ UNCHANGED lease
          \/ \E head \in Commits : lease' = [lease EXCEPT !.why = "restore_failed", !.head = head]
      BY <2>3, <2>5, <3>1 DEF RestoreFails, Tip
    <3> QED BY <2>1, <2>3, <3>1, <3>2, TakenBack
  <2> QED BY <1>a, <2>4, <2>5
<1> SUFFICES ASSUME ~(RestoreHead \/ (UNCHANGED tree /\ RestoreFails)) PROVE PinnedInv'
  BY <1>a
<1>1. /\ job.pc = "rebuilt" /\ job.pc # "none" /\ job # NoJob /\ job \in Job
      /\ Go("unrecorded") /\ UNCHANGED <<reserved, made, tree, origin, verified, world>>
      /\ lease' = [lease EXCEPT !.why = "verify_failed", !.head = job.head,
                               !.target = job.target]
  BY InStep DEF RecordRebuilt, At, PinnedInv
<1>2. /\ Open /\ tree \in Tree /\ verified \subseteq Sha /\ kind # "sync"
      /\ lease.state = "BLOCKED" /\ lease.why \in {"staging_missing", "verify_failed"}
  BY <1>1, Now DEF PinnedInv, JobInv, LeaseAt, Starting, Creating
<1>3. lease \in Lease /\ Live /\ lease # NoLease /\ Tip \in Commits
  BY <1>2, OpenRow
<1>4. /\ job.head \in Commits /\ job.head \in Sha /\ How(Tip) # "target"
      /\ OnTarget(Tip) => made[Tip].base = job.target
  BY <1>1, Now DEF PinnedInv, JobInv, TipAt, TypesInv
<1>5. job.target \in Commits /\ How(job.target) = "target" /\ job.target \in Sha
  BY <1>1 DEF PinnedInv, JobInv, JobRead, TypesInv
<1>6. /\ lease' \in Lease /\ lease'.state = "BLOCKED" /\ lease'.why = "verify_failed"
      /\ lease'.head = job.head /\ lease'.target = job.target /\ lease'.source = lease.source
      /\ lease'.resolution = lease.resolution
  BY <1>1, <1>2, <1>3, <1>4, <1>5 DEF Lease
<1>7. lease.resolution # "PENDING"
  BY <1>2, <1>3 DEF PinnedInv, RowInv
<1>8. Moves("unrecorded", job.head) /\ job.head \in Commits \cup {NoSha}
  BY <1>1, Going, Now DEF PinnedInv, Steps
<1>9. Seen' = job.target /\ job.target \in Nat
  <2>1. job' # NoJob
    BY <1>8 DEF Moves, NoJob
  <2> QED BY <1>5, <1>8, <2>1, PinnedAssumption DEF Seen, Moves
<1>10. Tip' = Tip /\ Placed(Tip)' /\ Strict(Tip)'
  BY <1>1, <1>4, <1>6, <1>9 DEF Placed, Strict, OnTarget, How, Tip
<1>11. LeaseAt("unrecorded")'
  BY <1>2, <1>6, PinnedAssumption, <1>1 DEF LeaseAt, Open, Starting, Creating, world
<1>12. TipAt("unrecorded", job.head)'
  BY <1>10 DEF TipAt
<1>13. lease'.target \in Commits /\ How(lease'.target) = "target" /\ lease'.target <= Seen'
  BY <1>5, <1>6, <1>9
<1> QED BY <1>1, <1>2, <1>4, <1>6, <1>7, <1>8, <1>10, <1>11, <1>12, <1>13, PromotionRow
        DEF Steps

LEMMA UnrecordedVerified ==
  ASSUME PinnedInv, VerifyUnrecorded
  PROVE  PinnedInv'
<1>1. /\ job.pc = "unrecorded" /\ job.pc # "none" /\ job # NoJob
      /\ UNCHANGED <<reserved, made, tree, origin, world>>
  BY InStep DEF VerifyUnrecorded, At, PinnedInv
<1>2. /\ Open /\ tree \in Tree /\ verified \subseteq Sha /\ kind # "sync" /\ Strict(Tip)
      /\ lease.state = "ACTIVE" => lease.head = lease.target
  BY <1>1, Now DEF PinnedInv, JobInv, LeaseAt, TipAt, Starting, Creating
<1>3. /\ lease \in Lease /\ Live /\ lease # NoLease /\ Tip \in Commits /\ Tip \in Sha
      /\ lease.state \in {"ACTIVE", "BLOCKED"}
  BY <1>2, OpenRow DEF Open
<1>4. CASE BlockP("prepare_failed") /\ UNCHANGED verified
  BY <1>1, <1>2, <1>4, Blocking DEF BlockP, BlockedRow, Tip, Blockings
<1>5. CASE End /\ UNCHANGED <<lease, verified>>
  <2>1. Stop
    BY <1>1, <1>5 DEF Stop, vars_
  <2> QED BY <1>1, <2>1, Stopping
<1>6. CASE /\ Unrecorded /\ verified' = verified \cup {Tip}
           /\ lease' = ToPublish(Tip, KeptResolution) /\ Go("publish")
  <2>1. /\ How(Tip) \in Automatic /\ made[Tip].of = lease.source
        /\ made[Tip].base = IF lease.state = "BLOCKED" THEN target ELSE lease.head
    BY <1>6 DEF Unrecorded, Provenance, IsPromotion, How, Automatic
  <2>2. made[Tip].base = lease.target
    <3>1. CASE lease.state = "BLOCKED"
      BY <1>2, <2>1, <3>1 DEF Strict, OnTarget, PinnedInv, MadeInv
    <3>2. CASE lease.state = "ACTIVE"
      BY <1>2, <2>1, <3>2
    <3> QED BY <1>3, <3>1, <3>2
  <2>3. Content(Tip)
    BY <2>1, <2>2 DEF Content
  <2>4. KeptResolution \in {"NONE", "AUTOMATIC", "MANUAL_REVIEWED"}
    BY DEF KeptResolution
  <2>5. verified \subseteq verified' /\ verified' \subseteq Sha
    BY <1>2, <1>3, <1>6
  <2> QED BY <1>1, <1>2, <1>3, <1>6, <2>3, <2>4, <2>5, Publishes
<1> QED BY <1>1, <1>4, <1>5, <1>6 DEF VerifyUnrecorded

LEMMA PublishesAgain ==
  ASSUME PinnedInv, PublishAgain
  PROVE  PinnedInv'
<1>1. /\ job.pc = "publish" /\ job.pc # "none" /\ job # NoJob /\ job \in Job
      /\ UNCHANGED <<reserved, made, tree, origin, world>> /\ Tip' = Tip
  BY InStep DEF PublishAgain, At, PinnedInv, Tip
<1>2. /\ Open /\ tree \in Tree /\ verified \subseteq Sha /\ kind # "sync"
      /\ lease.state = "ACTIVE" /\ Content(lease.head)
  BY <1>1, Now DEF PinnedInv, JobInv, LeaseAt, Starting, Creating
<1>3. Tip \in Commits /\ Tip \in Sha /\ Tip # NoSha
  BY <1>2, OpenRow, PinnedAssumption
<1>4. CASE UNCHANGED verified /\ \E why \in Blockings : BlockP(why)
  BY <1>1, <1>2, <1>4, Blocking DEF BlockP, BlockedRow
<1>5. CASE /\ Tip = lease.head /\ verified' = verified \cup {Tip} /\ UNCHANGED lease
           /\ job' = [job EXCEPT !.pc = "check", !.command = "resume", !.head = Tip]
  <2>1. Moves("check", Tip)
    BY <1>1, <1>3, <1>5 DEF Moves, Job, Steps
  <2>2. LeaseAt("check")'
    BY <1>1, <1>2, <1>5 DEF LeaseAt, Open, Starting, Creating, world
  <2>3. TipAt("check", job.head)'
    BY <1>1, <1>2, <1>3, <1>5, <2>1 DEF TipAt, Content, How, Moves
  <2>4. verified \subseteq verified' /\ verified' \subseteq Sha
    BY <1>2, <1>3, <1>5
  <2> QED BY <1>1, <1>2, <1>3, <1>5, <2>1, <2>2, <2>3, <2>4, GoOn DEF Reserving, Steps, Moves
<1> QED BY <1>4, <1>5 DEF PublishAgain, Unverified, Blockings

-----------------------------------------------------------------------------
(* An out-of-order conflict and its manual resolution. *)

LEMMA Resolving ==
  ASSUME PinnedInv,
         job.pc \in {"conflicted", "stage_all", "remaining", "resolved", "resolution"}
  PROVE  /\ job.pc # "none" /\ job # NoJob /\ job \in Job /\ tree \in Tree /\ verified \subseteq Sha
         /\ Open /\ OutOfOrder /\ kind # "sync" /\ lease.resolution = "PENDING"
         /\ lease \in Lease /\ lease # NoLease /\ lease.state = "BLOCKED"
         /\ Tip \in Commits /\ Strict(Tip)
<1>1. job # NoJob /\ job \in Job /\ job.pc # "none" /\ tree \in Tree /\ verified \subseteq Sha
  BY InStep, Now DEF PinnedInv
<1>2. Open /\ OutOfOrder /\ lease.resolution = "PENDING" /\ kind # "sync"
  BY DEF PinnedInv, JobInv, LeaseAt, Starting, Creating, OutOfOrder
<1>3. lease \in Lease /\ Live /\ lease # NoLease /\ Tip \in Commits
  BY <1>2, OpenRow
<1>4. lease.state = "BLOCKED"
  BY <1>2, <1>3 DEF PinnedInv, RowInv
<1> QED BY <1>1, <1>2, <1>3, <1>4, ActiveIsStrict

\* The row of a resolution that was committed.
LEMMA Resolves ==
  ASSUME PinnedInv, Open, kind # "sync", job.pc # "none", Strict(Tip),
         NEW head \in Commits, lease' = Resolved(head),
         UNCHANGED <<reserved, made, tree, origin, verified, world>>,
         End \/ (Go("manual") /\ (How(Tip) \in Automatic \/ (Users(Tip) /\ Tip # head)))
  PROVE  PinnedInv'
<1>1. lease \in Lease /\ head \in Sha /\ tree \in Tree /\ verified \subseteq Sha
  BY OpenRow, Now DEF PinnedInv, TypesInv
<1>2. /\ lease' \in Lease /\ lease'.state = "BLOCKED" /\ lease'.why = "resolved"
      /\ lease'.head = head /\ lease'.target = lease.target /\ lease'.source = lease.source
      /\ lease'.resolution = "MANUAL_REVIEWED"
  <2>1. 0 \in 0..Patches
    BY PinnedAssumption
  <2> QED BY <1>1, <2>1 DEF Resolved, Lease
<1>3. Tip' = Tip /\ lease' # NoLease /\ job.head \in Commits \cup {NoSha}
      /\ {"manual"} \subseteq Steps
  BY <1>2, PinnedAssumption, Now DEF Tip, Steps
<1>4. End \/ Moves("manual", job.head)
  BY <1>3, Going DEF PinnedInv
<1>5. /\ lease'.target \in Commits /\ How(lease'.target) = "target"
      /\ lease'.target <= Seen' /\ Placed(Tip)'
  BY <1>2, <1>3, <1>4, KeptTarget
<1>6. LeaseAt("manual")'
  BY <1>2, <1>3 DEF LeaseAt, Open, Starting, Creating, world
<1>7. ~End => TipAt("manual", job.head)'
  BY <1>2, <1>3 DEF TipAt, How, Users
<1>8. End \/ (Moves("manual", job.head) /\ LeaseAt("manual")' /\ TipAt("manual", job.head)')
  BY <1>4, <1>6, <1>7
<1> QED BY <1>1, <1>2, <1>3, <1>5, <1>8, PromotionRow

\* A step of the resolution to the next one.
LEMMA ResolvingOn ==
  ASSUME PinnedInv, job.pc \in {"conflicted", "stage_all", "remaining"},
         NEW pc \in {"stage_all", "remaining", "resolved", "conflict"}, Go(pc),
         pc = "conflict" => tree'.applied < Patches,
         UNCHANGED <<lease, reserved, made, origin, verified, world>>,
         Tip' = Tip, tree' \in Tree
  PROVE  PinnedInv'
<1>1. /\ job.pc # "none" /\ Open /\ OutOfOrder /\ kind # "sync" /\ lease.resolution = "PENDING"
      /\ lease # NoLease
  BY Resolving
<1>2. Moves(pc, job.head) /\ job.head \in Commits \cup {NoSha} /\ pc \in Steps
  BY <1>1, Going, Now DEF PinnedInv, Steps
<1>3. LeaseAt(pc)'
  BY <1>1 DEF LeaseAt, Open, Starting, Creating, world, OutOfOrder
<1>4. TipAt(pc, job.head)'
  BY DEF TipAt
<1>5. Reserving /\ verified \subseteq verified' /\ verified' \subseteq Sha
  BY Now DEF Reserving
<1> QED BY <1>1, <1>2, <1>3, <1>4, <1>5, GoOn DEF Moves

LEMMA ConflictResumes ==
  ASSUME PinnedInv, ResumeConflict \/ StageResolution \/ ApplyRemaining
  PROVE  PinnedInv'
<1>1. /\ job.pc \in {"conflicted", "stage_all", "remaining"} /\ job.pc # "none"
      /\ tree \in Tree /\ lease \in Lease
  BY Resolving DEF ResumeConflict, StageResolution, ApplyRemaining, At
<1>2. CASE ResumeConflict
  <2>1. CASE Go("stage_all") /\ UNCHANGED vars_
    BY <1>1, <2>1, ResolvingOn DEF vars_, Tip
  <2> QED BY <1>1, <1>2, <2>1, Stopping DEF ResumeConflict
<1>3. CASE StageResolution
  <2>1. UNCHANGED <<lease, reserved, made, origin, verified, world>> /\ Tip' = Tip /\ tree' \in Tree
    BY <1>1, <1>3 DEF StageResolution, Tree, Tip
  <2>2. CASE Go("remaining")
    BY <1>1, <2>1, <2>2, ResolvingOn
  <2>3. CASE End
    <3>1. verified \subseteq verified' /\ verified' \subseteq Sha /\ Reserving
      BY <2>1, Now DEF Reserving
    <3> QED BY <1>1, <2>1, <2>3, <3>1, Quitting
  <2> QED BY <1>3, <2>2, <2>3 DEF StageResolution
<1>4. CASE ApplyRemaining
  <2>1. lease.ordinal \in 0..Patches
    BY <1>1 DEF Lease
  <2>2. UNCHANGED <<reserved, made, origin, verified, world>>
    BY <1>4 DEF ApplyRemaining
  <2>3. /\ tree' \in Tree /\ Tip' = Tip
        /\ \/ Go("resolved") /\ UNCHANGED lease
           \/ Go("conflict") /\ UNCHANGED lease /\ tree'.applied < Patches
           \/ End /\ UNCHANGED lease
    BY <1>4, <2>1, Applying DEF ApplyRemaining
  <2>4. CASE Go("resolved") /\ UNCHANGED lease
    BY <1>1, <2>2, <2>3, <2>4, ResolvingOn
  <2>5. CASE Go("conflict") /\ UNCHANGED lease /\ tree'.applied < Patches
    BY <1>1, <2>2, <2>3, <2>5, ResolvingOn
  <2>6. CASE End /\ UNCHANGED lease
    <3>1. verified \subseteq verified' /\ verified' \subseteq Sha /\ Reserving
      BY <2>2, Now DEF Reserving
    <3> QED BY <1>1, <2>2, <2>3, <2>6, <3>1, Quitting
  <2> QED BY <2>3, <2>4, <2>5, <2>6
<1> QED BY <1>2, <1>3, <1>4

LEMMA ResolutionCommits ==
  ASSUME PinnedInv, CommitResolution
  PROVE  PinnedInv'
<1>1. /\ job.pc = "resolved" /\ UNCHANGED <<lease, reserved, origin, verified, world>>
  BY DEF CommitResolution, At
<1>2. /\ job.pc # "none" /\ job # NoJob /\ Open /\ OutOfOrder /\ kind # "sync"
      /\ lease.resolution = "PENDING" /\ lease # NoLease /\ Tip \in Commits
  BY <1>1, Resolving
<1>3. CASE End /\ UNCHANGED <<made, tree>>
  <2>1. Stop
    BY <1>1, <1>3 DEF Stop, vars_
  <2> QED BY <1>2, <2>1, Stopping
<1>4. CASE /\ CommitIndex("manual", "clean")
           /\ job' = [job EXCEPT !.pc = "resolution", !.head = Len(made')]
  <2> DEFINE c == [base |-> Tip, of |-> job.source, patches |-> Patches, how |-> "manual"]
  <2>1. /\ Growing(c) /\ tree' \in Tree /\ Tip' = Newest + 1 /\ Len(made') = Newest + 1
        /\ UNCHANGED target
    BY <1>1, <1>2, <1>4, Indexing DEF Automatic
  <2>2. Growing(c)
    BY <2>1
  <2>3. c.how = "manual" /\ c.base = Tip
    OBVIOUS
  <2> HIDE DEF c
  <2>4. Moves("resolution", Newest + 1) /\ Newest + 1 # NoSha /\ made'[Newest + 1] = c
    BY <1>2, <1>4, <2>1, <2>2, Noting, Growth DEF PinnedInv, Steps
  <2>5. LeaseAt("resolution")'
    BY <1>1, <1>2 DEF LeaseAt, Open, Starting, Creating, world, OutOfOrder
  <2>6. TipAt("resolution", job.head)'
    BY <2>1, <2>3, <2>4 DEF TipAt, How, Automatic, Moves
  <2>7. How(c.base) = "target" => c.base = lease.target /\ c.base <= Seen
    BY <1>2, <2>3 DEF PinnedInv, TipInv, RowInv, Placed, Rebuilt, Live, Open
  <2> QED BY <1>1, <1>2, <2>1, <2>3, <2>4, <2>5, <2>6, <2>7, Committing
          DEF Steps, Automatic, Moves
<1> QED BY <1>3, <1>4 DEF CommitResolution

LEMMA ResolutionRecorded ==
  ASSUME PinnedInv, RecordResolution \/ ReconcileResolution
  PROVE  PinnedInv'
<1>1. /\ job.pc \in {"resolution", "conflicted"}
      /\ UNCHANGED <<reserved, made, tree, origin, verified, world>>
  BY DEF RecordResolution, ReconcileResolution, At
<1>2. /\ job.pc # "none" /\ job # NoJob /\ Open /\ kind # "sync" /\ Tip \in Commits /\ Strict(Tip)
  BY <1>1, Resolving
<1>3. CASE RecordResolution
  <2>1. /\ job.head # NoSha /\ How(job.head) \in Automatic
        /\ Tip = job.head \/ (Users(Tip) /\ Tip # job.head)
    BY <1>2, <1>3 DEF PinnedInv, JobInv, TipAt, RecordResolution, At
  <2>2. job.head \in Commits
    BY <1>2, <2>1, Now
  <2> QED BY <1>1, <1>2, <1>3, <2>1, <2>2, Resolves DEF RecordResolution
<1>4. CASE ReconcileResolution
  <2>1. CASE End /\ UNCHANGED lease
    <3>1. Stop
      BY <1>1, <2>1 DEF Stop, vars_
    <3> QED BY <1>2, <3>1, Stopping
  <2>2. CASE made[Tip].how = "manual" /\ lease' = Resolved(Tip) /\ Go("manual")
    <3>1. How(Tip) \in Automatic
      BY <2>2 DEF How, Automatic
    <3> QED BY <1>1, <1>2, <2>2, <3>1, Resolves
  <2> QED BY <1>4, <2>1, <2>2 DEF ReconcileResolution
<1> QED BY <1>3, <1>4

LEMMA ManualResumes ==
  ASSUME PinnedInv, ResumeManual
  PROVE  PinnedInv'
<1>1. /\ job.pc = "manual" /\ job.pc # "none" /\ job # NoJob
      /\ UNCHANGED <<reserved, made, tree, origin, world>>
  BY InStep DEF ResumeManual, At, PinnedInv
<1>2. /\ Open /\ tree \in Tree /\ verified \subseteq Sha /\ kind # "sync"
      /\ How(Tip) \in Automatic \/ (Users(Tip) /\ Tip # lease.head)
  BY <1>1, Now DEF PinnedInv, JobInv, LeaseAt, TipAt, Starting, Creating
<1>3. lease \in Lease /\ Live /\ lease # NoLease /\ Tip \in Commits /\ Tip \in Sha
  BY <1>2, OpenRow
<1>4. CASE End /\ UNCHANGED <<lease, verified>>
  <2>1. Stop
    BY <1>1, <1>4 DEF Stop, vars_
  <2> QED BY <1>1, <2>1, Stopping
<1>5. CASE /\ ManualReady /\ verified' = verified \cup {Tip}
           /\ lease' = ToPublish(Tip, "MANUAL_REVIEWED") /\ Go("publish")
  <2>1. How(Tip) \in Automatic /\ made[Tip].base = lease.target
    BY <1>2, <1>5 DEF ManualReady
  <2>2. made[Tip].of = lease.source
    BY <1>2, <1>3, <2>1 DEF PinnedInv, MadeInv, RowInv
  <2>3. Content(Tip) /\ Strict(Tip)
    BY <2>1, <2>2 DEF Content, Strict, Automatic
  <2>4. verified \subseteq verified' /\ verified' \subseteq Sha
    BY <1>2, <1>3, <1>5
  <2> QED BY <1>1, <1>2, <1>3, <1>5, <2>3, <2>4, Publishes
<1> QED BY <1>1, <1>4, <1>5 DEF ResumeManual

-----------------------------------------------------------------------------
(* recover-promotion and discard-promotion. *)

LEMMA AmendStarts ==
  ASSUME PinnedInv, AmendStart
  PROVE  PinnedInv'
<1>1. /\ job.pc = "amend" /\ job.pc # "none" /\ lease # NoLease /\ OutOfOrder /\ kind # "sync"
      /\ UNCHANGED <<reserved, made, tree, origin, verified, world>>
  BY DEF AmendStart, At, PinnedInv, JobInv, LeaseAt, OutOfOrder
<1>2. CASE End /\ UNCHANGED lease
  <2>1. Stop
    BY <1>1, <1>2 DEF Stop, vars_
  <2> QED BY <1>1, <2>1, Stopping
<1>3. CASE Amendable /\ CleanTree /\ lease' = Resolved(Tip) /\ End
  <2>1. Open /\ Strict(Tip)
    BY <1>1, <1>3 DEF Amendable, Open, Strict, SaysManual, How
  <2>2. Tip \in Commits
    BY <2>1, OpenRow
  <2> QED BY <1>1, <1>3, <2>1, <2>2, Resolves
<1>4. CASE Amendable /\ ~CleanTree /\ Go("amending") /\ UNCHANGED lease
  <2>1. /\ Open /\ lease.state = "BLOCKED" /\ lease.resolution = "MANUAL_REVIEWED"
        /\ tree.there /\ tree.files # "clean"
        /\ How(Tip) \in Automatic /\ made[Tip].base = lease.target
    BY <1>1, <1>4 DEF Amendable, Open, SaysManual, How, Automatic, CleanTree
  <2>2. LeaseAt("amending") /\ TipAt("amending", job.head)
    BY <1>1, <2>1 DEF LeaseAt, TipAt, Starting, Creating
  <2> QED BY <1>1, <1>4, <2>2, PlainGo DEF Steps, vars_
<1> QED BY <1>2, <1>3, <1>4 DEF AmendStart

LEMMA Amends ==
  ASSUME PinnedInv, Amend
  PROVE  PinnedInv'
<1>1. /\ job.pc = "amending" /\ job.pc # "none" /\ job # NoJob
      /\ UNCHANGED <<lease, reserved, origin, verified, world>>
  BY InStep DEF Amend, At, PinnedInv
<1>2. /\ Open /\ tree \in Tree /\ OutOfOrder /\ kind # "sync" /\ lease.state = "BLOCKED"
      /\ lease.resolution = "MANUAL_REVIEWED"
      /\ How(Tip) \in Automatic /\ made[Tip].base = lease.target
  BY <1>1, Now DEF PinnedInv, JobInv, LeaseAt, TipAt, Starting, Creating
<1>3. lease # NoLease /\ Tip \in Commits
  BY <1>2, OpenRow
<1>4. CASE End /\ UNCHANGED <<made, tree>>
  <2>1. Stop
    BY <1>1, <1>4 DEF Stop, vars_
  <2> QED BY <1>1, <2>1, Stopping
<1>5. CASE /\ Len(made) + 1 \in Sha /\ made' = Append(made, made[Tip])
           /\ tree' = [tree EXCEPT !.tip = Len(made'), !.files = "clean"]
           /\ job' = [job EXCEPT !.pc = "amended", !.head = Len(made')]
  <2> DEFINE c == made[Tip]
  <2>1. c \in Commit /\ c.how \in Automatic /\ c.base = lease.target
    BY <1>2, <1>3 DEF PinnedInv, TypesInv, Commits, Newest, How
  <2>2. Growing(c)
    BY <1>1, <1>3, <1>5, <2>1 DEF Growing, world, PinnedInv, MadeInv, How, Newest
  <2> HIDE DEF c
  <2>3. Len(made') = Newest + 1 /\ Newest + 1 # NoSha /\ made'[Newest + 1] = c /\ Newest + 1 \in Sha
    BY <2>2, Growth DEF Newest
  <2>4. Tip' = Newest + 1 /\ tree' \in Tree
    BY <1>2, <1>5, <2>3 DEF Tip, Tree
  <2>5. Moves("amended", Newest + 1)
    BY <1>1, <1>5, <2>3, Noting DEF PinnedInv, Steps
  <2>6. LeaseAt("amended")'
    BY <1>1, <1>2, <1>3 DEF LeaseAt, Open, Starting, Creating, world, OutOfOrder
  <2>7. TipAt("amended", job.head)'
    BY <1>1, <2>1, <2>3, <2>4, <2>5 DEF TipAt, Strict, How, Automatic, Moves
  <2>8. c.base <= Seen
    BY <1>3, <2>1 DEF PinnedInv, RowInv
  <2>9. UNCHANGED target
    BY <1>1 DEF world
  <2> QED BY <1>1, <1>2, <2>1, <2>2, <2>4, <2>5, <2>6, <2>7, <2>8, <2>9, Committing
          DEF Steps, Moves
<1> QED BY <1>4, <1>5 DEF Amend

LEMMA AmendRecorded ==
  ASSUME PinnedInv, AmendRecord
  PROVE  PinnedInv'
<1>1. /\ job.pc = "amended" /\ job.pc # "none" /\ job # NoJob /\ End
      /\ UNCHANGED <<reserved, made, tree, origin, verified, world>>
  BY InStep DEF AmendRecord, At, PinnedInv
<1>2. /\ Open /\ kind # "sync" /\ job.head # NoSha /\ Strict(Tip)
  BY <1>1 DEF PinnedInv, JobInv, LeaseAt, TipAt, Starting, Creating
<1>3. job.head \in Commits
  BY <1>1, <1>2, Now
<1>4. CASE lease' = lease
  <2>1. Stop
    BY <1>1, <1>4 DEF Stop, vars_
  <2> QED BY <1>1, <2>1, Stopping
<1>5. CASE lease' = Resolved(job.head)
  BY <1>1, <1>2, <1>3, <1>5, Resolves
<1> QED BY <1>4, <1>5 DEF AmendRecord

LEMMA Abandons ==
  ASSUME PinnedInv, AbandonStart \/ AbandonRemove
  PROVE  PinnedInv'
<1>1. CASE AbandonRemove
  BY <1>1, Removals DEF AbandonRemove, At
<1>2. CASE AbandonStart
  <2>1. job.pc = "abandon" /\ job.pc # "none"
    BY <1>2 DEF AbandonStart, At
  <2>2. CASE Stop
    BY <2>1, <2>2, Stopping
  <2>3. CASE Abandonable /\ Reserve
    BY <2>1, <2>3, Reserves DEF Abandonable, Open, Live, How
  <2>4. CASE Abandonable /\ reserved # NoSha /\ Go("removed") /\ UNCHANGED vars_
    <3>1. Open
      BY <2>4 DEF Abandonable, Open, Live
    <3>2. LeaseAt("removed") /\ TipAt("removed", job.head)
      BY <2>4, <3>1 DEF LeaseAt, TipAt, Starting, Creating
    <3> QED BY <2>1, <2>4, <3>2, PlainGo DEF Steps
  <2> QED BY <1>2, <2>2, <2>3, <2>4 DEF AbandonStart
<1> QED BY <1>1, <1>2

-----------------------------------------------------------------------------
(* The invariant, and what follows from it. *)

LEMMA PinnedInit ==
  ASSUME Init
  PROVE  PinnedInv
<1> DEFINE c == [base |-> NoSha, of |-> NoSource, patches |-> 0, how |-> "target"]
<1>1. c \in Commit
  <2>1. 0 \in 0..Patches
    BY PinnedAssumption
  <2> QED BY <2>1 DEF Commit
<1>2. made = <<c>> /\ Newest = 1 /\ Commits = {1} /\ made[1] = c /\ How(1) = "target"
  BY DEF Init, Newest, Commits, How
<1>3. made \in Seq(Commit)
  BY <1>1, <1>2
<1> HIDE DEF c
<1>4. /\ lease = NoLease /\ reserved = NoSha /\ tree = NoTree(source) /\ remote = NoSha
      /\ pull = NoPull /\ job = NoJob /\ source \in Source /\ target = 1 /\ kind \in Kinds
      /\ verified = {} /\ crashes = 0 /\ 1 \in Sha
  BY PinnedAssumption DEF Init
<1>5. tree \in Tree /\ Tip = NoSha
  BY <1>4, Trees DEF Tip
<1>6. TypesInv
  BY <1>2, <1>3, <1>4, <1>5 DEF TypesInv, TypeOK, Tree, NoPull, Commit
<1>7. MadeInv
  BY <1>2, <1>4 DEF MadeInv, Automatic
<1>8. TipInv /\ RowInv /\ OriginInv /\ ReadyMeansVerified
  BY <1>4, <1>5 DEF TipInv, RowInv, OriginInv, ReadyMeansVerified, Live, NoPull
<1>9. JobInv
  BY <1>4 DEF JobInv, JobRead, LeaseAt, NoJob, Starting, Creating
<1> QED BY <1>6, <1>7, <1>8, <1>9 DEF PinnedInv

LEMMA SyncKeeps ==
  ASSUME PinnedInv, SyncNext
  PROVE  PinnedInv'
BY SyncBegins, SyncStarts, SyncApplies, SyncWaits, SyncCommits, SyncRechecks, SyncPushes,
   SyncOpens, CommitsResumed, NoopSteps, RecoverySteps, RecoveryMerges, CommitsRecovered,
   DiscardSteps
   DEF SyncNext

LEMMA PromoteKeeps ==
  ASSUME PinnedInv, PromoteNext
  PROVE  PinnedInv'
BY PromoteBegins, PromoteStarts, PromoteApplies, PromoteRecordsConflict, PromoteCommits,
   PromotePublishes, Reuses, Rebuilding, RebuiltRecorded, UnrecordedVerified, PublishesAgain,
   ConflictResumes, ResolutionCommits, ResolutionRecorded, ManualResumes, AmendStarts, Amends,
   AmendRecorded, Abandons
   DEF PromoteNext

LEMMA AroundKeeps ==
  ASSUME PinnedInv, Shared \/ World
  PROVE  PinnedInv'
BY Worktrees, Created, Pulls, Failing, Holding, Completes, Deletes, Dies,
   Sources, TargetAdvances, Edits, UserCommits, Closes
   DEF Shared, World

LEMMA PinnedStep ==
  ASSUME PinnedInv, [BranchesNext]_vars
  PROVE  PinnedInv'
<1>1. CASE BranchesNext
  BY <1>1, SyncKeeps, PromoteKeeps, AroundKeeps DEF BranchesNext
<1>2. CASE UNCHANGED vars
  <2>1. UNCHANGED <<kind, lease, reserved, made, tree, remote, pull, source, target, verified,
                    job, crashes>> /\ Tip' = Tip
    BY <1>2 DEF vars, origin, Tip
  <2>2. TypesInv'
    BY <2>1 DEF PinnedInv, TypesInv, TypeOK, Newest, Commits
  <2>3. JobInv'
    BY <2>1 DEF PinnedInv, JobInv, JobRead, LeaseAt, TipAt, Live, Open, Users, Content, How,
       OutOfOrder, Placed, OnTarget, Rebuilt, Strict, Commits, Newest, Seen
  <2>4. Seen <= Seen'
    <3>1. Seen' = Seen
      BY <2>1 DEF Seen
    <3> QED BY <3>1, Now
  <2> QED BY <2>1, <2>2, <2>3, <2>4, SameRow DEF Reserving, origin
<1> QED BY <1>1, <1>2

(* The inductive invariant: what each command has read, where a lease may  *)
(* be at each of its steps, and what its commits were made of.              *)
THEOREM PinnedInvariant == BranchesSpec => []PinnedInv
<1>1. Init => PinnedInv
  BY PinnedInit
<1>2. PinnedInv /\ [BranchesNext]_vars => PinnedInv'
  BY PinnedStep
<1> QED BY <1>1, <1>2, PTL DEF BranchesSpec

(* Type correctness of rows, worktree, commits and origin of a pinned       *)
(* branch (worktrees/models.py:Lease), for any commits, edits and deaths.   *)
THEOREM PinnedTypes == BranchesSpec => []TypeOK
<1>1. PinnedInv => TypeOK
  BY DEF PinnedInv, TypesInv
<1> QED BY <1>1, PinnedInvariant, PTL

(* What sync and promote put into PR_OPEN was verified, has the pinned      *)
(* source on the pinned target in it and is what origin carries, whichever  *)
(* of the first runs and resume paths of service.py published it.           *)
THEOREM ReadyIsVerified == BranchesSpec => []ReadyMeansVerified
<1>1. PinnedInv => ReadyMeansVerified
  BY DEF PinnedInv
<1> QED BY <1>1, PinnedInvariant, PTL

-----------------------------------------------------------------------------
(* No commit of a user's is lost. *)

LEMMA TipsKept ==
  ASSUME PinnedInv, SyncNext \/ PromoteNext \/ Shared \/ World,
         ~SyncCommit, ~RecoverMerge, ~PromoteCommit, ~CommitResolution, ~Amend, ~Rebuild,
         ~RecordRebuilt, ~AddWorktree, ~CreateLease, ~DeleteBranch, ~UserCommit
  PROVE  Tip' = Tip
<1>1. tree \in Tree
  BY Now
<1>2. ASSUME UNCHANGED vars_ \/ UNCHANGED tree PROVE Tip' = Tip
  BY <1>2 DEF vars_, Tip
<1>3. ASSUME NEW files, tree' = [tree EXCEPT !.files = files] PROVE Tip' = Tip
  BY <1>1, <1>3 DEF Tree, Tip
<1>4. ASSUME NEW CanRemove, Remove(CanRemove) PROVE Tip' = Tip
  BY <1>1, <1>4 DEF Remove, Tree, Tip
<1>5. ASSUME Reserve PROVE Tip' = Tip
  BY <1>5 DEF Reserve, Tip
<1>6. CASE \/ SyncBegin \/ SyncStart \/ SyncConflict \/ SyncVerify \/ SyncRecheck \/ SyncPush
           \/ SyncDrift \/ SyncOpen \/ ResumeNoop \/ ResumeCommit \/ RecoverBegin
           \/ RecoverStart \/ RecoverRecord \/ DiscardBegin
  BY <1>2, <1>6 DEF SyncBegin, SyncStart, SyncConflict, SyncVerify, SyncRecheck, SyncPush,
     SyncDrift, SyncOpen, ResumeNoop, ResumeCommit, RecoverBegin, RecoverStart, RecoverRecord,
     DiscardBegin, Begin, Stop
<1>7. CASE SyncApply \/ RecoverStage \/ RecoverFinal
  BY <1>2, <1>3, <1>7 DEF SyncApply, RecoverStage, RecoverFinal, RestoreIndex, Unstaged
<1>8. CASE NoopReserve \/ NoopRemove
  BY <1>2, <1>4, <1>5, <1>8 DEF NoopReserve, NoopRemove
<1>9. CASE DiscardStart \/ DiscardCheck \/ DiscardNormalize \/ DiscardRemove \/ DiscardRecover
  <2>1. CASE DiscardRemove
    BY <1>1, <2>1 DEF DiscardRemove, RebuiltConflict, Stop, vars_, Tree, Tip
  <2> QED BY <1>2, <1>3, <1>5, <1>9, <2>1
          DEF DiscardStart, DiscardCheck, DiscardNormalize, DiscardRecover, Stop
<1>10. CASE \/ PromoteBegin \/ PromoteStart \/ PromoteSources \/ PromoteConflict
            \/ PromoteVerify \/ PromoteRecord \/ PromoteCheck \/ PromotePush \/ PromoteOpen
            \/ ReuseDrifted \/ ReuseConflict \/ ReuseBlocked \/ ReuseActive \/ RebuildCheck
            \/ VerifyUnrecorded \/ PublishAgain \/ ResumeConflict
            \/ RecordResolution \/ ReconcileResolution \/ ResumeManual
            \/ AmendBegin \/ AmendStart \/ AmendRecord \/ AbandonBegin
  BY <1>2, <1>10 DEF PromoteBegin, PromoteStart, PromoteSources, PromoteConflict,
     PromoteVerify, PromoteRecord, PromoteCheck, PromotePush, PromoteOpen, ReuseDrifted,
     ReuseConflict, ReuseBlocked, ReuseActive, RebuildCheck, VerifyUnrecorded, PublishAgain,
     ResumeConflict, RecordResolution, ReconcileResolution, ResumeManual,
     AmendBegin, AmendStart, AmendRecord, AbandonBegin, Begin, Stop, Continue
<1>11. CASE PromoteApply \/ ApplyRemaining \/ StageResolution
  <2>1. CASE PromoteApply
    <3>1. 0 \in 0..Patches
      BY PinnedAssumption
    <3> QED BY <1>2, <2>1, <3>1, Applying DEF PromoteApply
  <2>2. CASE ApplyRemaining
    <3>1. lease.ordinal \in 0..Patches
      BY <2>2, Resolving DEF ApplyRemaining, At, Lease
    <3> QED BY <2>2, <3>1, Applying DEF ApplyRemaining
  <2> QED BY <1>3, <1>11, <2>1, <2>2 DEF StageResolution
<1>12. CASE AbandonStart \/ AbandonRemove
  BY <1>2, <1>4, <1>5, <1>12 DEF AbandonStart, AbandonRemove, Stop
<1>13. CASE Shared
  BY <1>2, <1>13 DEF Shared, FindOrCreatePull, GitHubFails, Hold, RecoverRemoval, Complete,
     Crash, Stop
<1>14. CASE World
  BY <1>1, <1>14 DEF World, SourceMoves, TargetMoves, UserEdit, UserResolve, UserClean, ClosePull,
     Tree, Tip
<1> QED BY <1>6, <1>7, <1>8, <1>9, <1>10, <1>11, <1>12, <1>13, <1>14 DEF SyncNext, PromoteNext

LEMMA UserCommitStays ==
  ASSUME PinnedInv, BranchesNext, Users(Tip), tree'.of = tree.of,
         ~(job.pc \in {"reset", "rebuilt"} /\ Tip # job.head)
  PROVE  Tip' = Tip \/ (Tip' # NoSha /\ made'[Tip'].base = Tip)
<1>1. /\ tree \in Tree /\ Tip \in Commits /\ made \in Seq(Commit) /\ How(Tip) = "user"
      /\ Newest \in Nat
  BY Now DEF PinnedInv, TipInv, TypesInv, Users, Newest
<1>2. ASSUME NEW c, made' = Append(made, c), c.base = Tip,
             tree'.tip = Len(made'), Newest + 1 \in Sha
      PROVE  Tip' # NoSha /\ made'[Tip'].base = Tip
  <2>1. Len(made') = Newest + 1 /\ made'[Newest + 1] = c
    BY <1>1, <1>2 DEF Newest
  <2>2. Newest + 1 # NoSha
    BY <1>2, PinnedAssumption
  <2> QED BY <1>2, <2>1, <2>2 DEF Tip
<1>3. ASSUME NEW how, NEW files, CommitIndex(how, files)
      PROVE  Tip' # NoSha /\ made'[Tip'].base = Tip
  <2> DEFINE c == [base |-> Tip, of |-> job.source, patches |-> Patches, how |-> how]
  <2>1. made' = Append(made, c) /\ Newest + 1 \in Sha
        /\ tree' = [tree EXCEPT !.tip = Len(made'), !.files = files]
    BY <1>3 DEF CommitIndex, Newest
  <2>2. tree'.tip = Len(made') /\ c.base = Tip
    BY <1>1, <2>1 DEF Tree
  <2> HIDE DEF c
  <2> QED BY <1>2, <2>1, <2>2
<1>4. ASSUME End \/ ~End, UNCHANGED tree PROVE Tip' = Tip
  BY <1>4 DEF Tip
<1>5. CASE SyncCommit \/ PromoteCommit \/ CommitResolution
  BY <1>3, <1>4, <1>5 DEF SyncCommit, PromoteCommit, CommitResolution
<1>6. CASE RecoverMerge
  <2>1. CASE RestoreIndex
    BY <1>1, <2>1 DEF RestoreIndex, Unstaged, Tree, Tip
  <2> QED BY <1>3, <1>6, <2>1 DEF RecoverMerge
<1>7. CASE Amend
  <2>1. job.pc = "amending" /\ job # NoJob
    BY <1>7, InStep DEF Amend, At, PinnedInv
  <2>2. How(Tip) \in Automatic
    BY <2>1 DEF PinnedInv, JobInv, TipAt
  <2> QED BY <1>1, <2>2 DEF Automatic
<1>8. CASE Rebuild \/ RecordRebuilt
  <2>1. job.pc \in {"reset", "rebuilt"} /\ job # NoJob
    BY <1>8, InStep DEF Rebuild, RecordRebuilt, At, PinnedInv
  <2>2. How(job.head) \in Automatic
    BY <2>1 DEF PinnedInv, JobInv, TipAt
  <2> QED BY <1>1, <2>1, <2>2 DEF Automatic
<1>9. CASE AddWorktree
  <2>1. job.pc = "worktree" /\ job # NoJob
    BY <1>9, InStep DEF AddWorktree, At, PinnedInv
  <2>2. How(job.target) = "target"
    BY <2>1 DEF PinnedInv, JobInv, JobRead
  <2>3. CASE Stop
    BY <2>3 DEF Stop, vars_, Tip
  <2>4. CASE tree' = [NoTree(job.source) EXCEPT !.there = TRUE, !.tip = job.target]
    <3>1. tree'.of = job.source
      BY <2>4 DEF NoTree
    <3>2. Tip \notin {NoSha, job.target}
      BY <1>1, <2>2 DEF Users
    <3>3. CASE tree.of = job.source
      BY <1>9, <2>3, <3>2, <3>3 DEF AddWorktree
    <3> QED BY <3>1, <3>3
  <2> QED BY <1>9, <2>3, <2>4 DEF AddWorktree
<1>10. CASE CreateLease
  <2>1. job.pc = "lease" /\ job # NoJob
    BY <1>10, InStep DEF CreateLease, At, PinnedInv
  <2>2. Tip # job.target
    BY <1>1, <2>1 DEF PinnedInv, JobInv, JobRead
  <2> QED BY <1>10, <2>2 DEF CreateLease, Tip
<1>11. CASE DeleteBranch
  <2>1. job.pc = "delete" /\ job # NoJob
    BY <1>11, InStep DEF DeleteBranch, At, PinnedInv
  <2>2. Tip # job.head
    BY <1>1, <2>1 DEF PinnedInv, JobInv, TipAt
  <2> QED BY <1>11, <2>2 DEF DeleteBranch, Tip
<1>12. CASE UserCommit
  <2> DEFINE c == [base |-> Tip, of |-> NoSource, patches |-> 0, how |-> "user"]
  <2>1. made' = Append(made, c) /\ Newest + 1 \in Sha /\ tree' = [tree EXCEPT !.tip = Len(made')]
    BY <1>12 DEF UserCommit, Newest
  <2>2. tree'.tip = Len(made') /\ c.base = Tip
    BY <1>1, <2>1 DEF Tree
  <2> HIDE DEF c
  <2> QED BY <1>2, <2>1, <2>2
<1> QED BY <1>5, <1>6, <1>7, <1>8, <1>9, <1>10, <1>11, <1>12, TipsKept DEF BranchesNext

(* No command takes a user's commit off a pinned branch, but a rebuild one  *)
(* that was made after its reading of the head (service.py:12825-12936):    *)
(* deletions and commits act only where the tip is still what they checked  *)
(* (git.py delete_branch_if_at, commit_index_as_merge).                     *)
THEOREM UserCommitsKept == BranchesSpec => CommitsKept
<1>1. PinnedInv /\ [BranchesNext]_vars =>
        [Tip # NoSha /\ made[Tip].how = "user" /\ tree'.of = tree.of
           /\ ~(job.pc \in {"reset", "rebuilt"} /\ Tip # job.head) =>
           tree'.tip = Tip \/ (tree'.tip # NoSha /\ made'[tree'.tip].base = Tip)]_vars
  <2> SUFFICES ASSUME PinnedInv, BranchesNext,
                      Tip # NoSha, made[Tip].how = "user", tree'.of = tree.of,
                      ~(job.pc \in {"reset", "rebuilt"} /\ Tip # job.head)
               PROVE  tree'.tip = Tip \/ (tree'.tip # NoSha /\ made'[tree'.tip].base = Tip)
    OBVIOUS
  <2>1. Users(Tip)
    BY DEF Users, How
  <2>2. Tip' = Tip \/ (Tip' # NoSha /\ made'[Tip'].base = Tip)
    BY <2>1, UserCommitStays
  <2>3. tree'.tip = Tip'
    BY DEF Tip
  <2> QED BY <2>2, <2>3
<1> QED BY <1>1, PinnedInvariant, PTL DEF BranchesSpec, CommitsKept

-----------------------------------------------------------------------------
(* A recorded conflict stays in its worktree. *)

LEMMA PromotionIsNotSync ==
  ASSUME PinnedInv, PromoteNext
  PROVE  kind # "sync" /\ kind' = kind
<1>1. CASE \/ PromoteApply \/ PromoteConflict \/ PromoteCommit \/ PromoteVerify \/ PromoteRecord
           \/ PromoteCheck \/ PromotePush \/ PromoteOpen \/ AbandonRemove
  BY <1>1 DEF PromoteApply, PromoteConflict, PromoteCommit, PromoteVerify, PromoteRecord,
     PromoteCheck, PromotePush, PromoteOpen, AbandonRemove, Remove, promotion, Promotions, world,
     Stop, vars_
<1>2. CASE PromoteBegin \/ AmendBegin \/ AbandonBegin
  BY <1>2 DEF PromoteBegin, AmendBegin, AbandonBegin, Begin, Promotions, vars_, world
<1>3. CASE PromoteStart \/ PromoteSources \/ AbandonStart
  BY <1>3 DEF PromoteStart, PromoteSources, AbandonStart, At, PinnedInv, JobInv, LeaseAt, Stop,
     Reserve, vars_, world
<1>4. CASE ReuseDrifted \/ ReuseConflict \/ ReuseBlocked \/ ReuseActive
  BY <1>4 DEF ReuseDrifted, ReuseConflict, ReuseBlocked, ReuseActive, Reusable, At, PinnedInv,
     JobInv, LeaseAt, Stop, Continue, vars_, world
<1>5. CASE RebuildCheck \/ Rebuild \/ RecordRebuilt \/ VerifyUnrecorded \/ PublishAgain
  BY <1>5 DEF RebuildCheck, Rebuild, RecordRebuilt, VerifyUnrecorded, PublishAgain, At,
     PinnedInv, JobInv, LeaseAt, Stop, vars_, world
<1>6. CASE \/ ResumeConflict \/ StageResolution \/ ApplyRemaining \/ CommitResolution
           \/ RecordResolution \/ ReconcileResolution
  <2>1. kind # "sync"
    BY <1>6, Resolving DEF ResumeConflict, StageResolution, ApplyRemaining, CommitResolution,
       RecordResolution, ReconcileResolution, At
  <2> QED BY <1>6, <2>1 DEF ResumeConflict, StageResolution, ApplyRemaining, CommitResolution,
       RecordResolution, ReconcileResolution, Stop, vars_, world
<1>7. CASE ResumeManual \/ AmendStart \/ Amend \/ AmendRecord
  BY <1>7 DEF ResumeManual, AmendStart, Amend, AmendRecord, At, PinnedInv, JobInv, LeaseAt,
     OutOfOrder, world
<1> QED BY <1>1, <1>2, <1>3, <1>4, <1>5, <1>6, <1>7 DEF PromoteNext

\* At the steps between which nothing is said of the conflict.
Quiet == {"none", "sync", "recover", "discard", "resume", "worktree", "lease", "commit",
          "recovered", "complete", "delete", "discard_recover"}

\* Steps that publish, or remove, what has no conflict.
Unmarked == {"noop", "removed", "verify", "check", "push", "drift", "pull", "exact"}

LEMMA NextStep ==
  ASSUME PinnedInv, job.pc # "none"
  PROVE  /\ \A pc \in Steps : Go(pc) => job'.pc = pc
         /\ End => job'.pc = "none"
<1>1. job \in Job
  BY InStep DEF PinnedInv
<1> QED BY <1>1 DEF Go, End, NoJob, Job

\* A row that blocks for another reason is not one of a conflict.
LEMMA BlockedUnmarked ==
  ASSUME PinnedInv, Open, Block("apply_failed") \/ \E why \in Blockings \ {"target_conflict"} : Block(why)
  PROVE  /\ lease'.target = lease.target /\ lease'.head = lease.head /\ Live
         /\ Marked' => lease' = lease
<1>1. PICK why \in Blockings \ {"target_conflict"} : lease' = Blocked(why)
  BY DEF Block, Blockings
<1>2. lease \in Lease /\ lease.state \in {"ACTIVE", "BLOCKED"} /\ Live
  BY OpenRow DEF Open
<1> QED BY <1>1, <1>2 DEF Blocked, Lease, Marked

LEMMA ConflictPublishing ==
  ASSUME PinnedInv, ConflictAt(job.pc), kind = "sync",
         \/ SyncVerify \/ SyncRecheck \/ SyncPush \/ SyncDrift \/ SyncOpen
         \/ FindOrCreatePull \/ GitHubFails
  PROVE  ConflictAt(job.pc)'
<1>1. /\ job.pc \in {"verify", "check", "push", "drift", "pull", "exact"}
      /\ UNCHANGED <<reserved, made, tree>>
  BY DEF SyncVerify, SyncRecheck, SyncPush, SyncDrift, SyncOpen, FindOrCreatePull, GitHubFails,
     At, Stop, vars_
<1>2. Open /\ job.pc # "none" /\ ~Marked /\ lease \in Lease /\ lease.state \in {"ACTIVE", "BLOCKED"}
  BY <1>1, Publishing, OpenRow DEF ConflictAt, Open
<1>3. CASE \E why \in Blockings \ {"target_conflict"} : Block(why)
  <2>1. ~Marked'
    <3>1. Marked' => lease' = lease
      BY <1>2, <1>3, BlockedUnmarked
    <3> QED BY <1>2, <3>1 DEF Marked, Live
  <2>2. job'.pc = "none"
    BY <1>2, <1>3, NextStep DEF Block
  <2> QED BY <2>1, <2>2 DEF ConflictAt
<1>4. CASE Stop
  <2>1. job'.pc = "none" /\ lease' = lease
    BY <1>2, <1>4, NextStep DEF Stop, vars_
  <2>2. ~Marked'
    BY <1>2, <2>1 DEF Marked, Live
  <2> QED BY <2>1, <2>2 DEF ConflictAt
<1>5. CASE /\ \E pc \in Unmarked : Go(pc)
           /\ lease' = lease \/ lease' = Pending(job.head)
  <2>1. job'.pc \in Unmarked
    BY <1>2, <1>5, NextStep DEF Unmarked, Steps
  <2>2. ~Marked'
    BY <1>2, <1>5 DEF Marked, Live, Pending, Lease
  <2> QED BY <2>1, <2>2 DEF ConflictAt, Unmarked
<1>6. CASE /\ End
           /\ lease' = [lease EXCEPT !.state = "PR_OPEN", !.why = "pr_open", !.head = job.head]
  <2>1. job'.pc = "none"
    BY <1>2, <1>6, NextStep
  <2>2. ~Marked'
    BY <1>2, <1>6 DEF Marked, Live, Lease
  <2> QED BY <2>1, <2>2 DEF ConflictAt
<1> QED BY <1>3, <1>4, <1>5, <1>6
        DEF SyncVerify, SyncRecheck, SyncPush, SyncDrift, SyncOpen, FindOrCreatePull, GitHubFails,
            Blockings, Unmarked

\* A command that rests leaves no mark, or what can be resolved.
LEMMA Resting ==
  ASSUME job'.pc \in Quiet,
         Marked' => lease'.head = lease'.target /\ (reserved' = NoSha => Resolvable')
  PROVE  ConflictAt(job.pc)'
BY DEF ConflictAt, Quiet

LEMMA NoMark ==
  ASSUME ~Marked', job'.pc \in Quiet \cup Unmarked \cup {"hold"}
  PROVE  ConflictAt(job.pc)'
BY DEF ConflictAt, Quiet, Unmarked

LEMMA AllStays ==
  ASSUME ConflictAt(job.pc), job.pc \notin {"final", "merge"}, job'.pc \in Quiet,
         UNCHANGED <<lease, reserved, made, tree>>
  PROVE  ConflictAt(job.pc)'
BY Resting DEF ConflictAt, Marked, Live, Resolvable, Unmerged, Staged, How, Tip

LEMMA MarkedOnly ==
  ASSUME PinnedInv, Open, ~Marked,
         \/ lease' = lease
         \/ \E why \in Blockings \ {"target_conflict"} : Block(why)
         \/ \E head \in Sha : lease' = Pending(head)
  PROVE  ~Marked'
<1>1. CASE lease' = lease
  BY <1>1 DEF Marked, Live
<1>2. CASE \E why \in Blockings \ {"target_conflict"} : Block(why)
  BY <1>1, <1>2, BlockedUnmarked
<1>3. CASE \E head \in Sha : lease' = Pending(head)
  BY <1>3, OpenRow DEF Pending, Lease, Marked
<1> QED BY <1>1, <1>2, <1>3

LEMMA ConflictStarts ==
  ASSUME PinnedInv, ConflictAt(job.pc), kind = "sync",
         \/ SyncBegin \/ RecoverBegin \/ DiscardBegin
         \/ SyncStart \/ RecoverStart \/ ResumeNoop \/ DiscardStart
  PROVE  ConflictAt(job.pc)'
<1>1. CASE SyncBegin \/ RecoverBegin \/ DiscardBegin
  <2>1. /\ job.pc = "none" /\ job'.pc \in Quiet
        /\ UNCHANGED <<lease, reserved, made, tree>>
    BY <1>1 DEF SyncBegin, RecoverBegin, DiscardBegin, Begin, NoJob, Quiet, vars_
  <2> QED BY <2>1, AllStays
<1>2. ASSUME job.pc \in {"sync", "recover", "resume", "discard"},
             Stop \/ \E pc \in {"resume", "worktree", "discard_recover"} :
                       Go(pc) /\ UNCHANGED vars_
      PROVE  ConflictAt(job.pc)'
  <2>1. job.pc # "none" /\ UNCHANGED <<lease, reserved, made, tree>>
    BY <1>2 DEF Stop, vars_
  <2>2. job'.pc \in Quiet
    BY <1>2, <2>1, NextStep DEF Quiet, Steps, Stop
  <2> QED BY <1>2, <2>1, <2>2, AllStays
<1>3. CASE SyncStart
  BY <1>2, <1>3 DEF SyncStart, At
<1>4. CASE RecoverStart
  <2>1. CASE Go("stage") /\ UNCHANGED vars_ /\ Conflicted
    <3>1. job.pc = "recover" /\ UNCHANGED <<lease, reserved, made, tree>>
      BY <1>4, <2>1 DEF RecoverStart, At, vars_
    <3>2. job'.pc = "stage"
      BY <2>1, <3>1, NextStep DEF Steps
    <3> QED BY <2>1, <3>1, <3>2
            DEF ConflictAt, Conflicted, Kept, Marked, Live, Resolvable, Unmerged
  <2> QED BY <1>2, <1>4, <2>1 DEF RecoverStart, At
<1>5. CASE ResumeNoop
  <2>1. CASE NoopCandidate /\ UNCHANGED vars_ /\ \E pc \in {"noop", "removed"} : Go(pc)
    <3>1. job.pc = "resume" /\ ~Marked' /\ job.pc # "none"
      BY <1>5, <2>1 DEF ResumeNoop, At, NoopCandidate, Marked, vars_
    <3>2. job'.pc \in Unmarked
      BY <2>1, <3>1, NextStep DEF Unmarked, Steps
    <3> QED BY <3>1, <3>2, NoMark
  <2> QED BY <1>2, <1>5, <2>1 DEF ResumeNoop, NoopPath, At
<1>6. CASE DiscardStart
  <2>1. CASE Discardable /\ Reserve
    <3>1. /\ job.pc = "discard" /\ job.pc # "none" /\ UNCHANGED <<lease, tree>>
          /\ Go("hold") /\ Kept /\ lease.head = lease.target
      BY <1>6, <2>1 DEF DiscardStart, At, Reserve, Discardable, Conflicted, Kept
    <3>2. job'.pc = "hold"
      BY <3>1, NextStep DEF Steps
    <3>3. Kept'
      BY <3>1 DEF Kept, Unmerged
    <3> QED BY <3>1, <3>2, <3>3 DEF ConflictAt, Resolvable, Kept
  <2> QED BY <1>2, <1>6, <2>1 DEF DiscardStart, At
<1> QED BY <1>1, <1>3, <1>4, <1>5, <1>6

LEMMA ConflictApplies ==
  ASSUME PinnedInv, ConflictAt(job.pc), kind = "sync",
         SyncApply \/ SyncConflict \/ SyncCommit
  PROVE  ConflictAt(job.pc)'
<1>1. /\ Open /\ lease \in Lease /\ lease.state = "ACTIVE" /\ ~Marked
      /\ job.pc \in {"apply", "conflict", "commit"} /\ job.pc # "none" /\ tree \in Tree
  <2>1. job.pc \in {"apply", "conflict", "commit"}
    BY DEF SyncApply, SyncConflict, SyncCommit, At
  <2>2. LeaseAt(job.pc)
    BY DEF PinnedInv, JobInv
  <2>3. Open /\ lease.state = "ACTIVE"
    BY <2>1, <2>2 DEF LeaseAt, Starting, Creating, OutOfOrder
  <2> QED BY <2>1, <2>3, OpenRow, Now DEF Marked
<1>2. ASSUME End, \E why \in Blockings \ {"target_conflict"} : Block(why)
      PROVE  ConflictAt(job.pc)'
  <2>1. ~Marked'
    BY <1>1, <1>2, MarkedOnly
  <2>2. job'.pc \in Quiet
    BY <1>1, <1>2, NextStep DEF Quiet
  <2> QED BY <2>1, <2>2, NoMark
<1>3. CASE SyncApply
  <2>1. job.pc = "apply" /\ lease.head = lease.target
    BY <1>3 DEF SyncApply, At, ConflictAt
  <2>2. CASE lease' = [lease EXCEPT !.why = "noop_pending"] /\ Go("noop")
    <3>1. ~Marked'
      BY <1>1, <2>2 DEF Lease, Marked
    <3>2. job'.pc \in Unmarked
      BY <1>1, <2>2, NextStep DEF Steps, Unmarked
    <3> QED BY <3>1, <3>2, NoMark
  <2>3. CASE Go("commit") /\ UNCHANGED lease
    <3>1. ~Marked'
      BY <1>1, <2>3, MarkedOnly
    <3>2. job'.pc \in Quiet
      BY <1>1, <2>3, NextStep DEF Steps, Quiet
    <3> QED BY <3>1, <3>2, NoMark
  <2>4. CASE CleanTree /\ tree' = [tree EXCEPT !.files = "conflict"] /\ Go("conflict")
             /\ UNCHANGED lease
    <3>1. ~Marked'
      BY <1>1, <2>4, MarkedOnly
    <3>2. job'.pc = "conflict"
      BY <1>1, <2>4, NextStep DEF Steps
    <3>3. Kept'
      BY <1>1, <2>4 DEF Tree, Kept, Unmerged, CleanTree
    <3> QED BY <2>1, <2>4, <3>1, <3>2, <3>3 DEF ConflictAt
  <2>5. CASE Block("apply_failed")
    BY <1>2, <2>5 DEF Block, Blockings
  <2> QED BY <1>3, <2>2, <2>3, <2>4, <2>5 DEF SyncApply
<1>4. CASE SyncConflict
  <2>1. /\ lease.head = lease.target /\ Kept /\ UNCHANGED tree
        /\ Block("target_conflict")
    BY <1>4 DEF SyncConflict, At, ConflictAt
  <2>2. lease'.head = lease'.target
    BY <1>1, <2>1 DEF Block, Blocked, Lease
  <2>3. Resolvable'
    BY <2>1 DEF Kept, Resolvable, Unmerged
  <2>4. job'.pc \in Quiet
    BY <1>1, <2>1, NextStep DEF Block, Quiet
  <2> QED BY <2>2, <2>3, <2>4, Resting
<1>5. CASE SyncCommit
  <2>1. CASE job' = [job EXCEPT !.pc = "verify", !.head = Len(made')] /\ UNCHANGED lease
    <3>1. ~Marked'
      BY <1>1, <2>1, MarkedOnly
    <3>2. job \in Job
      BY <1>1, Now
    <3>3. job'.pc \in Unmarked
      BY <2>1, <3>2 DEF Job, Unmarked
    <3> QED BY <3>1, <3>3, NoMark
  <2>2. CASE Block("delta_mismatch") \/ Block("apply_failed")
    BY <1>2, <2>2 DEF Block, Blockings
  <2> QED BY <1>5, <2>1, <2>2 DEF SyncCommit
<1> QED BY <1>3, <1>4, <1>5

LEMMA ConflictResumed ==
  ASSUME PinnedInv, ConflictAt(job.pc), kind = "sync",
         ResumeCommit \/ NoopReserve \/ NoopRemove
  PROVE  ConflictAt(job.pc)'
<1>1. CASE ResumeCommit
  <2>1. job.pc = "resume" /\ job.pc # "none"
    BY <1>1 DEF ResumeCommit, At
  <2>2. CASE Stop
    <3>1. job'.pc \in Quiet /\ UNCHANGED <<lease, reserved, made, tree>>
      BY <2>1, <2>2, NextStep DEF Stop, vars_, Quiet
    <3> QED BY <2>1, <3>1, AllStays
  <2>3. CASE Resumable /\ ~Stop
    <3>1. Open /\ Tip # lease.target
      BY <2>1, <2>3 DEF Resumable, IsSyncCommit, PinnedInv, JobInv, LeaseAt, Open, Live
    <3>2. Tip \in Sha /\ job \in Job
      BY <2>1, <3>1, OpenRow, Now
    <3>3. /\ lease' = IF Tip = lease.head THEN lease ELSE Pending(Tip)
          /\ job' = [job EXCEPT !.pc = "verify", !.command = "resume", !.head = Tip]
      BY <1>1, <2>3 DEF ResumeCommit
    <3>4. job'.pc \in Unmarked
      BY <3>2, <3>3 DEF Job, Unmarked
    <3>5. ~Marked'
      <4>1. CASE Tip = lease.head
        <5>1. ~Marked
          BY <3>1, <4>1 DEF ConflictAt
        <5> QED BY <3>1, <3>3, <4>1, <5>1, MarkedOnly
      <4>2. CASE Tip # lease.head
        BY <3>1, <3>3, <4>2, OpenRow DEF Pending, Lease, Marked
      <4> QED BY <4>1, <4>2
    <3> QED BY <3>4, <3>5, NoMark
  <2> QED BY <1>1, <2>2, <2>3 DEF ResumeCommit
<1>2. CASE NoopReserve
  <2>1. job.pc = "noop" /\ job.pc # "none" /\ ~Marked
    BY <1>2 DEF NoopReserve, At, ConflictAt
  <2>2. Open
    BY <2>1 DEF PinnedInv, JobInv, LeaseAt, Starting, Creating
  <2>3. job'.pc \in Quiet \cup {"hold"}
    BY <1>2, <2>1, NextStep DEF NoopReserve, Reserve, Block, Quiet, Steps
  <2>4. ~Marked'
    <3>1. lease' = lease \/ \E why \in Blockings \ {"target_conflict"} : Block(why)
      BY <1>2 DEF NoopReserve, Reserve, Blockings
    <3> QED BY <2>1, <2>2, <3>1, MarkedOnly
  <2> QED BY <2>3, <2>4, NoMark
<1>3. CASE NoopRemove
  <2>1. /\ job.pc = "held" /\ Remove(Tip = job.target) /\ UNCHANGED <<lease, made>>
        /\ Open /\ job.pc # "none"
    BY <1>3, Reserved DEF NoopRemove, At, Remove, Release
  <2>2. CASE Marked
    <3>1. Kept /\ lease.head = lease.target /\ ~CleanTree
      BY <2>1, <2>2 DEF ConflictAt, Kept, Unmerged, CleanTree
    <3>2. End /\ UNCHANGED tree
      BY <2>1, <3>1 DEF Remove, Release
    <3>3. job'.pc \in Quiet
      BY <2>1, <3>2, NextStep DEF Quiet
    <3>4. Resolvable'
      BY <3>1, <3>2 DEF Kept, Resolvable, Unmerged
    <3> QED BY <2>1, <3>1, <3>3, <3>4, Resting
  <2>3. CASE ~Marked
    <3>1. ~Marked'
      BY <2>1, <2>3, MarkedOnly
    <3>2. job'.pc \in Quiet
      BY <2>1, NextStep DEF Remove, Release, Quiet, Steps
    <3> QED BY <3>1, <3>2, NoMark
  <2> QED BY <2>2, <2>3
<1> QED BY <1>1, <1>2, <1>3

LEMMA ConflictRecovers ==
  ASSUME PinnedInv, ConflictAt(job.pc), kind = "sync",
         RecoverStage \/ RecoverFinal \/ RecoverMerge \/ RecoverRecord
  PROVE  ConflictAt(job.pc)'
<1>1. job.pc \in {"stage", "final", "merge", "recovered"} /\ job.pc # "none"
  BY DEF RecoverStage, RecoverFinal, RecoverMerge, RecoverRecord, At
<1>2. Open /\ tree \in Tree /\ job \in Job
  BY <1>1, Now DEF PinnedInv, JobInv, LeaseAt, Starting, Creating
<1>3. ASSUME RestoreIndex, tree.there, Staged, UNCHANGED lease
      PROVE  ConflictAt(job.pc)'
  <2>1. Resolvable' /\ End
    BY <1>2, <1>3 DEF RestoreIndex, Unstaged, Tree, Resolvable, Unmerged, Staged
  <2>2. job'.pc \in Quiet /\ (Marked' => lease'.head = lease'.target)
    BY <1>1, <1>3, <2>1, NextStep DEF Quiet, ConflictAt, Marked, Live
  <2> QED BY <2>1, <2>2, Resting
<1>4. CASE RecoverStage
  <2>1. job.pc = "stage" /\ Kept /\ UNCHANGED lease
    BY <1>4 DEF RecoverStage, At, ConflictAt
  <2>2. job'.pc = "final"
    BY <1>1, <1>4, NextStep DEF RecoverStage, Steps
  <2>3. tree'.there /\ Staged'
    BY <1>2, <1>4, <2>1 DEF RecoverStage, Tree, Kept, Staged
  <2> QED BY <2>1, <2>2, <2>3 DEF ConflictAt, Marked, Live, Resolvable
<1>5. CASE RecoverFinal
  <2>1. job.pc = "final" /\ tree.there /\ Staged /\ UNCHANGED lease
    BY <1>5 DEF RecoverFinal, At, ConflictAt
  <2>2. CASE tree.files = "staged" /\ Go("merge") /\ UNCHANGED tree
    <3>1. job'.pc = "merge"
      BY <1>1, <2>2, NextStep DEF Steps
    <3>2. Resolvable'
      BY <2>1, <2>2 DEF Staged, Resolvable
    <3> QED BY <2>1, <2>2, <3>1, <3>2 DEF ConflictAt, Marked, Live
  <2> QED BY <1>3, <1>5, <2>1, <2>2 DEF RecoverFinal
<1>6. CASE RecoverMerge
  <2>1. job.pc = "merge" /\ tree.there /\ Staged /\ UNCHANGED lease
    BY <1>6 DEF RecoverMerge, At, ConflictAt, Staged
  <2>2. CASE CommitIndex("manual", "clean")
             /\ job' = [job EXCEPT !.pc = "recovered", !.head = Len(made')]
    <3> DEFINE c == [base |-> Tip, of |-> job.source, patches |-> Patches, how |-> "manual"]
    <3>1. Growing(c) /\ Tip' = Newest + 1
      BY <1>1, <1>2, <1>6, <2>2, Indexing DEF RecoverMerge, Automatic
    <3>2. made'[Newest + 1] = c
      BY <3>1, Growth
    <3>3. How(Tip)' = "manual"
      BY <3>1, <3>2 DEF How
    <3>4. tree'.there
      BY <1>2, <2>1, <2>2 DEF CommitIndex, Tree
    <3>5. job'.pc \in Quiet
      BY <1>2, <2>2 DEF Job, Quiet
    <3> QED BY <2>1, <3>3, <3>4, <3>5, Resting DEF Resolvable, ConflictAt, Marked, Live
  <2> QED BY <1>3, <1>6, <2>1, <2>2 DEF RecoverMerge
<1>7. CASE RecoverRecord
  <2>1. job.pc = "recovered" /\ UNCHANGED <<reserved, made, tree>>
    BY <1>7 DEF RecoverRecord, At
  <2>2. CASE lease' = Pending(job.head) /\ Go("verify")
    <3>1. ~Marked'
      BY <1>2, <2>2, OpenRow DEF Pending, Lease, Marked
    <3>2. job'.pc \in Unmarked
      BY <1>1, <2>2, NextStep DEF Unmarked, Steps
    <3> QED BY <3>1, <3>2, NoMark
  <2>3. CASE Block("commit_mismatch")
    <3>1. Marked' => lease' = lease
      BY <1>2, <2>3, BlockedUnmarked DEF Blockings
    <3>2. job'.pc \in Quiet
      BY <1>1, <2>3, NextStep DEF Block, Quiet
    <3> QED BY <2>1, <3>1, <3>2, Resting
            DEF ConflictAt, Marked, Live, Resolvable, Unmerged, Staged, How, Tip
  <2> QED BY <1>7, <2>2, <2>3 DEF RecoverRecord
<1> QED BY <1>4, <1>5, <1>6, <1>7

LEMMA ConflictDiscards ==
  ASSUME PinnedInv, ConflictAt(job.pc), kind = "sync",
         DiscardCheck \/ DiscardNormalize \/ DiscardRemove \/ DiscardRecover \/ Hold
  PROVE  ConflictAt(job.pc)'
<1>1. /\ job.pc \in {"hold", "held", "normalize", "remove", "discard_recover"}
      /\ UNCHANGED made
  BY DEF DiscardCheck, DiscardNormalize, DiscardRemove, DiscardRecover, Hold, At, Stop, vars_
<1>2. job.pc # "none" /\ reserved # NoSha /\ tree \in Tree
  BY <1>1, Reserved
<1>3. lease' = lease
  BY DEF DiscardCheck, DiscardNormalize, DiscardRemove, DiscardRecover, Hold, Release, Stop, vars_
<1>4. Marked' => Marked /\ lease'.head = lease'.target
  BY <1>3 DEF Marked, Live, ConflictAt
<1>5. ASSUME End, Marked => Resolvable' PROVE ConflictAt(job.pc)'
  BY <1>2, <1>4, <1>5, NextStep, Resting DEF Quiet
<1>6. ASSUME Kept, UNCHANGED tree PROVE Kept' /\ Resolvable'
  BY <1>6 DEF Kept, Unmerged, Resolvable
<1>7. CASE DiscardCheck
  <2>1. CASE Discardable /\ Go("normalize") /\ UNCHANGED <<lease, reserved, tree>>
    <3>1. job'.pc = "normalize" /\ tree'.there
      BY <1>2, <2>1, NextStep DEF Steps, Discardable, Conflicted
    <3> QED BY <1>2, <1>4, <2>1, <3>1 DEF ConflictAt
  <2>2. CASE Release /\ UNCHANGED tree
    <3>1. Marked => Kept
      BY <1>7 DEF DiscardCheck, At, ConflictAt
    <3> QED BY <1>5, <1>6, <2>2, <3>1 DEF Release
  <2> QED BY <1>7, <2>1, <2>2 DEF DiscardCheck
<1>8. CASE DiscardNormalize
  <2>1. job'.pc = "remove" /\ reserved' = reserved
    BY <1>2, <1>8, NextStep DEF DiscardNormalize, Steps
  <2>2. tree'.there
    BY <1>2, <1>8 DEF DiscardNormalize, At, ConflictAt, Tree
  <2> QED BY <1>2, <1>4, <2>1, <2>2 DEF ConflictAt
<1>9. CASE DiscardRemove
  <2>1. CASE Go("complete") /\ UNCHANGED reserved
    <3>1. job'.pc \in Quiet
      BY <1>2, <2>1, NextStep DEF Quiet, Steps
    <3> QED BY <1>2, <1>4, <2>1, <3>1, Resting
  <2>2. CASE tree' = RebuiltConflict /\ Release
    <3>1. Resolvable'
      BY <1>2, <1>9, <2>2 DEF DiscardRemove, At, ConflictAt, RebuiltConflict, Tree, Resolvable,
         Unmerged
    <3> QED BY <1>5, <2>2, <3>1 DEF Release
  <2>3. CASE Stop
    <3>1. UNCHANGED reserved /\ job'.pc \in Quiet
      BY <1>2, <2>3, NextStep DEF Stop, vars_, Quiet
    <3> QED BY <1>2, <1>4, <3>1, Resting
  <2> QED BY <1>9, <2>1, <2>2, <2>3 DEF DiscardRemove
<1>10. CASE DiscardRecover
  <2>1. CASE UNCHANGED reserved /\ (Go("complete") \/ End)
    <3>1. job'.pc \in Quiet
      BY <1>2, <2>1, NextStep DEF Quiet, Steps
    <3> QED BY <1>2, <1>4, <2>1, <3>1, Resting
  <2>2. CASE tree.there /\ Unmerged /\ Release /\ UNCHANGED tree
    BY <1>5, <1>6, <2>2 DEF Release, Kept
  <2> QED BY <1>10, <2>1, <2>2 DEF DiscardRecover
<1>11. CASE Hold
  <2>1. (Marked => Kept) /\ UNCHANGED tree
    BY <1>11 DEF Hold, At, ConflictAt
  <2>2. CASE Go("held") /\ UNCHANGED <<lease, reserved>>
    <3>1. job'.pc = "held"
      BY <1>2, <2>2, NextStep DEF Steps
    <3> QED BY <1>2, <1>4, <1>6, <2>1, <2>2, <3>1 DEF ConflictAt
  <2>3. CASE Release
    BY <1>5, <1>6, <2>1, <2>3 DEF Release
  <2> QED BY <1>11, <2>2, <2>3 DEF Hold
<1> QED BY <1>7, <1>8, <1>9, <1>10, <1>11

LEMMA ConflictShared ==
  ASSUME PinnedInv, ConflictAt(job.pc), kind = "sync",
         AddWorktree \/ CreateLease \/ RecoverRemoval \/ Complete \/ DeleteBranch
  PROVE  ConflictAt(job.pc)'
<1>1. /\ job.pc \in {"worktree", "lease", "removed", "complete", "delete"}
      /\ job.pc # "none" /\ LeaseAt(job.pc)
  BY DEF AddWorktree, CreateLease, RecoverRemoval, Complete, DeleteBranch, At, PinnedInv, JobInv
<1>2. CASE AddWorktree \/ DeleteBranch \/ RecoverRemoval
  <2>1. ~Marked /\ lease' = lease
    BY <1>1, <1>2 DEF AddWorktree, DeleteBranch, RecoverRemoval, At, LeaseAt, Creating, Marked,
       ConflictAt, Release, Stop, vars_
  <2>2. ~Marked'
    BY <2>1 DEF Marked, Live
  <2>3. job'.pc \in Quiet
    BY <1>1, <1>2, NextStep DEF AddWorktree, DeleteBranch, RecoverRemoval, Release, Stop, Quiet,
       Steps
  <2> QED BY <2>2, <2>3, NoMark
<1>3. CASE CreateLease
  <2>1. CASE lease' = NewLease /\ Go("apply")
    <3>1. ~Marked' /\ lease'.head = lease'.target
      BY <2>1 DEF NewLease, Marked
    <3>2. job'.pc = "apply"
      BY <1>1, <2>1, NextStep DEF Steps
    <3> QED BY <3>1, <3>2 DEF ConflictAt
  <2>2. CASE End /\ UNCHANGED lease
    <3>1. ~Marked'
      BY <1>1, <1>3, <2>2 DEF CreateLease, At, LeaseAt, Creating, Marked, Live
    <3>2. job'.pc \in Quiet
      BY <1>1, <2>2, NextStep DEF Quiet
    <3> QED BY <3>1, <3>2, NoMark
  <2> QED BY <1>3, <2>1, <2>2 DEF CreateLease
<1>4. CASE Complete
  <2>1. Open /\ lease \in Lease /\ job \in Job
    BY <1>1, <1>4, Reserved, OpenRow, Now DEF Complete, At
  <2>2. ~Marked'
    BY <1>4, <2>1 DEF Complete, Lease, Marked, Live
  <2>3. job'.pc \in Quiet
    BY <1>4, <2>1 DEF Complete, Job, Quiet
  <2> QED BY <2>2, <2>3, NoMark
<1> QED BY <1>2, <1>3, <1>4

LEMMA ConflictInWorld ==
  ASSUME PinnedInv, ConflictAt(job.pc), kind = "sync", World
  PROVE  ConflictAt(job.pc)'
<1>1. /\ tree \in Tree
      /\ Live => Tip \in Commits
      /\ Marked' => Marked /\ UNCHANGED lease
      /\ UNCHANGED <<job, lease, reserved>>
  BY Now DEF PinnedInv, TipInv, World, SourceMoves, TargetMoves, UserEdit, UserCommit,
     UserResolve, UserClean, ClosePull, Marked, Live
<1>2. CASE SourceMoves \/ ClosePull
  BY <1>1, <1>2 DEF SourceMoves, ClosePull, ConflictAt, Marked, Kept, Resolvable, Unmerged,
     Staged, How, Tip
<1>3. CASE TargetMoves
  <2>1. UNCHANGED tree
    BY <1>3 DEF TargetMoves
  <2>2. Marked' /\ Resolvable => Resolvable'
    <3> DEFINE c == [base |-> target, of |-> NoSource, patches |-> 0, how |-> "target"]
    <3>1. made' = Append(made, c) /\ made \in Seq(Commit)
      BY <1>3 DEF TargetMoves, PinnedInv, TypesInv
    <3> HIDE DEF c
    <3>2. \A i \in Commits : made'[i] = made[i]
      BY <3>1 DEF Commits, Newest
    <3>3. Marked' => How(Tip)' = How(Tip)
      <4>1. Tip' = Tip
        BY <2>1 DEF Tip
      <4>2. Marked' => Tip \in Commits
        BY <1>1 DEF Marked
      <4> QED BY <3>2, <4>1, <4>2 DEF How
    <3> QED BY <2>1, <3>3 DEF Resolvable, Unmerged, Staged
  <2>3. Kept' = Kept
    BY <2>1 DEF Kept, Unmerged
  <2>4. Staged' = Staged
    BY <2>1 DEF Staged
  <2> QED BY <1>1, <2>1, <2>2, <2>3, <2>4 DEF ConflictAt
<1>4. CASE UserEdit
  <2>1. /\ tree.files = "clean" /\ UNCHANGED made
        /\ tree' = [tree EXCEPT !.files = "dirty"]
    BY <1>4 DEF UserEdit, CleanTree
  <2>2. ~Kept /\ ~Unmerged /\ ~Staged
    BY <2>1 DEF Kept, Unmerged, Staged
  <2>3. tree'.there = tree.there /\ Tip' = Tip
    BY <1>1, <2>1 DEF Tree, Tip
  <2>4. Resolvable => Resolvable'
    BY <2>1, <2>2, <2>3 DEF Resolvable, How
  <2> QED BY <1>1, <2>1, <2>2, <2>3, <2>4 DEF ConflictAt
<1>5. CASE UserCommit
  <2> DEFINE c == [base |-> Tip, of |-> NoSource, patches |-> 0, how |-> "user"]
  <2>1. /\ ~Kept /\ (tree.there => tree.files = "clean" /\ ~Staged)
        /\ tree'.there = tree.there
    BY <1>1, <1>5 DEF UserCommit, CleanTree, Kept, Unmerged, Staged, Tree
  <2>2. /\ made' = Append(made, c) /\ made \in Seq(Commit)
        /\ tree' = [tree EXCEPT !.tip = Len(made')]
    BY <1>5 DEF UserCommit, PinnedInv, TypesInv
  <2>3. c.how = "user"
    OBVIOUS
  <2> HIDE DEF c
  <2>4. made'[Newest + 1] = c /\ Len(made') = Newest + 1
    BY <2>2 DEF Newest
  <2>5. Tip' = Newest + 1
    BY <1>1, <2>2, <2>4 DEF Tree, Tip
  <2>6. How(Tip)' = "user"
    BY <2>4, <2>5, <2>3 DEF How
  <2>7. Resolvable => Resolvable'
    BY <2>1, <2>6 DEF Resolvable
  <2> QED BY <1>1, <2>1, <2>7 DEF ConflictAt
<1>6. CASE UserResolve
  <2>1. tree.files = "conflict" /\ ~Staged /\ Kept' /\ tree'.there
    BY <1>1, <1>6 DEF UserResolve, Kept, Unmerged, Staged, Tree
  <2>2. Resolvable'
    BY <2>1 DEF Resolvable, Kept
  <2> QED BY <1>1, <2>1, <2>2 DEF ConflictAt
<1>7. ~UserClean
  BY DEF UserClean
<1> QED BY <1>2, <1>3, <1>4, <1>5, <1>6, <1>7 DEF World

LEMMA ConflictStep ==
  ASSUME PinnedInv, ConflictInv, [BranchesNext]_vars
  PROVE  ConflictInv'
<1>1. CASE UNCHANGED vars
  BY <1>1 DEF vars, ConflictInv, ConflictAt, Marked, Live, Kept, Resolvable, Unmerged, Staged,
     How, Tip
<1>2. CASE PromoteNext
  BY <1>2, PromotionIsNotSync DEF ConflictInv
<1>3. CASE Crash
  <2>1. job'.pc = "none" /\ UNCHANGED <<kind, lease, reserved, made, tree>>
    BY <1>3 DEF Crash, End, NoJob
  <2>2. kind = "sync" => ConflictAt("none")
    BY DEF ConflictInv, ConflictAt
  <2> QED BY <2>1, <2>2 DEF ConflictInv, ConflictAt, Marked, Live, Resolvable, Unmerged, Staged,
             How, Tip
<1>4. CASE SyncNext \/ (Shared /\ ~Crash) \/ World
  <2>1. kind' = kind
    <3>1. CASE SyncNext
      BY <3>1 DEF SyncNext, SyncBegin, SyncStart, SyncApply, SyncConflict, SyncCommit,
         SyncVerify, SyncRecheck, SyncPush, SyncDrift, SyncOpen, ResumeNoop, ResumeCommit,
         NoopReserve, NoopRemove, RecoverBegin, RecoverStart, RecoverStage, RecoverFinal,
         RecoverMerge, RecoverRecord, DiscardBegin, DiscardStart, DiscardCheck,
         DiscardNormalize, DiscardRemove, DiscardRecover, Begin, Stop, Reserve, Remove,
         vars_, world
    <3>2. CASE Shared /\ ~Crash
      BY <3>2 DEF Shared, AddWorktree, CreateLease, FindOrCreatePull, GitHubFails, Hold,
         RecoverRemoval, Complete, DeleteBranch, Stop, vars_, world
    <3>3. CASE World
      BY <3>3 DEF World, SourceMoves, TargetMoves, UserEdit, UserCommit, UserResolve,
         UserClean, ClosePull
    <3> QED BY <1>4, <3>1, <3>2, <3>3
  <2> SUFFICES ASSUME kind = "sync"
               PROVE  ConflictAt(job.pc)'
    BY <2>1 DEF ConflictInv
  <2>2. ConflictAt(job.pc)
    BY DEF ConflictInv
  <2> QED BY <1>4, <2>2, ConflictStarts, ConflictApplies, ConflictResumed, ConflictRecovers,
             ConflictDiscards, ConflictPublishing, ConflictShared, ConflictInWorld
          DEF SyncNext, Shared
<1> QED BY <1>1, <1>2, <1>3, <1>4 DEF BranchesNext

(* Neither the content of a recorded sync conflict nor its resolution is    *)
(* lost, after any failed recoveries and discards, failed restores of the   *)
(* index and deaths (service.py _restore_recovery_index,                    *)
(* _rebuild_discard_sync_conflict).                                         *)
THEOREM ConflictsAreKept == BranchesSpec => []ConflictKept
<1>1. Init => ConflictInv
  BY DEF Init, NoJob, ConflictInv, ConflictAt, Marked, Live
<1>2. PinnedInv /\ ConflictInv => ConflictKept
  BY DEF ConflictInv, ConflictAt, ConflictKept, NoJob, Marked, Resolvable, Staged, How
<1>3. PinnedInv /\ ConflictInv /\ [BranchesNext]_vars => ConflictInv'
  BY ConflictStep
<1> QED BY <1>1, <1>2, <1>3, PinnedInvariant, PTL DEF BranchesSpec
=============================================================================
