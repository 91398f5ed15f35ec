--------------------------- MODULE ArchiveDiscard ---------------------------
(***************************************************************************)
(* `awf wt archive-discard` (worktrees/archive_discard.py) with the        *)
(* archive it writes (worktrees/archive.py) and the checkpoint that makes  *)
(* a dirty worktree removable without --force (worktrees/git_state.py):    *)
(* HEAD and index are replaced by those of a private commit of all files,  *)
(* under git's own lock files, hard links to files of a journal.           *)
(*                                                                         *)
(* A command holds the repository lock, so one runs at a time; users edit, *)
(* stage and switch under it, and it may die or meet a failing disk at     *)
(* every step.                                                             *)
(***************************************************************************)
EXTENDS Naturals

CONSTANTS Policies,      \* "clean", "dirty" (--include-uncommitted)
          Tip,           \* commits of the branch
          NoTip,
          Content,       \* contents of the files, and of the index
          Lost,          \* the files of a half deleted worktree
          Checkpoint,    \* the index of the private commit
          Unreserved,
          MaxRefreshes,  \* bound on the versions of the lease
          MaxMoves,      \* bound on what users and GitHub do
          MaxFaults      \* bound on deaths and failing operations

\* What the constants must satisfy; a module that uses this one assumes it.
ArchiveAssumption ==
  /\ Policies \subseteq {"clean", "dirty"}
  /\ Tip \subseteq Nat \ {0} /\ NoTip = 0
  /\ Content \subseteq Nat \ {0} /\ Lost = 0 /\ Checkpoint = 0
  /\ MaxRefreshes \in Nat /\ MaxMoves \in Nat /\ MaxFaults \in Nat
  /\ Unreserved \notin [version : 1 .. MaxRefreshes + 1, sha : Tip]

VARIABLES
  policy,
  row,       \* the lease, open: not yet REMOVED, and its version
  reserved,  \* the cleanup reservation of the lease
  branch,    \* the commit of the lease's branch
  elsewhere, \* another worktree has the branch checked out
  opened,    \* an open pull request
  afar,      \* the remote commit and the closed pull request of a promotion
  worktree,  \* the worktree: its directory, git's record of it, what it holds
  shared,    \* which of HEAD and index are hard links into the journal
  locks,     \* whose HEAD.lock and index.lock there are
  journal,   \* "bare" is a journal directory without its journal.json
  archives,  \* destinations, one for each token, and the finished ones
  known,     \* tokens that previews have returned
  errand,    \* the command that runs
  moves, faults

discardVars ==
  <<policy, row, reserved, branch, elsewhere, opened, afar, worktree, shared, locks,
    journal, archives, known, errand, moves, faults>>

rows == <<row, reserved>>
git == <<worktree, shared, locks>>
others == <<policy, elsewhere, opened, afar, moves, faults>>

-----------------------------------------------------------------------------
(* Tokens and what an inspection demands *)

Approval == [version : 0 .. MaxRefreshes, sha : Tip, files : Content,
             index : Content \cup {Checkpoint}, afar : BOOLEAN]

NoApproval == [version |-> 0, sha |-> 0, files |-> 0, index |-> 0, afar |-> FALSE]

\* _token_payload; a clean discard does not fingerprint the index.
TokenAt(version) ==
  [version |-> version, sha |-> branch, files |-> worktree.files,
   index |-> IF policy = "dirty" THEN worktree.index ELSE Checkpoint,
   afar |-> afar]

\* _worktree_blocker: an active checkout of the lease's branch, and no other.
\* A half deleted worktree has lost its .git file or some tracked ones.
Intact ==
  /\ worktree.there /\ worktree.listed /\ worktree.files # Lost
  /\ worktree.head = "branch" /\ branch # NoTip /\ ~elsewhere

\* _inspect up to its token.
Eligible ==
  /\ row.open /\ Intact
  /\ policy = "clean" => ~worktree.shown
  /\ ~opened
  /\ reserved # Unreserved => reserved = [version |-> row.version, sha |-> branch]

\* The version the token is about: that of before the reservation.
OriginalVersion ==
  IF reserved = Unreserved THEN row.version ELSE reserved.version - 1

Matches(tok) == Eligible /\ TokenAt(OriginalVersion) = tok

\* _verify_existing_archive
Archived(tok) == tok \in archives.whole

\* _recovery_metadata_matches and what _verify_recovery_archive asks GitHub.
Recoverable(tok) ==
  /\ Archived(tok)
  /\ reserved # Unreserved =>
       reserved = [version |-> tok.version + 1, sha |-> tok.sha]
  /\ ~opened /\ afar = tok.afar

PathAbsent == ~worktree.there /\ ~worktree.listed

-----------------------------------------------------------------------------
(* State *)

NoErrand == [pc |-> "idle", tok |-> NoApproval, after |-> "none"]

ErrandAt(pc) == errand.pc = pc
ErrandGo(pc) == errand' = [errand EXCEPT !.pc = pc]
ErrandEnds == errand' = NoErrand

\* recover_archived_removal_checkpoint, and where its caller goes on.
RecoverFor(after) == errand' = [errand EXCEPT !.pc = "reclaim", !.after = after]

LockOwners == {"none", "checkpoint", "rollback", "foreign"}

Unlocked == [head |-> "none", index |-> "none"]
NoJournal == [stage |-> "none", files |-> Lost, head |-> "branch", index |-> Checkpoint]

Removing == {"strip", "mkdir", "build", "check", "seal", "lockhead", "lockindex", "compare",
             "setindex", "sethead", "remove"}
Recovering == {"reclaim", "backhead", "backindex", "putindex", "puthead", "drop"}

ErrandSteps ==
  {"idle", "begin", "archive", "write", "recheck", "reserve", "hold", "look", "released",
   "resumed", "absent", "complete", "branch"} \cup Removing \cup Recovering

\* From the prepare of the ref transaction to its abort.
BranchHeld ==
  \/ errand.pc \in {"look", "released"} \cup Removing
  \/ errand.pc \in Recovering /\ errand.after \in {"finalize", "rollback"}

\* A clean discard holds the worktree's HEAD as well.
HeadHeld == BranchHeld /\ policy = "clean"

DiscardTypeOK ==
  /\ policy \in Policies
  /\ row \in [open : BOOLEAN, version : 0 .. MaxRefreshes + 2]
  /\ reserved \in [version : 1 .. MaxRefreshes + 1, sha : Tip] \cup {Unreserved}
  /\ branch \in Tip \cup {NoTip}
  /\ elsewhere \in BOOLEAN /\ opened \in BOOLEAN /\ afar \in BOOLEAN
  /\ worktree \in [there : BOOLEAN, listed : BOOLEAN, files : Content \cup {Lost},
                  shown : BOOLEAN, head : {"branch", "other", "checkpoint"},
                  index : Content \cup {Checkpoint}]
  /\ shared \subseteq {"head", "index"}
  /\ locks \in [head : LockOwners, index : LockOwners]
  /\ journal \in [stage : {"none", "bare", "full"}, files : Content \cup {Lost},
                  head : {"branch", "other"}, index : Content \cup {Checkpoint}]
  /\ archives \in [begun : SUBSET Approval, whole : SUBSET Approval]
  /\ known \subseteq Approval
  /\ errand \in [pc : ErrandSteps, tok : Approval \cup {NoApproval},
                 after : {"none", "resume", "absent", "finalize", "rollback"}]
  /\ moves \in 0 .. MaxMoves /\ faults \in 0 .. MaxFaults

DiscardInit ==
  /\ policy \in Policies
  /\ row = [open |-> TRUE, version |-> 0] /\ reserved = Unreserved
  /\ branch \in Tip
  /\ elsewhere = FALSE /\ opened = FALSE /\ afar = FALSE
  /\ \E files \in Content, index \in Content :
       worktree = [there |-> TRUE, listed |-> TRUE, files |-> files,
                   shown |-> policy = "dirty", head |-> "branch", index |-> index]
  /\ shared = {} /\ locks = Unlocked /\ journal = NoJournal
  /\ archives = [begun |-> {}, whole |-> {}]
  /\ known = {} /\ errand = NoErrand
  /\ moves = 0 /\ faults = 0

-----------------------------------------------------------------------------
(* Preview, and the beginning of an apply *)

\* With a reservation the preview repeats its token, if its archive is whole.
PreviewDiscard ==
  LET tok == TokenAt(OriginalVersion)
  IN  /\ ErrandAt("idle") /\ Eligible
      /\ reserved # Unreserved => Archived(tok)
      /\ OriginalVersion <= MaxRefreshes
      /\ known' = known \cup {tok}
      /\ UNCHANGED <<rows, branch, git, journal, archives, errand, others>>

ApplyDiscard(tok) ==
  /\ ErrandAt("idle")
  /\ errand' = [NoErrand EXCEPT !.pc = "begin", !.tok = tok]
  /\ UNCHANGED <<rows, branch, git, journal, archives, known, others>>

\* _retry_removed, _resume_reserved, _complete_absent_reservation or a fresh
\* discard.
BeginDiscard ==
  /\ ErrandAt("begin")
  /\ IF ~row.open
       THEN IF Recoverable(errand.tok) THEN ErrandGo("branch") ELSE ErrandEnds
     ELSE IF reserved # Unreserved
       THEN IF ~Recoverable(errand.tok) THEN ErrandEnds
            ELSE RecoverFor(IF PathAbsent THEN "absent" ELSE "resume")
     ELSE IF Matches(errand.tok) THEN ErrandGo("archive") ELSE ErrandEnds
  /\ UNCHANGED <<rows, branch, git, journal, archives, known, others>>

-----------------------------------------------------------------------------
(* create_archive and the reservation *)

Unchanged(tok) ==
  /\ worktree.there /\ worktree.files = tok.files
  /\ policy = "dirty" => /\ worktree.index = tok.index /\ worktree.head = "branch"
                         /\ branch = tok.sha

\* A destination that exists is verified, never written again.
OpenArchive ==
  /\ ErrandAt("archive")
  /\ IF errand.tok \in archives.begun
       THEN /\ IF Archived(errand.tok) THEN ErrandGo("recheck") ELSE ErrandEnds
            /\ UNCHANGED archives
     ELSE IF worktree.there /\ worktree.files = errand.tok.files
       THEN /\ archives' = [archives EXCEPT !.begun = @ \cup {errand.tok}]
            /\ ErrandGo("write")
     ELSE /\ ErrandEnds
          /\ UNCHANGED archives
  /\ UNCHANGED <<rows, branch, git, journal, known, others>>

\* Bundle, tar and git state, a last comparison, then the manifest.
WriteArchive ==
  /\ ErrandAt("write")
  /\ IF Unchanged(errand.tok)
       THEN /\ archives' = [archives EXCEPT !.whole = @ \cup {errand.tok}]
            /\ ErrandGo("recheck")
       ELSE /\ ErrandEnds
            /\ UNCHANGED archives
  /\ UNCHANGED <<rows, branch, git, journal, known, others>>

RecheckDiscard ==
  /\ ErrandAt("recheck")
  /\ IF Matches(errand.tok) THEN ErrandGo("reserve") ELSE ErrandEnds
  /\ UNCHANGED <<rows, branch, git, journal, archives, known, others>>

\* reserve_cleanup: a refresh may have touched the row since.
Reserve ==
  /\ ErrandAt("reserve")
  /\ IF row.version = errand.tok.version
       THEN /\ row' = [row EXCEPT !.version = @ + 1]
            /\ reserved' = [version |-> row.version + 1, sha |-> errand.tok.sha]
            /\ ErrandGo("hold")
       ELSE /\ ErrandEnds
            /\ UNCHANGED rows
  /\ UNCHANGED <<branch, git, journal, archives, known, others>>

ReleaseRow ==
  /\ row' = [row EXCEPT !.version = @ + 1]
  /\ reserved' = Unreserved
  /\ ErrandEnds

\* The ref transaction, which for a clean discard verifies the worktree's HEAD.
Hold ==
  /\ ErrandAt("hold")
  /\ IF branch = errand.tok.sha
        /\ (policy = "clean" => worktree.there /\ worktree.listed /\ worktree.head = "branch")
       THEN ErrandGo("look") /\ UNCHANGED rows
       ELSE ReleaseRow
  /\ UNCHANGED <<branch, git, journal, archives, known, others>>

\* The last inspection before the removal.
Look ==
  /\ ErrandAt("look")
  /\ IF Archived(errand.tok) /\ Matches(errand.tok)
       THEN ErrandGo(IF policy = "clean" THEN "strip" ELSE "mkdir") /\ UNCHANGED rows
       ELSE ReleaseRow
  /\ UNCHANGED <<branch, git, journal, archives, known, others>>

-----------------------------------------------------------------------------
(* git worktree remove, without --force *)

Fault == faults < MaxFaults /\ faults' = faults + 1

Gone == [worktree EXCEPT !.there = FALSE, !.listed = FALSE]

\* A removal that fails half way, or whose process dies there: some files are
\* left, or only git's record of the worktree.
Remnant ==
  {[worktree EXCEPT !.files = Lost, !.shown = TRUE], [worktree EXCEPT !.there = FALSE]}

\* git refuses a worktree whose status shows anything.
GitRemoves ==
  /\ worktree.there /\ worktree.listed /\ ~worktree.shown
  /\ worktree' = Gone

Strip ==
  /\ ErrandAt("strip")
  /\ \/ /\ GitRemoves
        /\ ErrandGo("complete")
        /\ shared' = {} /\ locks' = Unlocked
        /\ UNCHANGED faults
     \/ /\ worktree.shown
        /\ ErrandGo("released")
        /\ UNCHANGED <<git, faults>>
     \/ /\ Fault
        /\ worktree' \in Remnant \cup {worktree}
        /\ ErrandGo("released")
        /\ UNCHANGED <<shared, locks>>
  /\ UNCHANGED <<rows, branch, journal, archives, known, policy, elsewhere, opened,
                 afar, moves>>

\* The removal under the checkpoint's HEAD and index.
RemoveReserved ==
  /\ ErrandAt("remove")
  /\ \/ /\ GitRemoves
        /\ RecoverFor("finalize")
        /\ shared' = {} /\ locks' = Unlocked
        /\ UNCHANGED faults
     \/ /\ worktree.shown
        /\ RecoverFor("rollback")
        /\ UNCHANGED <<git, faults>>
     \/ /\ Fault
        /\ worktree' \in Remnant \cup {worktree}
        /\ RecoverFor("rollback")
        /\ UNCHANGED <<shared, locks>>
  /\ UNCHANGED <<rows, branch, journal, archives, known, policy, elsewhere, opened,
                 afar, moves>>

\* _release_after_remove_failure
AfterFailure ==
  /\ ErrandAt("released")
  /\ IF Matches(errand.tok) THEN ReleaseRow ELSE ErrandEnds /\ UNCHANGED rows
  /\ UNCHANGED <<branch, git, journal, archives, known, others>>

-----------------------------------------------------------------------------
(* archived_removal_checkpoint *)

\* Only HEAD, index and operation state are compared with the archive's.
SameGitState ==
  /\ worktree.there /\ worktree.head = "branch" /\ branch = errand.tok.sha
  /\ worktree.index = errand.tok.index

MakeJournal ==
  /\ ErrandAt("mkdir")
  /\ IF SameGitState /\ journal.stage = "none"
       THEN /\ journal' = [NoJournal EXCEPT !.stage = "bare"]
            /\ ErrandGo("build")
       ELSE /\ ErrandGo("released")
            /\ UNCHANGED journal
  /\ UNCHANGED <<rows, branch, git, archives, known, others>>

\* _build_checkpoint_commit reads every file of the worktree as it is now.
BuildCheckpoint ==
  /\ ErrandAt("build")
  /\ journal' = [journal EXCEPT !.files = worktree.files]
  /\ ErrandGo("check")
  /\ UNCHANGED <<rows, branch, git, archives, known, others>>

\* The last comparison with the archive; a journal that was never sealed is removed.
CheckAgain ==
  /\ ErrandAt("check")
  /\ IF SameGitState THEN ErrandGo("seal") /\ UNCHANGED journal
     ELSE journal' = NoJournal /\ ErrandGo("released")
  /\ UNCHANGED <<rows, branch, git, archives, known, others>>

\* Mutant: HEAD and index are replaced under an unsealed journal.
SealNothing ==
  /\ ErrandAt("seal")
  /\ journal' = [journal EXCEPT !.head = worktree.head, !.index = worktree.index]
  /\ ErrandGo("lockhead")
  /\ UNCHANGED <<rows, branch, git, archives, known, others>>

\* What is sealed as the original is read only now, whoever wrote it since.
SealJournal ==
  /\ ErrandAt("seal")
  /\ journal' = [journal EXCEPT !.stage = "full", !.head = worktree.head,
                                !.index = worktree.index]
  /\ ErrandGo("lockhead")
  /\ UNCHANGED <<rows, branch, git, archives, known, others>>

LockHead ==
  /\ ErrandAt("lockhead")
  /\ IF locks.head = "none"
       THEN locks' = [locks EXCEPT !.head = "checkpoint"] /\ ErrandGo("lockindex")
       ELSE RecoverFor("rollback") /\ UNCHANGED locks
  /\ UNCHANGED <<rows, branch, worktree, shared, journal, archives, known, others>>

LockIndex ==
  /\ ErrandAt("lockindex")
  /\ IF locks.index = "none"
       THEN locks' = [locks EXCEPT !.index = "checkpoint"] /\ ErrandGo("compare")
       ELSE locks' = [locks EXCEPT !.head = "none"] /\ RecoverFor("rollback")
  /\ UNCHANGED <<rows, branch, worktree, shared, journal, archives, known, others>>

\* Mutant: HEAD and index are replaced without another look at them.
CompareNothing ==
  /\ ErrandAt("compare")
  /\ ErrandGo("setindex")
  /\ UNCHANGED <<rows, branch, git, journal, archives, known, others>>

CompareUnderLocks ==
  /\ ErrandAt("compare")
  /\ IF worktree.there /\ worktree.head = journal.head /\ worktree.index = journal.index
       THEN ErrandGo("setindex") /\ UNCHANGED locks
       ELSE locks' = Unlocked /\ RecoverFor("rollback")
  /\ UNCHANGED <<rows, branch, worktree, shared, journal, archives, known, others>>

\* Against the checkpoint only files that are not as they were read show up;
\* a new file that git ignores does not.
SetIndex ==
  /\ ErrandAt("setindex")
  /\ \E shown \in BOOLEAN :
       /\ worktree.files = journal.files => ~shown
       /\ worktree' = [worktree EXCEPT !.index = Checkpoint, !.shown = shown]
  /\ \/ /\ ErrandGo("sethead") /\ UNCHANGED faults
        /\ locks' = [locks EXCEPT !.index = "none"]
     \/ /\ Fault /\ RecoverFor("rollback")
        /\ locks' = Unlocked
  /\ UNCHANGED <<rows, branch, shared, journal, archives, known, policy, elsewhere,
                 opened, afar, moves>>

SetHead ==
  /\ ErrandAt("sethead")
  /\ worktree' = [worktree EXCEPT !.head = "checkpoint"]
  /\ locks' = [locks EXCEPT !.head = "none"]
  /\ ErrandGo("remove")
  /\ UNCHANGED <<rows, branch, shared, journal, archives, known, others>>

-----------------------------------------------------------------------------
(* recover_archived_removal_checkpoint *)

\* Where its callers go on, and what they do when it raises.
Recovered ==
  ErrandGo(CASE errand.after = "resume" -> "resumed"
             [] errand.after = "absent" -> "absent"
             [] errand.after = "finalize" -> "complete"
             [] OTHER -> "released")

RecoveryFails ==
  IF errand.after \in {"finalize", "rollback"} THEN ErrandGo("released") ELSE ErrandEnds

OneOfOurs ==
  /\ worktree.head \in {journal.head, "checkpoint"}
  /\ worktree.index \in {journal.index, Checkpoint}

AsRecorded == worktree.head = journal.head /\ worktree.index = journal.index

\* The locks of the application are reclaimed first; any other one raises, a
\* lock that an earlier recovery was killed with included.
Reclaim ==
  /\ ErrandAt("reclaim")
  /\ IF journal.stage = "none"
       THEN /\ IF errand.after \in {"resume", "absent"} THEN Recovered ELSE RecoveryFails
            /\ UNCHANGED locks
     ELSE IF journal.stage = "bare" THEN RecoveryFails /\ UNCHANGED locks
     ELSE IF ~worktree.there THEN ErrandGo("drop") /\ UNCHANGED locks
     ELSE IF locks.head \notin {"none", "checkpoint"}
       THEN RecoveryFails /\ UNCHANGED locks
     ELSE IF locks.index \notin {"none", "checkpoint"}
       THEN RecoveryFails /\ locks' = [locks EXCEPT !.head = "none"]
     ELSE /\ locks' = Unlocked
          /\ IF ~OneOfOurs THEN RecoveryFails
             ELSE IF AsRecorded THEN ErrandGo("drop") ELSE ErrandGo("backhead")
  /\ UNCHANGED <<rows, branch, worktree, shared, journal, archives, known, others>>

\* A link to a backup that is already HEAD or index has a third name: the new
\* lock is refused, and so is its removal.
RollbackHeadLock ==
  /\ ErrandAt("backhead")
  /\ IF locks.head # "none" THEN RecoveryFails /\ UNCHANGED locks
     ELSE /\ locks' = [locks EXCEPT !.head = "rollback"]
          /\ IF "head" \in shared THEN RecoveryFails ELSE ErrandGo("backindex")
  /\ UNCHANGED <<rows, branch, worktree, shared, journal, archives, known, others>>

RollbackIndexLock ==
  /\ ErrandAt("backindex")
  /\ IF locks.index # "none" THEN RecoveryFails /\ locks' = [locks EXCEPT !.head = "none"]
     ELSE IF "index" \in shared
       THEN RecoveryFails /\ locks' = [head |-> "none", index |-> "rollback"]
     ELSE ErrandGo("putindex") /\ locks' = [locks EXCEPT !.index = "rollback"]
  /\ UNCHANGED <<rows, branch, worktree, shared, journal, archives, known, others>>

\* The second comparison, under both locks, and the index.
RestoreIndex ==
  /\ ErrandAt("putindex")
  /\ IF ~OneOfOurs
       THEN locks' = Unlocked /\ RecoveryFails /\ UNCHANGED <<worktree, shared>>
     ELSE /\ locks' = [locks EXCEPT !.index = "none"]
          /\ ErrandGo("puthead")
          /\ IF worktree.index = Checkpoint
               THEN /\ worktree' = [worktree EXCEPT !.index = journal.index,
                                                     !.shown = TRUE]
                    /\ shared' = shared \cup {"index"}
               ELSE UNCHANGED <<worktree, shared>>
  /\ UNCHANGED <<rows, branch, journal, archives, known, others>>

RestoreHead ==
  /\ ErrandAt("puthead")
  /\ locks' = [locks EXCEPT !.head = "none"]
  /\ ErrandGo("drop")
  /\ IF worktree.head = "checkpoint"
       THEN /\ worktree' = [worktree EXCEPT !.head = journal.head]
            /\ shared' = shared \cup {"head"}
       ELSE UNCHANGED <<worktree, shared>>
  /\ UNCHANGED <<rows, branch, journal, archives, known, others>>

DropJournal ==
  /\ ErrandAt("drop")
  /\ \/ /\ journal' = NoJournal /\ shared' = {}
        /\ Recovered
        /\ UNCHANGED faults
     \/ /\ Fault /\ RecoveryFails
        /\ journal' = [journal EXCEPT !.stage = "bare"]
        /\ UNCHANGED shared
  /\ UNCHANGED <<rows, branch, worktree, locks, archives, known, policy, elsewhere, opened,
                 afar, moves>>

-----------------------------------------------------------------------------
(* After a recovery, and the end of a discard *)

Resume ==
  /\ ErrandAt("resumed")
  /\ IF Matches(errand.tok) /\ Archived(errand.tok) THEN ErrandGo("hold") ELSE ErrandEnds
  /\ UNCHANGED <<rows, branch, git, journal, archives, known, others>>

CompleteAbsent ==
  /\ ErrandAt("absent")
  /\ IF branch = reserved.sha THEN ErrandGo("complete") ELSE ErrandEnds
  /\ UNCHANGED <<rows, branch, git, journal, archives, known, others>>

CompleteDiscard ==
  /\ ErrandAt("complete")
  /\ row' = [open |-> FALSE, version |-> row.version + 1]
  /\ reserved' = Unreserved
  /\ ErrandGo("branch")
  /\ UNCHANGED <<branch, git, journal, archives, known, others>>

\* Mutant: the branch is deleted at whatever commit it is.
FinishAnyCommit ==
  /\ ErrandAt("branch")
  /\ ErrandEnds
  /\ \/ /\ branch # NoTip /\ ~elsewhere
        /\ branch' = NoTip
     \/ UNCHANGED branch
  /\ UNCHANGED <<rows, git, journal, archives, known, others>>

\* Only AWF's own branches, at the archived commit and checked out nowhere;
\* what cannot be deleted is a warning.
FinishBranch ==
  /\ ErrandAt("branch")
  /\ ErrandEnds
  /\ \/ /\ branch = errand.tok.sha /\ ~elsewhere
        /\ branch' = NoTip
     \/ UNCHANGED branch
  /\ UNCHANGED <<rows, git, journal, archives, known, others>>

-----------------------------------------------------------------------------
(* Deaths, users and GitHub *)

DiscardDies ==
  /\ ~ErrandAt("idle") /\ Fault /\ ErrandEnds
  /\ \/ UNCHANGED <<worktree, journal>>
     \/ /\ ErrandAt("strip") \/ ErrandAt("remove")
        /\ worktree' \in Remnant
        /\ UNCHANGED journal
     \/ /\ ErrandAt("drop")
        /\ journal' = [journal EXCEPT !.stage = "bare"]
        /\ UNCHANGED worktree
  /\ UNCHANGED <<rows, branch, shared, locks, archives, known, policy, elsewhere,
                 opened, afar, moves>>

Happens ==
  /\ moves < MaxMoves /\ moves' = moves + 1
  /\ UNCHANGED <<policy, reserved, journal, archives, known, errand, faults>>

Edit ==
  /\ Happens /\ worktree.there /\ worktree.files # Lost
  /\ \E files \in Content \ {worktree.files}, shown \in BOOLEAN :
       worktree' = [worktree EXCEPT !.files = files, !.shown = shown]
  /\ UNCHANGED <<row, branch, elsewhere, opened, afar, shared, locks>>

\* A file of git's is replaced, never written in place.
Stage ==
  /\ Happens /\ worktree.there /\ locks.index = "none"
  /\ \E index \in Content \ {worktree.index} :
       worktree' = [worktree EXCEPT !.index = index]
  /\ shared' = shared \ {"index"}
  /\ UNCHANGED <<row, branch, elsewhere, opened, afar, locks>>

Switch ==
  /\ Happens /\ worktree.there /\ locks = Unlocked /\ ~HeadHeld
  /\ \E head \in {"branch", "other"} \ {worktree.head} :
       worktree' = [worktree EXCEPT !.head = head]
  /\ shared' = shared \ {"head"}
  /\ UNCHANGED <<row, branch, elsewhere, opened, afar, locks>>

\* A commit in the worktree, or elsewhere once it does not own the branch.
MoveTip ==
  /\ Happens /\ ~BranchHeld
  /\ IF worktree.listed /\ worktree.head = "branch"
       THEN worktree.there /\ locks = Unlocked /\ branch' \in Tip \ {branch}
       ELSE branch' \in (Tip \cup {NoTip}) \ {branch}
  /\ UNCHANGED <<row, git, elsewhere, opened, afar>>

CheckOutElsewhere ==
  /\ Happens /\ branch # NoTip
  /\ worktree.listed /\ worktree.head = "branch" => elsewhere
  /\ elsewhere' = ~elsewhere
  /\ UNCHANGED <<row, branch, git, opened, afar>>

\* Another git command takes a lock in the worktree, or gives it back.
ForeignLock ==
  /\ Happens /\ worktree.there
  /\ \/ /\ locks.head \in {"none", "foreign"}
        /\ locks' = [locks EXCEPT !.head = IF @ = "none" THEN "foreign" ELSE "none"]
     \/ /\ locks.index \in {"none", "foreign"}
        /\ locks' = [locks EXCEPT !.index = IF @ = "none" THEN "foreign" ELSE "none"]
  /\ UNCHANGED <<row, branch, elsewhere, opened, afar, worktree, shared>>

MoveGitHub ==
  /\ Happens
  /\ \/ opened' = ~opened /\ UNCHANGED afar
     \/ afar' = ~afar /\ UNCHANGED opened
  /\ UNCHANGED <<row, branch, git, elsewhere>>

\* git worktree prune; status --refresh, which does not take the lock.
Housekeeping ==
  /\ Happens
  /\ \/ /\ ~worktree.there /\ worktree.listed
        /\ worktree' = Gone
        /\ UNCHANGED row
     \/ /\ row.open /\ reserved = Unreserved /\ row.version < MaxRefreshes
        /\ row' = [row EXCEPT !.version = @ + 1]
        /\ UNCHANGED worktree
  /\ UNCHANGED <<branch, elsewhere, opened, afar, shared, locks>>

DiscardWorld ==
  \/ Edit \/ Stage \/ Switch \/ MoveTip \/ CheckOutElsewhere
  \/ ForeignLock \/ MoveGitHub \/ Housekeeping

DiscardNext ==
  \/ PreviewDiscard \/ \E tok \in known : ApplyDiscard(tok)
  \/ BeginDiscard \/ OpenArchive \/ WriteArchive \/ RecheckDiscard
  \/ Reserve \/ Hold \/ Look
  \/ Strip \/ RemoveReserved \/ AfterFailure
  \/ MakeJournal \/ BuildCheckpoint \/ CheckAgain \/ SealJournal
  \/ LockHead \/ LockIndex \/ CompareUnderLocks \/ SetIndex \/ SetHead
  \/ Reclaim \/ RollbackHeadLock \/ RollbackIndexLock
  \/ RestoreIndex \/ RestoreHead \/ DropJournal
  \/ Resume \/ CompleteAbsent \/ CompleteDiscard \/ FinishBranch
  \/ DiscardDies \/ DiscardWorld

DiscardSpec == DiscardInit /\ [][DiscardNext]_discardVars

-----------------------------------------------------------------------------
(* Properties *)

ByCommand == moves' = moves

WorktreeGoneIsArchived ==
  worktree.there /\ ~worktree'.there /\ ByCommand =>
    errand.tok \in archives.whole /\ errand.tok.sha = branch

LeaseGoneIsArchived ==
  row.open /\ ~row'.open =>
    \E tok \in archives.whole :
      reserved = [version |-> tok.version + 1, sha |-> tok.sha]

BranchGoneIsArchived ==
  branch # NoTip /\ branch' = NoTip /\ ByCommand =>
    ~row.open /\ \E tok \in archives.whole : tok.sha = branch

\* A discard never removes what is not backed by a finished archive of the same
\* commit: not the worktree, not the lease, not the branch, whatever was
\* interrupted and retried before.
GoneIsArchived ==
  [][WorktreeGoneIsArchived /\ LeaseGoneIsArchived /\ BranchGoneIsArchived]_discardVars

CheckpointExplained ==
  \/ journal.stage = "full" \/ ~worktree.there
  \/ /\ worktree.head # "checkpoint" /\ worktree.index # Checkpoint
     /\ {locks.head, locks.index} \subseteq {"none", "foreign"}

ReservationBacked ==
  reserved # Unreserved =>
    \E tok \in archives.whole : reserved = [version |-> tok.version + 1, sha |-> tok.sha]

\* Whatever a dead discard leaves behind can be undone or completed.  HEAD, an
\* index or a lock that belongs to a checkpoint has the sealed journal to restore
\* it from, and a reservation the finished archive of the very commit and version.
LeftoversExplained == CheckpointExplained /\ ReservationBacked

OverwritesOwn ==
  ByCommand /\ worktree'.there =>
    /\ worktree'.head # worktree.head =>
         /\ journal.stage = "full"
         /\ {worktree.head, worktree'.head} = {journal.head, "checkpoint"}
    /\ worktree'.index # worktree.index =>
         /\ journal.stage = "full"
         /\ {worktree.index, worktree'.index} = {journal.index, Checkpoint}

\* The checkpoint replaces no HEAD and no index but those that its sealed journal
\* has, and its recovery none but the checkpoint's, by those of the journal: what a
\* user writes after the journal's reads is not overwritten.  What a user writes
\* between the last comparison with the archive (git_state.py:351) and those reads
\* (354-355) is in the journal alone: a removal that fails brings it back, and one
\* that succeeds takes it along.
UserStateKept == [][OverwritesOwn]_discardVars

\* What resources/release-worktree-lifecycle/SKILL.md:552 says of a discard: any
\* drift preserves the original worktree.  So a worktree that is removed because
\* its files are those of the checkpoint has the files of the archive.
NothingUnarchived ==
  [][worktree.there /\ ~worktree'.there /\ ByCommand /\ worktree.files = journal.files =>
       worktree.files = errand.tok.files]_discardVars
=============================================================================
