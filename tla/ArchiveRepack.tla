---------------------------- MODULE ArchiveRepack ----------------------------
(***************************************************************************)
(* `awf wt archive-repack` (worktrees/archive_repack.py): the archive of a *)
(* removed worktree is replaced by a derivative without excluded paths.    *)
(* The derivative is staged beside it, the original moves aside, the       *)
(* derivative takes its path and the original is deleted; a journal beside *)
(* them says how far that came.  A lock of the archive's own serializes    *)
(* the commands, which may die or fail at every step.                      *)
(***************************************************************************)
EXTENDS Naturals

CONSTANTS MaxSpoils,    \* bound on replacements found damaged at a retry
          MaxFailures   \* bound on commands that end between two steps

ASSUME RepackAssumption == MaxSpoils \in Nat /\ MaxFailures \in Nat

VARIABLES
  source,    \* what is at the archive's path
  previous,  \* and at the path the original moves to
  staging,   \* and at that of the staged derivative
  state,     \* the journal's state, or "none"
  recorded,  \* the completed journal still names the previous archive
  step,      \* of the command that runs
  spoils, failures

repackVars == <<source, previous, staging, state, recorded, step, spoils, failures>>

RepackTypeOK ==
  /\ source \in {"none", "original", "derivative", "spoiled"}
  /\ previous \in {"none", "original", "part"}
  /\ staging \in {"none", "partial", "derivative", "spoiled"}
  /\ state \in {"none", "prepared", "source_moved", "published", "completed"}
  /\ recorded \in BOOLEAN
  /\ step \in {"idle", "begin", "copy", "copied", "prepare", "continue", "moveSource", "moved",
               "check", "moveStaging", "publish", "finalize", "restore", "putBack",
               "stale", "delete", "close"}
  /\ spoils \in 0 .. MaxSpoils /\ failures \in 0 .. MaxFailures

RepackInit ==
  /\ source = "original" /\ previous = "none" /\ staging = "none"
  /\ state = "none" /\ recorded = FALSE /\ step = "idle"
  /\ spoils = 0 /\ failures = 0

Finish == step' = "idle"

-----------------------------------------------------------------------------
(* The command *)

StartRepack ==
  /\ step = "idle" /\ step' = "begin"
  /\ UNCHANGED <<source, previous, staging, state, recorded, spoils, failures>>

\* _apply and _verify_completed: a fresh repack, a completed one, one to resume.
BeginRepack ==
  /\ step = "begin"
  /\ step' =
       IF state = "none" THEN IF source = "original" THEN "copy" ELSE "idle"
       ELSE IF state # "completed" THEN "continue"
       ELSE IF source # "derivative" \/ ~recorded THEN "idle"
       ELSE IF previous = "none" THEN "close" ELSE "delete"
  /\ UNCHANGED <<source, previous, staging, state, recorded, spoils, failures>>

\* repack_archive_contents, into a new sibling: verified and synced.
StageDerivative ==
  /\ \/ step = "copy" /\ step' = "copied" /\ staging' = "partial"
     \/ step = "copied" /\ step' = "prepare" /\ staging' = "derivative"
  /\ UNCHANGED <<source, previous, state, recorded, spoils, failures>>

PrepareJournal ==
  /\ step = "prepare" /\ step' = "continue"
  /\ state' = "prepared"
  /\ UNCHANGED <<source, previous, staging, recorded, spoils, failures>>

\* Mutant: a published journal is believed, and the original deleted.
ContinueByJournal ==
  /\ step = "continue"
  /\ step' =
       IF source # "none" /\ previous # "none"
         THEN IF state = "published" THEN "delete" ELSE "restore"
       ELSE IF source # "none"
         THEN IF source # "original" THEN "idle"
              ELSE IF state = "prepared" /\ staging = "derivative" THEN "moveSource"
              ELSE "stale"
       ELSE IF previous = "original" THEN "check" ELSE "idle"
  /\ UNCHANGED <<source, previous, staging, state, recorded, spoils, failures>>

\* _continue_transaction and the first half of _publish.
ContinueTransaction ==
  /\ step = "continue"
  /\ step' =
       IF source # "none" /\ previous # "none"
         THEN IF source = "derivative" THEN "finalize" ELSE "restore"
       ELSE IF source # "none"
         THEN IF source # "original" THEN "idle"
              ELSE IF state = "prepared" /\ staging = "derivative" THEN "moveSource"
              ELSE "stale"
       ELSE IF previous = "original" THEN "check" ELSE "idle"
  /\ UNCHANGED <<source, previous, staging, state, recorded, spoils, failures>>

MoveSource ==
  /\ step = "moveSource" /\ step' = "moved"
  /\ previous' = source /\ source' = "none"
  /\ UNCHANGED <<staging, state, recorded, spoils, failures>>

SourceMoved ==
  /\ step = "moved" /\ step' = "check"
  /\ state' = "source_moved"
  /\ UNCHANGED <<source, previous, staging, recorded, spoils, failures>>

CheckCandidate ==
  /\ step = "check"
  /\ step' = IF staging = "derivative" THEN "moveStaging" ELSE "restore"
  /\ UNCHANGED <<source, previous, staging, state, recorded, spoils, failures>>

MoveStaging ==
  /\ step = "moveStaging" /\ step' = "publish"
  /\ source' = staging /\ staging' = "none"
  /\ UNCHANGED <<previous, state, recorded, spoils, failures>>

PublishDerivative ==
  /\ step = "publish" /\ step' = "finalize"
  /\ state' = "published"
  /\ UNCHANGED <<source, previous, staging, recorded, spoils, failures>>

Finalize ==
  /\ step = "finalize"
  /\ source = "derivative"
  /\ state' = "completed"
  /\ recorded' = (previous # "none")
  /\ step' = IF previous # "none" THEN "delete" ELSE "idle"
  /\ UNCHANGED <<source, previous, staging, spoils, failures>>

\* _delete_verified_archive, file by file, then the receipt forgets it.
DeletePrevious ==
  /\ step = "delete"
  /\ IF previous = "part"
       THEN previous' = "none" /\ step' = "close"
       ELSE previous' = "part" /\ UNCHANGED step
  /\ UNCHANGED <<source, staging, state, recorded, spoils, failures>>

CloseReceipt ==
  /\ step = "close" /\ Finish
  /\ recorded' = FALSE
  /\ UNCHANGED <<source, previous, staging, state, spoils, failures>>

\* _restore_original: a bad replacement is set aside first.
Restore ==
  /\ step = "restore"
  /\ IF previous = "original"
       THEN source' = "none" /\ step' = "putBack"
       ELSE Finish /\ UNCHANGED source
  /\ UNCHANGED <<previous, staging, state, recorded, spoils, failures>>

PutBack ==
  /\ step = "putBack" /\ step' = "stale"
  /\ source' = previous /\ previous' = "none"
  /\ UNCHANGED <<staging, state, recorded, spoils, failures>>

\* _finish_stale_transaction
RemoveJournal ==
  /\ step = "stale" /\ Finish
  /\ state' = "none"
  /\ UNCHANGED <<source, previous, staging, recorded, spoils, failures>>

-----------------------------------------------------------------------------
(* Deaths and damage *)

FailRepack ==
  /\ step # "idle" /\ failures < MaxFailures
  /\ failures' = failures + 1 /\ Finish
  /\ UNCHANGED <<source, previous, staging, state, recorded, spoils>>

\* Between commands the replacement of an unfinished repack may be damaged.
Spoil ==
  /\ step = "idle" /\ state \notin {"none", "completed"} /\ spoils < MaxSpoils
  /\ spoils' = spoils + 1
  /\ \/ /\ staging = "derivative" /\ staging' = "spoiled"
        /\ UNCHANGED source
     \/ /\ source = "derivative" /\ source' = "spoiled"
        /\ UNCHANGED staging
  /\ UNCHANGED <<previous, state, recorded, step, failures>>

RepackNext ==
  \/ StartRepack \/ BeginRepack \/ StageDerivative \/ PrepareJournal
  \/ ContinueTransaction \/ MoveSource \/ SourceMoved \/ CheckCandidate
  \/ MoveStaging \/ PublishDerivative \/ Finalize \/ DeletePrevious \/ CloseReceipt
  \/ Restore \/ PutBack \/ RemoveJournal \/ FailRepack \/ Spoil

RepackSpec == RepackInit /\ [][RepackNext]_repackVars

-----------------------------------------------------------------------------
(* Properties *)

\* Whatever dies and whatever is damaged before the receipt is written, the
\* backup exists: the original somewhere, or a verified derivative at the
\* archive's path.
BackupKept == source \in {"original", "derivative"} \/ previous = "original"

\* A repack that was cut short can be told from its journal: without one the
\* original is at its path and nothing is at the other, and only a completed
\* one has begun to delete it.
InterruptionExplained ==
  /\ state = "none" => source = "original" /\ previous = "none"
  /\ previous = "part" => state = "completed" /\ source = "derivative"
=============================================================================
