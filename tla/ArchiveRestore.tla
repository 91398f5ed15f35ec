---------------------------- MODULE ArchiveRestore ----------------------------
(***************************************************************************)
(* `awf wt archive-restore` (worktrees/archive.py): an archive is verified *)
(* and restored into a directory that does not exist yet.  A restore takes *)
(* no lock and opens the archive by its path again for every artifact, so  *)
(* a repack may exchange the archive between two of its reads; everything  *)
(* is staged beside the destination and published by one rename.           *)
(***************************************************************************)
EXTENDS ArchiveRepack

VARIABLES
  restoring,   \* step of the restore that runs
  manifest,    \* the archive whose manifest it has read
  staged,      \* the files in its temporary directory
  destination  \* who made what is at the destination, and of which archive

restoreVars == <<restoring, manifest, staged, destination>>

Complete == {"original", "derivative"}

Unrestored(by) == [by |-> by, manifest |-> "none", files |-> "none"]

RestoreTypeOK ==
  /\ restoring \in {"idle", "history", "tree", "state", "check", "replace"}
  /\ manifest \in Complete \cup {"none"}
  /\ staged \in Complete \cup {"none", "spoiled"}
  /\ destination \in [by : {"nobody", "user", "restore"}, manifest : Complete \cup {"none"},
                      files : Complete \cup {"none", "spoiled"}]

RestoreInit ==
  /\ restoring = "idle" /\ manifest = "none" /\ staged = "none"
  /\ destination = Unrestored("nobody")

-----------------------------------------------------------------------------

\* What passes _read_verified_archive: every artifact has the digest its
\* manifest records, and the tar exactly the entries of the snapshot.
Verified == source \in Complete

\* validate_restore_destination, and the look at it before the rename.
DestinationAbsent == destination.by = "nobody"

StartRestore ==
  /\ restoring = "idle"
  /\ Verified /\ DestinationAbsent
  /\ manifest' = source
  /\ restoring' = "history"
  /\ UNCHANGED <<staged, destination>>

\* init, fetch and reset to the head of the manifest; a derivative has the
\* bundle of its original.
RestoreHistory ==
  /\ restoring = "history" /\ source # "none"
  /\ restoring' = "tree"
  /\ UNCHANGED <<manifest, staged, destination>>

\* Every member has its entry in the snapshot, every entry its member, and every
\* file the entry's digest.  The damage may be to another artifact.
TarMatches == source = manifest \/ (source = "spoiled" /\ manifest = "derivative")

\* Mutant: the members are taken as they come.
RestoreTreeUnchecked ==
  /\ restoring = "tree" /\ source # "none"
  /\ staged' = source
  /\ restoring' = "state"
  /\ UNCHANGED <<manifest, destination>>

RestoreTree ==
  /\ restoring = "tree" /\ TarMatches
  /\ staged' = manifest
  /\ restoring' = "state"
  /\ UNCHANGED <<manifest, destination>>

\* verify_git_state: the same artifacts in an original and its derivative.
StateVerifies == source # "none"

RestoreState ==
  /\ restoring = "state" /\ StateVerifies
  /\ restoring' = "check"
  /\ UNCHANGED <<manifest, staged, destination>>

CheckDestination ==
  /\ restoring = "check" /\ DestinationAbsent
  /\ restoring' = "replace"
  /\ UNCHANGED <<manifest, staged, destination>>

\* os.replace does not take the place of a directory with files in it.
ReplaceDestination ==
  /\ restoring = "replace" /\ DestinationAbsent
  /\ destination' = [by |-> "restore", manifest |-> manifest, files |-> staged]
  /\ restoring' = "idle" /\ staged' = "none"
  /\ UNCHANGED manifest

\* An artifact that does not match, a destination that is there, a death: the
\* temporary directory is given up.
FailRestore ==
  /\ restoring # "idle"
  /\ restoring' = "idle" /\ staged' = "none"
  /\ UNCHANGED <<manifest, destination>>

\* A user makes the directory, or removes it.
UserDestination ==
  /\ destination' = Unrestored(IF DestinationAbsent THEN "user" ELSE "nobody")
  /\ UNCHANGED <<restoring, manifest, staged>>

RestoreNext ==
  \/ StartRestore \/ RestoreHistory \/ RestoreTree \/ RestoreState
  \/ CheckDestination \/ ReplaceDestination \/ FailRestore \/ UserDestination

\* The two commands, step by step in any order.
RepackOrRestore ==
  \/ RepackNext /\ UNCHANGED restoreVars
  \/ RestoreNext /\ UNCHANGED repackVars

RestoreSpec ==
  RepackInit /\ RestoreInit /\ [][RepackOrRestore]_<<repackVars, restoreVars>>

-----------------------------------------------------------------------------
(* Properties *)

\* What a restore publishes is one archive as its manifest describes it, the
\* original's or the derivative's: however a repack that runs at the same time
\* exchanges the two, no destination has the history of a manifest and the
\* files of another (archive.py:restore_archive).
RestoredWhole ==
  destination.by = "restore" =>
    destination.manifest \in Complete /\ destination.files = destination.manifest
=============================================================================
