----------------------------- MODULE MCArchives -----------------------------
(***************************************************************************)
(* The three commands that back something up before they delete it, the    *)
(* restore of an archive that is repacked, and the release bridge, whose   *)
(* rebuild deletes the worktree it replaces.  Each behaviour is of one of  *)
(* them; the state of the others stays as it is.                           *)
(***************************************************************************)
EXTENDS ArchiveDiscard, ArchiveRestore, BranchDiscard, ReleaseBridge

CONSTANT Commands  \* "discard", "branch", "repack", "release"

VARIABLE command

ASSUME ArchiveAssumption /\ DiscardAssumption /\ ReleaseAssumption

\* Commits and contents are interchangeable, so each begins with the first.
ArchivesInit ==
  /\ command \in Commands
  /\ DiscardInit /\ BranchInit /\ RepackInit /\ RestoreInit /\ Init
  /\ branch = 1 /\ ref = 1 /\ worktree.files = 1 /\ worktree.index = 1
  /\ command # "discard" => policy = "clean"
  /\ command # "branch" => place = "remote"

ArchivesNext ==
  \/ /\ command = "discard" /\ DiscardNext
     /\ UNCHANGED <<command, branchVars, repackVars, restoreVars, vars>>
  \/ /\ command = "branch" /\ BranchNext
     /\ UNCHANGED <<command, discardVars, repackVars, restoreVars, vars>>
  \/ /\ command = "repack" /\ RepackOrRestore
     /\ UNCHANGED <<command, discardVars, branchVars, vars>>
  \/ /\ command = "release" /\ Next
     /\ UNCHANGED <<command, discardVars, branchVars, repackVars, restoreVars>>

ArchivesSpec ==
  ArchivesInit
    /\ [][ArchivesNext]_<<command, discardVars, branchVars, repackVars, restoreVars, vars>>

-----------------------------------------------------------------------------

\* Every variable of the four commands keeps its type.
ArchivesTypeOK ==
  DiscardTypeOK /\ BranchTypeOK /\ RepackTypeOK /\ RestoreTypeOK /\ TypeOK
=============================================================================
