---------------------------- MODULE BackupProofs ----------------------------
(***************************************************************************)
(* Back up, then delete.  `awf wt archive-repack` never loses the backup,  *)
(* for any number of deaths and of damaged replacements, and               *)
(* `archive-restore` never mixes the two archives a repack exchanges under *)
(* it.  `awf wt discard-remote-branch` and `discard-local-branch` delete   *)
(* what was approved, once, and only with its backup on disk; and          *)
(* `archive-discard` removes only what a finished archive holds, leaves    *)
(* nothing unexplained and overwrites nothing of the user's.               *)
(***************************************************************************)
EXTENDS ArchiveDiscard, ArchiveRestore, BranchDiscard, TLAPS

\* What is at the two paths of the archive.
At(s, p) == source = s /\ previous = p

\* What a step of the running command relies on, by the step it is at.
StepFacts ==
  /\ step \in {"copy", "copied", "prepare"} => state = "none"
  /\ step = "continue" => state \notin {"none", "completed"}
  /\ step = "moveSource" => At("original", "none") /\ state = "prepared" /\ staging = "derivative"
  /\ step \in {"moved", "check", "moveStaging"} =>
       At("none", "original") /\ state \notin {"none", "completed"}
  /\ step = "moveStaging" => staging = "derivative"
  /\ step \in {"publish", "finalize"} =>
       At("derivative", "original") /\ state \notin {"none", "completed"}
  /\ step = "restore" => previous = "original" /\ state \notin {"none", "completed"}
  /\ step = "putBack" => At("none", "original") /\ state \notin {"none", "completed"}
  /\ step = "stale" => At("original", "none")
  /\ step = "delete" => source = "derivative" /\ previous # "none" /\ state = "completed"
  /\ step = "close" => source = "derivative" /\ state = "completed"

\* The backup, what the journal says of it, and what the command has checked.
RepackInv ==
  /\ RepackTypeOK
  /\ BackupKept
  /\ InterruptionExplained
  /\ state = "completed" => source = "derivative"
  /\ source = "derivative" /\ state # "completed" => previous = "original"
  /\ StepFacts

\* A fresh archive: the original, no journal and no command.
LEMMA RepackInvInit == RepackInit => RepackInv
<1> SUFFICES ASSUME RepackInit PROVE RepackInv
  OBVIOUS
<1>1. RepackTypeOK
  <2>1. 0 \in 0 .. MaxSpoils /\ 0 \in 0 .. MaxFailures
    BY RepackAssumption
  <2>2. QED BY <2>1 DEF RepackInit, RepackTypeOK
<1>2. BackupKept /\ InterruptionExplained /\ StepFacts
  BY DEF RepackInit, BackupKept, InterruptionExplained, StepFacts
<1>3. QED BY <1>1, <1>2 DEF RepackInit, RepackInv

\* Staging and journalling: nothing that is there moves yet.
LEMMA StagingKeepsInv ==
  ASSUME RepackInv, StartRepack \/ BeginRepack \/ StageDerivative \/ PrepareJournal
  PROVE  RepackInv'
<1> USE DEF RepackInv, RepackTypeOK, BackupKept, InterruptionExplained, StepFacts, At
<1>1. CASE StartRepack
  BY <1>1 DEF StartRepack
<1>2. CASE BeginRepack
  BY <1>2 DEF BeginRepack
<1>3. CASE StageDerivative
  BY <1>3 DEF StageDerivative
<1>4. CASE PrepareJournal
  <2>1. At("original", "none")
    BY <1>4 DEF PrepareJournal
  <2>2. QED BY <1>4, <2>1 DEF PrepareJournal
<1>5. QED BY <1>1, <1>2, <1>3, <1>4

\* The exchange: the original is aside until a verified derivative is in its place.
LEMMA ExchangeKeepsInv ==
  ASSUME RepackInv,
         \/ ContinueTransaction \/ MoveSource \/ SourceMoved
         \/ CheckCandidate \/ MoveStaging \/ PublishDerivative
  PROVE  RepackInv'
<1> USE DEF RepackInv, RepackTypeOK, BackupKept, InterruptionExplained, StepFacts, At
<1>1. CASE ContinueTransaction
  <2>1. previous # "part" /\ state \notin {"none", "completed"}
    BY <1>1 DEF ContinueTransaction
  <2>2. QED BY <1>1, <2>1 DEF ContinueTransaction
<1>2. CASE MoveSource
  BY <1>2 DEF MoveSource
<1>3. CASE SourceMoved
  BY <1>3 DEF SourceMoved
<1>4. CASE CheckCandidate
  BY <1>4 DEF CheckCandidate
<1>5. CASE MoveStaging
  BY <1>5 DEF MoveStaging
<1>6. CASE PublishDerivative
  BY <1>6 DEF PublishDerivative
<1>7. QED BY <1>1, <1>2, <1>3, <1>4, <1>5, <1>6

\* The end: the original is deleted under a completed journal, or put back before
\* the journal goes.
LEMMA ClosingKeepsInv ==
  ASSUME RepackInv,
         Finalize \/ DeletePrevious \/ CloseReceipt \/ Restore \/ PutBack \/ RemoveJournal
  PROVE  RepackInv'
<1> USE DEF RepackInv, RepackTypeOK, BackupKept, InterruptionExplained, StepFacts, At, Finish
<1>1. CASE Finalize
  BY <1>1 DEF Finalize
<1>2. CASE DeletePrevious
  BY <1>2 DEF DeletePrevious
<1>3. CASE CloseReceipt
  BY <1>3 DEF CloseReceipt
<1>4. CASE Restore
  BY <1>4 DEF Restore
<1>5. CASE PutBack
  BY <1>5 DEF PutBack
<1>6. CASE RemoveJournal
  BY <1>6 DEF RemoveJournal
<1>7. QED BY <1>1, <1>2, <1>3, <1>4, <1>5, <1>6

\* A command that dies leaves what its journal explains, and what is damaged in the
\* meantime is a replacement, never the original.
LEMMA FaultsKeepInv ==
  ASSUME RepackInv, FailRepack \/ Spoil
  PROVE  RepackInv'
<1> USE RepackAssumption
    DEF RepackAssumption, RepackInv, RepackTypeOK, BackupKept, InterruptionExplained, StepFacts,
        At, Finish
<1>1. CASE FailRepack
  BY <1>1 DEF FailRepack
<1>2. CASE Spoil
  BY <1>2 DEF Spoil
<1>3. QED BY <1>1, <1>2

\* No step of the command, death or damage breaks the invariant.
LEMMA RepackInvStep == RepackInv /\ [RepackNext]_repackVars => RepackInv'
<1> SUFFICES ASSUME RepackInv, [RepackNext]_repackVars PROVE RepackInv'
  OBVIOUS
<1>1. CASE UNCHANGED repackVars
  BY <1>1 DEF repackVars, RepackInv, RepackTypeOK, BackupKept, InterruptionExplained,
     StepFacts, At
<1>2. CASE RepackNext
  BY <1>2, StagingKeepsInv, ExchangeKeepsInv, ClosingKeepsInv, FaultsKeepInv DEF RepackNext
<1>3. QED BY <1>1, <1>2

\* Every reachable state keeps the invariant.
LEMMA RepackInvariant == RepackSpec => []RepackInv
  BY RepackInvInit, RepackInvStep, PTL DEF RepackSpec

\* The original or a verified derivative is there, however often a repack dies and
\* its replacement is damaged (archive_repack.py).
THEOREM RepackKeepsBackup == RepackSpec => []BackupKept
<1>1. RepackInv => BackupKept
  BY DEF RepackInv
<1>2. QED BY <1>1, RepackInvariant, PTL

\* An archive without a journal is the original at its path, and the original is
\* deleted under a completed journal alone (archive_repack.py).
THEOREM RepackInterruptionExplained == RepackSpec => []InterruptionExplained
<1>1. RepackInv => InterruptionExplained
  BY DEF RepackInv
<1>2. QED BY <1>1, RepackInvariant, PTL

-----------------------------------------------------------------------------
(* A restore beside it. *)

\* Between the tar and the rename the staged files are those of the manifest.
RestoreInv ==
  /\ RestoredWhole
  /\ restoring # "idle" => manifest \in Complete
  /\ restoring \in {"state", "check", "replace"} => staged = manifest

\* Nothing is restored yet.
LEMMA RestoreInvInit == RestoreInit => RestoreInv
  BY DEF RestoreInit, RestoreInv, RestoredWhole, Unrestored

\* No step of a restore or of a user breaks it, and no step of a repack touches it.
LEMMA RestoreInvStep ==
  RestoreInv /\ [RepackOrRestore]_<<repackVars, restoreVars>> => RestoreInv'
<1> SUFFICES ASSUME RestoreInv, [RepackOrRestore]_<<repackVars, restoreVars>>
             PROVE  RestoreInv'
  OBVIOUS
<1> USE DEF RestoreInv, RestoredWhole
<1>1. CASE UNCHANGED restoreVars
  BY <1>1 DEF restoreVars
<1>2. CASE StartRestore
  BY <1>2 DEF StartRestore, Verified
<1>3. CASE RestoreHistory
  BY <1>3 DEF RestoreHistory
<1>4. CASE RestoreTree
  BY <1>4 DEF RestoreTree
<1>5. CASE RestoreState
  BY <1>5 DEF RestoreState
<1>6. CASE CheckDestination
  BY <1>6 DEF CheckDestination
<1>7. CASE ReplaceDestination
  BY <1>7 DEF ReplaceDestination
<1>8. CASE FailRestore
  BY <1>8 DEF FailRestore
<1>9. CASE UserDestination
  BY <1>9 DEF UserDestination, Unrestored
<1>10. QED
  BY <1>1, <1>2, <1>3, <1>4, <1>5, <1>6, <1>7, <1>8, <1>9
  DEF RepackOrRestore, RestoreNext

\* What is restored is one archive, whole, whatever a repack exchanges meanwhile
\* (archive.py:restore_archive).
THEOREM RestoreIsWhole == RestoreSpec => []RestoredWhole
<1>1. RestoreInv => RestoredWhole
  BY DEF RestoreInv
<1>2. QED BY <1>1, RestoreInvInit, RestoreInvStep, PTL DEF RestoreSpec

\* A restore costs no backup: to the repack its steps are stutters.
THEOREM RestoreKeepsBackup == RestoreSpec => []BackupKept
<1>1. [RepackOrRestore]_<<repackVars, restoreVars>> => [RepackNext]_repackVars
  BY DEF RepackOrRestore
<1>2. RepackInv => BackupKept
  BY DEF RepackInv
<1>3. QED BY <1>1, <1>2, RepackInvInit, RepackInvStep, PTL DEF RestoreSpec

-----------------------------------------------------------------------------
(* The discard of a branch.                                                *)

TaskSteps ==
  {"idle", "inspect", "create", "bundle", "recheck", "lock", "hold", "seen", "attempt",
   "again", "commit", "push", "answer", "rejected", "check", "receipt"}

Task == [pc : TaskSteps, tok : Token \cup {NoTask.tok}, as : {"none", "deleted", "absent"}]

\* An attempt is written into a whole backup and stays once a deletion may be
\* under way; a receipt comes after it.
Accounted(t) ==
  /\ backups[t].attempt # "none" => backups[t].files = "whole"
  /\ backups[t].receipt # "none" => backups[t].attempt = "whole"
  /\ t \in sent => place = "remote" /\ backups[t].attempt = "whole" /\ wiped[t] = 0
  /\ wiped[t] # 0 => wiped[t] = 1 /\ backups[t].attempt = "whole"
  /\ backups[t].receipt = "deleted" => wiped[t] = 1

\* The backup of the command that runs: complete, and what it says.
MineIs(attempt) ==
  /\ backups[Mine].files = "whole" /\ backups[Mine].attempt = attempt
  /\ backups[Mine].receipt = "none"

\* What the command knows of its intent by the step it is at.
Knows(pc) ==
  /\ pc # "idle" => task.tok \in Token
  /\ pc = "create" => backups[Mine].files = "none"
  /\ pc = "recheck" => backups[Mine].files = "whole"
  /\ pc \in {"lock", "hold", "seen", "attempt"} => MineIs("none")
  /\ pc \in {"push", "again", "commit", "answer", "rejected", "check", "receipt"} =>
       MineIs("whole")
  /\ pc \in {"push", "again", "commit", "rejected"} => wiped[Mine] = 0 /\ Mine \notin sent
  /\ pc = "check" => wiped[Mine] = 1
  /\ pc \in {"lock", "hold", "seen", "again", "commit"} => place = "local"
  /\ pc \in {"push", "answer"} => place = "remote"
  /\ place = "local" /\ pc \in {"hold", "seen", "attempt", "again", "commit"} =>
       ref = task.tok.sha
  /\ place = "local" /\ pc \in {"seen", "attempt", "again", "commit"} => out # "switched"

\* A receipt of a deletion is written for one that was made.
ReceiptBacked ==
  task.pc = "receipt" => /\ task.as \in {"deleted", "absent"}
                         /\ task.as = "deleted" => wiped[Mine] = 1

BranchInv ==
  BranchTypeOK /\ (\A t \in Token : Accounted(t)) /\ Knows(task.pc) /\ ReceiptBacked

\* A command that runs has a token, and its intent names the same commit.
LEMMA MyIntent ==
  ASSUME DiscardAssumption, BranchInv, task.pc # "idle"
  PROVE  /\ task \in Task /\ task.tok \in Token /\ task.tok.sha \in Commits
         /\ Mine \in Token /\ Mine.sha = task.tok.sha /\ backups[Mine] \in Backup
         /\ backups \in [Token -> Backup] /\ wiped \in [Token -> Nat]
<1>1. task \in Task /\ task.tok \in Token
  BY DEF BranchInv, BranchTypeOK, Knows, Task, TaskSteps
<1>2. 0 \in 0 .. MaxOwners
  BY DEF DiscardAssumption
<1>3. Mine \in Token /\ Mine.sha = task.tok.sha
  BY <1>1, <1>2 DEF Mine, Intent, Token
<1> QED BY <1>1, <1>3 DEF BranchInv, BranchTypeOK, Token

\* A step to another step that leaves backups and deletions alone.
LEMMA TaskMoves ==
  ASSUME DiscardAssumption, BranchInv, task.pc # "idle",
         NEW pc \in TaskSteps \ {"idle", "receipt"}, TaskGo(pc), Knows(pc),
         UNCHANGED <<ref, backups, offered, sent, wiped, world>>
  PROVE  BranchInv'
<1>1. task \in Task
  BY MyIntent
<1>2. task' \in Task /\ task'.pc = pc /\ task'.tok = task.tok
  BY <1>1 DEF TaskGo, Task
<1>3. BranchTypeOK'
  BY <1>2 DEF BranchInv, BranchTypeOK, world, Task, TaskSteps, Token, NoTask
<1>4. Mine' = Mine
  BY <1>2 DEF Mine, Intent, world
<1>5. Knows(task.pc)'
  BY <1>2, <1>4 DEF Knows, MineIs, world
<1>6. \A t \in Token : Accounted(t)'
  BY DEF BranchInv, Accounted, world
<1> QED BY <1>2, <1>3, <1>5, <1>6 DEF BranchInv, ReceiptBacked

\* A command ends wherever it is.
LEMMA TaskStops ==
  ASSUME DiscardAssumption, BranchInv, TaskEnds, deaths' \in 0 .. MaxDeaths,
         UNCHANGED <<ref, backups, offered, sent, wiped, place, owner, barred, out, changes>>
  PROVE  BranchInv'
<1>1. task' \in Task /\ task'.pc = "idle"
  BY DEF TaskEnds, NoTask, Task, TaskSteps
<1>2. BranchTypeOK'
  BY <1>1 DEF BranchInv, BranchTypeOK, Task, TaskSteps, Token, NoTask
<1>3. \A t \in Token : Accounted(t)'
  BY DEF BranchInv, Accounted
<1> QED BY <1>1, <1>2, <1>3 DEF BranchInv, Knows, ReceiptBacked

\* What the inspection leads to: the next step, a receipt, or the end.
LEMMA Decides ==
  ASSUME DiscardAssumption, BranchInv, task.pc # "idle",
         NEW next \in TaskSteps \ {"idle", "receipt"}, Decide(next),
         /\ Readable(backups[Mine], task.tok)
         /\ backups[Mine].attempt = "none" /\ backups[Mine].receipt = "none"
         => Knows(next),
         UNCHANGED <<ref, backups, offered, sent, wiped, world>>
  PROVE  BranchInv'
<1>1. CASE TaskEnds
  BY <1>1, TaskStops DEF world, BranchInv, BranchTypeOK
<1>2. CASE /\ Readable(backups[Mine], task.tok) /\ backups[Mine].receipt = "none"
           /\ backups[Mine].attempt = "none" /\ TaskGo(next)
  BY <1>2, TaskMoves
<1>3. CASE /\ Readable(backups[Mine], task.tok) /\ backups[Mine].receipt = "none"
           /\ backups[Mine].attempt # "none"
           /\ task' = [task EXCEPT !.pc = "receipt", !.as = "absent"]
  <2>1. task \in Task /\ task.tok \in Token /\ Mine \in Token /\ backups[Mine] \in Backup
    BY MyIntent
  <2>2. MineIs("whole")
    <3>1. Accounted(Mine)
      BY <2>1 DEF BranchInv
    <3> QED BY <1>3, <2>1, <3>1 DEF MineIs, Readable, Accounted, Backup
  <2>3. task' \in Task /\ task'.pc = "receipt" /\ task'.tok = task.tok /\ task'.as = "absent"
    BY <1>3, <2>1 DEF Task, TaskSteps
  <2>4. BranchTypeOK'
    BY <2>3 DEF BranchInv, BranchTypeOK, world, Task, TaskSteps, Token, NoTask
  <2>5. Mine' = Mine /\ MineIs("whole")'
    BY <2>2, <2>3 DEF Mine, Intent, MineIs, world
  <2>6. \A t \in Token : Accounted(t)'
    BY DEF BranchInv, Accounted, world
  <2> QED BY <2>1, <2>3, <2>4, <2>5, <2>6 DEF BranchInv, Knows, ReceiptBacked
<1> QED BY <1>1, <1>2, <1>3 DEF Decide, ResolveAttempt

\* The two inspections: the second one decides under the backup just written.
LEMMA Inspections ==
  ASSUME DiscardAssumption, BranchInv, Inspect \/ Recheck
  PROVE  BranchInv'
<1>1. task.pc # "idle"
  BY DEF Inspect, Recheck, TaskAt
<1>2. task.tok \in Token /\ UNCHANGED <<ref, backups, offered, sent, wiped, world>>
  BY <1>1, MyIntent DEF Inspect, Recheck
<1>3. CASE Inspect
  <2> DEFINE next == IF backups[Mine].files = "none" THEN "create" ELSE "recheck"
  <2>1. next \in TaskSteps \ {"idle", "receipt"} /\ Decide(next)
    BY <1>3 DEF Inspect, TaskSteps
  <2>2. Readable(backups[Mine], task.tok) => Knows(next)
    BY <1>2 DEF Readable, Knows
  <2> HIDE DEF next
  <2> QED BY <1>1, <1>2, <2>1, <2>2, Decides
<1>4. CASE Recheck
  <2> DEFINE next == IF place = "remote" THEN "attempt" ELSE "lock"
  <2>1. next \in TaskSteps \ {"idle", "receipt"} /\ Decide(next)
    BY <1>4 DEF Recheck, TaskSteps
  <2>2. backups[Mine].files = "whole"
    BY <1>4 DEF Recheck, TaskAt, BranchInv, Knows
  <2>3. place \in {"remote", "local"}
    BY DEF BranchInv, BranchTypeOK, DiscardAssumption
  <2>4. backups[Mine].attempt = "none" /\ backups[Mine].receipt = "none" => Knows(next)
    BY <1>2, <2>2, <2>3 DEF Knows, MineIs
  <2> HIDE DEF next
  <2> QED BY <1>1, <1>2, <2>1, <2>4, Decides
<1> QED BY <1>3, <1>4

\* Steps that write into the command's own backup.
LEMMA Writes ==
  ASSUME DiscardAssumption, BranchInv, task.pc # "idle", NEW b \in Backup,
         backups' = [backups EXCEPT ![Mine] = b],
         UNCHANGED <<ref, offered, sent, wiped, place, owner, barred, out, changes>>,
         deaths' \in 0 .. MaxDeaths,
         \/ TaskEnds
         \/ \E pc \in TaskSteps \ {"idle", "receipt"} : TaskGo(pc) /\ Knows(pc)',
         NEW mine, mine = Mine, Accounted(mine)'
  PROVE  BranchInv'
<1>1. /\ task \in Task /\ task.tok \in Token /\ Mine \in Token
      /\ backups \in [Token -> Backup]
  BY MyIntent
<1>2. task' \in Task /\ task'.pc # "receipt"
  BY <1>1 DEF TaskGo, TaskEnds, NoTask, Task, TaskSteps
<1>3. BranchTypeOK'
  BY <1>1, <1>2 DEF BranchInv, BranchTypeOK, Task, TaskSteps, Token, NoTask
<1>4. ASSUME NEW t \in Token PROVE Accounted(t)'
  <2>1. CASE t = Mine
    BY <2>1
  <2>2. CASE t # Mine
    <3>1. backups'[t] = backups[t]
      BY <1>1, <2>2
    <3> QED BY <3>1 DEF BranchInv, Accounted
  <2> QED BY <2>1, <2>2
<1>5. Knows(task.pc)'
  <2>1. CASE TaskEnds
    BY <2>1 DEF TaskEnds, NoTask, Knows
  <2>2. ASSUME NEW pc \in TaskSteps, TaskGo(pc), Knows(pc)' PROVE Knows(task.pc)'
    BY <1>1, <2>2 DEF TaskGo, Task
  <2> QED BY <2>1, <2>2
<1> QED BY <1>2, <1>3, <1>4, <1>5 DEF BranchInv, ReceiptBacked

\* The command that goes on still has the same intent.
LEMMA SameIntent ==
  ASSUME DiscardAssumption, BranchInv, task.pc # "idle", NEW pc \in TaskSteps, TaskGo(pc),
         place' = place
  PROVE  Mine' = Mine /\ task'.tok = task.tok /\ task'.pc = pc
<1>1. task \in Task
  BY MyIntent
<1>2. task'.tok = task.tok /\ task'.pc = pc
  BY <1>1 DEF TaskGo, Task
<1> QED BY <1>2 DEF Mine, Intent

\* The steps that write the backup, its attempt and its receipt.
LEMMA BackupSteps ==
  ASSUME DiscardAssumption, BranchInv,
         CreateBackup \/ WriteBundle \/ WriteAttempt \/ ClearAttempt \/ WriteReceipt
  PROVE  BranchInv'
<1>1. /\ task.pc # "idle" /\ deaths' \in 0 .. MaxDeaths
      /\ UNCHANGED <<ref, offered, sent, wiped, place, owner, barred, out, changes>>
  BY DEF CreateBackup, WriteBundle, WriteAttempt, ClearAttempt, WriteReceipt, TaskAt, world,
     BranchInv, BranchTypeOK
<1>2. /\ task \in Task /\ task.tok \in Token /\ Mine \in Token /\ backups[Mine] \in Backup
      /\ backups \in [Token -> Backup] /\ Accounted(Mine) /\ wiped \in [Token -> Nat]
  BY <1>1, MyIntent DEF BranchInv
<1>3. Knows(task.pc)
  BY DEF BranchInv
<1>4. CASE CreateBackup
  <2> DEFINE b == [backups[Mine] EXCEPT !.files = "partial", !.of = task.tok.version]
  <2>1. b \in Backup /\ b.attempt = "none" /\ b.receipt = "none"
    <3>1. backups[Mine].attempt = "none" /\ backups[Mine].receipt = "none"
      BY <1>2, <1>3, <1>4 DEF CreateBackup, TaskAt, Knows, Accounted
    <3>2. task.tok.version \in 0 .. MaxOwners
      BY <1>2 DEF Token
    <3> QED BY <1>2, <3>1, <3>2 DEF Backup
  <2>2. backups' = [backups EXCEPT ![Mine] = b] /\ TaskGo("bundle")
    BY <1>4 DEF CreateBackup
  <2> HIDE DEF b
  <2>3. backups'[Mine] = b
    BY <1>2, <2>2
  <2>4. Mine' = Mine /\ task'.tok = task.tok
    BY <1>1, <2>2, SameIntent DEF TaskSteps
  <2>5. Knows("bundle")'
    BY <1>2, <2>4 DEF Knows
  <2>6. \A mine : mine = Mine => Accounted(mine)'
    <3>1. wiped[Mine] = 0 /\ Mine \notin sent
      BY <1>2, <1>3, <1>4 DEF CreateBackup, TaskAt, Knows, Accounted
    <3> QED BY <1>1, <2>1, <2>3, <3>1 DEF Accounted
  <2> QED BY <1>1, <2>1, <2>2, <2>5, <2>6, Writes DEF TaskSteps
<1>5. CASE WriteBundle
  <2>1. CASE TaskEnds /\ UNCHANGED backups
    BY <1>1, <2>1, TaskStops
  <2>2. CASE backups' = [backups EXCEPT ![Mine].files = "whole"] /\ TaskGo("recheck")
    <3> DEFINE b == [backups[Mine] EXCEPT !.files = "whole"]
    <3>1. /\ b \in Backup /\ b.files = "whole" /\ b.attempt = backups[Mine].attempt
          /\ b.receipt = backups[Mine].receipt
      BY <1>2 DEF Backup
    <3>2. backups' = [backups EXCEPT ![Mine] = b]
      BY <2>2
    <3> HIDE DEF b
    <3>3. backups'[Mine] = b
      BY <1>2, <3>2
    <3>4. Mine' = Mine /\ task'.tok = task.tok
      BY <1>1, <2>2, SameIntent DEF TaskSteps
    <3>5. Knows("recheck")'
      BY <1>2, <3>1, <3>3, <3>4 DEF Knows
    <3>6. \A mine : mine = Mine => Accounted(mine)'
      BY <1>1, <1>2, <3>1, <3>3 DEF Accounted
    <3> QED BY <1>1, <2>2, <3>1, <3>2, <3>5, <3>6, Writes DEF TaskSteps
  <2> QED BY <1>5, <2>1, <2>2 DEF WriteBundle
<1>6. CASE WriteAttempt
  <2> DEFINE b == [backups[Mine] EXCEPT !.attempt = "whole"]
  <2>1. MineIs("none") /\ task.pc = "attempt"
    BY <1>3, <1>6 DEF WriteAttempt, TaskAt, Knows
  <2>2. b \in Backup /\ b.files = "whole" /\ b.attempt = "whole" /\ b.receipt = "none"
    BY <1>2, <2>1 DEF MineIs, Backup
  <2>3. backups' = [backups EXCEPT ![Mine] = b]
    BY <1>6 DEF WriteAttempt
  <2>4. wiped[Mine] = 0 /\ Mine \notin sent
    BY <1>2, <2>1 DEF MineIs, Accounted
  <2> HIDE DEF b
  <2>5. backups'[Mine] = b
    BY <1>2, <2>3
  <2>6. \A mine : mine = Mine => Accounted(mine)'
    BY <1>1, <2>2, <2>4, <2>5 DEF Accounted
  <2>7. CASE place = "remote"
    <3>1. TaskGo("push")
      BY <1>6, <2>7 DEF WriteAttempt
    <3>2. Mine' = Mine /\ task'.tok = task.tok
      BY <1>1, <3>1, SameIntent DEF TaskSteps
    <3>3. Knows("push")'
      BY <1>1, <1>2, <2>2, <2>4, <2>5, <2>7, <3>2 DEF Knows, MineIs
    <3> QED BY <1>1, <2>2, <2>3, <2>6, <3>1, <3>3, Writes DEF TaskSteps
  <2>8. CASE place = "local"
    <3>1. TaskGo("again")
      BY <1>6, <2>8 DEF WriteAttempt
    <3>2. Mine' = Mine /\ task'.tok = task.tok
      BY <1>1, <3>1, SameIntent DEF TaskSteps
    <3>3. ref = task.tok.sha /\ out # "switched"
      BY <1>3, <2>1, <2>8 DEF Knows
    <3>4. Knows("again")'
      BY <1>1, <1>2, <2>2, <2>4, <2>5, <2>8, <3>2, <3>3 DEF Knows, MineIs
    <3> QED BY <1>1, <2>2, <2>3, <2>6, <3>1, <3>4, Writes DEF TaskSteps
  <2> QED BY <2>7, <2>8 DEF BranchInv, BranchTypeOK, DiscardAssumption
<1>7. CASE ClearAttempt
  <2> DEFINE b == [backups[Mine] EXCEPT !.attempt = "none"]
  <2>1. MineIs("whole") /\ wiped[Mine] = 0 /\ Mine \notin sent
    BY <1>3, <1>7 DEF ClearAttempt, TaskAt, Knows
  <2>2. b \in Backup /\ b.attempt = "none" /\ b.receipt = "none"
    BY <1>2, <2>1 DEF MineIs, Backup
  <2>3. backups' = [backups EXCEPT ![Mine] = b] /\ TaskEnds
    BY <1>7 DEF ClearAttempt
  <2> HIDE DEF b
  <2>4. backups'[Mine] = b
    BY <1>2, <2>3
  <2>5. \A mine : mine = Mine => Accounted(mine)'
    BY <1>1, <2>1, <2>2, <2>4 DEF Accounted
  <2> QED BY <1>1, <2>2, <2>3, <2>5, Writes
<1>8. CASE WriteReceipt
  <2> DEFINE b == [backups[Mine] EXCEPT !.receipt = task.as]
  <2>1. /\ MineIs("whole") /\ task.as \in {"deleted", "absent"}
        /\ task.as = "deleted" => wiped[Mine] = 1
    BY <1>3, <1>8 DEF WriteReceipt, TaskAt, Knows, BranchInv, ReceiptBacked
  <2>2. /\ b \in Backup /\ b.files = "whole" /\ b.attempt = "whole"
        /\ b.receipt = "deleted" => wiped[Mine] = 1
    BY <1>2, <2>1 DEF MineIs, Backup
  <2>3. backups' = [backups EXCEPT ![Mine] = b] /\ TaskEnds
    BY <1>8 DEF WriteReceipt
  <2> HIDE DEF b
  <2>4. backups'[Mine] = b
    BY <1>2, <2>3
  <2>5. \A mine : mine = Mine => Accounted(mine)'
    BY <1>1, <1>2, <2>2, <2>4 DEF Accounted
  <2> QED BY <1>1, <2>2, <2>3, <2>5, Writes
<1> QED BY <1>4, <1>5, <1>6, <1>7, <1>8

\* What every case below needs of a command that runs.
LEMMA Running ==
  ASSUME DiscardAssumption, BranchInv, task.pc # "idle"
  PROVE  /\ task \in Task /\ task.tok \in Token /\ Mine \in Token
         /\ wiped \in [Token -> Nat] /\ Accounted(Mine) /\ Knows(task.pc)
BY MyIntent DEF BranchInv

\* A request is sent for an intent that has none under way.
LEMMA PushSteps ==
  ASSUME DiscardAssumption, BranchInv, Push
  PROVE  BranchInv'
<1>1. task.pc = "push"
  BY DEF Push, TaskAt
<1>2. /\ task \in Task /\ task.tok \in Token /\ Mine \in Token
      /\ wiped \in [Token -> Nat] /\ Accounted(Mine) /\ Knows("push")
  BY <1>1, Running
<1>3. MineIs("whole") /\ wiped[Mine] = 0 /\ Mine \notin sent /\ place = "remote"
  BY <1>2 DEF Knows
<1>4. CASE sent' = sent \cup {Mine} /\ TaskGo("answer")
  <2>1. UNCHANGED <<ref, backups, offered, wiped, place, owner, barred, out, changes, deaths>>
    BY DEF Push, world
  <2>2. Mine' = Mine /\ task'.tok = task.tok /\ task'.pc = "answer"
    BY <1>1, <1>4, <2>1, SameIntent DEF TaskSteps
  <2>3. task' \in Task
    BY <1>2, <1>4 DEF TaskGo, Task, TaskSteps
  <2>4. BranchTypeOK'
    BY <1>2, <1>4, <2>1, <2>3 DEF BranchInv, BranchTypeOK, Task, TaskSteps, Token, NoTask
  <2>5. ASSUME NEW t \in Token PROVE Accounted(t)'
    BY <1>3, <1>4, <2>1 DEF BranchInv, Accounted, MineIs
  <2>6. Knows(task.pc)'
    BY <1>2, <1>3, <2>1, <2>2 DEF Knows, MineIs
  <2> QED BY <2>2, <2>4, <2>5, <2>6 DEF BranchInv, ReceiptBacked
<1>5. CASE TaskGo("rejected") /\ UNCHANGED sent
  <2>1. UNCHANGED <<ref, backups, offered, sent, wiped, world>>
    BY <1>5 DEF Push
  <2>2. Knows("rejected")
    BY <1>2, <1>3 DEF Knows
  <2> QED BY <1>1, <1>5, <2>1, <2>2, TaskMoves DEF TaskSteps
<1> QED BY <1>4, <1>5 DEF Push

\* Origin carries a request out, or turns it down, whatever the command does.
LEMMA OriginSteps ==
  ASSUME DiscardAssumption, BranchInv, NEW intent \in sent, Origin(intent)
  PROVE  BranchInv'
<1>1. /\ intent \in Token /\ wiped \in [Token -> Nat] /\ task \in Task
      /\ Accounted(intent) /\ Knows(task.pc) /\ ReceiptBacked
  BY DEF BranchInv, BranchTypeOK, Task, TaskSteps
<1>2. place = "remote" /\ backups[intent].attempt = "whole" /\ wiped[intent] = 0
  BY <1>1 DEF Accounted
<1>3. /\ sent' = sent \ {intent}
      /\ UNCHANGED <<backups, offered, place, owner, barred, out, changes, deaths>>
  BY DEF Origin, world
<1>4. \/ /\ ref = intent.sha /\ ref' = NoCommit
         /\ wiped' = [wiped EXCEPT ![intent] = 1]
      \/ ref # intent.sha /\ UNCHANGED <<ref, wiped>>
  BY <1>1, <1>2 DEF Origin
<1>5. /\ \A t \in Token : t # intent => wiped'[t] = wiped[t]
      /\ wiped'[intent] \in {0, 1} /\ wiped' \in [Token -> Nat]
      /\ ref = intent.sha => wiped'[intent] = 1
      /\ ref # intent.sha => wiped'[intent] = 0
  BY <1>1, <1>2, <1>4
<1>6. ref' \in Commits \cup {NoCommit}
  BY <1>4 DEF BranchInv, BranchTypeOK
<1>7. ASSUME NEW t \in Token PROVE Accounted(t)'
  <2>1. CASE t = intent
    BY <1>1, <1>2, <1>3, <1>5, <2>1 DEF Accounted
  <2>2. CASE t # intent
    <3>1. Accounted(t)
      BY DEF BranchInv
    <3> QED BY <1>3, <1>5, <2>2, <3>1 DEF Accounted
  <2> QED BY <2>1, <2>2
<1>8. CASE UNCHANGED task
  <2>1. BranchTypeOK'
    BY <1>3, <1>5, <1>6, <1>8 DEF BranchInv, BranchTypeOK, Token
  <2>2. Mine' = Mine
    BY <1>3, <1>8 DEF Mine, Intent
  <2>3. task.pc # "idle" => Mine \in Token
    BY Running
  <2>4. Knows(task.pc)'
    <3>1. task.pc \in {"push", "rejected", "check"} => Mine # intent
      BY <1>1, <1>2 DEF Knows
    <3>2. task.pc \in {"push", "rejected", "check"} => wiped'[Mine] = wiped[Mine]
      BY <1>5, <2>3, <3>1
    <3> QED BY <1>1, <1>2, <1>3, <1>8, <2>2, <3>2 DEF Knows, MineIs
  <2>5. ReceiptBacked'
    <3>1. task.pc = "receipt" /\ task.as = "deleted" => wiped'[Mine] = 1
      BY <1>1, <1>2, <1>5, <2>3 DEF ReceiptBacked
    <3> QED BY <1>1, <1>8, <2>2, <3>1 DEF ReceiptBacked
  <2> QED BY <1>7, <2>1, <2>4, <2>5 DEF BranchInv
<1>9. CASE /\ TaskAt("answer") /\ Mine = intent
           /\ task' = [task EXCEPT !.pc = IF ref = intent.sha THEN "check" ELSE "rejected"]
  <2>1. task.pc = "answer" /\ task.tok \in Token /\ MineIs("whole")
    BY <1>1, <1>9 DEF TaskAt, Knows
  <2>2. /\ task' \in Task /\ task'.tok = task.tok
        /\ task'.pc = IF ref = intent.sha THEN "check" ELSE "rejected"
    BY <1>1, <1>9 DEF Task, TaskSteps
  <2>3. BranchTypeOK'
    BY <1>3, <1>5, <1>6, <2>2 DEF BranchInv, BranchTypeOK, Token, Task, TaskSteps, NoTask
  <2>4. Mine' = intent
    BY <1>3, <1>9, <2>2 DEF Mine, Intent
  <2>5. MineIs("whole")'
    BY <1>3, <1>9, <2>1, <2>4 DEF MineIs
  <2>6. Knows(task.pc)'
    BY <1>2, <1>3, <1>5, <2>1, <2>2, <2>4, <2>5 DEF Knows
  <2> QED BY <1>7, <2>2, <2>3, <2>6 DEF BranchInv, ReceiptBacked
<1> QED BY <1>8, <1>9 DEF Origin

\* The checks of the local transaction, and an answer that never comes.
LEMMA LocalSteps ==
  ASSUME DiscardAssumption, BranchInv, NoAnswer \/ Prepare \/ HoldHeads \/ Revalidate
  PROVE  BranchInv'
<1>1. task.pc # "idle" /\ UNCHANGED <<ref, backups, offered, sent, wiped, world>>
  BY DEF NoAnswer, Prepare, HoldHeads, Revalidate, TaskAt
<1>2. Knows(task.pc) /\ task.tok \in Token /\ Mine \in Token /\ Accounted(Mine)
  BY <1>1, Running
<1>3. CASE TaskEnds
  BY <1>1, <1>3, TaskStops DEF world, BranchInv, BranchTypeOK
<1>4. CASE task.pc = "lock" /\ ref = task.tok.sha /\ TaskGo("hold")
  <2>1. Knows("hold")
    BY <1>2, <1>4 DEF Knows
  <2> QED BY <1>1, <1>4, <2>1, TaskMoves DEF TaskSteps
<1>5. CASE task.pc = "hold" /\ out # "switched" /\ TaskGo("seen")
  <2>1. Knows("seen")
    BY <1>2, <1>5 DEF Knows
  <2> QED BY <1>1, <1>5, <2>1, TaskMoves DEF TaskSteps
<1>6. CASE task.pc = "seen" /\ TaskGo("attempt")
  <2>1. Knows("attempt")
    BY <1>2, <1>6 DEF Knows
  <2> QED BY <1>1, <1>6, <2>1, TaskMoves DEF TaskSteps
<1>7. CASE task.pc = "again" /\ (TaskGo("commit") \/ TaskGo("rejected"))
  <2>1. Knows("commit") /\ Knows("rejected")
    BY <1>2, <1>7 DEF Knows
  <2> QED BY <1>1, <1>7, <2>1, TaskMoves DEF TaskSteps
<1> QED BY <1>3, <1>4, <1>5, <1>6, <1>7
    DEF NoAnswer, Prepare, HoldHeads, Revalidate, TaskAt

\* The commit of the transaction counts one deletion of the command's intent.
LEMMA CommitSteps ==
  ASSUME DiscardAssumption, BranchInv, CommitDeletion
  PROVE  BranchInv'
<1>1. task.pc = "commit" /\ UNCHANGED <<backups, offered, sent, world>>
  BY DEF CommitDeletion, TaskAt
<1>2. /\ task \in Task /\ task.tok \in Token /\ Mine \in Token
      /\ wiped \in [Token -> Nat] /\ Accounted(Mine) /\ Knows("commit")
  BY <1>1, Running
<1>3. MineIs("whole") /\ wiped[Mine] = 0 /\ Mine \notin sent
  BY <1>2 DEF Knows
<1>4. CASE TaskEnds /\ UNCHANGED <<ref, wiped>>
  BY <1>1, <1>4, TaskStops DEF world, BranchInv, BranchTypeOK
<1>5. CASE /\ ref' = NoCommit /\ wiped' = [wiped EXCEPT ![Mine] = @ + 1]
           /\ TaskGo("check") \/ TaskEnds
  <2>1. /\ wiped'[Mine] = 1 /\ wiped' \in [Token -> Nat]
        /\ \A t \in Token : t # Mine => wiped'[t] = wiped[t]
    BY <1>2, <1>3, <1>5
  <2>2. task' \in Task /\ task'.pc # "receipt"
    BY <1>2, <1>5 DEF TaskGo, TaskEnds, NoTask, Task, TaskSteps
  <2>3. BranchTypeOK'
    BY <1>1, <1>5, <2>1, <2>2 DEF world, BranchInv, BranchTypeOK, Task, TaskSteps, Token, NoTask
  <2>4. \A mine : mine = Mine => Accounted(mine)'
    BY <1>1, <1>2, <1>3, <2>1 DEF Accounted, MineIs, world
  <2>5. ASSUME NEW t \in Token PROVE Accounted(t)'
    <3>1. CASE t = Mine
      BY <2>4, <3>1
    <3>2. CASE t # Mine
      BY <1>1, <2>1, <3>2 DEF BranchInv, Accounted, world
    <3> QED BY <3>1, <3>2
  <2>6. Knows(task.pc)'
    <3>1. CASE TaskEnds
      BY <3>1 DEF TaskEnds, NoTask, Knows
    <3>2. CASE TaskGo("check")
      <4>1. Mine' = Mine /\ task'.tok = task.tok /\ task'.pc = "check"
        BY <1>1, <3>2, SameIntent DEF TaskSteps, world
      <4> QED BY <1>1, <1>2, <1>3, <2>1, <4>1 DEF Knows, MineIs, world
    <3> QED BY <1>5, <3>1, <3>2
  <2> QED BY <2>2, <2>3, <2>5, <2>6 DEF BranchInv, ReceiptBacked
<1> QED BY <1>4, <1>5 DEF CommitDeletion

\* A branch seen gone after its deletion leads to the receipt of one.
LEMMA CheckSteps ==
  ASSUME DiscardAssumption, BranchInv, CheckGone
  PROVE  BranchInv'
<1>1. task.pc = "check" /\ UNCHANGED <<ref, backups, offered, sent, wiped, world>>
  BY DEF CheckGone, TaskAt
<1>2. /\ task \in Task /\ task.tok \in Token /\ Knows("check")
      /\ MineIs("whole") /\ wiped[Mine] = 1
  BY <1>1, Running DEF Knows
<1>3. CASE TaskEnds
  BY <1>1, <1>3, TaskStops DEF world, BranchInv, BranchTypeOK
<1>4. CASE task' = [task EXCEPT !.pc = "receipt", !.as = "deleted"]
  <2>1. task' \in Task /\ task'.pc = "receipt" /\ task'.tok = task.tok /\ task'.as = "deleted"
    BY <1>2, <1>4 DEF Task, TaskSteps
  <2>2. BranchTypeOK'
    BY <1>1, <2>1 DEF BranchInv, BranchTypeOK, world, Task, TaskSteps, Token, NoTask
  <2>3. Mine' = Mine
    BY <1>1, <2>1 DEF Mine, Intent, world
  <2>4. \A t \in Token : Accounted(t)'
    BY <1>1 DEF BranchInv, Accounted, world
  <2>5. MineIs("whole")'
    BY <1>1, <1>2, <2>3 DEF MineIs
  <2>6. Knows(task.pc)'
    BY <1>2, <2>1, <2>5 DEF Knows
  <2> QED BY <1>1, <1>2, <2>1, <2>2, <2>3, <2>4, <2>6 DEF BranchInv, ReceiptBacked
<1> QED BY <1>3, <1>4 DEF CheckGone

\* A death leaves at most a torn marker in the command's own backup.
LEMMA DeathSteps ==
  ASSUME DiscardAssumption, BranchInv, TaskDies
  PROVE  BranchInv'
<1>1. /\ task.pc # "idle" /\ TaskEnds /\ deaths' \in 0 .. MaxDeaths
      /\ UNCHANGED <<place, ref, owner, barred, out, offered, sent, wiped, changes>>
  BY DEF TaskDies, TaskAt, BranchInv, BranchTypeOK, DiscardAssumption
<1>2. /\ task \in Task /\ task.tok \in Token /\ Mine \in Token /\ backups[Mine] \in Backup
      /\ backups \in [Token -> Backup] /\ Accounted(Mine)
  BY <1>1, Running, MyIntent
<1>3. Knows(task.pc)
  BY <1>1, Running
<1>4. CASE UNCHANGED backups
  BY <1>1, <1>4, TaskStops
<1>5. CASE task.pc = "attempt" /\ backups' = [backups EXCEPT ![Mine].attempt = "torn"]
  <2> DEFINE b == [backups[Mine] EXCEPT !.attempt = "torn"]
  <2>1. MineIs("none")
    BY <1>3, <1>5 DEF Knows
  <2>2. b \in Backup /\ b.files = "whole" /\ b.attempt = "torn" /\ b.receipt = "none"
    BY <1>2, <2>1 DEF MineIs, Backup
  <2>3. backups' = [backups EXCEPT ![Mine] = b]
    BY <1>5
  <2> HIDE DEF b
  <2>4. backups'[Mine] = b
    BY <1>2, <2>3
  <2>5. \A mine : mine = Mine => Accounted(mine)'
    BY <1>1, <1>2, <2>1, <2>2, <2>4 DEF Accounted, MineIs
  <2> QED BY <1>1, <2>2, <2>3, <2>5, Writes
<1>6. CASE task.pc = "receipt" /\ backups' = [backups EXCEPT ![Mine].receipt = "torn"]
  <2> DEFINE b == [backups[Mine] EXCEPT !.receipt = "torn"]
  <2>1. MineIs("whole")
    BY <1>3, <1>6 DEF Knows
  <2>2. b \in Backup /\ b.files = "whole" /\ b.attempt = "whole" /\ b.receipt = "torn"
    BY <1>2, <2>1 DEF MineIs, Backup
  <2>3. backups' = [backups EXCEPT ![Mine] = b]
    BY <1>6
  <2> HIDE DEF b
  <2>4. backups'[Mine] = b
    BY <1>2, <2>3
  <2>5. \A mine : mine = Mine => Accounted(mine)'
    BY <1>1, <1>2, <2>1, <2>2, <2>4 DEF Accounted, MineIs
  <2> QED BY <1>1, <2>2, <2>3, <2>5, Writes
<1> QED BY <1>4, <1>5, <1>6 DEF TaskDies, TaskAt

\* Previews and the start of a command write nothing.
LEMMA CommandStarts ==
  ASSUME DiscardAssumption, BranchInv,
         \/ \E sha \in Commits : RemotePreview(sha) \/ LocalPreview(sha)
         \/ \E tok \in offered : Apply(tok)
  PROVE  BranchInv'
<1>1. ASSUME NEW sha \in Commits, RemotePreview(sha) \/ LocalPreview(sha) PROVE BranchInv'
  <2>1. TokenOf(sha) \in Token
    BY DEF TokenOf, Token, BranchInv, BranchTypeOK
  <2>2. /\ offered' = offered \cup {TokenOf(sha)} /\ task.pc = "idle"
        /\ UNCHANGED <<ref, backups, sent, wiped, task, world>>
    BY <1>1 DEF RemotePreview, LocalPreview, TaskAt
  <2>3. BranchTypeOK'
    BY <2>1, <2>2 DEF BranchInv, BranchTypeOK, world, Token
  <2>4. \A t \in Token : Accounted(t)'
    BY <2>2 DEF BranchInv, Accounted, world
  <2> QED BY <2>2, <2>3, <2>4 DEF BranchInv, Knows, ReceiptBacked
<1>2. ASSUME NEW tok \in offered, Apply(tok) PROVE BranchInv'
  <2>1. tok \in Token
    BY DEF BranchInv, BranchTypeOK
  <2>2. UNCHANGED <<ref, backups, offered, sent, wiped, world>>
    BY <1>2 DEF Apply
  <2>3. task' \in Task /\ task'.pc = "inspect" /\ task'.tok = tok
    BY <1>2, <2>1 DEF Apply, NoTask, Task, TaskSteps
  <2>4. BranchTypeOK'
    BY <2>2, <2>3 DEF BranchInv, BranchTypeOK, world, Token, Task, TaskSteps, NoTask
  <2>5. \A t \in Token : Accounted(t)'
    BY <2>2 DEF BranchInv, Accounted, world
  <2> QED BY <2>1, <2>3, <2>4, <2>5 DEF BranchInv, Knows, ReceiptBacked
<1> QED BY <1>1, <1>2

\* Nobody moves a branch whose ref is locked or switches to one whose HEADs are
\* held, and leases change between commands.
LEMMA WorldSteps ==
  ASSUME DiscardAssumption, BranchInv, BranchWorld
  PROVE  BranchInv'
<1>1. /\ changes' \in 0 .. MaxChanges
      /\ UNCHANGED <<place, backups, offered, sent, wiped, task, deaths>>
  BY DEF BranchWorld, MoveBranch, SwitchWorktree, MoveLease, MoveBar, Move, BranchInv,
     BranchTypeOK, DiscardAssumption
<1>2. /\ ref' \in Commits \cup {NoCommit} /\ barred' \in SUBSET Bars
      /\ out' \in {"no", "switched", "added"}
  BY DEF BranchWorld, MoveBranch, SwitchWorktree, MoveLease, MoveBar, BranchInv, BranchTypeOK
<1>3. owner' \in [state : {"none", "live", "removed"}, version : 0 .. MaxOwners]
  <2>1. CASE UNCHANGED owner
    BY <2>1 DEF BranchInv, BranchTypeOK
  <2>2. CASE MoveLease
    BY <2>2 DEF MoveLease, BranchInv, BranchTypeOK, DiscardAssumption
  <2> QED BY <2>1, <2>2 DEF BranchWorld, MoveBranch, SwitchWorktree, MoveBar
<1>4. BranchTypeOK'
  BY <1>1, <1>2, <1>3 DEF BranchInv, BranchTypeOK, Token
<1>5. \A t \in Token : Accounted(t)'
  BY <1>1 DEF BranchInv, Accounted
<1>6. Mine' = Mine
  BY <1>1 DEF Mine, Intent
<1>7. RefLocked => ref' = ref
  BY DEF BranchWorld, MoveBranch, SwitchWorktree, MoveLease, MoveBar
<1>8. HeadsHeld /\ out # "switched" => out' # "switched"
  BY DEF BranchWorld, MoveBranch, SwitchWorktree, MoveLease, MoveBar
<1>9. Knows(task.pc)'
  BY <1>1, <1>6, <1>7, <1>8 DEF BranchInv, Knows, MineIs, RefLocked, HeadsHeld
<1>10. ReceiptBacked'
  BY <1>1, <1>6 DEF BranchInv, ReceiptBacked
<1> QED BY <1>4, <1>5, <1>9, <1>10 DEF BranchInv

\* A branch nobody has tried to discard.
LEMMA BranchStarts ==
  ASSUME DiscardAssumption, BranchInit
  PROVE  BranchInv
<1>1. NoBackup \in Backup /\ task = NoTask
  BY DEF NoBackup, Backup, DiscardAssumption, BranchInit
<1>2. BranchTypeOK
  BY <1>1 DEF BranchInit, BranchTypeOK, NoTask, DiscardAssumption
<1>3. \A t \in Token : Accounted(t)
  BY DEF BranchInit, NoBackup, Accounted
<1> QED BY <1>1, <1>2, <1>3 DEF BranchInv, Knows, ReceiptBacked, NoTask

\* Every step keeps the invariant.
LEMMA BranchKeeps ==
  ASSUME DiscardAssumption, BranchInv, [BranchNext]_branchVars
  PROVE  BranchInv'
<1>1. CASE UNCHANGED branchVars
  BY <1>1 DEF branchVars, BranchInv, BranchTypeOK, Accounted, Knows, MineIs, ReceiptBacked,
     Mine, Intent
<1>2. CASE BranchNext
  BY <1>2, Inspections, BackupSteps, PushSteps, OriginSteps, LocalSteps, CommitSteps,
     CheckSteps, DeathSteps, CommandStarts, WorldSteps DEF BranchNext
<1> QED BY <1>1, <1>2

\* The invariant of a discard: what is on disk, on its way to origin and known to
\* the command agree at every step, whatever is retried, lost or late.
THEOREM DiscardInvariant == DiscardAssumption /\ BranchSpec => []BranchInv
<1> SUFFICES ASSUME DiscardAssumption PROVE BranchSpec => []BranchInv
  OBVIOUS
<1>1. BranchInit => BranchInv
  BY BranchStarts
<1>2. BranchInv /\ [BranchNext]_branchVars => BranchInv'
  BY BranchKeeps
<1> QED BY <1>1, <1>2, PTL DEF BranchSpec

\* Every discard keeps to its types, whatever its bounds are
\* (remote_branch_discard.py, local_branch_discard.py).
THEOREM DiscardTypes == DiscardAssumption /\ BranchSpec => []BranchTypeOK
<1>1. BranchInv => BranchTypeOK
  BY DEF BranchInv
<1> QED BY <1>1, DiscardInvariant, PTL

\* One approval deletes a branch at most once, for any number of deaths, retries
\* and lost answers, and a receipt claims only a deletion that was made
\* (_apply, delete_remote_branch_if_at, _write_receipt).
THEOREM DiscardsHappenOnce == DiscardAssumption /\ BranchSpec => []DeletionsAccounted
<1>1. BranchInv => DeletionsAccounted
  <2> SUFFICES ASSUME BranchInv, NEW t \in Token
               PROVE  /\ wiped[t] <= 1
                      /\ backups[t].receipt = "deleted" => wiped[t] = 1
                      /\ backups[t].receipt # "none" => backups[t].attempt = "whole"
    BY DEF DeletionsAccounted, DeletedOnce, ReceiptTrue
  <2>1. Accounted(t) /\ wiped[t] \in Nat
    BY DEF BranchInv, BranchTypeOK
  <2> QED BY <2>1 DEF Accounted
<1> QED BY <1>1, DiscardInvariant, PTL

\* Only origin and the local transaction delete for a discard; what users delete
\* is not checked out.
LEMMA StepsDeleteSafely ==
  ASSUME DiscardAssumption, BranchInv, BranchNext
  PROVE  DeletedIsBackedUp /\ CheckoutKept
<1>1. ASSUME NEW intent \in sent, Origin(intent) PROVE DeletedIsBackedUp /\ CheckoutKept
  <2>1. intent \in Token /\ Accounted(intent) /\ wiped \in [Token -> Nat]
    BY DEF BranchInv, BranchTypeOK
  <2>2. backups[intent].attempt = "whole" /\ backups[intent].files = "whole" /\ place = "remote"
    BY <2>1 DEF Accounted
  <2>3. \A t \in Token : wiped'[t] # wiped[t] => t = intent /\ ref = intent.sha
    BY <1>1, <2>1 DEF Origin
  <2> QED BY <2>2, <2>3 DEF DeletedIsBackedUp, CheckoutKept
<1>2. CASE CommitDeletion
  <2>1. task.pc = "commit"
    BY <1>2 DEF CommitDeletion, TaskAt
  <2>2. /\ Knows("commit") /\ Mine \in Token /\ Mine.sha = task.tok.sha
        /\ wiped \in [Token -> Nat]
    BY <2>1, Running, MyIntent
  <2>3. MineIs("whole") /\ ref = Mine.sha /\ out # "switched"
    BY <2>2 DEF Knows
  <2>4. \A t \in Token : wiped'[t] # wiped[t] => t = Mine
    BY <1>2, <2>2 DEF CommitDeletion
  <2> QED BY <2>3, <2>4 DEF DeletedIsBackedUp, CheckoutKept, MineIs
<1>3. CASE BranchWorld
  <2>1. wiped' = wiped
    BY <1>3 DEF BranchWorld, MoveBranch, SwitchWorktree, MoveLease, MoveBar, Move
  <2>2. CheckoutKept
    BY <1>3 DEF CheckoutKept, BranchWorld, MoveBranch, SwitchWorktree, MoveLease, MoveBar
  <2> QED BY <2>1, <2>2 DEF DeletedIsBackedUp
<1>4. CASE UNCHANGED <<ref, wiped>>
  BY <1>4 DEF DeletedIsBackedUp, CheckoutKept
<1>5. CASE \E sha \in Commits : RemotePreview(sha) \/ LocalPreview(sha)
  BY <1>4, <1>5 DEF RemotePreview, LocalPreview
<1>6. CASE \E tok \in offered : Apply(tok)
  BY <1>4, <1>6 DEF Apply
<1>7. CASE Inspect \/ CreateBackup \/ WriteBundle \/ Recheck
  BY <1>4, <1>7 DEF Inspect, CreateBackup, WriteBundle, Recheck
<1>8. CASE WriteAttempt \/ ClearAttempt \/ WriteReceipt \/ Push \/ NoAnswer
  BY <1>4, <1>8 DEF WriteAttempt, ClearAttempt, WriteReceipt, Push, NoAnswer
<1>9. CASE Prepare \/ HoldHeads \/ Revalidate \/ CheckGone \/ TaskDies
  BY <1>4, <1>9 DEF Prepare, HoldHeads, Revalidate, CheckGone, TaskDies
<1> QED BY <1>1, <1>2, <1>3, <1>5, <1>6, <1>7, <1>8, <1>9 DEF BranchNext

\* What is deleted is at the approved commit, has its bundle and its attempt on
\* disk, and no worktree has switched to it (_apply, delete_inactive_branch_if_at,
\* _hold_live_worktree_heads).
THEOREM DiscardsAreBackedUp == DiscardAssumption /\ BranchSpec => DeletedSafely
<1> SUFFICES ASSUME DiscardAssumption PROVE BranchSpec => DeletedSafely
  OBVIOUS
<1>1. BranchInv /\ [BranchNext]_branchVars => [DeletedIsBackedUp /\ CheckoutKept]_branchVars
  BY StepsDeleteSafely
<1>2. BranchSpec => []BranchInv
  BY DiscardInvariant
<1> QED BY <1>1, <1>2, PTL DEF BranchSpec, DeletedSafely
-----------------------------------------------------------------------------
(* The discard of a worktree.                                              *)

ReservedFor(tok) == reserved = [version |-> tok.version + 1, sha |-> tok.sha]

\* Where the command relies on the reservation it made or took over.
Holding ==
  {"hold", "look", "released", "resumed", "absent", "complete"} \cup Removing \cup Recovering

\* The lease, its reservation and the archive the command works for.
RowFacts ==
  /\ reserved # Unreserved => row.open /\ row.version = reserved.version
  /\ ReservationBacked
  /\ errand.pc # "idle" => errand.tok \in Approval
  /\ errand.pc \in {"archive", "write", "recheck", "reserve"} => row.open
  /\ errand.pc \in {"recheck", "reserve", "branch"} \cup Holding => errand.tok \in archives.whole
  /\ errand.pc \in Holding => ReservedFor(errand.tok)
  /\ errand.pc \in {"look"} \cup Removing => branch = errand.tok.sha
  /\ errand.pc = "branch" => ~row.open

\* Nothing of a checkpoint is left in the worktree.
NoCheckpoint ==
  /\ worktree.head # "checkpoint" /\ worktree.index # Checkpoint
  /\ locks.head \in {"none", "foreign"} /\ locks.index \in {"none", "foreign"}

\* The checkpoint, its journal and its locks, by the step the command is at.
CheckpointFacts ==
  /\ journal.stage = "full" \/ ~worktree.there \/ NoCheckpoint
  /\ journal.stage = "full" => journal.index # Checkpoint
  /\ errand.pc \in {"build", "check", "seal"} => journal.stage = "bare" /\ worktree.there
  /\ errand.pc \in {"lockhead", "lockindex", "compare", "setindex", "sethead", "remove",
                    "backhead", "backindex", "putindex", "puthead"} => journal.stage = "full"
  /\ errand.pc \in {"lockindex", "compare", "setindex", "sethead"} => locks.head = "checkpoint"
  /\ errand.pc \in {"compare", "setindex"} => locks.index = "checkpoint"
  /\ errand.pc \in {"setindex", "sethead"} => worktree.head = journal.head
  /\ errand.pc = "setindex" => worktree.index = journal.index
  /\ errand.pc \in {"backindex", "putindex", "puthead"} => locks.head = "rollback"
  /\ errand.pc = "putindex" => locks.index = "rollback"
  /\ errand.pc = "puthead" => locks.index \in {"none", "foreign"} /\ worktree.index # Checkpoint
  /\ errand.pc = "drop" => ~worktree.there \/ NoCheckpoint

DiscardInv == DiscardTypeOK /\ RowFacts /\ CheckpointFacts

\* The types of the parts of the state that the lemmas speak of.
Afters == {"none", "resume", "absent", "finalize", "rollback"}

Errand == [pc : ErrandSteps, tok : Approval \cup {NoApproval}, after : Afters]

Worktree == [there : BOOLEAN, listed : BOOLEAN, files : Content \cup {Lost}, shown : BOOLEAN,
             head : {"branch", "other", "checkpoint"}, index : Content \cup {Checkpoint}]

\* A recovery begins, and its caller is remembered.
LEMMA Reclaims ==
  ASSUME DiscardTypeOK, NEW after \in Afters, RecoverFor(after)
  PROVE  /\ errand' \in Errand /\ errand'.pc = "reclaim"
         /\ errand'.tok = errand.tok /\ errand'.after = after
<1>1. errand \in Errand
  BY DEF DiscardTypeOK, Errand, Afters
<1>2. "reclaim" \in ErrandSteps
  BY DEF ErrandSteps, Recovering
<1> DEFINE moved == [errand EXCEPT !.pc = "reclaim"]
<1>3. /\ moved \in Errand /\ moved.pc = "reclaim"
      /\ moved.tok = errand.tok
  BY <1>1, <1>2 DEF Errand
<1>4. errand' = [moved EXCEPT !.after = after]
  BY <1>1 DEF RecoverFor, Errand
<1> HIDE DEF moved
<1> QED BY <1>3, <1>4 DEF Errand

\* What a removal leaves of a worktree, whole or half: nothing comes back, and HEAD
\* and index are what they were.
LEMMA Remnants ==
  ASSUME DiscardTypeOK
  PROVE  /\ Gone \in Worktree /\ ~Gone.there
         /\ Gone.head = worktree.head /\ Gone.index = worktree.index
         /\ \A w \in Remnant : /\ w \in Worktree /\ (w.there => worktree.there)
                               /\ w.head = worktree.head /\ w.index = worktree.index
<1>1. worktree \in Worktree
  BY DEF DiscardTypeOK, Worktree
<1> DEFINE away == [worktree EXCEPT !.there = FALSE]
           half == [worktree EXCEPT !.files = Lost]
<1>2. /\ away \in Worktree /\ ~away.there
      /\ away.head = worktree.head /\ away.index = worktree.index
  BY <1>1 DEF Worktree
<1>3. /\ half \in Worktree /\ half.there = worktree.there
      /\ half.head = worktree.head /\ half.index = worktree.index
  BY <1>1 DEF Worktree
<1>4. Gone = [away EXCEPT !.listed = FALSE]
  BY <1>1 DEF Gone, Worktree
<1>5. [worktree EXCEPT !.files = Lost, !.shown = TRUE] = [half EXCEPT !.shown = TRUE]
  BY <1>1 DEF Worktree
<1>6. Remnant = {[half EXCEPT !.shown = TRUE], away}
  BY <1>5 DEF Remnant
<1> HIDE DEF away, half
<1>7. LET w == [away EXCEPT !.listed = FALSE]
      IN  /\ w \in Worktree /\ ~w.there
          /\ w.head = worktree.head /\ w.index = worktree.index
  BY <1>2 DEF Worktree
<1>8. LET w == [half EXCEPT !.shown = TRUE]
      IN  /\ w \in Worktree /\ w.there = worktree.there
          /\ w.head = worktree.head /\ w.index = worktree.index
  BY <1>3 DEF Worktree
<1> QED BY <1>2, <1>4, <1>6, <1>7, <1>8

\* A user edits files.
LEMMA Edits ==
  ASSUME DiscardTypeOK, NEW files \in Content \cup {Lost}, NEW shown \in BOOLEAN,
         worktree' = [worktree EXCEPT !.files = files, !.shown = shown]
  PROVE  /\ worktree' \in Worktree /\ worktree'.there = worktree.there
         /\ worktree'.head = worktree.head /\ worktree'.index = worktree.index
<1>1. worktree \in Worktree
  BY DEF DiscardTypeOK, Worktree
<1> DEFINE half == [worktree EXCEPT !.files = files]
<1>2. /\ half \in Worktree /\ half.there = worktree.there
      /\ half.head = worktree.head /\ half.index = worktree.index
  BY <1>1 DEF Worktree
<1>3. worktree' = [half EXCEPT !.shown = shown]
  BY <1>1 DEF Worktree
<1> HIDE DEF half
<1> QED BY <1>2, <1>3 DEF Worktree

\* The index is replaced, and what git shows changes with it.
LEMMA Reindexes ==
  ASSUME DiscardTypeOK, NEW index \in Content \cup {Checkpoint}, NEW shown \in BOOLEAN,
         worktree' = [worktree EXCEPT !.index = index, !.shown = shown]
  PROVE  /\ worktree' \in Worktree /\ worktree'.there = worktree.there
         /\ worktree'.head = worktree.head /\ worktree'.index = index
<1>1. worktree \in Worktree
  BY DEF DiscardTypeOK, Worktree
<1> DEFINE half == [worktree EXCEPT !.index = index]
<1>2. /\ half \in Worktree /\ half.there = worktree.there
      /\ half.head = worktree.head /\ half.index = index
  BY <1>1 DEF Worktree
<1>3. worktree' = [half EXCEPT !.shown = shown]
  BY <1>1 DEF Worktree
<1> HIDE DEF half
<1> QED BY <1>2, <1>3 DEF Worktree

\* What the two steps that replace the index do to the worktree.
LEMMA Indexings ==
  ASSUME DiscardInv, SetIndex \/ RestoreIndex
  PROVE  /\ worktree' \in Worktree /\ worktree'.there = worktree.there
         /\ worktree'.head = worktree.head
         /\ SetIndex => worktree'.index = Checkpoint
         /\ RestoreIndex => worktree'.index = IF OneOfOurs /\ worktree.index = Checkpoint
                                               THEN journal.index ELSE worktree.index
<1>1. DiscardTypeOK /\ journal.index \in Content \cup {Checkpoint}
  BY DEF DiscardInv, DiscardTypeOK
<1>2. CASE SetIndex
  <2>1. ErrandAt("setindex")
    BY <1>2 DEF SetIndex
  <2>2. ~RestoreIndex
    BY <2>1 DEF RestoreIndex, ErrandAt
  <2>3. PICK shown \in BOOLEAN :
          worktree' = [worktree EXCEPT !.index = Checkpoint, !.shown = shown]
    BY <1>2 DEF SetIndex
  <2> QED BY <1>1, <2>2, <2>3, Reindexes
<1>3. CASE RestoreIndex /\ OneOfOurs /\ worktree.index = Checkpoint
  <2>1. worktree' = [worktree EXCEPT !.index = journal.index, !.shown = TRUE]
    BY <1>3 DEF RestoreIndex
  <2>2. ~SetIndex
    BY <1>3 DEF RestoreIndex, SetIndex, ErrandAt
  <2> QED BY <1>1, <1>3, <2>1, <2>2, Reindexes
<1>4. CASE RestoreIndex /\ ~(OneOfOurs /\ worktree.index = Checkpoint)
  <2>1. UNCHANGED worktree /\ ~SetIndex
    BY <1>4 DEF RestoreIndex, SetIndex, ErrandAt
  <2> QED BY <1>1, <1>4, <2>1 DEF DiscardTypeOK, Worktree
<1> QED BY <1>2, <1>3, <1>4

\* Every step keeps the types.
LEMMA TypesKept ==
  ASSUME ArchiveAssumption, DiscardInv, DiscardNext
  PROVE  DiscardTypeOK'
<1> USE DEF DiscardInv, DiscardTypeOK, ArchiveAssumption, RowFacts, Holding,
            ReservedFor, ErrandAt, ErrandGo, ErrandEnds, RecoveryFails, Recovered,
            ReleaseRow, NoErrand, NoApproval, NoJournal, Unlocked, Fault, GitRemoves,
            Happens, rows, git, others, ErrandSteps, Removing, Recovering, Approval,
            LockOwners, Errand, Worktree, Afters
<1>1. \A after \in Afters :
        RecoverFor(after) => /\ errand' \in Errand /\ errand'.pc = "reclaim"
                             /\ errand'.tok = errand.tok /\ errand'.after = after
  BY Reclaims
<1>2. /\ Gone \in Worktree /\ ~Gone.there
      /\ Gone.head = worktree.head /\ Gone.index = worktree.index
      /\ \A w \in Remnant : /\ w \in Worktree /\ (w.there => worktree.there)
                            /\ w.head = worktree.head /\ w.index = worktree.index
  BY Remnants
<1>3. CASE PreviewDiscard
  <2> DEFINE tok == TokenAt(OriginalVersion)
  <2>1. tok \in Approval
    BY <1>3 DEF PreviewDiscard, TokenAt, OriginalVersion, Eligible, Intact
  <2>2. known' = known \cup {tok}
    BY <1>3 DEF PreviewDiscard
  <2> HIDE DEF tok
  <2> QED BY <1>3, <2>1, <2>2 DEF PreviewDiscard
<1>4. CASE \E tok \in known : ApplyDiscard(tok)
  <2>1. PICK tok \in known : ApplyDiscard(tok)
    BY <1>4
  <2>2. tok \in Approval /\ errand' = [pc |-> "begin", tok |-> tok, after |-> "none"]
    BY <2>1 DEF ApplyDiscard
  <2> QED BY <2>1, <2>2 DEF ApplyDiscard
<1>5. CASE BeginDiscard
  BY <1>1, <1>5 DEF BeginDiscard
<1>6. CASE OpenArchive
  BY <1>6 DEF OpenArchive
<1>7. CASE WriteArchive
  BY <1>7 DEF WriteArchive
<1>8. CASE RecheckDiscard
  BY <1>8 DEF RecheckDiscard
<1>9. CASE Reserve
  BY <1>9 DEF Reserve
<1>10. CASE Hold
  BY <1>10 DEF Hold
<1>11. CASE Look
  BY <1>11 DEF Look
<1>12. CASE Strip
  BY <1>2, <1>12 DEF Strip
<1>13. CASE RemoveReserved
  <2>1. worktree' \in Worktree
    BY <1>2, <1>13 DEF RemoveReserved
  <2>2. errand' \in Errand
    BY <1>1, <1>13 DEF RemoveReserved
  <2>3. shared' \subseteq {"head", "index"}
        /\ locks' \in [head : LockOwners, index : LockOwners]
    <3>1. CASE shared' = {} /\ locks' = Unlocked
      BY <3>1
    <3>2. CASE UNCHANGED <<shared, locks>>
      BY <3>2
    <3> QED BY <1>13, <3>1, <3>2 DEF RemoveReserved
  <2> QED BY <1>13, <2>1, <2>2, <2>3 DEF RemoveReserved
<1>14. CASE AfterFailure
  BY <1>14 DEF AfterFailure
<1>15. CASE MakeJournal
  BY <1>15 DEF MakeJournal
<1>16. CASE BuildCheckpoint
  BY <1>16 DEF BuildCheckpoint
<1>c. CASE CheckAgain
  BY <1>c DEF CheckAgain
<1>17. CASE SealJournal
  <2>1. worktree.head \in {"branch", "other"}
    BY <1>17 DEF SealJournal, CheckpointFacts, NoCheckpoint
  <2>2. journal' = [[[journal EXCEPT !.stage = "full"] EXCEPT !.head = worktree.head]
                      EXCEPT !.index = worktree.index]
    BY <1>17 DEF SealJournal
  <2>3. journal' \in [stage : {"none", "bare", "full"}, files : Content \cup {Lost},
                     head : {"branch", "other"}, index : Content \cup {Checkpoint}]
    BY <2>1, <2>2
  <2> QED BY <1>17, <2>3 DEF SealJournal
<1>18. CASE LockHead
  BY <1>1, <1>18 DEF LockHead
<1>19. CASE LockIndex
  BY <1>1, <1>19 DEF LockIndex
<1>20. CASE CompareUnderLocks
  BY <1>1, <1>20 DEF CompareUnderLocks
<1>21. CASE SetIndex
  <2>1. worktree' \in Worktree
    BY <1>21, Indexings
  <2>2. errand' \in Errand
    BY <1>1, <1>21 DEF SetIndex
  <2>3. locks' \in [head : LockOwners, index : LockOwners]
    BY <1>21 DEF SetIndex
  <2> QED BY <1>21, <2>1, <2>2, <2>3 DEF SetIndex
<1>22. CASE SetHead
  BY <1>22 DEF SetHead
<1>23. CASE Reclaim
  BY <1>23 DEF Reclaim
<1>24. CASE RollbackHeadLock
  BY <1>24 DEF RollbackHeadLock
<1>25. CASE RollbackIndexLock
  BY <1>25 DEF RollbackIndexLock
<1>26. CASE RestoreIndex
  <2>1. worktree' \in Worktree
    BY <1>26, Indexings
  <2>2. errand' \in Errand /\ shared' \subseteq {"head", "index"}
    BY <1>26 DEF RestoreIndex
  <2>3. locks' \in [head : LockOwners, index : LockOwners]
    BY <1>26 DEF RestoreIndex
  <2> QED BY <1>26, <2>1, <2>2, <2>3 DEF RestoreIndex
<1>27. CASE RestoreHead
  BY <1>27 DEF RestoreHead
<1>28. CASE DropJournal
  BY <1>28 DEF DropJournal
<1>29. CASE Resume
  BY <1>29 DEF Resume
<1>30. CASE CompleteAbsent
  BY <1>30 DEF CompleteAbsent
<1>31. CASE CompleteDiscard
  BY <1>31 DEF CompleteDiscard
<1>32. CASE FinishBranch
  BY <1>32 DEF FinishBranch
<1>33. CASE DiscardDies
  BY <1>2, <1>33 DEF DiscardDies
<1>34. CASE Edit
  <2>1. PICK files \in Content \ {worktree.files}, shown \in BOOLEAN :
          worktree' = [worktree EXCEPT !.files = files, !.shown = shown]
    BY <1>34 DEF Edit
  <2>2. worktree' \in Worktree
    BY <2>1, Edits
  <2> QED BY <1>34, <2>2 DEF Edit
<1>35. CASE Stage
  BY <1>35 DEF Stage
<1>36. CASE Switch
  BY <1>36 DEF Switch
<1>37. CASE MoveTip
  BY <1>37 DEF MoveTip
<1>38. CASE CheckOutElsewhere
  BY <1>38 DEF CheckOutElsewhere
<1>39. CASE ForeignLock
  BY <1>39 DEF ForeignLock
<1>40. CASE MoveGitHub
  <2>1. opened' \in BOOLEAN /\ afar' \in BOOLEAN
    BY <1>40 DEF MoveGitHub
  <2> QED BY <1>40, <2>1 DEF MoveGitHub
<1>41. CASE Housekeeping
  BY <1>2, <1>41 DEF Housekeeping
<1> QED BY <1>3, <1>4, <1>5, <1>6, <1>7, <1>8, <1>9, <1>10, <1>11, <1>12, <1>13, <1>14,
           <1>15, <1>16, <1>c, <1>17, <1>18, <1>19, <1>20, <1>21, <1>22, <1>23, <1>24, <1>25,
           <1>26, <1>27, <1>28, <1>29, <1>30, <1>31, <1>32, <1>33, <1>34, <1>35, <1>36,
           <1>37, <1>38, <1>39, <1>40, <1>41
    DEF DiscardNext, DiscardWorld

\* Every step keeps what ties the lease, its reservation and the archive.
LEMMA RowFactsKept ==
  ASSUME ArchiveAssumption, DiscardInv, DiscardNext
  PROVE  RowFacts'
<1> USE DEF DiscardInv, DiscardTypeOK, ArchiveAssumption, RowFacts, Holding,
            ReservedFor, ReservationBacked, ErrandAt, ErrandGo, ErrandEnds,
            RecoveryFails, Recovered, ReleaseRow, NoErrand, NoApproval, NoJournal,
            Unlocked, Fault, GitRemoves, Happens, rows, git, others, Removing,
            Recovering, ErrandSteps, Recoverable, Archived, Matches, TokenAt, Eligible,
            OriginalVersion, Intact, BranchHeld, HeadHeld, Errand, Afters
<1>1. \A after \in Afters :
        RecoverFor(after) => /\ errand' \in Errand /\ errand'.pc = "reclaim"
                             /\ errand'.tok = errand.tok /\ errand'.after = after
  BY Reclaims
<1>2. /\ Gone \in Worktree /\ ~Gone.there
      /\ Gone.head = worktree.head /\ Gone.index = worktree.index
      /\ \A w \in Remnant : /\ w \in Worktree /\ (w.there => worktree.there)
                            /\ w.head = worktree.head /\ w.index = worktree.index
  BY Remnants
<1>3. CASE PreviewDiscard
  BY <1>3 DEF PreviewDiscard
<1>4. CASE \E tok \in known : ApplyDiscard(tok)
  <2>1. PICK tok \in known : ApplyDiscard(tok)
    BY <1>4
  <2>2. tok \in Approval /\ errand' = [pc |-> "begin", tok |-> tok, after |-> "none"]
    BY <2>1 DEF ApplyDiscard
  <2> QED BY <2>1, <2>2 DEF ApplyDiscard
<1>5. CASE BeginDiscard
  BY <1>1, <1>5 DEF BeginDiscard
<1>6. CASE OpenArchive
  BY <1>6 DEF OpenArchive
<1>7. CASE WriteArchive
  BY <1>7 DEF WriteArchive
<1>8. CASE RecheckDiscard
  BY <1>8 DEF RecheckDiscard
<1>9. CASE Reserve
  BY <1>9 DEF Reserve
<1>10. CASE Hold
  BY <1>10 DEF Hold
<1>11. CASE Look
  BY <1>11 DEF Look
<1>12. CASE Strip
  BY <1>2, <1>12 DEF Strip
<1>13. CASE RemoveReserved
  BY <1>1, <1>2, <1>13 DEF RemoveReserved
<1>14. CASE AfterFailure
  BY <1>14 DEF AfterFailure
<1>15. CASE MakeJournal
  BY <1>15 DEF MakeJournal
<1>16. CASE BuildCheckpoint
  BY <1>16 DEF BuildCheckpoint
<1>c. CASE CheckAgain
  BY <1>c DEF CheckAgain
<1>17. CASE SealJournal
  BY <1>17 DEF SealJournal
<1>18. CASE LockHead
  BY <1>1, <1>18 DEF LockHead
<1>19. CASE LockIndex
  BY <1>1, <1>19 DEF LockIndex
<1>20. CASE CompareUnderLocks
  BY <1>1, <1>20 DEF CompareUnderLocks
<1>21. CASE SetIndex
  BY <1>1, <1>21 DEF SetIndex
<1>22. CASE SetHead
  BY <1>22 DEF SetHead
<1>23. CASE Reclaim
  BY <1>23 DEF Reclaim
<1>24. CASE RollbackHeadLock
  BY <1>24 DEF RollbackHeadLock
<1>25. CASE RollbackIndexLock
  BY <1>25 DEF RollbackIndexLock
<1>26. CASE RestoreIndex
  BY <1>26 DEF RestoreIndex
<1>27. CASE RestoreHead
  BY <1>27 DEF RestoreHead
<1>28. CASE DropJournal
  BY <1>28 DEF DropJournal
<1>29. CASE Resume
  BY <1>29 DEF Resume
<1>30. CASE CompleteAbsent
  BY <1>30 DEF CompleteAbsent
<1>31. CASE CompleteDiscard
  BY <1>31 DEF CompleteDiscard
<1>32. CASE FinishBranch
  BY <1>32 DEF FinishBranch
<1>33. CASE DiscardDies
  BY <1>2, <1>33 DEF DiscardDies
<1>34. CASE Edit
  BY <1>34 DEF Edit
<1>35. CASE Stage
  BY <1>35 DEF Stage
<1>36. CASE Switch
  BY <1>36 DEF Switch
<1>37. CASE MoveTip
  BY <1>37 DEF MoveTip
<1>38. CASE CheckOutElsewhere
  BY <1>38 DEF CheckOutElsewhere
<1>39. CASE ForeignLock
  BY <1>39 DEF ForeignLock
<1>40. CASE MoveGitHub
  BY <1>40 DEF MoveGitHub
<1>41. CASE Housekeeping
  BY <1>2, <1>41 DEF Housekeeping
<1> QED BY <1>3, <1>4, <1>5, <1>6, <1>7, <1>8, <1>9, <1>10, <1>11, <1>12, <1>13, <1>14,
           <1>15, <1>16, <1>c, <1>17, <1>18, <1>19, <1>20, <1>21, <1>22, <1>23, <1>24, <1>25,
           <1>26, <1>27, <1>28, <1>29, <1>30, <1>31, <1>32, <1>33, <1>34, <1>35, <1>36,
           <1>37, <1>38, <1>39, <1>40, <1>41
    DEF DiscardNext, DiscardWorld

\* Every step keeps what ties the worktree, the journal and the locks.
LEMMA CheckpointFactsKept ==
  ASSUME ArchiveAssumption, DiscardInv, DiscardNext
  PROVE  CheckpointFacts'
<1> USE DEF DiscardInv, DiscardTypeOK, ArchiveAssumption, CheckpointFacts, NoCheckpoint,
            ErrandAt, ErrandGo, ErrandEnds, RecoveryFails, Recovered, ReleaseRow,
            NoErrand, NoApproval, NoJournal, Unlocked, Fault, GitRemoves, Happens, rows,
            git, others, SameGitState, OneOfOurs, AsRecorded, ErrandSteps, Removing,
            Recovering, LockOwners, Errand, Worktree, Afters
<1>1. \A after \in Afters :
        RecoverFor(after) => /\ errand' \in Errand /\ errand'.pc = "reclaim"
                             /\ errand'.tok = errand.tok /\ errand'.after = after
  BY Reclaims
<1>2. /\ Gone \in Worktree /\ ~Gone.there
      /\ Gone.head = worktree.head /\ Gone.index = worktree.index
      /\ \A w \in Remnant : /\ w \in Worktree /\ (w.there => worktree.there)
                            /\ w.head = worktree.head /\ w.index = worktree.index
  BY Remnants
<1>3. CASE PreviewDiscard
  BY <1>3 DEF PreviewDiscard
<1>4. CASE \E tok \in known : ApplyDiscard(tok)
  <2>1. PICK tok \in known : ApplyDiscard(tok)
    BY <1>4
  <2>2. tok \in Approval /\ errand' = [pc |-> "begin", tok |-> tok, after |-> "none"]
    BY <2>1 DEF ApplyDiscard
  <2> QED BY <2>1, <2>2 DEF ApplyDiscard
<1>5. CASE BeginDiscard
  BY <1>1, <1>5 DEF BeginDiscard
<1>6. CASE OpenArchive
  BY <1>6 DEF OpenArchive
<1>7. CASE WriteArchive
  BY <1>7 DEF WriteArchive
<1>8. CASE RecheckDiscard
  BY <1>8 DEF RecheckDiscard
<1>9. CASE Reserve
  BY <1>9 DEF Reserve
<1>10. CASE Hold
  BY <1>10 DEF Hold
<1>11. CASE Look
  BY <1>11 DEF Look
<1>12. CASE Strip
  BY <1>2, <1>12 DEF Strip
<1>13. CASE RemoveReserved
  BY <1>1, <1>2, <1>13 DEF RemoveReserved
<1>14. CASE AfterFailure
  BY <1>14 DEF AfterFailure
<1>15. CASE MakeJournal
  BY <1>15 DEF MakeJournal
<1>16. CASE BuildCheckpoint
  BY <1>16 DEF BuildCheckpoint
<1>c. CASE CheckAgain
  BY <1>c DEF CheckAgain
<1>17. CASE SealJournal
  BY <1>17 DEF SealJournal
<1>18. CASE LockHead
  BY <1>1, <1>18 DEF LockHead
<1>19. CASE LockIndex
  BY <1>1, <1>19 DEF LockIndex
<1>20. CASE CompareUnderLocks
  BY <1>1, <1>20 DEF CompareUnderLocks
<1>21. CASE SetIndex
  BY <1>1, <1>21 DEF SetIndex
<1>22. CASE SetHead
  BY <1>22 DEF SetHead
<1>23. CASE Reclaim
  BY <1>23 DEF Reclaim
<1>24. CASE RollbackHeadLock
  BY <1>24 DEF RollbackHeadLock
<1>25. CASE RollbackIndexLock
  BY <1>25 DEF RollbackIndexLock
<1>26. CASE RestoreIndex
  <2>1. /\ worktree'.there = worktree.there /\ worktree'.head = worktree.head
        /\ worktree'.index = IF OneOfOurs /\ worktree.index = Checkpoint
                              THEN journal.index ELSE worktree.index
    BY <1>26, Indexings
  <2> QED BY <1>26, <2>1 DEF RestoreIndex
<1>27. CASE RestoreHead
  BY <1>27 DEF RestoreHead
<1>28. CASE DropJournal
  BY <1>28 DEF DropJournal
<1>29. CASE Resume
  BY <1>29 DEF Resume
<1>30. CASE CompleteAbsent
  BY <1>30 DEF CompleteAbsent
<1>31. CASE CompleteDiscard
  BY <1>31 DEF CompleteDiscard
<1>32. CASE FinishBranch
  BY <1>32 DEF FinishBranch
<1>33. CASE DiscardDies
  BY <1>2, <1>33 DEF DiscardDies
<1>34. CASE Edit
  BY <1>34 DEF Edit
<1>35. CASE Stage
  BY <1>35 DEF Stage
<1>36. CASE Switch
  BY <1>36 DEF Switch
<1>37. CASE MoveTip
  BY <1>37 DEF MoveTip
<1>38. CASE CheckOutElsewhere
  BY <1>38 DEF CheckOutElsewhere
<1>39. CASE ForeignLock
  BY <1>39 DEF ForeignLock
<1>40. CASE MoveGitHub
  BY <1>40 DEF MoveGitHub
<1>41. CASE Housekeeping
  <2>1. CASE /\ ~worktree.there /\ worktree' = Gone
                /\ UNCHANGED <<shared, locks, journal, errand>>
    BY <1>2, <2>1
  <2>2. CASE UNCHANGED <<worktree, shared, locks, journal, errand>>
    BY <2>2
  <2> QED BY <1>41, <2>1, <2>2 DEF Housekeeping
<1> QED BY <1>3, <1>4, <1>5, <1>6, <1>7, <1>8, <1>9, <1>10, <1>11, <1>12, <1>13, <1>14,
           <1>15, <1>16, <1>c, <1>17, <1>18, <1>19, <1>20, <1>21, <1>22, <1>23, <1>24, <1>25,
           <1>26, <1>27, <1>28, <1>29, <1>30, <1>31, <1>32, <1>33, <1>34, <1>35, <1>36,
           <1>37, <1>38, <1>39, <1>40, <1>41
    DEF DiscardNext, DiscardWorld

\* A lease that nobody has tried to discard.
LEMMA WorktreeStarts == ArchiveAssumption /\ DiscardInit => DiscardInv
<1> SUFFICES ASSUME ArchiveAssumption, DiscardInit PROVE DiscardInv
  OBVIOUS
<1>1. PICK files \in Content, index \in Content :
        worktree = [there |-> TRUE, listed |-> TRUE, files |-> files,
                    shown |-> policy = "dirty", head |-> "branch", index |-> index]
  BY DEF DiscardInit
<1>2. worktree \in Worktree /\ NoCheckpoint
  <2>1. (policy = "dirty") \in BOOLEAN
    OBVIOUS
  <2>2. worktree \in Worktree
    BY <1>1, <2>1 DEF Worktree
  <2>3. NoCheckpoint
    BY <1>1 DEF NoCheckpoint, DiscardInit, Unlocked, ArchiveAssumption
  <2> QED BY <2>2, <2>3
<1>3. DiscardTypeOK
  <2>1. /\ journal \in [stage : {"none", "bare", "full"}, files : Content \cup {Lost},
                        head : {"branch", "other"}, index : Content \cup {Checkpoint}]
        /\ locks \in [head : LockOwners, index : LockOwners]
    BY DEF DiscardInit, Unlocked, NoJournal, LockOwners
  <2>2. errand \in Errand
    BY DEF DiscardInit, Errand, NoErrand, ErrandSteps, Afters
  <2>3. /\ row \in [open : BOOLEAN, version : 0 .. MaxRefreshes + 2]
        /\ archives \in [begun : SUBSET Approval, whole : SUBSET Approval]
        /\ moves \in 0 .. MaxMoves /\ faults \in 0 .. MaxFaults
    BY DEF DiscardInit, ArchiveAssumption
  <2> QED BY <1>2, <2>1, <2>2, <2>3 DEF DiscardInit, DiscardTypeOK, Worktree, Errand, Afters
<1>4. RowFacts
  BY DEF DiscardInit, RowFacts, ReservationBacked, NoErrand, Holding, Removing, Recovering
<1>5. CheckpointFacts
  BY <1>2 DEF DiscardInit, CheckpointFacts, NoErrand, NoJournal
<1> QED BY <1>3, <1>4, <1>5 DEF DiscardInv

\* Every step keeps the invariant.
LEMMA WorktreeKeeps ==
  ArchiveAssumption /\ DiscardInv /\ [DiscardNext]_discardVars => DiscardInv'
<1> SUFFICES ASSUME ArchiveAssumption, DiscardInv, [DiscardNext]_discardVars
             PROVE  DiscardInv'
  OBVIOUS
<1>1. CASE DiscardNext
  BY <1>1, TypesKept, RowFactsKept, CheckpointFactsKept DEF DiscardInv
<1>2. CASE UNCHANGED discardVars
  BY <1>2 DEF discardVars, DiscardInv, DiscardTypeOK, RowFacts, ReservationBacked,
     ReservedFor, CheckpointFacts, NoCheckpoint
<1> QED BY <1>1, <1>2

\* The invariant of a discard: the row, its reservation and the archive on one
\* side, the worktree, the journal and git's locks on the other
\* (archive_discard.py, git_state.py).
THEOREM WorktreeInvariant == ArchiveAssumption /\ DiscardSpec => []DiscardInv
<1> SUFFICES ASSUME ArchiveAssumption PROVE DiscardSpec => []DiscardInv
  OBVIOUS
<1>1. DiscardInit => DiscardInv
  BY WorktreeStarts
<1>2. DiscardInv /\ [DiscardNext]_discardVars => DiscardInv'
  BY WorktreeKeeps
<1> QED BY <1>1, <1>2, PTL DEF DiscardSpec

\* Every variable of a discard keeps its type, whatever the bounds are
\* (archive_discard.py).
THEOREM WorktreeTypes == ArchiveAssumption /\ DiscardSpec => []DiscardTypeOK
<1>1. DiscardInv => DiscardTypeOK
  BY DEF DiscardInv
<1> QED BY <1>1, WorktreeInvariant, PTL

\* Whatever dies, fails or is edited, a HEAD, an index or a lock of a checkpoint has
\* its sealed journal, and a reservation its archive (archived_removal_checkpoint,
\* recover_archived_removal_checkpoint, reserve_cleanup).
THEOREM LeftoversAreExplained == ArchiveAssumption /\ DiscardSpec => []LeftoversExplained
<1>1. DiscardInv => LeftoversExplained
  BY DEF DiscardInv, RowFacts, CheckpointFacts, NoCheckpoint, LeftoversExplained,
     CheckpointExplained
<1> QED BY <1>1, WorktreeInvariant, PTL

\* What users and GitHub do is none of the command's doing.
LEMMA OthersMove ==
  ASSUME ArchiveAssumption, DiscardInv, DiscardWorld
  PROVE  ~ByCommand
<1>1. moves \in Nat
  BY DEF DiscardInv, DiscardTypeOK, ArchiveAssumption
<1>2. Happens
  BY DEF DiscardWorld, Edit, Stage, Switch, MoveTip, CheckOutElsewhere, ForeignLock,
     MoveGitHub, Housekeeping
<1>3. moves' = moves + 1
  BY <1>2 DEF Happens
<1> QED BY <1>1, <1>3 DEF ByCommand

\* Of the four steps that write HEAD or index, two find their own checkpoint there
\* and two what they compared under git's locks.
LEMMA StepsOverwriteOwn ==
  ASSUME ArchiveAssumption, DiscardInv, DiscardNext
  PROVE  OverwritesOwn
<1>1. CASE SetIndex \/ RestoreIndex
  <2>1. /\ worktree'.head = worktree.head
        /\ RestoreIndex => worktree'.index = IF OneOfOurs /\ worktree.index = Checkpoint
                                             THEN journal.index ELSE worktree.index
    BY <1>1, Indexings
  <2>2. /\ journal.stage = "full"
        /\ SetIndex => worktree.index = journal.index /\ worktree'.index = Checkpoint
    BY <1>1, Indexings DEF SetIndex, RestoreIndex, ErrandAt, DiscardInv, CheckpointFacts
  <2> QED BY <1>1, <2>1, <2>2 DEF OverwritesOwn
<1>2. CASE SetHead
  BY <1>2 DEF SetHead, ErrandAt, DiscardInv, CheckpointFacts, OverwritesOwn, DiscardTypeOK
<1>3. CASE RestoreHead
  BY <1>3 DEF RestoreHead, ErrandAt, CheckpointFacts, OverwritesOwn, DiscardInv, DiscardTypeOK
<1>4. CASE Strip \/ RemoveReserved \/ DiscardDies
  <2>1. DiscardTypeOK
    BY DEF DiscardInv
  <2>2. worktree' \in Remnant \cup {Gone, worktree}
    BY <1>4 DEF Strip, RemoveReserved, DiscardDies, GitRemoves, git
  <2> QED BY <2>1, <2>2, Remnants DEF OverwritesOwn
<1>5. CASE DiscardWorld
  <2>1. ~ByCommand
    BY <1>5, OthersMove
  <2> QED BY <2>1 DEF OverwritesOwn
<1>6. CASE UNCHANGED worktree
  BY <1>6 DEF OverwritesOwn
<1>7. CASE \/ PreviewDiscard \/ (\E tok \in known : ApplyDiscard(tok))
           \/ BeginDiscard \/ OpenArchive \/ WriteArchive \/ RecheckDiscard
  BY <1>6, <1>7 DEF PreviewDiscard, ApplyDiscard, BeginDiscard, OpenArchive, WriteArchive,
     RecheckDiscard, git
<1>8. CASE \/ Reserve \/ Hold \/ Look \/ AfterFailure
           \/ MakeJournal \/ BuildCheckpoint \/ CheckAgain \/ SealJournal
  BY <1>6, <1>8 DEF Reserve, Hold, Look, AfterFailure, MakeJournal, BuildCheckpoint,
     CheckAgain, SealJournal, git
<1>9. CASE \/ LockHead \/ LockIndex \/ CompareUnderLocks \/ Reclaim
           \/ RollbackHeadLock \/ RollbackIndexLock \/ DropJournal
  BY <1>6, <1>9 DEF LockHead, LockIndex, CompareUnderLocks, Reclaim, RollbackHeadLock,
     RollbackIndexLock, DropJournal
<1>10. CASE Resume \/ CompleteAbsent \/ CompleteDiscard \/ FinishBranch
  BY <1>6, <1>10 DEF Resume, CompleteAbsent, CompleteDiscard, FinishBranch, git
<1> QED BY <1>1, <1>2, <1>3, <1>4, <1>5, <1>7, <1>8, <1>9, <1>10 DEF DiscardNext

\* A checkpoint replaces only the HEAD and the index that its sealed journal has, and
\* its recovery only the checkpoint's, by the journal's: what a user wrote after the
\* journal's reads (git_state.py:354-355) is not overwritten
\* (archived_removal_checkpoint, recover_archived_removal_checkpoint).
THEOREM UserStateIsKept == ArchiveAssumption /\ DiscardSpec => UserStateKept
<1> SUFFICES ASSUME ArchiveAssumption PROVE DiscardSpec => UserStateKept
  OBVIOUS
<1>1. DiscardInv /\ [DiscardNext]_discardVars => [OverwritesOwn]_discardVars
  BY StepsOverwriteOwn
<1>2. DiscardSpec => []DiscardInv
  BY WorktreeInvariant
<1> QED BY <1>1, <1>2, PTL DEF DiscardSpec, UserStateKept

\* Who removes something holds the reservation, and with it the finished archive.
LEMMA StepsRemoveArchived ==
  ASSUME ArchiveAssumption, DiscardInv, DiscardNext
  PROVE  WorktreeGoneIsArchived /\ LeaseGoneIsArchived /\ BranchGoneIsArchived
<1> USE DEF WorktreeGoneIsArchived, LeaseGoneIsArchived, BranchGoneIsArchived
<1>1. RowFacts /\ DiscardTypeOK
  BY DEF DiscardInv
<1>2. CASE Strip \/ RemoveReserved \/ DiscardDies
  <2>1. UNCHANGED <<rows, branch>>
    BY <1>2 DEF Strip, RemoveReserved, DiscardDies
  <2>2. worktree.there /\ ~worktree'.there => errand.pc \in {"strip", "remove"}
    BY <1>2 DEF Strip, RemoveReserved, DiscardDies, ErrandAt
  <2>3. errand.pc \in {"strip", "remove"} =>
          errand.tok \in archives.whole /\ errand.tok.sha = branch
    BY <1>1 DEF RowFacts, Holding, Removing
  <2> QED BY <2>1, <2>2, <2>3 DEF rows
<1>3. CASE CompleteDiscard
  <2>1. errand.tok \in archives.whole /\ ReservedFor(errand.tok)
    BY <1>1, <1>3 DEF CompleteDiscard, ErrandAt, RowFacts, Holding
  <2>2. UNCHANGED <<worktree, branch>>
    BY <1>3 DEF CompleteDiscard, git
  <2> QED BY <2>1, <2>2 DEF ReservedFor
<1>4. CASE FinishBranch
  <2>1. errand.tok \in archives.whole /\ ~row.open
    BY <1>1, <1>4 DEF FinishBranch, ErrandAt, RowFacts
  <2>2. UNCHANGED <<worktree, row>> /\ (branch' # branch => branch = errand.tok.sha)
    BY <1>4 DEF FinishBranch, git, rows
  <2> QED BY <2>1, <2>2
<1>5. CASE DiscardWorld
  <2>1. ~ByCommand
    BY <1>5, OthersMove
  <2>2. row'.open = row.open
    BY <1>1, <1>5 DEF DiscardWorld, Edit, Stage, Switch, MoveTip, CheckOutElsewhere,
       ForeignLock, MoveGitHub, Housekeeping, DiscardTypeOK
  <2> QED BY <2>1, <2>2
<1>6. CASE row'.open = row.open /\ UNCHANGED branch /\ worktree'.there = worktree.there
  BY <1>6
<1>7. CASE \/ PreviewDiscard \/ (\E tok \in known : ApplyDiscard(tok))
           \/ BeginDiscard \/ OpenArchive \/ WriteArchive \/ RecheckDiscard
  BY <1>6, <1>7 DEF PreviewDiscard, ApplyDiscard, BeginDiscard, OpenArchive, WriteArchive,
     RecheckDiscard, git, rows
<1>8. CASE Reserve \/ Hold \/ Look \/ AfterFailure
  <2>1. UNCHANGED <<worktree, branch>> /\ row'.open = row.open
    BY <1>1, <1>8 DEF Reserve, Hold, Look, AfterFailure, ReleaseRow, git, rows, DiscardTypeOK
  <2> QED BY <1>6, <2>1
<1>9. CASE \/ MakeJournal \/ BuildCheckpoint \/ CheckAgain \/ SealJournal
           \/ LockHead \/ LockIndex \/ CompareUnderLocks \/ Reclaim
           \/ RollbackHeadLock \/ RollbackIndexLock \/ DropJournal
  BY <1>6, <1>9 DEF MakeJournal, BuildCheckpoint, CheckAgain, SealJournal, LockHead, LockIndex,
     CompareUnderLocks, Reclaim, RollbackHeadLock, RollbackIndexLock, DropJournal, git, rows
<1>10. CASE Resume \/ CompleteAbsent
  BY <1>6, <1>10 DEF Resume, CompleteAbsent, git, rows
<1>11. CASE SetIndex \/ SetHead \/ RestoreIndex \/ RestoreHead
  <2>1. UNCHANGED <<row, branch>>
    BY <1>11 DEF SetIndex, SetHead, RestoreIndex, RestoreHead, rows
  <2>2. worktree'.there = worktree.there
    <3>1. CASE SetIndex \/ RestoreIndex
      BY <3>1, Indexings
    <3>2. CASE SetHead \/ RestoreHead
      BY <1>1, <3>2 DEF SetHead, RestoreHead, DiscardTypeOK
    <3> QED BY <1>11, <3>1, <3>2
  <2> QED BY <1>6, <2>1, <2>2
<1> QED BY <1>2, <1>3, <1>4, <1>5, <1>7, <1>8, <1>9, <1>10, <1>11 DEF DiscardNext

\* Worktree, lease and branch go only under a finished archive of their commit, for
\* any number of deaths, faults and retries (_archive_and_remove, _remove_reserved,
\* _finish_branch_cleanup).
THEOREM WhatIsGoneIsArchived == ArchiveAssumption /\ DiscardSpec => GoneIsArchived
<1> SUFFICES ASSUME ArchiveAssumption PROVE DiscardSpec => GoneIsArchived
  OBVIOUS
<1>1. DiscardInv /\ [DiscardNext]_discardVars =>
        [WorktreeGoneIsArchived /\ LeaseGoneIsArchived /\ BranchGoneIsArchived]_discardVars
  BY StepsRemoveArchived
<1>2. DiscardSpec => []DiscardInv
  BY WorktreeInvariant
<1> QED BY <1>1, <1>2, PTL DEF DiscardSpec, GoneIsArchived
=============================================================================
