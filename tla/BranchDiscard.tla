--------------------------- MODULE BranchDiscard ---------------------------
(***************************************************************************)
(* `awf wt discard-remote-branch` and `awf wt discard-local-branch`        *)
(* (worktrees/remote_branch_discard.py, worktrees/local_branch_discard.py):*)
(* one branch is bundled into a private backup and then deleted by         *)
(* compare-and-set, on origin by a leased push whose answer may be lost,   *)
(* locally by a ref transaction.  The backup's directory also keeps the    *)
(* attempt written before the deletion and the receipt written after it.   *)
(*                                                                         *)
(* A command holds the repository lock, so leases change between commands  *)
(* only; the branch, its checkouts and its pull requests change under it,  *)
(* and it may die at every step.                                           *)
(***************************************************************************)
EXTENDS Naturals

CONSTANTS Places,      \* "remote", "local": where an instance's branch is
          Commits,
          NoCommit,
          Bars,        \* what else may forbid it: "pull" an open pull request,
                       \* "base" a live lease's base or another protected name,
                       \* "foreign" a lease of another clone of the origin
          MaxOwners,   \* bound on the versions of the branch's lease
          MaxChanges,  \* bound on what users and GitHub do
          MaxDeaths    \* bound on commands that die

\* What the constants must satisfy; a module that uses this one assumes it.
DiscardAssumption ==
  /\ Places \subseteq {"remote", "local"}
  /\ Commits \subseteq Nat \ {0} /\ NoCommit = 0
  /\ Bars \subseteq {"pull", "base", "foreign"}
  /\ MaxOwners \in Nat /\ MaxChanges \in Nat /\ MaxDeaths \in Nat

VARIABLES
  place,    \* where the branch of this behaviour is
  ref,      \* the commit it is at, or NoCommit
  owner,    \* the lease of that branch: its state and row version
  barred,   \* the bars that are up
  out,      \* who has it checked out: "no", a worktree "switched" to it, or
            \* a worktree "added" for it
  backups,  \* the directory of every intent
  offered,  \* tokens that previews have returned
  sent,     \* deletions on their way to origin
  wiped,    \* how many deletions of every intent were carried out
  task,     \* the command that runs
  changes, deaths

branchVars == <<place, ref, owner, barred, out, backups, offered, sent, wiped, task,
                changes, deaths>>

world == <<place, owner, barred, out, changes, deaths>>

-----------------------------------------------------------------------------
(* Tokens and backups *)

Token == [sha : Commits, version : 0 .. MaxOwners]

\* _token_payload: a matching lease has to be REMOVED, so its version tells
\* the rest.
TokenOf(sha) == [sha |-> sha, version |-> owner.version]

\* Where the backup of a token goes: a directory of its own on a remote
\* discard, that of the intent without its leases (_stable_intent_digest) on
\* a local one.
Intent(tok) == IF place = "remote" THEN tok ELSE [tok EXCEPT !.version = 0]

NoBackup == [files |-> "none", of |-> 0, attempt |-> "none", receipt |-> "none"]

Backup == [files : {"none", "partial", "whole"}, of : 0 .. MaxOwners,
           attempt : {"none", "torn", "whole"},
           receipt : {"none", "torn", "deleted", "absent"}]

\* _validate_manifest of a local backup: it was taken for these leases.
SameEvidence(b, tok) == b.of = tok.version

\* Mutant: any directory of the intent counts as its backup.
ReadablePartial(b, tok) ==
  b.files = "none" \/ (b.attempt # "torn" /\ b.receipt # "torn")

\* _read_existing_backup raises for an unfinished backup or marker.
Readable(b, tok) ==
  b.files = "none" \/ ( /\ b.files = "whole"
                        /\ SameEvidence(b, tok)
                        /\ b.attempt # "torn" /\ b.receipt # "torn" )

-----------------------------------------------------------------------------
(* What _inspect demands *)

\* _lease_blocker, which a branch without a lease passes.
LeaseGone == owner.state # "live"

\* _protected_branch_blocker
Unprotected == "base" \notin barred

\* _foreign_remote_lease_blocker
NotForeign == "foreign" \notin barred

RemoteClear ==
  /\ NotForeign /\ Unprotected
  /\ out = "no" /\ LeaseGone /\ "pull" \notin barred

LocalClear ==
  /\ Unprotected
  /\ out = "no" /\ LeaseGone /\ "pull" \notin barred

Clear == IF place = "remote" THEN RemoteClear ELSE LocalClear

-----------------------------------------------------------------------------
(* The command *)

NoTask == [pc |-> "idle", tok |-> [sha |-> 0, version |-> 0], as |-> "none"]

TaskAt(pc) == task.pc = pc
TaskGo(pc) == task' = [task EXCEPT !.pc = pc]
TaskEnds == task' = NoTask

Mine == Intent(task.tok)

\* The branch's ref is locked from the prepare of the transaction to its end,
\* the HEADs of the worktrees in its inventory from when they are held.
RefLocked == place = "local" /\ task.pc \in {"hold", "seen", "attempt", "again", "commit"}

HeadsHeld == place = "local" /\ task.pc \in {"seen", "attempt", "again", "commit"}

BranchTypeOK ==
  /\ place \in Places
  /\ ref \in Commits \cup {NoCommit}
  /\ owner \in [state : {"none", "live", "removed"}, version : 0 .. MaxOwners]
  /\ barred \in SUBSET Bars
  /\ out \in {"no", "switched", "added"}
  /\ backups \in [Token -> Backup]
  /\ offered \subseteq Token /\ sent \subseteq Token
  /\ wiped \in [Token -> Nat]
  /\ task \in [pc : {"idle", "inspect", "create", "bundle", "recheck", "lock",
                    "hold", "seen", "attempt", "again", "commit", "push",
                    "answer", "rejected", "check", "receipt"},
              tok : Token \cup {NoTask.tok},
              as : {"none", "deleted", "absent"}]
  /\ changes \in 0 .. MaxChanges /\ deaths \in 0 .. MaxDeaths

BranchInit ==
  /\ place \in Places
  /\ ref \in Commits
  /\ owner = [state |-> "none", version |-> 0]
  /\ barred = {} /\ out = "no"
  /\ backups = [t \in Token |-> NoBackup]
  /\ offered = {} /\ sent = {}
  /\ wiped = [t \in Token |-> 0]
  /\ task = NoTask
  /\ changes = 0 /\ deaths = 0

\* A preview returns a token for a deletion it would make or complete.
RemotePreview(sha) ==
  LET tok == TokenOf(sha)
      b == backups[Intent(tok)]
  IN  /\ TaskAt("idle") /\ place = "remote" /\ Clear
      /\ Readable(b, tok) /\ b.receipt = "none"
      /\ IF b.attempt = "none" THEN ref = sha ELSE ref = NoCommit
      /\ offered' = offered \cup {tok}
      /\ UNCHANGED <<ref, backups, sent, wiped, task, world>>

LocalPreview(sha) ==
  LET tok == TokenOf(sha)
      b == backups[Intent(tok)]
  IN  /\ TaskAt("idle") /\ place = "local" /\ Clear
      /\ Readable(b, tok) /\ b.receipt = "none"
      /\ IF b.attempt = "none" THEN ref = sha ELSE ref = NoCommit
      /\ offered' = offered \cup {tok}
      /\ UNCHANGED <<ref, backups, sent, wiped, task, world>>

Apply(tok) ==
  /\ TaskAt("idle")
  /\ task' = [NoTask EXCEPT !.pc = "inspect", !.tok = tok]
  /\ UNCHANGED <<ref, backups, offered, sent, wiped, world>>

\* What an intent with an attempt comes to: its receipt once the branch is
\* gone, and nothing while it exists.
ResolveAttempt ==
  IF ref = NoCommit
  THEN task' = [task EXCEPT !.pc = "receipt", !.as = "absent"]
  ELSE TaskEnds

\* The inspection, and what the backup there already is tells _apply to do.
Decide(next) ==
  LET b == backups[Mine]
  IN  IF ~Clear \/ task.tok # TokenOf(task.tok.sha) THEN TaskEnds
      ELSE IF ~Readable(b, task.tok) \/ b.receipt # "none" THEN TaskEnds
      ELSE IF b.attempt # "none" THEN ResolveAttempt
      ELSE IF ref # task.tok.sha THEN TaskEnds
      ELSE TaskGo(next)

Inspect ==
  /\ TaskAt("inspect")
  /\ Decide(IF backups[Mine].files = "none" THEN "create" ELSE "recheck")
  /\ UNCHANGED <<ref, backups, offered, sent, wiped, world>>

CreateBackup ==
  /\ TaskAt("create")
  /\ backups' = [backups EXCEPT ![Mine] = [@ EXCEPT !.files = "partial",
                                                    !.of = task.tok.version]]
  /\ TaskGo("bundle")
  /\ UNCHANGED <<ref, offered, sent, wiped, world>>

\* Bundle and manifest; a failure leaves the directory as it is.
WriteBundle ==
  /\ TaskAt("bundle")
  /\ \/ /\ backups' = [backups EXCEPT ![Mine].files = "whole"]
        /\ TaskGo("recheck")
     \/ /\ TaskEnds
        /\ UNCHANGED backups
  /\ UNCHANGED <<ref, offered, sent, wiped, world>>

Recheck ==
  /\ TaskAt("recheck")
  /\ Decide(IF place = "remote" THEN "attempt" ELSE "lock")
  /\ UNCHANGED <<ref, backups, offered, sent, wiped, world>>

WriteAttempt ==
  /\ TaskAt("attempt")
  /\ backups' = [backups EXCEPT ![Mine].attempt = "whole"]
  /\ TaskGo(IF place = "remote" THEN "push" ELSE "again")
  /\ UNCHANGED <<ref, offered, sent, wiped, world>>

\* Retires an attempt whose deletion is known not to have happened.
ClearAttempt ==
  /\ TaskAt("rejected")
  /\ backups' = [backups EXCEPT ![Mine].attempt = "none"]
  /\ TaskEnds
  /\ UNCHANGED <<ref, offered, sent, wiped, world>>

WriteReceipt ==
  /\ TaskAt("receipt")
  /\ backups' = [backups EXCEPT ![Mine].receipt = task.as]
  /\ TaskEnds
  /\ UNCHANGED <<ref, offered, sent, wiped, world>>

-----------------------------------------------------------------------------
(* On origin: git push --force-with-lease *)

\* The request is sent, or the connection fails before it could be.
Push ==
  /\ TaskAt("push")
  /\ \/ /\ sent' = sent \cup {Mine}
        /\ TaskGo("answer")
     \/ /\ TaskGo("rejected")
        /\ UNCHANGED sent
  /\ UNCHANGED <<ref, backups, offered, wiped, world>>

\* Origin deletes the branch if it is at the commit of the request, or rejects
\* it; a client that still waits learns which, unless the answer is lost.
Origin(intent) ==
  /\ intent \in sent
  /\ sent' = sent \ {intent}
  /\ IF ref = intent.sha
     THEN /\ ref' = NoCommit
          /\ wiped' = [wiped EXCEPT ![intent] = @ + 1]
     ELSE UNCHANGED <<ref, wiped>>
  /\ \/ /\ TaskAt("answer") /\ Mine = intent
        /\ task' = [task EXCEPT !.pc = IF ref = intent.sha THEN "check"
                                     ELSE "rejected"]
     \/ UNCHANGED task
  /\ UNCHANGED <<backups, offered, world>>

\* Mutant: a lost answer counts as a rejection.
NoAnswerIsRejection ==
  /\ TaskAt("answer")
  /\ TaskGo("rejected")
  /\ UNCHANGED <<ref, backups, offered, sent, wiped, world>>

\* A transport failure says nothing of the outcome: the attempt stays.
NoAnswer ==
  /\ TaskAt("answer")
  /\ TaskEnds
  /\ UNCHANGED <<ref, backups, offered, sent, wiped, world>>

-----------------------------------------------------------------------------
(* Locally: git update-ref --stdin *)

\* Up to prepare: the branch at its commit and checked out by no worktree.
Prepare ==
  /\ TaskAt("lock")
  /\ IF ref = task.tok.sha /\ out = "no" THEN TaskGo("hold") ELSE TaskEnds
  /\ UNCHANGED <<ref, backups, offered, sent, wiped, world>>

\* _hold_live_worktree_heads verifies every HEAD it locks; an abort before the
\* attempt was written leaves nothing to clear.
HoldHeads ==
  /\ TaskAt("hold")
  /\ IF out # "switched" THEN TaskGo("seen") ELSE TaskEnds
  /\ UNCHANGED <<ref, backups, offered, sent, wiped, world>>

\* _revalidate_inactive_branch, before the attempt and after it.
Revalidate ==
  /\ \/ /\ TaskAt("seen")
        /\ IF out = "no" THEN TaskGo("attempt") ELSE TaskEnds
     \/ /\ TaskAt("again")
        /\ TaskGo(IF out = "no" THEN "commit" ELSE "rejected")
  /\ UNCHANGED <<ref, backups, offered, sent, wiped, world>>

\* The commit of the transaction; when its answer fails the attempt stays.
CommitDeletion ==
  /\ TaskAt("commit")
  /\ \/ /\ ref' = NoCommit
        /\ wiped' = [wiped EXCEPT ![Mine] = @ + 1]
        /\ (TaskGo("check") \/ TaskEnds)
     \/ /\ TaskEnds
        /\ UNCHANGED <<ref, wiped>>
  /\ UNCHANGED <<backups, offered, sent, world>>

\* The branch is looked up once more; a lookup that fails proves nothing.
CheckGone ==
  /\ TaskAt("check")
  /\ \/ /\ ref = NoCommit
        /\ task' = [task EXCEPT !.pc = "receipt", !.as = "deleted"]
     \/ TaskEnds
  /\ UNCHANGED <<ref, backups, offered, sent, wiped, world>>

-----------------------------------------------------------------------------
(* Deaths, and what others do *)

\* A marker that is being written may be left half written.
TaskDies ==
  /\ ~TaskAt("idle") /\ deaths < MaxDeaths
  /\ deaths' = deaths + 1
  /\ \/ UNCHANGED backups
     \/ /\ TaskAt("attempt")
        /\ backups' = [backups EXCEPT ![Mine].attempt = "torn"]
     \/ /\ TaskAt("receipt")
        /\ backups' = [backups EXCEPT ![Mine].receipt = "torn"]
  /\ TaskEnds
  /\ UNCHANGED <<place, ref, owner, barred, out, offered, sent, wiped, changes>>

Move ==
  /\ changes < MaxChanges /\ changes' = changes + 1
  /\ UNCHANGED <<place, backups, offered, sent, wiped, task, deaths>>

\* Somebody commits on the branch, brings it back or deletes it.
MoveBranch ==
  /\ Move /\ ~RefLocked
  /\ ref' \in (Commits \cup {NoCommit}) \ {ref}
  /\ ref' = NoCommit => out = "no"
  /\ UNCHANGED <<owner, barred, out>>

\* A worktree switches to the branch or away from it, or one is added for it.
SwitchWorktree ==
  /\ Move /\ ref # NoCommit
  /\ \/ /\ ~HeadsHeld
        /\ out' = IF out = "no" THEN "switched" ELSE "no"
     \/ /\ out = "no"
        /\ out' = "added"
  /\ UNCHANGED <<ref, owner, barred>>

MoveBar(bar) ==
  /\ Move
  /\ barred' = IF bar \in barred THEN barred \ {bar} ELSE barred \cup {bar}
  /\ UNCHANGED <<ref, owner, out>>

\* A worktree of the branch is created or cleaned up, under the same lock.
MoveLease ==
  /\ Move /\ TaskAt("idle") /\ owner.version < MaxOwners
  /\ owner' = [state |-> IF owner.state = "live" THEN "removed" ELSE "live",
               version |-> owner.version + 1]
  /\ UNCHANGED <<ref, barred, out>>

BranchWorld ==
  \/ MoveBranch \/ SwitchWorktree \/ MoveLease
  \/ \E bar \in Bars : MoveBar(bar)

BranchNext ==
  \/ \E sha \in Commits : RemotePreview(sha) \/ LocalPreview(sha)
  \/ \E tok \in offered : Apply(tok)
  \/ Inspect \/ CreateBackup \/ WriteBundle \/ Recheck
  \/ WriteAttempt \/ ClearAttempt \/ WriteReceipt
  \/ Push \/ NoAnswer \/ \E intent \in sent : Origin(intent)
  \/ Prepare \/ HoldHeads \/ Revalidate \/ CommitDeletion \/ CheckGone
  \/ TaskDies \/ BranchWorld

BranchSpec == BranchInit /\ [][BranchNext]_branchVars

-----------------------------------------------------------------------------
(* Properties *)

DeletedOnce == \A t \in Token : wiped[t] <= 1

ReceiptTrue ==
  \A t \in Token :
    /\ backups[t].receipt = "deleted" => wiped[t] = 1
    /\ backups[t].receipt # "none" => backups[t].attempt = "whole"

\* One approval deletes once: however often it is retried, and however late
\* origin carries the first request out, a branch that came back at the same
\* commit is left alone, and no receipt claims a deletion that was not made or
\* that no attempt announced.
DeletionsAccounted == DeletedOnce /\ ReceiptTrue

DeletedIsBackedUp ==
  \A t \in Token :
    wiped'[t] # wiped[t] =>
      /\ ref = t.sha
      /\ backups[t].files = "whole"
      /\ backups[t].attempt = "whole"

CheckoutKept == place = "local" /\ ref' # ref /\ ref' = NoCommit => out # "switched"

\* Whatever happened between the approval and the deletion, the branch that goes
\* is at the approved commit, its bundle and the attempt that explains it are
\* complete on disk, and no worktree has switched to it meanwhile.
DeletedSafely == [][DeletedIsBackedUp /\ CheckoutKept]_branchVars
=============================================================================
