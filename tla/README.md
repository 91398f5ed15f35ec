# Formal models of the awf workflow tools

This directory holds TLA+ models of `src/cli/src/awf` (the `awf` command line:
the closed-loop workflow with its approvals and evidence, its worktrees and
their archives, its analyses and batches) and of `src/cmux-agent` (the message
broker between agent terminals and the runs it serves), the TLC configurations
that check them, and TLAPS proofs.

    tlc -workers 2 -config MCStoreSerial.cfg MCWorkflowStore.tla
    tlapm WorkflowStoreProofs.tla

## 1. The system

| Component | State it keeps | Operations | Talks to |
|---|---|---|---|
| Workflow document (`core/state.py`, `core/workflow_loop.py`) | `.workflow/state.json`: class, current phase, per-phase status and retries, gates G1–G6, counters, database-risk events; `state.json.lock` | initialize, reset, mark a phase in progress, apply a gate result, escape, decide, continue, replan, abort, promote to high risk | every `awf wf` process, through the file only |
| Approval (`core/approval.py`) | `artifacts/approval.json`, the seal in G3 | approve, revise, reject; seal validation before and during impl | the six planning artifacts, the document |
| Done (`core/done.py`) | `artifacts/confirmation.json` | complete, hold | the document |
| `awf wf` commands (`commands/wf.py`, `wf_apply.py`) | a snapshot of the document in memory | next, decide, apply-result, db-check, approve, confirm, reset | providers (agent CLIs), the document |
| Planning options (`core/planning_options.py`) | `planning-options.json`, a journal, the plan seal | seal-plan, select-option, the recovery of a dead selection | the document (byte-exact compare and swap) |
| Database validation (`core/db_validation.py`) | one evidence file with a record per stage | plan, verify and test checks, the gate | the document (promotion), project commands |
| LSP setup (`core/lsp_setup.py`) | nothing of its own; entries in shared configuration files, recovery backups | setup, materialize | files that users and other worktrees edit |
| Worktree service (`worktrees/service.py`, `registry.py`) | registry rows (leases, cleanup reservations, release bridges) in sqlite | acquire, import, adopt, link-pr, finish, gc, compact, status --refresh | git, GitHub, the repository lock |
| Release bridges (same) | a release row with pinned sources, one managed worktree, one branch | open, add, seal, publish | git, GitHub |
| Synchronization, promotion (same) | a lease that pins a source and a target, its worktree and branch | sync, promote (exact, out of order), recover-…, discard-… | git, GitHub |
| Archive, discard, repack (`worktrees/archive*.py`, `git_state.py`, `*_branch_discard.py`) | archives, checkpoint journals, bundles, attempts, receipts | archive-discard, discard-local-branch, discard-remote-branch, archive-repack, archive-restore | git, origin, the registry |
| Analysis (`commands/analyze.py`, `core/analysis_*.py`) | `.analysis-state.json`, the saved result, output files, `.tmp/hashes.json` | analyze: skip, resume, reuse, provider, stage 3, finalize, publish | providers |
| OMP native batch (`runners/omp.py`, `core/dispatch_provenance.py`, `commands/agents.py`) | the batch checkpoint, the dispatch record | run, resume, refuse, follow up | a coordinator process and its task tool |
| cmux-agent broker (`application/broker.py`, `watcher.py`, `infrastructure/filesystem.py`) | outbox, inbox, processed and failed directories; the messages table | scan, observe, route, retry, control messages | agents (files), sqlite, cmux surfaces |
| cmux-agent runs and locks (`pid_lock.py`, `recovery.py`, `runtime.py`, `cli/commands.py`) | the runs and agents tables, `watcher.pid` | start, stop, register, spawn, smoke, watch, recover | the broker, cmux |
| Gates and results; scope (`core/gates.py`, `review_output.py`, `wf_scope.py`) | none | gate evaluation, result parsing, allowed files of a diff | apply-result, git |
| Team runner, dispatch, judge (`core/team_runner.py`, `dispatch.py`, `judge.py`) | attempt budgets in memory | dispatch, fall back, vote | providers |
| Blackboard and event sync (`core/blackboard.py`, `event_processor.py`, `watch_loop.py`) | versioned entries, sync cursor | write, sync | agents |
| Readiness, skills, MCP; autoresearch and wiki; providers, chat, reporting | configuration and generated documents | | little shared state |

### What is hard

- *Processes.* Nothing here is a daemon except the cmux watcher. Every command
  is a process, and two of them (a parent session, a worker, a second terminal)
  may run at once. A load of the document takes no lock; a save takes it only
  around re-read, merge and replace. `awf wf next` keeps its first snapshot
  across a provider run that may last minutes. `lsp setup` has no lock at all.
- *Crashes.* A process may die between any two operations of a command: between
  the two files of a decision, between a registry row and the branch it speaks
  of, between a checkpoint of a worktree's HEAD and index and its removal.
- *The world moves.* Users commit, switch, stage and push while a command holds
  the repository lock; GitHub merges, closes and reopens pull requests; target
  branches drift under a pinned source; origin answers late or not at all.
- *Partial failure.* `os.replace` may succeed and the directory `fsync` after
  it fail; a leased push may be carried out and its answer lost; a provider may
  answer in part, a coordinator may print a stream that is cut anywhere.
- *Staleness.* Policy skips are computed in memory and saved later; planning
  artifacts change under an approval; evidence ages; a saved provider result
  belongs to sources that have changed since.
- *Sequences.* Results may be applied to any phase at any time; phases are
  reopened by replans, revisions and promotions; a lease is finished, retried,
  recovered and discarded by commands that each believe the row they read.
- *Watching directories.* The broker scans and then observes, reads files other
  processes are writing, and crashes between a delivery and its record.

### What makes each component correct

- *Document*: a database-risk escalation is never lost or half undone by a save
  with a stale snapshot; gates and phase statuses agree; limits hold when one
  process runs at a time.
- *Approval and Done*: G3 passes only with the approval artifact of that
  decision on disk, and Done completes only with the confirmation of that
  workflow, whatever dies.
- *Planning options*: a published selection is applied, or still announced by a
  journal; a replan begins without outputs of an earlier choice.
- *Database validation*: evidence names the inputs it was made from, stage
  records agree, and checks of different stages do not undo each other.
- *LSP setup*: what somebody wrote into a shared file is somewhere.
- *Worktrees*: a reservation speaks of the row as it is; no work is lost by a
  removal; a lease, its worktree and its bridge go together; branches go only
  at merged commits.
- *Bridges, sync, promotion*: only what passed verification leaves the machine,
  and it is built from exactly the pinned sources; a person's commit or conflict
  resolution is kept.
- *Archives*: what is gone has a finished archive or bundle; what a dead command
  leaves can be explained by what is on disk; one approval deletes once.
- *Analysis*: a completed analysis is one whole answer, of one generation.
- *OMP batch*: a batch is not handed to a second coordinator; success is on disk;
  the checkpoint can be read and its workers can be followed up.
- *Broker*: an artifact is settled once; its recipient gets it at most once
  unless a watcher ended half way; the messages table agrees with the inboxes.
- *Runs and locks*: one watcher per workspace; a run found RUNNING is complete.

## 2. The modules

| Module | Models |
|---|---|
| `WorkflowState` | The document and each function that computes a new document from an old one. No variables. |
| `WorkflowStore` | The files, the `awf` processes with their snapshots, the lock, the approval and Done transactions, crashes. Extends `WorkflowState`. |
| `PlanningOptions` | select-option, seal-plan, their journal, the document they are applied to. |
| `DatabaseEvidence` | db-check: readings, commands, lock, merge; the gate. |
| `LspSetup` | setup and materialize over files others edit. |
| `LeaseRegistry` | The rows of the worktree registry and every guarded write on them. No variables. |
| `WorktreeCleanup` | The life of one managed worktree. Extends `LeaseRegistry`. |
| `ReleaseBridge` | open, add, seal, publish. Extends `LeaseRegistry`. |
| `PinnedBranch` | What sync and promote share: pins, worktree, branch, pull request. |
| `SyncBranch`, `Promotion` | The commands over `PinnedBranch`. |
| `PinnedBranches` | One pinned branch under the commands of either, users and deaths. |
| `ArchiveDiscard`, `BranchDiscard`, `ArchiveRepack` | The three families of commands that back something up before they delete it. |
| `ArchiveRestore` | The restore of an archive beside its repack. Extends `ArchiveRepack`. |
| `AnalysisRun` | One domain's analysis across runs that die. |
| `OmpBatch` | The batch checkpoint, its runners, coordinators and follow-ups. |
| `WatcherLock` | The pid lock of `cmux-agent watch` and all that takes or removes it. |
| `Delivery` | What the broker promises of an artifact, without watchers, tables or files. |
| `MessageBroker` | The watcher and the broker behind the lock. Extends `WatcherLock`, instantiates `Delivery`. |
| `AgentRun` | start, stop, recover, register, spawn and smoke. |
| `MCWorkflowStore`, `MCMessageBroker`, `MCWorktrees`, `MCBranches` | Values and symmetry for TLC. |
| `MCArchives`, `MCArtifacts`, `MCDispatch`, `MCAgents` | Several components side by side in one run: each behaviour is of one of them and the state of the others stays. |
| `…Proofs` | Section 5. |

### WorkflowState: the document

`WorkflowDocument` is the record of `_initial_workflow_state` without what no
code path of the state machine reads (timestamps, telemetry, provider names,
history). A gate is one value per gated phase: `none` (`passed = null`), `pass`,
`fail`, and `auto`, the policy auto-pass. G3's `scope_hash` and its approval
reference are the `seal`. `events` are the audited database-risk promotions by
normalised reason.

Each function of the code is one operator with the code's name in camel case:
`MarkPhaseInProgress`, `GatePassed` and `GateFailed` (the branches of
`apply_gate_result`), `PromoteToHighRisk`, `ReplanWorkflow`, `RecordApproved`…
`MergeDatabaseRisk(s, current)` is `_merge_database_risk_facts`: what a save of
`s` really writes when `current` is on disk. `ApplyPolicySkips` is the in-memory
skip of review, approve and verify for a small change.

### WorkflowStore: processes and files

A process is the list of operations its command still has to perform (`ops`) and
the document it last loaded (`snap`). `Load` reads without a lock; `Save`
computes the outcome from the snapshot, waits for the lock, merges with the file
and replaces it; between them any other process may step. Commands build the
list: `WfNext` saves the snapshot it read first, then marks the phase, saves
again around the provider run, and `ProviderResult` chooses what the provider
came back with (nothing, an escape with its decision, a review or verify result
applied automatically). `WfApplyResult` and `WfDecide` are the other commands. A
gate failure is two saves (`FollowUp`), as in the code: the failed phase, then
the replan or the question to the operator.

`ApproveBegin … ApproveCommit/ApproveFail` and `ConfirmBegin … ConfirmFail` are
the two transactions that hold the lock while they write an artifact and then
the state; `ApproveWriteArtifact` and `ApproveCommit` check the planning
artifacts again, as the code does before each durable write. `ApproveFail` and
`ConfirmFail` have a second outcome when `FsyncMayFail`: the document was
replaced and the write reported as failed. `Crash` ends a process at any step;
the kernel drops its `flock`.

`WfDbCheck`, `WfReset`, `WfRevise`, `WfReject` and `WfHold` keep the lock from
read to write and are one step. The environment edits planning artifacts, and
the parent session records a passed G1 in `state.json` itself, as the phase-plan
skill tells it to.

`executions` is a history variable: how many phase executions were really
performed in this generation, against what `totalExecutions` says.

### PlanningOptions, DatabaseEvidence, LspSetup: published files

`PlanningOptions` follows a selection through the files: journal, artifact, the
outputs archived one by one, `state.json` told under its own lock, journal
cleared. A selection that dies leaves a journal that the next one finishes.
Contents are identities; `applied` is the history of the selections the document
has learnt of. A planner reads the options in one step and writes its outputs
in others, for the choice it read (`planner`), and other commands save old
documents (`snapshot`), both without the selection lock. `behind` is the history
of outputs a planner wrote for an earlier choice since the selection under way
listed what it archives.

`DatabaseEvidence` gives a check its two readings of the inputs, one before the
project's commands and one under the evidence lock, and keeps the schema, the
hours and the people who edit as actions of the environment. A record carries
the identity of the inputs it was made from; a plan check replaces the evidence,
the others add their stage.

In `LspSetup` a file is the set of its entries together with an inode, because
the code tells an edit from its own write by identity: `Exchange` swaps the
path with the temporary file and only then looks at what it displaced. Users
write through the path (`Edit`) or go on writing into the file they had open
when it was displaced (`EditDisplaced`). `Desired` is the merged text; of a
`worktree.toml` that mentions prepare without its header it is what
`_serialize_worktree_config` writes, that is, without what the parse does not
keep.

### LeaseRegistry and WorktreeCleanup: one managed worktree

Every registry write is one `BEGIN IMMEDIATE` transaction, so `LeaseRegistry`
has for each a guard on the rows and the rows it leaves; a call whose guard is
false raises. `WorktreeCleanup` puts processes around it: `job` says what a
command has read and where it is; the rows, the worktree (`tree`), the local
branch, origin's and the pull requests change in separate steps, with the checks
the code makes before each. The repository lock is `lock`; `status --refresh`
does not take it. Users commit, switch, push; GitHub merges, closes and reopens.

### ReleaseBridge, PinnedBranch, SyncBranch, Promotion: built branches

A commit is a number; `made` remembers what it was built from (base, sources or
source, patches, how), so that properties can speak of contents without having
any. A command holds the lock from its first read to its last write, so there is
one `job`; it may die at every step, and what the next command finds decides
which of the resume paths it takes. `PinnedBranch` has the steps that sync and
promotion share (begin, worktree, commit, verify, push, pull request, removal);
`SyncBranch` adds the conflict, its recovery and its discard; `Promotion` adds
exact and out-of-order application, manual resolutions and their discard.

Sources of a promotion are merged pull requests, so they do not move. A new
identity for a stale retry is another lease, that is another instance. Users
edit reviewed or conflicted paths; `tree` follows the newest lease's branch. What
a command does to undo a step (`RestoreIndex`, `RestoreHead`) may fail as well.
In a managed release worktree users commit and take commits back at any moment
(`UserCommit`, `UserUndo`), and what is pushed is HEAD.

### ArchiveDiscard, BranchDiscard, ArchiveRepack: back up, then delete

`ArchiveDiscard` has the whole sequence of a dirty worktree: archive, private
commit, HEAD and index replaced under git's own lock files, reservation, removal
of worktree and branch, closing of the lease; and the recovery, which decides
from the sealed journal what to restore. The last look at git's state
(`CheckAgain`), the reads that become the journal's original HEAD and index
(`SealJournal`) and the comparison with those reads under the locks
(`CompareUnderLocks`) are steps of their own; `errand` is the command, `row` and
`reserved` the lease, `worktree` with `shared` and `locks` what git has on disk.
`BranchDiscard`, whose command is `task`, is bundle, attempt,
compare-and-delete (on origin with an answer that may be late or lost) and
receipt. `ArchiveRepack` stages a derivative, moves the original aside, moves
the derivative in, deletes the original and writes the receipt; `ArchiveRestore`
adds the restore, which does not take the lock of the repack. `step` is where
the command is, `source` and `previous` what is at the two
paths, `state` what the journal says.

### AnalysisRun and OmpBatch: results of providers

`AnalysisRun` has one run at a time (the analysis lock) and its program counter:
hash, resume, then skip, stop, reuse or provider, the moves of output files one
by one, stage 3, finalize, publish. An answer is named by the run that asked for
it, so mixed outputs are visible. `owed` is the history of a required stage 3
that failed, and of what released it. Users edit sources and remove outputs.
`OmpBatch` has the checkpoint with one row per worker, the runner,
and the coordinators of all attempts, which outlive their runners; what they
print is chosen freely, which makes no assumption about the model behind them.

### WatcherLock: the pid file

`acquire` is two steps, `Check` (read the file, probe the pid in it) and `Take`
(write the own pid), because nothing ties them together. `release`, in the
`finally` of `cmd_watch`, reads the file (`Release`) and removes it (`Unlink`)
only if it is still the watcher's own. `Recover` and `Stop` remove it for
whoever owns it, alive or not. Starts overlap freely. `exposed` is the history of
the watchers the lock does not protect: those whose check was not over its write
when another one's came (`Race`), and those whose lock was removed while they
lived, by recover, by stop or by an exposed watcher on its way out. `Faults` says
what else the environment does: `"crash"`, watchers die anywhere; `"disk"`,
writes to an inbox and moves of an artifact fail.

### Delivery and MessageBroker: the outbox

An artifact's `place` is `partial` while its writer is still writing (`cmd_send`
writes in place), `outbox`, `processed` or `failed`. A watcher's `mode` is
`start`, `list` while `_process_existing` works through its listing (`todo`),
`observe` once the observer runs, and `deaf` when an exception has ended the
observer's thread and left the process, and its lock, alive. `handling` is the
artifact at hand and the next effect on it, so a watcher may end between any two
of them: `Pick` reads and validates (`_try_process`, `handle_artifact`),
`SaveMessage`, `Deliver` (the `MAX_RETRIES` attempts), `SaveOutcome` and `Move`
are `_route_message`; `Reject` is `move_to_failed`, `Spawn` a control message.
`rows` and `inbox` are kept per watcher because every handling makes a new
message id. `cut` is a history variable: artifacts whose handling ended between
the delivery and the move.

`Pick` makes one step of reading the file, the agents table and the surface:
agents are only added and surfaces only closed during a run, and a complete
artifact stays complete, so every outcome of the separate reads is one of the
single read at some moment in between.

`Delivery` has per artifact a `stage`, the number of `copies` delivered, and
whether it was `cut` short. `MessageBroker!D` instantiates it: both outbox
places are `open`, and the copies are those in the inbox. `MayLose` (an artifact
archived as processed with no copy delivered) is true exactly when inbox writes
may fail: the code then records the message as FAILED and archives it.

### AgentRun: the life of a run

The runs and agents tables, the workspace of each run and up to two starts that
overlap, each with its own program counter, next to one other command at a time.
No command locks the tables; deleting the directory takes them away, and who
still holds the database writes into the deleted file.

## 3. The runs

| Run | Checks | Instance |
|---|---|---|
| `MCStoreSerial` | `TypeOK`; `ExecutionsAccounted`, `FixLoopHardLimit`: the limits count what really ran; `DecisionsBacked`: no approval without its artifact | one process; next, decide, apply-result, approve, edits of two plan contents, crashes; 3 executions |
| `MCStoreRace` | `EscalationInv`, `GatesInv`, `EscalationSticks`: no interleaving undoes an escalation | two processes; confirm, apply-result, db-check, reset, crashes, failing directory syncs; a small change |
| `MCBroker` | `Singleton`, `RecordsAgree`, `DeliveryKept` of the broker; `RunningIsComplete` of the runs | three watchers whose starts overlap, crashes, recover and stop; or the broker with two watchers that neither race nor lose their lock, crashes, disk faults, three artifacts; or two runs whose starts overlap, beside one other command |
| `MCWorktrees` | `ReservationCurrent`, `RemovedTogether`, `NoWorkLost`, `BranchesKept` | a feature, imported, promotion or release worktree; two processes, one death, users and GitHub, failing git and gh |
| `MCWorktreesLive` | `ReservationResolved`: a reservation does not stay | a feature worktree, two processes, one death, fairness |
| `MCBranches` | `ReadyMeansVerified`, `ConflictKept`, `CommitsKept` of sync and promotion | one pinned branch with four source heads and two patches; moving targets, edits, one death |
| `MCArchives` | `GoneIsArchived`, `LeftoversExplained`, `UserStateKept` of archive-discard; `DeletedSafely`, `DeletionsAccounted` of branch discards; `BackupKept`, `RestoredWhole` of repacks and restores; `OnlyVerifiedLeaves`, `HeadHasSources` of bridges | one of the three commands that delete, retried over deaths and faults, with users moving; or one bridge with two sources, drifting production, one death |
| `MCArtifacts` | `SelectionReconciled`, `ReplanStartsClean` of options; `EvidenceSound`, `RecordsKept` of db-check; `NothingLost` of LSP setup | two processes of one of the three commands, with editing users |
| `MCDispatch` | `OneCoordinator`, `SuccessIsDurable`, `CheckpointReadable`, `HandlesKept` of the batch; `OneGeneration`, `FailedStage3Counts` of analyses | a batch of two workers with two attempts; or three runs of an analysis with two output files |
| `MCStage3Debt` | `FailedStage3Resolved` (violated) | two runs of an analysis |
| `MCTaskId` | `TaskSelectable` (violated) | the batch |
| `MCStaleResult` | `ReuseIsCurrent` (violated) | two runs of an analysis, two contents of its sources |

*Several components in one run.* `MCArchives`, `MCArtifacts`, `MCDispatch` and
`MCAgents` choose one component initially and let only that one
step, so the states explored are the union of the components', not their
product, and a property of one says nothing of the others.

*Bounds of the store.* The retry budgets are 1 per phase instead of the cards'
1–5 (`SmallRetryMax`), the execution limit 1–3 instead of 30 and the fix-loop
limit 1 instead of 5: what matters is that each is reached and passed within a
run, which happens with the small values; the operators only compare counters
with them. Two processes are enough for every race of a load with a save, since
one save overtakes at most one snapshot at a time; one generation change is
enough to have a process with a snapshot of the previous one. `ReplanCap` caps
the replan counter at the budget it is compared with. `MCStoreSerial` has one
process because its two counters are only right then: with two, both may load
`totalExecutions` before either saves it, and both pass the fix-loop check
before either starts verify. Setting `Cli = {c1, c2}` there makes TLC report it
within seconds; setting `FsyncMayFail = TRUE` makes it report `DecisionsBacked`.

*Bounds of the broker and runs.* Two watchers are a life before and a life after
a crash, which is when a second copy can be delivered; three artifacts (a
message, the request to spawn its recipient, one that is no JSON object) are
enough for one to raise while another waits behind it and a third is created
meanwhile. Watchers do not start again: a new start is a new pid. Three
watchers let the lock of one that lives go while a second and a third race; the
part of the run with the broker is restricted to steps that expose nobody
(`Careful`), which is the premise of `DeliveryKept` in section 5. Two runs with two tabs
are enough for a start to be overtaken at every one of its writes.

*Bounds of the worktrees.* Two commits, one that acquire creates and one the
user makes; `Division` says which commands each process runs per kind, so that
the one command that takes no lock (`status --refresh`) meets each that does;
`MaxVersion` bounds the rows a command starts on, `MaxEdits` what users and
GitHub change (3 for a release: closed, reopened, merged and healthy),
`MaxCrashes = 1` a death after which other commands find what is left.
`MCBranches` has for each way a source can meet a target (empty, same, change,
mismatch, conflict in the first target only, conflict in all) a source that does
(`MCDelta`, `MCConflict`); two moves let a target drift after the pin and again
during the recovery.

*Bounds of archives, artifacts, dispatch.* `MaxFaults = 2` and `MaxMoves = 2` let
a command die, a user move, and the command that recovers die again. Three
selections give a selection that died, one that finishes it and a changed one.
`MaxAge = 0` with `MaxTime = 1` lets evidence age past its limit. A second
attempt of a batch resumes what the first left; a third run of an analysis reuses
what the second, which died, had rewritten of the first.

*Deadlock* is not checked: a completed workflow with idle processes, an outbox
whose watchers have ended, a removed lease or a finished batch have nothing left
to do.

*Fairness* (`WorktreeCleanup!FairSpec`).
`WF(Advance(p))`: a command that has what it waits for goes on, its git and gh
calls having timeouts; `SF(TakeLock(p))`: a lock that is free again and again is
taken by who waits for it, since `flock` wakes its waiters at each release and
commands are started by people; `SF(StartFinish(p))`: finish, or gc, is repeated
as long as there is a reservation to resolve, which is what every command that
meets one tells its user to do.

## 4. What the code does not keep

Three runs end in the violation of a documented sentence:

- *No worker of a native batch can be selected by its task ID* (`MCTaskId`). A
  dispatch leaves two records that name the same IDs, and the lookup takes more
  than one match for ambiguous.
- *A scaffold releases a failed Stage 3* (`MCStage3Debt`). `cli/README.md:1241`
  names a later success and a skip by policy as the only ways out; a run that
  cannot repeat the validation (no project bundle, another provider) replaces
  the failure by a scaffold note and completes (`analyze.py:1291`).
- *A result of older sources is reused* (`MCStaleResult`). Changed files are only
  looked for once `hashes.json` exists, which the first completed analysis
  writes; a first analysis that died after saving its result is resumed from it
  although the sources changed, and the hashes of the new ones are published.

Others are stated in the modules as properties that no run lists; add the
property to the configuration of the component's run and TLC shows the
violation:

- `WorkflowStore!FailedApprovalRolledBack` (`approval.py:996`, against the
  docstring at 828; `FsyncMayFail = TRUE`): when the directory sync fails after
  `os.replace`, the artifact is removed and the approved state stays.
- `Promotion!ResolutionKept` (`service.py:12904`, against the out-of-order
  promotion design, line 130): a rebuild may put automatically applied content
  under a lease that says manually reviewed.
- `DatabaseEvidence!RefreshNeverRefused` (`db_validation.py:2322`, against the
  safety gate design, line 252): a plan refresh may be refused for the evidence
  it is to replace.
- `PlanningOptions!SealIsFresh` (`planning_options.py:1217`, against the planning
  options design, line 224): outputs of an earlier choice can be sealed.
- `ArchiveDiscard!NothingUnarchived` (`git_state.py:334`, against
  `resources/release-worktree-lifecycle/SKILL.md:552`): what is removable is what
  the checkpoint holds, which may be newer than the archive; what a user writes
  between the last look at git's state (351) and the reads of the journal (354)
  is in the journal alone, comes back if the removal fails and goes with it if it
  succeeds.

Also visible in the models, where no text of the repository promises otherwise
or the promise is about one process:

- *Store.* Two concurrent processes lose execution counts; a save loaded before a
  reset brings the old generation back; `apply-result` on another phase leaves
  the aborted state; a result is applied to any phase and Done looks only at G6
  and test, so a workflow may complete with earlier gates open; a revision after
  a replan to approve is refused with `approval_artifact_conflict`.
- *Options, evidence, LSP.* A second selection that dies between journal and
  artifact leaves the first one unappliable until the choice changes; a stale
  save of the document after the journal is cleared undoes the replan; evidence
  that ages while the commands run is written without another look at the clock;
  what is written into a displaced file after its text was compared is lost with
  it, and so are the comments and unknown lines of a `worktree.toml` that names
  prepare without its header (`lsp_setup.py:1473`). An output that a planner
  writes for an earlier choice after the listing (`wf.py:955`) stays active, and
  seal-plan seals it.
- *Broker and runs.* `start` handles what it listed, which may take minutes, and
  starts the observer only then (`watcher.py:99`), so a file created in between
  stays until the next start; a message read half written is archived as failed; one
  artifact that is no JSON object ends the observer's thread while the watcher
  keeps its lock; `update_run_status` has no guard, so a failed run may become
  COMPLETED, and a start's last save overwrites a recover or stop of that run; a
  start that dies between creating and recording its workspace orphans it, and
  leaves a CREATED run that hides an older RUNNING one until recover;
  check-then-insert can register a name twice.
- *Worktrees.* A crash of an import between its reservation and its removal
  leaves one that recovery always refuses; a release whose pull request is
  closed, reopened and merged cannot be completed; a crash between the closing of
  a lease and the deletion of its branches leaks them; a half-done `git worktree
  remove` ends as `unregistered_worktree`; a lease adopted without its pull
  request can never be linked.
- *Bridges and promotions.* A crash while a bridge is rebuilt, or while a source
  is added between reset and commit, wedges it; a published head that differs
  from the rebuilt one is `release_branch_changed` for ever; a crash of
  discard-sync, or between the creation of a lease and its first commit, wedges
  that lease, and so does a failing git between the patches of an out-of-order
  promotion. A restore of the index that fails after a failed recovery
  (`service.py:7336-7342`) leaves the conflict half staged, under a lease that
  recover-sync and discard-sync both refuse. A commit, or an edit, a user makes
  in a promotion's worktree after the head is read (`service.py:12825`) and
  before the rebuild's reset (12904, or 12936) is lost, with fetches in between,
  although `cli/README.md:474-483` and the content-mismatch retry design
  (2026-08-10) speak of an exact head and a clean worktree. A commit in a managed
  release worktree between the last comparison (`service.py:2513`) and the push
  of HEAD (`git.py:1345`) is on origin without being recorded, and production
  gates that ran while such a commit was there (9636) count for the head after
  the user took it back.
- *Archives.* A partial archive blocks its token for ever; a crash in the middle
  of a rollback leaves lock files that make a later recovery raise, and one while
  the journal's directory is removed leaves a bare journal that does the same; a
  worktree added between the last look and the commit is a residual race; edits
  of ignored files after the last inspection are lost under the clean policy.
- *Analyses and batches.* `retryCount` starts again on each resume while
  `hashes.json` is old; a reuse in deep mode completes without stage 3, also that of a result whose
  failed stage 3 was left pending by a retry that died and whose outputs were
  then removed (`analysis_resume.py:174`); without
  session persistence a second task call makes the runner write a checkpoint the
  lookup rejects; a runner that dies while the checkpoint is "prepared" fails
  closed for ever; one that dies between "completed" and the return of its
  results is run again; two runners of one batch have no lock between them.

## 5. The proofs

The theorems hold for every value of the constants that satisfies the named
assumptions of its module, which are the types of the constants and that a null
value differs from the values it stands beside; of the batch's, only that of its
handles has one (that there are workers).
Where a module is instantiated or extended with others, its assumption is an
operator (`RunAssumption`, `OmpAssumption`, `AnalysisAssumption`,
`ReleaseAssumption`, `OptionsAssumption`, `SetupAssumption`, `ArchiveAssumption`,
`DiscardAssumption`) and a premise of the theorem; the MC module assumes it, so TLC evaluates it.

| Module | Theorem | Statement |
|---|---|---|
| `WorkflowStoreProofs` | `TypeCorrect` | `Spec => []TypeOK` |
| | `EscalationNeverHalfUndone`, `GatesFollowPhases` | `Spec => []EscalationInv`, `[]GatesInv` |
| | `EscalationIsKept` | `Spec => EscalationSticks` |
| | `DecisionsAreBacked` | `~FsyncMayFail /\ Spec => []DecisionsBacked` |
| | `ExecutionsAreCounted` | `OneProcess /\ "reset" \notin Commands /\ Spec => []ExecutionsAccounted` |
| | `FixLoopIsBounded` | `OneProcess /\ "force" \notin Commands /\ Spec => []FixLoopHardLimit` |
| `MessageBrokerProofs` | `LockExcludes`, `OneWatcher` | `LockSpec => []Singleton`, `Spec => []Singleton` |
| | `BrokerTypeCorrect`, `DeliveryImplemented` | `Spec => []TypeOK`, `Spec /\ []Careful => DeliveryKept` |
| | `RecordsAlwaysAgree` | `Spec => []RecordsAgree` |
| | `RunningTeamsAreComplete` | `RunAssumption /\ RunSpec => []RunningIsComplete` |
| `WorktreeCleanupProofs` | `CleanupTypes`, `ReservationsStayCurrent`, `RemovalIsWhole` | `Spec => []TypeOK`, `[]ReservationCurrent`, `[]RemovedTogether` |
| | `FinishLosesNothing`, `BranchesGoMerged` | `Spec => NoWorkLost`, `BranchesKept` |
| `PinnedBranchProofs` | `PinnedTypes`, `ReadyIsVerified` | `BranchesSpec => []TypeOK`, `[]ReadyMeansVerified` |
| | `UserCommitsKept`, `ConflictsAreKept` | `BranchesSpec => CommitsKept`, `[]ConflictKept` |
| `ReleaseBridgeProofs` | `ReleaseTypes`, `HeadIsOfItsSources`, `NothingUnverifiedLeaves` | `ReleaseAssumption /\ Spec => []TypeOK`, `[]HeadHasSources`, `[]OnlyVerifiedLeaves` |
| `BackupProofs` | `LeftoversAreExplained`, `WhatIsGoneIsArchived`, `UserStateIsKept` | `ArchiveAssumption /\ DiscardSpec => []LeftoversExplained`, `GoneIsArchived`, `UserStateKept` |
| | `DiscardsHappenOnce`, `DiscardsAreBackedUp` | `DiscardAssumption /\ BranchSpec => []DeletionsAccounted`, `DeletedSafely` |
| | `WorktreeTypes`, `DiscardTypes` | `[]DiscardTypeOK` and `[]BranchTypeOK`, under the same premises |
| | `RepackKeepsBackup`, `RepackInterruptionExplained` | `RepackSpec => []BackupKept`, `[]InterruptionExplained` |
| | `RestoreIsWhole`, `RestoreKeepsBackup` | `RestoreSpec => []RestoredWhole`, `[]BackupKept` |
| `ArtifactsProofs` | `EvidenceTypeCorrect`, `EvidenceIsSound`, `RecordsAreKept` | `Spec => []TypeOK`, `[]EvidenceSound`, `RecordsKept` |
| | `SelectionsAreReconciled`, `ReplansStartClean` | `OptionsAssumption /\ OptionsSpec => []SelectionReconciled`, `ReplanStartsClean` |
| | `SetupLosesNothing` | `SetupAssumption /\ SetupSpec => []NothingLost` |
| `DispatchProofs` | `CompletedIsOneGeneration`, `FailedStage3IsMet` | `AnalysisAssumption /\ AnalysisSpec => []OneGeneration`, `[]FailedStage3Counts` |
| | `BatchHasOneCoordinator`, `BatchSuccessIsDurable`, `BatchCheckpointReadable` | `Spec => []OneCoordinator`, `[]SuccessIsDurable`, `[]CheckpointReadable` |
| | `BatchHandlesKept` | `OmpAssumption /\ Spec => HandlesKept` |

The premises on the environment are necessary. Without `~FsyncMayFail` TLC
finds what section 3 says. Without `[]Careful`, two watchers that raced handle
one artifact twice, which `Delivery` does not allow. With two processes
both counters of a workflow are wrong, as section 3 says too; `reset` begins a
new count while the process still holds the old one, and `--force` is the
documented way past the fix-loop limit. `WorkflowStoreProofs` begins with the
lemmas on the operators of the document.

*The store.* `EscalationConsistent` alone is not inductive: a promotion restores
only skipped phases among review, approve and verify, so another skipped phase
would survive it. The invariant is therefore `Sound(s)` of every copy of the
document: well typed, `EscalationConsistent`, `OnlyPolicySkips` and
`GatesAgree`. `StoreInv` says that of the file and of every loaded snapshot, and
that the queued operations and the transaction are well typed. The lemmas
on the document show that each operator maps sound documents to sound
documents, and `MergeDatabaseRisk` two sound ones to a sound one; each step of
`WorkflowStore` then needs only the lemma of its operator. For decisions,
`DecisionInv` adds what a transaction knows while it runs (`TxnFacts`: a written
artifact is on disk and is this decision's, the approval is still pending
because the lock is held) and that no stale copy has passed G3 or Done without
its artifact.

*The broker.* `Singleton` becomes inductive with what the lock file says of an
owner that is not exposed, that the file is its own, and with what happens beside
a watcher between check and write: an owner, or a second one like it, is exposed
(`LockInv`).
`BrokerInv` builds on it: only a running watcher handles an artifact, so at most
one does, and that artifact is still in the outbox (`HandledIsOpen`); every copy
in an inbox belongs to a settled artifact, to one that was cut short, or to the
one its watcher is about to move (`CopiesAccounted`). `Alone` draws the
conclusion the refinement needs: who is about to deliver or to reject an
artifact finds no copy of it, or a cut one. Every broker step is then a step of
`Delivery` or leaves it alone, by one lemma per kind of step.

*Repack.* `BackupKept` and `InterruptionExplained` hold at each step because of
what the command has checked before it, which `StepFacts` says step by step;
outside a command, a completed journal means a derivative at the archive's path,
and a derivative under an unfinished journal means the original beside it.

*Evidence.* `EvidenceInv` says of the file, and of the payload every check holds
between the lock and its write, that it is `Trusted`: well formed, naming its
inputs, and with its signal escalated. A check that loses the lock race reads the
file again, so `EvidenceSound` does not need the lock at all; `RecordsKept` does,
through `LockedKeepsRecords`: what the holder will write still has every record
of the file.

*Batch.* `BatchInv`: no two coordinators or calls make the same task
(`Numbered`), a row tells the truth about the task it names (`RowsTrue`), a
runner that has a coordinator wrote "prepared" for it (`RunnerPrepared`), and
that coordinator is the one launched since the last completed checkpoint
(`LaunchedOnce`). `HandlesKept` also needs that whoever finds a resumable record
resumes it (`ResumableIsResumed`) and that the resumed coordinator works in the
session on record (`SessionResumed`), so that what it reports is of that session.

*Counters.* A process that loads a document and saves it later keeps the counter
right only if nobody counted in between, so `CountInv` says that a loaded
snapshot has the file's total, and that a command about to save an execution
read one below the limit. `LoopInv` says what the operations a command has left
may be: at most one of them starts a phase, everything else is quiet about
`verify`, and a start of `verify` without `--force` follows a snapshot that has
room for it. Replans and database checks of the same process run between its
commands, where it holds no snapshot.

*Messages.* `RecordsAgree` needs neither the lock nor a single watcher, because a
row and a copy belong to the watcher that made them. What it needs is that a
watcher takes an artifact up at most once: `NotYetRouted` says that all it may
still take up (an artifact not yet sent, everything before it lists the outbox,
then what it has listed) is untouched by it, `RowOfStep` how far row and copy are
at each step of the routing.

*Runs.* A start registers its tabs in order, so `Partial(r)`: a run that was
recorded names its workspace and has the agents of the tabs so far, as long as
its row exists. `Publish` is reached with all tabs, and no other command writes
RUNNING.

*Worktrees.* `CleanupInv` has one conjunct per thing that a command has read and
still relies on (`ProcInv`): the row it copied is current while it holds the
lock, the reservation it made is still there, the pull request it saw was
merged, the commit it is going to remove is the reserved one, a row it is to
complete has no worktree left. `RowStep` is the rely of the other processes: a
row moves on only under the lock, or, by `status --refresh`, as one without a
reservation. `NoWorkLost` and `BranchesKept` follow step by step, because a
removal of a directory or of a branch comes only where `Removable` or
`MergedTip` holds.

*Bridges.* Production only moves forward, so a publication that finds it where
the seal was made finds the sealed head on record (`SealHolds`); a rebuild that
died in between has changed the head only after the drift was recorded.
`CommitOfJob` says what the commit at hand was made of, and `LeftIsSealed` that
whatever is on origin or in a pull request was sealed and verified with the
sources of the release, or is a user's commit on top of that (`Under`). `HeadHasSources` holds because head and sources are
written by one transaction.

*Pinned branches.* None of the properties is inductive, because a command checks
the branch in one step and relies on it many steps later, while the user may
commit in between. `JobInv` says for each step of a command in which state its
lease is (`LeaseAt`) and what it knows of the tip and of the commit it made
(`TipAt`): a fact about the tip is always "or a commit of the user's".
`MadeInv`, `RowInv` and `OriginInv` say what automatic commits carry, what a row
promises by itself, and that only verified commits and the user's own reach
origin. A promotion's branch is on its lease's target or, where a rebuild on a
later target died before it was recorded, on one no later than the next command
will read (`Placed`, `Rebuilt`); that case exists because the branch is reset
before the row is written. `ConflictInv` adds, for a sync that no death has cut
short, where the unmerged files are at each step: staged and marked while
recover-sync is between its checks, untouched while discard-sync holds the
branch, elsewhere in the worktree as the conflict left them or resolved by a
commit; a restore that fails leaves it staged. `CommitsKept` follows from what the commands know of the tip
when they delete, create or amend a branch.

*Restore.* Between the tar and the rename the staged files are those of the
manifest that was read (`RestoreInv`), whatever a repack does to the archive
meanwhile; a repack's own invariant carries over, since a restore changes none of
its variables.

*Discard of a worktree.* `DiscardInv` has two halves. `RowFacts` is about the
registry: where the command relies on its reservation (`Holding`), the row is
reserved for the very commit and version of its token and that token's archive is
whole, and while the ref transaction is open the branch has not moved; with it
nothing goes without an archive. `CheckpointFacts` is about the worktree: either
the journal is sealed, or the worktree is gone, or neither HEAD, index nor locks
are the checkpoint's. That is inductive only with what the command knows at each
step: which of git's locks it holds, that HEAD and index are what it compared
under them, and that an index recorded in a journal is a user's. `UserStateKept`
then needs no more than to see which step writes what. The reads of the journal
come after the last comparison, so nothing is claimed of a HEAD or an index that
a user writes between the two but that the journal has it.

*Discard of a branch.* What makes a retry safe is on disk, so `Accounted` says it
of every intent: an attempt is written into a whole backup, a deletion that may be
under way or was made has its attempt, no second one is sent while the first may
still be carried out, a receipt follows an attempt. `Knows` says how that looks to
the command at each step, and on which commit the locked ref is.

*Analysis.* `AnalysisInv`: the outputs that are neither missing nor removed are of
the answer being finalized (`OutputsOfAnswer`) or, once completed, of the saved
one (`CompletedIsSaved`), a run that may still fail or move outputs
has reopened the document (`NotCompleted`), and who owes a stage 3 has all
outputs and finds it failed wherever a run goes round it (`OwedIsMet`).

*Options.* `Announced` says what the holder of the lock has done by the step it
is at: the journal announces the selection before the artifact is written
(`JournalAnnounces`), names it afterwards, and is cleared only once state.json
has it. A command that dies leaves one of these, and the next one begins with
whichever it finds. Outputs are stale before state.json learns of a selection,
since `CheckJournal` and `Apply` come after the loop over all of them, except
those a planner of an earlier choice has written since (`behind`).

*LSP setup.* `NothingLost` counts a displaced text until its command has decided
about it. The invariant counts less: once the texts were compared, the displaced
one is on its way out, so every entry is at its path, in a text nobody has
compared yet, or in a backup (`Covered`); and a comparison can only succeed on a
text whose entries the published one contains, but for those a re-serialised
`worktree.toml` leaves out (`Unparsed`). `late` are the entries written into a
displaced file after the comparison.

Only model-checked: liveness (`ReservationResolved`), which is
beyond this prover.

## 6. Not modelled, and the plan

Simplifications of what is modelled.

- *Store*: gate results are inputs, and the readiness gate, which ends a command
  before its first save, is a command that was not issued.
- *Broker and runs*: a pid is not reused, the write of the pid file is one step,
  and the observer's daemon thread stops when its watcher releases the lock (in
  the code it may live on until the interpreter exits); the broker's model ends
  with the run, since `stop` deletes the directory; database errors, the event
  log, injections and the result handed to `awf wf apply-result` are left out.
- *Options*: the API `select_planning_option` and the policy of workflows older
  than options. *Evidence*: the shapes of the commands' answers. *LSP*: the
  isolation of OMP's configuration and the probing of servers.
- *Worktrees*: previews, list and repair commands, and inputs of prepare that
  change while it runs and change back. *Promotion*: unpinned trailers of older
  releases, exclusions, `promote --source-branch`.
- *Archives*: archives once whole are not damaged; recovery of a discard's
  reservation by finish or gc is not composed with it; the bytes of an archive.
- *Analysis*: fan-out and merge, the stage-1 cache, the report, drift checks,
  `--all` and validation by several agents. *Batch*: the current-host mode, the
  printing of dispatches; a false envelope claim is an absent one, and follow-ups
  assume a coordinator that does as it is told.

Next:

1. The blackboard with its event cursor, and the team runner's attempt budgets.
2. Gates and judge as pure operators against a reference definition.

Left out for good: providers, chat, reporting, readiness probes, MCP
configuration, scope, wiki and autoresearch generation (single writers, pure
functions or pure I/O), and the layout of every artifact.
