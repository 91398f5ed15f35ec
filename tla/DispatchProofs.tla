---------------------------- MODULE DispatchProofs ----------------------------
(***************************************************************************)
(* What the two commands that hand work to providers keep on disk.         *)
(*                                                                         *)
(* A native OMP batch: for any set of workers and any number of attempts,  *)
(* task calls and follow-ups (BatchInv); the handles of a resumable one    *)
(* need that its next runner resumes it, in the session on record          *)
(* (HandlesInv).                                                           *)
(*                                                                         *)
(* An analysis: what a completed one may be relied on for, whatever runs   *)
(* died half-way, answered in part or were resumed, for any files,         *)
(* sources, configurations and number of runs.  A run that may still       *)
(* change the outputs has taken "completed" off the state file before its  *)
(* first move (NotCompleted); when it reaches finalize every required file *)
(* that its answer has holds that answer (OutputsOfAnswer); and an         *)
(* analysis that owes a Stage 3 has all its outputs, so that nothing is    *)
(* left to reuse, and meets Stage 3 again on its only way to finalize      *)
(* (OwedIsMet).                                                            *)
(***************************************************************************)
EXTENDS OmpBatch, AnalysisRun, TLAPS

-----------------------------------------------------------------------------
(* The batch. *)

Task == Workers \X Nat \X Nat \X Nat
Row == [task : Task \cup {NoTask}, status : {"none", "running"} \cup Terminal]
Host == [attempt : Nat, calls : Nat, fresh : BOOLEAN, session : Nat]
Checkpoint ==
    [state : {"absent", "prepared", "resuming", "completed", "interrupted", "ambiguous"},
     attempt : Nat, session : Nat, resumable : BOOLEAN, steering : BOOLEAN,
     rows : [Workers -> Row]]
Runner ==
    [pc : {"idle", "prepared", "hosting", "settled"}, resumes : BOOLEAN,
     results : [Workers -> {"success", "failed"}], rows : [Workers -> Row]]

Typed ==
    /\ checkpoint \in Checkpoint
    /\ runner \in Runner
    /\ hosts \subseteq Host
    /\ DOMAIN tasks \subseteq Task
    /\ tasks = [t \in DOMAIN tasks |-> tasks[t]]
    /\ launched \in Nat

\* No two coordinators, and no two calls of one, make the same task.
Numbered ==
    /\ \A g, h \in hosts : g.attempt = h.attempt => g = h
    /\ \A h \in hosts : h.attempt <= checkpoint.attempt
    /\ \A t \in DOMAIN tasks : t[3] <= checkpoint.attempt
    /\ \A h \in hosts : \A t \in DOMAIN tasks : t[3] = h.attempt => t[4] <= h.calls
    /\ runner.pc = "prepared" =>
         /\ \A h \in hosts : h.attempt < checkpoint.attempt
         /\ \A t \in DOMAIN tasks : t[3] < checkpoint.attempt

\* What rows say of a worker's task is true of it, and of no other worker's.
RowsTrue(rows) ==
    \A w \in Workers :
      /\ rows[w].task # NoTask => rows[w].task \in DOMAIN tasks /\ rows[w].task[1] = w
      /\ rows[w].status \in Terminal =>
           rows[w].task # NoTask /\ tasks[rows[w].task] = rows[w].status

\* The checkpoint the runner at work wrote before it launched anything.
RunnerPrepared ==
    runner.pc \in {"prepared", "hosting"} =>
      /\ checkpoint.state = IF runner.resumes THEN "resuming" ELSE "prepared"
      /\ runner.resumes => persist

\* A fresh coordinator is launched for a batch that has none.
LaunchedOnce ==
    persist =>
      /\ launched <= 1
      /\ launched = 1 => checkpoint.state \notin {"absent", "completed"}
      /\ runner.pc = "prepared" /\ ~runner.resumes => launched = 0

Readable == persist /\ checkpoint.state # "absent" => NativeRecord(checkpoint)

SuccessRecorded ==
    runner.pc = "settled" =>
      \A w \in Workers : runner.results[w] = "success" =>
          checkpoint.rows[w].status = "completed"

BatchInv ==
    /\ Typed /\ Numbered /\ RowsTrue(checkpoint.rows)
    /\ RunnerPrepared /\ LaunchedOnce /\ Readable /\ SuccessRecorded

\* A task is no empty handle.
LEMMA TasksAreHandles == \A t \in Task : t # NoTask
  BY DEF Task, NoTask

\* True rows never name one task for two workers.
LEMMA TrueRowsDistinct ==
  ASSUME NEW rows, RowsTrue(rows)
  PROVE  DistinctTasks(rows)
  BY DEF RowsTrue, DistinctTasks

\* What a fresh record and an idle runner are.
LEMMA FreshTyped ==
  /\ NoRows \in [Workers -> Row] /\ NoCheckpoint \in Checkpoint /\ Idle \in Runner
  /\ NoCheckpoint.state = "absent" /\ NoCheckpoint.rows = NoRows /\ NoCheckpoint.session = 0
  /\ ~NoCheckpoint.resumable /\ ~NoCheckpoint.steering
  /\ Idle.pc = "idle" /\ Idle.results = AllFailed
<1>1. NoRows \in [Workers -> Row]
  BY DEF NoRows, Unseen, Row
<1>2. QED BY <1>1 DEF NoCheckpoint, Checkpoint, Idle, Runner, AllFailed

\* The invariant holds all that the properties say.
LEMMA BatchInvEnough ==
  BatchInv => OneCoordinator /\ SuccessIsDurable /\ CheckpointReadable
<1> SUFFICES ASSUME BatchInv PROVE OneCoordinator /\ SuccessIsDurable /\ CheckpointReadable
  OBVIOUS
<1>1. OneCoordinator
  BY DEF BatchInv, LaunchedOnce, OneCoordinator
<1>2. SuccessIsDurable
  BY DEF BatchInv, SuccessRecorded, RowsTrue, SuccessIsDurable, Terminal
<1>3. CheckpointReadable
  BY DEF BatchInv, Readable, CheckpointReadable, NativeRecord, HandlesComplete, Actionable
<1>4. QED BY <1>1, <1>2, <1>3

\* Nothing is launched and nothing written at first.
LEMMA BatchInvInit == Init => BatchInv
<1> SUFFICES ASSUME Init PROVE BatchInv
  OBVIOUS
<1>1. /\ NoCheckpoint \in Checkpoint /\ Idle \in Runner
      /\ NoCheckpoint.state = "absent" /\ Idle.pc = "idle"
  BY FreshTyped
<1>2. DOMAIN tasks = {} /\ tasks = [t \in DOMAIN tasks |-> tasks[t]]
  BY DEF Init
<1>3. RowsTrue(checkpoint.rows)
  BY DEF Init, RowsTrue, NoCheckpoint, NoRows, Unseen, Terminal
<1>4. Typed /\ Numbered
  BY <1>1, <1>2 DEF Init, Typed, Numbered
<1>5. RunnerPrepared /\ LaunchedOnce /\ Readable /\ SuccessRecorded
  BY <1>1 DEF Init, RunnerPrepared, LaunchedOnce, Readable, SuccessRecorded
<1>6. QED BY <1>3, <1>4, <1>5 DEF BatchInv

-----------------------------------------------------------------------------
(* The coordinators.                                                       *)

\* Tasks are only ever added, and one that ended stays as it ended.
TasksKept ==
    \A t \in DOMAIN tasks :
      /\ t \in DOMAIN tasks'
      /\ tasks[t] \in Terminal => tasks'[t] = tasks[t]

LEMMA KeptTasksKeepRows ==
  ASSUME NEW rows, RowsTrue(rows), TasksKept
  PROVE  \A w \in Workers :
           /\ rows[w].task # NoTask => rows[w].task \in DOMAIN tasks' /\ rows[w].task[1] = w
           /\ rows[w].status \in Terminal =>
                rows[w].task # NoTask /\ tasks'[rows[w].task] = rows[w].status
  BY DEF RowsTrue, TasksKept

\* What a coordinator does reaches the checkpoint only through its runner.
LEMMA TasksStep ==
  ASSUME BatchInv, TasksKept, Typed', Numbered',
         UNCHANGED <<persist, checkpoint, runner, launched>>
  PROVE  BatchInv'
<1>1. RowsTrue(checkpoint.rows)'
  <2>1. PICK rows : rows = checkpoint.rows
    OBVIOUS
  <2>2. RowsTrue(rows)
    BY <2>1 DEF BatchInv
  <2>3. checkpoint'.rows = rows
    BY <2>1
  <2>4. QED BY <2>2, <2>3, KeptTasksKeepRows DEF RowsTrue
<1>2. RunnerPrepared' /\ LaunchedOnce' /\ SuccessRecorded'
  BY DEF BatchInv, RunnerPrepared, LaunchedOnce, SuccessRecorded
<1>3. Readable'
  BY DEF BatchInv, Readable, NativeRecord
<1>4. QED BY <1>1, <1>2, <1>3 DEF BatchInv

LEMMA CallTaskKeepsInv ==
  ASSUME BatchInv, NEW h \in hosts, CallTask(h)
  PROVE  BatchInv'
<1> USE DEF BatchInv, Typed
<1> DEFINE made == {<<w, h.session, h.attempt, h.calls + 1>> : w \in Workers}
           g == [h EXCEPT !.calls = @ + 1]
<1>1. /\ g \in Host /\ g.attempt = h.attempt /\ g.calls = h.calls + 1
      /\ h \in Host /\ h.calls \in Nat /\ h.attempt \in Nat
  BY DEF Host
<1>2. made \subseteq Task /\ \A t \in made : t[3] = h.attempt /\ t[4] = h.calls + 1
  BY <1>1 DEF Task, Host
<1>3. /\ hosts' = (hosts \ {h}) \cup {g}
      /\ tasks' = [t \in made \cup DOMAIN tasks |->
                     IF t \in made THEN "running" ELSE tasks[t]]
      /\ UNCHANGED <<persist, checkpoint, runner, launched>>
  BY DEF CallTask
<1>4. made \cap DOMAIN tasks = {}
  BY <1>1, <1>2 DEF Numbered, Task
<1> HIDE DEF made, g
<1>5. /\ DOMAIN tasks' = made \cup DOMAIN tasks
      /\ tasks' = [t \in DOMAIN tasks' |-> tasks'[t]]
      /\ \A t \in DOMAIN tasks : tasks'[t] = tasks[t]
  BY <1>3, <1>4
<1>6. TasksKept
  BY <1>5 DEF TasksKept
<1>7. Typed'
  BY <1>1, <1>2, <1>3, <1>5
<1>8. Numbered'
  <2>1. \A e \in hosts' : (e = g) \/ (e \in hosts /\ e # h /\ e.attempt # h.attempt)
    BY <1>3 DEF Numbered
  <2>2. \A f, e \in hosts' : f.attempt = e.attempt => f = e
    BY <1>1, <2>1 DEF Numbered
  <2>3. \A e \in hosts' : e.attempt <= checkpoint'.attempt
    BY <1>1, <1>3, <2>1 DEF Numbered
  <2>4. \A t \in DOMAIN tasks' : t[3] <= checkpoint'.attempt
    BY <1>2, <1>3, <1>5 DEF Numbered
  <2>5. ASSUME NEW e \in hosts', NEW t \in DOMAIN tasks', t[3] = e.attempt
        PROVE  t[4] <= e.calls
    <3>1. CASE t \in made
      BY <1>1, <1>2, <2>1, <2>5, <3>1
    <3>2. CASE t \in DOMAIN tasks /\ e = g
      <4>1. t[4] <= h.calls /\ t[4] \in Nat
        BY <1>1, <2>5, <3>2 DEF Numbered, Task
      <4>2. QED BY <1>1, <3>2, <4>1
    <3>3. CASE t \in DOMAIN tasks /\ e # g
      BY <2>1, <2>5, <3>3 DEF Numbered
    <3>4. QED BY <1>5, <3>1, <3>2, <3>3
  <2>6. runner'.pc = "prepared" =>
          /\ \A e \in hosts' : e.attempt < checkpoint'.attempt
          /\ \A t \in DOMAIN tasks' : t[3] < checkpoint'.attempt
    BY <1>1, <1>2, <1>3, <1>5, <2>1 DEF Numbered
  <2>7. QED BY <2>2, <2>3, <2>4, <2>5, <2>6 DEF Numbered
<1>9. QED BY <1>3, <1>6, <1>7, <1>8, TasksStep

LEMMA CoordinatorKeepsInv ==
  ASSUME BatchInv,
         \/ \E h \in hosts : OrphanEnds(h)
         \/ \E t \in DOMAIN tasks : TaskEnds(t)
  PROVE  BatchInv'
<1>1. ASSUME NEW h \in hosts, OrphanEnds(h)
      PROVE  BatchInv'
  <2>1. hosts' \subseteq hosts /\ UNCHANGED <<persist, checkpoint, tasks, runner, launched>>
    BY <1>1 DEF OrphanEnds
  <2>2. TasksKept
    BY <2>1 DEF TasksKept
  <2>3. Typed'
    BY <2>1 DEF BatchInv, Typed
  <2>4. Numbered'
    BY <2>1 DEF BatchInv, Numbered
  <2>5. QED BY <2>1, <2>2, <2>3, <2>4, TasksStep
<1>2. ASSUME NEW t \in DOMAIN tasks, TaskEnds(t)
      PROVE  BatchInv'
  <2>1. PICK status \in Terminal : tasks' = [tasks EXCEPT ![t] = status]
    BY <1>2 DEF TaskEnds
  <2>2. /\ tasks[t] = "running"
        /\ UNCHANGED <<persist, checkpoint, hosts, runner, launched>>
    BY <1>2 DEF TaskEnds
  <2>3. DOMAIN tasks' = DOMAIN tasks /\ tasks' = [u \in DOMAIN tasks' |-> tasks'[u]]
    BY <2>1
  <2>4. TasksKept
    BY <2>1, <2>2, <2>3 DEF TasksKept, Terminal, BatchInv, Typed
  <2>5. Typed'
    BY <2>2, <2>3 DEF BatchInv, Typed
  <2>6. Numbered'
    BY <2>2, <2>3 DEF BatchInv, Numbered
  <2>7. QED BY <2>2, <2>4, <2>5, <2>6, TasksStep
<1>3. QED BY <1>1, <1>2

-----------------------------------------------------------------------------
(* The runner.                                                             *)

\* The runner ends, or starts, and writes nothing.
LEMMA IdleKeepsInv ==
  ASSUME BatchInv, Report \/ RunnerDies \/ DispatchRefused
  PROVE  BatchInv'
<1>1. /\ UNCHANGED <<persist, checkpoint, tasks, hosts, launched>>
      /\ runner' \in Runner
      /\ runner'.pc = "idle" \/ (runner'.pc = "settled" /\ runner'.results = AllFailed)
  BY FreshTyped DEF Report, RunnerDies, DispatchRefused, Runner
<1>2. Typed' /\ RowsTrue(checkpoint.rows)'
  BY <1>1 DEF BatchInv, Typed, RowsTrue
<1>3. Numbered'
  BY <1>1 DEF BatchInv, Numbered
<1>4. RunnerPrepared' /\ LaunchedOnce' /\ SuccessRecorded'
  BY <1>1 DEF BatchInv, RunnerPrepared, LaunchedOnce, SuccessRecorded, AllFailed
<1>5. Readable'
  BY <1>1 DEF BatchInv, Readable, NativeRecord
<1>6. QED BY <1>2, <1>3, <1>4, <1>5 DEF BatchInv

\* The checkpoint that a runner writes before it launches a coordinator.
LEMMA DispatchKeepsInv ==
  ASSUME BatchInv, Dispatch
  PROVE  BatchInv'
<1> USE DEF BatchInv
<1>1. /\ checkpoint \in Checkpoint /\ checkpoint.attempt \in Nat
      /\ UNCHANGED <<persist, tasks, hosts, launched>>
  BY DEF Typed, Checkpoint, Dispatch
<1>2. /\ runner' \in Runner /\ runner'.pc = "prepared"
      /\ runner'.resumes = MustResume(checkpoint)
  BY FreshTyped DEF Dispatch, Runner, MustResume
<1>3. CASE MustResume(checkpoint)
  <2>1. RecoveryIdentity(checkpoint) /\ persist /\ checkpoint.state \notin {"absent", "completed"}
    BY <1>3 DEF Dispatch, MustResume
  <2>2. /\ checkpoint' \in Checkpoint
        /\ checkpoint'.state = "resuming" /\ checkpoint'.attempt = checkpoint.attempt + 1
        /\ checkpoint'.session = checkpoint.session /\ checkpoint'.rows = checkpoint.rows
        /\ checkpoint'.resumable = checkpoint.resumable /\ ~checkpoint'.steering
    <3>1. PICK n \in Nat : n = checkpoint.attempt + 1
      BY <1>1
    <3>2. checkpoint' = [checkpoint EXCEPT !.state = "resuming", !.attempt = n,
                                           !.steering = FALSE]
      BY <1>1, <1>3, <3>1 DEF Dispatch, Prepared, Checkpoint
    <3>3. QED BY <1>1, <3>1, <3>2 DEF Checkpoint
  <2>3. Typed' /\ RowsTrue(checkpoint.rows)'
    BY <1>1, <1>2, <2>2 DEF Typed, RowsTrue
  <2>4. Numbered'
    BY <1>1, <1>2, <2>2 DEF Numbered, Typed, Host, Task
  <2>5. NativeRecord(checkpoint)'
    BY <1>1, <2>1, <2>2 DEF RecoveryIdentity, NativeRecord, HandlesComplete, DistinctTasks
  <2>6. RunnerPrepared' /\ LaunchedOnce' /\ SuccessRecorded' /\ Readable'
    BY <1>1, <1>2, <1>3, <2>1, <2>2, <2>5
       DEF RunnerPrepared, LaunchedOnce, SuccessRecorded, Readable
  <2>7. QED BY <2>3, <2>4, <2>6
<1>4. CASE ~MustResume(checkpoint)
  <2>1. /\ checkpoint' \in Checkpoint
        /\ checkpoint'.state = "prepared" /\ checkpoint'.attempt = checkpoint.attempt + 1
        /\ checkpoint'.session = 0 /\ checkpoint'.rows = NoRows
        /\ ~checkpoint'.resumable /\ ~checkpoint'.steering
    <3>1. PICK n \in Nat : n = checkpoint.attempt + 1
      BY <1>1
    <3>2. checkpoint' = [NoCheckpoint EXCEPT !.state = "prepared", !.attempt = n]
      BY <1>4, <3>1 DEF Dispatch, Prepared
    <3>3. QED BY <1>1, <3>1, <3>2, FreshTyped DEF Checkpoint
  <2>2. Typed'
    BY <1>1, <1>2, <2>1 DEF Typed
  <2>3. RowsTrue(checkpoint.rows)'
    BY <2>1 DEF RowsTrue, NoRows, Unseen, Terminal
  <2>4. Numbered'
    BY <1>1, <1>2, <2>1 DEF Numbered, Typed, Host, Task
  <2>5. NativeRecord(checkpoint)'
    BY <1>1, <2>1 DEF NativeRecord, DistinctTasks, NoRows, Unseen
  <2>6. persist => launched = 0
    BY <1>4 DEF MustResume, LaunchedOnce, Typed
  <2>7. RunnerPrepared' /\ LaunchedOnce' /\ SuccessRecorded' /\ Readable'
    BY <1>1, <1>2, <1>4, <2>1, <2>5, <2>6
       DEF RunnerPrepared, LaunchedOnce, SuccessRecorded, Readable
  <2>8. QED BY <2>2, <2>3, <2>4, <2>7
<1>5. QED BY <1>3, <1>4

\* The only coordinator of this attempt.
LEMMA LaunchKeepsInv ==
  ASSUME BatchInv, Launch
  PROVE  BatchInv'
<1> USE DEF BatchInv
<1>1. PICK g : /\ g = [attempt |-> checkpoint.attempt, calls |-> 0, fresh |-> ~runner.resumes,
                       session |-> IF runner.resumes THEN checkpoint.session
                                   ELSE checkpoint.attempt]
               /\ hosts' = hosts \cup {g}
  BY DEF Launch
<1>2. /\ UNCHANGED <<persist, checkpoint, tasks>> /\ runner.pc = "prepared"
      /\ launched' = IF runner.resumes THEN launched ELSE launched + 1
      /\ runner' = [runner EXCEPT !.pc = "hosting"]
  BY DEF Launch
<1>3. g \in Host /\ g.attempt = checkpoint.attempt /\ g.calls = 0
  BY <1>1 DEF Typed, Checkpoint, Runner, Host
<1>4. runner' \in Runner /\ runner'.pc = "hosting" /\ runner'.resumes = runner.resumes
  BY <1>2 DEF Typed, Runner
<1>5. Typed' /\ RowsTrue(checkpoint.rows)'
  BY <1>1, <1>2, <1>3, <1>4 DEF Typed, RowsTrue
<1>6. Numbered'
  <2>1. \A h \in hosts : h.attempt < checkpoint.attempt
    BY <1>2 DEF Numbered
  <2>2. \A t \in DOMAIN tasks : t[3] < checkpoint.attempt /\ t[3] \in Nat
    BY <1>2 DEF Numbered, Typed, Task
  <2>3. checkpoint.attempt \in Nat /\ \A h \in hosts : h.attempt \in Nat
    BY DEF Typed, Checkpoint, Host
  <2>4. QED BY <1>1, <1>2, <1>3, <1>4, <2>1, <2>2, <2>3 DEF Numbered
<1>7. RunnerPrepared' /\ LaunchedOnce' /\ SuccessRecorded'
  BY <1>2, <1>4 DEF RunnerPrepared, LaunchedOnce, SuccessRecorded, Typed
<1>8. Readable'
  BY <1>2 DEF Readable, NativeRecord
<1>9. QED BY <1>5, <1>6, <1>7, <1>8

\* What a coordinator prints of a task is true of it.
LEMMA OutputsTrue ==
  ASSUME BatchInv, NEW h \in hosts, NEW o \in Outputs(h)
  PROVE  /\ o.rows \in [Workers -> Row] /\ RowsTrue(o.rows)
         /\ o.session \in Nat
<1>1. ASSUME NEW w \in Workers
      PROVE  /\ o.rows[w] \in Sightings(h, w)
             /\ o.rows[w].status \in Terminal => o.rows[w].status = tasks[o.rows[w].task]
  BY DEF Outputs
<1>2. o.rows = [w \in Workers |-> o.rows[w]]
  BY DEF Outputs
<1>3. ASSUME NEW w \in Workers
      PROVE  \/ o.rows[w] = Unseen
             \/ /\ o.rows[w] \in Row
                /\ o.rows[w].task \in DOMAIN tasks /\ o.rows[w].task[1] = w
  <2>1. CASE o.rows[w] = Unseen
    BY <2>1
  <2>2. CASE o.rows[w] # Unseen
    <3>1. PICK t \in DOMAIN tasks, st \in {"running"} \cup Terminal :
            t[1] = w /\ o.rows[w] = [task |-> t, status |-> st]
      BY <1>1, <2>2 DEF Sightings
    <3>2. QED BY <3>1 DEF BatchInv, Typed, Row, Terminal
  <2>3. QED BY <2>1, <2>2
<1>4. Unseen \in Row /\ Unseen.task = NoTask /\ Unseen.status \notin Terminal
  BY DEF Unseen, Row, Terminal
<1>5. o.rows \in [Workers -> Row]
  BY <1>2, <1>3, <1>4
<1>6. RowsTrue(o.rows)
  BY <1>1, <1>3, <1>4, TasksAreHandles DEF RowsTrue, BatchInv, Typed
<1>7. o.session \in Nat
  BY DEF Outputs, BatchInv, Typed, Host
<1>8. QED BY <1>5, <1>6, <1>7

\* So is what the runner makes of it and of the checkpoint it resumed.
LEMMA MergedTrue ==
  ASSUME BatchInv, NEW o, o.rows \in [Workers -> Row], RowsTrue(o.rows)
  PROVE  MergedRows(o) \in [Workers -> Row] /\ RowsTrue(MergedRows(o))
<1>1. checkpoint.rows \in [Workers -> Row] /\ RowsTrue(checkpoint.rows)
  BY DEF BatchInv, Typed, Checkpoint
<1>2. RowsTrue(NoRows)
  BY DEF RowsTrue, NoRows, Unseen, Terminal
<1>3. CASE ~runner.resumes \/ ChangedTask(o)
  BY <1>2, <1>3, FreshTyped DEF MergedRows
<1>4. CASE runner.resumes /\ ~ChangedTask(o)
  <2>1. MergedRows(o) = [w \in Workers |-> IF o.rows[w] = Unseen THEN checkpoint.rows[w]
                                           ELSE o.rows[w]]
    BY <1>4 DEF MergedRows
  <2>2. \A w \in Workers : MergedRows(o)[w] \in {o.rows[w], checkpoint.rows[w]}
    BY <2>1
  <2>3. QED BY <1>1, <2>1, <2>2 DEF RowsTrue
<1>5. QED BY <1>3, <1>4

\* The final checkpoint of a batch with sessions can be read by the lookup.
LEMMA FinalizedReadable ==
  ASSUME BatchInv, runner.pc \in {"prepared", "hosting"},
         NEW o, o.rows \in [Workers -> Row], RowsTrue(o.rows), o.session \in Nat
  PROVE  /\ Finalized(o) \in Checkpoint /\ Finalized(o).attempt = checkpoint.attempt
         /\ Finalized(o).rows = MergedRows(o)
         /\ Finalized(o).state \in {"completed", "interrupted", "ambiguous"}
         /\ persist => NativeRecord(Finalized(o))
<1> DEFINE rows == MergedRows(o)
           session == IF ~persist THEN 0
                      ELSE IF o.session # 0 THEN o.session ELSE checkpoint.session
           state == IF Duplicated(o) THEN "ambiguous"
                    ELSE IF (\A w \in Workers : rows[w].status \in Terminal)
                            /\ o.envelope = Workers
                      THEN "completed"
                    ELSE IF session # 0 /\ HandlesComplete(rows) THEN "interrupted"
                    ELSE IF persist THEN "ambiguous" ELSE "interrupted"
           resumable == state = "interrupted" /\ session # 0 /\ HandlesComplete(rows)
<1>1. checkpoint \in Checkpoint
  BY DEF BatchInv, Typed
<1>2. Finalized(o) = [checkpoint EXCEPT !.state = state, !.rows = rows, !.session = session,
                                        !.steering = TRUE, !.resumable = resumable]
  BY DEF Finalized
<1>3. rows \in [Workers -> Row] /\ RowsTrue(rows)
  BY MergedTrue
<1>4. session \in Nat
  BY <1>1 DEF Checkpoint
<1>5. state \in {"completed", "interrupted", "ambiguous"} /\ resumable \in BOOLEAN
  OBVIOUS
<1>6. /\ state = "completed" => \A w \in Workers : rows[w].status \in Terminal
      /\ persist /\ state = "interrupted" => resumable
      /\ resumable => state = "interrupted" /\ session # 0 /\ HandlesComplete(rows)
  OBVIOUS
<1>7. persist => checkpoint.attempt >= 1
  <2>1. persist => NativeRecord(checkpoint)
    BY DEF BatchInv, RunnerPrepared, Readable
  <2>2. QED BY <2>1 DEF NativeRecord
<1> HIDE DEF rows, session, state, resumable
<1>8. /\ Finalized(o) \in Checkpoint /\ Finalized(o).attempt = checkpoint.attempt
      /\ Finalized(o).rows = rows /\ Finalized(o).state = state
      /\ Finalized(o).session = session /\ Finalized(o).steering
      /\ Finalized(o).resumable = resumable
  BY <1>1, <1>2, <1>3, <1>4, <1>5 DEF Checkpoint
<1>9. DistinctTasks(rows)
  BY <1>3, TrueRowsDistinct
<1>10. state = "completed" => HandlesComplete(rows)
  BY <1>3, <1>6 DEF RowsTrue, HandlesComplete
<1>11. ASSUME persist PROVE NativeRecord(Finalized(o))
  BY <1>5, <1>6, <1>7, <1>8, <1>9, <1>10, <1>11 DEF NativeRecord
<1>12. QED BY <1>5, <1>8, <1>11 DEF rows

\* The write may fail: then no worker succeeds and the checkpoint stays.
LEMMA SettledKeepsInv ==
  ASSUME BatchInv, runner.pc \in {"prepared", "hosting"}, NEW h,
         NEW o, o.rows \in [Workers -> Row], RowsTrue(o.rows), o.session \in Nat,
         SettledWith(o, h)
  PROVE  BatchInv'
<1> USE DEF BatchInv
<1>1. PICK written \in BOOLEAN :
        /\ checkpoint' = IF written THEN Finalized(o) ELSE checkpoint
        /\ launched' = IF written /\ Finalized(o).state = "completed" THEN 0 ELSE launched
        /\ runner' = [runner EXCEPT !.pc = "settled", !.rows = MergedRows(o),
                                    !.results = Results(o, written)]
  BY DEF SettledWith
<1>2. hosts' \subseteq hosts /\ UNCHANGED <<persist, tasks>>
  BY DEF SettledWith
<1>3. MergedRows(o) \in [Workers -> Row] /\ RowsTrue(MergedRows(o))
  BY MergedTrue
<1>4. PICK final : final = Finalized(o)
  OBVIOUS
<1>5. /\ final \in Checkpoint /\ final.attempt = checkpoint.attempt
      /\ final.rows = MergedRows(o) /\ final.state \in {"completed", "interrupted", "ambiguous"}
      /\ persist => NativeRecord(final)
  BY <1>4, FinalizedReadable
<1>6. /\ Results(o, written) \in [Workers -> {"success", "failed"}]
      /\ \A w \in Workers : Results(o, written)[w] = "success" =>
           written /\ MergedRows(o)[w].status = "completed"
  BY DEF Results
<1>7. /\ runner' \in Runner /\ runner'.pc = "settled"
      /\ runner'.results = Results(o, written)
  BY <1>1, <1>3, <1>6 DEF Typed, Runner
<1>8. checkpoint' = IF written THEN final ELSE checkpoint
  BY <1>1, <1>4
<1>9. Typed'
  BY <1>1, <1>2, <1>5, <1>7, <1>8 DEF Typed
<1>10. Numbered'
  BY <1>2, <1>5, <1>7, <1>8 DEF Numbered
<1>11. RowsTrue(checkpoint.rows)'
  <2>1. PICK rows : rows = IF written THEN MergedRows(o) ELSE checkpoint.rows
    OBVIOUS
  <2>2. RowsTrue(rows) /\ checkpoint'.rows = rows
    BY <1>3, <1>5, <1>8, <2>1
  <2>3. QED BY <1>2, <2>2 DEF RowsTrue
<1>12. RunnerPrepared'
  BY <1>7 DEF RunnerPrepared
<1>13. LaunchedOnce'
  BY <1>1, <1>2, <1>4, <1>5, <1>7, <1>8 DEF LaunchedOnce
<1>14. Readable'
  <2>1. PICK c : c = checkpoint'
    OBVIOUS
  <2>2. persist /\ c.state # "absent" => NativeRecord(c)
    BY <1>5, <1>8, <2>1 DEF Readable
  <2>3. QED BY <1>2, <2>1, <2>2 DEF Readable, NativeRecord
<1>15. SuccessRecorded'
  BY <1>5, <1>6, <1>7, <1>8 DEF SuccessRecorded
<1>16. QED BY <1>9, <1>10, <1>11, <1>12, <1>13, <1>14, <1>15

LEMMA RunnerKeepsInv ==
  ASSUME BatchInv, Settle \/ LaunchFails
  PROVE  BatchInv'
<1>1. CASE Settle
  <2>1. PICK h \in hosts : \E o \in Outputs(h) : SettledWith(o, h)
    BY <1>1 DEF Settle
  <2>2. PICK o \in Outputs(h) : SettledWith(o, h)
    BY <2>1
  <2>3. runner.pc = "hosting"
    BY <1>1 DEF Settle
  <2>4. QED BY <2>2, <2>3, OutputsTrue, SettledKeepsInv
<1>2. CASE LaunchFails
  <2>1. Silence.rows \in [Workers -> Row] /\ Silence.session \in Nat
    BY FreshTyped DEF Silence
  <2>2. RowsTrue(Silence.rows)
    BY DEF Silence, RowsTrue, NoRows, Unseen, Terminal
  <2>3. SettledWith(Silence, NoHost) /\ runner.pc = "prepared"
    BY <1>2 DEF LaunchFails
  <2>4. QED BY <2>1, <2>2, <2>3, SettledKeepsInv
<1>3. QED BY <1>1, <1>2

-----------------------------------------------------------------------------

\* Follow-ups only add records.
LEMMA BatchInvStep == BatchInv /\ [Next]_vars => BatchInv'
<1> SUFFICES ASSUME BatchInv, [Next]_vars PROVE BatchInv'
  OBVIOUS
<1>1. CASE (\E w \in Workers : FollowUp(w) \/ FollowUpSuccessor(w)) \/ UNCHANGED vars
  <2>1. UNCHANGED <<persist, checkpoint, tasks, hosts, runner, launched>>
    BY <1>1 DEF FollowUp, FollowUpSuccessor, vars
  <2>2. TasksKept /\ Typed' /\ Numbered'
    BY <2>1 DEF TasksKept, BatchInv, Typed, Numbered
  <2>3. QED BY <2>1, <2>2, TasksStep
<1>2. CASE \E h \in hosts : CallTask(h)
  BY <1>2, CallTaskKeepsInv
<1>3. CASE Dispatch \/ DispatchRefused \/ Launch \/ LaunchFails \/ Settle \/ Report \/ RunnerDies
  BY <1>3, DispatchKeepsInv, IdleKeepsInv, LaunchKeepsInv, RunnerKeepsInv
<1>4. CASE (\E h \in hosts : OrphanEnds(h)) \/ (\E t \in DOMAIN tasks : TaskEnds(t))
  BY <1>4, CoordinatorKeepsInv
<1>5. QED BY <1>1, <1>2, <1>3, <1>4 DEF Next

LEMMA BatchInvariant == Spec => []BatchInv
  BY BatchInvInit, BatchInvStep, PTL DEF Spec

\* With sessions, a batch has at most one fresh coordinator until it is completed,
\* however often its runner dies and is started again (runners/omp.py).
THEOREM BatchHasOneCoordinator == Spec => []OneCoordinator
<1>1. BatchInv => OneCoordinator
  BY BatchInvEnough
<1>2. QED BY <1>1, BatchInvariant, PTL

\* A worker reported successful has a finished task, and the checkpoint on disk names
\* it (runners/omp.py).
THEOREM BatchSuccessIsDurable == Spec => []SuccessIsDurable
<1>1. BatchInv => SuccessIsDurable
  BY BatchInvEnough
<1>2. QED BY <1>1, BatchInvariant, PTL

\* Every checkpoint a runner leaves can be read by the lookup, and the workers of a
\* resumable one can be followed up (runners/omp.py, core/dispatch_provenance.py).
THEOREM BatchCheckpointReadable == Spec => []CheckpointReadable
<1>1. BatchInv => CheckpointReadable
  BY BatchInvEnough
<1>2. QED BY <1>1, BatchInvariant, PTL

-----------------------------------------------------------------------------
(* The handles of a batch. *)

\* Only a batch that its next runner resumes is resumable.
ResumableIsResumed ==
    checkpoint.resumable => persist /\ checkpoint.state \in {"interrupted", "resuming"}

\* The coordinator of a resumed batch works in the session on record.
SessionResumed ==
    runner.pc = "hosting" /\ runner.resumes =>
      \A h \in hosts : h.attempt = checkpoint.attempt => h.session = checkpoint.session

HandlesInv == BatchInv /\ ResumableIsResumed /\ SessionResumed

\* A final record is resumable as an interrupted batch of a session only.
LEMMA FinalizedResumable ==
  ASSUME BatchInv, NEW o
  PROVE  /\ Finalized(o).resumable => persist /\ Finalized(o).state = "interrupted"
         /\ Finalized(o).rows = MergedRows(o)
<1> DEFINE rows == MergedRows(o)
           session == IF ~persist THEN 0
                      ELSE IF o.session # 0 THEN o.session ELSE checkpoint.session
           state == IF Duplicated(o) THEN "ambiguous"
                    ELSE IF (\A w \in Workers : rows[w].status \in Terminal)
                            /\ o.envelope = Workers
                      THEN "completed"
                    ELSE IF session # 0 /\ HandlesComplete(rows) THEN "interrupted"
                    ELSE IF persist THEN "ambiguous" ELSE "interrupted"
           resumable == state = "interrupted" /\ session # 0 /\ HandlesComplete(rows)
<1>1. checkpoint \in Checkpoint
  BY DEF BatchInv, Typed
<1>2. Finalized(o) = [checkpoint EXCEPT !.state = state, !.rows = rows, !.session = session,
                                        !.steering = TRUE, !.resumable = resumable]
  BY DEF Finalized
<1>3. resumable => persist /\ state = "interrupted"
  OBVIOUS
<1> HIDE DEF rows, session, state, resumable
<1>4. /\ Finalized(o).state = state /\ Finalized(o).resumable = resumable
      /\ Finalized(o).rows = rows
  BY <1>1, <1>2 DEF Checkpoint
<1>5. QED BY <1>3, <1>4 DEF rows

\* What a settling runner may write.
LEMMA SettledWrites ==
  ASSUME Settle \/ LaunchFails
  PROVE  /\ runner.pc \in {"prepared", "hosting"}
         /\ runner'.pc = "settled" \/ runner \notin Runner
         /\ UNCHANGED <<persist, tasks>>
         /\ \/ UNCHANGED checkpoint
            \/ checkpoint' = Finalized(Silence)
            \/ \E h \in hosts : \E o \in Outputs(h) :
                 /\ runner.pc = "hosting" /\ h.attempt = checkpoint.attempt
                 /\ checkpoint' = Finalized(o)
<1>1. ASSUME NEW o, NEW h, SettledWith(o, h)
      PROVE  /\ runner'.pc = "settled" \/ runner \notin Runner
             /\ UNCHANGED <<persist, tasks>>
             /\ UNCHANGED checkpoint \/ checkpoint' = Finalized(o)
  <2>1. PICK written \in BOOLEAN :
          /\ checkpoint' = IF written THEN Finalized(o) ELSE checkpoint
          /\ runner' = [runner EXCEPT !.pc = "settled", !.rows = MergedRows(o),
                                      !.results = Results(o, written)]
    BY <1>1 DEF SettledWith
  <2>2. QED BY <1>1, <2>1 DEF SettledWith, Runner
<1>2. CASE LaunchFails
  BY <1>1, <1>2 DEF LaunchFails
<1>3. CASE Settle
  <2>1. PICK h \in hosts : h.attempt = checkpoint.attempt
                           /\ \E o \in Outputs(h) : SettledWith(o, h)
    BY <1>3 DEF Settle
  <2>2. PICK o \in Outputs(h) : SettledWith(o, h)
    BY <2>1
  <2>3. QED BY <1>1, <1>3, <2>1, <2>2 DEF Settle
<1>4. QED BY <1>2, <1>3

LEMMA ResumableStep ==
  ASSUME HandlesInv, [Next]_vars
  PROVE  ResumableIsResumed'
<1> USE DEF HandlesInv, ResumableIsResumed
<1>1. CASE Dispatch
  <2>1. checkpoint \in Checkpoint /\ UNCHANGED persist /\ checkpoint' = Prepared(checkpoint)
    BY <1>1 DEF BatchInv, Typed, Dispatch
  <2>2. CASE MustResume(checkpoint)
    BY <2>1, <2>2 DEF Prepared, MustResume, Checkpoint
  <2>3. CASE ~MustResume(checkpoint)
    BY <2>1, <2>3 DEF Prepared, NoCheckpoint
  <2>4. QED BY <2>2, <2>3
<1>2. CASE Settle \/ LaunchFails
  BY <1>2, SettledWrites, FinalizedResumable
<1>3. CASE UNCHANGED <<persist, checkpoint>>
  BY <1>3
<1>4. QED
  BY <1>1, <1>2, <1>3
     DEF Next, vars, DispatchRefused, Launch, Report, RunnerDies, CallTask, OrphanEnds,
         TaskEnds, FollowUp, FollowUpSuccessor

LEMMA SessionStep ==
  ASSUME HandlesInv, [Next]_vars
  PROVE  SessionResumed'
<1> USE DEF HandlesInv, SessionResumed
<1>0. runner \in Runner
  BY DEF BatchInv, Typed
<1>1. CASE Launch
  <2>1. UNCHANGED checkpoint /\ runner.pc = "prepared" /\ runner'.resumes = runner.resumes
    BY <1>0, <1>1 DEF Launch, Runner
  <2>2. \A h \in hosts : h.attempt < checkpoint.attempt /\ h.attempt \in Nat
    BY <2>1 DEF BatchInv, Numbered, Typed, Host
  <2>3. checkpoint.attempt \in Nat
    BY DEF BatchInv, Typed, Checkpoint
  <2>4. \A h \in hosts' : h \in hosts \/ h.session = IF runner.resumes THEN checkpoint.session
                                                    ELSE checkpoint.attempt
    BY <1>1 DEF Launch
  <2>5. QED BY <2>1, <2>2, <2>3, <2>4
<1>2. ASSUME NEW h \in hosts, CallTask(h)
      PROVE  SessionResumed'
  <2>1. h \in Host
    BY DEF BatchInv, Typed
  <2>2. \A g \in hosts' : \E e \in hosts : g.attempt = e.attempt /\ g.session = e.session
    BY <1>2, <2>1 DEF CallTask, Host
  <2>3. UNCHANGED <<checkpoint, runner>>
    BY <1>2 DEF CallTask
  <2>4. QED BY <2>2, <2>3
<1>3. CASE hosts' \subseteq hosts /\ UNCHANGED <<checkpoint, runner>>
  BY <1>3
<1>4. CASE runner'.pc # "hosting"
  BY <1>4
<1>5. CASE Dispatch \/ DispatchRefused \/ Report \/ RunnerDies
  <2>1. runner'.pc \in {"idle", "prepared", "settled"}
    BY <1>5, FreshTyped DEF Dispatch, DispatchRefused, Report, RunnerDies, Runner
  <2>2. QED BY <1>4, <2>1
<1>6. CASE Settle \/ LaunchFails
  BY <1>0, <1>4, <1>6, SettledWrites
<1>7. CASE \/ \E h \in hosts : OrphanEnds(h)
           \/ \E t \in DOMAIN tasks : TaskEnds(t)
           \/ \E w \in Workers : FollowUp(w) \/ FollowUpSuccessor(w)
           \/ UNCHANGED vars
  BY <1>3, <1>7 DEF OrphanEnds, TaskEnds, FollowUp, FollowUpSuccessor, vars
<1>8. QED BY <1>1, <1>2, <1>5, <1>6, <1>7 DEF Next

LEMMA HandlesInvariant == Spec => []HandlesInv
<1>1. Init => HandlesInv
  BY BatchInvInit, FreshTyped DEF Init, HandlesInv, ResumableIsResumed, SessionResumed
<1>2. HandlesInv /\ [Next]_vars => HandlesInv'
  BY BatchInvStep, ResumableStep, SessionStep DEF HandlesInv
<1>3. QED BY <1>1, <1>2, PTL DEF Spec

\* A coordinator reports tasks of its own session only.
LEMMA OutputTasks ==
  ASSUME BatchInv, NEW h \in hosts, NEW o \in Outputs(h),
         NEW w \in Workers, o.rows[w] # Unseen
  PROVE  /\ o.rows[w].task \in DOMAIN tasks /\ o.rows[w].task # NoTask
         /\ o.rows[w].task[1] = w /\ o.rows[w].task[2] = h.session
<1>1. o.rows[w] \in Sightings(h, w)
  BY DEF Outputs
<1>2. PICK t \in DOMAIN tasks, st \in {"running"} \cup Terminal :
        t[1] = w /\ t[2] = h.session /\ o.rows[w] = [task |-> t, status |-> st]
  BY <1>1 DEF Sightings
<1>3. t \in Task
  BY DEF BatchInv, Typed
<1>4. QED BY <1>2, <1>3, TasksAreHandles

\* A runner that resumes a batch keeps its handles, or meets a task they do not name
\* in the very session.
LEMMA SettledKeepsHandles ==
  ASSUME Workers # {}, HandlesInv, checkpoint.resumable, NEW h \in hosts,
         h.attempt = checkpoint.attempt, runner.pc = "hosting",
         NEW o \in Outputs(h), checkpoint' = Finalized(o)
  PROVE  \/ \A w \in Workers : checkpoint'.rows[w].task = checkpoint.rows[w].task
         \/ /\ checkpoint'.state = "ambiguous"
            /\ \E t \in DOMAIN tasks : /\ t[2] = checkpoint.session
                                       /\ t # checkpoint.rows[t[1]].task
<1>1. /\ runner.resumes /\ persist /\ checkpoint \in Checkpoint
      /\ h.session = checkpoint.session
  BY DEF HandlesInv, ResumableIsResumed, SessionResumed, BatchInv, RunnerPrepared, Typed
<1>2. ASSUME NEW w \in Workers, o.rows[w] # Unseen
      PROVE  /\ o.rows[w].task \in DOMAIN tasks /\ o.rows[w].task # NoTask
             /\ o.rows[w].task[1] = w /\ o.rows[w].task[2] = h.session
  BY <1>2, OutputTasks DEF HandlesInv
<1>3. checkpoint'.rows = MergedRows(o)
  BY FinalizedResumable DEF HandlesInv
<1>4. CASE ~ChangedTask(o)
  <2>1. ASSUME NEW w \in Workers
        PROVE  checkpoint'.rows[w].task = checkpoint.rows[w].task
    <3>1. MergedRows(o)[w] = IF o.rows[w] = Unseen THEN checkpoint.rows[w] ELSE o.rows[w]
      BY <1>1, <1>4 DEF MergedRows
    <3>2. o.rows[w].task \in {NoTask, checkpoint.rows[w].task}
      BY <1>1, <1>4 DEF ChangedTask
    <3>3. QED BY <1>2, <1>3, <3>1, <3>2
  <2>2. QED BY <2>1
<1>5. CASE ChangedTask(o)
  <2>1. PICK w \in Workers : o.rows[w].task \notin {NoTask, checkpoint.rows[w].task}
    BY <1>5 DEF ChangedTask
  <2>2. o.rows[w] # Unseen
    BY <2>1 DEF Unseen
  <2>3. \E t \in DOMAIN tasks : t[2] = checkpoint.session /\ t # checkpoint.rows[t[1]].task
    BY <1>1, <1>2, <2>1, <2>2
  <2>4. MergedRows(o) = NoRows
    BY <1>1, <1>5 DEF MergedRows
  <2>5. NoRows[w].status = "none" /\ NoRows[w].task = NoTask
    BY DEF NoRows, Unseen
  <2>6. /\ ~(\A v \in Workers : MergedRows(o)[v].status \in Terminal)
        /\ ~HandlesComplete(MergedRows(o))
    BY <2>4, <2>5 DEF Terminal, HandlesComplete
  <2>7. checkpoint'.state = "ambiguous"
    BY <1>1, <2>6 DEF Finalized, Checkpoint
  <2>8. QED BY <2>3, <2>7
<1>6. QED BY <1>4, <1>5

\* Every step of a runner that finds a resumable checkpoint.
LEMMA HandlesKeptStep ==
  ASSUME Workers # {}, HandlesInv, [Next]_vars, checkpoint.resumable
  PROVE  \/ \A w \in Workers : checkpoint'.rows[w].task = checkpoint.rows[w].task
         \/ /\ checkpoint'.state = "ambiguous"
            /\ \E t \in DOMAIN tasks : /\ t[2] = checkpoint.session
                                       /\ t # checkpoint.rows[t[1]].task
<1>1. checkpoint \in Checkpoint
  BY DEF HandlesInv, BatchInv, Typed
<1>2. CASE Dispatch
  <2>1. MustResume(checkpoint) /\ checkpoint' = Prepared(checkpoint)
    BY <1>2 DEF HandlesInv, ResumableIsResumed, MustResume, Dispatch
  <2>2. checkpoint'.rows = checkpoint.rows
    BY <1>1, <2>1 DEF Prepared, Checkpoint
  <2>3. QED BY <2>2
<1>3. CASE UNCHANGED checkpoint
  BY <1>3
<1>4. CASE checkpoint' = Finalized(Silence) /\ runner.pc \in {"prepared", "hosting"}
  <2>1. runner.resumes /\ checkpoint'.rows = MergedRows(Silence)
    BY <1>4, FinalizedResumable
       DEF HandlesInv, ResumableIsResumed, BatchInv, RunnerPrepared
  <2>2. \A w \in Workers : Silence.rows[w] = Unseen /\ Unseen.task = NoTask
    BY DEF Silence, NoRows, Unseen
  <2>3. ~ChangedTask(Silence)
    BY <2>2 DEF ChangedTask
  <2>4. \A w \in Workers : MergedRows(Silence)[w] = checkpoint.rows[w]
    BY <2>1, <2>2, <2>3 DEF MergedRows
  <2>5. QED BY <2>1, <2>4
<1>5. CASE Settle \/ LaunchFails
  BY <1>3, <1>4, <1>5, SettledWrites, SettledKeepsHandles
<1>6. QED
  BY <1>2, <1>3, <1>5
     DEF Next, vars, DispatchRefused, Launch, Report, RunnerDies, CallTask, OrphanEnds,
         TaskEnds, FollowUp, FollowUpSuccessor

\* The task identities of a resumable checkpoint are carried over by every later one, or
\* given up with the batch when its session holds a task they do not name
\* (_finalize_omp_native_checkpoint of runners/omp.py).
THEOREM BatchHandlesKept == OmpAssumption /\ Spec => HandlesKept
<1> SUFFICES ASSUME OmpAssumption PROVE Spec => HandlesKept
  OBVIOUS
<1> DEFINE Kept ==
      checkpoint.resumable =>
         \/ \A w \in Workers : checkpoint'.rows[w].task = checkpoint.rows[w].task
         \/ /\ checkpoint'.state = "ambiguous"
            /\ \E t \in DOMAIN tasks : /\ t[2] = checkpoint.session
                                       /\ t # checkpoint.rows[t[1]].task
<1>1. HandlesInv /\ [Next]_vars => [Kept]_vars
  BY HandlesKeptStep DEF OmpAssumption
<1>2. QED BY <1>1, HandlesInvariant, PTL DEF Spec, HandlesKept

-----------------------------------------------------------------------------
(* The analysis. *)

Status == {"pending", "in_progress", "failed", "completed"}

Doc == [bundle : Configs \cup {None}, stage1 : BOOLEAN, stage2 : Status, retry2 : Nat,
        stage3 : Status \cup {"skipped", "scaffold"}, retry3 : Nat, output : Status]

Pc == {"reuse", "bundle", "call", "provider", "write", "stage3", "validate", "cross",
       "finalize", "publish"}

Running == [pc : Pc, hashed : Sources, cfg : Configs, answer : Result \cup {None},
            todo : SUBSET Files, missing : SUBSET Files, ok : BOOLEAN, reused : BOOLEAN,
            second : BOOLEAN]

AnalysisTypeOK ==
  /\ source \in Sources /\ config \in Configs
  /\ doc \in Doc
  /\ result \in Result \cup {None}
  /\ outputs \in [Files -> Result \cup {None, Deleted}]
  /\ hashes \in Sources \cup {None}
  /\ run \in {NoRun} \cup Running
  /\ runs \in Nat
  /\ owed \in {"no", "owed", "excused"}

\* The steps after an answer was written out, or there was nothing to write.
Answered == {"stage3", "validate", "cross", "finalize"}

\* Every file of the answer that is not still to be moved holds the answer, and
\* what has been written out is the saved result.
OutputsOfAnswer ==
  /\ run.pc = "write" =>
       /\ run.answer # None /\ run.answer = result
       /\ run.todo \subseteq run.answer.files
       /\ run.missing = Files \ run.answer.files
       /\ \A f \in run.answer.files \ run.todo : outputs[f] \in {run.answer, Deleted}
  /\ run.pc \in Answered =>
       /\ run.answer = None => run.missing = Files
       /\ run.missing # Files => run.answer = result
       /\ \A f \in Files \ run.missing : outputs[f] \in {run.answer, Deleted}
  /\ run.pc = "validate" => run.missing = {}

\* A run that may still move outputs or fail has reopened the analysis, unless it
\* only puts back what was removed.
NotCompleted ==
  /\ run.pc \in {"provider", "stage3", "validate", "cross"} => doc.output # "completed"
  /\ run.pc \in {"write", "finalize"} /\ ~run.reused => doc.output # "completed"

\* The outputs of a completed analysis are of the result that is saved.
CompletedIsSaved ==
  doc.output = "completed" /\ result # None =>
    \A f \in Files : outputs[f] \in {result, Deleted}

\* A result is reused where nothing is owed, or what is owed went unseen.
ReuseIsWhole == run.pc = "reuse" => result # None /\ owed # "owed"

\* The second provider's answer is the last thing a run writes.
SecondIsLast ==
  run.pc # "idle" /\ run.second => ~run.reused /\ run.pc \in {"write", "finalize", "publish"}

\* A run that is past Stage 3, or goes round it, finds a Stage 3 that is owed
\* still failed.
OwedIsMet ==
  /\ owed = "owed"
  /\ \/ run.pc = "write" /\ (run.reused \/ run.second)
     \/ run.pc = "cross"
     \/ run.pc = "finalize" /\ run.missing # Files
  => doc.stage3 = "failed"

AnalysisInv ==
  /\ AnalysisTypeOK /\ OutputsOfAnswer /\ NotCompleted /\ ReuseIsWhole /\ SecondIsLast
  /\ CompletedIsSaved /\ OwedIsMet /\ OneGeneration /\ FailedStage3Counts

-----------------------------------------------------------------------------

\* No saved answer is None, or stands for a removed file.
LEMMA NoneIsNoResult == AnalysisAssumption => None \notin Result /\ Deleted \notin Result \cup {None}
  BY DEF AnalysisAssumption

\* Nothing has run.
LEMMA AnalysisInvInit == AnalysisInit => AnalysisInv
<1> SUFFICES ASSUME AnalysisInit PROVE AnalysisInv
  OBVIOUS
<1>1. AnalysisTypeOK
  BY DEF AnalysisInit, AnalysisTypeOK, Doc, Status, Fresh
<1>2. doc.output = "pending" /\ run.pc = "idle" /\ owed = "no"
  BY DEF AnalysisInit, Fresh, NoRun
<1>3. QED BY <1>1, <1>2 DEF AnalysisInv, OutputsOfAnswer, NotCompleted, ReuseIsWhole,
            SecondIsLast, CompletedIsSaved, OwedIsMet, OneGeneration, FailedStage3Counts, Answered

\* The resume keeps the document well formed, completes nothing, and reopens a
\* completed analysis of another generation.
LEMMA ResumedFacts ==
  ASSUME doc \in Doc, NEW src, NEW cfg
  PROVE  /\ Resumed(src, cfg) \in Doc
         /\ Resumed(src, cfg).output = "completed" => doc.output = "completed"
<1>1. /\ Stage3Retried(doc, src, cfg) \in Doc
      /\ Stage3Retried(doc, src, cfg).output = "completed" => doc.output = "completed"
  <2>1. CASE doc.stage3 = "in_progress"
    BY <2>1 DEF Stage3Retried, Doc, Status
  <2>2. CASE doc.stage3 = "failed"
    BY <2>2 DEF Stage3Retried, Doc, Status
  <2>3. CASE doc.stage3 \notin {"in_progress", "failed"}
    BY <2>3 DEF Stage3Retried, Doc, Status
  <2>4. QED BY <2>1, <2>2, <2>3
<1>2. ASSUME NEW d \in Doc
      PROVE  /\ Restarted(d, src, cfg) \in Doc
             /\ Restarted(d, src, cfg).output = "completed" => d.output = "completed"
  <2> DEFINE e == [d EXCEPT !.stage2 = "pending", !.retry2 = 0, !.output = "pending"]
  <2>1. e \in Doc /\ e.output = "pending"
    BY DEF Doc, Status
  <2>2. Restarted(d, src, cfg) \in {d, e}
    BY DEF Restarted
  <2> HIDE DEF e
  <2>3. QED BY <2>1, <2>2
<1>3. ASSUME NEW d \in Doc
      PROVE  /\ Stage2Retried(d, src, cfg) \in Doc
             /\ Stage2Retried(d, src, cfg).output = d.output
  BY DEF Stage2Retried, Doc, Status
<1>4. QED BY <1>1, <1>2, <1>3 DEF Resumed

\* The documents that Stage 3 and finalize write are documents.
LEMMA DocSteps ==
  ASSUME NEW d \in Doc, NEW n \in Nat, NEW s \in Status
  PROVE  /\ [d EXCEPT !.stage3 = "in_progress"] \in Doc
         /\ [d EXCEPT !.stage3 = "failed", !.retry3 = n, !.output = "failed"] \in Doc
         /\ [d EXCEPT !.stage2 = "completed", !.retry2 = 0, !.output = s] \in Doc
         /\ [d EXCEPT !.stage2 = "failed", !.retry2 = n, !.output = "failed"] \in Doc
<1>1. [d EXCEPT !.stage3 = "in_progress"] \in Doc
  BY DEF Doc, Status
<1>2. [d EXCEPT !.stage3 = "failed", !.retry3 = n, !.output = "failed"] \in Doc
  BY DEF Doc, Status
<1>3. [d EXCEPT !.stage2 = "completed", !.retry2 = 0, !.output = s] \in Doc
  BY DEF Doc, Status
<1>4. [d EXCEPT !.stage2 = "failed", !.retry2 = n, !.output = "failed"] \in Doc
  BY DEF Doc, Status
<1>5. QED BY <1>1, <1>2, <1>3, <1>4

\* A resume never makes up an answer, and reuses none past a Stage 3 it finds failed.
LEMMA StartKeeps ==
  ASSUME AnalysisInv, Start
  PROVE  AnalysisInv'
<1> USE DEF AnalysisInv
<1> DEFINE d == Resumed(source, config)
<1>1. d \in Doc /\ (d.output = "completed" => doc.output = "completed")
  BY ResumedFacts DEF AnalysisTypeOK
<1>2. /\ doc' = d /\ UNCHANGED <<source, config, outputs, hashes>>
      /\ run.pc = "idle"
      /\ result' \in {None, result}
      /\ runs' = runs + 1
      /\ owed' = OwedAfter(source, config)
  BY DEF Start, user
<1>3. /\ run' \in {NoRun} \cup Running
      /\ run'.pc \in {"idle", "reuse", "bundle"}
      /\ run'.pc = "reuse" => Verdict(source, config) = "reuse"
      /\ run'.pc # "idle" => ~run'.second
  <2>1. Verdict(source, config) \in {"idle", "reuse", "bundle"}
    BY DEF Verdict
  <2>2. QED BY <2>1 DEF Start, NoRun, Running, Pc, AnalysisTypeOK
<1>4. Verdict(source, config) = "reuse" =>
        /\ ~Stale(source, config) /\ doc.stage3 # "failed"
        /\ result # None /\ result' = result
  <2>1. Verdict(source, config) = "reuse" => Reusable(d, source, config)
    BY DEF Verdict
  <2>2. Reusable(d, source, config) =>
          /\ ~Stale(source, config) /\ doc.stage3 # "failed"
          /\ result # None /\ ~Discarded(d, source, config)
    BY DEF Reusable, Unwritten, Discarded
  <2>3. ~Discarded(d, source, config) => result' = result
    BY DEF Start
  <2>4. QED BY <2>1, <2>2, <2>3
<1> HIDE DEF d
<1>5. owed' \in {owed, "no", "excused"} /\ (Verdict(source, config) = "reuse" => owed' # "owed")
  BY <1>2, <1>4 DEF OwedAfter
<1>6. AnalysisTypeOK'
  BY <1>1, <1>2, <1>3, <1>5 DEF AnalysisTypeOK
<1>7. OneGeneration' /\ CompletedIsSaved' /\ FailedStage3Counts'
  BY <1>1, <1>2, <1>5 DEF OneGeneration, CompletedIsSaved, FailedStage3Counts
<1>8. NotCompleted' /\ ReuseIsWhole'
  BY <1>3, <1>4, <1>5 DEF NotCompleted, ReuseIsWhole
<1>9. OwedIsMet'
  BY <1>3 DEF OwedIsMet
<1>10. OutputsOfAnswer' /\ SecondIsLast'
  BY <1>3 DEF OutputsOfAnswer, SecondIsLast, Answered
<1>11. QED BY <1>6, <1>7, <1>8, <1>9, <1>10

\* A saved result is written out, or the provider is called after all.
LEMMA ReuseKeeps ==
  ASSUME AnalysisInv, Reuse
  PROVE  AnalysisInv'
<1> USE DEF AnalysisInv
<1>1. /\ run \in Running /\ run.pc = "reuse" /\ ~run.second
      /\ result \in Result /\ result # None /\ owed # "owed"
      /\ UNCHANGED <<source, config, doc, result, outputs, hashes, runs, owed>>
  BY DEF Reuse, AnalysisTypeOK, NoRun, ReuseIsWhole, SecondIsLast, user, disk
<1>2. CASE run' = Writing(result, TRUE)
  <2>1. /\ run' \in Running /\ run'.pc = "write" /\ run'.answer = result
        /\ run'.todo = result.files /\ run'.missing = Files \ result.files
        /\ run'.second = run.second /\ run'.reused
    BY <1>1, <1>2 DEF Writing, Running, Pc, Result
  <2>2. AnalysisTypeOK'
    BY <1>1, <2>1 DEF AnalysisTypeOK
  <2>3. OutputsOfAnswer'
    BY <1>1, <2>1 DEF OutputsOfAnswer, Answered
  <2>4. QED BY <1>1, <2>1, <2>2, <2>3
            DEF NotCompleted, ReuseIsWhole, SecondIsLast, CompletedIsSaved, OwedIsMet, OneGeneration,
                FailedStage3Counts, Answered
<1>3. CASE run' = [run EXCEPT !.pc = "bundle"]
  <2>1. run' \in Running /\ run'.pc = "bundle" /\ run'.second = run.second
    BY <1>1, <1>3 DEF Running, Pc
  <2>2. AnalysisTypeOK'
    BY <1>1, <2>1 DEF AnalysisTypeOK
  <2>3. QED BY <1>1, <2>1, <2>2
            DEF OutputsOfAnswer, NotCompleted, ReuseIsWhole, SecondIsLast, CompletedIsSaved,
                OwedIsMet, OneGeneration, FailedStage3Counts, Answered
<1>4. QED BY <1>2, <1>3 DEF Reuse

\* A moved output is of the answer being written, which stays one of the doc's own.
LEMMA MoveOutputKeeps ==
  ASSUME AnalysisAssumption, AnalysisInv, MoveOutput
  PROVE  AnalysisInv'
<1> USE DEF AnalysisInv
<1>1. /\ run \in Running /\ run.pc = "write" /\ run.answer \in Result /\ run.answer # None
      /\ UNCHANGED <<source, config, doc, result, hashes, runs, owed>>
  BY DEF MoveOutput, AnalysisTypeOK, NoRun, OutputsOfAnswer, user, Running
<1>2. PICK f \in run.todo :
        /\ outputs' = [outputs EXCEPT ![f] = run.answer]
        /\ run' = [run EXCEPT !.todo = @ \ {f}]
  BY DEF MoveOutput
<1>3. /\ run' \in Running /\ run'.todo = run.todo \ {f}
      /\ run'.pc = "write" /\ run'.answer = run.answer /\ run'.missing = run.missing
      /\ run'.reused = run.reused /\ run'.second = run.second
  BY <1>1, <1>2 DEF Running
<1>4. f \in Files
  BY <1>1, <1>2 DEF Running
<1>5. AnalysisTypeOK'
  BY <1>1, <1>2, <1>3, <1>4 DEF AnalysisTypeOK
<1>6. \A g \in Files : outputs'[g] = IF g = f THEN run.answer ELSE outputs[g]
  BY <1>2 DEF AnalysisTypeOK
<1>7. OutputsOfAnswer'
  <2>1. run.answer.files \subseteq Files
    BY <1>1 DEF Result
  <2>2. \A g \in run.answer.files \ run'.todo : outputs'[g] \in {run.answer, Deleted}
    BY <1>1, <1>3, <1>6, <2>1 DEF OutputsOfAnswer
  <2>3. QED BY <1>1, <1>3, <2>2 DEF OutputsOfAnswer, Answered
<1>8. OneGeneration' /\ CompletedIsSaved'
  <2>1. run.answer = result /\ result # None
    BY <1>1 DEF OutputsOfAnswer
  <2>2. CompletedIsSaved'
    BY <1>1, <1>6, <2>1 DEF CompletedIsSaved
  <2>3. result \notin {None, Deleted} /\ Deleted # None
    BY <1>1, <2>1, NoneIsNoResult
  <2>4. QED BY <1>1, <2>1, <2>2, <2>3 DEF CompletedIsSaved, OneGeneration
<1>9. QED BY <1>1, <1>3, <1>5, <1>7, <1>8
          DEF NotCompleted, ReuseIsWhole, SecondIsLast, OwedIsMet, FailedStage3Counts

\* The answer is written out: what it has is in its place.
LEMMA WrittenKeeps ==
  ASSUME AnalysisInv, Written
  PROVE  AnalysisInv'
<1> USE DEF AnalysisInv
<1>1. /\ run \in Running /\ run.pc = "write" /\ run.todo = {}
      /\ UNCHANGED <<source, config, doc, result, outputs, hashes, runs, owed>>
  BY DEF Written, AnalysisTypeOK, NoRun, user, disk
<1>2. /\ run' \in Running
      /\ run'.pc = IF run.reused \/ run.second THEN "finalize" ELSE "stage3"
      /\ run'.answer = run.answer /\ run'.missing = run.missing
      /\ run'.reused = run.reused /\ run'.second = run.second
  BY <1>1 DEF Written, Running, Pc
<1>3. AnalysisTypeOK'
  BY <1>1, <1>2 DEF AnalysisTypeOK
<1>4. OutputsOfAnswer'
  BY <1>1, <1>2 DEF OutputsOfAnswer, Answered
<1>5. NotCompleted' /\ ReuseIsWhole' /\ SecondIsLast'
  BY <1>1, <1>2 DEF NotCompleted, ReuseIsWhole, SecondIsLast, Answered
<1>6. OwedIsMet' /\ OneGeneration' /\ CompletedIsSaved' /\ FailedStage3Counts'
  BY <1>1, <1>2 DEF OwedIsMet, OneGeneration, CompletedIsSaved, FailedStage3Counts
<1>7. QED BY <1>3, <1>4, <1>5, <1>6

\* Building the bundle and calling the provider.
LEMMA ProviderRunKeeps ==
  ASSUME AnalysisAssumption, AnalysisInv,
         BuildBundle \/ CallProvider \/ ProviderAnswers \/ InterruptProvider
  PROVE  AnalysisInv'
<1> USE DEF AnalysisInv
<1>1. /\ run \in Running /\ run.pc \in {"bundle", "call", "provider"} /\ ~run.second
      /\ UNCHANGED <<source, config, outputs, hashes, runs, owed>>
  <2>1. /\ run.pc \in {"bundle", "call", "provider"}
        /\ UNCHANGED <<source, config, outputs, hashes, runs, owed>>
    BY DEF BuildBundle, CallProvider, ProviderAnswers, InterruptProvider, user
  <2>2. run \in Running
    BY <2>1 DEF AnalysisTypeOK, NoRun
  <2>3. QED BY <2>1, <2>2 DEF SecondIsLast, Running
<1>2. CASE BuildBundle
  <2>1. /\ doc' \in Doc /\ doc'.stage3 = doc.stage3 /\ result' = result
        /\ doc'.output = "completed" => doc.output = "completed"
    BY <1>1, <1>2 DEF BuildBundle, AnalysisTypeOK, Doc, Status, Running
  <2>2. /\ run' \in {NoRun} \cup Running /\ run'.pc \in {"idle", "call"}
        /\ run'.pc # "idle" => ~run'.second
    BY <1>1, <1>2 DEF BuildBundle, Running, Pc, NoRun
  <2>3. AnalysisTypeOK'
    BY <1>1, <2>1, <2>2 DEF AnalysisTypeOK
  <2>4. QED BY <1>1, <2>1, <2>2, <2>3
            DEF OutputsOfAnswer, NotCompleted, ReuseIsWhole, SecondIsLast, CompletedIsSaved,
                OwedIsMet, OneGeneration, FailedStage3Counts, Answered
<1>3. CASE CallProvider \/ InterruptProvider
  <2>1. /\ doc' \in Doc /\ doc'.stage3 = doc.stage3 /\ result' = result
        /\ doc'.output = "completed" => doc.output = "completed"
        /\ CallProvider => doc'.output = "in_progress"
    BY <1>1, <1>3 DEF CallProvider, InterruptProvider, AnalysisTypeOK, Doc, Status, Running
  <2>2. /\ run' \in {NoRun} \cup Running /\ run'.pc \in {"idle", "provider"}
        /\ run'.pc # "idle" => ~run'.second /\ doc'.output = "in_progress"
    <3>1. CASE CallProvider
      BY <1>1, <2>1, <3>1 DEF CallProvider, Running, Pc
    <3>2. CASE InterruptProvider
      BY <3>2 DEF InterruptProvider, NoRun
    <3>3. QED BY <1>3, <3>1, <3>2
  <2>3. AnalysisTypeOK'
    BY <1>1, <2>1, <2>2 DEF AnalysisTypeOK
  <2>4. QED BY <1>1, <2>1, <2>2, <2>3
            DEF OutputsOfAnswer, NotCompleted, ReuseIsWhole, SecondIsLast, CompletedIsSaved,
                OwedIsMet, OneGeneration, FailedStage3Counts, Answered
<1>4. CASE ProviderAnswers
  <2>1. PICK a \in Answers :
          /\ result' = Saved(a, FALSE)
          /\ run' = IF a.said THEN [Writing(Saved(a, FALSE), FALSE) EXCEPT !.ok = a.ok]
                    ELSE [run EXCEPT !.pc = "finalize", !.ok = a.ok, !.missing = Files]
    BY <1>4 DEF ProviderAnswers
  <2>2. a \in [files : SUBSET Files, said : BOOLEAN, ok : BOOLEAN]
    BY DEF Answers
  <2> DEFINE r == Saved(a, FALSE)
  <2>3. r \in Result /\ r.files = a.files
    BY <1>1, <2>2 DEF Saved, Result, Running, AnalysisTypeOK
  <2>4. r # None
    BY <2>3, NoneIsNoResult
  <2> HIDE DEF r
  <2>5. /\ run.pc = "provider" /\ doc' = doc /\ doc.output # "completed"
    BY <1>4 DEF ProviderAnswers, NotCompleted
  <2>6. /\ run' \in Running /\ ~run'.second
        /\ \/ /\ run'.pc = "write" /\ run'.answer = r /\ run'.todo = r.files
              /\ run'.missing = Files \ r.files /\ ~run'.reused
           \/ run'.pc = "finalize" /\ run'.missing = Files
    <3>1. CASE a.said
      BY <1>1, <2>1, <2>2, <2>3, <3>1 DEF Writing, Running, Pc, r
    <3>2. CASE ~a.said
      BY <1>1, <2>1, <2>2, <3>2 DEF Running, Pc
    <3>3. QED BY <3>1, <3>2
  <2>7. AnalysisTypeOK'
    BY <1>1, <2>1, <2>3, <2>5, <2>6 DEF AnalysisTypeOK, r
  <2>8. OutputsOfAnswer'
    <3>1. result' = r
      BY <2>1 DEF r
    <3>2. QED BY <2>4, <2>6, <3>1 DEF OutputsOfAnswer, Answered
  <2>9. QED BY <1>1, <2>5, <2>6, <2>7, <2>8
            DEF NotCompleted, ReuseIsWhole, SecondIsLast, CompletedIsSaved,
                OwedIsMet, OneGeneration, FailedStage3Counts, Answered
<1>5. QED BY <1>2, <1>3, <1>4

\* Stage 3: what it settles is owed no more, and what fails is marked failed.
LEMMA Stage3Keeps ==
  ASSUME AnalysisAssumption, AnalysisInv,
         SkipStage3 \/ ScaffoldStage3 \/ StartStage3 \/ PassStage3 \/ FailStage3
  PROVE  AnalysisInv'
<1> USE DEF AnalysisInv
<1>1. /\ run \in Running /\ run.pc \in {"stage3", "validate"} /\ ~run.second
      /\ doc.output # "completed"
      /\ UNCHANGED <<source, config, result, outputs, hashes, runs>>
  <2>1. /\ run.pc \in {"stage3", "validate"}
        /\ UNCHANGED <<source, config, result, outputs, hashes, runs>>
    BY DEF SkipStage3, ScaffoldStage3, StartStage3, PassStage3, FailStage3, Stage3Ends, user
  <2>2. run \in Running
    BY <2>1 DEF AnalysisTypeOK, NoRun
  <2>3. QED BY <2>1, <2>2 DEF SecondIsLast, NotCompleted, Answered, Running
<1>2. /\ doc' \in Doc /\ doc'.output # "completed"
      /\ FailStage3 => doc'.stage3 = "failed"
  <2>0. doc \in Doc
    BY DEF AnalysisTypeOK
  <2>1. CASE FailStage3
    <3>1. doc'.output = "failed"
      BY <2>0, <2>1 DEF FailStage3, Doc
    <3>2. doc' = [doc EXCEPT !.stage3 = "failed", !.retry3 = doc.retry3 + 1, !.output = "failed"]
      BY <2>1 DEF FailStage3
    <3>3. doc.retry3 + 1 \in Nat /\ "failed" \in Status
      BY <2>0 DEF Doc, Status
    <3>4. [doc EXCEPT !.stage3 = "failed", !.retry3 = doc.retry3 + 1, !.output = "failed"] \in Doc
      BY <2>0, <3>3, DocSteps
    <3>5. QED BY <3>1, <3>2, <3>4
  <2>2. ASSUME StartStage3
        PROVE  doc' \in Doc /\ doc'.output # "completed"
    <3>1. doc'.output = doc.output
      BY <2>0, <2>2 DEF StartStage3, Doc
    <3>2. doc' \in Doc
      <4>1. 0 \in Nat /\ "failed" \in Status
        BY DEF Status
      <4>2. doc' = [doc EXCEPT !.stage3 = "in_progress"]
        BY <2>2 DEF StartStage3
      <4>3. [doc EXCEPT !.stage3 = "in_progress"] \in Doc
        BY <2>0, <4>1, DocSteps
      <4>4. QED BY <4>2, <4>3
    <3>3. QED BY <1>1, <3>1, <3>2
  <2>3. ASSUME NEW status \in {"skipped", "scaffold", "completed"}, Stage3Ends(status)
        PROVE  doc' \in Doc /\ doc'.output # "completed"
    BY <1>1, <2>3 DEF Stage3Ends, AnalysisTypeOK, Doc, Status
  <2>4. FailStage3 => run.pc = "validate" /\ doc'.stage3 = "failed"
    BY DEF FailStage3, AnalysisTypeOK, Doc
  <2>5. QED BY <2>1, <2>2, <2>3, <2>4 DEF SkipStage3, ScaffoldStage3, PassStage3
<1>3. /\ run' \in {NoRun} \cup Running
      /\ run'.pc \in {"idle", "validate", "cross", "finalize"}
      /\ run'.pc # "idle" => /\ run'.answer = run.answer /\ run'.missing = run.missing
                             /\ ~run'.second
      /\ run'.pc = "validate" => StartStage3 /\ run.missing = {}
  <2>1. CASE StartStage3
    BY <1>1, <2>1 DEF StartStage3, Running, Pc
  <2>2. CASE run' = AfterStage3
    BY <1>1, <2>2 DEF AfterStage3, Running, Pc
  <2>3. CASE run' = NoRun
    BY <2>3 DEF NoRun
  <2>4. run' \in {AfterStage3, NoRun} \/ StartStage3
    BY DEF SkipStage3, ScaffoldStage3, PassStage3, FailStage3, Stage3Ends
  <2>5. CASE run' \in {AfterStage3, NoRun}
    BY <2>2, <2>3, <2>5
  <2>6. QED BY <2>1, <2>4, <2>5
<1>4. owed' \in {"no", "owed", "excused"} /\ (owed' = "owed" => FailStage3 \/ StartStage3)
  <2>1. CASE FailStage3
    BY <2>1 DEF FailStage3
  <2>2. CASE StartStage3
    BY <2>2 DEF StartStage3, AnalysisTypeOK
  <2>3. CASE SkipStage3 \/ ScaffoldStage3 \/ PassStage3
    BY <2>3 DEF SkipStage3, ScaffoldStage3, PassStage3
  <2>4. QED BY <2>1, <2>2, <2>3
<1>5. AnalysisTypeOK'
  BY <1>1, <1>2, <1>3, <1>4 DEF AnalysisTypeOK
<1>6. OutputsOfAnswer'
  BY <1>1, <1>3 DEF OutputsOfAnswer, Answered
<1>7. OwedIsMet'
  <2>1. StartStage3 => run'.pc = "validate"
    BY <1>1 DEF StartStage3, Running
  <2>2. QED BY <1>2, <1>3, <1>4, <2>1 DEF OwedIsMet
<1>8. QED BY <1>1, <1>2, <1>3, <1>5, <1>6, <1>7
          DEF NotCompleted, ReuseIsWhole, SecondIsLast, CompletedIsSaved, OneGeneration,
              FailedStage3Counts

\* The judge keeps one answer whole: the first, or the second written over it.
LEMMA JudgeKeeps ==
  ASSUME AnalysisAssumption, AnalysisInv, JudgeSecond
  PROVE  AnalysisInv'
<1> USE DEF AnalysisInv
<1>1. /\ run \in Running /\ run.pc = "cross" /\ ~run.second /\ doc.output # "completed"
      /\ UNCHANGED <<source, config, doc, outputs, hashes, runs, owed>>
  <2>1. run.pc = "cross" /\ UNCHANGED <<source, config, doc, outputs, hashes, runs, owed>>
    BY DEF JudgeSecond, user
  <2>2. run \in Running
    BY <2>1 DEF AnalysisTypeOK, NoRun
  <2>3. QED BY <2>1, <2>2 DEF SecondIsLast, NotCompleted, Answered, Running
<1>2. PICK a \in Answers, passed \in BOOLEAN :
        \/ /\ run' = [run EXCEPT !.pc = "finalize", !.ok = passed]
           /\ UNCHANGED result
        \/ /\ result' = Saved(a, TRUE)
           /\ run' = [Writing(Saved(a, TRUE), FALSE) EXCEPT !.ok = passed, !.second = TRUE]
  BY DEF JudgeSecond
<1>3. CASE run' = [run EXCEPT !.pc = "finalize", !.ok = passed] /\ UNCHANGED result
  <2>1. /\ run' \in Running /\ run'.pc = "finalize" /\ ~run'.second
        /\ run'.answer = run.answer /\ run'.missing = run.missing
        /\ run'.reused = run.reused
    BY <1>1, <1>3 DEF Running, Pc
  <2>2. AnalysisTypeOK'
    BY <1>1, <1>3, <2>1 DEF AnalysisTypeOK
  <2>3. OutputsOfAnswer'
    BY <1>1, <1>3, <2>1 DEF OutputsOfAnswer, Answered
  <2>4. QED BY <1>1, <2>1, <2>2, <2>3
            DEF NotCompleted, ReuseIsWhole, SecondIsLast, CompletedIsSaved, OwedIsMet, OneGeneration,
                FailedStage3Counts
<1>4. CASE /\ result' = Saved(a, TRUE)
           /\ run' = [Writing(Saved(a, TRUE), FALSE) EXCEPT !.ok = passed, !.second = TRUE]
  <2> DEFINE r == Saved(a, TRUE)
  <2>1. r \in Result
    BY <1>1 DEF Answers, Saved, Result, Running, AnalysisTypeOK
  <2>2. r # None
    BY <2>1, NoneIsNoResult
  <2>3. /\ run' \in Running /\ run'.pc = "write" /\ run'.answer = r
        /\ run'.todo = r.files /\ run'.missing = Files \ r.files /\ ~run'.reused
    <3>1. r.files \subseteq Files
      BY <2>1 DEF Result
    <3> HIDE DEF r
    <3>2. run' = [Writing(r, FALSE) EXCEPT !.ok = passed, !.second = TRUE]
      BY <1>4 DEF r
    <3>3. QED BY <1>1, <2>1, <3>1, <3>2 DEF Writing, Running, Pc
  <2>4. result' = r
    BY <1>4
  <2> HIDE DEF r
  <2>5. AnalysisTypeOK'
    BY <1>1, <2>1, <2>3, <2>4 DEF AnalysisTypeOK
  <2>6. OutputsOfAnswer'
    BY <2>2, <2>3, <2>4 DEF OutputsOfAnswer, Answered
  <2>7. OwedIsMet'
    BY <1>1, <2>3 DEF OwedIsMet
  <2>8. QED BY <1>1, <2>3, <2>5, <2>6, <2>7
            DEF NotCompleted, ReuseIsWhole, SecondIsLast, CompletedIsSaved, OneGeneration,
                FailedStage3Counts, Answered
<1>5. QED BY <1>2, <1>3, <1>4

\* An analysis is completed from one whole answer, and never past a failed Stage 3.
LEMMA FinalizeKeeps ==
  ASSUME AnalysisAssumption, AnalysisInv, Finalize
  PROVE  AnalysisInv'
<1> USE DEF AnalysisInv
<1>1. /\ run \in Running /\ run.pc = "finalize"
      /\ UNCHANGED <<source, config, result, outputs, hashes, runs, owed>>
  BY DEF Finalize, AnalysisTypeOK, NoRun, user
<1>2. /\ doc' \in Doc
      /\ doc'.output = "completed" => Complete /\ doc.stage3 # "failed"
  <2>1. doc \in Doc /\ doc' = FinalDoc
    BY DEF Finalize, AnalysisTypeOK
  <2>2. CASE Complete
    <3> DEFINE o == IF doc.stage3 = "failed" THEN "failed" ELSE "completed"
    <3>1. doc' = [doc EXCEPT !.stage2 = "completed", !.retry2 = 0, !.output = o]
      BY <2>1, <2>2 DEF FinalDoc
    <3>2. o \in Status /\ (o = "completed" => doc.stage3 # "failed")
      BY DEF Status
    <3> HIDE DEF o
    <3>3. doc' \in Doc
      <4>1. 0 \in Nat
        OBVIOUS
      <4>2. [doc EXCEPT !.stage2 = "completed", !.retry2 = 0, !.output = o] \in Doc
        BY <2>1, <3>2, <4>1, DocSteps
      <4>3. QED BY <3>1, <4>2
    <3>4. doc'.output = o
      BY <2>1, <3>1 DEF Doc
    <3>5. QED BY <2>2, <3>2, <3>3, <3>4
  <2>3. CASE ~Complete
    <3>1. doc' = [doc EXCEPT !.stage2 = "failed", !.retry2 = @ + 1, !.output = "failed"]
      BY <2>1, <2>3 DEF FinalDoc
    <3>2. doc' \in Doc
      <4>1. doc.retry2 + 1 \in Nat /\ "failed" \in Status
        BY <2>1 DEF Doc, Status
      <4>2. [doc EXCEPT !.stage2 = "failed", !.retry2 = doc.retry2 + 1, !.output = "failed"] \in Doc
        BY <2>1, <4>1, DocSteps
      <4>3. QED BY <3>1, <4>2
    <3>3. doc'.output = "failed"
      BY <2>1, <3>1 DEF Doc
    <3>4. QED BY <3>2, <3>3
  <2>4. QED BY <2>2, <2>3
<1>3. /\ run' \in {NoRun} \cup Running
      /\ run'.pc \in {"idle", "publish", "bundle"}
      /\ run'.pc = "bundle" => ~run'.second
      /\ run'.pc = "publish" => run'.second = run.second /\ run'.reused = run.reused
  <2>1. CASE run' = [run EXCEPT !.pc = "publish"]
    BY <1>1, <2>1 DEF Running, Pc
  <2>2. CASE run.reused /\ run' = [run EXCEPT !.pc = "bundle", !.ok = TRUE]
    BY <1>1, <2>2 DEF Running, Pc, SecondIsLast
  <2>3. CASE run' = NoRun
    BY <2>3 DEF NoRun
  <2>4. QED BY <2>1, <2>2, <2>3 DEF Finalize
<1>4. AnalysisTypeOK'
  BY <1>1, <1>2, <1>3 DEF AnalysisTypeOK
<1>5. Complete => /\ run.answer # None /\ run.missing # Files /\ run.answer = result
                  /\ \A f \in Files : outputs[f] = run.answer
  BY <1>1 DEF Complete, OutputsOfAnswer, Answered, AnalysisAssumption, Present
<1>6. OneGeneration' /\ CompletedIsSaved'
  BY <1>1, <1>2, <1>5 DEF OneGeneration, CompletedIsSaved
<1>7. FailedStage3Counts'
  BY <1>1, <1>2, <1>5 DEF FailedStage3Counts, OwedIsMet
<1>8. QED BY <1>1, <1>3, <1>4, <1>6, <1>7
          DEF OutputsOfAnswer, NotCompleted, ReuseIsWhole, SecondIsLast, OwedIsMet, Answered

\* A removed output is of no generation.
LEMMA RemoveOutputKeeps ==
  ASSUME AnalysisAssumption, AnalysisInv, RemoveOutput
  PROVE  AnalysisInv'
<1> USE DEF AnalysisInv
<1>1. UNCHANGED <<source, config, doc, result, hashes, run, runs, owed>>
  BY DEF RemoveOutput, user
<1>2. PICK f \in Files : outputs' = [outputs EXCEPT ![f] = Deleted]
  BY DEF RemoveOutput
<1>3. \A g \in Files : outputs'[g] = IF g = f THEN Deleted ELSE outputs[g]
  BY <1>2 DEF AnalysisTypeOK
<1>4. AnalysisTypeOK'
  BY <1>1, <1>2 DEF AnalysisTypeOK
<1>5. OutputsOfAnswer'
  <2>1. run.pc = "write" => run.answer.files \subseteq Files
    BY DEF AnalysisTypeOK, OutputsOfAnswer, Result, Running, NoRun
  <2>2. QED BY <1>1, <1>3, <2>1 DEF OutputsOfAnswer
<1>6. OneGeneration' /\ CompletedIsSaved'
  BY <1>1, <1>3, NoneIsNoResult DEF OneGeneration, CompletedIsSaved
<1>7. QED BY <1>1, <1>4, <1>5, <1>6
          DEF NotCompleted, ReuseIsWhole, SecondIsLast, OwedIsMet, FailedStage3Counts

\* Publishing, dying and the user's edits touch neither document nor outputs.
LEMMA OthersKeep ==
  ASSUME AnalysisInv, Publish \/ Die \/ Edit \/ UNCHANGED analysisVars
  PROVE  AnalysisInv'
<1>1. /\ UNCHANGED <<doc, result, outputs, runs, owed>>
      /\ source' \in Sources /\ config' \in Configs /\ hashes' \in Sources \cup {None}
  BY DEF AnalysisInv, Publish, Die, Edit, analysisVars, user, disk, AnalysisTypeOK, NoRun, Running
<1>2. run' = run \/ run' = NoRun
  BY DEF Publish, Die, Edit, analysisVars
<1>3. QED BY <1>1, <1>2
          DEF AnalysisInv, AnalysisTypeOK, OutputsOfAnswer, NotCompleted, ReuseIsWhole,
              SecondIsLast, CompletedIsSaved, OwedIsMet, OneGeneration, FailedStage3Counts,
              Answered, NoRun

LEMMA AnalysisInvStep ==
  ASSUME AnalysisAssumption, AnalysisInv, [AnalysisNext]_analysisVars
  PROVE  AnalysisInv'
BY StartKeeps, ReuseKeeps, MoveOutputKeeps, WrittenKeeps, ProviderRunKeeps, Stage3Keeps,
   JudgeKeeps, FinalizeKeeps, RemoveOutputKeeps, OthersKeep DEF AnalysisNext

LEMMA AnalysisInvariant == AnalysisAssumption /\ AnalysisSpec => []AnalysisInv
<1>1. CASE AnalysisAssumption
  <2>1. AnalysisInv /\ [AnalysisNext]_analysisVars => AnalysisInv'
    BY <1>1, AnalysisInvStep
  <2>2. QED BY <2>1, AnalysisInvInit, PTL DEF AnalysisSpec
<1>2. QED BY <1>1

\* What a completed analysis has of its outputs is of one answer, whatever runs died,
\* answered in part or were resumed before it.
THEOREM CompletedIsOneGeneration == AnalysisAssumption /\ AnalysisSpec => []OneGeneration
<1>1. AnalysisInv => OneGeneration
  BY DEF AnalysisInv
<1>2. QED BY <1>1, AnalysisInvariant, PTL

\* A required Stage 3 that failed keeps the analysis from completing until a later one
\* passes or is skipped, or a scaffold or an interrupted retry has stood in for it.
THEOREM FailedStage3IsMet == AnalysisAssumption /\ AnalysisSpec => []FailedStage3Counts
<1>1. AnalysisInv => FailedStage3Counts
  BY DEF AnalysisInv
<1>2. QED BY <1>1, AnalysisInvariant, PTL
=============================================================================
