------------------------------ MODULE OmpBatch ------------------------------
(***************************************************************************)
(* One native OMP batch (runners/omp.py, run_omp_native_batch) in a        *)
(* subprocess host, its durable checkpoint, the dispatch provenance that   *)
(* core/multi_agent.py writes after it and the follow-ups of                *)
(* commands/agents.py.                                                      *)
(*                                                                         *)
(* A runner writes "prepared", launches a coordinator that calls the task   *)
(* tool, reads what the coordinator printed and writes the final state.     *)
(* It may die at any step; the coordinator, which has a process group of    *)
(* its own, then lives on.  The next runner of the same batch resumes the   *)
(* recorded session, starts a new batch, or refuses.  What a coordinator    *)
(* prints is a free choice: a stream cut anywhere, a claim that is false,   *)
(* a task call too many.                                                    *)
(***************************************************************************)
EXTENDS Integers, FiniteSets, Sequences

CONSTANTS
    Workers,      \* the workers of the batch
    SessionModes, \* the values "session persistence requested" may have
    MaxAttempts,  \* bound on the checkpoint's attempt counter
    MaxCalls,     \* bound on the task calls of all coordinators together
    MaxFollowUps  \* bound on the follow-ups

OmpAssumption == /\ Workers # {} /\ IsFiniteSet(Workers)
                 /\ SessionModes \subseteq BOOLEAN /\ SessionModes # {}
                 /\ {MaxAttempts, MaxCalls, MaxFollowUps} \subseteq Nat
                 /\ MaxCalls > 0

VARIABLES
    persist,    \* sessions outlive their process (--no-session is not given)
    checkpoint, \* omp-native-<fingerprint>.json, NoCheckpoint when absent
    tasks,      \* every task the batch ever spawned, and how it stands
    hosts,      \* the live coordinator processes
    runner,     \* the awf process that runs the batch
    records,    \* the tasks each schema-v2 provenance record names, oldest first
    launched    \* fresh coordinators since the last completed checkpoint

vars == <<persist, checkpoint, tasks, hosts, runner, records, launched>>

\* A task is <<its worker, its session, the attempt and the call that made it>>.
NoTask == <<>>
Unseen == [task |-> NoTask, status |-> "none"]
NoRows == [w \in Workers |-> Unseen]
AllFailed == [w \in Workers |-> "failed"]
NoCheckpoint == [state |-> "absent", attempt |-> 0, session |-> 0,
                 resumable |-> FALSE, steering |-> FALSE, rows |-> NoRows]
Idle == [pc |-> "idle", resumes |-> FALSE, results |-> AllFailed, rows |-> NoRows]
NoHost == [attempt |-> 0, calls |-> 0, fresh |-> TRUE, session |-> 0]

Terminal == {"completed", "failed"}

Init == /\ persist \in SessionModes
        /\ checkpoint = NoCheckpoint
        /\ tasks = <<>>
        /\ hosts = {}
        /\ runner = Idle
        /\ records = <<>>
        /\ launched = 0

-----------------------------------------------------------------------------
(* Starting: what the runner makes of the checkpoint it finds.             *)

HandlesComplete(rows) == \A w \in Workers : rows[w].task # NoTask

DistinctTasks(rows) ==
    \A v, w \in Workers : rows[v].task = rows[w].task /\ v # w => rows[v].task = NoTask

\* Only an interrupted or resuming batch whose session and every worker's
\* handles are recorded, each task once, can be resumed.
RecoveryIdentity(c) ==
    /\ c.state \in {"interrupted", "resuming"}
    /\ c.session # 0 /\ c.resumable
    /\ HandlesComplete(c.rows) /\ DistinctTasks(c.rows)

\* Mutant: a batch that was prepared is taken for one that never started.
MustResumeStarted(c) ==
    persist /\ c.state \notin {"absent", "completed", "prepared"}

MustResume(c) == persist /\ c.state \notin {"absent", "completed"}

\* Mutant: the evidence of the interrupted run stays in the resuming record.
PreparedKeeping(c) ==
    IF MustResume(c) THEN [c EXCEPT !.state = "resuming", !.attempt = @ + 1]
    ELSE [NoCheckpoint EXCEPT !.state = "prepared", !.attempt = c.attempt + 1]

Prepared(c) ==
    IF MustResume(c)
    THEN [c EXCEPT !.state = "resuming", !.attempt = @ + 1, !.steering = FALSE]
    ELSE [NoCheckpoint EXCEPT !.state = "prepared", !.attempt = c.attempt + 1]

\* The checkpoint is on disk before the coordinator exists.
Dispatch ==
    /\ runner.pc = "idle"
    /\ checkpoint.attempt < MaxAttempts
    /\ MustResume(checkpoint) => RecoveryIdentity(checkpoint)
    /\ checkpoint' = Prepared(checkpoint)
    /\ runner' = [Idle EXCEPT !.pc = "prepared", !.resumes = MustResume(checkpoint)]
    /\ UNCHANGED <<persist, tasks, hosts, records, launched>>

\* Refused: more workers than the host takes, two models for one agent type,
\* an identity that cannot be trusted, a checkpoint that cannot be written.
\* Every worker fails and nothing is launched.
DispatchRefused ==
    /\ runner.pc = "idle"
    /\ runner' = [Idle EXCEPT !.pc = "settled"]
    /\ UNCHANGED <<persist, checkpoint, tasks, hosts, records, launched>>

-----------------------------------------------------------------------------
(* The coordinator.                                                        *)

\* A fresh coordinator opens a session of its own, named by the attempt.
Launch ==
    /\ runner.pc = "prepared"
    /\ hosts' = hosts \cup {[attempt |-> checkpoint.attempt, calls |-> 0,
                 fresh |-> ~runner.resumes,
                 session |-> IF runner.resumes THEN checkpoint.session
                             ELSE checkpoint.attempt]}
    /\ launched' = IF runner.resumes THEN launched ELSE launched + 1
    /\ runner' = [runner EXCEPT !.pc = "hosting"]
    /\ UNCHANGED <<persist, checkpoint, tasks, records>>

\* A fresh coordinator is told to call the task tool once, a resumed one
\* never; either may do otherwise.  A call spawns a task for every worker.
CallsMade == {<<t[3], t[4]>> : t \in DOMAIN tasks}

CallTask(h) ==
    /\ Cardinality(CallsMade) < MaxCalls
    /\ hosts' = (hosts \ {h}) \cup {[h EXCEPT !.calls = @ + 1]}
    /\ LET made == {<<w, h.session, h.attempt, h.calls + 1>> : w \in Workers}
       IN  tasks' = [t \in made \cup DOMAIN tasks |->
                       IF t \in made THEN "running" ELSE tasks[t]]
    /\ UNCHANGED <<persist, checkpoint, runner, records, launched>>

\* A task ends while a coordinator of its session lives.
TaskEnds(t) ==
    /\ tasks[t] = "running"
    /\ \E h \in hosts : h.session = t[2]
    /\ \E status \in Terminal : tasks' = [tasks EXCEPT ![t] = status]
    /\ UNCHANGED <<persist, checkpoint, hosts, runner, records, launched>>

\* A coordinator whose runner died ends unobserved.
OrphanEnds(h) ==
    /\ ~(runner.pc = "hosting" /\ h.attempt = checkpoint.attempt)
    /\ hosts' = hosts \ {h}
    /\ UNCHANGED <<persist, checkpoint, tasks, runner, records, launched>>

\* What the output of coordinator h may say of a worker's task.
Sightings(h, w) ==
    {Unseen} \cup
      {[task |-> t, status |-> s] : t \in {u \in DOMAIN tasks : u[1] = w /\ u[2] = h.session},
                                    s \in {"running"} \cup Terminal}

\* The parsed output: a prefix of the events, any claim in the envelope, and
\* an exit with an error or not (a timeout is not one: see Results).
Outputs(h) ==
    {o \in [rows : {r \in [Workers -> UNION {Sightings(h, w) : w \in Workers}] :
                      \A w \in Workers : /\ r[w] \in Sightings(h, w)
                                         /\ r[w].status \in Terminal =>
                                              r[w].status = tasks[r[w].task]},
            calls : 0..h.calls, session : {0, h.session},
            envelope : SUBSET Workers, failed : BOOLEAN] :
       h.fresh /\ o.rows # NoRows => o.calls > 0}

\* The omp command is missing: return code 127 and no output.
Silence == [rows |-> NoRows, calls |-> 0, session |-> 0, envelope |-> {},
            failed |-> TRUE]

-----------------------------------------------------------------------------
(* Settling: from the output to the final checkpoint and the results.      *)

\* A resumed worker that reports a task of another ID spoils the batch.
ChangedTask(o) ==
    /\ runner.resumes
    /\ \E w \in Workers : o.rows[w].task \notin {NoTask, checkpoint.rows[w].task}

\* Mutant: a resumed batch is judged by the new reports alone.
ReportedRows(o) == IF ChangedTask(o) THEN NoRows ELSE o.rows

MergedRows(o) ==
    IF ~runner.resumes THEN o.rows
    ELSE IF ChangedTask(o) THEN NoRows
    ELSE [w \in Workers |-> IF o.rows[w] = Unseen THEN checkpoint.rows[w]
                            ELSE o.rows[w]]

Duplicated(o) == o.calls > IF runner.resumes THEN 0 ELSE 1

Finalized(o) ==
    LET rows == MergedRows(o)
        session == IF ~persist THEN 0
                   ELSE IF o.session # 0 THEN o.session ELSE checkpoint.session
        state ==
          IF Duplicated(o) THEN "ambiguous"
          ELSE IF (\A w \in Workers : rows[w].status \in Terminal) /\ o.envelope = Workers
            THEN "completed"
          ELSE IF session # 0 /\ HandlesComplete(rows) THEN "interrupted"
          ELSE IF persist THEN "ambiguous" ELSE "interrupted"
    IN  [checkpoint EXCEPT !.state = state, !.rows = rows, !.session = session,
                           !.steering = TRUE,
                           !.resumable = /\ state = "interrupted" /\ session # 0
                                         /\ HandlesComplete(rows)]

\* Mutant: a result counts although the checkpoint could not be written.
ResultsUnwritten(o, written) ==
    [w \in Workers |->
       IF /\ w \in o.envelope
          /\ MergedRows(o)[w].status = "completed"
          /\ ~ChangedTask(o) /\ ~Duplicated(o) /\ ~o.failed
       THEN "success" ELSE "failed"]

\* A worker succeeds when the envelope holds its result, its task is known
\* to have completed and nothing spoiled the batch; a timeout is forgiven
\* to the workers that had finished, an exit with an error is not.
Results(o, written) ==
    [w \in Workers |->
       IF /\ w \in o.envelope
          /\ MergedRows(o)[w].status = "completed"
          /\ ~ChangedTask(o) /\ ~Duplicated(o) /\ written
          /\ ~o.failed
       THEN "success" ELSE "failed"]

\* The final checkpoint replaces the prepared one, or its write fails.
SettledWith(o, h) ==
    /\ \E written \in BOOLEAN :
         /\ checkpoint' = IF written THEN Finalized(o) ELSE checkpoint
         /\ launched' = IF written /\ Finalized(o).state = "completed" THEN 0
                        ELSE launched
         /\ runner' = [runner EXCEPT !.pc = "settled", !.rows = MergedRows(o),
                                     !.results = Results(o, written)]
    /\ hosts' = hosts \ {h}
    /\ UNCHANGED <<persist, tasks, records>>

LaunchFails == runner.pc = "prepared" /\ SettledWith(Silence, NoHost)

Settle ==
    /\ runner.pc = "hosting"
    /\ \E h \in hosts : /\ h.attempt = checkpoint.attempt
                        /\ \E o \in Outputs(h) : SettledWith(o, h)

\* The dispatch writes its own provenance record of the same tasks.  A
\* record that names no task is found by no task ID and is left out.
Report ==
    /\ runner.pc = "settled"
    /\ records' = IF runner.rows = NoRows THEN records
                  ELSE Append(records, [w \in Workers |-> runner.rows[w].task])
    /\ runner' = Idle
    /\ UNCHANGED <<persist, checkpoint, tasks, hosts, launched>>

RunnerDies ==
    /\ runner.pc # "idle"
    /\ runner' = Idle
    /\ UNCHANGED <<persist, checkpoint, tasks, hosts, records, launched>>

-----------------------------------------------------------------------------
(* Reading: lookup_omp_provenance and the follow-ups.                      *)

\* What the lookup accepts of a native checkpoint.
NativeRecord(c) ==
    /\ c.attempt >= 1
    /\ c.resumable => c.session # 0
    /\ c.session # 0 => persist
    /\ c.state = "prepared" => /\ c.session = 0 /\ ~c.resumable /\ ~c.steering
                               /\ c.rows = NoRows
    /\ c.state = "resuming" => persist /\ c.session # 0 /\ c.resumable /\ ~c.steering
    /\ c.state \notin {"prepared", "resuming"} => c.steering
    /\ c.state = "completed" => /\ ~c.resumable /\ HandlesComplete(c.rows)
                                /\ \A w \in Workers : c.rows[w].status \in Terminal
    /\ c.state = "interrupted" => c.resumable \/ ~persist
    /\ c.state = "ambiguous" => ~c.resumable /\ (c.session # 0 \/ persist)
    /\ c.resumable => HandlesComplete(c.rows)
    /\ DistinctTasks(c.rows)

\* A follow-up needs a readable record, a persisted session and a handle.
Actionable(w) ==
    /\ checkpoint.state # "absent" /\ NativeRecord(checkpoint)
    /\ checkpoint.session # 0
    /\ checkpoint.rows[w].task # NoTask

Noted(w, t) == Append(records, [v \in Workers |-> IF v = w THEN t ELSE NoTask])

\* The hub delivers the message to the very task, or nothing shows that it
\* did: the record names the parent task either way.
FollowUp(w) ==
    /\ Actionable(w) /\ Len(records) < MaxFollowUps
    /\ records' = Noted(w, checkpoint.rows[w].task)
    /\ UNCHANGED <<persist, checkpoint, tasks, hosts, runner, launched>>

\* The registry no longer knows the task: its history is read and one
\* successor, no task of the batch, is launched in the same session.
FollowUpSuccessor(w) ==
    /\ Actionable(w) /\ Len(records) < MaxFollowUps
    /\ records' = Noted(w, <<w, checkpoint.session, 0, Len(records) + 1>>)
    /\ UNCHANGED <<persist, checkpoint, tasks, hosts, runner, launched>>

\* The records that --task-id finds for task t.
Matches(t) ==
    {i \in 1..Len(records) : \E w \in Workers : records[i][w] = t}
      \cup {0 : w \in {v \in Workers : /\ checkpoint.state # "absent"
                                       /\ NativeRecord(checkpoint)
                                       /\ checkpoint.rows[v].task = t}}

Next ==
    \/ Dispatch \/ DispatchRefused \/ Launch \/ LaunchFails \/ Settle \/ Report
    \/ RunnerDies
    \/ \E h \in hosts : CallTask(h) \/ OrphanEnds(h)
    \/ \E t \in DOMAIN tasks : TaskEnds(t)
    \/ \E w \in Workers : FollowUp(w) \/ FollowUpSuccessor(w)

Spec == Init /\ [][Next]_vars

-----------------------------------------------------------------------------
(* Properties.                                                             *)

TypeOK ==
    /\ persist \in SessionModes
    /\ checkpoint.state \in {"absent", "prepared", "resuming", "completed",
                             "interrupted", "ambiguous"}
    /\ checkpoint.attempt \in 0..MaxAttempts
    /\ \A t \in DOMAIN tasks : t[1] \in Workers /\ tasks[t] \in {"running"} \cup Terminal
    /\ runner.pc \in {"idle", "prepared", "hosting", "settled"}

\* However often the runner dies, times out or is started again, a batch
\* whose sessions persist is not given to a second fresh coordinator until a
\* completed checkpoint is on disk: its tasks are resumed or refused.
OneCoordinator == persist => launched <= 1

\* A worker reported as successful has a finished task, and the checkpoint
\* on disk names that task as its own.
SuccessIsDurable ==
    runner.pc = "settled" =>
      \A w \in Workers : runner.results[w] = "success" =>
          LET row == checkpoint.rows[w]
          IN  row.task # NoTask /\ row.task[1] = w /\ tasks[row.task] = "completed"

\* A resumable checkpoint's task identities are carried over by every later
\* one, a run that reports nothing included.  They are given up, with the
\* batch, only when the session really holds a task they do not name.
HandlesKept ==
    [][checkpoint.resumable =>
         \/ \A w \in Workers : checkpoint'.rows[w].task = checkpoint.rows[w].task
         \/ /\ checkpoint'.state = "ambiguous"
            /\ \E t \in DOMAIN tasks : /\ t[2] = checkpoint.session
                                       /\ t # checkpoint.rows[t[1]].task]_vars

\* Whatever the runner writes, and wherever it dies, the lookup that
\* follow-ups and evidence panels use can read the checkpoint, and every
\* worker of a resumable one can be followed up.
CheckpointReadable ==
    persist /\ checkpoint.state # "absent" =>
      /\ NativeRecord(checkpoint)
      /\ checkpoint.resumable => \A w \in Workers : Actionable(w)

\* docs/superpowers/specs/2026-07-30-omp-native-checkpoint-followup-design.md
\* says of a worker of a native checkpoint that --task-id selects it too.
TaskSelectable ==
    \A w \in Workers : Actionable(w) => Cardinality(Matches(checkpoint.rows[w].task)) = 1
=============================================================================
