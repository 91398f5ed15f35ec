------------------------------ MODULE AgentRun ------------------------------
(***************************************************************************)
(* The life of a `cmux-agent` run: start, stop, recover, register, smoke,  *)
(* and the workers a watcher adds.                                         *)
(*                                                                         *)
(* The runs and agents tables of `.agent/state.db`, and the cmux workspace *)
(* of each run.  No command locks the tables or looks for a run that is    *)
(* already active: starts interleave here with one another and with one    *)
(* other command at a time, and each may end between two writes.  A        *)
(* directory that is deleted takes the tables with it; a process that      *)
(* still holds them writes into the deleted file.  Runs are numbered in    *)
(* the order of their creation.                                            *)
(***************************************************************************)
EXTENDS Naturals, Sequences

CONSTANTS
  MaxRuns,    \* bound: runs ever created
  Tabs,       \* the agents a start registers, controller first
  NoName

Runs == 1..MaxRuns
TabNames == {Tabs[i] : i \in DOMAIN Tabs}

RunAssumption ==
  /\ MaxRuns \in Nat
  /\ Tabs \in Seq(TabNames) /\ Tabs # <<>>
  /\ NoName \notin TabNames

VARIABLES
  status,     \* per run: its row, "none" before and "erased" with the directory
  recorded,   \* per run: its row names its workspace
  workspace,  \* per run: its workspace in cmux
  team,     \* per run: the names that have a row in the agents table
  start,      \* per run: where its cmd_start is
  tab,        \* per run: how many tabs cmd_start registered
  command     \* the other command under way: its run, and its steps to come

runVars == <<status, recorded, workspace, team, start, tab, command>>

NoCommand == [run |-> 0, name |-> NoName, todo |-> <<>>]
Starting == {"created", "opened", "recorded"}

RunInit ==
  /\ status = [r \in Runs |-> "none"]
  /\ recorded = [r \in Runs |-> FALSE]
  /\ workspace = [r \in Runs |-> "none"]
  /\ team = [r \in Runs |-> {}]
  /\ start = [r \in Runs |-> "new"]
  /\ tab = [r \in Runs |-> 0]
  /\ command = NoCommand

\* A row that can still be read and written.
Kept(r) == status[r] \notin {"none", "erased"}

\* save_run and update_run_status write whatever the row holds by now; what was
\* deleted stays deleted.
Written(r, s) == IF Kept(r) THEN [status EXCEPT ![r] = s] ELSE status

\* get_active_run: the newest run that is created or running, 0 when there is none.
Active ==
  LET open == {r \in Runs : status[r] \in {"CREATED", "RUNNING"}}
  IN  IF open = {} THEN 0 ELSE CHOOSE r \in open : \A q \in open : q <= r

Reachable(r) == recorded[r] /\ workspace[r] = "open"

-----------------------------------------------------------------------------
(* cmd_start.                                                              *)

Create(r) ==
  /\ start[r] = "new" /\ \A q \in 1..(r - 1) : start[q] # "new"
  /\ status' = [status EXCEPT ![r] = "CREATED"]
  /\ start' = [start EXCEPT ![r] = "created"]
  /\ UNCHANGED <<recorded, workspace, team, tab, command>>

\* A workspace that cannot be made ends the command and leaves the row.
OpenWorkspace(r) ==
  /\ start[r] = "created"
  /\ \/ start' = [start EXCEPT ![r] = "over"] /\ UNCHANGED workspace
     \/ /\ start' = [start EXCEPT ![r] = "opened"]
        /\ workspace' = [workspace EXCEPT ![r] = "open"]
  /\ UNCHANGED <<status, recorded, team, tab, command>>

\* Mutant: the run is published with its workspace, before its agents.
RecordRunning(r) ==
  /\ start[r] = "opened"
  /\ status' = Written(r, "RUNNING")
  /\ recorded' = [recorded EXCEPT ![r] = Kept(r)]
  /\ start' = [start EXCEPT ![r] = "recorded"]
  /\ UNCHANGED <<workspace, team, tab, command>>

\* The second save: the run with its workspace, and the status it was created with.
RecordWorkspace(r) ==
  /\ start[r] = "opened"
  /\ status' = Written(r, "CREATED")
  /\ recorded' = [recorded EXCEPT ![r] = Kept(r)]
  /\ start' = [start EXCEPT ![r] = "recorded"]
  /\ UNCHANGED <<workspace, team, tab, command>>

\* A tab that cmux refuses is registered without a surface.
RegisterTab(r) ==
  /\ start[r] = "recorded" /\ tab[r] < Len(Tabs)
  /\ tab' = [tab EXCEPT ![r] = @ + 1]
  /\ team' = IF Kept(r) THEN [team EXCEPT ![r] = @ \cup {Tabs[tab[r] + 1]}] ELSE team
  /\ UNCHANGED <<status, recorded, workspace, start, command>>

\* The third save; the transition is checked against the object in memory.
Publish(r) ==
  /\ start[r] = "recorded" /\ tab[r] = Len(Tabs)
  /\ status' = Written(r, "RUNNING")
  /\ start' = [start EXCEPT ![r] = "over"]
  /\ UNCHANGED <<recorded, workspace, team, tab, command>>

StartDies(r) ==
  /\ start[r] \in Starting
  /\ start' = [start EXCEPT ![r] = "over"]
  /\ UNCHANGED <<status, recorded, workspace, team, tab, command>>

-----------------------------------------------------------------------------
\* The user, or cmux itself, closes a workspace.
CloseWorkspace(r) ==
  /\ workspace[r] = "open"
  /\ workspace' = [workspace EXCEPT ![r] = "gone"]
  /\ UNCHANGED <<status, recorded, team, start, tab, command>>

-----------------------------------------------------------------------------
(* The other commands: what they read first decides their steps.           *)

Begin(r, n, todo) ==
  /\ command = NoCommand /\ todo # <<>>
  /\ command' = [run |-> r, name |-> n, todo |-> todo]
  /\ UNCHANGED <<status, recorded, workspace, team, start, tab>>

\* cmd_register for the active run, and spawn_worker for the run its watcher was
\* bound to, active or not by now: a name that has no row.  Only names that a
\* start registers too are told apart.
Join(r, n) ==
  /\ Kept(r) /\ n \notin team[r]
  /\ r = Active \/ (recorded[r] => Reachable(r))
  /\ Begin(r, n, <<"join">>)

\* recover_stale_run: the probe of the active run's workspace, which `force` skips.
RecoverStaleRun(force) ==
  /\ Active # 0
  /\ force \/ ~Reachable(Active)
  /\ Begin(Active, NoName, <<"fail">>)

\* cmd_stop: the run asked for, in any status, or the active or the latest one.
\* The workspace is closed as the row named it when the command read it.
StopRun(r, keep, clean) ==
  /\ Kept(r)
  /\ Begin(r, NoName, (IF ~keep /\ recorded[r] THEN <<"close">> ELSE <<>>)
                      \o <<"complete">> \o (IF clean THEN <<"clean">> ELSE <<>>))

\* The finally of cmd_smoke: for the run that was active after its start, or for
\* none when the start failed, and in both cases for the whole directory.
CleanSmoke(r) ==
  /\ \E q \in Runs : start[q] = "over"
  /\ r \in {0, Active}
  /\ Begin(r, NoName, (IF r = 0 THEN <<>> ELSE <<"complete">>)
                      \o (IF r # 0 /\ recorded[r] THEN <<"close">> ELSE <<>>) \o <<"clean">>)

\* rmtree of the directory, with every run in it.
Erased == [r \in Runs |-> IF status[r] = "none" THEN "none" ELSE "erased"]

\* cmux may refuse to close a workspace or to make a surface, and a write may fail:
\* the command goes on to its next step.
CommandStep ==
  /\ command # NoCommand
  /\ LET step == Head(command.todo)
         rest == Tail(command.todo)
         r == command.run
     IN  /\ command' = IF rest = <<>> THEN NoCommand ELSE [command EXCEPT !.todo = rest]
         /\ \/ step = "join" /\ Kept(r) /\ team' = [team EXCEPT ![r] = @ \cup {command.name}]
               /\ UNCHANGED <<status, workspace>>
            \/ step = "fail" /\ status' = Written(r, "FAILED") /\ UNCHANGED <<team, workspace>>
            \/ step = "close" /\ workspace' = [workspace EXCEPT ![r] = "gone"]
               /\ UNCHANGED <<team, status>>
            \/ step = "complete" /\ status' = Written(r, "COMPLETED")
               /\ UNCHANGED <<team, workspace>>
            \/ step = "clean" /\ status' = Erased /\ team' = [q \in Runs |-> {}]
               /\ UNCHANGED workspace
            \/ step \in {"join", "fail", "close"} /\ UNCHANGED <<team, status, workspace>>
  /\ UNCHANGED <<recorded, start, tab>>

CommandDies ==
  /\ command # NoCommand
  /\ command' = NoCommand
  /\ UNCHANGED <<status, recorded, workspace, team, start, tab>>

-----------------------------------------------------------------------------

RunNext ==
  \/ \E r \in Runs : \/ Create(r) \/ OpenWorkspace(r) \/ RecordWorkspace(r)
                     \/ RegisterTab(r) \/ Publish(r) \/ StartDies(r) \/ CloseWorkspace(r)
                     \/ \E n \in TabNames : Join(r, n)
                     \/ \E keep, clean \in BOOLEAN : StopRun(r, keep, clean)
  \/ \E force \in BOOLEAN : RecoverStaleRun(force)
  \/ \E r \in Runs \cup {0} : CleanSmoke(r)
  \/ CommandStep \/ CommandDies

RunSpec == RunInit /\ [][RunNext]_runVars

-----------------------------------------------------------------------------

\* A run is RUNNING only with its workspace on record and every tab registered,
\* whatever other command read, failed, stopped or deleted it while cmd_start was
\* at work: `task` and the watcher never meet half a team (cmd_start).
RunningIsComplete ==
  \A r \in Runs : status[r] = "RUNNING" => recorded[r] /\ TabNames \subseteq team[r]
=============================================================================
