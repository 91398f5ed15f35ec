----------------------------- MODULE WatcherLock -----------------------------
(***************************************************************************)
(* The pid lock `.agent/.watcher.pid` of `cmux-agent watch`.               *)
(*                                                                         *)
(* A start reads the file and asks the kernel whether the pid in it lives; *)
(* it then writes its own pid, with nothing that ties the two together.    *)
(* `recover` and `stop` remove the file without asking its owner.  Writing *)
(* truncates the file first: a reader that finds it empty takes the lock   *)
(* like one that came before the write, so the write is one step here.     *)
(***************************************************************************)
EXTENDS Naturals, FiniteSets

CONSTANTS
  Watcher,   \* pids of the watch processes ever started; none is used twice
  NoPid,     \* no lock file
  Faults     \* what the environment may do: see FaultKind

\* "crash": a watcher dies at any point (kill, closed surface).  "disk": a write to
\* an inbox, or the move of an artifact, fails.
FaultKind == {"crash", "disk"}

ASSUME LockAssumption == NoPid \notin Watcher /\ Faults \subseteq FaultKind

VARIABLES
  lockFile,    \* the pid in .watcher.pid
  watcher,     \* where each watch process is in cmd_watch
  runActive,   \* get_active_run finds a run
  exposed      \* history: watchers whose start raced with another one, or whose lock
               \* was removed by somebody else

lockVars == <<lockFile, watcher, runActive, exposed>>

WatcherState == {"new", "taking", "running", "unlinking", "dead"}

LockTypeOK ==
  /\ lockFile \in Watcher \cup {NoPid}
  /\ watcher \in [Watcher -> WatcherState]
  /\ runActive \in BOOLEAN
  /\ exposed \subseteq Watcher

LockInit ==
  /\ lockFile = NoPid
  /\ watcher = [w \in Watcher |-> "new"]
  /\ runActive = FALSE
  /\ exposed = {}

\* _pid_alive of a pid found in the file.
Live(w) == watcher[w] \in {"taking", "running", "unlinking"}

Become(w, state) == watcher' = [watcher EXCEPT ![w] = state]

-----------------------------------------------------------------------------
(* acquire.                                                                *)

Taking == {v \in Watcher : watcher[v] = "taking"}

\* A start that finds another one between its check and its write races with it.
Race(w) == exposed' = IF Taking = {} THEN exposed ELSE exposed \cup Taking \cup {w}

\* Mutant: any lock file that is not the starter's own counts as stale.
CheckWithoutProbe(w) ==
  /\ watcher[w] = "new"
  /\ Become(w, "taking")
  /\ Race(w)
  /\ UNCHANGED <<lockFile, runActive>>

\* A living owner refuses the start, which exits; a missing, unreadable or stale
\* lock is taken silently.
Check(w) ==
  /\ watcher[w] = "new"
  /\ IF lockFile \in Watcher /\ Live(lockFile)
     THEN Become(w, "dead") /\ UNCHANGED exposed
     ELSE Become(w, "taking") /\ Race(w)
  /\ UNCHANGED <<lockFile, runActive>>

Take(w) ==
  /\ watcher[w] = "taking"
  /\ lockFile' = w
  /\ Become(w, "running")
  /\ UNCHANGED <<runActive, exposed>>

-----------------------------------------------------------------------------
(* release, and other ways a lock or its owner goes.                       *)

\* The finally of cmd_watch: only the owner removes the file, in a second step, and
\* whoever's it is by then.
Release(w) ==
  /\ watcher[w] = "running"
  /\ Become(w, IF lockFile = w THEN "unlinking" ELSE "dead")
  /\ UNCHANGED <<lockFile, runActive, exposed>>

Unlink(w) ==
  /\ watcher[w] = "unlinking"
  /\ lockFile' = NoPid
  /\ Become(w, "dead")
  /\ exposed' = exposed \cup {v \in Watcher \ {w} : lockFile = v}
  /\ UNCHANGED runActive

Die(w) ==
  /\ "crash" \in Faults
  /\ Live(w)
  /\ Become(w, "dead")
  /\ UNCHANGED <<lockFile, runActive, exposed>>

StartRun == runActive' = TRUE /\ UNCHANGED <<lockFile, watcher, exposed>>

RemoveAnyLock ==
  /\ lockFile' = NoPid
  /\ exposed' = exposed \cup {w \in Watcher : Live(w)}

\* recover_stale_run, of a run whose workspace is gone, or forced.
Recover ==
  /\ runActive
  /\ runActive' = FALSE
  /\ RemoveAnyLock
  /\ UNCHANGED watcher

\* cmd_stop deletes the whole .agent directory, the lock with it.
Stop ==
  /\ runActive' = FALSE
  /\ RemoveAnyLock
  /\ UNCHANGED watcher

LockNext ==
  \/ \E w \in Watcher : Check(w) \/ Take(w) \/ Release(w) \/ Unlink(w) \/ Die(w)
  \/ StartRun \/ Recover \/ Stop

LockSpec == LockInit /\ [][LockNext]_lockVars

-----------------------------------------------------------------------------

\* One watcher at a time: whatever watchers die, release or find stale locks, two of
\* them run only if one is exposed: if its check was not over its write when the other's
\* came, or recover, stop or an exposed watcher on its way out removed its lock
\* (pid_lock.py:63-79, 98).  The others keep every later start out.
Singleton ==
  \A v, w \in Watcher \ exposed : watcher[v] = "running" /\ watcher[w] = "running" => v = w
=============================================================================
