------------------------------- MODULE MCAgents -------------------------------
(***************************************************************************)
(* The parts of cmux-agent for TLC: the pid lock by itself, the watcher    *)
(* with its broker when operators are careful with that lock, and the      *)
(* commands that begin and end a run.  Each behaviour is of one of them;   *)
(* the state of the others stays as it is.                                 *)
(***************************************************************************)
EXTENDS MCMessageBroker, AgentRun

Team == <<"controller", "orchestrator">>

\* Of the pids there are, those of watchers that reach the broker.
CONSTANTS BrokerWatchers

VARIABLES part

ASSUME RunAssumption

AgentsInit ==
  /\ part \in {"lock", "broker", "team"}
  /\ Init /\ RunInit

AgentsNext ==
  \/ part = "lock" /\ LockNext /\ UNCHANGED <<part, brokerVars, runVars>>
  \/ /\ part = "broker" /\ Next /\ UNCHANGED <<part, runVars>>
     /\ Careful' /\ \A w \in Watcher \ BrokerWatchers : watcher'[w] = "new"
  \/ part = "team" /\ RunNext /\ UNCHANGED <<part, vars>>

AgentsSpec == AgentsInit /\ [][AgentsNext]_<<part, vars, runVars>>
=============================================================================
