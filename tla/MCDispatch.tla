------------------------------ MODULE MCDispatch ------------------------------
(***************************************************************************)
(* The two commands that hand work to providers and record its progress on *)
(* disk: the native OMP batch with its checkpoint, and `awf analyze` with  *)
(* its state file.  Each behaviour is of one of them; the state of the     *)
(* other stays as it is.                                                   *)
(***************************************************************************)
EXTENDS OmpBatch, AnalysisRun, TLC

CONSTANTS Systems  \* "batch", "analysis"

VARIABLES system

ASSUME OmpAssumption /\ AnalysisAssumption

DispatchInit ==
  /\ system \in Systems
  /\ Init /\ AnalysisInit
  /\ system = "batch" => source = CHOOSE s \in Sources : TRUE
  /\ system = "batch" => config = CHOOSE c \in Configs : TRUE
  /\ system = "analysis" => persist

DispatchNext ==
  \/ system = "batch" /\ Next /\ UNCHANGED <<system, analysisVars>>
  \/ system = "analysis" /\ AnalysisNext /\ UNCHANGED <<system, vars>>

DispatchSpec == DispatchInit /\ [][DispatchNext]_<<system, vars, analysisVars>>

Symmetry == Permutations(Workers) \cup Permutations(Files)
=============================================================================
