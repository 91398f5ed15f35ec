----------------------------- MODULE MCArtifacts -----------------------------
(***************************************************************************)
(* Three commands that publish files other processes publish and edit too: *)
(* select-option and seal-plan, db-check, and lsp setup.  Each behaviour   *)
(* is of one of them; the state of the others stays as it is.              *)
(***************************************************************************)
EXTENDS DatabaseEvidence, PlanningOptions, LspSetup, TLC

CONSTANTS Systems  \* "options", "evidence", "lsp"

VARIABLES system

ASSUME OptionsAssumption /\ SetupAssumption

ArtifactsInit ==
  /\ system \in Systems
  /\ OptionsInit /\ Init /\ SetupInit
  /\ system # "lsp" => file = [f \in File |-> Missing]

ArtifactsNext ==
  \/ /\ system = "options" /\ OptionsNext
     /\ UNCHANGED <<system, vars, setupVars>>
  \/ /\ system = "evidence" /\ Next
     /\ UNCHANGED <<system, optionsVars, setupVars>>
  \/ /\ system = "lsp" /\ SetupNext
     /\ UNCHANGED <<system, optionsVars, vars>>

ArtifactsSpec == ArtifactsInit /\ [][ArtifactsNext]_<<system, optionsVars, vars, setupVars>>

Symmetry == Permutations(Check) \cup Permutations(Option) \cup Permutations(Output)
              \cup Permutations(Decision) \cup Permutations(Schema)

\* Every command adds one entry of its own to each file.
MCOwn == [p \in Setup |-> {p}]
=============================================================================
