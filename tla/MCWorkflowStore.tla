--------------------------- MODULE MCWorkflowStore ---------------------------
(***************************************************************************)
(* Instances of WorkflowStore for TLC, with the shipped agent cards.       *)
(***************************************************************************)
EXTENDS WorkflowStore, TLC

\* retry.max of wf-orchestrator/templates/agent-cards/*.json.
CardRetryMax ==
  [plan |-> 3, review |-> 2, approve |-> 1, impl |-> 5, verify |-> 2, test |-> 3, done |-> 0]

\* A smaller budget, so that exhausting it fits the execution bound.
SmallRetryMax ==
  [plan |-> 1, review |-> 1, approve |-> 1, impl |-> 1, verify |-> 1, test |-> 1, done |-> 0]

\* gate.on_fail of the same cards; "stay" is a failure no card key matches.
CardOnFail ==
  [plan |-> {"plan", "stay"},
   review |-> {"plan", "prompt_user", "stay"},
   approve |-> {"plan", "stay"},
   impl |-> {"impl", "stay"},
   verify |-> {"approve", "impl", "plan", "stay"},
   test |-> {"impl", "stay"},
   done |-> {"stay"}]

\* Routing reduced to the replan of a plan, for the runs about other steps.
PlanOnFail == [p \in Phase |-> CardOnFail[p] \cap {"plan"}]

CliSymmetry == Permutations(Cli)
=============================================================================
