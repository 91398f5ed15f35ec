--------------------------- MODULE MCMessageBroker ---------------------------
(***************************************************************************)
(* Instances of MessageBroker for TLC.                                     *)
(***************************************************************************)
EXTENDS MessageBroker, TLC

CONSTANTS boss, helper, task, ask, junk

Agents == {boss, helper}
Surfaceless == {boss}
Artifacts == {task, ask}
ArtifactsWithJunk == {task, ask, junk}

\* task goes to helper, which ask asks the controller to spawn.
Kinds == [a \in Artifact |->
            CASE a = task -> "message" [] a = ask -> "control" [] OTHER -> "nonobject"]
Senders == [a \in Artifact |-> boss]
Targets == [a \in Artifact |-> helper]
=============================================================================
