---------------------------- MODULE MCWorktrees ----------------------------
(* Instances of WorktreeCleanup for TLC. *)
EXTENDS WorktreeCleanup

CONSTANTS p1, p2

\* A promotion is finished by one process and refreshed by another, without
\* the lock; an import is finished by two; the rest runs one after the other.
Division ==
  [k \in Kinds |->
    [p \in Proc |->
      CASE k = "promotion" /\ p = p1 -> {"gc"}
        [] k = "promotion" /\ p = p2 -> {"status"}
        [] k = "feature" /\ p = p1 ->
             {"acquire", "link", "finish", "compact"}
        [] k = "imported" /\ p = p1 -> {"import", "adopt", "finish"}
        [] k = "imported" /\ p = p2 -> {"status", "finish"}
        [] k = "release" /\ p = p1 -> {"status", "finish", "compact"}
        [] OTHER -> {}]]

\* A release gets as far as closed, reopened, merged and healthy.
Edits == [k \in Kinds |-> IF k = "release" THEN 3 ELSE 1]

Versions == [k \in Kinds |-> IF k \in {"feature", "imported"} THEN 3 ELSE 2]

Two == 1..2
=============================================================================
