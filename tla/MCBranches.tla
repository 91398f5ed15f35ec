----------------------------- MODULE MCBranches -----------------------------
(***************************************************************************)
(* One pinned branch under sync, exact or out-of-order promotion.          *)
(***************************************************************************)
EXTENDS PinnedBranches

\* Source 1 is never in the way, 2 meets a conflict that a later target does
\* not have, 3 is not what the first target takes and in the later ones, 4
\* conflicts with all of them.
MCDelta(s, t) ==
  IF s # 3 THEN "change" ELSE IF t = 1 THEN "mismatch" ELSE "same"

MCConflict(s, k, t) == s = 4 \/ (s = 2 /\ k = 2 /\ t = 1)
=============================================================================
