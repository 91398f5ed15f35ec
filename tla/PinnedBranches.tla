--------------------------- MODULE PinnedBranches ---------------------------
(***************************************************************************)
(* One pinned branch: an instance runs `awf wt sync` with its recoveries,  *)
(* or exact or out-of-order promotions, while users, the pinned branches   *)
(* and deaths go on around it.                                             *)
(***************************************************************************)
EXTENDS SyncBranch, Promotion

BranchesNext == SyncNext \/ PromoteNext \/ Shared \/ World

BranchesSpec == Init /\ [][BranchesNext]_vars
=============================================================================
