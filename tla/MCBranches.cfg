SPECIFICATION BranchesSpec
CONSTANTS
  Kinds = {"sync", "exact", "outOfOrder"}
  Source = {1, 2, 3, 4}
  Sha = {1, 2, 3, 4, 5}
  NoSha = 0
  NoSource = 0
  Patches = 2
  Delta <- MCDelta
  Conflict <- MCConflict
  NoLease = NoLease
  Faulty = TRUE
  MaxMoves = 2
  MaxEdits = 2
  MaxCrashes = 1
INVARIANTS
  ReadyMeansVerified
  ConflictKept
PROPERTY
  CommitsKept
CHECK_DEADLOCK FALSE
