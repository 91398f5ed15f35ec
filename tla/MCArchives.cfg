SPECIFICATION ArchivesSpec
CONSTANTS
  Commands = {"discard", "branch", "repack", "release"}
  Policies = {"clean", "dirty"}
  Tip = {1, 2}
  NoTip = 0
  Content = {1, 2}
  Lost = 0
  Checkpoint = 0
  Unreserved = Unreserved
  MaxRefreshes = 2
  MaxMoves = 2
  MaxFaults = 2
  Commits = {1, 2}
  NoCommit = 0
  MaxOwners = 3
  MaxChanges = 3
  MaxDeaths = 2
  Places = {"remote", "local"}
  Bars = {"pull", "foreign"}
  MaxSpoils = 1
  MaxFailures = 3
  LeaseId = {"bridge"}
  Bridge = "bridge"
  Sha = {1, 2, 3, 4, 5, 6}
  NoSha = 0
  NoReservation = NoReservation
  Source = {1, 2}
  NoSource = 0
  Pr = {"final"}
  TargetPr = "final"
  NoPr = NoPr
  NoLease = NoLease
  NoRelease = NoRelease
  Faulty = TRUE
  MaxVersion = 4
  MaxDrift = 1
  MaxEdits = 1
  MaxCrashes = 1
INVARIANTS
  LeftoversExplained
  DeletionsAccounted
  BackupKept
  RestoredWhole
  OnlyVerifiedLeaves
  HeadHasSources
PROPERTIES
  GoneIsArchived
  UserStateKept
  DeletedSafely
CHECK_DEADLOCK FALSE
