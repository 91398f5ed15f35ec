SPECIFICATION DispatchSpec
CONSTANTS
  Systems = {"batch", "analysis"}
  Workers = {w1, w2}
  SessionModes = {TRUE, FALSE}
  MaxAttempts = 2
  MaxCalls = 2
  MaxFollowUps = 1
  Files = {spec, overview}
  Sources = {s1, NoSources}
  NoSources = NoSources
  Configs = {c1, c2}
  DeepConfigs = {c2}
  Cross = TRUE
  MaxRuns = 3
  None = None
  Deleted = Deleted
SYMMETRY Symmetry
INVARIANTS
  OneCoordinator
  SuccessIsDurable
  CheckpointReadable
  OneGeneration
  FailedStage3Counts
PROPERTY
  HandlesKept
CHECK_DEADLOCK FALSE
