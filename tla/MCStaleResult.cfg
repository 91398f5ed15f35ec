SPECIFICATION DispatchSpec
CONSTANTS
  Systems = {"analysis"}
  Workers = {w1}
  SessionModes = {TRUE}
  MaxAttempts = 1
  MaxCalls = 1
  MaxFollowUps = 0
  Files = {spec, overview}
  Sources = {s1, s2}
  NoSources = NoSources
  Configs = {c1}
  DeepConfigs = {}
  Cross = FALSE
  MaxRuns = 2
  None = None
  Deleted = Deleted
INVARIANT ReuseIsCurrent
CHECK_DEADLOCK FALSE
