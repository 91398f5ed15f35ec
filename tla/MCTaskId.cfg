SPECIFICATION DispatchSpec
CONSTANTS
  Systems = {"batch"}
  Workers = {w1, w2}
  SessionModes = {TRUE, FALSE}
  MaxAttempts = 2
  MaxCalls = 2
  MaxFollowUps = 1
  Files = {spec}
  Sources = {s1}
  NoSources = NoSources
  Configs = {c1}
  DeepConfigs = {}
  Cross = FALSE
  MaxRuns = 1
  None = None
  Deleted = Deleted
INVARIANT TaskSelectable
CHECK_DEADLOCK FALSE
