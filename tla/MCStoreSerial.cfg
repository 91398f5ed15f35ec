SPECIFICATION Spec
CONSTANTS
  Reason = {r1}
  Identity = {p1, p2}
  Actor = {alice}
  WorkflowId = {w1}
  MaxTotalExecutions = 3
  NoSeal = NoSeal
  Cli = {c1}
  Commands = {"next", "decide", "apply", "approve", "edit", "crash"}
  Classes = {"standard"}
  PhaseArg = {"verify", "impl"}
  MaxReplans = 1
  FixLoopLimit = 1
  FsyncMayFail = FALSE
  NoArtifact = NoArtifact
  NoSnapshot = NoSnapshot
  Nobody = Nobody
  MaxGeneration = 0
  ReplanCap = 1
  RetryMax <- SmallRetryMax
  OnFail <- CardOnFail
INVARIANT TypeOK
INVARIANT ExecutionsAccounted
INVARIANT FixLoopHardLimit
INVARIANT DecisionsBacked
CHECK_DEADLOCK FALSE
