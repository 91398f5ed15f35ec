SPECIFICATION Spec
CONSTANTS
  Reason = {r1}
  Identity = {p1}
  Actor = {alice}
  WorkflowId = {w1, w2}
  MaxTotalExecutions = 1
  NoSeal = NoSeal
  Cli = {c1, c2}
  Commands = {"confirm", "crash", "apply", "dbcheck", "reset"}
  Classes = {"small"}
  PhaseArg = {"test"}
  MaxReplans = 1
  FixLoopLimit = 1
  FsyncMayFail = TRUE
  NoArtifact = NoArtifact
  NoSnapshot = NoSnapshot
  Nobody = Nobody
  MaxGeneration = 1
  ReplanCap = 1
  RetryMax <- SmallRetryMax
  OnFail <- PlanOnFail
SYMMETRY CliSymmetry
INVARIANT EscalationInv
INVARIANT GatesInv
PROPERTY EscalationSticks
CHECK_DEADLOCK FALSE
