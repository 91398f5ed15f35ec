SPECIFICATION AgentsSpec
CONSTANTS
  Watcher = {w1, w2, w3}
  BrokerWatchers = {w1, w2}
  NoPid = NoPid
  Faults = {"crash", "disk"}
  NoArtifact = NoArtifact
  boss = boss
  helper = helper
  task = task
  ask = ask
  junk = junk
  Artifact <- ArtifactsWithJunk
  Agent <- Agents
  Attached <- Surfaceless
  Kind <- Kinds
  Sender <- Senders
  Target <- Targets
  Tabs <- Team
  MaxRuns = 2
  NoName = NoName
INVARIANT Singleton
INVARIANT RecordsAgree
INVARIANT RunningIsComplete
PROPERTY DeliveryKept
CHECK_DEADLOCK FALSE
