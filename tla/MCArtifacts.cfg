SPECIFICATION ArtifactsSpec
CONSTANTS
  Systems = {"options", "evidence", "lsp"}
  Check = {p1, p2}
  Selector = {p1, p2}
  Unset = Unset
  Setup = {p1, p2}
  Entry = {p1, p2, u, m}
  Toml = 2
  Settings = {p1, p2, u}
  Mention = m
  Own <- MCOwn
  Missing = Missing
  None = None
  Decision = {d1, d2}
  Option = {a, b}
  Output = {f1, f2}
  MaxSelections = 3
  Schema = {s1, s2}
  MaxAge = 0
  MaxTime = 1
  MaxChanges = 1
  Files = 2
  MaxEdits = 1
  MaxRuns = 2
SYMMETRY Symmetry
INVARIANTS
  SelectionReconciled
  EvidenceSound
  NothingLost
PROPERTIES
  ReplanStartsClean
  RecordsKept
CHECK_DEADLOCK FALSE
