CONSTANTS
  Clients = {c1, c2}
  Ops = {"start", "stop", "delete", "delete all", "analyze"}
  Recordings = {r1, r2}
  DiagCap = 1
  UiCap = 1
  AnalysisCap = 5
  MaxContainers = 1
  MaxRequests = 2
  MaxType = 1
  Headless = FALSE
  Stops = TRUE
  HangUps = TRUE
SPECIFICATION Spec
SYMMETRY ClientSymmetry
INVARIANTS
  RecordingMatchesStore
  DiagPanicsOnlyInShutdown
  WorkerNeverPanics
  LineTellsRecording
PROPERTY ImplementsQueue
CHECK_DEADLOCK FALSE
