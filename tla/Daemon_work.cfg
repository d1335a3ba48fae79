CONSTANTS
  Clients = {c1, c2}
  Ops = {"start", "stop", "delete", "delete all", "analyze"}
  Recordings = {r1, r2}
  DiagCap = 1
  UiCap = 1
  AnalysisCap = 1
  MaxContainers = 1
  MaxRequests = 3
  MaxType = 1
  Headless = FALSE
  Stops = FALSE
  HangUps = FALSE
SPECIFICATION Spec
SYMMETRY ClientSymmetry
INVARIANTS
  TypeOK
  RecordingMatchesStore
  DiagPanicsOnlyInShutdown
  WorkerNeverPanics
  NoLostWakeup
  LineTellsRecording
  NameOnce
PROPERTIES
  ImplementsQueue
  DeadlockLasts
CHECK_DEADLOCK FALSE
