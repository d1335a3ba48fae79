CONSTANTS
  Clients = {c1}
  Ops = {"analyze"}
  Recordings = {r1, r2}
  DiagCap = 1
  UiCap = 1
  AnalysisCap = 5
  MaxContainers = 0
  MaxRequests = 24
  MaxType = 0
  Headless = FALSE
  Stops = FALSE
  HangUps = FALSE
SPECIFICATION Spec
INVARIANT NeverDeadlocked
CHECK_DEADLOCK FALSE
