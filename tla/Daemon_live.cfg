CONSTANTS
  Clients = {c1, c2}
  Ops = {"delete all", "analyze"}
  Recordings = {r1, r2}
  DiagCap = 1
  UiCap = 1
  AnalysisCap = 1
  MaxContainers = 1
  MaxRequests = 3
  MaxType = 1
  Headless = FALSE
  Stops = FALSE
  HangUps = FALSE
SPECIFICATION FairSpec
INVARIANT NoLostWakeup
PROPERTIES
  RequestsAnswered
  AnalysesFinish
CHECK_DEADLOCK FALSE
