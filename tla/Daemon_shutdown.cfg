CONSTANTS
  Clients = {c1}
  Ops = {"stop"}
  Recordings = {r1}
  DiagCap = 1
  UiCap = 1
  AnalysisCap = 5
  MaxContainers = 1
  MaxRequests = 3
  MaxType = 1
  Headless = FALSE
  Stops = TRUE
  HangUps = FALSE
SPECIFICATION FairSpec
PROPERTY ShutdownCompletes
CHECK_DEADLOCK FALSE
