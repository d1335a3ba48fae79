CONSTANTS
  Clients = {c1}
  Ops = {"start"}
  Recordings = {r1}
  DiagCap = 1
  UiCap = 1
  AnalysisCap = 5
  MaxContainers = 2
  MaxRequests = 3
  MaxType = 1
  Headless = FALSE
  Stops = FALSE
  HangUps = FALSE
SPECIFICATION Spec
INVARIANT LineShowsDetection
CHECK_DEADLOCK FALSE
