CONSTANTS
  Clients = {c1}
  Ops = {"stop"}
  Recordings = {r1}
  DiagCap = 1
  UiCap = 1
  AnalysisCap = 5
  MaxContainers = 1
  MaxRequests = 3
  MaxType = 1
  Headless = TRUE
  Stops = FALSE
  HangUps = FALSE
SPECIFICATION Spec
INVARIANT DiagSurvivesDetection
CHECK_DEADLOCK FALSE
