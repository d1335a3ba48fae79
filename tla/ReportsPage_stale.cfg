SPECIFICATION SpecAll
CONSTANTS
  MaxRows = 3
  MaxVersions = 1
  MaxAsks = 2
  MaxFaults = 0
INVARIANT
  ReportShown
CHECK_DEADLOCK FALSE
