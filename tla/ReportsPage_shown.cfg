SPECIFICATION SpecAll
CONSTANTS
  MaxRows = 3
  MaxVersions = 2
  MaxAsks = 2
  MaxFaults = 2
INVARIANTS
  TypeOK
  ReportWhole
  FirstReportShown
PROPERTIES
  LinesStay
CHECK_DEADLOCK FALSE
