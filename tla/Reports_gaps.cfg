SPECIFICATION Spec
CONSTANTS
  MaxRows = 3
  MaxVersions = 2
  MaxAsks = 2
  MaxFaults = 2
INVARIANT
  NoGaps
CHECK_DEADLOCK FALSE
