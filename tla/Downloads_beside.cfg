SPECIFICATION SpecAll
CONSTANTS
  Names = {1, 2}
  MaxEntries = 2
  MaxSize = 2
  Crashes = FALSE
INVARIANT UndisturbedZipIsWhole
CHECK_DEADLOCK FALSE
