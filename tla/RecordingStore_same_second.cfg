SPECIFICATION Spec
CONSTANTS
  Names = {1, 2}
  MaxEntries = 2
  MaxSize = 2
  Crashes = FALSE
INVARIANT SizeIsValidBlock
CHECK_DEADLOCK FALSE
