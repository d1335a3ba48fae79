SPECIFICATION FairSpec
CONSTANTS
  Bounce = 1
  Shortest = 2
  Longest = 3
  DiagCap = 1
  Never = Never
  MaxTime = 6
  MaxEvents = 8
  MaxOthers = 1
INVARIANT TwoReleasesEach
PROPERTIES OnlyDoublePresses StopThenStart
CHECK_DEADLOCK FALSE
