SPECIFICATION FairSpec
CONSTANTS
  Cap = 1
  Debounce = 3
  MaxExponent = 2
  Pause = 1
  Enabled = {"Warning", "LowBattery"}
PROPERTIES DebounceHolds WarningArrives LowBatteryArrives StoreIsGivenBack WorkerEnds
CHECK_DEADLOCK FALSE
