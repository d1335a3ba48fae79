SPECIFICATION SpecLogs
CONSTANTS
  Threshold = 10
  Messages <- MCMessages
  Enabled <- Heuristics
INVARIANTS PcapTellsTheSame NoAuthIsNoticed
PROPERTIES ChainDetected RequestAfterAuthWarns WarningIsDocumented
