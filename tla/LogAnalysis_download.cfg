SPECIFICATION SpecLogs
CONSTANTS
  Threshold = 3
  Messages <- MCMessages
  Enabled <- MCDefaults
INVARIANT DownloadHasEveryPacket
