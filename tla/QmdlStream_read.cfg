SPECIFICATION Spec
CONSTANTS
  Plain = {"00"}
  Crc <- MCCrc
  Payloads <- MCPayloads
  Damaged <- MCDamaged
  Unterminated = FALSE
  MaxContainers = 2
INVARIANTS
  IntactFramesRead
  RereadIsLive
  ReadsWhatWasDue
PROPERTY
  InOrder
CHECK_DEADLOCK FALSE
