SPECIFICATION Spec
CONSTANTS
  Plain = {"00"}
  Crc <- MCCrc
  Payloads <- ManyPayloads
  Damaged <- AnyDamage
  Unterminated = FALSE
  MaxContainers = 1
INVARIANTS
  TypeOK
  IntactFramesRead
  RereadIsLive
  ReadsWhatWasDue
PROPERTY
  InOrder
CHECK_DEADLOCK FALSE
