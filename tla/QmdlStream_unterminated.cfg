SPECIFICATION Spec
CONSTANTS
  Plain = {"00"}
  Crc <- MCCrc
  Payloads <- MCPayloads
  Damaged <- MCDamaged
  Unterminated = TRUE
  MaxContainers = 1
INVARIANT
  ReadsWhatWasDue
CHECK_DEADLOCK FALSE
