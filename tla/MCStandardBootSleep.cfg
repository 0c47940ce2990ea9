SPECIFICATION Spec
CONSTANTS
  Byte = 2
  TargetCount = 7
  MaxTicks = 9
  SleepPeriods = 1
  RingSize = 2
  KeyQueue = 2
  MaxPackets = 3
  MaxKeys = 3
  ScanCodes = {"shift", "other"}
INVARIANT SleepsLongEnough
CHECK_DEADLOCK FALSE
