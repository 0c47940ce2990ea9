SPECIFICATION DiskSpec
CONSTANTS
  Ports = {0}
  PollLimit = 1
  Lbas = {l1, l2}
  Values = {v1, v2}
  Zero = v1
  DelayIsEnough = TRUE
  PollingIsEnough = FALSE
  MayFail = FALSE
  MaxCalls = 3
PROPERTIES
  ReadsWhatWasWritten
CHECK_DEADLOCK FALSE
