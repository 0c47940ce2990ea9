SPECIFICATION DiskSpec
CONSTANTS
  Ports = {0, 1}
  PollLimit = 1
  Lbas = {l1, l2}
  Values = {v1, v2}
  Zero = v1
  DelayIsEnough = TRUE
  PollingIsEnough = TRUE
  MayFail = TRUE
  MaxCalls = 2
INVARIANTS
  SelectedPortRuns
  MemoryNotShared
PROPERTIES
  EnginesInOrder
  BringUpEnds
  ReadsWhatWasWritten
  ReadsSucceed
  EveryCallReturns
\* No more calls are made than MaxCalls.
CHECK_DEADLOCK FALSE
