SPECIFICATION Spec
CONSTANTS
  Byte = 2
  TargetCount = 7
  MaxTicks = 9
  SleepPeriods = 1
  RingSize = 2
  KeyQueue = 1
  MaxPackets = 2
  MaxKeys = 2
  ScanCodes = {"shift", "shift_up", "F1"}
  Words = {"cd", "ls", "reboot", "A", ".."}
  MaxInput = 2
  RootCluster = 2
  Entries <- MCEntries
  Following <- MCFollowing
  EndOfChain = 1000
INVARIANTS
  NoPollAfterReady
  DirIsDirectory
PROPERTIES
  BootEnds
  KeysAreTaken
CHECK_DEADLOCK FALSE
