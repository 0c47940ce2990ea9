SPECIFICATION Spec
CONSTANTS
  LastEntry = 6
  SectorSize = 1
  SectorsPerCluster = 2
  MaxFd = 4
  RootCluster = 2
  Closed = Closed
  FdArgs <- MCFdArgs
  Bytes = {0, 1, 2}
  Payloads <- MCPayloads
  ReadSizes = {0, 3}
  Offsets <- MCOffsets
  MaxPosition = 5
  MaxWrites = 2
  SharedOpens = TRUE
  MaxCrashes = 0
  WriteAfterCrash = FALSE
  FormattedFat <- MCFormattedFat
  FormattedData <- MCFormattedData
  FormattedDir <- MCFormattedDir
INVARIANTS
  ChainsApart
  SizeBacked
  WriteWithinCluster
PROPERTIES
  ShortOnlyWhenFull
  EveryCallReturns
