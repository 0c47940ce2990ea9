SPECIFICATION Spec
CONSTANTS
  LastEntry = 6
  SectorSize = 1
  SectorsPerCluster = 2
  MaxFd = 4
  RootCluster = 2
  Closed = Closed
  FdArgs <- MCFdArgs
  Bytes = {0, 1, 2}
  Payloads <- MCShortPayloads
  ReadSizes = {0, 3}
  Offsets = {2}
  MaxPosition = 6
  MaxWrites = 2
  SharedOpens = FALSE
  MaxCrashes = 1
  WriteAfterCrash = FALSE
  FormattedFat <- MCEmptyFat
  FormattedData <- MCFormattedData
  FormattedDir <- MCEmptyDir
INVARIANTS
  NoClusterLost
PROPERTIES
  FileStoreSpec
