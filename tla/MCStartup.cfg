CONSTANTS
  Pages <- MCPages
  Layouts <- MCLayouts
  Image = {2, 3}
  KernelStack = {4}
  BitmapStart = 5
  PerPage = 14
  LowLimit = 7
  FilePages = 2
  StackPages = 1
  HeapPages = 2
  AhciPages = 1
  Directories = 2
  Reach = 14
  Dma = 14
  Requests = {1, 2}
SPECIFICATION Spec
CHECK_DEADLOCK FALSE
INVARIANTS
  FixedPlacesSafe
  KernelIntact
  IdentityMapped
  CallersUndisturbed
