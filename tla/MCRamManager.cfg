SPECIFICATION Spec
CONSTANTS
  Conventional <- MCConventional
  LowLimit = 1
  Requests <- MCRequests
  Alignments <- MCAlignments
  FailedSector <- MCFailedSector
INVARIANTS
  HeldApart
  BooksBalance
PROPERTIES
  FirstFitAllocator
  EveryCallReturns
