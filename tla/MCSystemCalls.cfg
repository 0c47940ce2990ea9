SPECIFICATION CallsSpec
CONSTANTS
  Programs <- MCPrograms
  FdNumbers = {3, 4}
  Closed = Closed
  Sectors = {0, 1, 2, 3, 4, 5, 6, 7, 8, 9}
  Nowhere = 11
  PageSize = 2
  TestContents <- MCTexts
  TestData <- MCTestData
  BufSize = 3
  FreeAtFirst <- MCFree
  ContainerPages = 2
  MaxCalls = 2
INVARIANTS
  KernelGetsItsAnswer
  SelfTestReadsBack
  BootLeavesNothing
  WhatRunsIsTheProgram
PROPERTIES
  OnlyOwnMemory
  LoadEnds
\* The kernel halts in the end, and a page fault halts it too.
CHECK_DEADLOCK FALSE
