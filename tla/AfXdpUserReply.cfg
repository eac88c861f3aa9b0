\* The program with Lesson 3 enabled, its frames exactly the fill and the rx ring.
CONSTANTS
  NumFrames = 4
  FillSize = 2
  RxSize = 2
  TxSize = 1
  CqSize = 1
  RxBatchSize = 1
  KernelMax = 1
  ReplyEnabled = TRUE
SPECIFICATION FairSpec
INVARIANTS TypeOK NoAlias NoLeak FreeAssertHolds OutstandingExact
PROPERTIES OwnershipKept FramesReturn
