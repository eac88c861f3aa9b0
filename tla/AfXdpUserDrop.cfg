\* The program as shipped: replies compiled out, the frames exactly the fill and the rx ring.
CONSTANTS
  NumFrames = 6
  FillSize = 3
  RxSize = 3
  TxSize = 1
  CqSize = 1
  RxBatchSize = 2
  KernelMax = 1
  ReplyEnabled = FALSE
SPECIFICATION Spec
INVARIANTS CachedViewsSafe ReserveNeverShort InvalidBounded NeverStarved
