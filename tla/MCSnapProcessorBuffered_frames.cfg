SPECIFICATION FairSpec

CONSTANTS
  BufferSize = 4
  ActivePercent = 75
  QueueLen = 3
  FrameSizes = {1, 2, 3, 5}
  I16 = 6
  MaxBytes = 8

INVARIANT TypeOK
INVARIANT Framing
INVARIANT KeepsUp
PROPERTY EveryFrameDecoded
PROPERTY FrameQueue

\* The bounds of the model end its behaviours; stop() never returns.
CHECK_DEADLOCK FALSE
