SPECIFICATION FairSpec

CONSTANTS
  BufferSize = 3
  ActivePercent = 100
  QueueLen = 3
  FrameSizes = {1, 2, 4}
  MaxBytes = 6

INVARIANT TypeOK
PROPERTY FrameQueue
PROPERTY WriteReturns
PROPERTY PlaybackProgress

\* The bounds of the model end its behaviours; stop() never returns.
CHECK_DEADLOCK FALSE
