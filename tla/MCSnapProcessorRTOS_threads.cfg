SPECIFICATION FairSpec

CONSTANTS
  BufferSize = 4
  ActivePercent = 50
  QueueLen = 3
  FrameSizes = {1, 2, 5}
  WriteTimesOut = TRUE
  MaxBytes = 8

INVARIANT TypeOK
INVARIANT Inv
INVARIANT FrameIntegrity
INVARIANT AssertHolds
INVARIANT BlockedOnlyBehindReader
INVARIANT QueueFullOnlyBehindReader
PROPERTY FrameQueue
PROPERTY PlaybackProgress
PROPERTY WriteReturns

\* The server may have nothing more to send, stop() never returns and an
\* assertion ends the program: the system may really stop.
CHECK_DEADLOCK FALSE
