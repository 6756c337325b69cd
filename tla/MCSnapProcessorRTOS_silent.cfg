SPECIFICATION FairSpec

CONSTANTS
  BufferSize = 8
  ActivePercent = 75
  QueueLen = 3
  FrameSizes = {1}
  WriteTimesOut = FALSE
  MaxBytes = 6

PROPERTY FullQueueDrains

\* The server may have nothing more to send, stop() never returns and an
\* assertion ends the program: the system may really stop.
CHECK_DEADLOCK FALSE
