SPECIFICATION Spec

CONSTANTS
  BufferSize = 4
  ActivePercent = 50
  QueueLen = 3
  FrameSizes = {1, 2}
  WriteTimesOut = FALSE
  MaxBytes = 8

INVARIANT AssertAlwaysHolds

\* The server may have nothing more to send, stop() never returns and an
\* assertion ends the program: the system may really stop.
CHECK_DEADLOCK FALSE
