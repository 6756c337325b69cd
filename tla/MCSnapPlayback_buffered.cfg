\* "start to play audio only in valid server time" (SnapOutput.h:141)
SPECIFICATION Spec

CONSTANTS
  W = 16
  U16 = 8
  ProcessingLag <- OneTick
  MaxDelay = 3
  Processors = {"SnapProcessorBuffered"}
  OutputStart = TRUE
  StartMillis = 14
  StartServer = 14
  Codecs = {"opus", "pcm"}
  Settings <- TwoServerSettings
  ChunkAges = {0, 2}
  ReplyAges = {0, 1}
  Factors = {1, 2}
  QueueLen = 2
  Level = 2
  MaxTime = 2
  MaxMessages = 5

INVARIANT OnlyValidAudioStarts

\* The bounds of the model end its behaviours.
CHECK_DEADLOCK FALSE
