\* "mute / unmute" (SnapOutput.h:75)
SPECIFICATION Spec

CONSTANTS
  W = 16
  U16 = 8
  ProcessingLag <- OneTick
  MaxDelay = 3
  Processors = {"SnapProcessor"}
  OutputStart = TRUE
  StartMillis = 14
  StartServer = 14
  Codecs = {"opus", "pcm"}
  Settings <- TwoServerSettings
  ChunkAges = {0, 2}
  ReplyAges = {0, 1}
  Factors = {1, 2}
  QueueLen = 2
  Level = 1
  MaxTime = 2
  MaxMessages = 3

INVARIANT MuteSilences

\* The bounds of the model end its behaviours.
CHECK_DEADLOCK FALSE
