\* Audio of different ages, before and after codec headers, with every
\* processor; settings, reconnects and restarts.  With a buffer of 2, a chunk
\* and a late reply audio can be up to 2 ticks early, one more than MaxDelay.
SPECIFICATION Spec

CONSTANTS
  W = 16
  U16 = 8
  ProcessingLag <- OneTick
  MaxDelay = 1
  Processors = {"SnapProcessor", "SnapProcessorRTOS", "SnapProcessorBuffered"}
  OutputStart = TRUE
  StartMillis = 14
  StartServer = 14
  Codecs = {"opus", "pcm", "vorbis"}
  Settings <- TwoServerSettings
  ChunkAges = {0, 2}
  ReplyAges = {0, 1}
  Factors = {1, 2}
  QueueLen = 2
  Level = 1
  MaxTime = 2
  MaxMessages = 5

INVARIANT TypeOK
INVARIANT StartIsFresh
INVARIANT CodecMatches
INVARIANT HeaderFirstInDecoder
INVARIANT VolumeFollowsServer

\* The bounds of the model end its behaviours.
CHECK_DEADLOCK FALSE
