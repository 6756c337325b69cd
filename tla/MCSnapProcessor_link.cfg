\* One message of each kind with a body as large as the window, a connection
\* that is closed or reset once, names that may not fit; both clocks wrap and
\* the one of the client is set.
SPECIFICATION FairSpec

CONSTANTS
  W = 16
  U16 = 8
  ProcessingLag <- OneTick
  MaxDelay = 3
  TimeSyncInterval = 2
  StartMillis = 14
  StartServer = 14
  WallOffsets = {0, 5}
  Codecs = {"opus"}
  Settings <- OneServerSettings
  ChunkAges = {0}
  Others = {"malformed"}
  ChunkUnits = 2
  Window = 2
  FastLoop = TRUE
  OutputStart = FALSE
  HelloMayFail = TRUE
  MaxTime = 2
  MaxSent = 2
  MaxConnects = 2
  MaxDrops = 1

INVARIANT TypeOK
INVARIANT ServerTimeLags
INVARIANT HelloFirst
INVARIANT StreamAligned
PROPERTY PolledInTime
PROPERTY BodyIsRead
PROPERTY AllIsRead
PROPERTY Recovers

\* The bounds of the model end its behaviours.
CHECK_DEADLOCK FALSE
