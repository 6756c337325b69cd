\* "Records the actual server time in millisecondes" (SnapTimeSync.h:29)
SPECIFICATION Spec

CONSTANTS
  W = 16
  U16 = 8
  ProcessingLag <- OneTick
  MaxDelay = 3
  TimeSyncInterval = 2
  StartMillis = 13
  StartServer = 20
  WallOffsets = {0, 5}
  Codecs = {}
  Settings <- NoServerSettings
  ChunkAges = {}
  Others = {"tags"}
  ChunkUnits = 1
  Window = 2
  FastLoop = TRUE
  OutputStart = FALSE
  HelloMayFail = FALSE
  MaxTime = 3
  MaxSent = 4
  MaxConnects = 1
  MaxDrops = 0

INVARIANT SyncGetsServerTime

\* The bounds of the model end its behaviours.
CHECK_DEADLOCK FALSE
