SPECIFICATION Spec

CONSTANTS
  B = 4
  MaxJsonLen = 8
  Brace = 3
  Bases <- MCBases
  Chunks <- MCChunks
  CodecHeaders <- MCCodecHeaders
  Jsons <- MCJsons
  Hellos <- MCHellos
  Losses <- MCLosses
  Now <- MCNow

INVARIANT TypeOK
INVARIANT ReadIsSent
INVARIANT NothingSkipped
INVARIANT HeardIsMeant

\* The bounds of the model end its behaviours, and so does a connection that
\* is reset.
CHECK_DEADLOCK FALSE
