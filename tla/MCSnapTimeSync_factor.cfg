SPECIFICATION Spec

CONSTANTS
  W = 6
  Variants = {"Dynamic", "SinceStart"}
  interval = 3
  StartMillis = 4
  ServerStart = 3
  ServerSteps = {1, 2}
  MaxTime = 6
  MaxUpdates = 7

INVARIANT TypeOK
INVARIANT FactorIsSpeed
PROPERTY SyncSpaced

\* The bounds of the model end its behaviours.
CHECK_DEADLOCK FALSE
