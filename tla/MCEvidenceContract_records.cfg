SPECIFICATION Spec
CONSTANTS
    MaxOdd = 2
    calls_max = 2
INVARIANTS
  NoSecretStored
  TraceIsEarned
  OriginIsEarned
  Accounted

CHECK_DEADLOCK FALSE
