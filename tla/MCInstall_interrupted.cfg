SPECIFICATION StatusSpec

CONSTANTS
  Procs = {p1, p2}
  p1 = p1
  p2 = p2
  NoProc = NoProc
  Commands = {"plan", "apply", "status", "rollback", "enroll"}
  FaultKinds = {"unwind", "timeout", "unverified", "recheck", "pid_reuse"}
  MaxFaults = 2

INVARIANTS
  PrefixIntact
  RuntimeStateHolds
  HealthyMeansInstalled
  RolledBackIsProbed
PROPERTIES
  CheckpointsKept
  RollbackIsFinal
  InterruptionReported
