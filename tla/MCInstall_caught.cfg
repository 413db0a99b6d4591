SPECIFICATION Spec

CONSTANTS
  Procs = {p1, p2}
  p1 = p1
  p2 = p2
  NoProc = NoProc
  Commands = {"plan", "apply", "status", "rollback", "verify-removal"}
  FaultKinds = {"unverified", "nonzero", "timeout", "grant", "recheck"}
  MaxFaults = 3

SYMMETRY Symmetry

INVARIANTS
  TypeOK
  ContainerSeenByRollback
