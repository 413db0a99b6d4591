SPECIFICATION Spec

CONSTANTS
  Procs = {p1, p2}
  p1 = p1
  p2 = p2
  NoProc = NoProc
  Commands = {"plan", "apply", "status", "rollback", "verify-removal"}
  FaultKinds = {"nonzero"}
  MaxFaults = 1

SYMMETRY Symmetry

INVARIANTS
  VerifiedMeansRemoved
