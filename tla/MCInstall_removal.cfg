SPECIFICATION Spec

CONSTANTS
  Procs = {p1, p2}
  p1 = p1
  p2 = p2
  NoProc = NoProc
  Commands = {"plan", "apply", "status", "rollback", "uninstall"}
  FaultKinds = {"unwind", "nonzero", "kill"}
  MaxFaults = 2

SYMMETRY Symmetry

INVARIANTS
  UninstalledIsGone
  ContainerIsConfined

\* A killed process leaves the LOCK file, and then no command starts again.
CHECK_DEADLOCK FALSE
