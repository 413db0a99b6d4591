SPECIFICATION Spec
CONSTANTS
    MaxRuns = 3
    MaxNow = 2
    MaxFaults = 3
    Life = 1
    SweeperEnabled = TRUE
INVARIANTS
  VerifiedIsGone
PROPERTIES
  Swept
