SPECIFICATION Spec
CONSTANTS
    Trusted = {"prod", "lab"}
    OddChecks = {"apparmor", "arch", "mem"}
    MaxCommands = 5
    MaxFaults = 1
INVARIANTS
  BundleIsOneRelease
  VerifierAgrees
PROPERTIES
  InstallIsEarned
  ProtectedIsEarned
  RemovalIsTrue

CHECK_DEADLOCK FALSE
