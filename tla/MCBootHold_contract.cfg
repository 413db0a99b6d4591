SPECIFICATION Spec
CONSTANTS
  Workloads = {"systemd", "docker"}
  Kind <- KindOf
  Policies <- OneOff
  Trusted = TRUE
  Commands = {"install", "from-apply", "release", "break-glass", "remove", "enroll", "observe-unenrolled", "opt-out", "configure", "prepare-enforce"}
  MaxCommands = 1
  MaxBoots = 1
  MaxProbes = 1
  FaultKinds = {"iptables", "apparmor", "docker", "engine", "kill"}
  MaxFaults = 1
INVARIANTS
  NoSilentRelease
  HandoffIsEarned
  NoExceptionLeft
PROPERTIES
  ContractKept

CHECK_DEADLOCK FALSE
