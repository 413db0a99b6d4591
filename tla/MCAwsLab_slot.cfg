SPECIFICATION Spec
CONSTANTS
  Requests <- OneOfEach
  Accounts <- FreePlan
  Jobs = {"provision", "arm", "collect", "teardown", "verify"}
  Batteries = {"phase", "reboot-check", "descendant-b1"}
  max_life_hours_36 = TRUE
  FounderClosed = {1}
  MaxLaunches = 2
  MaxNow = 2
  MaxJobs = 2
  MaxFaults = 1
INVARIANTS
  OneLab
  RemovedIsGone
  RuleHasCloser
  ArmedIsFresh
PROPERTIES
  Swept

CHECK_DEADLOCK FALSE
