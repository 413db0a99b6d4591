SPECIFICATION BatterySpec
CONSTANTS
    Repeats = 2
    Phases <- MCPhases
    MaxDrops = 1
    MaxBoots = 4
INVARIANTS
  PassIsEarned
PROPERTIES
  CleanStart
