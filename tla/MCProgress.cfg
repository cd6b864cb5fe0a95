SPECIFICATION MCSpec
CONSTANTS
  None = None
  NoRun = NoRun
  NoHub = NoHub
  scTriggers = {"t1"}
  scTickers = {"w1", "w2"}
  scRecurrences <- Recurrences
  scMaxTime = 3
  scMaxSaves = 2
  scMaxTickFaults = 1
  ruRegistrations = {"r1", "r2", "r3"}
  ruMaxStored = 3
  ruMaxCrashes = 1
  ouCalls = {"c1", "c2"}
  ouMaxOutputs = 1
  ouMaxTurns = 2
  ouMaxLosses = 1
  noRuns = {"r1"}
  noHubs = {"h1"}
  noMaxFaults = 0
INVARIANTS
  TypeOK
  NothingOverlaps
PROPERTIES
  StepsFollowWhatIsSaved
  NothingIsLeft
CHECK_DEADLOCK FALSE
