SPECIFICATION MCSpec
CONSTANTS
  None = None
  NoRun = NoRun
  NoEngine = NoEngine
  auLaunches = {"m1", "m2"}
  auProcs = {"p1", "p2"}
  auHosts = {"p1"}
  auHome <- Home
  auMaxFaults = 1
  spMaxMachines = 3
  spExecutions = {"x1"}
  spMaxSaves = 1
  spMaxFaults = 1
INVARIANTS
  WorkIsEquipped
  AcceptedWorkflowsRun
PROPERTIES
  RunsEnd
  WorkLeavesNothing
CHECK_DEADLOCK FALSE
