SPECIFICATION Spec
CONSTANTS
  Runs = {r1, r2}
  NumSteps = 2
  Engines = {e1}
  NoEngine = NoEngine
  NoRun = NoRun
  Redelivered = {}
  MeterLimit = 2
  Conditions = {"run", "skip"}
  MaxFaults = 1
SYMMETRY RunSymmetry
INVARIANTS
  TypeOK
  PreHandoffIsRecoverable
  HandedOffOnce
  LiveExecutionOfLiveRun
  MeterCountsExecutions
  StepsInOrder
  SucceededRunIsComplete
PROPERTIES
  ImplementsLifecycle
