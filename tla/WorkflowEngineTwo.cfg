SPECIFICATION Spec
CONSTANTS
  Runs = {r1}
  NumSteps = 2
  Engines = {e1, e2}
  NoEngine = NoEngine
  NoRun = NoRun
  Redelivered = {r1}
  MeterLimit = 2
  Conditions = {"run", "skip"}
  MaxFaults = 1
INVARIANTS
  EndedExecutionEndsStep
  EndedRunIsNotified
PROPERTIES
  EndedIsFinal
