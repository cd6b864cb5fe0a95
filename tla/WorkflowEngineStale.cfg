SPECIFICATION Spec
CONSTANTS
  Runs = {r1}
  NumSteps = 2
  Engines = {e1}
  NoEngine = NoEngine
  NoRun = NoRun
  Redelivered = {r1}
  MeterLimit = 2
  Conditions = {"run", "skip", "error"}
  MaxFaults = 0
PROPERTIES
  DecidedOnFinalSteps
