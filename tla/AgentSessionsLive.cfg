\* Two archived executions without temporary credentials; the process may crash
\* or a call reject.
SPECIFICATION FairSpec
CONSTANTS
  Executions = {e1, e2}
  None = None
  KeyLock = KeyLock
  Leased = FALSE
  AutoArchive = {e1, e2}
  Faults = {"crash", "reject"}
  MaxFaults = 1
CHECK_DEADLOCK FALSE
PROPERTIES
  LiveWorkGoesOn
  EndedWorkStops
