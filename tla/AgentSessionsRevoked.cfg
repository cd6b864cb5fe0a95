\* Two executions that are interrupted and hold temporary credentials; the
\* process may crash, an answer come late.
SPECIFICATION FairSpec
CONSTANTS
  Executions = {e1, e2}
  None = None
  KeyLock = KeyLock
  Leased = TRUE
  AutoArchive = {}
  Faults = {"crash", "late"}
  MaxFaults = 1
CHECK_DEADLOCK FALSE
PROPERTIES
  CredentialsAreRevoked
