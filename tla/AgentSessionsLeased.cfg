\* An execution that is archived and one that is not, with temporary credentials.
SPECIFICATION Spec
CONSTANTS
  Executions = {e1, e2}
  None = None
  KeyLock = KeyLock
  Leased = TRUE
  AutoArchive = {e1}
  Faults = {"disconnect", "timeout", "late", "wait"}
  MaxFaults = 1
CHECK_DEADLOCK FALSE
INVARIANTS
  TypeOK
  OneWorkingAgent
  CredentialsOutliveWork
