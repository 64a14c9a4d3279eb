CONSTANTS
  Managers = {"publisher", "consumer"}
  Events = {11, 12}
  Backlog <- MCBacklog
  Malformed = {21}
  Loops <- MCLoops
  Callers <- MCCallers
  MaxLinks = 3
  MaxRetries = 1
  Prefetch = 2
  Remembered = 1
  MaxFaults <- MCMaxFaults
SPECIFICATION Spec
CHECK_DEADLOCK FALSE
INVARIANT AckedOnlyAfterSend
