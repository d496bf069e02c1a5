SPECIFICATION FairSpec
CONSTANTS
  Authored = {a1}
  Execution = {e1}
  NoTurn = NoTurn
  MaxDispatches = 1
  MaxRetries = 0
  MaxFaults = 1
  MaxRestarts = 1
PROPERTIES
  WaitsEnd
CHECK_DEADLOCK FALSE
