\* One rejected continuation is enough to disable recovery.
SPECIFICATION Spec
CONSTANTS
  Authored = {a1}
  Execution = {e1}
  NoTurn = NoTurn
  MaxDispatches = 1
  MaxRetries = 0
  MaxFaults = 0
  MaxRestarts = 1
INVARIANTS
  StartSettles
CHECK_DEADLOCK FALSE
