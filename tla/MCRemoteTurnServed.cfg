SPECIFICATION Spec
CONSTANTS
  Authored = {a1}
  Execution = {e1}
  NoTurn = NoTurn
  MaxDispatches = 2
  MaxRetries = 0
  MaxFaults = 0
  MaxRestarts = 0
INVARIANTS
  ActiveIsServed
CHECK_DEADLOCK FALSE
