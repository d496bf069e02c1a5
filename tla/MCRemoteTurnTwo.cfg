\* Two messages and a continuation: one turn displaces another.
SPECIFICATION Spec
CONSTANTS
  Authored = {a1, a2}
  Execution = {e1}
  NoTurn = NoTurn
  MaxDispatches = 2
  MaxRetries = 0
  MaxFaults = 0
  MaxRestarts = 1
SYMMETRY Turns
INVARIANTS
  LocalCommitGate
  StartSettlesReplayable
CHECK_DEADLOCK FALSE
