\* One message and one continuation; an append may fail, and startup may
\* itself be cut short and repeated.
SPECIFICATION Spec
CONSTANTS
  Authored = {a1}
  Execution = {e1}
  NoTurn = NoTurn
  MaxDispatches = 2
  MaxRetries = 1
  MaxFaults = 1
  MaxRestarts = 2
INVARIANTS
  LocalCommitGate
  NoBlindResend
  ResultIsFirstEnding
  StartSettlesReplayable
\* A program that is down may stay down.
CHECK_DEADLOCK FALSE
