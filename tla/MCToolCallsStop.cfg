\* Two calls of one turn, the second asked for after the user's stop.
SPECIFICATION Spec
CONSTANTS
  greet = greet
  bash = bash
  lab = lab
  Tool = {bash}
  Transport <- Reached
  Policy <- Saved
  Limit = 2
  MaxCalls = 2
  MaxTurns = 1
  MaxActivations = 1
  MaxConsents = 1
  MaxAdmissions = 1
  MaxSessions = 1
  MaxFaults = 0
INVARIANTS
  StopIsFinal
CHECK_DEADLOCK FALSE
