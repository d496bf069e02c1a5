\* The three ways a call is carried out: by the worker itself, by a thread on
\* a saved policy, and by a sandboxed process after a probe.
SPECIFICATION Spec
CONSTANTS
  greet = greet
  bash = bash
  lab = lab
  Tool = {greet, bash, lab}
  Transport <- Reached
  Policy <- Saved
  Limit = 1
  MaxCalls = 1
  MaxTurns = 1
  MaxActivations = 2
  MaxConsents = 2
  MaxAdmissions = 1
  MaxSessions = 2
  MaxFaults = 1
INVARIANTS
  AuthorisedWhenUsed
PROPERTIES
  OneShot
CHECK_DEADLOCK FALSE
