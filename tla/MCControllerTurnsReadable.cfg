\* A suggestion appended for a turn that brought no text; nothing fails.
SPECIFICATION Spec
CONSTANTS
  Route = {r1}
  Action = {stop}
  MaxGoals = 2
  MaxDecisions = 3
  MaxTurns = 1
  MaxRounds = 2
  MaxContexts = 1
  MaxControls = 2
  MaxPending = 2
  MaxFaults = 0
INVARIANTS
  SuggestionsStayReadable
CHECK_DEADLOCK FALSE
