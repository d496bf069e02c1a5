\* One result, two goals, three decisions, one turn of two rounds, two
\* controls; one failed append or restart.
SPECIFICATION Spec
CONSTANTS
  Route = {r1}
  Action = {stop}
  MaxGoals = 2
  MaxDecisions = 3
  MaxTurns = 1
  MaxRounds = 2
  MaxContexts = 1
  MaxControls = 2
  MaxPending = 2
  MaxFaults = 1
INVARIANTS
  CarriesTheFrozen
  StaleMakesNoControl
CHECK_DEADLOCK FALSE
