\* Two results at once: which of them a turn freezes and carries.
SPECIFICATION Spec
CONSTANTS
  Route = {r1, r2}
  Action = {stop}
  MaxGoals = 2
  MaxDecisions = 2
  MaxTurns = 1
  MaxRounds = 2
  MaxContexts = 1
  MaxControls = 2
  MaxPending = 1
  MaxFaults = 1
SYMMETRY Symmetry
INVARIANTS
  TypeOK
  CarriesTheFrozen
  StaleMakesNoControl
CHECK_DEADLOCK FALSE
