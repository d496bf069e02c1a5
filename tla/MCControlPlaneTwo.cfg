SPECIFICATION Spec
CONSTANTS
  Worker = {w1, w2}
  MaxControls = 2
  MaxGoals = 1
  MaxLeases = 1
  MaxAllowance = 1
SYMMETRY Workers
INVARIANTS
  JournalReplays
  PermitsSpentOnce
