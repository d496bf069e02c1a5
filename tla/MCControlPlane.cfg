SPECIFICATION Spec
CONSTANTS
  Worker = {w1}
  MaxControls = 2
  MaxGoals = 2
  MaxLeases = 2
  MaxAllowance = 2
INVARIANTS
  JournalReplays
  OneLiveAuthority
  PermitsSpentOnce
  NothingSentUnallowed
  InterruptedStepsFinish
  UntouchedSinceStart
PROPERTIES
  KeepsPromise
