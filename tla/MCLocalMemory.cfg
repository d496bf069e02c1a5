\* One memory admitted already and a second one, two conversations, two failures or restarts.
SPECIFICATION Spec
CONSTANTS
  home = home
  away = away
  Conversation = {home, away}
  PerRequest = 2
  MaxMemories = 2
  MaxChanges = 4
  MaxTurns = 2
  MaxFaults = 2
SYMMETRY Symmetry
INVARIANTS
  SentAsRecorded
  ValidWhenSent
  ChoicesSendable
PROPERTIES
  OncePerChoice
CHECK_DEADLOCK FALSE
