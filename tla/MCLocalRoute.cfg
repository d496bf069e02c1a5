SPECIFICATION Spec
CONSTANTS
  Conversation = {c1, c2}
  MaxSessions = 3
  MaxRoutes = 2
SYMMETRY Conversations
INVARIANTS
  JournalReplays
  AddressesUnique
  ArrivesAsAddressed
PROPERTIES
  KeepsPromise
CHECK_DEADLOCK FALSE
