SPECIFICATION Spec
CONSTANTS
  Conversation = {c1, c2}
  MaxSessions = 2
  MaxRoutes = 1
INVARIANTS
  DeliveredIsReadable
CHECK_DEADLOCK FALSE
