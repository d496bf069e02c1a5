\* Two turns of one conversation; the program may die twice and one save or
\* load of the outbox may fail.
SPECIFICATION Spec
CONSTANTS
  MaxTurn = 2
  Conversation = {"a"}
  ConversationOf <- OneConversation
  Text = {x, y}
  NoMemory = NoMemory
  Garbled = Garbled
  None = None
  ReadLimit = 1
  MaxKills = 2
  MaxFaults = 1
INVARIANTS
  CreatedOnce
  ConfirmedIsStored
  NothingForgotten
  ChainUnbroken
CHECK_DEADLOCK FALSE
