SPECIFICATION Spec
CONSTANTS
  boss = boss
  hand = hand
  Worker = {boss, hand}
  Displayed = {hand}
  Edge <- Down
  Policy <- Policies
  Window = 1
  MaxMessages = 2
  Allowance = 1
  MaxWakes = 1
  MaxRetries = 1
  MaxRestarts = 1
  PrecheckNeedsClaim = FALSE
PROPERTIES
  RateKept
  FifoKept
  WokenOnce
  StoppedNotDispatched
CHECK_DEADLOCK FALSE
