\* A wake stopped while its refused request waits to be sent again.
SPECIFICATION Spec
CONSTANTS
  boss = boss
  hand = hand
  Worker = {boss, hand}
  Displayed = {hand}
  Edge <- Down
  Policy <- Policies
  Window = 1
  MaxMessages = 1
  Allowance = 1
  MaxWakes = 1
  MaxRetries = 1
  MaxRestarts = 0
  PrecheckNeedsClaim = FALSE
PROPERTIES
  StoppedStaysStopped
CHECK_DEADLOCK FALSE
