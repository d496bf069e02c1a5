SPECIFICATION FairSpec
CONSTANTS
  boss = boss
  hand = hand
  Worker = {boss, hand}
  Displayed = {hand}
  Edge <- Down
  Policy <- Policies
  Window = 1
  MaxMessages = 1
  Allowance = 1
  MaxWakes = 1
  MaxRetries = 1
  MaxRestarts = 0
  PrecheckNeedsClaim = TRUE
PROPERTIES
  WakesHappen
CHECK_DEADLOCK FALSE
