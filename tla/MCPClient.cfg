CONSTANTS
  c1 = c1
  c2 = c2
  nothing = nothing
  Calls <- MCCalls
  Nothing <- nothing
  MaxResponseBytes = 1
  LongestReply = 3
  Forms <- MCForms
SPECIFICATION FairSpec
CHECK_DEADLOCK FALSE
PROPERTIES LimitHonest PromiseSpec CallsReturn
