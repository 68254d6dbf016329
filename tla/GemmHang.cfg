CONSTANTS
  Calls <- MCCalls
  Scenarios <- TwoThreads
SPECIFICATION FairSpec
PROPERTY Returns
CHECK_DEADLOCK FALSE
