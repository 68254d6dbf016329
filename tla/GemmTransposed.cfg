CONSTANTS
  Calls <- MCCalls
  Scenarios <- Transposed
SPECIFICATION Spec
PROPERTY ImplementsSequential
