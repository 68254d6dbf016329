CONSTANTS
  Calls <- MCCalls
  Scenarios <- MCScenarios
SPECIFICATION FairSpec
INVARIANTS
  TypeOK
  CounterAlive
  UnitsDisjoint
PROPERTIES
  ImplementsSequential
  Returns
