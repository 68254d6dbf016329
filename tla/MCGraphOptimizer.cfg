CONSTANTS
  Items <- AllItems
  Environments <- MCEnvironments
  Iterations = 2
  Unverified = {"KPFusedSparseSelect"}
SPECIFICATION Spec
INVARIANTS
  TypeOK
  IndexSound
  UniqueNames
  InputsResolve
  Acyclic
  SpareUnread
  ValuePreserved
PROPERTIES
  ImplementsLoop
  Terminates
