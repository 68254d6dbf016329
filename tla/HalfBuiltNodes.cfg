CONSTANTS
  Items <- HalfItems
  Environments <- EverythingOn
  Iterations = 2
  Unverified = {"KPFusedSparseSelect"}
SPECIFICATION Spec
INVARIANT FusedWellFormed
