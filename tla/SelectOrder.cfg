CONSTANTS
  Items <- SelectItems
  Environments <- EverythingOn
  Iterations = 1
  Unverified = {}
SPECIFICATION Spec
INVARIANT ValuePreserved
