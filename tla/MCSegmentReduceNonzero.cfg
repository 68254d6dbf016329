CONSTANTS
  Inputs <- MCInputs
  MinSegments = 3
SPECIFICATION Spec
INVARIANTS
  TypeOK
  WritesFit
  OutputFull
  ReturnsNonzeros
