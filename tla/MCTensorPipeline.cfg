CONSTANTS
  Unset = Unset
  MatmulSizesToMatmulType <- MCMatmulSizes
  BatchMatmulSizesToBatchMatmulType <- MCBatchSizes
  Pipelines <- MCPipelines
SPECIFICATION Spec
INVARIANTS
  TypeOK
  Dominated
  ValuePreserved
  OverwritesNothingRead
  NoCopies
PROPERTIES
  Ends
  WellTyped
