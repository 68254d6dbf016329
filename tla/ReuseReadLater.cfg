CONSTANTS
  Unset = Unset
  MatmulSizesToMatmulType <- MCMatmulSizes
  BatchMatmulSizesToBatchMatmulType <- MCBatchSizes
  Pipelines <- MCReadLater
SPECIFICATION Spec
INVARIANT
  OverwritesNothingRead
