CONSTANTS
  VectorLen = 12
  TileSizes <- MCTileSizes
  Compilations <- MCCompilations
SPECIFICATION Spec
INVARIANTS
  TypeOK
  Verified
  ShapesFit
  Presumed
  ValuePreserved
  FlagsByText
  Settled
  LargestFused
  PackedAsRead
