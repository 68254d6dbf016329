CONSTANTS
  Compilations <- OneRun
  Texts <- GemvTexts
  Modules <- TransposedModules
SPECIFICATION Spec
INVARIANT CallsComputeDots
