CONSTANTS
  Compilations <- MCCompilations
  Texts <- MCTexts
  Modules <- MCModules
SPECIFICATION Spec
INVARIANTS
  TypeOK
  ChoiceIsListed
  AloneChoosesByFile
  CallsComputeDots
