SPECIFICATION Spec
CONSTANTS
  Tasks <- MCTasks
  Threads <- MCThreads
  Symbols <- MCSymbols
INVARIANTS
  UpgradeIsSound
  ResetIsSound
PROPERTIES
  SchemaCompletes
