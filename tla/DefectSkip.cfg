\* A skipped body that stores to variable 1.
SPECIFICATION CsuaSpec
CONSTANTS
  CODE_ALLOC_SIZE = 10
  ID_STACK_SIZE = 100
  Natives <- MCNatives
  Programs <- SkipPrograms
  Nodes <- MCNodes
INVARIANTS
  SkipsToLabel
