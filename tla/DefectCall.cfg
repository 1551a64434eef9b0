\* A function declared without the parameters of its native.
SPECIFICATION CsuaSpec
CONSTANTS
  CODE_ALLOC_SIZE = 10
  ID_STACK_SIZE = 100
  Natives <- MCNatives
  Programs <- CallPrograms
  Nodes <- MCNodes
INVARIANTS
  NeverUndefined
