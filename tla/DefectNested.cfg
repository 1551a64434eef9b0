\* An assignment nested in an argument of a nested assignment.
SPECIFICATION CsuaSpec
CONSTANTS
  CODE_ALLOC_SIZE = 10
  ID_STACK_SIZE = 100
  Natives <- MCNatives
  Programs <- NestedPrograms
  Nodes <- MCNodes
INVARIANTS
  NeverUndefined
