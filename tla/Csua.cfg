\* Statements without branches, and statements inside blocks and if statements.
SPECIFICATION CsuaSpec
CONSTANTS
  CODE_ALLOC_SIZE = 10
  ID_STACK_SIZE = 100
  Natives <- MCNatives
  Programs <- MCPrograms
  Nodes <- MCNodes
INVARIANTS
  ResultIsMeaning
  NeverUndefined
  StacksEmptyAtEnd
  GlobalsTyped
  ModesReset
  TagsMatchValues
  LabelsPaired
  ExecutesAtBoundaries
  ExitsOnlySkipping
  GeneratedCodeShaped
PROPERTIES
  ResumesAtItsLabel
  Terminates
