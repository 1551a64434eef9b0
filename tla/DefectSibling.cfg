\* Three variables of one name in blocks side by side.
SPECIFICATION CsuaSpec
CONSTANTS
  CODE_ALLOC_SIZE = 10
  ID_STACK_SIZE = 100
  Natives <- MCNatives
  Programs <- SiblingPrograms
  Nodes <- MCNodes
INVARIANTS
  ResultIsMeaning
