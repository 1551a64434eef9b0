\* The smallest growth of the buffer, and room for three nested labels.
SPECIFICATION GenSpec
CONSTANTS
  CODE_ALLOC_SIZE = 3
  ID_STACK_SIZE = 4
  Programs <- MCPrograms
  Nodes <- MCNodes
INVARIANTS
  TypeOK
  BytesFit
  LabelsFresh
