\* Three blocks in a row and a fourth address to move one of them to.
SPECIFICATION Spec
CONSTANTS
  Blocks = {b1, b2, b3, b4}
  NULL = NULL
  Sizes = {1, 2}
INVARIANTS
  DoublyLinked
  DumpShowsLive
PROPERTIES
  ImplementsBlockList
