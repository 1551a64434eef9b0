\* Pages of 2 (the default) and 3 cells of 2 bytes; requests of half a cell up
\* to four cells, so that a page is filled exactly, nearly, and exceeded.
SPECIFICATION StorageSpec
CONSTANTS
  DEFAULT_PAGE_SIZE = 2
  CELL_SIZE = 2
  PageSizes = {0, 3}
  Sizes = {1, 2, 3, 4, 7}
  MaxPieces = 5
INVARIANTS
  PiecesInside
  PiecesApart
