------------------------------ MODULE Storage ------------------------------
(* The arena of memory/storage.c in which the compiler keeps its tree: pages *)
(* of cells, out of which MEM_storage_malloc cuts what the callers ask for,  *)
(* and which MEM_dispose frees all at once. A page is a block of Memory; one *)
(* action is one call of the interface. Cells count from 0.                  *)
EXTENDS Integers, Sequences

CONSTANTS
  DEFAULT_PAGE_SIZE,  \* cells of a page when the caller names no number
  CELL_SIZE,          \* bytes of a cell
  PageSizes,          \* what MEM_open_storage is asked for
  Sizes               \* bytes that MEM_storage_malloc is asked for

ASSUME PageAssumption == DEFAULT_PAGE_SIZE \in Nat \ {0} /\ PageSizes \subseteq Nat
\* No caller asks for 0 bytes: every size is that of a struct or of a string
\* with its end.
ASSUME CellAssumption == CELL_SIZE \in Nat \ {0} /\ Sizes \subseteq Nat \ {0}

VARIABLES
  open,               \* between MEM_open_storage and MEM_dispose
  current_page_size,  \* cells of a page
  page_list,          \* the pages in order: [cell_num, use_cell_num]
  handed              \* what the callers hold: [page, cell, size], size in bytes

storageVars == <<open, current_page_size, page_list, handed>>

Init == open = FALSE /\ current_page_size = 0 /\ page_list = <<>> /\ handed = <<>>

\* MEM_open_storage_func
OpenStorage(page_size) ==
  /\ ~open /\ open' = TRUE
  /\ current_page_size' = IF page_size = 0 THEN DEFAULT_PAGE_SIZE ELSE page_size
  /\ UNCHANGED <<page_list, handed>>

\* Mutant of CellNum: rounded down.
CellsRoundedDown(size) == size \div CELL_SIZE

\* The cells that hold size bytes.
CellNum(size) == (size - 1) \div CELL_SIZE + 1

AllocNum(n) == IF n > current_page_size THEN n ELSE current_page_size
Page(cell_num, use_cell_num) == [cell_num |-> cell_num, use_cell_num |-> use_cell_num]
Piece(page, cell, size) == [page |-> page, cell |-> cell, size |-> size]

\* The first request makes the first page.
FirstPage(size) ==
  /\ open /\ page_list = <<>>
  /\ page_list' = <<Page(AllocNum(CellNum(size)), CellNum(size))>>
  /\ handed' = Append(handed, Piece(1, 0, size))
  /\ UNCHANGED <<open, current_page_size>>

\* Only the last page is looked at, and its room is judged by the size that
\* pages have by default, not by its own.
LastPage == page_list[Len(page_list)]
Enough(n) == current_page_size - (LastPage.use_cell_num + n) >= 0

\* A page made later counts as full at once, however little is taken of it.
NextPage(size) ==
  /\ open /\ page_list # <<>> /\ ~Enough(CellNum(size))
  /\ LET alloc_num == AllocNum(CellNum(size)) IN
       page_list' = Append(page_list, Page(alloc_num, alloc_num))
  /\ handed' = Append(handed, Piece(Len(page_list) + 1, 0, size))
  /\ UNCHANGED <<open, current_page_size>>

\* Mutant of SamePage: the cells taken are not counted.
SamePageUncounted(size) ==
  /\ open /\ page_list # <<>> /\ Enough(CellNum(size))
  /\ handed' = Append(handed, Piece(Len(page_list), LastPage.use_cell_num, size))
  /\ UNCHANGED <<open, current_page_size, page_list>>

\* The last page has room.
SamePage(size) ==
  /\ open /\ page_list # <<>> /\ Enough(CellNum(size))
  /\ page_list' = [page_list EXCEPT ![Len(page_list)].use_cell_num = @ + CellNum(size)]
  /\ handed' = Append(handed, Piece(Len(page_list), LastPage.use_cell_num, size))
  /\ UNCHANGED <<open, current_page_size>>

\* MEM_dispose_func: every page and the storage itself are freed; what the
\* callers hold is gone.
Dispose ==
  /\ open /\ open' = FALSE
  /\ page_list' = <<>> /\ handed' = <<>>
  /\ UNCHANGED current_page_size

StorageMalloc(size) == FirstPage(size) \/ NextPage(size) \/ SamePage(size)

Next ==
  \/ \E page_size \in PageSizes : OpenStorage(page_size)
  \/ \E size \in Sizes : StorageMalloc(size)
  \/ Dispose

Spec == Init /\ [][Next]_storageVars

-----------------------------------------------------------------------------
Pages  == [cell_num : Nat, use_cell_num : Nat]
Pieces == [page : Nat, cell : Nat, size : Sizes]

StorageTypeOK ==
  /\ open \in BOOLEAN
  /\ current_page_size \in Nat
  /\ page_list \in Seq(Pages)
  /\ handed \in Seq(Pieces)

\* The bytes that a piece starts and ends at, from the beginning of its page.
Start(p) == p.cell * CELL_SIZE
End(p)   == Start(p) + p.size

\* Every piece lies in a page that exists, with all its bytes: the room that
\* the default size promises is there in the page itself, whether it was made
\* for one big request or is shared by small ones (storage.c:43-94).
PiecesInside ==
  \A i \in DOMAIN handed :
    /\ handed[i].page \in DOMAIN page_list
    /\ End(handed[i]) <= page_list[handed[i].page].cell_num * CELL_SIZE

\* No byte is handed out twice before the storage is disposed of
\* (storage.c:43-94).
PiecesApart ==
  \A i, j \in DOMAIN handed :
    i # j /\ handed[i].page = handed[j].page
      => End(handed[i]) <= Start(handed[j]) \/ End(handed[j]) <= Start(handed[i])

=============================================================================
