---------------------------- MODULE StorageProofs ----------------------------
(* The arena for every page size, cell size and sequence of requests. Pieces *)
(* are shown to lie in the used cells of their pages and to share no cell;   *)
(* what the properties say of bytes follows by multiplying.                  *)
EXTENDS Storage, TLAPS

-----------------------------------------------------------------------------
(* Arithmetic.                                                               *)

\* The cells of a request have room for its bytes.
LEMMA CellsHoldSize ==
  ASSUME NEW size \in Sizes
  PROVE  CellNum(size) \in Nat \ {0} /\ size <= CellNum(size) * CELL_SIZE
<1> DEFINE q == (size - 1) \div CELL_SIZE
           r == (size - 1) % CELL_SIZE
<1>1. size \in Nat /\ size >= 1 /\ CELL_SIZE \in Nat /\ CELL_SIZE > 0
  BY CellAssumption
<1>2. q \in Nat /\ r \in 0 .. CELL_SIZE - 1 /\ size - 1 = q * CELL_SIZE + r
  BY <1>1
<1>3. CellNum(size) = q + 1
  BY DEF CellNum
<1> HIDE DEF q, r
<1>4. (q + 1) * CELL_SIZE = q * CELL_SIZE + CELL_SIZE
  BY <1>1, <1>2
<1>5. q * CELL_SIZE \in Int
  BY <1>1, <1>2
<1>6. size <= (q + 1) * CELL_SIZE
  BY <1>1, <1>2, <1>4, <1>5
<1>7. QED
  BY <1>2, <1>3, <1>6

LEMMA Scaled ==
  ASSUME NEW a \in Nat, NEW b \in Nat, a <= b
  PROVE  a * CELL_SIZE <= b * CELL_SIZE
BY CellAssumption

-----------------------------------------------------------------------------
(* Sequences of any elements, and the fields of the records.                 *)

LEMMA SeqElement ==
  ASSUME NEW S, NEW s \in Seq(S), NEW i \in DOMAIN s
  PROVE  s[i] \in S
OBVIOUS

LEMMA SeqAppended ==
  ASSUME NEW S, NEW s \in Seq(S), NEW e \in S
  PROVE  /\ Append(s, e) \in Seq(S)
         /\ Len(s) + 1 \in Nat /\ Len(s) + 1 \notin DOMAIN s
         /\ DOMAIN Append(s, e) = DOMAIN s \cup {Len(s) + 1}
         /\ Append(s, e)[Len(s) + 1] = e
         /\ \A i \in DOMAIN s : Append(s, e)[i] = s[i]
OBVIOUS

LEMMA SeqLast ==
  ASSUME NEW S, NEW s \in Seq(S), s # <<>>
  PROVE  Len(s) \in Nat /\ Len(s) \in DOMAIN s
OBVIOUS

LEMMA SeqUpdated ==
  ASSUME NEW S, NEW s \in Seq(S), NEW k \in DOMAIN s, NEW e \in S
  PROVE  /\ [s EXCEPT ![k] = e] \in Seq(S)
         /\ DOMAIN [s EXCEPT ![k] = e] = DOMAIN s
         /\ [s EXCEPT ![k] = e][k] = e
         /\ \A i \in DOMAIN s : i # k => [s EXCEPT ![k] = e][i] = s[i]
OBVIOUS

LEMMA SeqOfOne ==
  ASSUME NEW S, NEW e \in S
  PROVE  <<e>> \in Seq(S) /\ DOMAIN <<e>> = {1} /\ <<e>>[1] = e
OBVIOUS

LEMMA SeqOfNone == \A S : <<>> \in Seq(S) /\ DOMAIN <<>> = {}
OBVIOUS

LEMMA PageFields ==
  /\ \A g \in Pages : g.cell_num \in Nat /\ g.use_cell_num \in Nat
  /\ \A c, u \in Nat : /\ Page(c, u) \in Pages
                       /\ Page(c, u).cell_num = c /\ Page(c, u).use_cell_num = u
BY DEF Pages, Page

LEMMA PieceFields ==
  /\ \A p \in Pieces : /\ p.page \in Nat /\ p.cell \in Nat /\ p.size \in Sizes
                       /\ p.size \in Nat
  /\ \A n, c \in Nat, size \in Sizes :
       /\ Piece(n, c, size) \in Pieces /\ Piece(n, c, size).page = n
       /\ Piece(n, c, size).cell = c /\ Piece(n, c, size).size = size
BY CellAssumption DEF Pieces, Piece

-----------------------------------------------------------------------------
(* The invariant, in cells.                                                  *)

After(p) == p.cell + CellNum(p.size)

PagesLarge ==
  \A k \in DOMAIN page_list : /\ page_list[k].use_cell_num <= page_list[k].cell_num
                              /\ current_page_size <= page_list[k].cell_num

CellsInside ==
  \A i \in DOMAIN handed : /\ handed[i].page \in DOMAIN page_list
                           /\ After(handed[i]) <= page_list[handed[i].page].use_cell_num

CellsApart ==
  \A i, j \in DOMAIN handed :
    i # j /\ handed[i].page = handed[j].page
      => After(handed[i]) <= handed[j].cell \/ After(handed[j]) <= handed[i].cell

\* Nothing is left of a storage that was disposed of.
Closed == ~open => page_list = <<>> /\ handed = <<>>

IInv == StorageTypeOK /\ Closed /\ PagesLarge /\ CellsInside /\ CellsApart

LEMMA InitInv == Init => IInv
<1> SUFFICES ASSUME Init
             PROVE  IInv
  OBVIOUS
<1>1. page_list = <<>> /\ handed = <<>> /\ DOMAIN page_list = {} /\ DOMAIN handed = {}
  BY SeqOfNone DEF Init
<1>2. StorageTypeOK
  BY <1>1, SeqOfNone DEF Init, StorageTypeOK
<1>3. QED
  BY <1>1, <1>2 DEF IInv, Closed, PagesLarge, CellsInside, CellsApart

\* A request adds one piece p behind the pieces of its page and leaves every
\* other page as it was.
LEMMA PieceAdded ==
  ASSUME IInv, open, NEW p \in Pieces,
         handed' = Append(handed, p), UNCHANGED <<open, current_page_size>>,
         page_list' \in Seq(Pages), PagesLarge',
         \A k \in DOMAIN page_list :
           /\ k \in DOMAIN page_list'
           /\ page_list[k].use_cell_num <= page_list'[k].use_cell_num,
         p.page \in DOMAIN page_list',
         After(p) <= page_list'[p.page].use_cell_num,
         p.page \in DOMAIN page_list => page_list[p.page].use_cell_num <= p.cell
  PROVE  IInv'
<1>1. handed \in Seq(Pieces) /\ page_list \in Seq(Pages)
  BY DEF IInv, StorageTypeOK
<1> DEFINE new == Len(handed) + 1
<1>2. /\ handed' \in Seq(Pieces) /\ new \in Nat /\ new \notin DOMAIN handed
      /\ DOMAIN handed' = DOMAIN handed \cup {new} /\ handed'[new] = p
      /\ \A i \in DOMAIN handed : handed'[i] = handed[i]
  BY <1>1, SeqAppended
<1> HIDE DEF new
<1>3. \A i \in DOMAIN handed : handed[i] \in Pieces /\ After(handed[i]) \in Nat
  <2>1. ASSUME NEW i \in DOMAIN handed PROVE handed[i] \in Pieces
    BY <1>1, SeqElement
  <2>2. ASSUME NEW q \in Pieces PROVE After(q) \in Nat
    BY PieceFields, CellsHoldSize DEF After
  <2>3. QED
    BY <2>1, <2>2
<1>4. /\ After(p) \in Nat
      /\ \A k \in DOMAIN page_list : page_list[k].use_cell_num \in Nat
      /\ \A k \in DOMAIN page_list' : page_list'[k].use_cell_num \in Nat
  <2>1. After(p) \in Nat
    BY PieceFields, CellsHoldSize DEF After
  <2>2. ASSUME NEW k \in DOMAIN page_list PROVE page_list[k] \in Pages
    BY <1>1, SeqElement
  <2>3. ASSUME NEW k \in DOMAIN page_list' PROVE page_list'[k] \in Pages
    BY SeqElement
  <2>4. QED
    BY <2>1, <2>2, <2>3, PageFields
<1>5. StorageTypeOK'
  BY <1>2 DEF IInv, StorageTypeOK
<1>6. \A i \in DOMAIN handed :
        /\ handed[i].page \in DOMAIN page_list
        /\ After(handed[i]) <= page_list[handed[i].page].use_cell_num
  BY DEF IInv, CellsInside
<1>7. CellsInside'
  <2>1. ASSUME NEW i \in DOMAIN handed
        PROVE  /\ handed[i].page \in DOMAIN page_list'
               /\ After(handed[i]) <= page_list'[handed[i].page].use_cell_num
    BY <1>3, <1>4, <1>6
  <2>2. QED
    BY <1>2, <2>1 DEF CellsInside, After
<1>8. CellsApart'
  <2>1. ASSUME NEW i \in DOMAIN handed, handed[i].page = p.page
        PROVE  After(handed[i]) <= p.cell
    <3>1. After(handed[i]) <= page_list[p.page].use_cell_num /\ p.page \in DOMAIN page_list
      BY <1>6, <2>1
    <3>2. page_list[p.page].use_cell_num <= p.cell
      BY <3>1
    <3>3. p.cell \in Nat
      BY PieceFields
    <3>4. QED
      BY <1>3, <1>4, <3>1, <3>2, <3>3
  <2>2. \A i, j \in DOMAIN handed :
          i # j /\ handed[i].page = handed[j].page
            => After(handed[i]) <= handed[j].cell \/ After(handed[j]) <= handed[i].cell
    BY DEF IInv, CellsApart
  <2>3. QED
    BY <1>2, <2>1, <2>2 DEF CellsApart, After
<1>9. QED
  BY <1>5, <1>7, <1>8 DEF IInv, Closed

LEMMA PieceType ==
  ASSUME NEW n \in Nat, NEW c \in Nat, NEW size \in Sizes
  PROVE  /\ Piece(n, c, size) \in Pieces
         /\ Piece(n, c, size).page = n /\ Piece(n, c, size).cell = c
         /\ After(Piece(n, c, size)) = c + CellNum(size)
BY PieceFields DEF After

LEMMA AllocNumType ==
  ASSUME IInv, NEW n \in Nat
  PROVE  AllocNum(n) \in Nat /\ AllocNum(n) >= n /\ AllocNum(n) >= current_page_size
BY DEF IInv, StorageTypeOK, AllocNum

LEMMA FirstPageInv ==
  ASSUME IInv, NEW size \in Sizes, FirstPage(size)
  PROVE  IInv'
<1> DEFINE n == CellNum(size)
           page == Page(AllocNum(n), n)
<1>1. n \in Nat /\ AllocNum(n) \in Nat /\ n <= AllocNum(n) /\ current_page_size <= AllocNum(n)
  BY CellsHoldSize, AllocNumType
<1>2. page \in Pages /\ page.cell_num = AllocNum(n) /\ page.use_cell_num = n
  BY <1>1, PageFields
<1>3. /\ page_list = <<>> /\ page_list' = <<page>> /\ handed' = Append(handed, Piece(1, 0, size))
      /\ open /\ UNCHANGED <<open, current_page_size>>
  BY DEF FirstPage
<1> HIDE DEF n, page
<1>4. /\ page_list' \in Seq(Pages)
      /\ DOMAIN page_list' = {1} /\ page_list'[1] = page /\ DOMAIN page_list = {}
  BY <1>2, <1>3, SeqOfOne, SeqOfNone
<1>5. PagesLarge'
  BY <1>1, <1>2, <1>3, <1>4 DEF PagesLarge
<1> DEFINE p == Piece(1, 0, size)
<1>6. p \in Pieces /\ p.page = 1 /\ p.cell = 0 /\ After(p) = n
  BY <1>1, PieceType DEF n
<1> HIDE DEF p
<1>7. QED
  BY <1>1, <1>2, <1>3, <1>4, <1>5, <1>6, PieceAdded DEF p

LEMMA NextPageInv ==
  ASSUME IInv, NEW size \in Sizes, NextPage(size)
  PROVE  IInv'
<1> DEFINE n == CellNum(size)
           page == Page(AllocNum(n), AllocNum(n))
           last == Len(page_list) + 1
<1>1. n \in Nat /\ AllocNum(n) \in Nat /\ n <= AllocNum(n) /\ current_page_size <= AllocNum(n)
  BY CellsHoldSize, AllocNumType
<1>2. page \in Pages /\ page.cell_num = AllocNum(n) /\ page.use_cell_num = AllocNum(n)
  BY <1>1, PageFields
<1>3. /\ page_list' = Append(page_list, page) /\ handed' = Append(handed, Piece(last, 0, size))
      /\ open /\ UNCHANGED <<open, current_page_size>>
  BY DEF NextPage
<1>4. page_list \in Seq(Pages)
  BY DEF IInv, StorageTypeOK
<1> HIDE DEF n, page
<1>5. /\ page_list' \in Seq(Pages)
      /\ last \in Nat /\ last \notin DOMAIN page_list
      /\ DOMAIN page_list' = DOMAIN page_list \cup {last} /\ page_list'[last] = page
      /\ \A k \in DOMAIN page_list : page_list'[k] = page_list[k]
  BY <1>2, <1>3, <1>4, SeqAppended
<1> HIDE DEF last
<1>6. \A k \in DOMAIN page_list : page_list[k].use_cell_num \in Nat
  <2>1. ASSUME NEW k \in DOMAIN page_list PROVE page_list[k] \in Pages
    BY <1>4, SeqElement
  <2>2. QED
    BY <2>1, PageFields
<1>7. PagesLarge'
  BY <1>1, <1>2, <1>3, <1>5 DEF PagesLarge, IInv
<1> DEFINE p == Piece(last, 0, size)
<1>8. p \in Pieces /\ p.page = last /\ p.cell = 0 /\ After(p) = n
  <2>1. p \in Pieces /\ p.page = last /\ p.cell = 0 /\ After(p) = 0 + n
    BY <1>5, PieceType DEF n
  <2> HIDE DEF p
  <2>2. QED
    BY <1>1, <2>1
<1> HIDE DEF p
<1>9. QED
  BY <1>1, <1>2, <1>3, <1>5, <1>6, <1>7, <1>8, PieceAdded DEF p

\* The default size is a lower bound of the last page's own, so room by the
\* one is room by the other.
LEMMA SamePageInv ==
  ASSUME IInv, NEW size \in Sizes, SamePage(size)
  PROVE  IInv'
<1> DEFINE n == CellNum(size)
           last == Len(page_list)
           used == page_list[last].use_cell_num
<1>1. n \in Nat
  BY CellsHoldSize
<1>2. /\ page_list \in Seq(Pages) /\ page_list # <<>>
      /\ current_page_size \in Nat
  BY DEF IInv, StorageTypeOK, SamePage
<1>3. last \in DOMAIN page_list /\ last \in Nat /\ used \in Nat
      /\ page_list[last].cell_num \in Nat /\ current_page_size <= page_list[last].cell_num
  <2>1. last \in DOMAIN page_list /\ last \in Nat
    BY <1>2, SeqLast
  <2>2. page_list[last] \in Pages
    BY <1>2, <2>1, SeqElement
  <2>3. QED
    BY <2>1, <2>2, PageFields DEF IInv, PagesLarge
<1> DEFINE page == [page_list[last] EXCEPT !.use_cell_num = used + n]
<1>4. /\ page_list' = [page_list EXCEPT ![last] = page]
      /\ handed' = Append(handed, Piece(last, used, size))
      /\ open /\ UNCHANGED <<open, current_page_size>>
      /\ current_page_size - (used + n) >= 0
  BY DEF SamePage, Enough, LastPage
<1>5. /\ page \in Pages /\ page.use_cell_num = used + n
      /\ page.cell_num = page_list[last].cell_num
  <2>1. page_list[last] \in Pages
    BY <1>2, <1>3, SeqElement
  <2> HIDE DEF n, used
  <2>2. QED
    BY <1>1, <1>3, <2>1 DEF Pages
<1> HIDE DEF n, last, page
<1>6. /\ DOMAIN page_list' = DOMAIN page_list /\ page_list' \in Seq(Pages)
      /\ page_list'[last] = page
      /\ \A k \in DOMAIN page_list : k # last => page_list'[k] = page_list[k]
  BY <1>2, <1>3, <1>4, <1>5, SeqUpdated
<1>7. PagesLarge'
  <2>1. page.use_cell_num <= page.cell_num /\ current_page_size <= page.cell_num
    BY <1>1, <1>2, <1>3, <1>4, <1>5
  <2>2. \A k \in DOMAIN page_list : /\ page_list[k].use_cell_num <= page_list[k].cell_num
                                     /\ current_page_size <= page_list[k].cell_num
    BY DEF PagesLarge, IInv
  <2> HIDE DEF used
  <2>3. ASSUME NEW k \in DOMAIN page_list
        PROVE  /\ page_list'[k].use_cell_num <= page_list'[k].cell_num
               /\ current_page_size <= page_list'[k].cell_num
    <3>1. CASE k = last
      BY <1>6, <2>1, <3>1
    <3>2. CASE k # last
      BY <1>6, <2>2, <3>2
    <3>3. QED
      BY <3>1, <3>2
  <2>4. current_page_size' = current_page_size
    BY <1>4
  <2>5. QED
    BY <1>6, <2>3, <2>4 DEF PagesLarge
<1>8. \A k \in DOMAIN page_list : page_list[k].use_cell_num <= page_list'[k].use_cell_num
  <2>1. ASSUME NEW k \in DOMAIN page_list PROVE page_list[k].use_cell_num \in Nat
    BY <1>2, SeqElement, PageFields
  <2>2. QED
    BY <1>1, <1>3, <1>5, <1>6, <2>1
<1> HIDE DEF used
<1> DEFINE p == Piece(last, used, size)
<1>9. p \in Pieces /\ p.page = last /\ p.cell = used /\ After(p) = used + n
  BY <1>1, <1>3, PieceType DEF n
<1> HIDE DEF p
<1>10. page_list[last].use_cell_num <= used
  BY <1>3 DEF used
<1>11. QED
  BY <1>1, <1>3, <1>4, <1>5, <1>6, <1>7, <1>8, <1>9, <1>10, PieceAdded DEF p

LEMMA NextInv == IInv /\ [Next]_storageVars => IInv'
<1> SUFFICES ASSUME IInv, [Next]_storageVars
             PROVE  IInv'
  OBVIOUS
<1>1. ASSUME page_list' = <<>>, handed' = <<>>, open' \in BOOLEAN, current_page_size' \in Nat
      PROVE  IInv'
  <2>1. StorageTypeOK'
    BY <1>1, SeqOfNone DEF StorageTypeOK
  <2>2. PagesLarge' /\ CellsInside' /\ CellsApart' /\ Closed'
    BY <1>1, SeqOfNone DEF Closed, PagesLarge, CellsInside, CellsApart
  <2>3. QED
    BY <2>1, <2>2 DEF IInv
<1>2. ASSUME NEW page_size \in PageSizes, OpenStorage(page_size)
      PROVE  IInv'
  BY <1>1, <1>2, PageAssumption DEF OpenStorage, IInv, Closed
<1>3. ASSUME NEW size \in Sizes, StorageMalloc(size)
      PROVE  IInv'
  BY <1>3, FirstPageInv, NextPageInv, SamePageInv DEF StorageMalloc
<1>4. CASE Dispose
  BY <1>1, <1>4 DEF Dispose, IInv, StorageTypeOK
<1>5. CASE UNCHANGED storageVars
  <2>1. UNCHANGED <<open, current_page_size, page_list, handed>>
    BY <1>5 DEF storageVars
  <2>2. StorageTypeOK' /\ Closed' /\ PagesLarge'
    BY <2>1 DEF IInv, StorageTypeOK, Closed, PagesLarge
  <2>3. CellsInside' /\ CellsApart'
    BY <2>1 DEF IInv, CellsInside, CellsApart, After
  <2>4. QED
    BY <2>2, <2>3 DEF IInv
<1>6. QED
  BY <1>2, <1>3, <1>4, <1>5 DEF Next

-----------------------------------------------------------------------------
\* From cells to bytes.
LEMMA InBytes ==
  ASSUME IInv, NEW i \in DOMAIN handed
  PROVE  /\ handed[i].cell \in Nat /\ After(handed[i]) \in Nat
         /\ Start(handed[i]) \in Nat /\ End(handed[i]) \in Nat
         /\ End(handed[i]) <= After(handed[i]) * CELL_SIZE
<1> DEFINE c == handed[i].cell
           n == CellNum(handed[i].size)
<1>1. handed[i] \in Pieces
  <2>1. handed \in Seq(Pieces)
    BY DEF IInv, StorageTypeOK
  <2>2. QED
    BY <2>1, SeqElement
<1>2. c \in Nat /\ n \in Nat /\ CELL_SIZE \in Nat /\ handed[i].size \in Nat
      /\ handed[i].size <= n * CELL_SIZE
  BY <1>1, CellsHoldSize, CellAssumption, PieceFields
<1>3. After(handed[i]) = c + n /\ Start(handed[i]) = c * CELL_SIZE
      /\ End(handed[i]) = c * CELL_SIZE + handed[i].size
  BY DEF After, Start, End
<1> HIDE DEF c, n
<1> DEFINE s == c * CELL_SIZE
           m == n * CELL_SIZE
<1>4. s \in Nat /\ m \in Nat /\ (c + n) * CELL_SIZE = s + m
  BY <1>2
<1> HIDE DEF s, m
<1>5. c + n \in Nat /\ s + handed[i].size \in Nat /\ s + handed[i].size <= s + m
  BY <1>2, <1>4 DEF m
<1>6. QED
  BY <1>2, <1>3, <1>4, <1>5 DEF c, s

\* Whatever is asked for, in whatever order: what MEM_storage_malloc returns
\* lies in its page with all its bytes (storage.c:43-94).
THEOREM StoragePiecesInside == Spec => []PiecesInside
<1>1. IInv => PiecesInside
  <2> SUFFICES ASSUME IInv, NEW i \in DOMAIN handed
               PROVE  /\ handed[i].page \in DOMAIN page_list
                      /\ End(handed[i]) <= page_list[handed[i].page].cell_num * CELL_SIZE
    BY DEF PiecesInside
  <2> DEFINE page == page_list[handed[i].page]
  <2>1. handed[i].page \in DOMAIN page_list /\ After(handed[i]) <= page.use_cell_num
    BY DEF IInv, CellsInside
  <2>2. page \in Pages /\ page.use_cell_num <= page.cell_num
    <3>1. page_list \in Seq(Pages)
      BY DEF IInv, StorageTypeOK
    <3>2. page \in Pages
      BY <2>1, <3>1, SeqElement
    <3>3. QED
      BY <2>1, <3>2 DEF IInv, PagesLarge
  <2>3. After(handed[i]) \in Nat /\ End(handed[i]) \in Nat
        /\ End(handed[i]) <= After(handed[i]) * CELL_SIZE
    BY InBytes
  <2> DEFINE a == After(handed[i])
             b == page.cell_num
  <2>4. a \in Nat /\ b \in Nat /\ a <= b
    BY <2>1, <2>2, <2>3, PageFields
  <2> HIDE DEF a, b
  <2>5. a * CELL_SIZE <= b * CELL_SIZE /\ a * CELL_SIZE \in Int /\ b * CELL_SIZE \in Int
    BY <2>4, Scaled, CellAssumption
  <2>6. End(handed[i]) <= a * CELL_SIZE
    BY <2>3 DEF a
  <2> DEFINE e == End(handed[i])
             am == a * CELL_SIZE
             bm == b * CELL_SIZE
  <2>7. e <= bm
    <3>1. e \in Nat /\ am \in Int /\ bm \in Int /\ e <= am /\ am <= bm
      BY <2>3, <2>5, <2>6
    <3> HIDE DEF e, am, bm
    <3>2. QED
      BY <3>1
  <2>8. QED
    BY <2>1, <2>7 DEF b
<1>2. QED
  BY <1>1, InitInv, NextInv, PTL DEF Spec

\* Whatever is asked for, in whatever order: no byte is handed out twice
\* (storage.c:43-94).
THEOREM StoragePiecesApart == Spec => []PiecesApart
<1>1. ASSUME IInv, NEW i \in DOMAIN handed, NEW j \in DOMAIN handed,
             After(handed[i]) <= handed[j].cell
      PROVE  End(handed[i]) <= Start(handed[j])
  <2> DEFINE a == After(handed[i])
             b == handed[j].cell
  <2>1. a \in Nat /\ b \in Nat /\ a <= b /\ Start(handed[j]) = b * CELL_SIZE
    BY <1>1, InBytes DEF Start
  <2>2. End(handed[i]) \in Nat /\ End(handed[i]) <= a * CELL_SIZE
    BY <1>1, InBytes
  <2> HIDE DEF a, b
  <2>3. a * CELL_SIZE <= b * CELL_SIZE /\ a * CELL_SIZE \in Int /\ b * CELL_SIZE \in Int
    BY <2>1, Scaled, CellAssumption
  <2>4. QED
    BY <2>1, <2>2, <2>3
<1>2. IInv => PiecesApart
  BY <1>1 DEF IInv, CellsApart, PiecesApart
<1>3. QED
  BY <1>2, InitInv, NextInv, PTL DEF Spec

=============================================================================
