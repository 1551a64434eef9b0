------------------------------- MODULE Memory -------------------------------
(* The debug allocator of memory/memory.c. Every block carries a header that *)
(* links it into a doubly linked chain, the newest block first; the program  *)
(* keeps only pointers to blocks, so a block the chain loses can be neither  *)
(* dumped nor found again. One action is one call of the interface.          *)
(*                                                                           *)
(* A block stands for the address of its header. malloc, realloc and free    *)
(* of the C library choose the address: any one that is not in use, and for  *)
(* realloc possibly the old one.                                             *)
EXTENDS Integers, FiniteSets

CONSTANTS
  Blocks,  \* the addresses
  NULL,    \* the null pointer
  Sizes    \* the sizes the program asks for

ASSUME NullAssumption == NULL \notin Blocks
ASSUME BlocksFinite == IsFiniteSet(Blocks)

VARIABLES
  block_header,  \* controller->block_header: the first block of the chain
  next, prev,    \* the links in the blocks' headers
  size,          \* the sizes in the headers
  live,          \* the addresses the C library has handed out
  failed         \* the process has exited: the C library had no memory

vars == <<block_header, next, prev, size, live, failed>>

Set(f, b, v) == [f EXCEPT ![b] = v]

Init ==
  /\ block_header = NULL /\ live = {} /\ failed = FALSE
  /\ next = [b \in Blocks |-> NULL] /\ prev = [b \in Blocks |-> NULL]
  /\ size = [b \in Blocks |-> 0]

\* Mutant of Chained: chain_header without the link back from the old first block.
ChainedOneWay(b) ==
  /\ next' = Set(next, b, block_header) /\ prev' = Set(prev, b, NULL)
  /\ block_header' = b

\* set_header, then chain_header: the block becomes the first.
Chained(b) ==
  IF block_header = NULL
  THEN /\ next' = Set(next, b, NULL) /\ prev' = Set(prev, b, NULL)
       /\ block_header' = b
  ELSE /\ next' = Set(next, b, block_header)
       /\ prev' = Set(Set(prev, b, NULL), block_header, b)
       /\ block_header' = b

\* The chain without b, as unchain_header leaves it; b's own links stay.
Unchained(b) ==
  [header |-> IF prev[b] = NULL THEN next[b] ELSE block_header,
   next   |-> IF prev[b] = NULL THEN next ELSE Set(next, prev[b], next[b]),
   prev   |-> IF next[b] = NULL THEN prev
              ELSE Set(prev, next[b], prev[b])]

\* MEM_malloc_func, MEM_realloc_func of NULL and MEM_strdup_func.
Malloc(b, n) ==
  /\ ~failed /\ b \notin live
  /\ Chained(b)
  /\ size' = Set(size, b, n) /\ live' = live \cup {b}
  /\ UNCHANGED failed

\* MEM_free_func
Free(b) ==
  /\ ~failed /\ b \in live
  /\ LET c == Unchained(b) IN
       block_header' = c.header /\ next' = c.next /\ prev' = c.prev
  /\ live' = live \ {b}
  /\ UNCHANGED <<size, failed>>

\* Mutants of Rechained: the controller's pointer is not brought up to date;
\* the block is chained again as if it were new.
HeaderForgotten(u, c, p, q) ==
  [header |-> u.header,
   next   |-> [b \in Blocks |-> IF b = c THEN q ELSE IF b = p THEN c ELSE u.next[b]],
   prev   |-> [b \in Blocks |-> IF b = c THEN p ELSE IF b = q THEN c ELSE u.prev[b]]]
MovedToFront(u, c, p, q) ==
  [header |-> c,
   next   |-> Set(u.next, c, u.header),
   prev   |-> [b \in Blocks |-> IF b = c THEN NULL ELSE IF b = u.header THEN c ELSE u.prev[b]]]

\* rechain_header: the block c between p and q in the chain u.
Rechained(u, c, p, q) ==
  [header |-> IF p = NULL THEN c ELSE u.header,
   next   |-> [b \in Blocks |-> IF b = c THEN q ELSE IF b = p THEN c ELSE u.next[b]],
   prev   |-> [b \in Blocks |-> IF b = c THEN p ELSE IF b = q THEN c ELSE u.prev[b]]]

\* MEM_realloc_func of a block: it is unchained, its header is saved, the C
\* library returns the block c (b itself, or another address: b is gone), the
\* header is restored there and rechain_header puts it between its neighbours.
Realloc(b, c, n) ==
  /\ ~failed /\ b \in live /\ (c = b \/ c \notin live)
  /\ LET r == Rechained(Unchained(b), c, prev[b], next[b]) IN
       block_header' = r.header /\ next' = r.next /\ prev' = r.prev
  /\ size' = Set(size, c, n)
  /\ live' = (live \ {b}) \cup {c}
  /\ UNCHANGED failed

\* The C library returns NULL: a message, and exit(1). A failing realloc has
\* taken its block out of the chain and frees it first.
OutOfMemory ==
  /\ ~failed /\ failed' = TRUE
  /\ \/ UNCHANGED <<block_header, next, prev, size, live>>
     \/ \E b \in live : LET c == Unchained(b) IN
          /\ block_header' = c.header /\ next' = c.next /\ prev' = c.prev
          /\ live' = live \ {b} /\ UNCHANGED size

Next ==
  \/ \E b \in Blocks, n \in Sizes : Malloc(b, n)
  \/ \E b \in Blocks : Free(b)
  \/ \E b, c \in Blocks, n \in Sizes : Realloc(b, c, n)
  \/ OutOfMemory
  \/ failed /\ UNCHANGED vars

Spec == Init /\ [][Next]_vars

-----------------------------------------------------------------------------
TypeOK ==
  /\ block_header \in Blocks \cup {NULL}
  /\ next \in [Blocks -> Blocks \cup {NULL}]
  /\ prev \in [Blocks -> Blocks \cup {NULL}]
  /\ size \in [Blocks -> Sizes \cup {0}]
  /\ live \in SUBSET Blocks
  /\ failed \in BOOLEAN

\* The chain is doubly linked through live blocks: its first block has no
\* predecessor and is the only one without, and every link has its converse.
\* No sequence of malloc, free and realloc leaves a link to memory that was
\* freed or moved (memory.c:62-100, 165-218).
DoublyLinked ==
  /\ block_header # NULL => block_header \in live /\ prev[block_header] = NULL
  /\ \A b \in live :
       /\ next[b] # NULL => next[b] \in live /\ prev[next[b]] = b
       /\ prev[b] # NULL => prev[b] \in live /\ next[prev[b]] = b
       /\ prev[b] = NULL => b = block_header

\* The chain has an order of age with values in S: following next always leads
\* to an older block, so a walk along it ends (memory.c:102-128).
AgesIn(S) ==
  \E age \in [Blocks -> S] :
    \A b \in live : next[b] # NULL => age[next[b]] < age[b]

=============================================================================
