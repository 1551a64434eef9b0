----------------------------- MODULE MemoryList -----------------------------
(* The allocator against the list of blocks it promises to keep.             *)
EXTENDS Memory, Sequences

\* The blocks a walk from the block h along nx meets, as MEM_dump_memory_func
\* walks; a walk longer than the number of blocks is a cycle.
WalkFrom(h, nx) ==
  LET walk[k \in 0 .. Cardinality(Blocks)] ==
        [b \in Blocks \cup {NULL} |->
           IF k = 0 \/ b = NULL THEN <<>> ELSE <<b>> \o walk[k - 1][nx[b]]]
  IN  walk[Cardinality(Blocks)][h]

Walk == WalkFrom(block_header, next)

Dump == [i \in DOMAIN Walk |-> [block |-> Walk[i], size |-> size[Walk[i]]]]

\* MEM_dump_memory shows every live block once and nothing else, so that
\* "no allocated memory" means there is none (memory.c:102-128).
DumpShowsLive ==
  /\ {Walk[i] : i \in DOMAIN Walk} = live
  /\ Len(Walk) = Cardinality(live)

\* No chain of calls ever closes the chain to a ring.
Acyclic == AgesIn(1 .. Cardinality(Blocks))

Abstract == INSTANCE BlockList WITH list <- Dump

\* The chain implements the list: a call changes the entry it is about and
\* keeps the others in their order, also when realloc moves a block. Exiting
\* for want of memory is a stutter or a last Free.
ImplementsBlockList == Abstract!Spec

=============================================================================
