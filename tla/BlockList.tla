------------------------------ MODULE BlockList ------------------------------
(* What the debug allocator of memory/memory.c promises: it knows its live   *)
(* blocks, newest first, each with the size last asked for. A reallocated    *)
(* block keeps its place, whatever address it gets. MEM_dump_memory shows    *)
(* exactly this list.                                                        *)
EXTENDS Integers, Sequences

CONSTANTS Blocks, Sizes

VARIABLE list  \* sequence of [block, size]

Listed == {list[i].block : i \in DOMAIN list}
Entry(b, n) == [block |-> b, size |-> n]

Init == list = <<>>

Malloc(b, n) == b \notin Listed /\ list' = <<Entry(b, n)>> \o list
Free(i) == list' = SubSeq(list, 1, i - 1) \o SubSeq(list, i + 1, Len(list))
Realloc(i, b, n) ==
  /\ b = list[i].block \/ b \notin Listed
  /\ list' = [list EXCEPT ![i] = Entry(b, n)]

Next == \/ \E b \in Blocks, n \in Sizes : Malloc(b, n)
        \/ \E i \in DOMAIN list : Free(i)
        \/ \E i \in DOMAIN list, b \in Blocks, n \in Sizes : Realloc(i, b, n)

Spec == Init /\ [][Next]_list

=============================================================================
