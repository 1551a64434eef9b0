---------------------------- MODULE MemoryProofs ----------------------------
(* The allocator for every set of addresses and sizes. Doubly linked through *)
(* live blocks is not inductive: a block of a ring apart from the first one  *)
(* satisfies it too, and freeing the second last block of the ring would     *)
(* leave a block linked to itself, which realloc then could not move. The    *)
(* invariant names the order instead: the live blocks are a sequence in      *)
(* which every link leads to the neighbour. From it follow the links, that   *)
(* there is no ring, and, when there are finitely many addresses, that the   *)
(* walk of MEM_dump_memory meets the sequence, and that each call does to it *)
(* what the list of blocks of BlockList promises.                            *)
EXTENDS MemoryList, FiniteSetTheorems, SequenceTheorems, WellFoundedInduction, TLAPS

At(s, i) == IF i \in 1 .. Len(s) THEN s[i] ELSE NULL

\* s is the live blocks, each once, in the order of the chain.
IsChain(s) ==
  /\ s \in Seq(live)
  /\ \A i, j \in 1 .. Len(s) : s[i] = s[j] => i = j
  /\ \A b \in live : \E i \in 1 .. Len(s) : s[i] = b
  /\ block_header = At(s, 1)
  /\ \A i \in 1 .. Len(s) : next[s[i]] = At(s, i + 1) /\ prev[s[i]] = At(s, i - 1)

IInv == TypeOK /\ \E s \in Seq(Blocks) : IsChain(s)

\* What becomes of the sequence: a block goes before it, leaves it, or gives
\* its place to another.
With(s, b) == [i \in 1 .. Len(s) + 1 |-> IF i = 1 THEN b ELSE s[i - 1]]
Replaced(s, d, c) == [i \in 1 .. Len(s) |-> IF i = d THEN c ELSE s[i]]
Without(s, d) == [i \in 1 .. Len(s) - 1 |-> IF i < d THEN s[i] ELSE s[i + 1]]

LEMMA InitInv == Init => TypeOK /\ IsChain(<<>>)
<1> SUFFICES ASSUME Init
             PROVE  TypeOK /\ IsChain(<<>>)
  OBVIOUS
<1>1. TypeOK
  BY DEF Init, TypeOK
<1>2. IsChain(<<>>)
  BY DEF Init, IsChain, At
<1>3. QED
  BY <1>1, <1>2

LEMMA ChainFacts ==
  ASSUME TypeOK, NEW s \in Seq(Blocks), IsChain(s)
  PROVE  /\ Len(s) \in Nat
         /\ \A i \in 1 .. Len(s) : s[i] \in live /\ s[i] \in Blocks
         /\ \A i, j \in 1 .. Len(s) : s[i] = s[j] => i = j
         /\ \A i \in 1 .. Len(s) : next[s[i]] = At(s, i + 1) /\ prev[s[i]] = At(s, i - 1)
         /\ block_header = At(s, 1)
<1>1. Len(s) \in Nat /\ \A i \in 1 .. Len(s) : s[i] \in live /\ s[i] \in Blocks
  BY DEF IsChain, TypeOK
<1>2. \A i, j \in 1 .. Len(s) : s[i] = s[j] => i = j
  BY Zenon DEF IsChain
<1>3. \A i \in 1 .. Len(s) : next[s[i]] = At(s, i + 1) /\ prev[s[i]] = At(s, i - 1)
  BY Zenon DEF IsChain
<1>4. block_header = At(s, 1)
  BY Zenon DEF IsChain
<1>5. QED
  BY <1>1, <1>2, <1>3, <1>4

\* A new block goes before the first one.
LEMMA MallocChain ==
  ASSUME TypeOK, NEW s \in Seq(Blocks), IsChain(s),
         NEW b \in Blocks, NEW n \in Sizes, Malloc(b, n)
  PROVE  /\ TypeOK' /\ With(s, b) \in Seq(Blocks) /\ IsChain(With(s, b))'
         /\ b \notin live /\ size' = [size EXCEPT ![b] = n]
<1> DEFINE t == With(s, b)
<1>1. /\ Len(s) \in Nat /\ \A i \in 1 .. Len(s) : s[i] \in live /\ s[i] \in Blocks
      /\ b \notin live /\ live' = live \cup {b} /\ block_header' = b /\ failed' = failed
      /\ next' = [next EXCEPT ![b] = block_header]
      /\ prev' = [a \in Blocks |-> IF a = b THEN NULL
                                   ELSE IF a = block_header THEN b ELSE prev[a]]
  <2>1. Len(s) \in Nat /\ \A i \in 1 .. Len(s) : s[i] \in live /\ s[i] \in Blocks
    BY DEF IsChain, TypeOK
  <2>2. block_header # NULL => block_header \in live /\ block_header \in Blocks
    BY <2>1 DEF IsChain, TypeOK, At
  <2>3. CASE block_header = NULL
    BY <2>1, <2>3, NullAssumption DEF Malloc, Chained, Set, TypeOK
  <2>4. CASE block_header # NULL
    BY <2>1, <2>2, <2>4, NullAssumption DEF Malloc, Chained, Set, TypeOK
  <2>5. QED
    BY <2>3, <2>4
<1>2. TypeOK' /\ size' = [size EXCEPT ![b] = n]
  BY <1>1 DEF TypeOK, Malloc, Set
<1>3. /\ t \in Seq(Blocks) /\ t \in Seq(live') /\ Len(t) = Len(s) + 1
      /\ t[1] = b /\ \A i \in 1 .. Len(s) : t[i + 1] = s[i]
      /\ \A i \in 2 .. Len(t) : t[i] = s[i - 1]
  BY <1>1 DEF With
<1> HIDE DEF t
<1>4. ASSUME NEW i \in 1 .. Len(t), NEW j \in 1 .. Len(t), t[i] = t[j]
      PROVE  i = j
  <2>1. ASSUME NEW k \in 1 .. Len(t), k # 1
        PROVE  t[k] # b
    <3>1. k - 1 \in 1 .. Len(s) /\ t[k] = s[k - 1]
      BY <1>1, <1>3, <2>1
    <3>2. QED
      BY <1>1, <3>1
  <2>2. CASE i = 1 \/ j = 1
    BY <1>3, <1>4, <2>1, <2>2
  <2>3. CASE i # 1 /\ j # 1
    <3>1. /\ i - 1 \in 1 .. Len(s) /\ j - 1 \in 1 .. Len(s)
          /\ t[i] = s[i - 1] /\ t[j] = s[j - 1]
      BY <1>1, <1>3, <2>3
    <3>2. i - 1 = j - 1
      BY <1>4, <3>1, ChainFacts
    <3>3. QED
      BY <1>1, <1>3, <3>1, <3>2
  <2>4. QED
    BY <2>2, <2>3
<1>5. \A a \in live' : \E i \in 1 .. Len(t) : t[i] = a
  <2> SUFFICES ASSUME NEW a \in live'
               PROVE  \E i \in 1 .. Len(t) : t[i] = a
    OBVIOUS
  <2>1. CASE a = b
    BY <1>1, <1>3, <2>1
  <2>2. CASE a # b
    <3>1. PICK i \in 1 .. Len(s) : s[i] = a
      BY <1>1, <2>2 DEF IsChain
    <3>2. i + 1 \in 1 .. Len(t) /\ t[i + 1] = a
      BY <1>1, <1>3, <3>1
    <3>3. QED
      BY <3>2
  <2>3. QED
    BY <2>1, <2>2
<1>6. block_header' = At(t, 1)
  BY <1>1, <1>3 DEF At
<1>7. ASSUME NEW i \in 1 .. Len(t)
      PROVE  next'[t[i]] = At(t, i + 1) /\ prev'[t[i]] = At(t, i - 1)
  <2>1. CASE i = 1
    BY <1>1, <1>3, <2>1 DEF At, IsChain, TypeOK
  <2>2. CASE i # 1
    <3>1. PICK k \in 1 .. Len(s) : i = k + 1
      BY <1>1, <1>3, <2>2
    <3>a. t[i] = s[k] /\ s[k] \in Blocks /\ s[k] # b /\ s[k] # NULL
      BY <1>1, <1>3, <3>1, NullAssumption
    <3>5. next[s[k]] = At(s, k + 1) /\ prev[s[k]] = At(s, k - 1)
      BY <3>1, ChainFacts
    <3>2. next'[t[i]] = next[s[k]]
      BY <1>1, <3>a DEF TypeOK
    <3>3. prev'[t[i]] = IF s[k] = block_header THEN b ELSE prev[s[k]]
      BY <1>1, <3>a DEF TypeOK
    <3>4. s[k] = block_header <=> k = 1
      <4>1. block_header = At(s, 1) /\ 1 \in 1 .. Len(s)
        BY <1>1, <3>1, ChainFacts
      <4>2. block_header = s[1]
        BY <4>1 DEF At
      <4>3. QED
        BY <3>1, <4>1, <4>2, ChainFacts
    <3>6. At(s, k + 1) = At(t, i + 1)
      BY <1>1, <1>3, <3>1 DEF At
    <3>7. k # 1 => At(s, k - 1) = At(t, i - 1)
      BY <1>1, <1>3, <3>1 DEF At
    <3>8. k = 1 => At(t, i - 1) = b
      BY <1>1, <1>3, <3>1 DEF At
    <3>9. QED
      BY <3>2, <3>3, <3>4, <3>5, <3>6, <3>7, <3>8
  <2>3. QED
    BY <2>1, <2>2
<1>8. IsChain(t)'
  BY <1>3, <1>4, <1>5, <1>6, <1>7 DEF IsChain, At
<1>9. QED
  BY <1>1, <1>2, <1>3, <1>8 DEF t

\* unchain_header: the blocks before and after b are linked to each other.
LEMMA UnchainedChain ==
  ASSUME TypeOK, NEW s \in Seq(Blocks), IsChain(s),
         NEW d \in 1 .. Len(s), NEW b, b = s[d],
         block_header' = Unchained(b).header, next' = Unchained(b).next,
         prev' = Unchained(b).prev, live' = live \ {b}, failed' \in BOOLEAN,
         size' = size
  PROVE  TypeOK' /\ Without(s, d) \in Seq(Blocks) /\ IsChain(Without(s, d))'
<1> DEFINE t == Without(s, d)
<1>1. /\ block_header' = IF prev[b] = NULL THEN next[b] ELSE block_header
      /\ next' = IF prev[b] = NULL THEN next ELSE [next EXCEPT ![prev[b]] = next[b]]
      /\ prev' = IF next[b] = NULL THEN prev ELSE [prev EXCEPT ![next[b]] = prev[b]]
  BY DEF Unchained, Set
<1>2. /\ Len(s) \in Nat /\ \A i \in 1 .. Len(s) : s[i] \in live /\ s[i] \in Blocks
      /\ \A i, j \in 1 .. Len(s) : s[i] = s[j] => i = j
      /\ next[b] = At(s, d + 1) /\ prev[b] = At(s, d - 1)
      /\ \A i \in 1 .. Len(s) : next[s[i]] = At(s, i + 1) /\ prev[s[i]] = At(s, i - 1)
  BY ChainFacts
<1>3. TypeOK'
  <2>1. b \in Blocks /\ next[b] \in Blocks \cup {NULL} /\ prev[b] \in Blocks \cup {NULL}
    BY <1>2 DEF TypeOK
  <2>2. QED
    BY <1>1, <2>1 DEF TypeOK
<1>4. \A i \in 1 .. Len(s) : i # d => s[i] \in live'
  BY <1>2
<1>5. /\ t \in Seq(Blocks) /\ t \in Seq(live') /\ Len(t) = Len(s) - 1
      /\ \A i \in 1 .. Len(t) : t[i] = IF i < d THEN s[i] ELSE s[i + 1]
  BY <1>2, <1>4 DEF Without
<1> HIDE DEF t
<1>6. ASSUME NEW i \in 1 .. Len(t), NEW j \in 1 .. Len(t), t[i] = t[j]
      PROVE  i = j
  <2> DEFINE f(k) == IF k < d THEN k ELSE k + 1
  <2>1. Len(s) \in Nat /\ d \in Int /\ Len(t) = Len(s) - 1 /\ i \in Int /\ j \in Int
    BY <1>2, <1>5
  <2>2. f(i) \in 1 .. Len(s) /\ t[i] = s[f(i)]
    BY <1>5, <2>1
  <2>3. f(j) \in 1 .. Len(s) /\ t[j] = s[f(j)]
    BY <1>5, <2>1
  <2>4. f(i) = f(j)
    BY <1>2, <1>6, <2>2, <2>3
  <2>5. QED
    BY <2>1, <2>4
<1>7. \A a \in live' : \E i \in 1 .. Len(t) : t[i] = a
  <2> SUFFICES ASSUME NEW a \in live'
               PROVE  \E i \in 1 .. Len(t) : t[i] = a
    OBVIOUS
  <2>1. PICK i \in 1 .. Len(s) : s[i] = a
    BY DEF IsChain
  <2>2. i # d
    BY <2>1
  <2>3. CASE i < d
    <3>1. i \in 1 .. Len(t) /\ t[i] = a
      BY <1>2, <1>5, <2>1, <2>3
    <3>2. QED
      BY <3>1
  <2>4. CASE i > d
    <3>1. i - 1 \in 1 .. Len(t) /\ t[i - 1] = a
      BY <1>2, <1>5, <2>1, <2>4
    <3>2. QED
      BY <3>1
  <2>5. i \in Int /\ d \in Int
    BY <1>2
  <2>6. QED
    BY <2>2, <2>3, <2>4, <2>5
<1>8. block_header' = At(t, 1)
  <2>1. CASE d = 1
    BY <1>1, <1>2, <1>5, <2>1 DEF At
  <2>2. CASE d # 1
    <3>1. prev[b] # NULL
      BY <1>2, <2>2, NullAssumption DEF At
    <3>2. block_header = s[1]
      BY <1>2, <2>2 DEF IsChain, At
    <3>3. QED
      BY <1>1, <1>2, <1>5, <2>2, <3>1, <3>2 DEF At
  <2>3. QED
    BY <2>1, <2>2
\* The links of the block that was at k, for each place but d.
<1>9. ASSUME NEW k \in 1 .. Len(s), k # d
      PROVE  /\ next'[s[k]] = IF k = d - 1 THEN At(s, d + 1) ELSE At(s, k + 1)
             /\ prev'[s[k]] = IF k = d + 1 THEN At(s, d - 1) ELSE At(s, k - 1)
  <2>1. prev[b] = s[k] <=> k = d - 1
    BY <1>2, NullAssumption DEF At
  <2>2. next[b] = s[k] <=> k = d + 1
    BY <1>2, NullAssumption DEF At
  <2>3. next'[s[k]] = IF prev[b] = s[k] THEN next[b] ELSE next[s[k]]
    BY <1>1, <1>2, NullAssumption DEF TypeOK
  <2>4. prev'[s[k]] = IF next[b] = s[k] THEN prev[b] ELSE prev[s[k]]
    BY <1>1, <1>2, NullAssumption DEF TypeOK
  <2>5. QED
    BY <1>2, <2>1, <2>2, <2>3, <2>4
<1>10. ASSUME NEW i \in 1 .. Len(t)
       PROVE  next'[t[i]] = At(t, i + 1) /\ prev'[t[i]] = At(t, i - 1)
  <2>1. CASE i < d
    <3>1. i \in 1 .. Len(s) /\ i # d /\ t[i] = s[i]
      BY <1>2, <1>5, <2>1
    <3>2. next'[s[i]] = IF i = d - 1 THEN At(s, d + 1) ELSE At(s, i + 1)
      BY <1>9, <3>1
    <3>3. prev'[s[i]] = At(s, i - 1)
      BY <1>2, <1>9, <2>1, <3>1
    <3>4. At(t, i + 1) = IF i = d - 1 THEN At(s, d + 1) ELSE At(s, i + 1)
      BY <1>2, <1>5, <2>1 DEF At
    <3>5. At(t, i - 1) = At(s, i - 1)
      BY <1>2, <1>5, <2>1 DEF At
    <3>6. QED
      BY <3>1, <3>2, <3>3, <3>4, <3>5
  <2>2. CASE i >= d
    <3>1. i + 1 \in 1 .. Len(s) /\ i + 1 # d /\ t[i] = s[i + 1]
      BY <1>2, <1>5, <2>2
    <3>2. next'[s[i + 1]] = At(s, i + 2)
      BY <1>2, <1>9, <2>2, <3>1
    <3>3. prev'[s[i + 1]] = IF i = d THEN At(s, d - 1) ELSE At(s, i)
      BY <1>2, <1>9, <2>2, <3>1
    <3>4. At(t, i + 1) = At(s, i + 2)
      BY <1>2, <1>5, <2>2 DEF At
    <3>5. At(t, i - 1) = IF i = d THEN At(s, d - 1) ELSE At(s, i)
      <4>1. CASE i = d
        <5>1. i - 1 \in 1 .. Len(t) <=> d - 1 \in 1 .. Len(s)
          BY <1>2, <1>5, <4>1
        <5>2. d - 1 \in 1 .. Len(s) => t[d - 1] = s[d - 1]
          BY <1>2, <1>5, <4>1
        <5>3. QED
          BY <4>1, <5>1, <5>2 DEF At
      <4>2. CASE i # d
        <5>1. i - 1 \in 1 .. Len(t) /\ i \in 1 .. Len(s) /\ t[i - 1] = s[i]
          BY <1>2, <1>5, <2>2, <4>2
        <5>2. QED
          BY <4>2, <5>1 DEF At
      <4>3. QED
        BY <4>1, <4>2
    <3>6. QED
      BY <3>1, <3>2, <3>3, <3>4, <3>5
  <2>3. QED
    BY <1>2, <1>5, <2>1, <2>2
<1>11. IsChain(t)'
  BY <1>5, <1>6, <1>7, <1>8, <1>10 DEF IsChain, At
<1>12. QED
  BY <1>3, <1>5, <1>11 DEF t

\* rechain_header: the block takes its old place at its new address.
LEMMA ReallocChain ==
  ASSUME TypeOK, NEW s \in Seq(Blocks), IsChain(s), NEW d \in 1 .. Len(s),
         NEW c \in Blocks, NEW n \in Sizes, Realloc(s[d], c, n)
  PROVE  /\ TypeOK' /\ Replaced(s, d, c) \in Seq(Blocks) /\ IsChain(Replaced(s, d, c))'
         /\ c = s[d] \/ c \notin live
         /\ size' = [size EXCEPT ![c] = n]
<1> DEFINE t == Replaced(s, d, c)
<1>1. /\ Len(s) \in Nat /\ \A i \in 1 .. Len(s) : s[i] \in live /\ s[i] \in Blocks
      /\ \A i, j \in 1 .. Len(s) : s[i] = s[j] => i = j
      /\ \A i \in 1 .. Len(s) : next[s[i]] = At(s, i + 1) /\ prev[s[i]] = At(s, i - 1)
  BY ChainFacts
<1>2. /\ c = s[d] \/ c \notin live
      /\ live' = (live \ {s[d]}) \cup {c} /\ failed' = failed
      /\ size' = [size EXCEPT ![c] = n]
  BY DEF Realloc, Set
<1> DEFINE p == At(s, d - 1)
           q == At(s, d + 1)
<1>3. /\ p \in Blocks \cup {NULL} /\ q \in Blocks \cup {NULL}
      /\ p = prev[s[d]] /\ q = next[s[d]]
      /\ p = NULL <=> d = 1
      /\ d # 1 => p = s[d - 1]
      /\ q = NULL <=> d = Len(s)
      /\ d # Len(s) => q = s[d + 1]
  BY <1>1, NullAssumption DEF At
<1> HIDE DEF p, q
<1>4. /\ block_header' = IF p = NULL THEN c ELSE block_header
      /\ next' = [a \in Blocks |-> IF a = c THEN q ELSE IF a = p THEN c ELSE next[a]]
      /\ prev' = [a \in Blocks |-> IF a = c THEN p ELSE IF a = q THEN c ELSE prev[a]]
  <2> DEFINE u == Unchained(s[d])
  <2>1. /\ u.header = IF p = NULL THEN q ELSE block_header
        /\ u.next = IF p = NULL THEN next ELSE [next EXCEPT ![p] = q]
        /\ u.prev = IF q = NULL THEN prev ELSE [prev EXCEPT ![q] = p]
    BY <1>3 DEF Unchained, Set
  <2>2. \A a \in Blocks : /\ a # p => u.next[a] = next[a]
                         /\ a # q => u.prev[a] = prev[a]
    BY <2>1 DEF TypeOK
  <2>3. /\ block_header' = Rechained(u, c, p, q).header
        /\ next' = Rechained(u, c, p, q).next
        /\ prev' = Rechained(u, c, p, q).prev
    BY <1>3 DEF Realloc
  <2> HIDE DEF u
  <2>4. QED
    BY <2>1, <2>2, <2>3 DEF Rechained
<1>5. TypeOK'
  BY <1>1, <1>2, <1>3, <1>4 DEF TypeOK
<1>6. \A i \in 1 .. Len(s) : i # d => s[i] # c /\ s[i] \in live'
  BY <1>1, <1>2
<1>7. /\ t \in Seq(Blocks) /\ t \in Seq(live') /\ Len(t) = Len(s)
      /\ \A i \in 1 .. Len(s) : t[i] = IF i = d THEN c ELSE s[i]
  <2>1. Len(t) = Len(s) /\ \A i \in 1 .. Len(s) : t[i] = IF i = d THEN c ELSE s[i]
    BY <1>1 DEF Replaced
  <2>2. \A i \in 1 .. Len(s) : t[i] \in Blocks /\ t[i] \in live'
    BY <1>1, <1>2, <1>6, <2>1
  <2>3. t \in Seq(Blocks) /\ t \in Seq(live')
    BY <1>1, <2>1, <2>2 DEF Replaced
  <2>4. QED
    BY <2>1, <2>3
<1> HIDE DEF t
<1>8. \A i, j \in 1 .. Len(t) : t[i] = t[j] => i = j
  BY <1>1, <1>6, <1>7
<1>9. \A a \in live' : \E i \in 1 .. Len(t) : t[i] = a
  <2> SUFFICES ASSUME NEW a \in live'
               PROVE  \E i \in 1 .. Len(t) : t[i] = a
    OBVIOUS
  <2>1. CASE a = c
    BY <1>7, <2>1
  <2>2. CASE a # c
    <3>1. PICK i \in 1 .. Len(s) : s[i] = a
      BY <1>2, <2>2 DEF IsChain
    <3>2. i # d
      BY <1>1, <1>2, <2>2, <3>1
    <3>3. QED
      BY <1>7, <3>1, <3>2
  <2>3. QED
    BY <2>1, <2>2
<1>10. block_header' = At(t, 1)
  BY <1>1, <1>3, <1>4, <1>7 DEF IsChain, At
<1>11. ASSUME NEW i \in 1 .. Len(t)
       PROVE  next'[t[i]] = At(t, i + 1) /\ prev'[t[i]] = At(t, i - 1)
  <2>1. CASE i = d
    <3>1. t[i] = c /\ next'[c] = q /\ prev'[c] = p
      BY <1>4, <1>7, <2>1
    <3>2. At(t, i + 1) = q /\ At(t, i - 1) = p
      BY <1>1, <1>3, <1>7, <2>1 DEF At
    <3>3. QED
      BY <3>1, <3>2
  <2>2. CASE i # d
    <3>1. t[i] = s[i] /\ s[i] # c /\ s[i] \in Blocks
      BY <1>1, <1>6, <1>7, <2>2
    <3>2. next'[s[i]] = IF s[i] = p THEN c ELSE next[s[i]]
      BY <1>4, <3>1
    <3>3. prev'[s[i]] = IF s[i] = q THEN c ELSE prev[s[i]]
      BY <1>4, <3>1
    <3>4. s[i] = p <=> i = d - 1
      BY <1>1, <1>3, <1>7, NullAssumption
    <3>5. s[i] = q <=> i = d + 1
      BY <1>1, <1>3, <1>7, NullAssumption
    <3>6. next[s[i]] = At(s, i + 1) /\ prev[s[i]] = At(s, i - 1)
      BY <1>1, <1>7
    <3>a. \A k \in Int : k # d => At(t, k) = At(s, k)
      BY <1>1, <1>7 DEF At
    <3>b. At(t, d) = c
      BY <1>1, <1>7 DEF At
    <3>7. At(t, i + 1) = IF i = d - 1 THEN c ELSE At(s, i + 1)
      BY <1>1, <3>a, <3>b
    <3>8. At(t, i - 1) = IF i = d + 1 THEN c ELSE At(s, i - 1)
      BY <1>1, <3>a, <3>b
    <3>9. QED
      BY <3>1, <3>2, <3>3, <3>4, <3>5, <3>6, <3>7, <3>8
  <2>3. QED
    BY <2>1, <2>2
<1>12. IsChain(t)'
  BY <1>7, <1>8, <1>9, <1>10, <1>11 DEF IsChain, At
<1>13. QED
  BY <1>2, <1>5, <1>7, <1>12 DEF t

-----------------------------------------------------------------------------
\* Every step changes the sequence in one of four ways: not at all, or as
\* malloc, free and realloc do.
LEMMA NextChain ==
  ASSUME TypeOK, NEW s \in Seq(Blocks), IsChain(s), [Next]_vars
  PROVE  /\ TypeOK'
         /\ \/ IsChain(s)' /\ size' = size
            \/ \E b \in Blocks, n \in Sizes :
                 /\ With(s, b) \in Seq(Blocks) /\ IsChain(With(s, b))'
                 /\ b \notin live /\ size' = [size EXCEPT ![b] = n]
            \/ \E d \in 1 .. Len(s) :
                 /\ Without(s, d) \in Seq(Blocks) /\ IsChain(Without(s, d))'
                 /\ size' = size
            \/ \E d \in 1 .. Len(s), c \in Blocks, n \in Sizes :
                 /\ Replaced(s, d, c) \in Seq(Blocks) /\ IsChain(Replaced(s, d, c))'
                 /\ c = s[d] \/ c \notin live
                 /\ size' = [size EXCEPT ![c] = n]
<1>1. ASSUME NEW b \in Blocks, NEW n \in Sizes, Malloc(b, n)
      PROVE  /\ TypeOK' /\ With(s, b) \in Seq(Blocks) /\ IsChain(With(s, b))'
             /\ b \notin live /\ size' = [size EXCEPT ![b] = n]
  BY <1>1, MallocChain
<1>2. ASSUME NEW b \in live, live' = live \ {b},
             block_header' = Unchained(b).header, next' = Unchained(b).next,
             prev' = Unchained(b).prev, failed' \in BOOLEAN, size' = size
      PROVE  /\ TypeOK'
             /\ \E d \in 1 .. Len(s) :
                  Without(s, d) \in Seq(Blocks) /\ IsChain(Without(s, d))'
  <2>1. PICK d \in 1 .. Len(s) : s[d] = b
    BY DEF IsChain
  <2>2. TypeOK' /\ Without(s, d) \in Seq(Blocks) /\ IsChain(Without(s, d))'
    BY <1>2, <2>1, UnchainedChain
  <2>3. QED
    BY <2>2
<1>3. ASSUME NEW b \in Blocks, NEW c \in Blocks, NEW n \in Sizes, Realloc(b, c, n)
      PROVE  /\ TypeOK'
             /\ \E d \in 1 .. Len(s) :
                 /\ Replaced(s, d, c) \in Seq(Blocks) /\ IsChain(Replaced(s, d, c))'
                 /\ c = s[d] \/ c \notin live
                 /\ size' = [size EXCEPT ![c] = n]
  <2>1. PICK d \in 1 .. Len(s) : s[d] = b
    BY <1>3 DEF IsChain, Realloc
  <2>2. Realloc(s[d], c, n)
    BY <1>3, <2>1
  <2>3. QED
    BY <2>2, ReallocChain
<1>4. CASE UNCHANGED <<block_header, next, prev, live, size>> /\ failed' \in BOOLEAN
  BY <1>4 DEF TypeOK, IsChain, At
<1>5. CASE UNCHANGED vars
  BY <1>4, <1>5 DEF vars, TypeOK
<1>6. CASE OutOfMemory
  BY <1>2, <1>4, <1>6 DEF OutOfMemory
<1>7. ASSUME NEW b \in Blocks, Free(b)
      PROVE  /\ TypeOK' /\ size' = size
             /\ \E d \in 1 .. Len(s) :
                  Without(s, d) \in Seq(Blocks) /\ IsChain(Without(s, d))'
  <2>1. /\ b \in live /\ live' = live \ {b} /\ failed' = failed /\ size' = size
        /\ block_header' = Unchained(b).header /\ next' = Unchained(b).next
        /\ prev' = Unchained(b).prev
    BY <1>7 DEF Free
  <2>2. QED
    BY <1>2, <2>1 DEF TypeOK
<1>8. QED
  <2>1. CASE \E b \in Blocks, n \in Sizes : Malloc(b, n)
    BY <1>1, <2>1
  <2>2. CASE \E b \in Blocks : Free(b)
    BY <1>7, <2>2
  <2>3. CASE \E b, c \in Blocks, n \in Sizes : Realloc(b, c, n)
    BY <1>3, <2>3
  <2>4. QED
    BY <1>5, <1>6, <2>1, <2>2, <2>3 DEF Next

LEMMA NextInv == IInv /\ [Next]_vars => IInv'
<1> SUFFICES ASSUME IInv, [Next]_vars
             PROVE  IInv'
  OBVIOUS
<1>1. PICK s \in Seq(Blocks) : TypeOK /\ IsChain(s)
  BY DEF IInv
<1>2. TypeOK' /\ \E t \in Seq(Blocks) : IsChain(t)'
  BY <1>1, NextChain
<1>3. QED
  BY <1>2 DEF IInv

LEMMA Inv == Spec => []IInv
<1>1. Init => IInv
  <2>1. <<>> \in Seq(Blocks)
    OBVIOUS
  <2>2. QED
    BY <2>1, InitInv DEF IInv
<1>2. QED
  BY <1>1, NextInv, PTL DEF Spec

\* Whatever calls are made, in whatever order and at whatever addresses: no
\* header of a live block points to memory that was freed or moved, and every
\* live block can be reached from both of its neighbours (memory.c:62-218).
THEOREM ChainStaysLinked == Spec => []DoublyLinked
<1>1. IInv => DoublyLinked
  <2> SUFFICES ASSUME TypeOK, NEW s \in Seq(Blocks), IsChain(s)
               PROVE  DoublyLinked
    BY DEF IInv
  <2>1. block_header # NULL => block_header \in live /\ prev[block_header] = NULL
    BY ChainFacts, NullAssumption DEF At
  <2>2. ASSUME NEW b \in live
        PROVE  /\ next[b] # NULL => next[b] \in live /\ prev[next[b]] = b
               /\ prev[b] # NULL => prev[b] \in live /\ next[prev[b]] = b
               /\ prev[b] = NULL => b = block_header
    <3>1. PICK i \in 1 .. Len(s) : s[i] = b
      BY DEF IsChain
    <3>2. /\ Len(s) \in Nat /\ s[i] \in live /\ s[i] \in Blocks
          /\ next[b] = At(s, i + 1) /\ prev[b] = At(s, i - 1)
          /\ block_header = At(s, 1)
      BY <3>1, ChainFacts
    <3>3. next[b] # NULL => next[b] \in live /\ prev[next[b]] = b
      <4> SUFFICES ASSUME next[b] # NULL
                   PROVE  next[b] \in live /\ prev[next[b]] = b
        OBVIOUS
      <4>1. i + 1 \in 1 .. Len(s) /\ next[b] = s[i + 1]
        BY <3>2 DEF At
      <4>2. prev[s[i + 1]] = At(s, (i + 1) - 1) /\ s[i + 1] \in live
        BY <4>1, ChainFacts
      <4>3. QED
        BY <3>1, <3>2, <4>1, <4>2 DEF At
    <3>4. prev[b] # NULL => prev[b] \in live /\ next[prev[b]] = b
      <4> SUFFICES ASSUME prev[b] # NULL
                   PROVE  prev[b] \in live /\ next[prev[b]] = b
        OBVIOUS
      <4>1. i - 1 \in 1 .. Len(s) /\ prev[b] = s[i - 1]
        BY <3>2 DEF At
      <4>2. next[s[i - 1]] = At(s, (i - 1) + 1) /\ s[i - 1] \in live
        BY <4>1, ChainFacts
      <4>3. QED
        BY <3>1, <3>2, <4>1, <4>2 DEF At
    <3>5. prev[b] = NULL => b = block_header
      <4> SUFFICES ASSUME prev[b] = NULL
                   PROVE  b = block_header
        OBVIOUS
      <4>1. i = 1
        <5>1. i - 1 \notin 1 .. Len(s)
          <6>1. i - 1 \in 1 .. Len(s) => At(s, i - 1) \in Blocks
            BY ChainFacts DEF At
          <6>2. QED
            BY <3>2, <6>1, NullAssumption
        <5>2. QED
          BY <3>2, <5>1
      <4>2. QED
        BY <3>1, <3>2, <4>1 DEF At
    <3>6. QED
      BY <3>3, <3>4, <3>5
  <2>3. QED
    BY <2>1, <2>2 DEF DoublyLinked
<1>2. QED
  BY <1>1, Inv, PTL

-----------------------------------------------------------------------------
\* Finitely many addresses: the chain is not longer than their number.
LEMMA ChainLength ==
  ASSUME IsFiniteSet(Blocks), NEW s \in Seq(Blocks),
         \A i, j \in 1 .. Len(s) : s[i] = s[j] => i = j
  PROVE  Cardinality(Blocks) \in Nat /\ Len(s) <= Cardinality(Blocks)
<1>1. Cardinality(Blocks) \in Nat
  BY FS_CardinalityType
<1>2. IsFiniteSet(1 .. Len(s)) /\ Cardinality(1 .. Len(s)) = Len(s)
  <2>1. Len(s) \in Nat
    OBVIOUS
  <2>2. /\ IsFiniteSet(1 .. Len(s))
        /\ Cardinality(1 .. Len(s)) = IF 1 > Len(s) THEN 0 ELSE Len(s) - 1 + 1
    BY <2>1, FS_Interval
  <2>3. QED
    BY <2>1, <2>2
<1>3. s \in Injection(1 .. Len(s), Blocks)
  BY DEF Injection, IsInjective
<1>4. QED
  BY <1>1, <1>2, <1>3, FS_Injection

\* Age counts from the end of the sequence.
LEMMA ChainAges ==
  ASSUME TypeOK, NEW s \in Seq(Blocks), IsChain(s), NEW N \in Nat, Len(s) <= N,
         N > 0 \/ Blocks = {}
  PROVE  AgesIn(1 .. N)
<1> DEFINE at(b) == CHOOSE i \in 1 .. Len(s) : s[i] = b
           age == [b \in Blocks |-> IF b \in live THEN Len(s) + 1 - at(b) ELSE 1]
<1>1. \A b \in live : at(b) \in 1 .. Len(s) /\ s[at(b)] = b
  BY DEF IsChain
<1> HIDE DEF at
<1>2. Len(s) \in Nat
  OBVIOUS
<1>3. age \in [Blocks -> 1 .. N]
  BY <1>1, <1>2
<1>4. ASSUME NEW b \in live, next[b] # NULL
      PROVE  age[next[b]] < age[b]
  <2>1. next[b] = At(s, at(b) + 1)
    BY <1>1, ChainFacts
  <2>2. at(b) + 1 \in 1 .. Len(s) /\ next[b] = s[at(b) + 1] /\ next[b] \in live
    BY <1>1, <1>4, <2>1, ChainFacts DEF At
  <2>3. at(next[b]) = at(b) + 1
    BY <1>1, <2>2, ChainFacts
  <2>4. b \in Blocks /\ next[b] \in Blocks
    BY <2>2 DEF TypeOK
  <2>5. QED
    BY <1>1, <1>2, <2>2, <2>3, <2>4
<1>5. QED
  BY <1>3, <1>4 DEF AgesIn

\* The chain never becomes a ring, so that MEM_dump_memory ends.
THEOREM ChainStaysOrdered == Spec => [](TypeOK /\ Acyclic)
<1> USE BlocksFinite
<1>1. IInv => TypeOK /\ Acyclic
  <2> SUFFICES ASSUME TypeOK, NEW s \in Seq(Blocks), IsChain(s)
               PROVE  Acyclic
    BY DEF IInv
  <2>1. Cardinality(Blocks) \in Nat /\ Len(s) <= Cardinality(Blocks)
    BY ChainFacts, ChainLength
  <2>2. Cardinality(Blocks) > 0 \/ Blocks = {}
    BY <2>1, FS_EmptySet
  <2>3. QED
    BY <2>1, <2>2, ChainAges DEF Acyclic
<1>2. QED
  BY <1>1, Inv, PTL

-----------------------------------------------------------------------------
\* A set of natural numbers has a least element: what the walk needs to be
\* followed from one block to the next.
LEMMA Least ==
  ASSUME NEW S \in SUBSET Nat, S # {}
  PROVE  \E n \in S : \A m \in S : n <= m
<1>1. OpToRel(<, Nat) = {ss \in Nat \X Nat : ss[1] < ss[2]}
  BY Zenon DEF OpToRel
<1>2. PICK n \in S : \A m \in S : ~(<<m, n>> \in OpToRel(<, Nat))
  BY WFMin, NatLessThanWellFounded
<1>3. \A m \in S : ~(m < n)
  BY <1>1, <1>2
<1>4. QED
  BY <1>3

\* The recursion of WalkFrom has a solution.
WalkStep(w, k, nx) ==
  [b \in Blocks \cup {NULL} |->
     IF k = 0 \/ b = NULL THEN <<>> ELSE <<b>> \o w[k - 1][nx[b]]]
Walks(w, N, nx) == w = [k \in 0 .. N |-> WalkStep(w, k, nx)]

LEMMA WalkExists ==
  ASSUME NEW nx, NEW N \in Nat
  PROVE  \E w : Walks(w, N, nx)
<1> DEFINE Bad == {m \in Nat : ~ \E w : Walks(w, m, nx)}
<1> SUFFICES ASSUME Bad # {}
             PROVE  FALSE
  OBVIOUS
<1>1. PICK m \in Bad : \A k \in Bad : m <= k
  BY Least
<1>2. m # 0
  <2> DEFINE w == [k \in 0 .. 0 |-> [b \in Blocks \cup {NULL} |-> <<>>]]
  <2>1. Walks(w, 0, nx)
    BY DEF Walks, WalkStep
  <2>2. QED
    BY <2>1
<1>3. m - 1 \in Nat /\ m - 1 \notin Bad
  BY <1>1, <1>2
<1>4. PICK w : Walks(w, m - 1, nx)
  BY <1>3
<1> DEFINE v == [k \in 0 .. m |-> WalkStep(w, k, nx)]
<1>5. \A k \in 0 .. m - 1 : w[k] = WalkStep(w, k, nx)
  BY <1>4 DEF Walks
<1>6. \A k \in 0 .. m - 1 : v[k] = w[k]
  BY <1>1, <1>5
<1>7. \A k \in 0 .. m : WalkStep(v, k, nx) = WalkStep(w, k, nx)
  <2>1. \A k \in 0 .. m : k # 0 => v[k - 1] = w[k - 1]
    BY <1>1, <1>6
  <2> HIDE DEF v
  <2>2. QED
    BY <2>1 DEF WalkStep
<1>8. Walks(v, m, nx)
  <2>1. v = [k \in 0 .. m |-> WalkStep(v, k, nx)]
    BY <1>7
  <2>2. QED
    BY <2>1 DEF Walks
<1>9. QED
  BY <1>1, <1>8

\* Along a chain, the walk meets the blocks in their order and ends.
LEMMA WalkIsChain ==
  ASSUME IsFiniteSet(Blocks), NEW s \in Seq(Blocks), Len(s) <= Cardinality(Blocks),
         NEW h, NEW nx, h = At(s, 1),
         \A i \in 1 .. Len(s) : nx[s[i]] = At(s, i + 1)
  PROVE  WalkFrom(h, nx) = s
<1> DEFINE N == Cardinality(Blocks)
<1>1. N \in Nat /\ Len(s) \in Nat /\ \A i \in 1 .. Len(s) : s[i] \in Blocks
  BY FS_CardinalityType
<1> HIDE DEF N
<1>2. PICK w : Walks(w, N, nx) /\ WalkFrom(h, nx) = w[N][h]
  <2> DEFINE W == CHOOSE w : Walks(w, N, nx)
  <2>1. Walks(W, N, nx)
    BY <1>1, WalkExists
  <2>2. WalkFrom(h, nx) = W[N][h]
    BY DEF WalkFrom, Walks, WalkStep, N
  <2>3. QED
    BY <2>1, <2>2
<1>3. \A k \in 0 .. N, b \in Blocks \cup {NULL} :
        w[k][b] = IF k = 0 \/ b = NULL THEN <<>> ELSE <<b>> \o w[k - 1][nx[b]]
  <2>1. \A k \in 0 .. N : w[k] = WalkStep(w, k, nx)
    BY <1>2 DEF Walks
  <2>2. QED
    BY <2>1 DEF WalkStep
<1> DEFINE Rest(i) == [j \in 1 .. (Len(s) + 1 - i) |-> s[i + j - 1]]
           Good(k) == \A i \in 1 .. Len(s) + 1 :
                        k >= Len(s) + 1 - i => w[k][At(s, i)] = Rest(i)
           Bad == {k \in 0 .. N : ~Good(k)}
<1>a. Bad \in SUBSET Nat
  BY <1>1
<1>4. Rest(Len(s) + 1) = <<>> /\ At(s, Len(s) + 1) = NULL /\ Rest(1) = s
  BY <1>1 DEF At
<1>5. \A i \in 1 .. Len(s) : At(s, i) = s[i] /\ s[i] # NULL
  BY <1>1, NullAssumption DEF At
<1>6. ASSUME NEW i \in 1 .. Len(s)
      PROVE  <<s[i]>> \o Rest(i + 1) = Rest(i)
  <2>1. Rest(i + 1) \in Seq(Blocks) /\ Len(Rest(i + 1)) = Len(s) - i
    BY <1>1
  <2>2. Rest(i) \in Seq(Blocks) /\ Len(Rest(i)) = Len(s) + 1 - i
    <3>1. Len(s) + 1 - i \in Nat
      BY <1>1
    <3>2. \A j \in 1 .. Len(s) + 1 - i : s[i + j - 1] \in Blocks
      BY <1>1
    <3>3. QED
      BY <3>1, <3>2
  <2>3. /\ <<s[i]>> \o Rest(i + 1) \in Seq(Blocks)
        /\ Len(<<s[i]>> \o Rest(i + 1)) = Len(s) + 1 - i
    BY <1>1, <2>1
  <2>4. \A j \in 1 .. Len(s) + 1 - i : (<<s[i]>> \o Rest(i + 1))[j] = Rest(i)[j]
    BY <1>1, <2>1
  <2>5. QED
    BY <2>2, <2>3, <2>4
<1> HIDE DEF Rest
<1>7. Bad = {}
  <2> SUFFICES ASSUME Bad # {}
               PROVE  FALSE
    OBVIOUS
  <2>1. PICK k \in Bad : \A l \in Bad : k <= l
    <3> HIDE DEF Bad
    <3>1. QED
      BY <1>a, Least
  <2>2. PICK i \in 1 .. Len(s) + 1 : k >= Len(s) + 1 - i /\ w[k][At(s, i)] # Rest(i)
    BY <2>1
  <2>3. k \in 0 .. N
    BY <2>1
  <2>4. i # Len(s) + 1
    BY <1>1, <1>3, <1>4, <2>2, <2>3
  <2>5. i \in 1 .. Len(s) /\ k # 0 /\ k - 1 \in 0 .. N /\ k - 1 \notin Bad
    BY <1>1, <2>1, <2>2, <2>3, <2>4
  <2>6. w[k][s[i]] = <<s[i]>> \o w[k - 1][nx[s[i]]]
    BY <1>1, <1>3, <1>5, <2>3, <2>5
  <2>7. w[k - 1][At(s, i + 1)] = Rest(i + 1)
    <3>1. k - 1 \in 0 .. N /\ Good(k - 1)
      BY <2>1, <2>3, <2>5
    <3>2. i + 1 \in 1 .. Len(s) + 1 /\ k - 1 >= Len(s) + 1 - (i + 1)
      BY <1>1, <2>2, <2>3, <2>5
    <3>3. QED
      BY <3>1, <3>2
  <2>8. QED
    BY <1>5, <1>6, <2>2, <2>5, <2>6, <2>7
<1>8. w[N][At(s, 1)] = Rest(1)
  BY <1>1, <1>7 DEF N
<1>9. QED
  BY <1>2, <1>4, <1>8

-----------------------------------------------------------------------------
\* What MEM_dump_memory shows of the sequence s when the headers hold sz.
Listing(s, sz) == [i \in 1 .. Len(s) |-> [block |-> s[i], size |-> sz[s[i]]]]

LEMMA DumpIsListing ==
  ASSUME IsFiniteSet(Blocks), TypeOK, NEW s \in Seq(Blocks), IsChain(s)
  PROVE  Walk = s /\ Dump = Listing(s, size)
<1>1. Len(s) <= Cardinality(Blocks)
  BY ChainFacts, ChainLength
<1>2. Walk = s
  BY <1>1, ChainFacts, WalkIsChain DEF Walk
<1>3. DOMAIN s = 1 .. Len(s)
  OBVIOUS
<1>4. QED
  BY <1>2, <1>3 DEF Dump, Listing

\* The same of the state after a step.
LEMMA NextDumpIsListing ==
  ASSUME IsFiniteSet(Blocks), TypeOK', NEW s \in Seq(Blocks), IsChain(s)'
  PROVE  Dump' = Listing(s, size')
<1>1. /\ \A i, j \in 1 .. Len(s) : s[i] = s[j] => i = j
      /\ block_header' = At(s, 1)
      /\ \A i \in 1 .. Len(s) : next'[s[i]] = At(s, i + 1)
  <2>1. \A i, j \in 1 .. Len(s) : s[i] = s[j] => i = j
    BY Zenon DEF IsChain
  <2>2. block_header' = At(s, 1)
    BY Zenon DEF IsChain, At
  <2>3. \A i \in 1 .. Len(s) : next'[s[i]] = At(s, i + 1)
    BY Zenon DEF IsChain, At
  <2>4. QED
    BY <2>1, <2>2, <2>3
<1>2. Len(s) <= Cardinality(Blocks)
  BY <1>1, ChainLength
<1>3. WalkFrom(block_header', next') = s
  BY <1>1, <1>2, WalkIsChain
<1>4. Walk' = s /\ DOMAIN s = 1 .. Len(s)
  BY <1>3 DEF Walk
<1>5. QED
  BY <1>4 DEF Dump, Listing

\* What MEM_dump_memory shows is exactly the live blocks, each once, so that
\* "no allocated memory" means there is none (memory.c:102-128).
THEOREM DumpIsComplete == Spec => []DumpShowsLive
<1> USE BlocksFinite
<1>1. IInv => DumpShowsLive
  <2> SUFFICES ASSUME TypeOK, NEW s \in Seq(Blocks), IsChain(s)
               PROVE  DumpShowsLive
    BY DEF IInv
  <2>1. Walk = s /\ DOMAIN s = 1 .. Len(s)
    BY DumpIsListing
  <2>2. {s[i] : i \in 1 .. Len(s)} = live
    <3>1. \A b \in live : \E i \in 1 .. Len(s) : s[i] = b
      BY Zenon DEF IsChain
    <3>2. QED
      BY <3>1, ChainFacts
  <2>3. Cardinality(live) = Len(s)
    <3>1. IsFiniteSet(1 .. Len(s)) /\ Cardinality(1 .. Len(s)) = Len(s)
      <4>1. Len(s) \in Nat
        OBVIOUS
      <4>2. QED
        BY <4>1, FS_Interval
    <3>2. s \in [1 .. Len(s) -> live]
      BY ChainFacts
    <3>3. \A b \in live : \E i \in 1 .. Len(s) : s[i] = b
      BY Zenon DEF IsChain
    <3>4. \A i, j \in 1 .. Len(s) : s[i] = s[j] => i = j
      BY ChainFacts
    <3>5. ExistsBijection(1 .. Len(s), live)
      BY <3>2, <3>3, <3>4 DEF ExistsBijection, Bijection, Injection, Surjection, IsInjective
    <3>6. QED
      BY <3>1, <3>5, FS_Bijection
  <2>4. QED
    BY <2>1, <2>2, <2>3 DEF DumpShowsLive
<1>2. QED
  BY <1>1, Inv, PTL

\* What each change of the sequence does to the list.
LEMMA WithListing ==
  ASSUME NEW s \in Seq(Blocks), NEW b \in Blocks, NEW sz, NEW sz1,
         \A i \in 1 .. Len(s) : sz1[s[i]] = sz[s[i]]
  PROVE  Listing(With(s, b), sz1) = <<[block |-> b, size |-> sz1[b]]>> \o Listing(s, sz)
<1> DEFINE l == Listing(s, sz)
           e == [block |-> b, size |-> sz1[b]]
           m == Listing(With(s, b), sz1)
           R == {[block |-> s[i], size |-> sz[s[i]]] : i \in 1 .. Len(s)} \cup {e}
<1>1. Len(s) \in Nat /\ \A i \in 1 .. Len(s) : s[i] \in Blocks
  OBVIOUS
<1>2. l \in Seq(R) /\ Len(l) = Len(s) /\ e \in R
  BY <1>1 DEF Listing
<1>3. /\ Len(With(s, b)) = Len(s) + 1 /\ With(s, b)[1] = b
      /\ \A i \in 2 .. Len(s) + 1 : With(s, b)[i] = s[i - 1]
  BY <1>1 DEF With
<1>4. \A i \in 1 .. Len(s) + 1 : m[i] = (<<e>> \o l)[i]
  <2> SUFFICES ASSUME NEW i \in 1 .. Len(s) + 1
               PROVE  m[i] = (<<e>> \o l)[i]
    OBVIOUS
  <2>1. CASE i = 1
    BY <1>1, <1>2, <1>3, <2>1 DEF Listing
  <2>2. CASE i # 1
    <3>1. i - 1 \in 1 .. Len(s) /\ sz1[s[i - 1]] = sz[s[i - 1]]
      BY <1>1, <2>2
    <3>2. m[i] = [block |-> s[i - 1], size |-> sz[s[i - 1]]]
      BY <1>1, <1>3, <2>2, <3>1 DEF Listing
    <3>3. l[i - 1] = [block |-> s[i - 1], size |-> sz[s[i - 1]]]
      BY <3>1 DEF Listing
    <3> HIDE DEF l, m, e
    <3>4. (<<e>> \o l)[i] = l[i - 1]
      BY <1>1, <1>2, <2>2, <3>1
    <3>5. QED
      BY <3>2, <3>3, <3>4
  <2>3. QED
    BY <2>1, <2>2
<1>5. /\ m \in Seq(R) /\ Len(m) = Len(s) + 1
      /\ Len(<<e>> \o l) = Len(s) + 1 /\ <<e>> \o l \in Seq(R)
  <2>1. \A i \in 1 .. Len(s) + 1 : (<<e>> \o l)[i] \in R
    <3> HIDE DEF l, e, R
    <3>1. QED
      BY <1>1, <1>2
  <2>a. Len(s) + 1 \in Nat /\ m = [i \in 1 .. Len(s) + 1 |-> m[i]]
    BY <1>1, <1>3 DEF Listing
  <2> HIDE DEF l, m, e, R
  <2>2. m \in Seq(R) /\ Len(m) = Len(s) + 1
    <3>1. \A i \in 1 .. Len(s) + 1 : m[i] \in R
      BY <1>4, <2>1
    <3>2. QED
      BY <2>a, <3>1
  <2>3. Len(<<e>> \o l) = Len(s) + 1 /\ <<e>> \o l \in Seq(R)
    BY <1>1, <1>2
  <2>4. QED
    BY <2>2, <2>3
<1> HIDE DEF l, m, e, R
<1>6. \A i \in 1 .. Len(m) : m[i] = (<<e>> \o l)[i]
  BY <1>4, <1>5
<1>7. m = <<e>> \o l
  BY <1>5, <1>6, SeqEqual
<1>8. QED
  BY <1>7 DEF l, m, e

LEMMA WithoutListing ==
  ASSUME NEW s \in Seq(Blocks), NEW d \in 1 .. Len(s), NEW sz \in [Blocks -> Sizes \cup {0}]
  PROVE  LET l == Listing(s, sz) IN
         Listing(Without(s, d), sz) = SubSeq(l, 1, d - 1) \o SubSeq(l, d + 1, Len(l))
<1> DEFINE l == Listing(s, sz)
           m == Listing(Without(s, d), sz)
           p == SubSeq(l, 1, d - 1)
           q == SubSeq(l, d + 1, Len(l))
           R == [block : Blocks, size : Sizes \cup {0}]
<1>1. Len(s) \in Nat /\ d \in Int /\ 1 <= d /\ d <= Len(s) /\ \A i \in 1 .. Len(s) : s[i] \in Blocks
  OBVIOUS
<1>2. l \in Seq(R) /\ Len(l) = Len(s) /\ \A i \in 1 .. Len(s) : l[i] \in R
  BY <1>1 DEF Listing
<1>3. /\ Len(Without(s, d)) = Len(s) - 1
      /\ \A i \in 1 .. Len(s) - 1 : Without(s, d)[i] = IF i < d THEN s[i] ELSE s[i + 1]
  BY <1>1 DEF Without
<1>4. /\ m \in Seq(R) /\ Len(m) = Len(s) - 1
      /\ \A i \in 1 .. Len(s) - 1 : m[i] = IF i < d THEN l[i] ELSE l[i + 1]
  BY <1>1, <1>3 DEF Listing
<1> HIDE DEF l, m, R
<1>5. /\ p \in Seq(R) /\ Len(p) = d - 1 /\ \A i \in 1 .. d - 1 : p[i] = l[i]
  <2>1. \A i \in 1 .. d - 1 : l[i] \in R
    BY <1>1, <1>2
  <2>2. /\ p \in Seq(R) /\ Len(p) = IF 1 <= d - 1 THEN (d - 1) - 1 + 1 ELSE 0
        /\ \A i \in 1 .. (d - 1) - 1 + 1 : p[i] = l[1 + i - 1]
    BY <1>1, <2>1, SubSeqProperties
  <2>3. QED
    BY <1>1, <2>2
<1>6. /\ q \in Seq(R) /\ Len(q) = Len(s) - d /\ \A i \in 1 .. Len(s) - d : q[i] = l[i + d]
  <2>1. \A i \in d + 1 .. Len(s) : l[i] \in R
    BY <1>1, <1>2
  <2>2. /\ q \in Seq(R) /\ Len(q) = IF d + 1 <= Len(s) THEN Len(s) - (d + 1) + 1 ELSE 0
        /\ \A i \in 1 .. Len(s) - (d + 1) + 1 : q[i] = l[(d + 1) + i - 1]
    BY <1>1, <1>2, <2>1, SubSeqProperties
  <2>3. QED
    BY <1>1, <2>2
<1> HIDE DEF p, q
<1>7. /\ p \o q \in Seq(R) /\ Len(p \o q) = Len(s) - 1
      /\ \A i \in 1 .. Len(s) - 1 : (p \o q)[i] = IF i < d THEN p[i] ELSE q[i - (d - 1)]
  <2>1. /\ p \o q \in Seq(R) /\ Len(p \o q) = Len(p) + Len(q)
        /\ \A i \in 1 .. Len(p) + Len(q) :
             (p \o q)[i] = IF i <= Len(p) THEN p[i] ELSE q[i - Len(p)]
    BY <1>5, <1>6, ConcatProperties
  <2>2. QED
    BY <1>1, <1>5, <1>6, <2>1
<1>8. ASSUME NEW i \in 1 .. Len(s) - 1
      PROVE  m[i] = (p \o q)[i]
  <2>1. CASE i < d
    BY <1>1, <1>4, <1>5, <1>7, <2>1
  <2>2. CASE i >= d
    <3>1. i - (d - 1) \in 1 .. Len(s) - d /\ (i - (d - 1)) + d = i + 1
      BY <1>1, <2>2
    <3>2. q[i - (d - 1)] = l[i + 1]
      BY <1>6, <3>1
    <3>3. QED
      BY <1>1, <1>4, <1>7, <2>2, <3>2
  <2>3. i < d \/ i >= d
    BY <1>1
  <2>4. QED
    BY <2>1, <2>2, <2>3
<1>9. m = p \o q
  BY <1>4, <1>7, <1>8, SeqEqual
<1>10. QED
  BY <1>9 DEF l, m, p, q

LEMMA ReplacedListing ==
  ASSUME NEW s \in Seq(Blocks), NEW d \in 1 .. Len(s), NEW c \in Blocks, NEW sz, NEW sz1,
         \A i \in 1 .. Len(s) : i # d => sz1[s[i]] = sz[s[i]]
  PROVE  Listing(Replaced(s, d, c), sz1)
           = [Listing(s, sz) EXCEPT ![d] = [block |-> c, size |-> sz1[c]]]
<1>1. Len(s) \in Nat
  OBVIOUS
<1>2. /\ Len(Replaced(s, d, c)) = Len(s)
      /\ \A i \in 1 .. Len(s) : Replaced(s, d, c)[i] = IF i = d THEN c ELSE s[i]
  BY <1>1 DEF Replaced
<1>3. QED
  BY <1>1, <1>2 DEF Listing

\* One step of the allocator is one step of the list, or none.
LEMMA NextImplements ==
  ASSUME IsFiniteSet(Blocks), TypeOK, NEW s \in Seq(Blocks), IsChain(s), [Next]_vars
  PROVE  [Abstract!Next]_Dump
<1>1. /\ Len(s) \in Nat /\ \A i \in 1 .. Len(s) : s[i] \in live /\ s[i] \in Blocks
      /\ \A i, j \in 1 .. Len(s) : s[i] = s[j] => i = j
  BY ChainFacts
<1>2. /\ Dump = Listing(s, size) /\ DOMAIN Dump = 1 .. Len(s) /\ Len(Dump) = Len(s)
      /\ \A i \in 1 .. Len(s) : Dump[i].block = s[i]
  BY DumpIsListing, <1>1 DEF Listing
<1>3. Abstract!Listed = live
  <2>1. Abstract!Listed = {s[i] : i \in 1 .. Len(s)}
    BY <1>2 DEF Abstract!Listed
  <2>2. \A b \in live : \E i \in 1 .. Len(s) : s[i] = b
    BY Zenon DEF IsChain
  <2>3. QED
    BY <1>1, <2>1, <2>2
<1>4. size \in [Blocks -> Sizes \cup {0}] /\ TypeOK'
  BY NextChain DEF TypeOK
<1>5. CASE IsChain(s)' /\ size' = size
  BY <1>2, <1>4, <1>5, NextDumpIsListing
<1>6. ASSUME NEW b \in Blocks, NEW n \in Sizes,
             With(s, b) \in Seq(Blocks), IsChain(With(s, b))',
             b \notin live, size' = [size EXCEPT ![b] = n]
      PROVE  Abstract!Malloc(b, n)
  <2>1. Dump' = Listing(With(s, b), size')
    BY <1>4, <1>6, NextDumpIsListing
  <2>2. size'[b] = n /\ \A i \in 1 .. Len(s) : size'[s[i]] = size[s[i]]
    BY <1>1, <1>4, <1>6
  <2>3. Listing(With(s, b), size') = <<[block |-> b, size |-> size'[b]]>> \o Listing(s, size)
    BY <2>2, WithListing
  <2>4. QED
    BY <1>2, <1>3, <1>6, <2>1, <2>2, <2>3 DEF Abstract!Malloc, Abstract!Entry
<1>7. ASSUME NEW d \in 1 .. Len(s), Without(s, d) \in Seq(Blocks), IsChain(Without(s, d))',
             size' = size
      PROVE  Abstract!Free(d)
  <2>1. Dump' = Listing(Without(s, d), size)
    BY <1>4, <1>7, NextDumpIsListing
  <2>2. QED
    BY <1>2, <1>4, <2>1, WithoutListing DEF Abstract!Free
<1>8. ASSUME NEW d \in 1 .. Len(s), NEW c \in Blocks, NEW n \in Sizes,
             Replaced(s, d, c) \in Seq(Blocks), IsChain(Replaced(s, d, c))',
             c = s[d] \/ c \notin live, size' = [size EXCEPT ![c] = n]
      PROVE  Abstract!Realloc(d, c, n)
  <2>1. Dump' = Listing(Replaced(s, d, c), size')
    BY <1>4, <1>8, NextDumpIsListing
  <2>2. size'[c] = n /\ \A i \in 1 .. Len(s) : i # d => size'[s[i]] = size[s[i]]
    BY <1>1, <1>4, <1>8
  <2>3. Listing(Replaced(s, d, c), size')
          = [Listing(s, size) EXCEPT ![d] = [block |-> c, size |-> size'[c]]]
    BY <2>2, ReplacedListing
  <2>4. QED
    BY <1>2, <1>3, <1>8, <2>1, <2>2, <2>3 DEF Abstract!Realloc, Abstract!Entry
<1>9. QED
  <2>1. CASE \E b \in Blocks, n \in Sizes :
               /\ With(s, b) \in Seq(Blocks) /\ IsChain(With(s, b))'
               /\ b \notin live /\ size' = [size EXCEPT ![b] = n]
    BY <1>6, <2>1 DEF Abstract!Next
  <2>2. CASE \E d \in 1 .. Len(s) :
               /\ Without(s, d) \in Seq(Blocks) /\ IsChain(Without(s, d))'
               /\ size' = size
    BY <1>2, <1>7, <2>2 DEF Abstract!Next
  <2>3. CASE \E d \in 1 .. Len(s), c \in Blocks, n \in Sizes :
               /\ Replaced(s, d, c) \in Seq(Blocks) /\ IsChain(Replaced(s, d, c))'
               /\ c = s[d] \/ c \notin live
               /\ size' = [size EXCEPT ![c] = n]
    BY <1>2, <1>8, <2>3 DEF Abstract!Next
  <2>4. QED
    BY <1>5, <2>1, <2>2, <2>3, NextChain

\* The chain of headers implements the list of blocks the allocator promises:
\* whatever the program calls, a call changes the entry it is about, at its
\* place, and no other (memory.c:62-218).
THEOREM ChainImplementsList == Spec => ImplementsBlockList
<1> USE BlocksFinite
<1>1. Init => Abstract!Init
  <2> SUFFICES ASSUME Init
               PROVE  Abstract!Init
    OBVIOUS
  <2>1. TypeOK /\ IsChain(<<>>) /\ <<>> \in Seq(Blocks)
    BY InitInv
  <2>2. Dump = Listing(<<>>, size)
    BY <2>1, DumpIsListing
  <2>3. QED
    BY <2>2 DEF Abstract!Init, Listing
<1>2. IInv /\ [Next]_vars => [Abstract!Next]_Dump
  BY NextImplements DEF IInv
<1>3. QED
  BY <1>1, <1>2, Inv, PTL DEF Spec, ImplementsBlockList, Abstract!Spec

=============================================================================
