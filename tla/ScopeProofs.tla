----------------------------- MODULE ScopeProofs -----------------------------
(* The searches of comp/util.c for every set of names, every list of         *)
(* functions and every sequence of declarations and blocks: what they find   *)
(* is in scope while the checkpoints are flat, and in its own block always;  *)
(* they take a null pointer only at an odd checkpoint, and every turn of     *)
(* their loops moves back.                                                   *)
EXTENDS Scope, TLAPS

-----------------------------------------------------------------------------
(* The invariant.                                                            *)

\* e is the last end among the checkpoints, or 0.
IsLastEnd(e, cps) ==
  /\ e # 0 => IsEnd(cps[e])
  /\ \A j \in e + 1 .. Len(cps) : IsBegin(cps[j])

\* Later checkpoints have seen at least as many declarations, and every one
\* has seen all functions.
Ordered ==
  /\ \A i \in 1 .. Len(cp_list) :
       cp_list[i].decl <= Len(decl_list) /\ cp_list[i].fun = Len(func_list)
  /\ \A i, j \in 1 .. Len(cp_list) : i <= j => cp_list[i].decl <= cp_list[j].decl
  /\ \E e \in 0 .. Len(cp_list) : IsLastEnd(e, cp_list)

\* The open blocks, outermost first, began in this order; while one is open,
\* what was visible at its beginning stays visible. If the checkpoints are
\* flat, no block has ended since the outermost began.
OpenBlocks ==
  /\ \A i \in 1 .. Len(opened) :
       /\ opened[i].cp \in 1 .. Len(cp_list)
       /\ opened[i].visible = visible \cap (1 .. cp_list[opened[i].cp].decl)
       /\ Flat => opened[i].cp > LastEnd
  /\ \A i, j \in 1 .. Len(opened) : i < j => opened[i].cp < opened[j].cp

\* Position k was declared between the checkpoints i - 1 and i.
Between(k, i) == cp_list[i - 1].decl < k /\ k <= cp_list[i].decl

\* Flat checkpoints tell which declarations are hidden.
ClosedHidden ==
  Flat => \A k \in 1 .. Len(decl_list) :
            k \in visible <=> \A i \in 1 .. LastEnd : i % 2 = 0 => ~Between(k, i)

\* The search for a declaration, over flat checkpoints: it has passed the
\* pairs behind cp and every visible declaration behind list.
DeclWalk ==
  search.at = "decl" =>
    /\ search.list <= Len(decl_list) /\ search.cp <= LastEnd
    /\ Flat => /\ search.cp % 2 = 0
               /\ search.cp # 0 => cp_list[search.cp].decl <= search.list
               /\ \A i \in 1 .. LastEnd :
                    i % 2 = 0 /\ i > search.cp => search.list <= cp_list[i - 1].decl
               /\ \A k \in visible : k > search.list => decl_list[k].name # search.name

\* The search for a function stays at the tail until no checkpoint is left.
FuncWalk ==
  search.at = "func" =>
    /\ search.list <= Len(func_list) /\ search.cp <= LastEnd
    /\ search.cp % 2 = LastEnd % 2
    /\ search.cp # 0 => search.list = Len(func_list)

IInv == /\ ScopeTypeOK /\ Ordered /\ OpenBlocks /\ ClosedHidden
        /\ DeclWalk /\ FuncWalk /\ ExactWhenFlat /\ CrashesWhenOdd

-----------------------------------------------------------------------------
(* The last end of a block.                                                  *)

LEMMA LastEndIs ==
  ASSUME NEW cps \in Seq(Checkpoints), NEW e \in 0 .. Len(cps), IsLastEnd(e, cps)
  PROVE  LastEndOf(cps) = e
<1>1. Len(cps) \in Nat /\ DOMAIN cps = 1 .. Len(cps)
  OBVIOUS
<1>2. CASE e = 0
  BY <1>1, <1>2 DEF IsLastEnd, LastEndOf, IsBegin, IsEnd
<1>3. CASE e # 0
  <2> DEFINE Last(i) == IsEnd(cps[i]) /\ \A j \in i + 1 .. Len(cps) : IsBegin(cps[j])
  <2>1. e \in DOMAIN cps /\ Last(e)
    BY <1>1, <1>3 DEF IsLastEnd
  <2>2. \A i \in DOMAIN cps : Last(i) => i = e
    <3> SUFFICES ASSUME NEW i \in DOMAIN cps, Last(i), i # e PROVE FALSE
      OBVIOUS
    <3>1. CASE i < e
      BY <1>1, <2>1, <3>1 DEF IsBegin, IsEnd
    <3>2. CASE i > e
      BY <1>1, <2>1, <3>2 DEF IsBegin, IsEnd
    <3>3. QED
      BY <1>1, <3>1, <3>2
  <2>3. (CHOOSE i \in DOMAIN cps : Last(i)) = e
    BY <2>1, <2>2
  <2>4. QED
    BY <2>1, <2>3 DEF LastEndOf
<1>4. QED
  BY <1>2, <1>3

LEMMA LastEndFacts ==
  ASSUME ScopeTypeOK, Ordered
  PROVE  LastEnd \in 0 .. Len(cp_list) /\ IsLastEnd(LastEnd, cp_list)
<1>1. PICK e \in 0 .. Len(cp_list) : IsLastEnd(e, cp_list)
  BY DEF Ordered
<1>2. LastEnd = e
  BY <1>1, LastEndIs DEF LastEnd, ScopeTypeOK
<1>3. QED
  BY <1>1, <1>2

\* A beginning leaves the last end where it is, an end becomes the last.
LEMMA LastEndAppended ==
  ASSUME NEW cps \in Seq(Checkpoints), NEW cp \in Checkpoints,
         NEW e \in 0 .. Len(cps), IsLastEnd(e, cps)
  PROVE  LET more == Append(cps, cp) IN
         /\ IsBegin(cp) => IsLastEnd(e, more) /\ LastEndOf(more) = e
         /\ IsEnd(cp) => IsLastEnd(Len(cps) + 1, more) /\ LastEndOf(more) = Len(cps) + 1
<1> DEFINE more == Append(cps, cp)
<1>1. /\ Len(cps) \in Nat /\ more \in Seq(Checkpoints) /\ Len(more) = Len(cps) + 1
      /\ more[Len(cps) + 1] = cp /\ \A i \in 1 .. Len(cps) : more[i] = cps[i]
  OBVIOUS
<1> HIDE DEF more
<1>2. ASSUME IsBegin(cp) PROVE IsLastEnd(e, more)
  BY <1>1, <1>2 DEF IsLastEnd
<1>3. ASSUME IsEnd(cp) PROVE IsLastEnd(Len(cps) + 1, more)
  BY <1>1, <1>3 DEF IsLastEnd
<1>4. e \in 0 .. Len(more) /\ Len(cps) + 1 \in 0 .. Len(more)
  BY <1>1
<1>5. QED
  BY <1>1, <1>2, <1>3, <1>4, LastEndIs DEF more


\* The checkpoints are flat after an end only if they were before it, and then
\* the block that ends is the only one that is open.
LEMMA FlatAppended ==
  ASSUME NEW cps \in Seq(Checkpoints), NEW cp \in Checkpoints,
         NEW e \in 0 .. Len(cps), IsLastEnd(e, cps)
  PROVE  LET more == Append(cps, cp) IN
         /\ FlatUpTo(e, more) = FlatUpTo(e, cps)
         /\ FlatUpTo(Len(cps) + 1, more) => FlatUpTo(e, cps) /\ e = Len(cps) - 1
<1> DEFINE more == Append(cps, cp)
<1>1. /\ Len(cps) \in Nat /\ Len(more) = Len(cps) + 1
      /\ \A i \in 1 .. Len(cps) : more[i] = cps[i]
  OBVIOUS
<1> HIDE DEF more
<1>2. FlatUpTo(e, more) = FlatUpTo(e, cps)
  BY <1>1 DEF FlatUpTo
<1>3. ASSUME FlatUpTo(Len(cps) + 1, more)
      PROVE  FlatUpTo(e, cps) /\ e = Len(cps) - 1
  <2>1. Len(cps) >= 1 /\ (Len(cps) - 1) % 2 = 0 /\ Len(cps) % 2 = 1
    BY <1>1, <1>3 DEF FlatUpTo
  <2>2. IsBegin(cps[Len(cps)])
    BY <1>1, <1>3, <2>1 DEF FlatUpTo
  <2>3. e # Len(cps)
    BY <2>1, <2>2 DEF IsLastEnd, IsBegin, IsEnd
  <2>4. ASSUME NEW k \in Nat, k = Len(cps) - 1, k # 0 PROVE IsEnd(cps[k])
    <3>1. k \in 1 .. Len(cps) + 1 /\ k \in 1 .. Len(cps) /\ k % 2 # 1
      BY <1>1, <2>1, <2>4
    <3>2. IsEnd(more[k])
      BY <1>3, <3>1 DEF FlatUpTo
    <3>3. QED
      BY <1>1, <3>1, <3>2
  <2>5. e >= Len(cps) - 1
    <3> SUFFICES ASSUME e < Len(cps) - 1 PROVE FALSE
      BY <1>1
    <3>1. PICK k \in Nat : k = Len(cps) - 1 /\ k # 0 /\ k \in e + 1 .. Len(cps)
      BY <1>1, <2>1
    <3>2. IsBegin(cps[k])
      BY <3>1 DEF IsLastEnd
    <3>3. QED
      BY <2>4, <3>1, <3>2 DEF IsBegin, IsEnd
  <2>6. e = Len(cps) - 1
    BY <1>1, <2>3, <2>5
  <2>7. QED
    BY <1>1, <1>3, <2>1, <2>6 DEF FlatUpTo
<1>4. QED
  BY <1>2, <1>3 DEF more

-----------------------------------------------------------------------------
(* The steps of a search.                                                    *)

\* They leave the lists alone, and with them all that is said of the lists.
LEMMA ListsUnchanged ==
  ASSUME IInv, UNCHANGED listVars
  PROVE  /\ Ordered' /\ OpenBlocks' /\ ClosedHidden'
         /\ LastEnd' = LastEnd /\ Flat' = Flat
         /\ ScopeTypeOK' <=>
              search' \in [at : {"idle", "decl", "func", "crash"} \cup Results,
                           name : Names \cup {NoName}, list : Nat, cp : Nat]
<1>1. /\ cp_list' = cp_list /\ decl_list' = decl_list /\ func_list' = func_list
      /\ visible' = visible /\ opened' = opened /\ unpaired' = unpaired
  BY DEF listVars
<1>2. LastEnd' = LastEnd /\ Flat' = Flat
  BY <1>1 DEF LastEnd, Flat
<1>3. Ordered'
  BY <1>1 DEF IInv, Ordered
<1>4. OpenBlocks'
  BY <1>1, <1>2 DEF IInv, OpenBlocks
<1>5. ClosedHidden'
  BY <1>1, <1>2 DEF IInv, ClosedHidden, Between
<1>6. QED
  BY <1>1, <1>2, <1>3, <1>4, <1>5 DEF IInv, ScopeTypeOK

LEMMA TypedLengths ==
  ASSUME IInv
  PROVE  /\ Len(cp_list) \in Nat /\ Len(decl_list) \in Nat /\ Len(func_list) \in Nat
         /\ \A i \in 1 .. Len(cp_list) : cp_list[i] \in Checkpoints
         /\ LastEnd \in 0 .. Len(cp_list)
         /\ search \in [at : {"idle", "decl", "func", "crash"} \cup Results,
                        name : Names \cup {NoName}, list : Nat, cp : Nat]
<1>1. func_list \in Seq([name : Names, type : DeclTypes, params : Seq(DeclTypes)])
  BY FuncListsAssumption DEF IInv, ScopeTypeOK
<1>2. Len(func_list) \in Nat
  BY <1>1
<1>3. QED
  BY <1>2, LastEndFacts DEF IInv, ScopeTypeOK

LEMMA StartDeclSearchStep ==
  ASSUME IInv, NEW name \in Names, StartDeclSearch(name)
  PROVE  IInv'
<1>1. search' = Search("decl", name, Len(decl_list), LastEnd) /\ UNCHANGED listVars
  BY DEF StartDeclSearch
<1>2. /\ search'.at = "decl" /\ search'.name = name
      /\ search'.list = Len(decl_list) /\ search'.cp = LastEnd
      /\ ScopeTypeOK' /\ Ordered' /\ OpenBlocks' /\ ClosedHidden'
      /\ LastEnd' = LastEnd /\ Flat' = Flat
  BY <1>1, TypedLengths, ListsUnchanged DEF Search
<1>3. cp_list' = cp_list /\ decl_list' = decl_list /\ visible' = visible
  BY <1>1 DEF listVars
<1>4. \A k \in visible : ~(k > Len(decl_list))
  BY TypedLengths DEF IInv, ScopeTypeOK
<1>5. Flat => LastEnd % 2 = 0
  BY DEF Flat, FlatUpTo
<1>6. LastEnd # 0 => cp_list[LastEnd].decl <= Len(decl_list)
  BY TypedLengths DEF IInv, Ordered
<1>7. LastEnd \in Nat /\ Len(decl_list) \in Nat
  BY TypedLengths
<1>8. DeclWalk'
  <2>1. search'.list <= Len(decl_list) /\ search'.cp <= LastEnd
    BY <1>2, <1>7
  <2>2. Flat => search'.cp % 2 = 0 /\ (search'.cp # 0 => cp_list[search'.cp].decl <= search'.list)
    BY <1>2, <1>5, <1>6
  <2>3. \A i \in 1 .. LastEnd : ~(i > search'.cp)
    BY <1>2, <1>7
  <2>4. \A k \in visible : ~(k > search'.list)
    BY <1>2, <1>4
  <2>5. QED
    BY <1>2, <1>3, <2>1, <2>2, <2>3, <2>4 DEF DeclWalk
<1>9. QED
  BY <1>2, <1>8 DEF IInv, FuncWalk, ExactWhenFlat, ResultInScope, CrashesWhenOdd, Results

\* The node a walk skips to: the checkpoint before exists and is no later.
LEMMA SkippedTo ==
  ASSUME IInv, search.cp # 0, search.cp # 1, search.cp <= LastEnd
  PROVE  /\ search.cp \in 1 .. Len(cp_list) /\ search.cp - 1 \in 1 .. Len(cp_list)
         /\ cp_list[search.cp - 1].decl \in Nat
         /\ cp_list[search.cp - 1].decl <= cp_list[search.cp].decl
         /\ cp_list[search.cp - 1].fun = Len(func_list)
         /\ PrevPrev(search.cp) = search.cp - 2 /\ PrevPrev(search.cp) \in Nat
<1>1. search.cp \in Nat /\ search.cp \in 2 .. Len(cp_list) /\ Len(cp_list) \in Nat
  BY TypedLengths
<1>2. search.cp - 1 \in 1 .. Len(cp_list) /\ search.cp \in 1 .. Len(cp_list)
  BY <1>1
<1>3. cp_list[search.cp - 1] \in Checkpoints
  BY <1>2, TypedLengths
<1>4. cp_list[search.cp - 1].decl <= cp_list[search.cp].decl
      /\ cp_list[search.cp - 1].fun = Len(func_list)
  BY <1>1, <1>2 DEF IInv, Ordered
<1>5. PrevPrev(search.cp) = search.cp - 2 /\ PrevPrev(search.cp) \in Nat
  BY <1>1 DEF PrevPrev
<1>6. QED
  BY <1>2, <1>3, <1>4, <1>5 DEF Checkpoints

LEMMA SkipBlockStep ==
  ASSUME IInv, SkipBlock
  PROVE  IInv' /\ search'.list + search'.cp < search.list + search.cp
<1>1. /\ UNCHANGED listVars /\ search.at = "decl"
      /\ search.cp # 0 /\ search.cp # 1 /\ search.list = cp_list[search.cp].decl
      /\ search' = [search EXCEPT !.list = cp_list[search.cp - 1].decl,
                                  !.cp = PrevPrev(search.cp)]
  BY DEF SkipBlock, AtBlock
<1>2. search.cp <= LastEnd /\ search.list <= Len(decl_list)
  BY <1>1 DEF IInv, DeclWalk
<1> DEFINE to == cp_list[search.cp - 1].decl
<1>3. /\ to \in Nat /\ to <= search.list /\ PrevPrev(search.cp) = search.cp - 2
      /\ PrevPrev(search.cp) \in Nat
      /\ search.cp \in 1 .. Len(cp_list) /\ search.cp - 1 \in 1 .. Len(cp_list)
  BY <1>1, <1>2, SkippedTo
<1>4. /\ search'.at = "decl" /\ search'.name = search.name
      /\ search'.list = to /\ search'.cp = search.cp - 2
      /\ search.list \in Nat /\ search.cp \in Nat
  BY <1>1, <1>3, TypedLengths
<1>5. /\ ScopeTypeOK' /\ Ordered' /\ OpenBlocks' /\ ClosedHidden'
      /\ LastEnd' = LastEnd /\ Flat' = Flat
  BY <1>1, <1>3, <1>4, TypedLengths, ListsUnchanged
<1>6. cp_list' = cp_list /\ decl_list' = decl_list /\ visible' = visible
  BY <1>1 DEF listVars
<1>7. ASSUME Flat
      PROVE  /\ search'.cp % 2 = 0
             /\ search'.cp # 0 => cp_list[search'.cp].decl <= to
             /\ \A i \in 1 .. LastEnd :
                  i % 2 = 0 /\ i > search'.cp => to <= cp_list[i - 1].decl
             /\ \A k \in visible : k > to => decl_list[k].name # search.name
  <2>1. /\ search.cp % 2 = 0
        /\ \A i \in 1 .. LastEnd :
             i % 2 = 0 /\ i > search.cp => search.list <= cp_list[i - 1].decl
        /\ \A k \in visible : k > search.list => decl_list[k].name # search.name
    BY <1>1, <1>7 DEF IInv, DeclWalk
  <2>2. search'.cp # 0 => cp_list[search'.cp].decl <= to
    <3> SUFFICES ASSUME search.cp - 2 # 0 PROVE cp_list[search.cp - 2].decl <= to
      BY <1>4
    <3>1. search.cp - 2 \in 1 .. Len(cp_list) /\ search.cp - 2 <= search.cp - 1
      BY <1>3, <1>4, TypedLengths
    <3>2. QED
      BY <1>3, <3>1 DEF IInv, Ordered
  <2>3. ASSUME NEW i \in 1 .. LastEnd, i % 2 = 0, i > search'.cp
        PROVE  to <= cp_list[i - 1].decl
    <3>1. i = search.cp \/ i > search.cp
      BY <1>4, <2>1, <2>3
    <3>2. CASE i > search.cp
      <4>1. i - 1 \in 1 .. Len(cp_list) /\ search.cp - 1 <= i - 1
        BY <1>3, <1>4, <3>2, TypedLengths
      <4>2. QED
        BY <1>3, <4>1 DEF IInv, Ordered
    <3>3. CASE i = search.cp
      BY <1>3, <3>3
    <3>4. QED
      BY <3>1, <3>2, <3>3
  <2>4. ASSUME NEW k \in visible, k > to PROVE decl_list[k].name # search.name
    <3>1. k \in 1 .. Len(decl_list)
      BY DEF IInv, ScopeTypeOK
    <3>2. ~Between(k, search.cp)
      BY <1>2, <1>3, <1>7, <2>1, <3>1, TypedLengths DEF IInv, ClosedHidden
    <3>3. k > search.list
      BY <1>1, <1>3, <1>4, <2>4, <3>1, <3>2 DEF Between
    <3>4. QED
      BY <2>1, <3>3
  <2>5. QED
    BY <1>4, <2>1, <2>2, <2>3, <2>4
<1>8. DeclWalk'
  BY <1>2, <1>3, <1>4, <1>5, <1>6, <1>7, TypedLengths DEF DeclWalk
<1>9. search'.list + search'.cp < search.list + search.cp
  BY <1>3, <1>4
<1>10. QED
  BY <1>4, <1>5, <1>8, <1>9
     DEF IInv, FuncWalk, ExactWhenFlat, ResultInScope, CrashesWhenOdd

LEMMA PassDeclStep ==
  ASSUME IInv, PassDecl
  PROVE  IInv' /\ search'.list + search'.cp < search.list + search.cp
<1>1. /\ UNCHANGED listVars /\ search.at = "decl" /\ search.list # 0 /\ ~AtBlock
      /\ decl_list[search.list].name # search.name
      /\ search' = [search EXCEPT !.list = search.list - 1]
  BY DEF PassDecl
<1>2. /\ search'.at = "decl" /\ search'.name = search.name
      /\ search'.list = search.list - 1 /\ search'.list \in Nat /\ search'.cp = search.cp
      /\ search.list \in Nat /\ search.cp \in Nat
      /\ search.list <= Len(decl_list) /\ search.cp <= LastEnd
  BY <1>1, TypedLengths DEF IInv, DeclWalk
<1>3. /\ ScopeTypeOK' /\ Ordered' /\ OpenBlocks' /\ ClosedHidden'
      /\ LastEnd' = LastEnd /\ Flat' = Flat
  BY <1>1, <1>2, TypedLengths, ListsUnchanged
<1>4. cp_list' = cp_list /\ decl_list' = decl_list /\ visible' = visible
  BY <1>1 DEF listVars
<1>5. ASSUME Flat
      PROVE  /\ search'.cp # 0 => cp_list[search'.cp].decl <= search'.list
             /\ \A i \in 1 .. LastEnd :
                  i % 2 = 0 /\ i > search'.cp => search'.list <= cp_list[i - 1].decl
             /\ \A k \in visible : k > search'.list => decl_list[k].name # search.name
  <2>1. /\ search.cp % 2 = 0
        /\ search.cp # 0 => cp_list[search.cp].decl <= search.list
        /\ \A i \in 1 .. LastEnd :
             i % 2 = 0 /\ i > search.cp => search.list <= cp_list[i - 1].decl
        /\ \A k \in visible : k > search.list => decl_list[k].name # search.name
    BY <1>1, <1>5 DEF IInv, DeclWalk
  <2>2. \A i \in 1 .. Len(cp_list) : cp_list[i].decl \in Nat
    BY TypedLengths DEF Checkpoints
  <2>3. search.cp # 0 => search.cp \in 1 .. Len(cp_list) /\ search.list # cp_list[search.cp].decl
    BY <1>1, <1>2, <2>1, TypedLengths DEF AtBlock
  <2>4. search.cp # 0 => cp_list[search.cp].decl <= search.list - 1
    BY <1>2, <2>1, <2>2, <2>3
  <2>5. ASSUME NEW i \in 1 .. LastEnd, i % 2 = 0, i > search.cp
        PROVE  search.list - 1 <= cp_list[i - 1].decl
    <3>1. i - 1 \in 1 .. Len(cp_list)
      BY <2>5, TypedLengths
    <3>2. cp_list[i - 1].decl \in Nat /\ search.list <= cp_list[i - 1].decl
      BY <2>1, <2>2, <2>5, <3>1
    <3>3. QED
      BY <1>2, <3>2
  <2>6. ASSUME NEW k \in visible, k > search.list - 1
        PROVE  decl_list[k].name # search.name
    <3>1. k \in Nat
      BY DEF IInv, ScopeTypeOK
    <3>2. k = search.list \/ k > search.list
      BY <1>2, <2>6, <3>1
    <3>3. QED
      BY <1>1, <2>1, <3>2
  <2>7. QED
    BY <1>2, <2>4, <2>5, <2>6
<1>6. DeclWalk'
  <2>1. Flat => search.cp % 2 = 0
    BY <1>1 DEF IInv, DeclWalk
  <2>2. search'.list <= Len(decl_list)
    BY <1>2, TypedLengths
  <2>3. QED
    BY <1>2, <1>3, <1>4, <1>5, <2>1, <2>2 DEF DeclWalk
<1>7. search'.list + search'.cp < search.list + search.cp
  BY <1>2
<1>8. QED
  BY <1>2, <1>3, <1>6, <1>7
     DEF IInv, FuncWalk, ExactWhenFlat, ResultInScope, CrashesWhenOdd

\* A search that ends keeps its place; its result is in scope.
LEMMA MatchDeclStep ==
  ASSUME IInv, MatchDecl
  PROVE  IInv'
<1>1. /\ UNCHANGED listVars /\ search.at = "decl" /\ search.list # 0 /\ ~AtBlock
      /\ search' = [search EXCEPT !.at = "decl_found"]
  BY DEF MatchDecl, Result
<1>2. /\ search'.at = "decl_found" /\ search'.list = search.list
      /\ search.list \in Nat /\ search.cp \in Nat
      /\ search.list <= Len(decl_list) /\ search.cp <= LastEnd
  BY <1>1, TypedLengths DEF IInv, DeclWalk
<1>3. /\ ScopeTypeOK' /\ Ordered' /\ OpenBlocks' /\ ClosedHidden'
      /\ LastEnd' = LastEnd /\ Flat' = Flat
  BY <1>1, <1>2, TypedLengths, ListsUnchanged DEF Results
<1>4. ASSUME Flat PROVE search.list \in visible
  <2>1. /\ search.cp % 2 = 0
        /\ search.cp # 0 => cp_list[search.cp].decl <= search.list
        /\ \A i \in 1 .. LastEnd :
             i % 2 = 0 /\ i > search.cp => search.list <= cp_list[i - 1].decl
    BY <1>1, <1>4 DEF IInv, DeclWalk
  <2>2. \A i \in 1 .. Len(cp_list) : cp_list[i].decl \in Nat
    BY TypedLengths DEF Checkpoints
  <2>3. search.cp # 0 => search.list # cp_list[search.cp].decl
    BY <1>1, <2>1 DEF AtBlock
  <2>4. ASSUME NEW i \in 1 .. LastEnd, i % 2 = 0 PROVE ~Between(search.list, i)
    <3>1. i - 1 \in 1 .. Len(cp_list) /\ i \in 1 .. Len(cp_list)
      BY <2>4, TypedLengths
    <3>2. CASE i > search.cp
      <4>1. search.list <= cp_list[i - 1].decl /\ cp_list[i - 1].decl \in Nat
        BY <2>1, <2>2, <2>4, <3>1, <3>2
      <4>2. QED
        BY <1>2, <4>1 DEF Between
    <3>3. CASE i <= search.cp
      <4>1. search.cp # 0 /\ search.cp \in 1 .. Len(cp_list)
        BY <1>2, <3>1, <3>3, TypedLengths
      <4>2. cp_list[i].decl <= cp_list[search.cp].decl
        BY <3>1, <3>3, <4>1 DEF IInv, Ordered
      <4>3. cp_list[i].decl < search.list
        BY <1>2, <2>1, <2>2, <2>3, <3>1, <4>1, <4>2
      <4>4. QED
        BY <1>2, <2>2, <3>1, <4>3 DEF Between
    <3>4. QED
      BY <1>2, <3>1, <3>2, <3>3
  <2>5. search.list \in 1 .. Len(decl_list)
    BY <1>1, <1>2, TypedLengths
  <2>6. QED
    BY <1>4, <2>4, <2>5 DEF IInv, ClosedHidden
<1>5. ExactWhenFlat'
  BY <1>1, <1>2, <1>3, <1>4 DEF ExactWhenFlat, ResultInScope, listVars
<1>6. QED
  BY <1>2, <1>3, <1>5 DEF IInv, DeclWalk, FuncWalk, CrashesWhenOdd

LEMMA DeclAbsentStep ==
  ASSUME IInv, DeclAbsent
  PROVE  IInv'
<1>1. /\ UNCHANGED listVars /\ search.at = "decl" /\ search.list = 0
      /\ search' = [search EXCEPT !.at = "decl_absent"]
  BY DEF DeclAbsent, Result
<1>2. search'.at = "decl_absent" /\ search'.name = search.name
  BY <1>1, TypedLengths
<1>3. /\ ScopeTypeOK' /\ Ordered' /\ OpenBlocks' /\ ClosedHidden'
      /\ LastEnd' = LastEnd /\ Flat' = Flat
  BY <1>1, TypedLengths, ListsUnchanged DEF Results
<1>4. \A k \in visible : k > search.list
  BY <1>1, TypedLengths DEF IInv, ScopeTypeOK
<1>5. Flat => \A k \in visible : decl_list[k].name # search.name
  BY <1>1, <1>4 DEF IInv, DeclWalk
<1>6. ExactWhenFlat'
  BY <1>1, <1>2, <1>3, <1>5 DEF ExactWhenFlat, ResultInScope, listVars
<1>7. QED
  BY <1>2, <1>3, <1>6 DEF IInv, DeclWalk, FuncWalk, CrashesWhenOdd

LEMMA StartFuncSearchStep ==
  ASSUME IInv, StartFuncSearch
  PROVE  IInv'
<1>1. /\ search' = Search("func", search.name, Len(func_list), LastEnd)
      /\ UNCHANGED listVars
  BY DEF StartFuncSearch
<1>2. /\ search'.at = "func" /\ search'.list = Len(func_list) /\ search'.cp = LastEnd
      /\ ScopeTypeOK' /\ Ordered' /\ OpenBlocks' /\ ClosedHidden'
      /\ LastEnd' = LastEnd /\ Flat' = Flat
  BY <1>1, TypedLengths, ListsUnchanged DEF Search
<1>3. FuncWalk'
  BY <1>1, <1>2, TypedLengths DEF FuncWalk, listVars
<1>4. QED
  BY <1>2, <1>3 DEF IInv, DeclWalk, ExactWhenFlat, ResultInScope, CrashesWhenOdd, Results

\* In a search for a function, what leaves the loop has no checkpoint left.
LEMMA SkipFuncBlockStep ==
  ASSUME IInv, SkipFuncBlock
  PROVE  /\ IInv'
         /\ search'.at = "func" => search'.list + search'.cp < search.list + search.cp
<1>1. /\ UNCHANGED listVars /\ search.at = "func" /\ search.list # 0 /\ search.cp # 0
      /\ search' = IF search.cp = 1 THEN [search EXCEPT !.at = "crash"]
                   ELSE [search EXCEPT !.list = cp_list[search.cp - 1].fun,
                                       !.cp = PrevPrev(search.cp)]
  BY DEF SkipFuncBlock, AtFuncBlock
<1>2. /\ search.list = Len(func_list) /\ search.cp <= LastEnd
      /\ search.cp % 2 = LastEnd % 2 /\ search.cp \in Nat
      /\ Len(func_list) \in Nat /\ LastEnd \in Nat
  BY <1>1, TypedLengths DEF IInv, FuncWalk
<1>3. CASE search.cp = 1
  <2>1. search' = [search EXCEPT !.at = "crash"] /\ search'.at = "crash"
    BY <1>1, <1>3, TypedLengths
  <2>2. /\ ScopeTypeOK' /\ Ordered' /\ OpenBlocks' /\ ClosedHidden'
        /\ LastEnd' = LastEnd /\ Flat' = Flat
    BY <1>1, <2>1, TypedLengths, ListsUnchanged
  <2>3. LastEnd % 2 = 1
    BY <1>2, <1>3
  <2>4. func_list # <<>>
    BY <1>1, <1>2
  <2>5. CrashesWhenOdd'
    BY <1>1, <2>1, <2>2, <2>3, <2>4 DEF CrashesWhenOdd, LastEnd, listVars
  <2>6. QED
    BY <2>1, <2>2, <2>5 DEF IInv, DeclWalk, FuncWalk, ExactWhenFlat, ResultInScope
<1>4. CASE search.cp # 1
  <2>1. /\ cp_list[search.cp - 1].fun = Len(func_list)
        /\ PrevPrev(search.cp) = search.cp - 2 /\ PrevPrev(search.cp) \in Nat
    BY <1>1, <1>2, <1>4, SkippedTo
  <2>2. /\ search'.at = "func" /\ search'.list = Len(func_list)
        /\ search'.cp = search.cp - 2 /\ search'.cp \in Nat
    BY <1>1, <1>4, <2>1, TypedLengths
  <2>3. /\ ScopeTypeOK' /\ Ordered' /\ OpenBlocks' /\ ClosedHidden'
        /\ LastEnd' = LastEnd /\ Flat' = Flat
    BY <1>1, <1>2, <1>4, <2>1, <2>2, TypedLengths, ListsUnchanged
  <2>4. search'.cp % 2 = LastEnd % 2 /\ search'.cp <= LastEnd
    BY <1>2, <2>2
  <2>5. FuncWalk'
    BY <1>1, <1>2, <2>2, <2>3, <2>4 DEF FuncWalk, listVars
  <2>6. search'.list + search'.cp < search.list + search.cp
    BY <1>2, <2>2
  <2>7. QED
    BY <2>2, <2>3, <2>5, <2>6
       DEF IInv, DeclWalk, ExactWhenFlat, ResultInScope, CrashesWhenOdd
<1>5. QED
  BY <1>3, <1>4

LEMMA FuncWalkOver ==
  ASSUME IInv, search.at = "func", ~AtFuncBlock \/ search.list = 0
  PROVE  LastEnd % 2 = 0 \/ func_list = <<>>
<1>1. /\ search.cp % 2 = LastEnd % 2 /\ search.cp \in Nat /\ search.cp <= LastEnd
      /\ search.cp # 0 => search.list = Len(func_list)
      /\ LastEnd \in 0 .. Len(cp_list) /\ Len(cp_list) \in Nat /\ Len(func_list) \in Nat
  BY TypedLengths DEF IInv, FuncWalk
<1>2. search.cp # 0 => cp_list[search.cp].fun = Len(func_list)
  BY <1>1, TypedLengths DEF IInv, Ordered
<1>3. CASE search.cp = 0
  BY <1>1, <1>3
<1>4. CASE search.cp # 0
  <2>1. Len(func_list) = 0
    BY <1>1, <1>2, <1>4 DEF AtFuncBlock
  <2>2. func_list \in Seq([name : Names, type : DeclTypes, params : Seq(DeclTypes)])
    BY FuncListsAssumption DEF IInv, ScopeTypeOK
  <2>3. QED
    BY <2>1, <2>2
<1>5. QED
  BY <1>3, <1>4

LEMMA FuncResultStep ==
  ASSUME IInv, MatchFunc \/ FuncAbsent
  PROVE  IInv'
<1>1. /\ UNCHANGED listVars /\ search.at = "func"
      /\ (~AtFuncBlock \/ search.list = 0)
      /\ \/ search' = [search EXCEPT !.at = "func_found"]
         \/ search' = [search EXCEPT !.at = "func_absent"]
  BY DEF MatchFunc, FuncAbsent, Result
<1>2. search'.at \in {"func_found", "func_absent"}
  BY <1>1, TypedLengths
<1>3. /\ ScopeTypeOK' /\ Ordered' /\ OpenBlocks' /\ ClosedHidden'
      /\ LastEnd' = LastEnd /\ Flat' = Flat
  BY <1>1, TypedLengths, ListsUnchanged DEF Results
<1>4. LastEnd % 2 = 0 \/ func_list = <<>>
  BY <1>1, FuncWalkOver
<1>5. func_list' = func_list
  BY <1>1 DEF listVars
<1>6. CrashesWhenOdd'
  BY <1>2, <1>3, <1>4, <1>5 DEF CrashesWhenOdd, LastEnd
<1>7. QED
  BY <1>2, <1>3, <1>6 DEF IInv, DeclWalk, FuncWalk, ExactWhenFlat, ResultInScope

LEMMA PassFuncStep ==
  ASSUME IInv, PassFunc
  PROVE  IInv' /\ search'.list + search'.cp < search.list + search.cp
<1>1. /\ UNCHANGED listVars /\ search.at = "func" /\ search.list # 0 /\ ~AtFuncBlock
      /\ search' = [search EXCEPT !.list = search.list - 1]
  BY DEF PassFunc
<1>2. /\ search'.at = "func" /\ search'.list = search.list - 1 /\ search'.list \in Nat
      /\ search'.cp = search.cp /\ search.list \in Nat /\ search.cp \in Nat
      /\ Len(func_list) \in Nat
  BY <1>1, TypedLengths
<1>3. /\ ScopeTypeOK' /\ Ordered' /\ OpenBlocks' /\ ClosedHidden'
      /\ LastEnd' = LastEnd /\ Flat' = Flat
  BY <1>1, <1>2, TypedLengths, ListsUnchanged
<1>4. /\ search.list <= Len(func_list) /\ search.cp <= LastEnd
      /\ search.cp % 2 = LastEnd % 2
      /\ search.cp # 0 => search.list = Len(func_list)
  BY <1>1 DEF IInv, FuncWalk
<1>5. search.cp # 0 => cp_list[search.cp].fun = Len(func_list)
  BY <1>2, <1>4, TypedLengths DEF IInv, Ordered
<1>6. search.cp = 0
  BY <1>1, <1>4, <1>5 DEF AtFuncBlock
<1>7. func_list' = func_list
  BY <1>1 DEF listVars
<1>8. FuncWalk'
  BY <1>2, <1>3, <1>4, <1>6, <1>7 DEF FuncWalk
<1>9. search'.list + search'.cp < search.list + search.cp
  BY <1>2
<1>10. QED
  BY <1>2, <1>3, <1>8, <1>9
     DEF IInv, DeclWalk, ExactWhenFlat, ResultInScope, CrashesWhenOdd

LEMMA ReturnStep ==
  ASSUME IInv, Return
  PROVE  IInv'
<1>1. search' = Idle /\ UNCHANGED listVars
  BY DEF Return
<1>2. search'.at = "idle"
  BY <1>1 DEF Idle, Search
<1>3. /\ ScopeTypeOK' /\ Ordered' /\ OpenBlocks' /\ ClosedHidden'
  BY <1>1, TypedLengths, ListsUnchanged DEF Idle, Search
<1>4. QED
  BY <1>2, <1>3
     DEF IInv, DeclWalk, FuncWalk, ExactWhenFlat, ResultInScope, CrashesWhenOdd

-----------------------------------------------------------------------------
(* The steps that change the lists.                                          *)

\* Nothing is searched for after them.
LEMMA NotSearching ==
  ASSUME search'.at = "idle"
  PROVE  DeclWalk' /\ FuncWalk' /\ ExactWhenFlat' /\ CrashesWhenOdd'
BY DEF DeclWalk, FuncWalk, ExactWhenFlat, ResultInScope, CrashesWhenOdd

LEMMA ChainDeclarationStep ==
  ASSUME IInv, NEW type \in DeclTypes, ChainDeclaration(type), search.name \in Names
  PROVE  IInv'
<1> DEFINE n == Len(decl_list)
           decl == [name |-> search.name, type |-> type]
<1>1. /\ decl_list' = Append(decl_list, decl) /\ visible' = visible \cup {n + 1}
      /\ search' = Idle /\ search'.at = "idle"
      /\ func_list' = func_list /\ cp_list' = cp_list
      /\ opened' = opened /\ unpaired' = unpaired
  BY DEF ChainDeclaration, Idle, Search
<1>2. n \in Nat /\ Len(decl_list') = n + 1 /\ decl \in [name : Names, type : DeclTypes]
  BY <1>1 DEF IInv, ScopeTypeOK
<1>3. ScopeTypeOK'
  <2>1. decl_list' \in Seq([name : Names, type : DeclTypes])
    BY <1>1, <1>2 DEF IInv, ScopeTypeOK
  <2>2. visible' \subseteq 1 .. Len(decl_list')
    <3>1. visible \subseteq 1 .. n
      BY DEF IInv, ScopeTypeOK
    <3>2. 1 .. n \subseteq 1 .. n + 1 /\ n + 1 \in 1 .. n + 1
      BY <1>2
    <3>3. QED
      BY <1>1, <1>2, <3>1, <3>2
  <2>3. QED
    BY <1>1, <2>1, <2>2 DEF IInv, ScopeTypeOK, Idle, Search, NoName
<1>4. LastEnd' = LastEnd /\ Flat' = Flat
  BY <1>1 DEF LastEnd, Flat
<1>5. \A i \in 1 .. Len(cp_list) : cp_list[i].decl \in Nat /\ cp_list[i].decl <= n
  BY TypedLengths DEF IInv, Ordered, Checkpoints
<1>6. Ordered'
  BY <1>1, <1>2, <1>5 DEF IInv, Ordered
<1>7. OpenBlocks'
  <2>1. ASSUME NEW i \in 1 .. Len(cp_list)
        PROVE  visible' \cap (1 .. cp_list[i].decl) = visible \cap (1 .. cp_list[i].decl)
    BY <1>1, <1>2, <1>5
  <2>2. QED
    BY <1>1, <1>4, <2>1 DEF IInv, OpenBlocks
<1>8. ClosedHidden'
  <2> SUFFICES ASSUME Flat, NEW k \in 1 .. n + 1
               PROVE  k \in visible' <=>
                        \A i \in 1 .. LastEnd : i % 2 = 0 => ~Between(k, i)
    BY <1>1, <1>2, <1>4 DEF ClosedHidden, Between
  <2>1. CASE k \in 1 .. n
    BY <1>1, <1>2, <2>1 DEF IInv, ClosedHidden
  <2>2. CASE k = n + 1
    <3>1. \A i \in 1 .. LastEnd : ~Between(k, i)
      BY <1>2, <1>5, <2>2, TypedLengths DEF Between
    <3>2. QED
      BY <1>1, <2>2, <3>1
  <2>3. QED
    BY <1>2, <2>1, <2>2
<1>9. QED
  BY <1>1, <1>3, <1>6, <1>7, <1>8, NotSearching DEF IInv

\* What a new checkpoint records, whichever its type.
LEMMA Recorded ==
  ASSUME IInv, NEW type \in {"BLOCK_OPE_BEGIN", "BLOCK_OPE_END"}, RecordCheckpoint(type),
         decl_list' = decl_list, func_list' = func_list
  PROVE  LET n == Len(cp_list)
             cp == [type |-> type, decl |-> Len(decl_list), fun |-> Len(func_list)]
         IN  /\ n \in Nat /\ cp \in Checkpoints
             /\ cp_list' = Append(cp_list, cp) /\ cp_list' \in Seq(Checkpoints)
             /\ Len(cp_list') = n + 1 /\ cp_list'[n + 1] = cp
             /\ \A i \in 1 .. n : cp_list'[i] = cp_list[i]
             /\ Ordered'
             /\ type = "BLOCK_OPE_BEGIN" => LastEnd' = LastEnd /\ Flat' = Flat
             /\ type = "BLOCK_OPE_END" =>
                  /\ LastEnd' = n + 1
                  /\ Flat' => Flat /\ LastEnd = n - 1
<1> DEFINE n == Len(cp_list)
           cp == [type |-> type, decl |-> Len(decl_list), fun |-> Len(func_list)]
<1>1. n \in Nat /\ cp \in Checkpoints /\ cp_list \in Seq(Checkpoints)
  BY TypedLengths DEF Checkpoints, IInv, ScopeTypeOK
<1>2. /\ cp_list' = Append(cp_list, cp) /\ cp_list' \in Seq(Checkpoints)
      /\ Len(cp_list') = n + 1 /\ cp_list'[n + 1] = cp
      /\ \A i \in 1 .. n : cp_list'[i] = cp_list[i]
  BY <1>1 DEF RecordCheckpoint
<1>3. LastEnd \in 0 .. n /\ IsLastEnd(LastEnd, cp_list)
  BY LastEndFacts DEF IInv
<1>4. /\ IsBegin(cp) <=> type = "BLOCK_OPE_BEGIN"
      /\ IsEnd(cp) <=> type = "BLOCK_OPE_END"
  BY DEF IsBegin, IsEnd
<1>5. /\ type = "BLOCK_OPE_BEGIN" => IsLastEnd(LastEnd, cp_list') /\ LastEndOf(cp_list') = LastEnd
      /\ type = "BLOCK_OPE_END" => IsLastEnd(n + 1, cp_list') /\ LastEndOf(cp_list') = n + 1
  BY <1>1, <1>2, <1>3, <1>4, LastEndAppended
<1>6. /\ FlatUpTo(LastEnd, cp_list') = FlatUpTo(LastEnd, cp_list)
      /\ FlatUpTo(n + 1, cp_list') => FlatUpTo(LastEnd, cp_list) /\ LastEnd = n - 1
  BY <1>1, <1>2, <1>3, FlatAppended
<1>7. LastEnd' = LastEndOf(cp_list') /\ Flat' = FlatUpTo(LastEnd', cp_list')
  BY DEF LastEnd, Flat
<1>8. Ordered'
  <2>1. \E e \in 0 .. Len(cp_list') : IsLastEnd(e, cp_list')
    BY <1>1, <1>2, <1>3, <1>5
  <2>2. \A i \in 1 .. n + 1 :
          cp_list'[i].decl <= Len(decl_list) /\ cp_list'[i].fun = Len(func_list)
    BY <1>1, <1>2, TypedLengths DEF IInv, Ordered
  <2>3. \A i, j \in 1 .. n + 1 : i <= j => cp_list'[i].decl <= cp_list'[j].decl
    BY <1>1, <1>2, TypedLengths DEF IInv, Ordered
  <2>4. QED
    BY <1>2, <2>1, <2>2, <2>3 DEF Ordered
<1>9. type = "BLOCK_OPE_BEGIN" => LastEnd' = LastEnd /\ Flat' = Flat
  BY <1>5, <1>6, <1>7 DEF Flat
<1>10. type = "BLOCK_OPE_END" =>
         LastEnd' = n + 1 /\ (Flat' => Flat /\ LastEnd = n - 1)
  BY <1>5, <1>6, <1>7 DEF Flat
<1>11. QED
  BY <1>1, <1>2, <1>8, <1>9, <1>10

LEMMA ElementTyped ==
  ASSUME NEW S, NEW s \in Seq(S), NEW i \in 1 .. Len(s)
  PROVE  s[i] \in S
OBVIOUS

LEMMA BeginStep ==
  ASSUME IInv, search.at = "idle", UNCHANGED <<decl_list, func_list, search, visible>>,
         RecordCheckpoint("BLOCK_OPE_BEGIN"), unpaired' \in BOOLEAN,
         \/ opened' = opened
         \/ opened' = Append(opened, [visible |-> visible, cp |-> Len(cp_list) + 1])
  PROVE  IInv'
<1> DEFINE n == Len(cp_list)
           block == [visible |-> visible, cp |-> n + 1]
<1>1. /\ decl_list' = decl_list /\ func_list' = func_list
      /\ search' = search /\ search'.at = "idle" /\ visible' = visible
  OBVIOUS
<1>2. /\ n \in Nat /\ cp_list' \in Seq(Checkpoints) /\ Len(cp_list') = n + 1
      /\ cp_list'[n + 1].decl = Len(decl_list)
      /\ \A i \in 1 .. n : cp_list'[i] = cp_list[i]
      /\ Ordered' /\ LastEnd' = LastEnd /\ Flat' = Flat
  BY <1>1, Recorded
<1>3. visible \subseteq 1 .. Len(decl_list) /\ visible \in SUBSET Nat
  BY DEF IInv, ScopeTypeOK
<1>4. opened \in Seq([visible : SUBSET Nat, cp : Nat]) /\ block \in [visible : SUBSET Nat, cp : Nat]
  BY <1>2, <1>3 DEF IInv, ScopeTypeOK
<1> HIDE DEF n, block
<1>5. ScopeTypeOK'
  <2>1. opened' \in Seq([visible : SUBSET Nat, cp : Nat])
    <3>1. CASE opened' = opened
      BY <1>4, <3>1
    <3>2. CASE opened' = Append(opened, block)
      BY <1>4, <3>2
    <3>3. QED
      BY <3>1, <3>2 DEF n, block
  <2>2. QED
    BY <1>1, <1>2, <2>1 DEF IInv, ScopeTypeOK
<1>6. LastEnd <= n /\ LastEnd \in Nat
  BY TypedLengths DEF n
<1>7. OpenBlocks'
  <2>1. CASE opened' = opened
    <3>1. \A i \in 1 .. Len(opened) :
            /\ opened[i].cp \in 1 .. n
            /\ opened[i].visible = visible \cap (1 .. cp_list[opened[i].cp].decl)
            /\ Flat => opened[i].cp > LastEnd
      BY DEF IInv, OpenBlocks, n
    <3>2. \A i, j \in 1 .. Len(opened) : i < j => opened[i].cp < opened[j].cp
      BY DEF IInv, OpenBlocks
    <3>3. 1 .. n \subseteq 1 .. n + 1
      BY <1>2
    <3>4. ASSUME NEW i \in 1 .. Len(opened)
          PROVE  /\ opened[i].cp \in 1 .. n + 1
                 /\ opened[i].visible = visible \cap (1 .. cp_list'[opened[i].cp].decl)
                 /\ Flat => opened[i].cp > LastEnd
      BY <1>2, <3>1, <3>3
    <3>5. QED
      BY <1>1, <1>2, <2>1, <3>2, <3>4 DEF OpenBlocks
  <2>2. CASE opened' = Append(opened, block)
    <3>1. /\ Len(opened) \in Nat /\ Len(opened') = Len(opened) + 1
          /\ opened'[Len(opened) + 1] = block
          /\ \A i \in 1 .. Len(opened) : opened'[i] = opened[i]
      BY <1>4, <2>2
    <3>2. visible = visible \cap (1 .. Len(decl_list))
      BY <1>3
    <3>3. \A i \in 1 .. Len(opened) :
            /\ opened[i].cp \in 1 .. n
            /\ opened[i].visible = visible \cap (1 .. cp_list[opened[i].cp].decl)
            /\ Flat => opened[i].cp > LastEnd
      BY DEF IInv, OpenBlocks, n
    <3>4. \A i \in 1 .. Len(opened') :
            /\ opened'[i].cp \in 1 .. Len(cp_list')
            /\ opened'[i].visible = visible' \cap (1 .. cp_list'[opened'[i].cp].decl)
            /\ Flat' => opened'[i].cp > LastEnd'
      <4> SUFFICES ASSUME NEW i \in 1 .. Len(opened')
                   PROVE  /\ opened'[i].cp \in 1 .. n + 1
                          /\ opened'[i].visible = visible \cap (1 .. cp_list'[opened'[i].cp].decl)
                          /\ Flat => opened'[i].cp > LastEnd
        BY <1>1, <1>2
      <4>1. CASE i \in 1 .. Len(opened)
        <5>1. /\ opened'[i] = opened[i] /\ opened[i].cp \in 1 .. n
              /\ opened[i].visible = visible \cap (1 .. cp_list[opened[i].cp].decl)
              /\ Flat => opened[i].cp > LastEnd
          BY <3>1, <3>3, <4>1
        <5>2. cp_list'[opened[i].cp] = cp_list[opened[i].cp]
          BY <1>2, <5>1
        <5>3. opened[i].cp \in 1 .. n + 1
          BY <1>2, <5>1
        <5>4. QED
          BY <5>1, <5>2, <5>3
      <4>2. CASE i = Len(opened) + 1
        <5>1. opened'[i].visible = visible /\ opened'[i].cp = n + 1
          BY <3>1, <4>2 DEF block
        <5>2. n + 1 \in 1 .. n + 1 /\ n + 1 > LastEnd
          BY <1>2, <1>6
        <5>3. QED
          BY <1>2, <3>2, <5>1, <5>2
      <4>3. QED
        BY <3>1, <4>1, <4>2
    <3>5. \A i, j \in 1 .. Len(opened') : i < j => opened'[i].cp < opened'[j].cp
      <4> SUFFICES ASSUME NEW i \in 1 .. Len(opened'), NEW j \in 1 .. Len(opened'), i < j
                   PROVE  opened'[i].cp < opened'[j].cp
        OBVIOUS
      <4>1. i \in 1 .. Len(opened)
        BY <3>1
      <4>2. CASE j \in 1 .. Len(opened)
        BY <3>1, <4>1, <4>2 DEF IInv, OpenBlocks
      <4>3. CASE j = Len(opened) + 1
        BY <1>2, <3>1, <3>3, <4>1, <4>3 DEF block
      <4>4. QED
        BY <3>1, <4>2, <4>3
    <3>6. QED
      BY <3>4, <3>5 DEF OpenBlocks
  <2>3. QED
    BY <2>1, <2>2 DEF n, block
<1>8. ClosedHidden'
  <2> SUFFICES ASSUME Flat, NEW k \in 1 .. Len(decl_list)
               PROVE  k \in visible <=>
                        \A i \in 1 .. LastEnd : i % 2 = 0 => ~(Between(k, i))'
    BY <1>1, <1>2 DEF ClosedHidden
  <2>1. ASSUME NEW i \in 1 .. LastEnd, i % 2 = 0
        PROVE  (Between(k, i))' <=> Between(k, i)
    <3>1. i \in 1 .. n /\ i # 1
      BY <1>2, <1>6, <2>1
    <3>2. i - 1 \in 1 .. n
      BY <1>2, <3>1
    <3>3. cp_list'[i] = cp_list[i] /\ cp_list'[i - 1] = cp_list[i - 1]
      BY <1>2, <3>1, <3>2
    <3>4. QED
      BY <3>3 DEF Between
  <2>2. QED
    BY <2>1 DEF IInv, ClosedHidden
<1>9. QED
  BY <1>1, <1>2, <1>5, <1>7, <1>8, NotSearching DEF IInv

LEMMA EndBlockStep ==
  ASSUME IInv, EndBlock
  PROVE  IInv'
<1> DEFINE n == Len(cp_list)
           m == Len(opened)
<1>1. /\ decl_list' = decl_list /\ func_list' = func_list /\ unpaired' = unpaired
      /\ search' = search /\ search'.at = "idle"
      /\ RecordCheckpoint("BLOCK_OPE_END")
      /\ opened # <<>> /\ visible' = opened[m].visible /\ opened' = SubSeq(opened, 1, m - 1)
  BY DEF EndBlock
<1>2. /\ n \in Nat /\ cp_list' \in Seq(Checkpoints) /\ Len(cp_list') = n + 1
      /\ cp_list'[n + 1].decl = Len(decl_list)
      /\ \A i \in 1 .. n : cp_list'[i] = cp_list[i]
      /\ Ordered' /\ LastEnd' = n + 1
      /\ Flat' => Flat /\ LastEnd = n - 1
  BY <1>1, Recorded
<1> HIDE DEF n
<1>3. /\ m \in Nat \ {0} /\ opened' \in Seq([visible : SUBSET Nat, cp : Nat])
      /\ Len(opened') = m - 1 /\ \A i \in 1 .. m - 1 : opened'[i] = opened[i]
  <2>1. opened \in Seq([visible : SUBSET Nat, cp : Nat])
    BY DEF IInv, ScopeTypeOK
  <2>2. m \in Nat /\ m # 0
    BY <1>1, <2>1
  <2>3. m - 1 \in 0 .. m
    BY <2>2
  <2>4. opened' = [i \in 1 .. m - 1 |-> opened[i]]
    BY <1>1, <2>1, <2>2, <2>3
  <2>5. \A i \in 1 .. m - 1 : opened[i] \in [visible : SUBSET Nat, cp : Nat]
    <3> SUFFICES ASSUME NEW i \in 1 .. m - 1
                 PROVE  opened[i] \in [visible : SUBSET Nat, cp : Nat]
      OBVIOUS
    <3>1. i \in 1 .. m
      BY <2>2
    <3>2. QED
      BY <2>1, <3>1, ElementTyped DEF m
  <2>6. opened' \in Seq([visible : SUBSET Nat, cp : Nat]) /\ Len(opened') = m - 1
    <3> DEFINE R == [visible : SUBSET Nat, cp : Nat]
    <3>k. PICK k \in Nat : k = m - 1
      BY <2>2
    <3>1. opened' = [i \in 1 .. k |-> opened[i]] /\ \A i \in 1 .. k : opened[i] \in R
      BY <2>4, <2>5, <3>k
    <3> HIDE DEF R
    <3>2. opened' \in Seq(R) /\ Len(opened') = k
      BY <3>1
    <3>3. QED
      BY <3>k, <3>2 DEF R
  <2>7. QED
    BY <2>2, <2>4, <2>6
<1>4. /\ \A i \in 1 .. m :
           /\ opened[i].cp \in 1 .. n
           /\ opened[i].visible = visible \cap (1 .. cp_list[opened[i].cp].decl)
           /\ Flat => opened[i].cp > LastEnd
      /\ \A i, j \in 1 .. m : i < j => opened[i].cp < opened[j].cp
  BY DEF IInv, OpenBlocks, n
<1> DEFINE last == opened[m].cp
<1> HIDE DEF m
<1>5. last \in 1 .. n /\ visible' = visible \cap (1 .. cp_list[last].decl)
  <2>1. m \in 1 .. m
    BY <1>3
  <2>2. QED
    BY <1>1, <1>4, <2>1 DEF m
<1> HIDE DEF last
<1>6. visible \subseteq 1 .. Len(decl_list) /\ Len(decl_list) \in Nat
  BY TypedLengths DEF IInv, ScopeTypeOK
<1>7. ScopeTypeOK'
  BY <1>1, <1>2, <1>3, <1>5, <1>6 DEF IInv, ScopeTypeOK
\* If the checkpoints are flat now, the block that ends was the only one open.
<1>8. ASSUME Flat' PROVE m = 1 /\ last = n
  <2>1. Flat /\ LastEnd = n - 1
    BY <1>2, <1>8
  <2>2. last = n
    <3>1. m \in 1 .. m
      BY <1>3
    <3>2. last > n - 1
      BY <1>4, <2>1, <3>1 DEF last
    <3>3. QED
      BY <1>2, <1>5, <3>2
  <2>3. m = 1
    <3> SUFFICES ASSUME m - 1 \in 1 .. m PROVE FALSE
      BY <1>3
    <3>1. opened[m - 1].cp < n /\ opened[m - 1].cp > n - 1 /\ opened[m - 1].cp \in 1 .. n
      <4>1. m \in 1 .. m /\ m - 1 < m
        BY <1>3
      <4>2. opened[m - 1].cp < last
        BY <1>4, <4>1 DEF last
      <4>3. QED
        BY <1>4, <2>1, <2>2, <4>2
    <3>2. QED
      BY <1>2, <3>1
  <2>4. QED
    BY <2>2, <2>3
<1>9. OpenBlocks'
  <2>1. ASSUME NEW i \in 1 .. m - 1
        PROVE  /\ opened'[i].cp \in 1 .. n + 1
               /\ opened'[i].visible = visible' \cap (1 .. cp_list'[opened'[i].cp].decl)
               /\ Flat' => opened'[i].cp > LastEnd'
    <3>1. /\ i \in 1 .. m /\ m \in 1 .. m /\ i < m /\ opened'[i] = opened[i]
          /\ opened[i].cp \in 1 .. n /\ opened[i].cp < last
      <4>1. i \in 1 .. m /\ m \in 1 .. m /\ i < m
        BY <1>3
      <4>2. QED
        BY <1>3, <1>4, <4>1 DEF last
    <3>2. cp_list[opened[i].cp].decl <= cp_list[last].decl
      BY <1>2, <1>5, <3>1 DEF IInv, Ordered, n
    <3>3. cp_list[opened[i].cp].decl \in Nat /\ cp_list[last].decl \in Nat
      BY <1>5, <3>1, TypedLengths DEF Checkpoints, n
    <3>4. visible' \cap (1 .. cp_list[opened[i].cp].decl)
            = visible \cap (1 .. cp_list[opened[i].cp].decl)
      BY <1>5, <3>2, <3>3
    <3>5. opened[i].visible = visible \cap (1 .. cp_list[opened[i].cp].decl)
      BY <1>4, <3>1
    <3>6. ~Flat'
      BY <1>3, <1>8
    <3>7. cp_list'[opened[i].cp] = cp_list[opened[i].cp] /\ opened[i].cp \in 1 .. n + 1
      BY <1>2, <3>1
    <3>8. QED
      BY <3>1, <3>4, <3>5, <3>6, <3>7
  <2>2. ASSUME NEW i \in 1 .. m - 1, NEW j \in 1 .. m - 1, i < j
        PROVE  opened'[i].cp < opened'[j].cp
    <3>1. i \in 1 .. m /\ j \in 1 .. m
      BY <1>3
    <3>2. QED
      BY <1>3, <1>4, <2>2, <3>1
  <2>3. QED
    BY <1>2, <1>3, <2>1, <2>2 DEF OpenBlocks
<1>10. ClosedHidden'
  <2> DEFINE Next(k, i) == cp_list'[i - 1].decl < k /\ k <= cp_list'[i].decl
  <2> SUFFICES ASSUME Flat', NEW k \in 1 .. Len(decl_list)
               PROVE  k \in visible' <=>
                        \A i \in 1 .. n + 1 : i % 2 = 0 => ~Next(k, i)
    BY <1>1, <1>2 DEF ClosedHidden, Between
  <2> DEFINE After(i) == Next(k, i)
  <2>1. Flat /\ LastEnd = n - 1 /\ last = n
    BY <1>2, <1>8
  <2>2. n % 2 = 1 /\ (n + 1) % 2 = 0
    <3>1. (n - 1) % 2 = 0
      BY <2>1 DEF Flat, FlatUpTo
    <3>2. QED
      BY <1>2, <3>1
  <2>3. k \in visible <=> \A i \in 1 .. n - 1 : i % 2 = 0 => ~Between(k, i)
    BY <2>1 DEF IInv, ClosedHidden
  <2>4. ASSUME NEW i \in 1 .. n - 1, i % 2 = 0
        PROVE  After(i) <=> Between(k, i)
    <3>1. i \in 1 .. n /\ i # 1
      BY <1>2, <2>4
    <3>2. i - 1 \in 1 .. n
      BY <1>2, <3>1
    <3>3. cp_list'[i] = cp_list[i] /\ cp_list'[i - 1] = cp_list[i - 1]
      BY <1>2, <3>1, <3>2
    <3>4. QED
      BY <3>3 DEF Between
  <2>5. After(n + 1) <=> cp_list[n].decl < k
    <3>1. (n + 1) - 1 = n /\ n \in 1 .. n
      BY <1>2, <1>5, <2>1
    <3>2. cp_list'[n] = cp_list[n]
      BY <1>2, <3>1
    <3>3. k <= Len(decl_list)
      BY <1>6
    <3>4. After(n + 1) <=> cp_list'[(n + 1) - 1].decl < k /\ k <= cp_list'[n + 1].decl
      OBVIOUS
    <3>5. QED
      BY <1>2, <3>1, <3>2, <3>3, <3>4
  <2> HIDE DEF After
  <2>6. \A i \in 1 .. n + 1 : i % 2 = 0 => i \in 1 .. n - 1 \/ i = n + 1
    BY <1>2, <2>2
  <2>7. k \in visible' <=> k \in visible /\ ~(cp_list[n].decl < k)
    <3>1. cp_list[n].decl \in Nat
      BY <1>5, <2>1, TypedLengths DEF Checkpoints, n
    <3>2. QED
      BY <1>5, <1>6, <2>1, <3>1
  <2>8. (\A i \in 1 .. n + 1 : i % 2 = 0 => ~After(i))
          <=> (\A i \in 1 .. n - 1 : i % 2 = 0 => ~Between(k, i)) /\ ~(cp_list[n].decl < k)
    <3>1. n + 1 \in 1 .. n + 1 /\ \A i \in 1 .. n - 1 : i \in 1 .. n + 1
      BY <1>2
    <3>2. ASSUME \A i \in 1 .. n + 1 : i % 2 = 0 => ~After(i)
          PROVE  (\A i \in 1 .. n - 1 : i % 2 = 0 => ~Between(k, i)) /\ ~(cp_list[n].decl < k)
      <4>1. ~(cp_list[n].decl < k)
        BY <2>2, <2>5, <3>1, <3>2
      <4>2. ASSUME NEW i \in 1 .. n - 1, i % 2 = 0 PROVE ~Between(k, i)
        BY <2>4, <3>1, <3>2, <4>2
      <4>3. QED
        BY <4>1, <4>2
    <3>3. ASSUME \A i \in 1 .. n - 1 : i % 2 = 0 => ~Between(k, i), ~(cp_list[n].decl < k),
                 NEW i \in 1 .. n + 1, i % 2 = 0
          PROVE  ~After(i)
      <4>1. CASE i = n + 1
        BY <2>5, <3>3, <4>1
      <4>2. CASE i \in 1 .. n - 1
        BY <2>4, <3>3, <4>2
      <4>3. QED
        BY <2>6, <3>3, <4>1, <4>2
    <3>4. QED
      BY <3>2, <3>3
  <2>9. QED
    BY <2>3, <2>7, <2>8 DEF After
<1>11. QED
  BY <1>1, <1>2, <1>7, <1>9, <1>10, NotSearching DEF IInv

-----------------------------------------------------------------------------
(* The specification.                                                        *)

\* A search that is under way is for a name of the program.
SearchNamed == search.at # "idle" => search.name \in Names

LEMMA InitHolds == ScopeInit => IInv /\ SearchNamed
<1> SUFFICES ASSUME ScopeInit PROVE IInv /\ SearchNamed
  OBVIOUS
<1>1. /\ decl_list = <<>> /\ cp_list = <<>> /\ opened = <<>> /\ visible = {}
      /\ search = Idle /\ search.at = "idle" /\ func_list \in FuncLists /\ unpaired = FALSE
  BY DEF ScopeInit, Idle, Search
<1>2. Len(decl_list) = 0 /\ Len(cp_list) = 0 /\ Len(opened) = 0
  BY <1>1
<1>3. ScopeTypeOK
  <2>1. /\ decl_list \in Seq([name : Names, type : DeclTypes]) /\ cp_list \in Seq(Checkpoints)
        /\ opened \in Seq([visible : SUBSET Nat, cp : Nat])
    BY <1>1
  <2>2. search \in [at : {"idle", "decl", "func", "crash"} \cup Results,
                    name : Names \cup {NoName}, list : Nat, cp : Nat]
    BY <1>1 DEF Idle, Search
  <2>3. QED
    BY <1>1, <2>1, <2>2 DEF ScopeTypeOK
<1>4. Ordered
  BY <1>2 DEF Ordered, IsLastEnd
<1>5. OpenBlocks /\ ClosedHidden
  BY <1>2 DEF OpenBlocks, ClosedHidden
<1>6. QED
  BY <1>1, <1>3, <1>4, <1>5
     DEF IInv, DeclWalk, FuncWalk, ExactWhenFlat, ResultInScope, CrashesWhenOdd, SearchNamed

\* One turn of a search.
LEMMA SearchStepHolds ==
  ASSUME IInv, SearchStep
  PROVE  /\ IInv' /\ search'.at # "idle" /\ search'.name = search.name
         /\ search.at = search'.at /\ search.at \in {"decl", "func"}
              => search'.list + search'.cp < search.list + search.cp
<1>1. /\ search.at \in {"decl", "func"}
      /\ search'.at # "idle" /\ search'.name = search.name
  BY TypedLengths DEF SearchStep, SkipBlock, MatchDecl, PassDecl, DeclAbsent,
                      SkipFuncBlock, MatchFunc, PassFunc, FuncAbsent, Result
<1>2. CASE SkipBlock
  BY <1>1, <1>2, SkipBlockStep
<1>3. CASE PassDecl
  BY <1>1, <1>3, PassDeclStep
<1>4. CASE SkipFuncBlock
  <2>1. search.at = "func"
    BY <1>4 DEF SkipFuncBlock
  <2>2. IInv' /\ (search'.at = "func" => search'.list + search'.cp < search.list + search.cp)
    BY <1>4, SkipFuncBlockStep
  <2>3. QED
    BY <1>1, <2>1, <2>2
<1>5. CASE PassFunc
  BY <1>1, <1>5, PassFuncStep
<1>6. CASE MatchDecl
  BY <1>1, <1>6, MatchDeclStep, TypedLengths DEF MatchDecl, Result
<1>7. CASE DeclAbsent
  BY <1>1, <1>7, DeclAbsentStep, TypedLengths DEF DeclAbsent, Result
<1>8. CASE MatchFunc \/ FuncAbsent
  BY <1>1, <1>8, FuncResultStep, TypedLengths DEF MatchFunc, FuncAbsent, Result
<1>9. QED
  BY <1>2, <1>3, <1>4, <1>5, <1>6, <1>7, <1>8 DEF SearchStep

LEMMA NextHolds ==
  ASSUME IInv, SearchNamed, ScopeNext
  PROVE  IInv' /\ SearchNamed'
<1>1. CASE \E name \in Names : StartDeclSearch(name)
  <2>1. PICK name \in Names : StartDeclSearch(name)
    BY <1>1
  <2>2. QED
    BY <2>1, StartDeclSearchStep DEF SearchNamed, StartDeclSearch, Search
<1>2. CASE SearchStep
  BY <1>2, SearchStepHolds DEF SearchNamed, SearchStep, SkipBlock, MatchDecl, PassDecl,
       DeclAbsent, SkipFuncBlock, MatchFunc, PassFunc, FuncAbsent
<1>3. CASE StartFuncSearch
  BY <1>3, StartFuncSearchStep DEF SearchNamed, StartFuncSearch, Search
<1>4. CASE Return
  BY <1>4, ReturnStep DEF SearchNamed, Return, Idle, Search
<1>5. CASE \E type \in DeclTypes : ChainDeclaration(type)
  <2>1. PICK type \in DeclTypes : ChainDeclaration(type)
    BY <1>5
  <2>2. search.name \in Names /\ search'.at = "idle"
    BY <2>1 DEF SearchNamed, ChainDeclaration, Idle, Search
  <2>3. QED
    BY <2>1, <2>2, ChainDeclarationStep DEF SearchNamed
<1>6. CASE BeginBlock
  <2>1. unpaired' \in BOOLEAN
    BY <1>6 DEF BeginBlock, IInv, ScopeTypeOK
  <2>2. IInv'
    BY <1>6, <2>1, BeginStep DEF BeginBlock
  <2>3. QED
    BY <1>6, <2>2 DEF BeginBlock, SearchNamed
<1>7. CASE EndBlock
  BY <1>7, EndBlockStep DEF EndBlock, SearchNamed
<1>8. CASE EmptyBlock
  <2>1. IInv'
    BY <1>8, BeginStep DEF EmptyBlock
  <2>2. QED
    BY <1>8, <2>1 DEF EmptyBlock, SearchNamed
<1>9. QED
  BY <1>1, <1>2, <1>3, <1>4, <1>5, <1>6, <1>7, <1>8 DEF ScopeNext

LEMMA IInvStutters ==
  ASSUME IInv, SearchNamed, UNCHANGED scopeVars
  PROVE  IInv' /\ SearchNamed'
<1>1. UNCHANGED listVars /\ search' = search
  BY DEF scopeVars, listVars
<1>2. /\ cp_list' = cp_list /\ decl_list' = decl_list /\ func_list' = func_list
      /\ visible' = visible
  BY <1>1 DEF listVars
<1>3. /\ ScopeTypeOK' /\ Ordered' /\ OpenBlocks' /\ ClosedHidden'
      /\ LastEnd' = LastEnd /\ Flat' = Flat
  BY <1>1, TypedLengths, ListsUnchanged
<1>4. DeclWalk' /\ FuncWalk' /\ ExactWhenFlat' /\ CrashesWhenOdd'
  BY <1>1, <1>2, <1>3 DEF IInv, DeclWalk, FuncWalk, ExactWhenFlat, ResultInScope, CrashesWhenOdd
<1>5. QED
  BY <1>1, <1>3, <1>4 DEF IInv, SearchNamed

LEMMA IInvHolds == ScopeSpec => [](IInv /\ SearchNamed)
<1>1. ScopeInit => IInv /\ SearchNamed
  BY InitHolds
<1>2. (IInv /\ SearchNamed) /\ [ScopeNext]_scopeVars => (IInv /\ SearchNamed)'
  BY NextHolds, IInvStutters
<1>3. QED
  BY <1>1, <1>2, PTL DEF ScopeSpec

\* The lists and the search have their types, for every set of names, types
\* and functions.
THEOREM ScopeTypes == ScopeSpec => []ScopeTypeOK
<1>1. IInv => ScopeTypeOK
  BY DEF IInv
<1>2. QED
  BY <1>1, IInvHolds, PTL

\* cs_search_decl_in_block is the scoping of the language while no block was
\* closed inside another (util.c:116-150).
THEOREM SearchIsExactWhenFlat == ScopeSpec => []ExactWhenFlat
<1>1. IInv => ExactWhenFlat
  BY DEF IInv
<1>2. QED
  BY <1>1, IInvHolds, PTL

\* cs_search_func_in_block takes a null pointer exactly if the last block
\* that ended is at an odd checkpoint (util.c:167-199).
THEOREM FunctionSearchCrashes == ScopeSpec => []CrashesWhenOdd
<1>1. IInv => CrashesWhenOdd
  BY DEF IInv
<1>2. QED
  BY <1>1, IInvHolds, PTL

\* Both searches end: every turn moves back.
THEOREM SearchesDescend == ScopeSpec => SearchDescends
<1> DEFINE Descends == search.at = search'.at /\ search.at \in {"decl", "func"}
                         => search'.list + search'.cp < search.list + search.cp
<1>1. ASSUME IInv, ScopeNext PROVE Descends
  <2>1. CASE SearchStep
    BY <1>1, <2>1, SearchStepHolds
  <2>2. CASE \E name \in Names : StartDeclSearch(name)
    BY <2>2 DEF StartDeclSearch
  <2>3. CASE StartFuncSearch
    BY <2>3 DEF StartFuncSearch
  <2>4. CASE Return
    BY <2>4 DEF Return, Results
  <2>5. CASE \E type \in DeclTypes : ChainDeclaration(type)
    BY <2>5 DEF ChainDeclaration
  <2>6. CASE BeginBlock \/ EndBlock \/ EmptyBlock
    BY <2>6 DEF BeginBlock, EndBlock, EmptyBlock
  <2>7. QED
    BY <1>1, <2>1, <2>2, <2>3, <2>4, <2>5, <2>6 DEF ScopeNext
<1>2. IInv /\ [ScopeNext]_scopeVars => [Descends]_scopeVars
  BY <1>1
<1>3. QED
  BY <1>2, IInvHolds, PTL DEF ScopeSpec, SearchDescends

-----------------------------------------------------------------------------
(* However deep the blocks nest, a block does not get two variables of one   *)
(* name. The search of cs_search_decl_in_block is not the scoping of the     *)
(* language then, but what it leaves out never belongs to the innermost      *)
(* block: it skips from a checkpoint to the one before only where the number *)
(* of open blocks has the other parity.                                      *)
(*                                                                           *)
(* The invariant. Level i of the blocks is the i-th open one, level 0 the    *)
(* program; its own declarations follow its beginning and come before the    *)
(* beginning of the next.                                                    *)

Depth == Len(opened)
Begin(i) == IF i = 0 THEN 0 ELSE opened[i].cp
Base(i) == IF i = 0 THEN 0 ELSE cp_list[opened[i].cp].decl
AtLevel(k, i) == k > Base(i) /\ (i < Depth => k <= Base(i + 1))

\* Every checkpoint opens or closes one block, and the last is the beginning of
\* the innermost one unless a block was closed in it.
Paired ==
  /\ Len(cp_list) % 2 = Depth % 2
  /\ Len(cp_list) # Begin(Depth) => IsEnd(cp_list[Len(cp_list)])

\* The checkpoint after a declaration of level i has the other parity.
LevelPlaces ==
  \A i \in 0 .. Depth : \A k \in visible :
    AtLevel(k, i) => \A j \in 2 .. Len(cp_list) : Between(k, j) => j % 2 # i % 2

LevelUnique ==
  \A i \in 0 .. Depth : \A j, k \in visible :
    j # k /\ AtLevel(j, i) /\ AtLevel(k, i) => decl_list[j].name # decl_list[k].name

\* A search skips, inside the innermost block, only blocks that were closed in
\* it, and has passed its own declarations behind list.
InnerWalk ==
  search.at = "decl" /\ search.cp > Begin(Depth) =>
    search.cp % 2 = Depth % 2 /\ cp_list[search.cp].decl <= search.list
OwnPassed ==
  search.at \in {"decl", "decl_absent"} =>
    \A k \in visible :
      AtLevel(k, Depth) /\ k > search.list => decl_list[k].name # search.name
AbsentAtEnd == search.at = "decl_absent" => search.list = 0

OwnInv ==
  ~unpaired => /\ Paired /\ LevelPlaces /\ LevelUnique
               /\ InnerWalk /\ OwnPassed /\ AbsentAtEnd

-----------------------------------------------------------------------------
(* What the levels are.                                                      *)

LEMMA LevelFacts ==
  ASSUME IInv
  PROVE  /\ Depth \in Nat /\ Len(cp_list) \in Nat /\ Len(decl_list) \in Nat
         /\ \A i \in 1 .. Len(cp_list) :
              cp_list[i].decl \in Nat /\ cp_list[i].decl <= Len(decl_list)
         /\ \A i, j \in 1 .. Len(cp_list) : i <= j => cp_list[i].decl <= cp_list[j].decl
         /\ \A i \in 1 .. Depth : opened[i].cp \in 1 .. Len(cp_list)
         /\ \A i \in 0 .. Depth : Begin(i) \in 0 .. Len(cp_list)
         /\ \A i \in 0 .. Depth : Base(i) \in Nat /\ Base(i) <= Len(decl_list)
         /\ visible \subseteq 1 .. Len(decl_list)
         /\ LastEnd \in 0 .. Len(cp_list) /\ IsLastEnd(LastEnd, cp_list)
<1>1. /\ Depth \in Nat /\ Len(cp_list) \in Nat /\ Len(decl_list) \in Nat
      /\ visible \subseteq 1 .. Len(decl_list)
  BY TypedLengths DEF IInv, ScopeTypeOK, Depth
<1>2. /\ \A i \in 1 .. Len(cp_list) :
           cp_list[i].decl \in Nat /\ cp_list[i].decl <= Len(decl_list)
      /\ \A i, j \in 1 .. Len(cp_list) : i <= j => cp_list[i].decl <= cp_list[j].decl
  BY TypedLengths DEF IInv, Ordered, Checkpoints
<1>3. \A i \in 1 .. Depth : opened[i].cp \in 1 .. Len(cp_list)
  BY DEF IInv, OpenBlocks, Depth
<1>4. \A i \in 0 .. Depth : i = 0 \/ i \in 1 .. Depth
  BY <1>1
<1>5. \A i \in 0 .. Depth : Begin(i) \in 0 .. Len(cp_list)
  BY <1>1, <1>3, <1>4 DEF Begin
<1>6. \A i \in 0 .. Depth : Base(i) \in Nat /\ Base(i) <= Len(decl_list)
  BY <1>1, <1>2, <1>3, <1>4 DEF Base
<1>7. LastEnd \in 0 .. Len(cp_list) /\ IsLastEnd(LastEnd, cp_list)
  BY LastEndFacts DEF IInv
<1>8. QED
  BY <1>1, <1>2, <1>3, <1>5, <1>6, <1>7

LEMMA NextParity ==
  ASSUME NEW a \in Nat, NEW b \in Nat, a % 2 = b % 2
  PROVE  (a + 1) % 2 # b % 2 /\ (a + 1) % 2 = (b + 1) % 2
OBVIOUS

\* What a search leaves alone.
LEMMA BlocksUnchanged ==
  ASSUME OwnInv, UNCHANGED listVars
  PROVE  /\ unpaired' = unpaired /\ visible' = visible /\ decl_list' = decl_list
         /\ cp_list' = cp_list /\ Depth' = Depth /\ Begin(Depth)' = Begin(Depth)
         /\ \A k : AtLevel(k, Depth)' <=> AtLevel(k, Depth)
         /\ ~unpaired => Paired' /\ LevelPlaces' /\ LevelUnique'
<1>1. /\ cp_list' = cp_list /\ decl_list' = decl_list /\ visible' = visible
      /\ opened' = opened /\ unpaired' = unpaired
  BY DEF listVars
<1>2. Depth' = Depth /\ Begin(Depth)' = Begin(Depth)
  BY <1>1 DEF Depth, Begin
<1>3. \A k : AtLevel(k, Depth)' <=> AtLevel(k, Depth)
  BY <1>1, <1>2 DEF AtLevel, Base, Depth
<1>4. ~unpaired => Paired'
  BY <1>1, <1>2 DEF OwnInv, Paired
<1>5. ~unpaired => LevelPlaces'
  BY <1>1, <1>2 DEF OwnInv, LevelPlaces, AtLevel, Base, Between
<1>6. ~unpaired => LevelUnique'
  BY <1>1, <1>2 DEF OwnInv, LevelUnique, AtLevel, Base
<1>7. QED
  BY <1>1, <1>2, <1>3, <1>4, <1>5, <1>6

-----------------------------------------------------------------------------
(* Levels and the steps of a search.                                         *)

LEMMA OwnStart ==
  ASSUME IInv, OwnInv, ~unpaired, NEW name \in Names, StartDeclSearch(name)
  PROVE  OwnInv'
<1>1. UNCHANGED listVars /\ search' = Search("decl", name, Len(decl_list), LastEnd)
  BY DEF StartDeclSearch
<1>2. /\ search'.at = "decl" /\ search'.list = Len(decl_list) /\ search'.cp = LastEnd
  BY <1>1 DEF Search
<1> DEFINE n == Len(cp_list)
<1>3. ASSUME LastEnd > Begin(Depth)
      PROVE  LastEnd % 2 = Depth % 2 /\ cp_list[LastEnd].decl <= Len(decl_list)
  <2>1. /\ n \in Nat /\ LastEnd \in 0 .. n /\ Begin(Depth) \in 0 .. n /\ Depth \in 0 .. Depth
    BY LevelFacts
  <2>2. LastEnd \in 1 .. n /\ n # Begin(Depth)
    BY <1>3, <2>1
  <2>3. IsEnd(cp_list[n])
    BY <2>2 DEF OwnInv, Paired
  <2>4. LastEnd = n
    <3> SUFFICES ASSUME n \in LastEnd + 1 .. n PROVE FALSE
      BY <2>1, <2>2
    <3>1. IsBegin(cp_list[n])
      BY LevelFacts DEF IsLastEnd
    <3>2. QED
      BY <2>3, <3>1 DEF IsBegin, IsEnd
  <2>5. QED
    BY <2>2, <2>4, LevelFacts DEF OwnInv, Paired
<1>4. InnerWalk'
  BY <1>1, <1>2, <1>3, BlocksUnchanged DEF InnerWalk
<1>5. \A k \in visible : ~(k > Len(decl_list))
  BY LevelFacts
<1>6. OwnPassed' /\ AbsentAtEnd'
  BY <1>1, <1>2, <1>5, BlocksUnchanged DEF OwnPassed, AbsentAtEnd
<1>7. QED
  BY <1>1, <1>4, <1>6, BlocksUnchanged DEF OwnInv

LEMMA OwnSkip ==
  ASSUME IInv, OwnInv, ~unpaired, SkipBlock
  PROVE  OwnInv'
<1>1. /\ UNCHANGED listVars /\ search.at = "decl"
      /\ search.cp # 0 /\ search.cp # 1 /\ search.list = cp_list[search.cp].decl
      /\ search' = [search EXCEPT !.list = cp_list[search.cp - 1].decl,
                                  !.cp = PrevPrev(search.cp)]
  BY DEF SkipBlock, AtBlock
<1>2. search.cp <= LastEnd
  BY <1>1 DEF IInv, DeclWalk
<1> DEFINE to == cp_list[search.cp - 1].decl
<1>3. /\ to \in Nat /\ to <= search.list /\ PrevPrev(search.cp) = search.cp - 2
      /\ search.cp \in 1 .. Len(cp_list) /\ search.cp - 1 \in 1 .. Len(cp_list)
      /\ search.cp \in 2 .. Len(cp_list) /\ search.list \in Nat
  BY <1>1, <1>2, SkippedTo, TypedLengths
<1>4. /\ search'.at = "decl" /\ search'.name = search.name
      /\ search'.list = to /\ search'.cp = search.cp - 2
  BY <1>1, <1>3, TypedLengths
<1>5. Begin(Depth) \in Nat /\ Base(Depth) \in Nat /\ Depth \in 0 .. Depth
  BY LevelFacts
<1>6. ASSUME search.cp - 2 > Begin(Depth)
      PROVE  (search.cp - 2) % 2 = Depth % 2 /\ cp_list[search.cp - 2].decl <= to
  <2>1. search.cp > Begin(Depth) /\ search.cp - 2 \in 1 .. Len(cp_list)
    BY <1>3, <1>5, <1>6
  <2>2. search.cp % 2 = Depth % 2
    BY <1>1, <2>1 DEF OwnInv, InnerWalk
  <2>3. cp_list[search.cp - 2].decl <= to
    BY <1>3, <2>1, LevelFacts
  <2>4. QED
    BY <1>3, <2>2, <2>3
<1>7. InnerWalk'
  BY <1>1, <1>4, <1>6, BlocksUnchanged DEF InnerWalk
\* A declaration of the innermost block is not behind the place skipped to.
<1>8. ASSUME NEW k \in visible, AtLevel(k, Depth), k > to
      PROVE  k > search.list
  <2>1. k \in Nat
    BY LevelFacts
  <2>2. CASE search.cp > Begin(Depth)
    <3>1. search.cp % 2 = Depth % 2
      BY <1>1, <2>2 DEF OwnInv, InnerWalk
    <3>2. ~Between(k, search.cp)
      BY <1>3, <1>5, <1>8, <3>1 DEF OwnInv, LevelPlaces
    <3>3. QED
      BY <1>1, <1>3, <1>8, <2>1, <3>2 DEF Between
  <2>3. CASE search.cp <= Begin(Depth)
    <3>1. /\ Begin(Depth) = opened[Depth].cp /\ Base(Depth) = cp_list[opened[Depth].cp].decl
          /\ opened[Depth].cp \in 1 .. Len(cp_list)
      <4>1. Depth # 0 /\ Depth \in 1 .. Depth
        BY <1>3, <1>5, <2>3 DEF Begin
      <4>2. QED
        BY <4>1, LevelFacts DEF Begin, Base
    <3>2. search.list <= Base(Depth)
      BY <1>1, <1>3, <2>3, <3>1, LevelFacts
    <3>3. QED
      BY <1>3, <1>5, <1>8, <2>1, <3>2 DEF AtLevel
  <2>4. QED
    BY <1>3, <1>5, <2>2, <2>3
<1>9. \A k \in visible : AtLevel(k, Depth) /\ k > to => decl_list[k].name # search.name
  BY <1>1, <1>8 DEF OwnInv, OwnPassed
<1>10. OwnPassed' /\ AbsentAtEnd'
  BY <1>1, <1>4, <1>9, BlocksUnchanged DEF OwnPassed, AbsentAtEnd
<1>11. QED
  BY <1>1, <1>7, <1>10, BlocksUnchanged DEF OwnInv

LEMMA OwnPass ==
  ASSUME IInv, OwnInv, ~unpaired, PassDecl
  PROVE  OwnInv'
<1>1. /\ UNCHANGED listVars /\ search.at = "decl" /\ search.list # 0 /\ ~AtBlock
      /\ decl_list[search.list].name # search.name
      /\ search' = [search EXCEPT !.list = search.list - 1]
  BY DEF PassDecl
<1>2. /\ search'.at = "decl" /\ search'.name = search.name
      /\ search'.list = search.list - 1 /\ search'.cp = search.cp
      /\ search.list \in Nat /\ search.cp \in Nat /\ search.cp <= LastEnd
      /\ search.cp \in 0 .. Len(cp_list)
  BY <1>1, TypedLengths DEF IInv, DeclWalk
<1>3. Begin(Depth) \in Nat /\ Depth \in Nat
  BY LevelFacts
<1>4. ASSUME search.cp > Begin(Depth)
      PROVE  search.cp % 2 = Depth % 2 /\ cp_list[search.cp].decl <= search.list - 1
  <2>1. search.cp % 2 = Depth % 2 /\ cp_list[search.cp].decl <= search.list
    BY <1>1, <1>4 DEF OwnInv, InnerWalk
  <2>2. search.cp # 0 /\ search.cp \in 1 .. Len(cp_list)
    BY <1>2, <1>3, <1>4
  <2>3. search.cp # 1
    <3> SUFFICES ASSUME search.cp = 1 PROVE FALSE
      OBVIOUS
    <3>1. Depth # 0
      BY <2>1
    <3>2. Depth \in 1 .. Depth
      BY <1>3, <3>1
    <3>3. Begin(Depth) >= 1
      BY <3>1, <3>2, LevelFacts DEF Begin
    <3>4. QED
      BY <1>3, <1>4, <3>3
  <2>4. search.list # cp_list[search.cp].decl
    BY <1>1, <2>2, <2>3 DEF AtBlock
  <2>5. cp_list[search.cp].decl \in Nat
    BY <2>2, LevelFacts
  <2>6. QED
    BY <1>2, <2>1, <2>4, <2>5
<1>5. InnerWalk'
  BY <1>1, <1>2, <1>4, BlocksUnchanged DEF InnerWalk
<1>6. ASSUME NEW k \in visible, AtLevel(k, Depth), k > search.list - 1
      PROVE  decl_list[k].name # search.name
  <2>1. k \in Nat
    BY LevelFacts
  <2>2. k = search.list \/ k > search.list
    BY <1>2, <1>6, <2>1
  <2>3. QED
    BY <1>1, <1>6, <2>2 DEF OwnInv, OwnPassed
<1>7. OwnPassed' /\ AbsentAtEnd'
  BY <1>1, <1>2, <1>6, BlocksUnchanged DEF OwnPassed, AbsentAtEnd
<1>8. QED
  BY <1>1, <1>5, <1>7, BlocksUnchanged DEF OwnInv

LEMMA OwnAbsent ==
  ASSUME IInv, OwnInv, ~unpaired, DeclAbsent
  PROVE  OwnInv'
<1>1. /\ UNCHANGED listVars /\ search.at = "decl" /\ search.list = 0
      /\ search' = [search EXCEPT !.at = "decl_absent"]
  BY DEF DeclAbsent, Result
<1>2. search'.at = "decl_absent" /\ search'.name = search.name /\ search'.list = 0
  BY <1>1, TypedLengths
<1>3. InnerWalk' /\ AbsentAtEnd'
  BY <1>2 DEF InnerWalk, AbsentAtEnd
<1>4. OwnPassed'
  BY <1>1, <1>2, BlocksUnchanged DEF OwnInv, OwnPassed
<1>5. QED
  BY <1>1, <1>3, <1>4, BlocksUnchanged DEF OwnInv

\* Steps after which no declaration is searched for.
LEMMA OwnOther ==
  ASSUME OwnInv, ~unpaired, UNCHANGED listVars, search'.at \notin {"decl", "decl_absent"}
  PROVE  OwnInv'
<1>1. InnerWalk' /\ OwnPassed' /\ AbsentAtEnd'
  BY DEF InnerWalk, OwnPassed, AbsentAtEnd
<1>2. QED
  BY <1>1, BlocksUnchanged DEF OwnInv

-----------------------------------------------------------------------------
(* Levels and the steps that change the lists.                               *)

\* Nothing is searched for after them.
LEMMA OwnNotSearching ==
  ASSUME search'.at = "idle"
  PROVE  InnerWalk' /\ OwnPassed' /\ AbsentAtEnd'
BY DEF InnerWalk, OwnPassed, AbsentAtEnd

\* A new declaration is the last, of the innermost block, and no checkpoint has
\* seen it; the search has found no other of its name there.
LEMMA OwnChain ==
  ASSUME IInv, OwnInv, ~unpaired, NEW type \in DeclTypes, ChainDeclaration(type)
  PROVE  OwnInv'
<1> DEFINE n == Len(decl_list)
           new == [name |-> search.name, type |-> type]
<1>1. /\ decl_list' = Append(decl_list, new) /\ visible' = visible \cup {n + 1}
      /\ search' = Idle /\ search'.at = "idle" /\ search.at = "decl_absent"
      /\ cp_list' = cp_list /\ opened' = opened /\ unpaired' = unpaired
  BY DEF ChainDeclaration, Idle, Search
<1>2. /\ n \in Nat /\ Depth \in Nat /\ visible \subseteq 1 .. n
      /\ \A i \in 0 .. Depth : Base(i) \in Nat /\ Base(i) <= n
      /\ \A i \in 1 .. Len(cp_list) : cp_list[i].decl \in Nat /\ cp_list[i].decl <= n
      /\ Len(cp_list) \in Nat
  BY LevelFacts
<1>3. /\ decl_list'[n + 1].name = search.name
      /\ \A k \in 1 .. n : decl_list'[k] = decl_list[k]
  BY <1>1, <1>2 DEF IInv, ScopeTypeOK
<1>4. /\ Depth' = Depth
      /\ \A k, i : AtLevel(k, i)' <=> AtLevel(k, i)
      /\ \A k, j : Between(k, j)' <=> Between(k, j)
  BY <1>1 DEF Depth, AtLevel, Base, Between
<1>5. Paired'
  BY <1>1, <1>4 DEF OwnInv, Paired, Begin, Depth
<1>6. \A j \in 2 .. Len(cp_list) : ~Between(n + 1, j)
  BY <1>2 DEF Between
<1>7. ASSUME NEW i \in 0 .. Depth, AtLevel(n + 1, i) PROVE i = Depth
  <2> SUFFICES ASSUME i < Depth PROVE FALSE
    BY <1>2
  <2>1. i + 1 \in 0 .. Depth /\ n + 1 <= Base(i + 1)
    BY <1>2, <1>7 DEF AtLevel
  <2>2. Base(i + 1) \in Nat /\ Base(i + 1) <= n
    BY <1>2, <2>1
  <2>3. QED
    BY <1>2, <2>1, <2>2
<1>8. LevelPlaces'
  <2> SUFFICES ASSUME NEW i \in 0 .. Depth', NEW k \in visible', AtLevel(k, i)',
                      NEW j \in 2 .. Len(cp_list'), Between(k, j)'
               PROVE  j % 2 # i % 2
    BY DEF LevelPlaces
  <2>. i \in 0 .. Depth /\ AtLevel(k, i) /\ j \in 2 .. Len(cp_list) /\ Between(k, j)
    BY <1>1, <1>4
  <2>1. k \in visible
    BY <1>1, <1>6
  <2>2. QED
    BY <2>1 DEF OwnInv, LevelPlaces
<1>9. \A k \in visible : AtLevel(k, Depth) => decl_list[k].name # search.name
  <2>1. search.list = 0 /\ \A k \in visible : k > 0
    BY <1>1, <1>2 DEF OwnInv, AbsentAtEnd
  <2>2. QED
    BY <1>1, <2>1 DEF OwnInv, OwnPassed
<1>10. LevelUnique'
  <2> SUFFICES ASSUME NEW i \in 0 .. Depth', NEW j \in visible', NEW k \in visible',
                      j # k, AtLevel(j, i)', AtLevel(k, i)'
               PROVE  decl_list'[j].name # decl_list'[k].name
    BY DEF LevelUnique
  <2>. i \in 0 .. Depth /\ AtLevel(j, i) /\ AtLevel(k, i)
    BY <1>4
  <2>. j \in visible \cup {n + 1} /\ k \in visible \cup {n + 1}
    BY <1>1
  <2>1. CASE j \in visible /\ k \in visible
    BY <1>2, <1>3, <2>1 DEF OwnInv, LevelUnique
  <2>2. CASE j = n + 1
    BY <1>2, <1>3, <1>7, <1>9, <2>2
  <2>3. CASE k = n + 1
    BY <1>2, <1>3, <1>7, <1>9, <2>3
  <2>4. QED
    BY <2>1, <2>2, <2>3
<1>11. QED
  BY <1>1, <1>5, <1>8, <1>10, OwnNotSearching DEF OwnInv

\* A block begins: what was declared so far belongs to the levels outside it.
LEMMA OwnBegin ==
  ASSUME IInv, OwnInv, ~unpaired, BeginBlock
  PROVE  OwnInv'
<1> DEFINE n == Len(cp_list)
           d == Depth
           block == [visible |-> visible, cp |-> n + 1]
<1>1. /\ decl_list' = decl_list /\ func_list' = func_list /\ visible' = visible
      /\ search' = search /\ search'.at = "idle"
      /\ RecordCheckpoint("BLOCK_OPE_BEGIN") /\ opened' = Append(opened, block)
  BY DEF BeginBlock
<1>2. /\ n \in Nat /\ Len(cp_list') = n + 1 /\ cp_list'[n + 1].decl = Len(decl_list)
      /\ \A i \in 1 .. n : cp_list'[i] = cp_list[i]
  BY <1>1, Recorded
<1>3. /\ d \in Nat /\ visible \subseteq 1 .. Len(decl_list) /\ Len(decl_list) \in Nat
      /\ \A i \in 1 .. d : opened[i].cp \in 1 .. n
      /\ \A i \in 0 .. d : Base(i) \in Nat
      /\ \A i \in 1 .. n : cp_list[i].decl \in Nat
      /\ \A i, j \in 1 .. n : i <= j => cp_list[i].decl <= cp_list[j].decl
  BY LevelFacts
<1>4. /\ opened \in Seq([visible : SUBSET Nat, cp : Nat])
      /\ block \in [visible : SUBSET Nat, cp : Nat]
  BY <1>2, <1>3 DEF IInv, ScopeTypeOK
<1>5. /\ Depth' = d + 1 /\ opened'[d + 1] = block
      /\ \A i \in 1 .. d : opened'[i] = opened[i]
  BY <1>1, <1>4 DEF Depth
<1>6. Begin(Depth)' = n + 1 /\ \A i : i = d + 1 => Base(i)' = Len(decl_list)
  BY <1>2, <1>3, <1>5 DEF Base, Begin
<1>7. ASSUME NEW i \in 0 .. d PROVE Base(i)' = Base(i)
  <2>1. CASE i = 0
    BY <2>1 DEF Base
  <2>2. CASE i \in 1 .. d
    BY <1>2, <1>3, <1>5, <2>2 DEF Base
  <2>3. QED
    BY <1>3, <2>1, <2>2
<1>8. \A i \in 0 .. d : \A k \in visible : AtLevel(k, i)' => AtLevel(k, i)
  <2> SUFFICES ASSUME NEW i \in 0 .. d, NEW k \in visible, AtLevel(k, i)'
               PROVE  AtLevel(k, i)
    OBVIOUS
  <2>1. k > Base(i) /\ (i < d + 1 => k <= Base(i + 1)')
    BY <1>5, <1>7 DEF AtLevel
  <2>2. i < d => i + 1 \in 0 .. d
    BY <1>3
  <2>3. QED
    BY <1>3, <1>7, <2>1, <2>2 DEF AtLevel
<1>9. \A i : \A k \in visible : i = d + 1 => ~AtLevel(k, i)'
  BY <1>3, <1>6 DEF AtLevel
<1>10. \A i \in 0 .. d + 1 : i \in 0 .. d \/ i = d + 1
  BY <1>3
<1>11. n % 2 = d % 2
  BY DEF OwnInv, Paired
<1>12. Paired'
  <2>1. (n + 1) % 2 = (d + 1) % 2
    BY <1>2, <1>3, <1>11, NextParity
  <2>2. QED
    BY <1>2, <1>5, <1>6, <2>1 DEF Paired
<1>13. LevelPlaces'
  <2> SUFFICES ASSUME NEW i \in 0 .. d, NEW k \in visible, AtLevel(k, i),
                      NEW j \in 2 .. n + 1,
                      cp_list'[j - 1].decl < k, k <= cp_list'[j].decl
               PROVE  j % 2 # i % 2
    BY <1>1, <1>2, <1>5, <1>8, <1>9, <1>10 DEF LevelPlaces, Between
  <2>1. CASE j \in 2 .. n
    <3>1. j \in 1 .. n /\ j - 1 \in 1 .. n
      BY <1>2, <2>1
    <3>2. Between(k, j)
      BY <1>2, <3>1 DEF Between
    <3>3. QED
      BY <2>1, <3>2 DEF OwnInv, LevelPlaces
  <2>2. CASE j = n + 1
    <3>1. n \in 1 .. n /\ cp_list[n].decl < k
      <4>1. n \in 1 .. n /\ j - 1 = n
        BY <1>2, <2>2
      <4>2. QED
        BY <1>2, <4>1
    <3>2. i = d
      <4> SUFFICES ASSUME i < d PROVE FALSE
        BY <1>3
      <4>1. i + 1 \in 1 .. d /\ i + 1 # 0 /\ k <= Base(i + 1)
        BY <1>3 DEF AtLevel
      <4>2. Base(i + 1) <= cp_list[n].decl
        BY <1>2, <1>3, <3>1, <4>1 DEF Base
      <4>3. Base(i + 1) \in Nat /\ cp_list[n].decl \in Nat /\ k \in Nat
        BY <1>3, <3>1, <4>1 DEF Base
      <4>4. QED
        BY <3>1, <4>1, <4>2, <4>3
    <3>3. QED
      BY <1>2, <1>3, <1>11, <2>2, <3>2, NextParity
  <2>3. QED
    BY <1>2, <2>1, <2>2
<1>14. LevelUnique'
  <2> SUFFICES ASSUME NEW i \in 0 .. d + 1, NEW j \in visible, NEW k \in visible,
                      j # k, AtLevel(j, i)', AtLevel(k, i)'
               PROVE  decl_list[j].name # decl_list[k].name
    BY <1>1, <1>5 DEF LevelUnique
  <2>1. i \in 0 .. d
    BY <1>9, <1>10
  <2>2. AtLevel(j, i) /\ AtLevel(k, i)
    BY <1>8, <2>1
  <2>3. QED
    BY <2>1, <2>2 DEF OwnInv, LevelUnique
<1>15. QED
  BY <1>1, <1>12, <1>13, <1>14, OwnNotSearching DEF OwnInv

\* A block ends: what was visible in it belongs to the block around it, which
\* sees the same declarations as before.
LEMMA OwnEnd ==
  ASSUME IInv, OwnInv, ~unpaired, EndBlock
  PROVE  OwnInv'
<1> DEFINE n == Len(cp_list)
           d == Depth
<1>1. /\ decl_list' = decl_list /\ func_list' = func_list /\ unpaired' = unpaired
      /\ search' = search /\ search'.at = "idle"
      /\ RecordCheckpoint("BLOCK_OPE_END")
      /\ opened # <<>> /\ visible' = opened[d].visible /\ opened' = SubSeq(opened, 1, d - 1)
  BY DEF EndBlock, Depth
<1>2. /\ n \in Nat /\ Len(cp_list') = n + 1 /\ cp_list'[n + 1].type = "BLOCK_OPE_END"
      /\ \A i \in 1 .. n : cp_list'[i] = cp_list[i]
  BY <1>1, Recorded
<1>3. /\ d \in Nat /\ visible \subseteq 1 .. Len(decl_list) /\ Len(decl_list) \in Nat
      /\ \A i \in 1 .. d : opened[i].cp \in 1 .. n
      /\ \A i \in 0 .. d : Base(i) \in Nat
      /\ \A i \in 1 .. n : cp_list[i].decl \in Nat
      /\ \A i, j \in 1 .. n : i <= j => cp_list[i].decl <= cp_list[j].decl
  BY LevelFacts
<1>4. d \in Nat \ {0} /\ Depth' = d - 1 /\ \A i \in 1 .. d - 1 : opened'[i] = opened[i]
  <2>1. opened \in Seq([visible : SUBSET Nat, cp : Nat])
    BY DEF IInv, ScopeTypeOK
  <2>2. d \in Nat \ {0} /\ d - 1 \in 0 .. d
    BY <1>1, <2>1 DEF Depth
  <2>3. opened' = [i \in 1 .. d - 1 |-> opened[i]]
    BY <1>1, <2>1, <2>2 DEF Depth
  <2>4. QED
    BY <2>2, <2>3 DEF Depth
<1>5. /\ n \in 1 .. n /\ Base(d) <= cp_list[n].decl
      /\ visible' = visible \cap (1 .. Base(d))
  <2>1. d \in 1 .. d /\ d # 0
    BY <1>4
  <2>2. opened[d].cp \in 1 .. n /\ Base(d) = cp_list[opened[d].cp].decl
    BY <1>3, <2>1 DEF Base
  <2>3. n \in 1 .. n /\ opened[d].cp <= n
    BY <1>2, <2>2
  <2>4. visible' = visible \cap (1 .. cp_list[opened[d].cp].decl)
    BY <1>1, <2>1 DEF IInv, OpenBlocks, Depth
  <2>5. QED
    BY <1>3, <2>2, <2>3, <2>4
<1>6. ASSUME NEW i \in 0 .. d - 1 PROVE Base(i)' = Base(i)
  <2>1. CASE i = 0
    BY <2>1 DEF Base
  <2>2. CASE i \in 1 .. d - 1
    <3>1. i \in 1 .. d
      BY <1>4, <2>2
    <3>2. QED
      BY <1>2, <1>3, <1>4, <2>2, <3>1 DEF Base
  <2>3. QED
    BY <1>4, <2>1, <2>2
<1>7. \A k \in visible' : k \in visible /\ k <= Base(d)
  BY <1>5
<1>8. \A i \in 0 .. d - 1 : \A k \in visible' : AtLevel(k, i)' => AtLevel(k, i)
  <2> SUFFICES ASSUME NEW i \in 0 .. d - 1, NEW k \in visible', AtLevel(k, i)'
               PROVE  AtLevel(k, i)
    OBVIOUS
  <2>1. k > Base(i) /\ (i < d - 1 => k <= Base(i + 1)')
    BY <1>4, <1>6 DEF AtLevel
  <2>2. CASE i < d - 1
    <3>1. i + 1 \in 0 .. d - 1
      BY <1>4, <2>2
    <3>2. QED
      BY <1>6, <2>1, <2>2, <3>1 DEF AtLevel
  <2>3. CASE i = d - 1
    <3>1. i + 1 = d
      BY <1>4, <2>3
    <3>2. QED
      BY <1>7, <2>1, <3>1 DEF AtLevel
  <2>4. QED
    BY <1>4, <2>2, <2>3
<1>9. 0 .. d - 1 \subseteq 0 .. d
  BY <1>4
<1>10. n % 2 = d % 2
  BY DEF OwnInv, Paired
<1>11. Paired'
  <2>1. (n + 1) % 2 = (d + 1) % 2
    BY <1>2, <1>3, <1>10, NextParity
  <2>. (d + 1) % 2 = (d - 1) % 2
    BY <1>4
  <2>2. IsEnd(cp_list'[n + 1])
    BY <1>2 DEF IsEnd
  <2>3. QED
    BY <1>2, <1>4, <2>1, <2>2 DEF Paired, IsEnd
<1>12. LevelPlaces'
  <2> SUFFICES ASSUME NEW i \in 0 .. d - 1, NEW k \in visible', AtLevel(k, i),
                      NEW j \in 2 .. n + 1,
                      cp_list'[j - 1].decl < k, k <= cp_list'[j].decl
               PROVE  j % 2 # i % 2
    BY <1>2, <1>4, <1>8 DEF LevelPlaces, Between
  <2>1. j # n + 1
    <3> SUFFICES ASSUME j = n + 1 PROVE FALSE
      OBVIOUS
    <3>1. j - 1 = n /\ cp_list'[n] = cp_list[n]
      BY <1>2, <1>5
    <3>2. cp_list[n].decl < k
      BY <3>1
    <3>3. cp_list[n].decl \in Nat /\ Base(d) \in Nat /\ k \in Nat /\ k <= Base(d)
      <4>1. d \in 0 .. d
        BY <1>3
      <4>2. QED
        BY <1>3, <1>5, <1>7, <4>1
    <3>4. QED
      BY <1>5, <3>2, <3>3
  <2>2. j \in 2 .. n /\ j \in 1 .. n /\ j - 1 \in 1 .. n
    BY <1>2, <2>1
  <2>3. Between(k, j)
    BY <1>2, <2>2 DEF Between
  <2>4. i \in 0 .. d /\ k \in visible
    BY <1>7, <1>9
  <2>5. QED
    BY <2>2, <2>3, <2>4 DEF OwnInv, LevelPlaces
<1>13. LevelUnique'
  <2> SUFFICES ASSUME NEW i \in 0 .. d - 1, NEW j \in visible', NEW k \in visible',
                      j # k, AtLevel(j, i)', AtLevel(k, i)'
               PROVE  decl_list[j].name # decl_list[k].name
    BY <1>1, <1>4 DEF LevelUnique
  <2>1. AtLevel(j, i) /\ AtLevel(k, i)
    BY <1>8
  <2>2. i \in 0 .. d /\ j \in visible /\ k \in visible
    BY <1>7, <1>9
  <2>3. QED
    BY <2>1, <2>2 DEF OwnInv, LevelUnique
<1>14. QED
  BY <1>1, <1>11, <1>12, <1>13, OwnNotSearching DEF OwnInv

-----------------------------------------------------------------------------
(* No block has two variables of one name.                                   *)

LEMMA OwnInit == ScopeInit => OwnInv
<1> SUFFICES ASSUME ScopeInit PROVE OwnInv
  OBVIOUS
<1>1. /\ cp_list = <<>> /\ opened = <<>> /\ visible = {} /\ search.at = "idle"
  BY DEF ScopeInit, Idle, Search
<1>2. Len(cp_list) = 0 /\ Depth = 0 /\ Begin(Depth) = 0
  BY <1>1 DEF Depth, Begin
<1>3. Paired
  BY <1>2 DEF Paired
<1>4. LevelPlaces /\ LevelUnique
  BY <1>1 DEF LevelPlaces, LevelUnique
<1>5. InnerWalk /\ OwnPassed /\ AbsentAtEnd
  BY <1>1 DEF InnerWalk, OwnPassed, AbsentAtEnd
<1>6. QED
  BY <1>3, <1>4, <1>5 DEF OwnInv

LEMMA OwnNext ==
  ASSUME IInv, OwnInv, ScopeNext
  PROVE  OwnInv'
<1>1. unpaired => unpaired'
  BY DEF ScopeNext, SearchStep, StartDeclSearch, SkipBlock, MatchDecl, PassDecl, DeclAbsent,
         StartFuncSearch, SkipFuncBlock, MatchFunc, PassFunc, FuncAbsent, Result, Return,
         ChainDeclaration, BeginBlock, EndBlock, EmptyBlock, listVars
<1>2. CASE unpaired
  BY <1>1, <1>2 DEF OwnInv
<1>3. CASE ~unpaired
  <2>1. CASE \E name \in Names : StartDeclSearch(name)
    BY <1>3, <2>1, OwnStart
  <2>2. CASE SkipBlock
    BY <1>3, <2>2, OwnSkip
  <2>3. CASE PassDecl
    BY <1>3, <2>3, OwnPass
  <2>4. CASE DeclAbsent
    BY <1>3, <2>4, OwnAbsent
  <2>5. CASE MatchDecl \/ SkipFuncBlock \/ MatchFunc \/ PassFunc \/ FuncAbsent
    <3>1. UNCHANGED listVars /\ search'.at \notin {"decl", "decl_absent"}
      BY <2>5, TypedLengths DEF MatchDecl, SkipFuncBlock, MatchFunc, PassFunc, FuncAbsent, Result
    <3>2. QED
      BY <1>3, <3>1, OwnOther
  <2>6. CASE StartFuncSearch \/ Return
    <3>1. UNCHANGED listVars /\ search'.at \notin {"decl", "decl_absent"}
      BY <2>6 DEF StartFuncSearch, Return, Idle, Search
    <3>2. QED
      BY <1>3, <3>1, OwnOther
  <2>7. CASE \E type \in DeclTypes : ChainDeclaration(type)
    BY <1>3, <2>7, OwnChain
  <2>8. CASE BeginBlock
    BY <1>3, <2>8, OwnBegin
  <2>9. CASE EndBlock
    BY <1>3, <2>9, OwnEnd
  <2>10. CASE EmptyBlock
    BY <2>10 DEF EmptyBlock, OwnInv
  <2>11. QED
    BY <2>1, <2>2, <2>3, <2>4, <2>5, <2>6, <2>7, <2>8, <2>9, <2>10 DEF ScopeNext, SearchStep
<1>4. QED
  BY <1>2, <1>3

LEMMA OwnStutters ==
  ASSUME OwnInv, UNCHANGED scopeVars
  PROVE  OwnInv'
<1>1. UNCHANGED listVars /\ search' = search
  BY DEF scopeVars, listVars
<1>2. InnerWalk' <=> InnerWalk
  BY <1>1, BlocksUnchanged DEF InnerWalk
<1>3. OwnPassed' <=> OwnPassed
  BY <1>1, BlocksUnchanged DEF OwnPassed
<1>4. AbsentAtEnd' <=> AbsentAtEnd
  BY <1>1 DEF AbsentAtEnd
<1>5. QED
  BY <1>1, <1>2, <1>3, <1>4, BlocksUnchanged DEF OwnInv

\* A declaration of the innermost block is one of its level.
LEMMA OwnBlockIsLevel ==
  ASSUME IInv, OwnInv
  PROVE  OwnBlockUnique
<1> SUFFICES ASSUME ~unpaired, NEW j \in visible, NEW k \in visible,
                    j # k, InOwnBlock(j), InOwnBlock(k)
             PROVE  decl_list[j].name # decl_list[k].name
  BY DEF OwnBlockUnique
<1>1. Depth \in 0 .. Depth /\ Depth \in Nat /\ visible \subseteq Nat \ {0} /\ Base(Depth) \in Nat
  BY LevelFacts
<1>2. ASSUME NEW p \in visible, InOwnBlock(p) PROVE AtLevel(p, Depth)
  <2>1. CASE Depth = 0
    BY <1>1, <2>1 DEF AtLevel, Base
  <2>2. CASE Depth # 0
    <3>1. Depth \in 1 .. Depth /\ opened # <<>>
      BY <1>1, <2>2 DEF Depth
    <3>2. opened[Depth].visible = visible \cap (1 .. Base(Depth))
      BY <2>2, <3>1 DEF IInv, OpenBlocks, Depth, Base
    <3>3. p \notin 1 .. Base(Depth)
      BY <1>2, <3>1, <3>2 DEF InOwnBlock, Depth
    <3>4. QED
      BY <1>1, <3>3 DEF AtLevel
  <2>3. QED
    BY <2>1, <2>2
<1>3. AtLevel(j, Depth) /\ AtLevel(k, Depth)
  BY <1>2
<1>4. QED
  BY <1>1, <1>3 DEF OwnInv, LevelUnique

\* No block gets two variables of one name, for every program without "{}" and
\* however its blocks nest (util.c:116-149, meanvisitor.c:523-543).
THEOREM OwnBlocksUnique == ScopeSpec => []OwnBlockUnique
<1>1. ScopeInit => OwnInv
  BY OwnInit
<1>2. IInv /\ OwnInv /\ [ScopeNext]_scopeVars => OwnInv'
  BY OwnNext, OwnStutters
<1>3. IInv /\ OwnInv => OwnBlockUnique
  BY OwnBlockIsLevel
<1>4. QED
  BY <1>1, <1>2, <1>3, IInvHolds, PTL DEF ScopeSpec

=============================================================================
