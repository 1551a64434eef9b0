------------------------------- MODULE Scope -------------------------------
(* The lists of comp/util.c by which the mean check knows what a name means: *)
(* declarations and checkpoints, chained while the statements are visited,   *)
(* the functions, all chained by the parser before, and the two searches     *)
(* that walk them backwards. A node is its position in its list, NULL is 0.  *)
(*                                                                           *)
(* Beside them, as a history, what the blocks of the language mean: the      *)
(* declarations that are visible, and for each block that is open the ones   *)
(* that were when it was opened.                                             *)
EXTENDS Integers, Sequences

CONSTANTS
  Names,      \* the identifiers
  DeclTypes,  \* the types a declaration may have
  FuncLists   \* the lists of functions the parser may have read

ASSUME FuncListsAssumption ==
  \A fs \in FuncLists : fs \in Seq([name : Names, type : DeclTypes, params : Seq(DeclTypes)])

VARIABLES
  decl_list,  \* the declarations, decl_list_tail is the last
  func_list,  \* the functions, func_list_tail is the last
  cp_list,    \* the checkpoints: [type, decl, fun], the tails when recorded
  search,     \* [at, name, list, cp]: a search and the nodes it looks at
  visible,    \* history: positions of the declarations that are in scope
  opened,     \* history: per open block, [visible, cp]: what was visible, its checkpoint
  unpaired    \* history: a block whose end is not recorded has been begun

scopeVars == <<decl_list, func_list, cp_list, search, visible, opened, unpaired>>
listVars == <<decl_list, func_list, cp_list, visible, opened, unpaired>>

Search(at, name, list, cp) == [at |-> at, name |-> name, list |-> list, cp |-> cp]
NoName == "none"
Idle == Search("idle", NoName, 0, 0)
Result(at) == search' = [search EXCEPT !.at = at] /\ UNCHANGED listVars

-----------------------------------------------------------------------------
(* cs_search_decl_in_block, one turn of its loop after the other.            *)

IsBegin(cp) == cp.type = "BLOCK_OPE_BEGIN"
IsEnd(cp)   == cp.type = "BLOCK_OPE_END"

\* The for loop before the search: back over the checkpoints of blocks that
\* have only begun.
LastEndOf(cps) ==
  IF \E i \in DOMAIN cps : IsEnd(cps[i])
  THEN CHOOSE i \in DOMAIN cps :
         IsEnd(cps[i]) /\ \A j \in i + 1 .. Len(cps) : IsBegin(cps[j])
  ELSE 0

\* Mutant of LastEnd: the search starts at the last checkpoint, whatever it is.
LastCheckpoint == Len(cp_list)
LastEnd == LastEndOf(cp_list)

StartDeclSearch(name) ==
  /\ search.at = "idle"
  /\ search' = Search("decl", name, Len(decl_list), LastEnd)
  /\ UNCHANGED listVars

\* The walk has reached the declarations of a block that is taken as closed.
AtBlock == search.cp # 0 /\ search.list = cp_list[search.cp].decl /\ search.cp # 1
\* cp_list->prev->prev
PrevPrev(i) == IF i > 2 THEN i - 2 ELSE 0

\* Mutants of SkipBlock: one link back instead of two; none.
SkipBlockOneBack ==
  /\ search.at = "decl" /\ search.list # 0 /\ AtBlock
  /\ search' = [search EXCEPT !.list = cp_list[search.cp - 1].decl, !.cp = @ - 1]
  /\ UNCHANGED listVars
SkipBlockForever ==
  /\ search.at = "decl" /\ search.list # 0 /\ AtBlock
  /\ search' = [search EXCEPT !.list = cp_list[search.cp - 1].decl]
  /\ UNCHANGED listVars

\* ... and is skipped, with the checkpoint before as its beginning.
SkipBlock ==
  /\ search.at = "decl" /\ search.list # 0 /\ AtBlock
  /\ search' = [search EXCEPT !.list = cp_list[search.cp - 1].decl, !.cp = PrevPrev(@)]
  /\ UNCHANGED listVars

MatchDecl ==
  /\ search.at = "decl" /\ search.list # 0 /\ ~AtBlock
  /\ decl_list[search.list].name = search.name
  /\ Result("decl_found")

\* Mutants of PassDecl: the next node; two nodes back, as among the checkpoints.
PassNextDecl ==
  /\ search.at = "decl" /\ search.list # 0 /\ ~AtBlock
  /\ decl_list[search.list].name # search.name
  /\ search' = [search EXCEPT !.list = @ + 1]
  /\ UNCHANGED listVars
PassTwoDecls ==
  /\ search.at = "decl" /\ search.list # 0 /\ ~AtBlock
  /\ decl_list[search.list].name # search.name
  /\ search' = [search EXCEPT !.list = @ - 2]
  /\ UNCHANGED listVars

PassDecl ==
  /\ search.at = "decl" /\ search.list # 0 /\ ~AtBlock
  /\ decl_list[search.list].name # search.name
  /\ search' = [search EXCEPT !.list = @ - 1]
  /\ UNCHANGED listVars

DeclAbsent == search.at = "decl" /\ search.list = 0 /\ Result("decl_absent")

-----------------------------------------------------------------------------
(* cs_search_func_in_block: the same walk over the functions, but nothing    *)
(* asks whether there is a checkpoint before the one it is at.               *)

StartFuncSearch ==
  /\ search.at = "decl_absent"
  /\ search' = Search("func", search.name, Len(func_list), LastEnd)
  /\ UNCHANGED listVars

AtFuncBlock == search.cp # 0 /\ search.list = cp_list[search.cp].fun

\* cp_list->prev is NULL and is dereferenced.
SkipFuncBlock ==
  /\ search.at = "func" /\ search.list # 0 /\ AtFuncBlock
  /\ search' = IF search.cp = 1 THEN [search EXCEPT !.at = "crash"]
               ELSE [search EXCEPT !.list = cp_list[search.cp - 1].fun, !.cp = PrevPrev(@)]
  /\ UNCHANGED listVars

MatchFunc ==
  /\ search.at = "func" /\ search.list # 0 /\ ~AtFuncBlock
  /\ func_list[search.list].name = search.name
  /\ Result("func_found")

PassFunc ==
  /\ search.at = "func" /\ search.list # 0 /\ ~AtFuncBlock
  /\ func_list[search.list].name # search.name
  /\ search' = [search EXCEPT !.list = @ - 1]
  /\ UNCHANGED listVars

FuncAbsent == search.at = "func" /\ search.list = 0 /\ Result("func_absent")

\* The caller has used the result.
Results == {"decl_found", "decl_absent", "func_found", "func_absent"}
Return == search.at \in Results /\ search' = Idle /\ UNCHANGED listVars

-----------------------------------------------------------------------------
(* What the visitor does to the lists.                                       *)

\* cs_chain_declaration, after enter_declstmt has found no such name.
ChainDeclaration(type) ==
  /\ search.at = "decl_absent"
  /\ decl_list' = Append(decl_list, [name |-> search.name, type |-> type])
  /\ visible' = visible \cup {Len(decl_list) + 1}
  /\ search' = Idle
  /\ UNCHANGED <<func_list, cp_list, opened, unpaired>>

\* cs_record_checkpoint
RecordCheckpoint(type) ==
  cp_list' = Append(cp_list, [type |-> type, decl |-> Len(decl_list), fun |-> Len(func_list)])

BeginBlock ==
  /\ search.at = "idle"
  /\ RecordCheckpoint("BLOCK_OPE_BEGIN")
  /\ opened' = Append(opened, [visible |-> visible, cp |-> Len(cp_list) + 1])
  /\ UNCHANGED <<decl_list, func_list, search, visible, unpaired>>

EndBlock ==
  /\ search.at = "idle" /\ opened # <<>>
  /\ RecordCheckpoint("BLOCK_OPE_END")
  /\ visible' = opened[Len(opened)].visible
  /\ opened' = SubSeq(opened, 1, Len(opened) - 1)
  /\ UNCHANGED <<decl_list, func_list, search, unpaired>>

\* "{}" is parsed to the beginning of a block and no end (csua.y:141-147).
EmptyBlock ==
  /\ search.at = "idle"
  /\ RecordCheckpoint("BLOCK_OPE_BEGIN")
  /\ unpaired' = TRUE
  /\ UNCHANGED <<decl_list, func_list, search, visible, opened>>

-----------------------------------------------------------------------------
ScopeInit ==
  /\ decl_list = <<>> /\ func_list \in FuncLists /\ cp_list = <<>>
  /\ search = Idle
  /\ visible = {} /\ opened = <<>> /\ unpaired = FALSE

SearchStep ==
  \/ SkipBlock \/ MatchDecl \/ PassDecl \/ DeclAbsent
  \/ SkipFuncBlock \/ MatchFunc \/ PassFunc \/ FuncAbsent

ScopeNext ==
  \/ \E name \in Names : StartDeclSearch(name)
  \/ SearchStep \/ StartFuncSearch \/ Return
  \/ \E type \in DeclTypes : ChainDeclaration(type)
  \/ BeginBlock \/ EndBlock \/ EmptyBlock

ScopeSpec == ScopeInit /\ [][ScopeNext]_scopeVars

-----------------------------------------------------------------------------
(* Properties.                                                               *)

Checkpoints == [type : {"BLOCK_OPE_BEGIN", "BLOCK_OPE_END"}, decl : Nat, fun : Nat]

ScopeTypeOK ==
  /\ decl_list \in Seq([name : Names, type : DeclTypes])
  /\ func_list \in FuncLists
  /\ cp_list \in Seq(Checkpoints)
  /\ search \in [at : {"idle", "decl", "func", "crash"} \cup Results,
                 name : Names \cup {NoName}, list : Nat, cp : Nat]
  /\ visible \subseteq 1 .. Len(decl_list)
  /\ opened \in Seq([visible : SUBSET Nat, cp : Nat])
  /\ unpaired \in BOOLEAN

\* Up to the last end of a block, the checkpoints are pairs of a beginning and
\* its end: no block has been closed inside another.
FlatUpTo(e, cps) ==
  e % 2 = 0 /\ \A i \in 1 .. e : IF i % 2 = 1 THEN IsBegin(cps[i]) ELSE IsEnd(cps[i])
Flat == FlatUpTo(LastEnd, cp_list)

\* The declaration a search ended at is in scope, and if it found none, no
\* declaration in scope has the name.
ResultInScope ==
  /\ search.at = "decl_found" => search.list \in visible
  /\ search.at = "decl_absent" => \A k \in visible : decl_list[k].name # search.name

\* The search is the scoping of the language while no block was closed inside
\* another: skipping checkpoints in pairs (util.c:129-140) leaves out exactly
\* the blocks that were closed.
ExactWhenFlat == Flat => ResultInScope

\* Position k was declared in the innermost open block, and not in one that
\* was closed within it.
InOwnBlock(k) ==
  k \in visible /\ (opened # <<>> => k \notin opened[Len(opened)].visible)

\* Whatever the nesting, a name declared in the innermost block is found there:
\* no block gets two variables of one name. (Without "{}", which shifts the
\* pairs even inside the block itself.)
OwnBlockUnique ==
  ~unpaired => \A j, k \in visible : j # k /\ InOwnBlock(j) /\ InOwnBlock(k)
                                     => decl_list[j].name # decl_list[k].name

\* The search for a function dereferences NULL exactly if there is a function
\* and the last block that ended is at an odd place among the checkpoints, as
\* it is inside an odd number of other blocks (util.c:179-190).
CrashesWhenOdd ==
  /\ search.at = "crash" => LastEndOf(cp_list) % 2 = 1 /\ func_list # <<>>
  /\ search.at \in {"func_found", "func_absent"} =>
       LastEndOf(cp_list) % 2 = 0 \/ func_list = <<>>

\* Every turn of a search moves back over declarations, functions or
\* checkpoints (util.c:128-147, 179-197).
SearchDescends ==
  [][search.at = search'.at /\ search.at \in {"decl", "func"}
       => search'.list + search'.cp < search.list + search.cp]_scopeVars

=============================================================================
