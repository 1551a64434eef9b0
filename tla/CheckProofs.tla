----------------------------- MODULE CheckProofs -----------------------------
(* The mean check, for all programs of any length: it uses the lists of      *)
(* util.c only as Scope does, so what holds of Scope holds of the check; its *)
(* blocks are those of the braces; and what it accepts is typed. Cgent does  *)
(* the same check, so this holds of the whole program; what that allocates   *)
(* and opens is given back, and code is generated only without errors.       *)
EXTENDS Cgent, ScopeProofs, SequenceTheorems

-----------------------------------------------------------------------------
(* The check implements Scope.                                               *)

LEMMA CheckKeepsScope ==
  ASSUME CheckNext
  PROVE  ScopeNext \/ UNCHANGED scopeVars
<1>1. CASE Parsed
  BY <1>1 DEF Parsed, ReadStatement, ReadIf, ReadBlock, ReadEmptyBlock,
       ReadClose, Close, Finish, AllRead, Arrive
<1>2. CASE EnterNode \/ LeaveNode \/ LeaveCall \/ LeaveIf \/ LeaveEndIf \/ SearchCrashes
  BY <1>2 DEF EnterNode, LeaveNode, LeaveCall, LeaveIf, LeaveEndIf, SearchCrashes
<1>3. CASE LeaveIdent \/ EnterDecl
  BY <1>3 DEF LeaveIdent, EnterDecl, ScopeNext
<1>4. CASE IdentIsVariable \/ IdentIsFunction \/ IdentUnknown \/ AlreadyDefined
  BY <1>4 DEF IdentIsVariable, IdentIsFunction, IdentUnknown, AlreadyDefined, ScopeNext
<1>5. CASE IdentNoVariable \/ Searching
  BY <1>5 DEF IdentNoVariable, Searching, ScopeNext
<1>6. CASE Declare
  BY <1>6 DEF Declare, ScopeNext
<1>7. CASE EnterBegin \/ EnterEmpty \/ EnterEnd
  BY <1>7 DEF EnterBegin, EnterEmpty, EnterEnd, ScopeNext
<1> QED
  BY <1>1, <1>2, <1>3, <1>4, <1>5, <1>6, <1>7 DEF CheckNext, Visit

\* The check uses the lists of declarations, functions and checkpoints only by
\* the operations of Scope, one at a time.
THEOREM CheckImplementsScope == CheckSpec => ScopeSpec
<1>1. CheckInit => ScopeInit
  BY DEF CheckInit
<1>2. [CheckNext]_meanVars => [ScopeNext]_scopeVars
  BY CheckKeepsScope DEF meanVars
<1> QED
  BY <1>1, <1>2, PTL DEF CheckSpec, ScopeSpec

-----------------------------------------------------------------------------
(* The blocks of the program are those of its braces. What the traversal has *)
(* yet to call are nodes of trees, but for one mark of a block: behind the   *)
(* condition of an if statement, before the end of one, or alone.            *)

BlockKinds == {"block_begin", "block_empty", "block_end"}
LeafKinds   == {"boolean", "int", "double", "ident"}
BinaryKinds == ArithKinds \cup OrderKinds \cup EqualKinds \cup LogicalKinds \cup AssignedKinds
UnaryKinds  == StepKinds \cup {"minus", "lognot"}

\* The trees the grammar derives, Exprs being those of expressions.
Grammar(Exprs) ==
  /\ \A t \in Exprs :
       /\ t.kids \in Seq(Exprs)
       /\ \/ t.kind \in LeafKinds /\ Len(t.kids) = 0
          \/ t.kind \in BinaryKinds /\ Len(t.kids) = 2
          \/ t.kind \in UnaryKinds /\ Len(t.kids) = 1
          \/ t.kind = "call" /\ Len(t.kids) >= 1
  /\ \A s \in Statements :
       /\ s.kids \in Seq(Exprs)
       /\ \/ s.kind = "exprstmt" /\ Len(s.kids) = 1
          \/ s.kind = "declstmt" /\ Len(s.kids) <= 1 /\ s.type \in DeclTypes
  /\ Conditions \subseteq Exprs
  /\ "none" \notin DeclTypes

IfEnters == {Tree("ifenter", NoName, "none", <<c>>) : c \in Conditions}
EndIf == Tree("ifleave", NoName, "none", <<>>)
Trees(Exprs) == Exprs \cup Statements \cup IfEnters \cup {EndIf}
Calls(Exprs) == {Enter(t) : t \in Trees(Exprs)} \cup {Leave(t) : t \in Trees(Exprs)}

Pending(Exprs) ==
  \/ todo \in Seq(Calls(Exprs)) /\ Len(opened) = Len(parser.nest)
  \/ \E s \in Seq(Calls(Exprs)) :
       todo = Append(s, Mark("block_begin")) /\ Len(opened) + 1 = Len(parser.nest)
  \/ \E s \in Seq(Calls(Exprs)) :
       todo = <<Mark("block_end")>> \o s /\ Len(opened) = Len(parser.nest) + 1
  \/ todo = <<Mark("block_empty")>> /\ Len(opened) = Len(parser.nest)

NestOK == parser \in [nest : Seq({"if", "block"}), fresh : BOOLEAN, left : Int, funcs : Int]

LEMMA TreeShape ==
  ASSUME NEW Exprs, Grammar(Exprs), NEW t \in Trees(Exprs)
  PROVE  /\ t.kind \notin BlockKinds /\ t.kids \in Seq(Exprs) /\ t.kids \in Seq(Trees(Exprs))
         /\ t.kind \in AssignedKinds => Len(t.kids) = 2
<1>1. CASE t \in Exprs
  BY <1>1, SeqMonotonic DEF Grammar, Trees, LeafKinds, BinaryKinds, UnaryKinds, BlockKinds,
     ArithKinds, OrderKinds, EqualKinds, LogicalKinds, StepKinds, AssignedKinds
<1>2. CASE t \in Statements
  BY <1>2, SeqMonotonic DEF Grammar, Trees, BlockKinds, AssignedKinds
<1>3. CASE t \in IfEnters
  <2>1. PICK c \in Conditions : t = Tree("ifenter", NoName, "none", <<c>>)
    BY <1>3 DEF IfEnters
  <2>2. c \in Exprs /\ c \in Trees(Exprs) /\ t.kind = "ifenter" /\ t.kids = <<c>>
    BY <2>1 DEF Grammar, Trees, Tree
  <2> QED
    BY <2>2 DEF BlockKinds, AssignedKinds
<1>4. CASE t = EndIf
  BY <1>4 DEF EndIf, Tree, BlockKinds, AssignedKinds
<1> QED
  BY <1>1, <1>2, <1>3, <1>4 DEF Trees

\* What is called for a node are calls for its children.
LEMMA VisitsShape ==
  ASSUME NEW Exprs, Grammar(Exprs), NEW t \in Trees(Exprs)
  PROVE  Visits(t) \in Seq(Calls(Exprs))
<1>1. t.kids \in Seq(Trees(Exprs)) /\ (t.kind \in AssignedKinds => Len(t.kids) = 2)
  BY TreeShape
<1>2. \A u \in Trees(Exprs) : Enter(u) \in Calls(Exprs) /\ Leave(u) \in Calls(Exprs)
  BY DEF Calls
<1> DEFINE swapped == <<Enter(t.kids[2]), Enter(t.kids[1])>>
           inOrder == [i \in DOMAIN t.kids |-> Enter(t.kids[i])]
<1>3. t.kind \in AssignedKinds => swapped \in Seq(Calls(Exprs))
  <2> SUFFICES ASSUME t.kind \in AssignedKinds
               PROVE  swapped \in Seq(Calls(Exprs))
    OBVIOUS
  <2>. Len(t.kids) = 2
    BY <1>1
  <2>1. 1 \in 1 .. Len(t.kids) /\ 2 \in 1 .. Len(t.kids)
    OBVIOUS
  <2>2. t.kids[1] \in Trees(Exprs) /\ t.kids[2] \in Trees(Exprs)
    BY <1>1, <2>1, ElementOfSeq
  <2>3. Enter(t.kids[1]) \in Calls(Exprs) /\ Enter(t.kids[2]) \in Calls(Exprs)
    BY <1>2, <2>2
  <2> QED
    BY <2>3
<1>4. inOrder \in Seq(Calls(Exprs))
  <2>1. DOMAIN t.kids = 1 .. Len(t.kids) /\ Len(t.kids) \in Nat
    BY <1>1, LenProperties
  <2>2. \A i \in 1 .. Len(t.kids) : Enter(t.kids[i]) \in Calls(Exprs)
    BY <1>1, <1>2, ElementOfSeq
  <2>3. inOrder \in [1 .. Len(t.kids) -> Calls(Exprs)]
    BY <2>1, <2>2
  <2> QED
    BY <2>1, <2>3, SeqDef
<1>5. <<Leave(t)>> \in Seq(Calls(Exprs))
  BY <1>2
<1> HIDE DEF swapped, inOrder
<1>6. /\ t.kind \in AssignedKinds => swapped \o <<Leave(t)>> \in Seq(Calls(Exprs))
      /\ inOrder \o <<Leave(t)>> \in Seq(Calls(Exprs))
  BY <1>3, <1>4, <1>5, ConcatProperties
<1> QED
  BY <1>6 DEF Visits, swapped, inOrder

\* The head of what is pending is a node, or the mark of a block.
LEMMA HeadIsCall ==
  ASSUME NEW Exprs, Grammar(Exprs), Pending(Exprs), todo # <<>>
  PROVE  \/ Head(todo) \in Calls(Exprs) /\ Cur \in Trees(Exprs) /\ Cur.kind \notin BlockKinds
         \/ Head(todo) \in {Mark(k) : k \in BlockKinds}
<1>1. ASSUME Head(todo) \in Calls(Exprs)
      PROVE  Cur \in Trees(Exprs) /\ Cur.kind \notin BlockKinds
  <2>1. Cur \in Trees(Exprs)
    BY <1>1 DEF Calls, Enter, Leave, Cur
  <2> QED
    BY <2>1, TreeShape
<1>2. ASSUME todo \in Seq(Calls(Exprs)) PROVE Head(todo) \in Calls(Exprs)
  BY <1>2, HeadTailProperties
<1>3. ASSUME NEW s \in Seq(Calls(Exprs)), todo = Append(s, Mark("block_begin"))
      PROVE  Head(todo) \in Calls(Exprs) \/ Head(todo) = Mark("block_begin")
  BY <1>3, HeadTailAppend, HeadTailProperties
<1>4. ASSUME NEW s \in Seq(Calls(Exprs)), todo = <<Mark("block_end")>> \o s
      PROVE  Head(todo) = Mark("block_end")
  BY <1>4
<1> QED
  BY <1>1, <1>2, <1>3, <1>4 DEF Pending, BlockKinds

\* A handler of a node: the calls x take the place of its own.
LEMMA NodeHandled ==
  ASSUME NEW Exprs, Grammar(Exprs), Pending(Exprs), todo # <<>>,
         Cur.kind \notin BlockKinds \/ Head(todo).call = "leave",
         NEW x \in Seq(Calls(Exprs)), todo' = x \o Tail(todo),
         opened' = opened, parser' = parser
  PROVE  Pending(Exprs)'
<1> DEFINE S == Calls(Exprs)
<1>1. \A k \in BlockKinds : Mark(k).call = "enter" /\ Mark(k).tree.kind = k
  BY DEF Mark, Enter, Tree
<1>2. \A k \in BlockKinds : Head(todo) # Mark(k)
  BY <1>1 DEF Cur
<1> HIDE DEF S
<1>3. CASE todo \in Seq(S) /\ Len(opened) = Len(parser.nest)
  <2>1. Tail(todo) \in Seq(S)
    BY <1>3, HeadTailProperties
  <2>2. todo' \in Seq(S)
    BY <2>1, ConcatProperties DEF S
  <2> QED
    BY <1>3, <2>2 DEF Pending, S
<1>4. CASE \E s \in Seq(S) : todo = Append(s, Mark("block_begin"))
                             /\ Len(opened) + 1 = Len(parser.nest)
  <2>1. PICK s \in Seq(S) : todo = Append(s, Mark("block_begin"))
                            /\ Len(opened) + 1 = Len(parser.nest)
    BY <1>4
  <2> DEFINE m == Mark("block_begin")
             T == S \cup {m}
  <2>2. s # <<>>
    BY <1>2, <2>1, HeadTailAppend DEF BlockKinds
  <2>3. Tail(todo) = Append(Tail(s), m) /\ Tail(s) \in Seq(S)
    BY <2>1, <2>2, HeadTailAppend, HeadTailProperties
  <2> HIDE DEF m
  <2>4. x \in Seq(T) /\ Tail(s) \in Seq(T) /\ <<m>> \in Seq(T) /\ m \in T
    <3>1. S \subseteq T /\ x \in Seq(S)
      BY DEF S
    <3> QED
      BY <2>3, <3>1, SeqMonotonic
  <2>5. x \o Tail(s) \in Seq(S) /\ x \o Tail(s) \in Seq(T)
    BY <2>3, <2>4, ConcatProperties DEF S
  <2>6. x \o Append(Tail(s), m) = Append(x \o Tail(s), m)
    <3>1. Append(Tail(s), m) = Tail(s) \o <<m>>
      BY <2>4, AppendIsConcat
    <3>2. Append(x \o Tail(s), m) = (x \o Tail(s)) \o <<m>>
      BY <2>4, <2>5, AppendIsConcat
    <3>3. (x \o Tail(s)) \o <<m>> = x \o (Tail(s) \o <<m>>)
      BY <2>4, ConcatAssociative
    <3> QED
      BY <3>1, <3>2, <3>3
  <2>7. todo' = Append(x \o Tail(s), m)
    BY <2>3, <2>6
  <2> QED
    BY <2>1, <2>5, <2>7 DEF Pending, S, m
<1>5. CASE \E s \in Seq(S) : todo = <<Mark("block_end")>> \o s
  <2>1. Head(todo) = Mark("block_end")
    BY <1>5
  <2> QED
    BY <1>2, <2>1 DEF BlockKinds
<1>6. CASE todo = <<Mark("block_empty")>>
  BY <1>2, <1>6 DEF BlockKinds
<1> QED
  BY <1>3, <1>4, <1>5, <1>6 DEF Pending, S

LEMMA ReadNest ==
  ASSUME NestOK, NEW nest \in Seq({"if", "block"}), NEW fresh \in BOOLEAN, Read(nest, fresh)
  PROVE  NestOK' /\ parser'.nest = nest
<1>1. parser.left \in Int /\ parser.funcs \in Int
  BY DEF NestOK
<1>2. DOMAIN parser = {"nest", "fresh", "left", "funcs"}
  BY DEF NestOK
<1>3. parser' = [nest |-> nest, fresh |-> fresh, left |-> parser.left - 1, funcs |-> parser.funcs]
  BY <1>2 DEF Read, NestOK
<1>4. parser.left - 1 \in Int
  BY <1>1
<1> QED
  BY <1>1, <1>3, <1>4 DEF NestOK

\* A statement is read only when nothing is pending.
LEMMA StatementRead ==
  ASSUME NEW Exprs, Grammar(Exprs), Pending(Exprs), NestOK, Parsed
  PROVE  Pending(Exprs)' /\ NestOK'
<1> DEFINE S == Calls(Exprs)
<1>1. opened' = opened /\ todo = <<>> /\ parser.nest \in Seq({"if", "block"})
  BY DEF Parsed, ReadStatement, ReadIf, ReadBlock, ReadEmptyBlock, ReadClose, Close, Finish, AllRead, Read,
         AtStatement, Arrive, scopeVars, NestOK
<1>2. Len(opened) = Len(parser.nest)
  <2>1. \A s \in Seq(S) : Append(s, Mark("block_begin")) # <<>>
    OBVIOUS
  <2>2. \A s \in Seq(S) : <<Mark("block_end")>> \o s # <<>>
    OBVIOUS
  <2> QED
    BY <1>1, <2>1, <2>2 DEF Pending
<1>3. \A t \in Trees(Exprs) : Enter(t) \in S
  BY DEF Calls
<1>4. CASE ReadStatement
  <2>1. PICK s \in Statements : todo' = <<Enter(s)>>
    BY <1>4 DEF ReadStatement, Arrive
  <2>2. Enter(s) \in S
    BY <1>3 DEF Grammar, Trees
  <2>3. todo' \in Seq(S)
    BY <2>1, <2>2
  <2>4. parser'.nest = parser.nest /\ NestOK'
    BY <1>1, <1>4, ReadNest DEF ReadStatement
  <2> QED
    BY <1>1, <1>2, <2>3, <2>4 DEF Pending
<1>5. CASE ReadIf
  <2>1. PICK c \in Conditions :
          todo' = <<Enter(Tree("ifenter", NoName, "none", <<c>>)), Mark("block_begin")>>
    BY <1>5 DEF ReadIf, Arrive
  <2> DEFINE call == Enter(Tree("ifenter", NoName, "none", <<c>>))
  <2>2. call \in S
    BY <1>3 DEF Trees, IfEnters
  <2> HIDE DEF call
  <2>3. <<call>> \in Seq(S) /\ todo' = Append(<<call>>, Mark("block_begin"))
    BY <2>1, <2>2 DEF call
  <2>4. parser'.nest = Append(parser.nest, "if") /\ NestOK'
    <3>1. Append(parser.nest, "if") \in Seq({"if", "block"})
      BY <1>1
    <3>2. Read(Append(parser.nest, "if"), FALSE)
      BY <1>5 DEF ReadIf
    <3> QED
      BY <3>1, <3>2, ReadNest
  <2>5. Len(parser'.nest) = Len(parser.nest) + 1
    BY <1>1, <2>4
  <2> QED
    BY <1>1, <1>2, <2>3, <2>4, <2>5 DEF Pending
<1>6. CASE ReadBlock
  <2>1. <<>> \in Seq(S) /\ todo' = Append(<<>>, Mark("block_begin"))
    BY <1>6 DEF ReadBlock, Arrive
  <2>2. parser'.nest = Append(parser.nest, "block") /\ NestOK'
    <3>1. Append(parser.nest, "block") \in Seq({"if", "block"})
      BY <1>1
    <3>2. Read(Append(parser.nest, "block"), TRUE)
      BY <1>6 DEF ReadBlock
    <3> QED
      BY <3>1, <3>2, ReadNest
  <2>3. Len(parser'.nest) = Len(parser.nest) + 1
    BY <1>1, <2>2
  <2> QED
    BY <1>1, <1>2, <2>1, <2>2, <2>3 DEF Pending
<1>7. CASE ReadEmptyBlock
  <2>1. todo' = <<Mark("block_empty")>> /\ parser'.nest = parser.nest /\ NestOK'
    BY <1>1, <1>7, ReadNest DEF ReadEmptyBlock, Arrive
  <2> QED
    BY <1>1, <1>2, <2>1 DEF Pending
<1>8. CASE ReadClose
  <2>1. parser'.nest = Front(parser.nest) /\ parser.nest # <<>>
        /\ parser' = [nest |-> Front(parser.nest), fresh |-> FALSE, left |-> parser.left,
                       funcs |-> IF parser.fresh THEN parser.funcs - 1 ELSE parser.funcs]
    BY <1>8 DEF ReadClose, Close, NestOK
  <2>2. Front(parser.nest) \in Seq({"if", "block"})
        /\ Len(parser.nest) = Len(Front(parser.nest)) + 1
    BY <1>1, <2>1 DEF Front
  <2>3. NestOK' /\ Len(opened') = Len(parser'.nest) + 1
    BY <1>1, <1>2, <2>1, <2>2 DEF NestOK
  <2>4. Mark("ifleave") \in S
    BY <1>3 DEF Trees, Mark, EndIf
  <2>5. \/ todo' = <<Mark("block_end")>> \o <<Mark("ifleave")>>
        \/ todo' = <<Mark("block_end")>> \o <<>>
    BY <1>8 DEF ReadClose, Arrive
  <2>6. <<Mark("ifleave")>> \in Seq(S) /\ <<>> \in Seq(S)
    BY <2>4
  <2> QED
    BY <2>3, <2>5, <2>6 DEF Pending
<1>9. CASE Finish
  <2>1. todo' = todo /\ parser' = parser
    BY <1>9 DEF Finish
  <2> QED
    BY <1>1, <2>1 DEF Pending, NestOK
<1> QED
  BY <1>4, <1>5, <1>6, <1>7, <1>8, <1>9 DEF Parsed

LEMMA OneLess ==
  ASSUME NEW R, NEW s \in Seq(R), s # <<>>
  PROVE  Len(SubSeq(s, 1, Len(s) - 1)) = Len(s) - 1
<1>1. Len(s) \in Nat \ {0}
  BY EmptySeq
<1>2. \A i \in 1 .. Len(s) - 1 : i \in 1 .. Len(s)
  BY <1>1
<1>3. \A i \in 1 .. Len(s) - 1 : s[i] \in R
  BY <1>2, ElementOfSeq
<1> DEFINE n == Len(s) - 1
<1>4. n \in Nat /\ 1 \in Int /\ n \in Int
  BY <1>1
<1> HIDE DEF n
<1>5. Len(SubSeq(s, 1, n)) = IF 1 <= n THEN n - 1 + 1 ELSE 0
  BY <1>3, <1>4, SubSeqProperties DEF n
<1>6. Len(SubSeq(s, 1, n)) = n
  BY <1>4, <1>5
<1> QED
  BY <1>6 DEF n

\* The handler of a block meets its mark, and what is open grows or shrinks.
LEMMA BlockHandled ==
  ASSUME NEW Exprs, Grammar(Exprs), Pending(Exprs), NestOK, ScopeTypeOK,
         EnterBegin \/ EnterEmpty \/ EnterEnd
  PROVE  Pending(Exprs)' /\ NestOK'
<1> DEFINE S == Calls(Exprs)
<1>1. /\ todo # <<>> /\ todo' = Tail(todo) /\ parser' = parser
      /\ Head(todo) \notin S
  <2>1. todo # <<>> /\ todo' = Tail(todo) /\ parser' = parser /\ Cur.kind \in BlockKinds
    BY DEF EnterBegin, EnterEmpty, EnterEnd, Entering, Cur, Taken, BlockKinds
  <2>2. ASSUME Head(todo) \in S PROVE FALSE
    <3>1. Cur \in Trees(Exprs)
      BY <2>2 DEF Calls, Enter, Leave, Cur
    <3> QED
      BY <2>1, <3>1, TreeShape
  <2> QED
    BY <2>1, <2>2
<1>2. opened \in Seq([visible : SUBSET Nat, cp : Nat])
  BY DEF ScopeTypeOK
<1>3. \A k : Mark(k).tree.kind = k
  BY DEF Mark, Enter, Tree
<1>4. CASE EnterBegin
  <2>1. Head(todo).tree.kind = "block_begin" /\ Len(opened') = Len(opened) + 1
    BY <1>2, <1>4 DEF EnterBegin, Entering, BeginBlock
  <2>2. /\ todo \notin Seq(S)
        /\ \A s \in Seq(S) : todo # <<Mark("block_end")>> \o s
        /\ todo # <<Mark("block_empty")>>
    <3>1. todo \notin Seq(S)
      BY <1>1, HeadTailProperties
    <3>2. \A s \in Seq(S) : todo # <<Mark("block_end")>> \o s
      <4>1. \A s \in Seq(S) : Head(<<Mark("block_end")>> \o s) = Mark("block_end")
        OBVIOUS
      <4> QED
        BY <1>3, <2>1, <4>1
    <3>3. todo # <<Mark("block_empty")>>
      BY <1>3, <2>1
    <3> QED
      BY <3>1, <3>2, <3>3
  <2>3. PICK s \in Seq(S) : todo = Append(s, Mark("block_begin"))
                            /\ Len(opened) + 1 = Len(parser.nest)
    BY <2>2 DEF Pending
  <2>4. s = <<>>
    BY <1>1, <2>3, HeadTailAppend, HeadTailProperties
  <2>5. todo' = <<>> /\ todo' \in Seq(S)
    BY <1>1, <2>3, <2>4, HeadTailAppend
  <2> QED
    BY <1>1, <2>1, <2>3, <2>5 DEF Pending, NestOK
<1>5. CASE EnterEmpty
  <2>1. Head(todo).tree.kind = "block_empty" /\ opened' = opened
    BY <1>5 DEF EnterEmpty, Entering, EmptyBlock
  <2>2. todo = <<Mark("block_empty")>> /\ Len(opened) = Len(parser.nest)
    <3>1. todo \notin Seq(S)
      BY <1>1, HeadTailProperties
    <3>2. \A s \in Seq(S) : todo # <<Mark("block_end")>> \o s
      <4>1. \A s \in Seq(S) : Head(<<Mark("block_end")>> \o s) = Mark("block_end")
        OBVIOUS
      <4> QED
        BY <1>3, <2>1, <4>1
    <3>3. \A s \in Seq(S) : todo # Append(s, Mark("block_begin"))
      <4> SUFFICES ASSUME NEW s \in Seq(S), todo = Append(s, Mark("block_begin")) PROVE FALSE
        OBVIOUS
      <4>1. Head(todo) = IF s = <<>> THEN Mark("block_begin") ELSE Head(s)
        BY HeadTailAppend
      <4>2. s # <<>> => Head(s) \in S
        BY HeadTailProperties
      <4> QED
        BY <1>1, <1>3, <2>1, <4>1, <4>2
    <3> QED
      BY <3>1, <3>2, <3>3 DEF Pending
  <2>3. todo' \in Seq(S)
    BY <1>1, <2>2
  <2> QED
    BY <1>1, <2>1, <2>2, <2>3 DEF Pending, NestOK
<1>6. CASE EnterEnd
  <2>1. Head(todo).tree.kind = "block_end" /\ opened # <<>>
        /\ opened' = SubSeq(opened, 1, Len(opened) - 1)
    BY <1>6 DEF EnterEnd, Entering, EndBlock
  <2>2. Len(opened') = Len(opened) - 1
    BY <1>2, <2>1, OneLess
  <2>3. PICK s \in Seq(S) : todo = <<Mark("block_end")>> \o s
                            /\ Len(opened) = Len(parser.nest) + 1
    <3>1. todo \notin Seq(S)
      BY <1>1, HeadTailProperties
    <3>2. todo # <<Mark("block_empty")>>
      BY <1>3, <2>1
    <3>3. \A s \in Seq(S) : todo # Append(s, Mark("block_begin"))
      <4> SUFFICES ASSUME NEW s \in Seq(S), todo = Append(s, Mark("block_begin")) PROVE FALSE
        OBVIOUS
      <4>1. Head(todo) = IF s = <<>> THEN Mark("block_begin") ELSE Head(s)
        BY HeadTailAppend
      <4>2. s # <<>> => Head(s) \in S
        BY HeadTailProperties
      <4> QED
        BY <1>1, <1>3, <2>1, <4>1, <4>2
    <3> QED
      BY <3>1, <3>2, <3>3 DEF Pending
  <2>4. Tail(<<Mark("block_end")>> \o s) = s
    <3> DEFINE T == S \cup {Mark("block_end")}
               u == <<Mark("block_end")>> \o s
    <3>1. s \in Seq(T) /\ <<Mark("block_end")>> \in Seq(T)
      <4>1. s \in Seq(T)
        BY SeqMonotonic
      <4> QED
        BY <4>1
    <3>2. /\ u \in Seq(T) /\ Len(u) = 1 + Len(s) /\ Len(s) \in Nat
          /\ \A i \in 1 .. 1 + Len(s) : u[i] = IF i <= 1 THEN Mark("block_end") ELSE s[i - 1]
      BY <3>1, ConcatProperties
    <3> HIDE DEF u, T
    <3>3. Tail(u) \in Seq(T) /\ Len(Tail(u)) = Len(s) /\ \A i \in 1 .. Len(s) : Tail(u)[i] = s[i]
      <4>1. u # <<>>
        BY <3>2
      <4> QED
        BY <3>2, <4>1, HeadTailProperties
    <3> QED
      BY <3>1, <3>3, SeqEqual DEF u
  <2>5. todo' = s
    BY <1>1, <2>3, <2>4
  <2>6. Len(opened') = Len(parser.nest)
    <3>1. parser.nest \in Seq({"if", "block"})
      BY DEF NestOK
    <3> QED
      BY <2>2, <2>3, <3>1
  <2> QED
    BY <1>1, <2>5, <2>6 DEF Pending, NestOK
<1> QED
  BY <1>4, <1>5, <1>6

\* What a visit does to the calls that are pending: nothing, or the handler of
\* a node has been called, or that of a block.
LEMMA VisitShape ==
  ASSUME NEW Exprs, Grammar(Exprs), Pending(Exprs), NestOK, ScopeTypeOK, Visit
  PROVE  Pending(Exprs)' /\ NestOK'
<1>1. CASE EnterBegin \/ EnterEmpty \/ EnterEnd
  BY <1>1, BlockHandled
<1>2. CASE EnterNode \/ AlreadyDefined \/ Declare
  <2>1. /\ todo # <<>> /\ Head(todo).call = "enter" /\ todo' = Visits(Cur) \o Tail(todo)
        /\ Cur.kind \notin BlockKinds /\ parser' = parser /\ opened' = opened
    BY <1>2 DEF EnterNode, AlreadyDefined, Declare, DeclEntered, Entering, Running, Return,
       ChainDeclaration, scopeVars, listVars, BlockKinds, Cur
  <2>2. Cur \in Trees(Exprs)
    <3>1. \A k \in BlockKinds : Mark(k).tree.kind = k
      BY DEF Mark, Enter, Tree
    <3> QED
      BY <2>1, <3>1, HeadIsCall DEF Cur
  <2>3. Visits(Cur) \in Seq(Calls(Exprs))
    BY <2>2, VisitsShape
  <2> QED
    BY <2>1, <2>3, NodeHandled DEF NestOK
<1>3. CASE LeaveNode \/ IdentIsVariable \/ IdentIsFunction \/ IdentUnknown \/ LeaveEndIf
           \/ (LeaveCall /\ todo' = Tail(todo)) \/ (LeaveIf /\ todo' = Tail(todo))
  <2>1. todo # <<>> /\ Head(todo).call = "leave" /\ todo' = Tail(todo)
        /\ parser' = parser /\ opened' = opened
    BY <1>3 DEF LeaveNode, IdentIsVariable, IdentIsFunction, IdentUnknown, LeaveEndIf,
       LeaveCall, LeaveIf, Leaving, Left, Running, Stop, Return, scopeVars, listVars
  <2>2. Tail(todo) = <<>> \o Tail(todo) /\ <<>> \in Seq(Calls(Exprs))
    OBVIOUS
  <2> QED
    BY <2>1, <2>2, NodeHandled DEF NestOK
<1>4. CASE LeaveIdent \/ IdentNoVariable \/ Searching \/ SearchCrashes \/ EnterDecl
           \/ (LeaveCall /\ todo' = todo) \/ (LeaveIf /\ todo' = todo)
  <2>1. todo' = todo /\ parser' = parser /\ opened' = opened
    BY <1>4 DEF LeaveIdent, IdentNoVariable, Searching, SearchCrashes, EnterDecl, LeaveCall,
       LeaveIf, Left, Running, Stop, StartDeclSearch, StartFuncSearch, SearchStep, SkipBlock,
       MatchDecl, PassDecl, DeclAbsent, SkipFuncBlock, MatchFunc, PassFunc, FuncAbsent, Result,
       scopeVars, listVars, checkVars
  <2> QED
    BY <2>1 DEF Pending, NestOK
<1>5. LeaveCall \/ LeaveIf => todo' = todo \/ todo' = Tail(todo)
  BY DEF LeaveCall, LeaveIf, Left, Stop
<1> QED
  BY <1>1, <1>2, <1>3, <1>4, <1>5 DEF Visit

LEMMA BraceInit ==
  ASSUME NEW Exprs, CheckInit
  PROVE  Pending(Exprs) /\ NestOK
<1>1. /\ todo = <<>> /\ opened = <<>>
      /\ parser = [nest |-> <<>>, fresh |-> FALSE, left |-> MaxGroups, funcs |-> Len(func_list)]
  BY DEF CheckInit, ScopeInit
<1>2. Len(func_list) \in Int
  BY FuncListsAssumption DEF CheckInit, ScopeInit
<1> QED
  BY <1>1, <1>2, MaxGroupsAssumption DEF Pending, NestOK

LEMMA BraceNext ==
  ASSUME NEW Exprs, Grammar(Exprs), Pending(Exprs), NestOK, ScopeTypeOK,
         [CheckNext]_meanVars
  PROVE  Pending(Exprs)' /\ NestOK'
<1>1. CASE CheckNext
  BY <1>1, StatementRead, VisitShape DEF CheckNext
<1>2. CASE UNCHANGED meanVars
  <2>1. todo' = todo /\ parser' = parser /\ opened' = opened
    BY <1>2 DEF meanVars, scopeVars, checkVars
  <2> QED
    BY <2>1 DEF Pending, NestOK
<1> QED
  BY <1>1, <1>2

LEMMA PendingBalanced ==
  ASSUME NEW Exprs, Pending(Exprs)
  PROVE  BracesAreBlocks
<1>1. \A s \in Seq(Calls(Exprs)) : Append(s, Mark("block_begin")) # <<>>
  OBVIOUS
<1>2. \A s \in Seq(Calls(Exprs)) : <<Mark("block_end")>> \o s # <<>>
  OBVIOUS
<1> QED
  BY <1>1, <1>2 DEF Pending, BracesAreBlocks

\* Between statements as many blocks are open as braces, whatever statements
\* and conditions the grammar derives: the end of a block, of an if statement
\* too, is chained exactly where one was begun (csua.y:108-166).
THEOREM BracesMatchBlocks ==
  ASSUME NEW CONSTANT Exprs, Grammar(Exprs)
  PROVE  CheckSpec => []BracesAreBlocks
<1>1. CheckInit => Pending(Exprs) /\ NestOK
  BY BraceInit
<1>2. Pending(Exprs) /\ NestOK /\ ScopeTypeOK /\ [CheckNext]_meanVars => (Pending(Exprs) /\ NestOK)'
  BY BraceNext
<1>3. Pending(Exprs) => BracesAreBlocks
  BY PendingBalanced
<1> QED
  BY <1>1, <1>2, <1>3, CheckImplementsScope, ScopeTypes, PTL DEF CheckSpec

-----------------------------------------------------------------------------
(* An accepted prefix of a program is typed. What the handlers have left in  *)
(* vals are the values, one by one, of trees that the traversal has left:    *)
(* the calls that are pending tell which, as each has an effect on the stack *)
(* of those trees. Entering a node will have put it there, leaving it takes  *)
(* its children away.                                                        *)

\* The i-th child of t that is visited.
Visited(t, i) == t.kids[IF t.kind \in AssignedKinds THEN 3 - i ELSE i]

\* Call c turns a stack s of m trees into a stack r of n.
Moves(m, s, c, n, r) ==
  LET t == c.tree
      k == Len(t.kids)
  IN
  IF t.kind \in BlockKinds THEN n = m /\ \A i \in 1 .. m : r[i] = s[i]
  ELSE IF c.call = "enter" THEN n = m + 1 /\ r[n] = t /\ \A i \in 1 .. m : r[i] = s[i]
  ELSE /\ m >= k /\ n = m - k + 1 /\ r[n] = t
       /\ \A i \in 1 .. m - k : r[i] = s[i]
       /\ \A i \in 1 .. k : s[m - k + i] = Visited(t, i)

\* Value v may be that of tree t while nothing is logged.
Untyped == {"exprstmt", "ifenter", "ifleave"}
Matches(v, t) ==
  /\ v # Rejected /\ WellTyped(v)
  /\ t.kind \notin Untyped => v.type # "none"
  /\ v.kind = "function" => /\ t.kind = "ident" /\ v.n + 1 \in DOMAIN func_list
                            /\ func_list[v.n + 1].name = t.name

\* h and st are the stacks before each pending call, the first is that of vals.
Stacks(h, st) ==
  /\ h \in [1 .. Len(todo) + 1 -> Nat] /\ h[1] = Len(vals)
  /\ \A j \in 1 .. Len(todo) : Moves(h[j], st[j], todo[j], h[j + 1], st[j + 1])
  /\ ~check_log => \A i \in 1 .. Len(vals) : Matches(vals[i], st[1][i])

Stacked == \E V, h, st : vals \in Seq(V) /\ Stacks(h, st)

AllCalls(Exprs) == Calls(Exprs) \cup {Mark(k) : k \in BlockKinds}

LEMMA PendingCalls ==
  ASSUME NEW Exprs, Pending(Exprs)
  PROVE  todo \in Seq(AllCalls(Exprs))
<1> DEFINE S == Calls(Exprs)
           T == AllCalls(Exprs)
<1>1. S \subseteq T /\ \A k \in BlockKinds : Mark(k) \in T
  BY DEF AllCalls
<1>2. \A k \in BlockKinds : <<Mark(k)>> \in Seq(T)
  BY <1>1
<1>3. Seq(S) \subseteq Seq(T)
  BY <1>1, SeqMonotonic
<1> HIDE DEF S, T
<1>4. \A s \in Seq(S) : Append(s, Mark("block_begin")) \in Seq(T)
  BY <1>1, <1>3, AppendProperties DEF BlockKinds
<1>5. \A s \in Seq(S) : <<Mark("block_end")>> \o s \in Seq(T)
  BY <1>2, <1>3, ConcatProperties DEF BlockKinds
<1>6. <<Mark("block_empty")>> \in Seq(T)
  BY <1>2 DEF BlockKinds
<1> QED
  BY <1>3, <1>4, <1>5, <1>6 DEF Pending, S, T

LEMMA IsSequence ==
  ASSUME NEW V, NEW k \in Nat, NEW f \in [1 .. k -> V]
  PROVE  f \in Seq(V) /\ Len(f) = k
<1>1. f \in Seq(V)
  BY SeqDef
<1> QED
  BY <1>1, LenProperties

\* What is called for a node.
LEMMA VisitsAre ==
  ASSUME NEW Exprs, Grammar(Exprs), NEW t \in Trees(Exprs)
  PROVE  /\ Visits(t) \in Seq(Calls(Exprs)) /\ Len(t.kids) \in Nat
         /\ Len(Visits(t)) = Len(t.kids) + 1
         /\ Visits(t)[Len(t.kids) + 1] = Leave(t)
         /\ \A i \in 1 .. Len(t.kids) :
              Visits(t)[i] = Enter(Visited(t, i)) /\ Visited(t, i) \in Trees(Exprs)
<1>1. t.kids \in Seq(Trees(Exprs)) /\ (t.kind \in AssignedKinds => Len(t.kids) = 2)
  BY TreeShape
<1>2. Visits(t) \in Seq(Calls(Exprs))
  BY VisitsShape
<1>3. Len(t.kids) \in Nat /\ DOMAIN t.kids = 1 .. Len(t.kids)
  BY <1>1, LenProperties
<1>4. \A i \in 1 .. Len(t.kids) : Visited(t, i) \in Trees(Exprs)
  <2> SUFFICES ASSUME NEW i \in 1 .. Len(t.kids) PROVE Visited(t, i) \in Trees(Exprs)
    OBVIOUS
  <2> DEFINE p == IF t.kind \in AssignedKinds THEN 3 - i ELSE i
  <2>1. p \in 1 .. Len(t.kids)
    <3>1. CASE t.kind \in AssignedKinds
      <4>1. Len(t.kids) = 2 /\ p = 3 - i
        BY <1>1, <3>1
      <4> QED
        BY <4>1
    <3>2. CASE t.kind \notin AssignedKinds
      BY <3>2
    <3> QED
      BY <3>1, <3>2
  <2> QED
    BY <1>1, <2>1, ElementOfSeq DEF Visited
<1> DEFINE T == Calls(Exprs)
           First(s) == /\ Visits(t) = s \o <<Leave(t)>> /\ s \in Seq(T) /\ Len(s) = Len(t.kids)
                       /\ \A i \in 1 .. Len(t.kids) : s[i] = Enter(Visited(t, i))
<1>5. \A u \in Trees(Exprs) : Enter(u) \in T /\ Leave(u) \in T
  BY DEF Calls
<1>6. \A i \in 1 .. Len(t.kids) : Enter(Visited(t, i)) \in T
  BY <1>4, <1>5
<1> HIDE DEF T
<1>7. ASSUME t.kind \in AssignedKinds PROVE \E s : First(s)
  <2> DEFINE s == <<Enter(t.kids[2]), Enter(t.kids[1])>>
  <2>1. Visits(t) = s \o <<Leave(t)>> /\ Len(t.kids) = 2
    BY <1>1, <1>7 DEF Visits
  <2>2. \A i \in 1 .. 2 : Enter(t.kids[3 - i]) \in T /\ Enter(t.kids[3 - i]) = Enter(Visited(t, i))
    BY <1>6, <1>7, <2>1 DEF Visited
  <2>3. /\ Enter(t.kids[2]) \in T /\ Enter(t.kids[2]) = Enter(Visited(t, 1))
        /\ Enter(t.kids[1]) \in T /\ Enter(t.kids[1]) = Enter(Visited(t, 2))
    BY <2>2, 1 \in 1 .. 2 /\ 2 \in 1 .. 2 /\ 3 - 1 = 2 /\ 3 - 2 = 1
  <2>4. s \in Seq(T) /\ Len(s) = 2 /\ s[1] = Enter(t.kids[2]) /\ s[2] = Enter(t.kids[1])
    BY <2>3
  <2> HIDE DEF s
  <2>5. First(s)
    BY <2>1, <2>3, <2>4
  <2> HIDE DEF First
  <2> QED
    BY <2>5
<1>8. ASSUME t.kind \notin AssignedKinds PROVE \E s : First(s)
  <2> DEFINE s == [i \in DOMAIN t.kids |-> Enter(t.kids[i])]
  <2>1. Visits(t) = s \o <<Leave(t)>>
    BY <1>8 DEF Visits
  <2>2. \A i \in 1 .. Len(t.kids) : Enter(t.kids[i]) = Enter(Visited(t, i)) /\ Enter(t.kids[i]) \in T
    BY <1>6, <1>8 DEF Visited
  <2>3. s \in [1 .. Len(t.kids) -> T]
    BY <1>3, <2>2
  <2>4. s \in Seq(T) /\ Len(s) = Len(t.kids) /\ \A i \in 1 .. Len(t.kids) : s[i] = Enter(Visited(t, i))
    BY <1>3, <2>2, <2>3, IsSequence
  <2> HIDE DEF s
  <2>5. First(s)
    BY <2>1, <2>4
  <2> HIDE DEF First
  <2> QED
    BY <2>5
<1>9. PICK s : First(s)
  <2> HIDE DEF First
  <2> QED
    BY <1>7, <1>8
<1>10. <<Leave(t)>> \in Seq(T) /\ Len(<<Leave(t)>>) = 1 /\ <<Leave(t)>>[1] = Leave(t)
  BY <1>5
<1>11. PICK q : q = <<Leave(t)>>
  OBVIOUS
<1>12. /\ Len(s \o q) = Len(s) + 1
       /\ \A i \in 1 .. Len(s) + 1 : (s \o q)[i] = IF i <= Len(s) THEN s[i] ELSE q[i - Len(s)]
  BY <1>9, <1>10, <1>11, ConcatProperties
<1>13. /\ Len(Visits(t)) = Len(t.kids) + 1
       /\ Visits(t)[Len(t.kids) + 1] = Leave(t)
       /\ \A i \in 1 .. Len(t.kids) : Visits(t)[i] = s[i]
  <2>1. Visits(t) = s \o q /\ Len(s) = Len(t.kids) /\ q[1] = Leave(t)
    BY <1>9, <1>10, <1>11
  <2> HIDE DEF First
  <2>2. PICK n \in Nat : n = Len(t.kids)
    BY <1>3
  <2>3. n + 1 \in 1 .. n + 1 /\ ~(n + 1 <= n) /\ (n + 1) - n = 1
    OBVIOUS
  <2> QED
    BY <1>12, <2>1, <2>2, <2>3
<1> QED
  BY <1>2, <1>3, <1>4, <1>9, <1>13

\* As the functions do not change, what matched does.
LEMMA MatchesLasts ==
  ASSUME func_list' = func_list, NEW v, NEW t, Matches(v, t)
  PROVE  Matches(v, t)'
<1>1. WellTyped(v)' <=> WellTyped(v)
  BY DEF WellTyped, UniqueFunctions
<1> QED
  BY <1>1 DEF Matches

LEMMA EnterMoves ==
  ASSUME NEW t, NEW s, NEW r, NEW m \in Nat, t.kind \notin BlockKinds,
         r[m + 1] = t, \A i \in 1 .. m : r[i] = s[i]
  PROVE  Moves(m, s, Enter(t), m + 1, r)
BY DEF Moves, Enter

LEMMA LeaveMoves ==
  ASSUME NEW t, NEW s, NEW r, NEW m \in Nat, NEW k \in Nat, t.kind \notin BlockKinds,
         k = Len(t.kids), r[m + 1] = t, \A i \in 1 .. m : r[i] = s[i],
         \A i \in 1 .. k : s[m + i] = Visited(t, i)
  PROVE  Moves(m + k, s, Leave(t), m + 1, r)
<1>1. m + k >= k /\ m + 1 = (m + k) - k + 1 /\ (m + k) - k = m
  OBVIOUS
<1>2. Leave(t).call # "enter" /\ Leave(t).tree = t
  BY DEF Leave
<1> QED
  BY <1>1, <1>2 DEF Moves

\* A handler that enters a node: its visits take the place of the call.
LEMMA StackEntered ==
  ASSUME NEW Exprs, Grammar(Exprs), Pending(Exprs), Stacked, todo # <<>>,
         Head(todo).call = "enter", Cur.kind \notin BlockKinds,
         todo' = Visits(Cur) \o Tail(todo), vals' = vals, func_list' = func_list,
         ~check_log' => ~check_log
  PROVE  Stacked'
<1> DEFINE T == AllCalls(Exprs)
<1>n. PICK N : N = Len(todo)
  OBVIOUS
<1>m. PICK m : m = Len(Cur.kids)
  OBVIOUS
<1>1. PICK V, h, st : vals \in Seq(V) /\ Stacks(h, st)
  BY DEF Stacked
<1>2. Cur \in Trees(Exprs)
  <2>1. \A k : Mark(k).tree.kind = k
    BY DEF Mark, Enter, Tree
  <2> QED
    BY <2>1, HeadIsCall DEF Cur
<1>3. /\ Visits(Cur) \in Seq(Calls(Exprs)) /\ m \in Nat
      /\ Len(Visits(Cur)) = m + 1 /\ Visits(Cur)[m + 1] = Leave(Cur)
      /\ \A i \in 1 .. m : /\ Visits(Cur)[i] = Enter(Visited(Cur, i))
                           /\ Visited(Cur, i) \in Trees(Exprs)
  BY <1>2, <1>m, VisitsAre
<1>4. /\ todo \in Seq(T) /\ Tail(todo) \in Seq(T) /\ N \in Nat /\ N >= 1 /\ todo[1] = Head(todo)
      /\ Len(Tail(todo)) = N - 1 /\ \A j \in 1 .. N - 1 : Tail(todo)[j] = todo[j + 1]
  <2>1. todo \in Seq(T)
    BY PendingCalls
  <2> HIDE DEF T
  <2> QED
    BY <1>n, <2>1, EmptySeq, LenProperties, HeadTailProperties
<1>5. /\ Len(todo') = N + m
      /\ \A j \in 1 .. N + m : todo'[j] = IF j <= m + 1 THEN Visits(Cur)[j] ELSE todo[j - m]
  <2>1. Visits(Cur) \in Seq(T)
    BY <1>3, SeqMonotonic DEF AllCalls
  <2> HIDE DEF T
  <2>2. /\ Len(todo') = m + 1 + (N - 1)
        /\ \A j \in 1 .. m + 1 + (N - 1) :
             todo'[j] = IF j <= m + 1 THEN Visits(Cur)[j] ELSE Tail(todo)[j - (m + 1)]
    <3>1. PICK p, q : p = Visits(Cur) /\ q = Tail(todo)
      OBVIOUS
    <3>2. p \in Seq(T) /\ q \in Seq(T) /\ Len(p) = m + 1 /\ Len(q) = N - 1
      BY <1>3, <1>4, <2>1, <3>1
    <3>3. /\ Len(p \o q) = (m + 1) + (N - 1)
          /\ \A j \in 1 .. (m + 1) + (N - 1) : (p \o q)[j] = IF j <= m + 1 THEN p[j] ELSE q[j - (m + 1)]
      <4>1. /\ Len(p \o q) = Len(p) + Len(q)
            /\ \A j \in 1 .. Len(p) + Len(q) :
                 (p \o q)[j] = IF j <= Len(p) THEN p[j] ELSE q[j - Len(p)]
        BY <3>2, ConcatProperties
      <4> QED
        BY <3>2, <4>1
    <3> QED
      BY <3>1, <3>3
  <2>3. \A j \in m + 2 .. N + m : Tail(todo)[j - (m + 1)] = todo[j - m]
    BY <1>3, <1>4
  <2> QED
    BY <1>3, <1>4, <2>2, <2>3
<1>6. h \in [1 .. N + 1 -> Nat] /\ h[1] = Len(vals) /\ Len(vals) \in Nat
  BY <1>1, <1>n, LenProperties DEF Stacks
<1>7. \A j \in 1 .. N : Moves(h[j], st[j], todo[j], h[j + 1], st[j + 1])
  BY <1>1, <1>n DEF Stacks
<1>8. h[2] = h[1] + 1 /\ st[2][h[1] + 1] = Cur /\ \A i \in 1 .. h[1] : st[2][i] = st[1][i]
  <2>1. Moves(h[1], st[1], todo[1], h[2], st[2])
    BY <1>4, <1>7
  <2> QED
    BY <1>4, <2>1 DEF Moves, Cur
<1> DEFINE New(new) ==
             /\ \A i \in 1 .. h[1] : new[i] = st[1][i]
             /\ \A i \in 1 .. m : new[h[1] + i] = Visited(Cur, i)
<1>9. PICK new : New(new)
  <2> DEFINE u == [i \in Nat |-> IF i <= h[1] THEN st[1][i] ELSE Visited(Cur, i - h[1])]
  <2>1. New(u)
    BY <1>3, <1>6
  <2> HIDE DEF u, New
  <2> QED
    BY <2>1
<1> DEFINE After(g, rt) ==
             /\ g \in [1 .. N + m + 1 -> Nat]
             /\ \A j \in 1 .. m + 1 : g[j] = h[1] + j - 1 /\ rt[j] = new
             /\ \A j \in m + 2 .. N + m + 1 : g[j] = h[j - m] /\ rt[j] = st[j - m]
<1>10. PICK g, rt : After(g, rt)
  <2> DEFINE D == 1 .. N + m + 1
             u == [j \in D |-> IF j <= m + 1 THEN h[1] + j - 1 ELSE h[j - m]]
             w == [j \in D |-> IF j <= m + 1 THEN new ELSE st[j - m]]
  <2>1. After(u, w)
    BY <1>3, <1>4, <1>6
  <2> HIDE DEF u, w, After
  <2> QED
    BY <2>1
<1>11. ASSUME NEW j \in 1 .. N + m
       PROVE  Moves(g[j], rt[j], todo'[j], g[j + 1], rt[j + 1])
  <2>1. CASE j <= m
    <3>1. todo'[j] = Enter(Visited(Cur, j)) /\ Visited(Cur, j) \in Trees(Exprs)
      BY <1>3, <1>4, <1>5, <2>1
    <3>2. Visited(Cur, j).kind \notin BlockKinds
      BY <3>1, TreeShape
    <3>3. g[j] = h[1] + j - 1 /\ g[j + 1] = h[1] + j /\ rt[j] = new /\ rt[j + 1] = new
      <4>1. j \in 1 .. m + 1 /\ j + 1 \in 1 .. m + 1 /\ h[1] + (j + 1) - 1 = h[1] + j
        BY <1>3, <1>4, <1>6, <2>1
      <4> QED
        BY <1>10, <4>1
    <3>4. new[h[1] + j] = Visited(Cur, j)
      BY <1>3, <1>9, <2>1
    <3> QED
      <4>1. h[1] + j - 1 \in Nat /\ (h[1] + j - 1) + 1 = h[1] + j
        BY <1>3, <1>4, <1>6, <2>1
      <4>2. PICK n \in Nat : n = h[1] + j - 1
        BY <4>1
      <4> QED
        BY <3>1, <3>2, <3>3, <3>4, <4>1, <4>2, EnterMoves
  <2>2. CASE j = m + 1
    <3>1. todo'[j] = Leave(Cur)
      BY <1>3, <1>4, <1>5, <2>2
    <3>2. g[j] = h[1] + m /\ g[j + 1] = h[1] + 1 /\ rt[j] = new /\ rt[j + 1] = st[2]
      <4>1. m + 1 \in 1 .. m + 1 /\ m + 2 \in m + 2 .. N + m + 1 /\ (m + 2) - m = 2
        BY <1>3, <1>4
      <4>2. g[m + 1] = h[1] + (m + 1) - 1 /\ rt[m + 1] = new /\ g[m + 2] = h[2] /\ rt[m + 2] = st[2]
        BY <1>10, <4>1
      <4>3. j + 1 = m + 2 /\ h[1] + (m + 1) - 1 = h[1] + m
        BY <1>3, <1>6, <2>2
      <4> QED
        BY <1>8, <2>2, <4>2, <4>3
    <3>3. h[1] \in Nat /\ \A i \in 1 .. h[1] : st[2][i] = new[i]
      BY <1>6, <1>8, <1>9
    <3>t. PICK t : t = Cur
      OBVIOUS
    <3>n. PICK n \in Nat : n = h[1]
      BY <3>3
    <3>r. PICK r : r = st[2]
      OBVIOUS
    <3>5. /\ t.kind \notin BlockKinds /\ m = Len(t.kids) /\ r[n + 1] = t
          /\ \A i \in 1 .. n : r[i] = new[i]
          /\ \A i \in 1 .. m : new[n + i] = Visited(t, i)
      BY <1>m, <1>8, <1>9, <3>3, <3>t, <3>n, <3>r
    <3>6. Moves(n + m, new, Leave(t), n + 1, r)
      BY <1>3, <3>5, LeaveMoves
    <3> QED
      BY <3>1, <3>2, <3>t, <3>n, <3>r, <3>6
  <2>3. CASE j > m + 1
    <3>1. todo'[j] = todo[j - m] /\ j - m \in 1 .. N
      BY <1>3, <1>4, <1>5, <2>3
    <3>2. g[j] = h[j - m] /\ g[j + 1] = h[j - m + 1] /\ rt[j] = st[j - m] /\ rt[j + 1] = st[j - m + 1]
      BY <1>3, <1>4, <1>10, <2>3
    <3> QED
      BY <1>7, <3>1, <3>2
  <2> QED
    BY <1>3, <1>4, <2>1, <2>2, <2>3
<1>12. Stacks(g, rt)'
  <2>1. g \in [1 .. Len(todo') + 1 -> Nat] /\ g[1] = Len(vals')
    <3>1. Len(todo') + 1 = N + m + 1 /\ Len(vals') = h[1] /\ 1 \in 1 .. m + 1 /\ h[1] + 1 - 1 = h[1]
      BY <1>3, <1>4, <1>5, <1>6
    <3>2. g \in [1 .. N + m + 1 -> Nat] /\ g[1] = h[1] + 1 - 1
      BY <1>10, <3>1
    <3> QED
      BY <3>1, <3>2
  <2>2. \A j \in 1 .. Len(todo') : Moves(g[j], rt[j], todo'[j], g[j + 1], rt[j + 1])
    BY <1>5, <1>11
  <2>3. ASSUME ~check_log', NEW i \in 1 .. Len(vals')
        PROVE  Matches(vals[i], rt[1][i])'
    <3>1. i \in 1 .. h[1] /\ Matches(vals[i], st[1][i])
      BY <1>1, <2>3 DEF Stacks
    <3>2. rt[1][i] = st[1][i] /\ vals'[i] = vals[i]
      BY <1>3, <1>9, <1>10, <3>1
    <3>3. \A v, t : Matches(v, t) => Matches(v, t)'
      BY MatchesLasts
    <3>4. Matches(vals[i], rt[1][i])
      BY <3>1, <3>2
    <3>5. PICK v, t : v = vals[i] /\ t = rt[1][i]
      OBVIOUS
    <3>6. Matches(v, t)' /\ v = vals'[i]
      BY <3>2, <3>3, <3>4, <3>5
    <3> QED
      BY <3>5, <3>6
  <2> QED
    BY <2>1, <2>2, <2>3 DEF Stacks
<1>13. vals' \in Seq(V)
  BY <1>1
<1> QED
  BY <1>12, <1>13 DEF Stacked

LEMMA LeaveIsCall ==
  ASSUME NEW Exprs, Grammar(Exprs), Pending(Exprs), todo # <<>>, Head(todo).call = "leave"
  PROVE  Cur \in Trees(Exprs) /\ Cur.kind \notin BlockKinds
<1>1. \A k : Mark(k).call = "enter"
  BY DEF Mark, Enter
<1> QED
  BY <1>1, HeadIsCall

\* A call has been handled, and the stack is the one after it.
LEMMA StackMoved ==
  ASSUME NEW Exprs, Pending(Exprs), todo # <<>>, todo' = Tail(todo),
         NEW V, NEW h, NEW st, Stacks(h, st), vals' \in Seq(V), h[2] = Len(vals'),
         ~check_log' => \A i \in 1 .. Len(vals') : Matches(vals[i], st[2][i])'
  PROVE  Stacked'
<1>n. PICK N : N = Len(todo)
  OBVIOUS
<1>1. /\ N \in Nat /\ N >= 1 /\ Len(todo') = N - 1
      /\ \A j \in 1 .. N - 1 : todo'[j] = todo[j + 1]
  BY <1>n, PendingCalls, EmptySeq, LenProperties, HeadTailProperties
<1>2. h \in [1 .. N + 1 -> Nat] /\ h[1] = Len(vals)
      /\ \A j \in 1 .. N : Moves(h[j], st[j], todo[j], h[j + 1], st[j + 1])
  BY <1>n DEF Stacks
<1> DEFINE After(g, rt) ==
             /\ g \in [1 .. N -> Nat]
             /\ \A j \in 1 .. N : g[j] = h[j + 1] /\ rt[j] = st[j + 1]
<1>3. PICK g, rt : After(g, rt)
  <2> DEFINE u == [j \in 1 .. N |-> h[j + 1]]
             w == [j \in 1 .. N |-> st[j + 1]]
  <2>1. After(u, w)
    BY <1>1, <1>2
  <2> HIDE DEF u, w, After
  <2> QED
    BY <2>1
<1>4. g[1] = h[2] /\ rt[1] = st[2]
  <2>1. 1 \in 1 .. N /\ 1 + 1 = 2
    BY <1>1
  <2>2. g[1] = h[1 + 1] /\ rt[1] = st[1 + 1]
    BY <1>3, <2>1
  <2> QED
    BY <2>1, <2>2
<1>5. ASSUME NEW j \in 1 .. N - 1
      PROVE  Moves(g[j], rt[j], todo'[j], g[j + 1], rt[j + 1])
  <2>1. j + 1 \in 1 .. N /\ j \in 1 .. N
    BY <1>1
  <2>2. /\ g[j] = h[j + 1] /\ rt[j] = st[j + 1]
        /\ g[j + 1] = h[(j + 1) + 1] /\ rt[j + 1] = st[(j + 1) + 1]
    BY <1>3, <2>1
  <2>3. Moves(h[j + 1], st[j + 1], todo[j + 1], h[(j + 1) + 1], st[(j + 1) + 1])
    BY <1>2, <2>1
  <2> QED
    BY <1>1, <2>2, <2>3
<1>6. Stacks(g, rt)'
  <2>1. g \in [1 .. Len(todo') + 1 -> Nat] /\ g[1] = Len(vals')
    <3>1. Len(todo') + 1 = N
      BY <1>1
    <3> QED
      BY <1>3, <1>4, <3>1
  <2>2. \A j \in 1 .. Len(todo') : Moves(g[j], rt[j], todo'[j], g[j + 1], rt[j + 1])
    BY <1>1, <1>5
  <2>3. ~check_log' => \A i \in 1 .. Len(vals') : Matches(vals[i], rt[1][i])'
    BY <1>4
  <2> QED
    BY <2>1, <2>2, <2>3 DEF Stacks
<1> QED
  BY <1>6 DEF Stacked

\* Below and Checked are the values under, and of, the children of Cur.
LEMMA ChildrenChecked ==
  ASSUME NEW V, vals \in Seq(V), Len(Cur.kids) \in Nat, Len(Cur.kids) <= Len(vals),
         Cur.kind \in AssignedKinds => Len(Cur.kids) = 2
  PROVE  LET k == Len(Cur.kids)
             n == Len(vals) - k
         IN  /\ n \in Nat /\ Below \in Seq(V) /\ Len(Below) = n
             /\ \A i \in 1 .. n : Below[i] = vals[i]
             /\ Checked \in Seq(V) /\ Len(Checked) = k
             /\ \A i \in 1 .. k :
                  Checked[i] = vals[n + (IF Cur.kind \in AssignedKinds THEN 3 - i ELSE i)]
<1>k. PICK k \in Nat : k = Len(Cur.kids)
  OBVIOUS
<1>l. PICK l \in Nat : l = Len(vals)
  BY LenProperties
<1>n. PICK n \in Nat : n = l - k /\ n + k = l
  BY <1>k, <1>l, l - k \in Nat
<1>1. \A i \in 1 .. l : vals[i] \in V
  BY <1>l, ElementOfSeq
<1>2. Below = SubSeq(vals, 1, n) /\ Below \in Seq(V) /\ Len(Below) = n
      /\ \A i \in 1 .. n : Below[i] = vals[i]
  <2>1. Below = SubSeq(vals, 1, n)
    BY <1>k, <1>l, <1>n DEF Below
  <2>2. \A i \in 1 .. n : vals[i] \in V
    BY <1>1, <1>n
  <2> QED
    BY <2>1, <2>2, SubSeqProperties
<1> DEFINE x == SubSeq(vals, n + 1, l)
<1>3. x \in Seq(V) /\ Len(x) = k /\ \A i \in 1 .. k : x[i] = vals[n + i]
  <2>1. \A i \in n + 1 .. l : vals[i] \in V
    BY <1>1, <1>n
  <2>2. /\ x \in Seq(V) /\ Len(x) = IF n + 1 <= l THEN l - (n + 1) + 1 ELSE 0
        /\ \A i \in 1 .. l - (n + 1) + 1 : x[i] = vals[(n + 1) + i - 1]
    BY <2>1, SubSeqProperties
  <2>3. l - (n + 1) + 1 = k /\ (n + 1 <= l <=> k > 0) /\ \A i \in 1 .. k : (n + 1) + i - 1 = n + i
    BY <1>n
  <2> QED
    BY <2>2, <2>3
<1>4. Checked = IF Cur.kind \in AssignedKinds THEN Reverse(x) ELSE x
  BY <1>k, <1>l, <1>n, <1>2 DEF Checked
<1> HIDE DEF x
<1>5. CASE Cur.kind \in AssignedKinds
  <2>1. k = 2
    BY <1>5, <1>k
  <2>2. Reverse(x) = [i \in 1 .. k |-> x[(k - i) + 1]]
    BY <1>3 DEF Reverse
  <2>3. \A i \in 1 .. k : (k - i) + 1 = 3 - i /\ 3 - i \in 1 .. k
    BY <2>1
  <2>4. \A i \in 1 .. k : x[3 - i] \in V /\ x[3 - i] = vals[n + (3 - i)]
    BY <1>3, <2>3, ElementOfSeq
  <2>5. Reverse(x) \in [1 .. k -> V] /\ \A i \in 1 .. k : Reverse(x)[i] = x[3 - i]
    BY <2>2, <2>3, <2>4
  <2>6. Reverse(x) \in Seq(V) /\ Len(Reverse(x)) = k
    BY <2>5, IsSequence
  <2> QED
    BY <1>k, <1>l, <1>n, <1>2, <1>4, <1>5, <2>4, <2>5, <2>6
<1>6. CASE Cur.kind \notin AssignedKinds
  BY <1>k, <1>l, <1>n, <1>2, <1>3, <1>4, <1>6
<1> QED
  BY <1>5, <1>6

\* The stacks when a node is left: its children above m values, checked.
LeaveShape(Exprs, V, h, st, m) ==
  /\ Cur \in Trees(Exprs) /\ Len(Cur.kids) \in Nat /\ m \in Nat
  /\ h[2] = m + 1 /\ st[2][h[2]] = Cur /\ \A i \in 1 .. m : st[2][i] = st[1][i]
  /\ Below \in Seq(V) /\ Len(Below) = m /\ \A i \in 1 .. m : Below[i] = vals[i]
  /\ Checked \in Seq(V) /\ Len(Checked) = Len(Cur.kids)
  /\ ~check_log => \A i \in 1 .. Len(Cur.kids) : Matches(Checked[i], Cur.kids[i])

\* On leaving a node its children are checked: their values match them.
LEMMA LeavingFacts ==
  ASSUME NEW Exprs, Grammar(Exprs), Pending(Exprs), todo # <<>>,
         Head(todo).call = "leave", Cur.kind \notin BlockKinds,
         NEW V, NEW h, NEW st, vals \in Seq(V), Stacks(h, st)
  PROVE  LeaveShape(Exprs, V, h, st, Len(vals) - Len(Cur.kids))
<1>k. PICK k : k = Len(Cur.kids)
  OBVIOUS
<1>l. PICK l : l = Len(vals)
  OBVIOUS
<1>1. Cur \in Trees(Exprs)
  <2>1. \A q : Mark(q).tree.kind = q
    BY DEF Mark, Enter, Tree
  <2> QED
    BY <2>1, HeadIsCall DEF Cur
<1>2. k \in Nat /\ (Cur.kind \in AssignedKinds => k = 2)
  BY <1>1, <1>k, TreeShape, LenProperties
<1>3. l \in Nat
  BY <1>l, LenProperties
<1>4. 1 \in 1 .. Len(todo) /\ todo[1] = Head(todo)
  BY PendingCalls, EmptySeq, LenProperties, HeadTailProperties
<1>5. Moves(l, st[1], Head(todo), h[2], st[2])
  BY <1>l, <1>4 DEF Stacks
<1>6. /\ l >= k /\ h[2] = l - k + 1 /\ st[2][l - k + 1] = Cur
      /\ \A i \in 1 .. l - k : st[2][i] = st[1][i]
      /\ \A i \in 1 .. k : st[1][l - k + i] = Visited(Cur, i)
  BY <1>k, <1>5 DEF Moves, Cur
<1>n. PICK n \in Nat : n = l - k /\ n + k = l
  BY <1>2, <1>3, <1>6, l - k \in Nat
<1>7. /\ Below \in Seq(V) /\ Len(Below) = n /\ \A i \in 1 .. n : Below[i] = vals[i]
      /\ Checked \in Seq(V) /\ Len(Checked) = k
      /\ \A i \in 1 .. k :
           Checked[i] = vals[n + (IF Cur.kind \in AssignedKinds THEN 3 - i ELSE i)]
  BY <1>k, <1>l, <1>n, <1>2, <1>6, ChildrenChecked
<1>8. ASSUME ~check_log, NEW i \in 1 .. k PROVE Matches(Checked[i], Cur.kids[i])
  <2>1. \A j \in 1 .. l : Matches(vals[j], st[1][j])
    BY <1>l, <1>8 DEF Stacks
  <2>2. CASE Cur.kind \in AssignedKinds
    <3>1. 3 - i \in 1 .. k /\ 3 - (3 - i) = i /\ n + (3 - i) \in 1 .. l
      BY <1>2, <1>n, <2>2
    <3>2. Checked[i] = vals[n + (3 - i)]
      BY <1>7, <2>2
    <3>3. st[1][n + (3 - i)] = Cur.kids[i]
      BY <1>6, <1>n, <2>2, <3>1 DEF Visited
    <3> QED
      BY <2>1, <3>1, <3>2, <3>3
  <2>3. CASE Cur.kind \notin AssignedKinds
    <3>1. n + i \in 1 .. l
      BY <1>2, <1>n
    <3>2. Checked[i] = vals[n + i] /\ st[1][n + i] = Cur.kids[i]
      BY <1>6, <1>7, <1>n, <2>3 DEF Visited
    <3> QED
      BY <2>1, <3>1, <3>2
  <2> QED
    BY <2>2, <2>3
<1>9. LeaveShape(Exprs, V, h, st, n)
  BY <1>k, <1>l, <1>n, <1>1, <1>2, <1>6, <1>7, <1>8 DEF LeaveShape
<1> QED
  BY <1>9, <1>k, <1>l, <1>n

\* A handler that leaves a node: its value takes the place of its children's.
LEMMA StackLeft ==
  ASSUME NEW Exprs, Grammar(Exprs), Pending(Exprs), Stacked, todo # <<>>,
         Head(todo).call = "leave", Cur.kind \notin BlockKinds,
         NEW e, todo' = Tail(todo), vals' = Append(Below, e), func_list' = func_list,
         ~check_log' => ~check_log /\ Matches(e, Cur)
  PROVE  Stacked'
<1>1. PICK V, h, st : vals \in Seq(V) /\ Stacks(h, st)
  BY DEF Stacked
<1>n. PICK n : n = Len(vals) - Len(Cur.kids)
  OBVIOUS
<1>2. /\ n \in Nat /\ h[2] = n + 1 /\ st[2][h[2]] = Cur /\ \A i \in 1 .. n : st[2][i] = st[1][i]
      /\ Below \in Seq(V) /\ Len(Below) = n /\ \A i \in 1 .. n : Below[i] = vals[i]
      /\ Len(Cur.kids) \in Nat
  <2>1. LeaveShape(Exprs, V, h, st, Len(vals) - Len(Cur.kids))
    BY <1>1, LeavingFacts
  <2> QED
    BY <1>n, <2>1 DEF LeaveShape
<1> DEFINE W == V \cup {e}
<1>3. Below \in Seq(W) /\ e \in W
  BY <1>2, SeqMonotonic
<1> HIDE DEF W
<1>4. /\ vals' \in Seq(W) /\ Len(vals') = n + 1 /\ vals'[n + 1] = e
      /\ \A i \in 1 .. n : vals'[i] = vals[i]
  BY <1>2, <1>3, AppendProperties
<1>5. ASSUME ~check_log', NEW i \in 1 .. Len(vals') PROVE Matches(vals[i], st[2][i])'
  <2>1. \A v, t : Matches(v, t) => Matches(v, t)'
    BY MatchesLasts
  <2>2. \E v, t : v = vals'[i] /\ t = st[2][i] /\ Matches(v, t)
    <3>1. CASE i = n + 1
      BY <1>2, <1>4, <1>5, <3>1
    <3>2. CASE i \in 1 .. n
      <4>1. i \in 1 .. Len(vals)
        BY <1>1, <1>n, <1>2, <3>2, LenProperties
      <4>2. Matches(vals[i], st[1][i])
        BY <1>1, <1>5, <4>1 DEF Stacks
      <4> QED
        BY <1>2, <1>4, <3>2, <4>2
    <3> QED
      BY <1>2, <1>4, <3>1, <3>2
  <2> QED
    BY <2>1, <2>2
<1> QED
  BY <1>1, <1>2, <1>4, <1>5, StackMoved

\* The handler of a block leaves the values alone.
LEMMA StackKept ==
  ASSUME NEW Exprs, Grammar(Exprs), Pending(Exprs), Stacked, todo # <<>>,
         Cur.kind \in BlockKinds, todo' = Tail(todo), vals' = vals, func_list' = func_list,
         check_log' = check_log
  PROVE  Stacked'
<1>1. PICK V, h, st : vals \in Seq(V) /\ Stacks(h, st)
  BY DEF Stacked
<1>2. 1 \in 1 .. Len(todo) /\ todo[1] = Head(todo)
  BY PendingCalls, EmptySeq, LenProperties, HeadTailProperties
<1>3. Moves(Len(vals), st[1], Head(todo), h[2], st[2])
  BY <1>1, <1>2 DEF Stacks
<1>4. h[2] = Len(vals) /\ \A i \in 1 .. Len(vals) : st[2][i] = st[1][i]
  BY <1>3 DEF Moves, Cur
<1>5. ASSUME ~check_log', NEW i \in 1 .. Len(vals') PROVE Matches(vals[i], st[2][i])'
  <2>1. \A v, t : Matches(v, t) => Matches(v, t)'
    BY MatchesLasts
  <2>2. Matches(vals[i], st[1][i])
    BY <1>1, <1>5 DEF Stacks
  <2>3. \E v, t : v = vals'[i] /\ t = st[2][i] /\ Matches(v, t)
    BY <1>4, <1>5, <2>2
  <2> QED
    BY <2>1, <2>3
<1> QED
  BY <1>1, <1>4, <1>5, StackMoved

\* Nothing but the logs and the searches changed.
LEMMA StackSame ==
  ASSUME Stacked, todo' = todo, vals' = vals, func_list' = func_list, check_log' = check_log
  PROVE  Stacked'
<1>1. PICK V, h, st : vals \in Seq(V) /\ Stacks(h, st)
  BY DEF Stacked
<1>2. \A v, t : Matches(v, t) => Matches(v, t)'
  BY MatchesLasts
<1>3. ASSUME ~check_log', NEW i \in 1 .. Len(vals') PROVE Matches(vals[i], st[1][i])'
  <2>1. \E v, t : v = vals'[i] /\ t = st[1][i] /\ Matches(v, t)
    BY <1>1, <1>3 DEF Stacks
  <2> QED
    BY <1>2, <2>1
<1>4. Stacks(h, st)'
  BY <1>1, <1>3 DEF Stacks
<1> QED
  BY <1>1, <1>4 DEF Stacked

\* A statement arrives: marks of blocks, and one tree t at most.
LEMMA StackBegun ==
  ASSUME NEW t, t.kind \notin BlockKinds, vals' = <<>>, NEW k \in BlockKinds,
         todo' \in {<<Enter(t)>>, <<Enter(t), Mark(k)>>, <<Mark(k)>>, <<Mark(k), Enter(t)>>}
  PROVE  Stacked'
<1> DEFINE u == [i \in {1} |-> t]
           Begun(h, st) ==
             /\ h \in [1 .. Len(todo') + 1 -> Nat] /\ h[1] = 0
             /\ \A j \in 1 .. Len(todo') : Moves(h[j], st[j], todo'[j], h[j + 1], st[j + 1])
<1>1. Moves(0, u, Enter(t), 1, u)
  BY DEF Moves, Enter
<1>2. \A m : Moves(m, u, Mark(k), m, u)
  BY DEF Moves, Mark, Enter, Tree
<1> HIDE DEF u
<1>3. ASSUME NEW h, NEW st, Begun(h, st) PROVE Stacked'
  <2>1. Len(vals') = 0 /\ vals' \in Seq({t})
    OBVIOUS
  <2>2. Stacks(h, st)'
    BY <1>3, <2>1 DEF Stacks
  <2> QED
    BY <2>1, <2>2 DEF Stacked
<1>4. CASE todo' = <<Enter(t)>>
  <2> DEFINE h == [j \in 1 .. 2 |-> IF j = 1 THEN 0 ELSE 1]
             st == [j \in 1 .. 2 |-> u]
  <2>1. Len(todo') = 1 /\ todo'[1] = Enter(t)
    BY <1>4
  <2>2. Begun(h, st)
    BY <1>1, <2>1
  <2> QED
    BY <1>3, <2>2
<1>5. CASE todo' = <<Enter(t), Mark(k)>>
  <2> DEFINE h == [j \in 1 .. 3 |-> IF j = 1 THEN 0 ELSE 1]
             st == [j \in 1 .. 3 |-> u]
  <2>1. Len(todo') = 2 /\ todo'[1] = Enter(t) /\ todo'[2] = Mark(k)
    BY <1>5
  <2>2. Begun(h, st)
    BY <1>1, <1>2, <2>1
  <2> QED
    BY <1>3, <2>2
<1>6. CASE todo' = <<Mark(k)>>
  <2> DEFINE h == [j \in 1 .. 2 |-> 0]
             st == [j \in 1 .. 2 |-> u]
  <2>1. Len(todo') = 1 /\ todo'[1] = Mark(k)
    BY <1>6
  <2>2. Begun(h, st)
    BY <1>2, <2>1
  <2> QED
    BY <1>3, <2>2
<1>7. CASE todo' = <<Mark(k), Enter(t)>>
  <2> DEFINE h == [j \in 1 .. 3 |-> IF j = 3 THEN 1 ELSE 0]
             st == [j \in 1 .. 3 |-> u]
  <2>1. Len(todo') = 2 /\ todo'[1] = Mark(k) /\ todo'[2] = Enter(t)
    BY <1>7
  <2>2. Begun(h, st)
    BY <1>1, <1>2, <2>1
  <2> QED
    BY <1>3, <2>2
<1> QED
  BY <1>4, <1>5, <1>6, <1>7

LEMMA StackRead ==
  ASSUME NEW Exprs, Grammar(Exprs), Stacked, Parsed
  PROVE  Stacked'
<1>1. func_list' = func_list /\ check_log' = check_log
  BY DEF Parsed, ReadStatement, ReadIf, ReadBlock, ReadEmptyBlock,
       ReadClose, Close, Finish, AllRead, Arrive, scopeVars
<1>2. EndIf.kind \notin BlockKinds /\ Mark("ifleave") = Enter(EndIf)
  BY DEF EndIf, Tree, Mark, BlockKinds
<1>3. BlockKinds = {"block_begin", "block_empty", "block_end"}
  BY DEF BlockKinds
<1>4. CASE ReadStatement
  <2>1. PICK s \in Statements : todo' = <<Enter(s)>> /\ vals' = <<>>
    BY <1>4 DEF ReadStatement, Arrive
  <2>2. s.kind \notin BlockKinds
    BY TreeShape DEF Trees
  <2> QED
    BY <1>3, <2>1, <2>2, StackBegun
<1>5. CASE ReadIf
  <2>1. PICK c \in Conditions : /\ vals' = <<>>
          /\ todo' = <<Enter(Tree("ifenter", NoName, "none", <<c>>)), Mark("block_begin")>>
    BY <1>5 DEF ReadIf, Arrive
  <2>2. PICK t : t = Tree("ifenter", NoName, "none", <<c>>)
    OBVIOUS
  <2>3. t.kind \notin BlockKinds
    BY <2>2 DEF Tree, BlockKinds
  <2> QED
    BY <1>3, <2>1, <2>2, <2>3, StackBegun
<1>6. CASE ReadBlock
  <2>1. todo' = <<Mark("block_begin")>> /\ vals' = <<>>
    BY <1>6 DEF ReadBlock, Arrive
  <2> QED
    BY <1>2, <1>3, <2>1, StackBegun
<1>7. CASE ReadEmptyBlock
  <2>1. todo' = <<Mark("block_empty")>> /\ vals' = <<>>
    BY <1>7 DEF ReadEmptyBlock, Arrive
  <2> QED
    BY <1>2, <1>3, <2>1, StackBegun
<1>8. CASE ReadClose
  <2>1. /\ vals' = <<>>
        /\ \/ todo' = <<Mark("block_end")>>
           \/ todo' = <<Mark("block_end"), Enter(EndIf)>>
    BY <1>2, <1>8 DEF ReadClose, Arrive
  <2> QED
    BY <1>2, <1>3, <2>1, StackBegun
<1>9. CASE Finish
  BY <1>1, <1>9, StackSame DEF Finish
<1> QED
  BY <1>4, <1>5, <1>6, <1>7, <1>8, <1>9 DEF Parsed

-----------------------------------------------------------------------------
(* The rules. A value that is not rejected is well typed if its operands are *)
(* those of checked trees.                                                   *)

LEMMA ConvertedType ==
  ASSUME NEW type, NEW e, Converted(type, e) # Rejected
  PROVE  Converted(type, e).type = type
BY DEF Converted, ToInt, ToDouble, Node

LEMMA CastTypes ==
  ASSUME NEW e, e.type \in Numeric
  PROVE  ToDouble(e).type = "double"
BY DEF ToDouble, Node, Numeric

\* A rule for two operands.
LEMMA BinaryMatches ==
  ASSUME NEW t, t.kind \in BinaryKinds, NEW k, k[1].type # "none", k[2].type # "none",
         Rule(t, k) # Rejected
  PROVE  Matches(Rule(t, k), t)
<1>1. PICK e : e = Rule(t, k)
  OBVIOUS
<1>2. PICK l, r : l = k[1] /\ r = k[2]
  OBVIOUS
<1>3. Rejected.kind = "rejected"
  BY DEF Rejected, Node
<1>4. CASE t.kind \in ArithKinds
  <2>1. e = ArithmeticExpr(t.kind, l, r) /\ e # Rejected
    BY <1>1, <1>2, <1>4 DEF Rule, ArithKinds, OrderKinds, EqualKinds, LogicalKinds,
       StepKinds, AssignedKinds
  <2>2. l.type \in Numeric /\ r.type \in Numeric
    BY <2>1 DEF ArithmeticExpr
  <2>3. \E a, b, type : e = Node(t.kind, type, 0, <<a, b>>) /\ a.type = type
                     /\ b.type = type /\ type \in Numeric
    <3>1. CASE l.type = r.type
      BY <2>1, <2>2, <3>1 DEF ArithmeticExpr
    <3>2. CASE l.type # r.type
      <4>1. e = Node(t.kind, "double", 0, <<ToDouble(l), ToDouble(r)>>) /\ "double" \in Numeric
        BY <2>1, <2>2, <3>2 DEF ArithmeticExpr, Numeric
      <4> QED
        BY <2>2, <4>1, CastTypes
    <3> QED
      BY <3>1, <3>2
  <2>4. PICK a, b, type : e = Node(t.kind, type, 0, <<a, b>>) /\ a.type = type
                     /\ b.type = type /\ type \in Numeric
    BY <2>3
  <2> QED
    BY <1>1, <1>4, <2>1, <2>4 DEF Matches, WellTyped, Node, ArithKinds, OrderKinds, EqualKinds,
       LogicalKinds,
       StepKinds, AssignedKinds, Numeric
<1>5. CASE t.kind \in OrderKinds \cup EqualKinds
  <2>1. e = CompareExpr(t.kind, l, r) /\ e # Rejected
    BY <1>1, <1>2, <1>5 DEF Rule, EqualityExpr, ArithKinds, OrderKinds, EqualKinds, LogicalKinds,
       StepKinds, AssignedKinds
  <2>2. \E a, b : e = Node(t.kind, "boolean", 0, <<a, b>>) /\ a.type # "none" /\ a.type = b.type
    <3>1. CASE l.type = r.type
      BY <2>1, <1>2, <3>1 DEF CompareExpr
    <3>2. CASE l.type # r.type
      <4>1. e = Node(t.kind, "boolean", 0, <<ToDouble(l), ToDouble(r)>>)
        BY <2>1, <3>2 DEF CompareExpr
      <4>2. l.type \in Numeric /\ r.type \in Numeric
        BY <2>1, <3>2 DEF CompareExpr
      <4> QED
        BY <4>1, <4>2, CastTypes
    <3> QED
      BY <3>1, <3>2
  <2>3. PICK a, b : e = Node(t.kind, "boolean", 0, <<a, b>>) /\ a.type # "none" /\ a.type = b.type
    BY <2>2
  <2> QED
    BY <1>1, <1>5, <2>1, <2>3 DEF Matches, WellTyped, Node, ArithKinds, OrderKinds, EqualKinds,
       LogicalKinds,
       StepKinds, AssignedKinds
<1>6. CASE t.kind \in LogicalKinds
  <2>1. e = LogicalExpr(t.kind, l, r) /\ e # Rejected
    BY <1>1, <1>2, <1>6 DEF Rule, ArithKinds, OrderKinds, EqualKinds, LogicalKinds,
       StepKinds, AssignedKinds
  <2>2. e = Node(t.kind, "boolean", 0, <<l, r>>) /\ l.type = "boolean" /\ r.type = "boolean"
    BY <2>1 DEF LogicalExpr
  <2> QED
    BY <1>1, <1>6, <2>1, <2>2 DEF Matches, WellTyped, Node, ArithKinds, OrderKinds, EqualKinds,
       LogicalKinds,
       StepKinds, AssignedKinds
<1>7. CASE t.kind \in AssignedKinds
  <2>1. e = AssignExpr(t.kind, l, r) /\ e # Rejected
    BY <1>1, <1>2, <1>7 DEF Rule, ArithKinds, OrderKinds, EqualKinds, LogicalKinds, StepKinds,
       AssignedKinds
  <2>2. PICK b : b = Converted(l.type, r)
    OBVIOUS
  <2>3. e = Node(t.kind, l.type, 0, <<l, b>>) /\ l.type # "none" /\ b # Rejected
    BY <2>1, <2>2 DEF AssignExpr
  <2>4. b.type = l.type
    BY <2>2, <2>3, ConvertedType
  <2> QED
    BY <1>1, <1>7, <2>1, <2>3, <2>4 DEF Matches, WellTyped, Node, ArithKinds, OrderKinds,
       EqualKinds, LogicalKinds,
       StepKinds, AssignedKinds
<1> QED
  BY <1>4, <1>5, <1>6, <1>7 DEF BinaryKinds

\* A rule for one operand, or none.
LEMMA UnaryMatches ==
  ASSUME NEW t, t.kind \in UnaryKinds \cup {"boolean", "int", "double"}, NEW k, Rule(t, k) # Rejected
  PROVE  Matches(Rule(t, k), t)
<1>1. PICK e : e = Rule(t, k)
  OBVIOUS
<1>2. PICK a : a = k[1]
  OBVIOUS
<1>3. CASE t.kind \in UnaryKinds
  <2>1. /\ e # Rejected
        /\ \/ e = IncDecExpr(t.kind, a)
           \/ t.kind = "minus" /\ e = MinusExpr(a)
           \/ t.kind = "lognot" /\ e = LogicalNotExpr(a)
    BY <1>1, <1>2, <1>3 DEF Rule, UnaryKinds, ArithKinds, OrderKinds, EqualKinds, LogicalKinds,
       StepKinds, AssignedKinds
  <2>2. e = Node(t.kind, a.type, 0, <<a>>) /\ a.type # "none"
    BY <2>1 DEF IncDecExpr, MinusExpr, LogicalNotExpr, Numeric
  <2> QED
    BY <1>1, <1>3, <2>1, <2>2 DEF Matches, WellTyped, Node, UnaryKinds, ArithKinds, OrderKinds,
       EqualKinds, LogicalKinds,
       StepKinds, AssignedKinds
<1>4. CASE t.kind \in {"boolean", "int", "double"}
  <2>1. \E type \in {"boolean", "int", "double"} : e = Node(type, type, 0, <<>>)
    BY <1>1, <1>4 DEF Rule, BooleanExpr, IntExpr, DoubleExpr, ArithKinds, OrderKinds, EqualKinds,
       LogicalKinds,
       StepKinds, AssignedKinds
  <2> QED
    BY <1>1, <2>1 DEF Matches, WellTyped, Node, ArithKinds, OrderKinds, EqualKinds, LogicalKinds,
       StepKinds, AssignedKinds
<1> QED
  BY <1>3, <1>4

\* A statement.
LEMMA StatementMatches ==
  ASSUME NEW Exprs, Grammar(Exprs), NEW t \in Statements, NEW k, Len(k) = Len(t.kids),
         NEW V, k \in Seq(V), Rule(t, k) # Rejected
  PROVE  Matches(Rule(t, k), t)
<1>1. PICK e : e = Rule(t, k)
  OBVIOUS
<1>2. CASE t.kind = "exprstmt"
  <2>1. e = Node("exprstmt", "none", 0, k)
    BY <1>1, <1>2 DEF Rule, ArithKinds, OrderKinds, EqualKinds, LogicalKinds, StepKinds, AssignedKinds
  <2> QED
    BY <1>1, <1>2, <2>1 DEF Matches, WellTyped, Node, Untyped, ArithKinds, OrderKinds, EqualKinds,
       LogicalKinds,
       StepKinds, AssignedKinds
<1>3. CASE t.kind = "declstmt"
  <2>1. e = DeclStmt(0, t.type, k) /\ e # Rejected
    BY <1>1, <1>3 DEF Rule, ArithKinds, OrderKinds, EqualKinds, LogicalKinds, StepKinds, AssignedKinds
  <2>2. t.type # "none"
    BY <1>3 DEF Grammar
  <2>3. CASE k = <<>>
    <3>1. e = Node("declstmt", t.type, 0, <<>>)
      BY <2>1, <2>3 DEF DeclStmt
    <3> QED
      BY <1>1, <2>1, <2>2, <3>1 DEF Matches, WellTyped, Node, ArithKinds, OrderKinds, EqualKinds,
         LogicalKinds,
         StepKinds, AssignedKinds
  <2>4. CASE k # <<>>
    <3>1. PICK b : b = Converted(t.type, k[1])
      OBVIOUS
    <3>2. e = Node("declstmt", t.type, 0, <<b>>) /\ b # Rejected
      BY <2>1, <2>4, <3>1 DEF DeclStmt
    <3>3. b.type = t.type
      BY <3>1, <3>2, ConvertedType
    <3> QED
      BY <1>1, <2>1, <2>2, <3>2, <3>3 DEF Matches, WellTyped, Node, ArithKinds, OrderKinds,
         EqualKinds, LogicalKinds,
         StepKinds, AssignedKinds
  <2> QED
    BY <2>3, <2>4
<1> QED
  BY <1>2, <1>3 DEF Grammar

\* What has been left for a child of an expression has a type.
LEMMA KidTyped ==
  ASSUME NEW Exprs, Grammar(Exprs), NEW t \in Exprs, NEW v, Matches(v, t)
  PROVE  v.type # "none" /\ t.kind \notin Untyped
BY DEF Grammar, Matches, Untyped, LeafKinds, BinaryKinds, UnaryKinds, ArithKinds, OrderKinds,
   EqualKinds, LogicalKinds, StepKinds, AssignedKinds

\* leave handlers that apply a rule.
LEMMA RuleMatches ==
  ASSUME NEW Exprs, Grammar(Exprs), NEW t \in Exprs \cup Statements, t.kind \notin {"ident", "call"},
         NEW V, NEW k \in Seq(V), Len(k) = Len(t.kids),
         \A i \in 1 .. Len(t.kids) : Matches(k[i], t.kids[i]), Rule(t, k) # Rejected
  PROVE  Matches(Rule(t, k), t)
<1>1. CASE t \in Statements
  BY <1>1, StatementMatches
<1>2. CASE t \in Exprs
  <2>1. t.kids \in Seq(Exprs)
    BY <1>2 DEF Grammar
  <2>2. CASE t.kind \in LeafKinds \cup UnaryKinds
    <3>1. t.kind \in UnaryKinds \cup {"boolean", "int", "double"}
      BY <2>2 DEF LeafKinds
    <3> QED
      BY <3>1, UnaryMatches
  <2>3. CASE t.kind \in BinaryKinds
    <3>1. Len(t.kids) = 2
      BY <1>2, <2>3 DEF Grammar, LeafKinds, BinaryKinds, UnaryKinds, ArithKinds, OrderKinds,
         EqualKinds, LogicalKinds, StepKinds, AssignedKinds
    <3>2. 1 \in 1 .. Len(t.kids) /\ 2 \in 1 .. Len(t.kids)
      BY <3>1
    <3>3. t.kids[1] \in Exprs /\ t.kids[2] \in Exprs
      BY <2>1, <3>2, ElementOfSeq
    <3>4. k[1].type # "none" /\ k[2].type # "none"
      BY <3>2, <3>3, KidTyped
    <3> QED
      BY <2>3, <3>4, BinaryMatches
  <2> QED
    BY <1>2, <2>2, <2>3 DEF Grammar
<1> QED
  BY <1>1, <1>2

\* The types that a call passes.
Passed(args) == [i \in DOMAIN args |-> args[i].type]

LEMMA CallTyped ==
  ASSUME NEW e, e.kind = "call", e.type # "none",
         Last(e.kids).kind = "function" /\ UniqueFunctions
           => Passed(Front(e.kids)) = func_list[Last(e.kids).n + 1].params
  PROVE  WellTyped(e)
<1>1. e.kind \notin {"declstmt", "ifenter", "exprstmt", "ifleave", "minus", "lognot"}
      /\ e.kind \notin ArithKinds /\ e.kind \notin OrderKinds /\ e.kind \notin EqualKinds
      /\ e.kind \notin LogicalKinds /\ e.kind \notin StepKinds /\ e.kind \notin AssignedKinds
  BY DEF ArithKinds, OrderKinds, EqualKinds, LogicalKinds, StepKinds, AssignedKinds
<1> QED
  BY <1>1 DEF WellTyped, Passed

\* leave_funccallexpr, for an identifier that is called. Where functions have
\* one name each, its value is the function whose parameters are checked.
LEMMA CallMatches ==
  ASSUME NEW Exprs, Grammar(Exprs), ScopeTypeOK, NEW t \in Exprs, t.kind = "call",
         NEW V, NEW k \in Seq(V), Len(k) = Len(t.kids),
         \A i \in 1 .. Len(t.kids) : Matches(k[i], t.kids[i]),
         NEW f, f = k[Len(k)], NEW args, args = Front(k),
         NEW n, n = FirstFunction(Last(t.kids).name), Last(t.kids).kind = "ident",
         NEW e, e = IF n = 0 THEN Node("call", f.type, 0, k)
                    ELSE FunctionCallExpr(func_list[n].params, f, args),
         e # Rejected
  PROVE  Matches(e, t)
<1>1. t.kids \in Seq(Exprs) /\ Len(t.kids) \in Nat /\ Len(t.kids) >= 1
  <2>1. t.kids \in Seq(Exprs) /\ Len(t.kids) >= 1
    BY DEF Grammar, LeafKinds, BinaryKinds, UnaryKinds, ArithKinds, OrderKinds,
       EqualKinds, LogicalKinds, StepKinds, AssignedKinds
  <2> QED
    BY <2>1, LenProperties
<1>m. PICK m \in Nat : m = Len(t.kids) /\ m >= 1
  BY <1>1
<1>d. PICK d \in Nat : d = m - 1 /\ d + 1 = m
  BY <1>m, m - 1 \in Nat
<1>2. /\ Last(t.kids) = t.kids[m] /\ t.kids[m] \in Exprs /\ f = k[m] /\ m \in 1 .. m
  BY <1>1, <1>m, ElementOfSeq DEF Last
<1>3. Matches(f, t.kids[m]) /\ f.type # "none"
  BY <1>m, <1>2, KidTyped
<1>4. args \in Seq(V) /\ Len(args) = d
  <2>1. args = SubSeq(k, 1, d)
    BY <1>m, <1>d DEF Front
  <2>2. \A i \in 1 .. d : k[i] \in V
    BY <1>m, <1>d, ElementOfSeq
  <2> QED
    BY <2>1, <2>2, SubSeqProperties
<1>5. func_list \in Seq([name : Names, type : DeclTypes, params : Seq(DeclTypes)])
  BY FuncListsAssumption DEF ScopeTypeOK
<1>6. f.kind = "function" => f.n + 1 \in DOMAIN func_list /\ func_list[f.n + 1].name = Last(t.kids).name
  BY <1>2, <1>3 DEF Matches
<1>7. ASSUME f.kind = "function", UniqueFunctions PROVE n = f.n + 1 /\ n # 0 /\ n \in DOMAIN func_list
  <2> DEFINE name == Last(t.kids).name
             named == {i \in DOMAIN func_list : func_list[i].name = name}
  <2>1. f.n + 1 \in named
    BY <1>6, <1>7
  <2>2. \A i \in named : i = f.n + 1
    BY <1>7, <2>1 DEF UniqueFunctions
  <2>3. named = {f.n + 1} /\ f.n + 1 \in DOMAIN func_list
    BY <2>1, <2>2
  <2>4. DOMAIN func_list = 1 .. Len(func_list) /\ Len(func_list) \in Nat
    BY <1>5, LenProperties
  <2>5. f.n + 1 <= f.n + 1 /\ f.n + 1 # 0
    BY <2>3, <2>4
  <2>6. n = IF named = {} THEN 0 ELSE CHOOSE i \in named : \A j \in named : i <= j
    BY DEF FirstFunction
  <2> HIDE DEF named
  <2>7. n \in named
    <3>1. \E i \in named : \A j \in named : i <= j
      BY <2>3, <2>5
    <3> QED
      BY <2>1, <2>6, <3>1
  <2> QED
    BY <2>3, <2>5, <2>7
<1>8. CASE n = 0
  <2>1. e = Node("call", f.type, 0, k) /\ e.kids = k
    BY <1>8 DEF Node
  <2>2. Last(e.kids) = f
    BY <2>1 DEF Last
  <2>3. ~(f.kind = "function" /\ UniqueFunctions)
    BY <1>7, <1>8
  <2>4. e.kind = "call" /\ e.type = f.type
    BY <2>1 DEF Node
  <2>5. WellTyped(e)
    BY <1>3, <2>2, <2>3, <2>4, CallTyped
  <2> QED
    BY <1>3, <2>4, <2>5 DEF Matches
<1>9. CASE n # 0
  <2>p. PICK params : params = func_list[n].params
    OBVIOUS
  <2> DEFINE conv == [i \in DOMAIN args |-> Converted(params[i], args[i])]
  <2>1. /\ e = Node("call", f.type, 0, Append(conv, f))
        /\ Len(params) = Len(args)
        /\ \A i \in DOMAIN params : Converted(params[i], args[i]) # Rejected
    BY <1>9, <2>p DEF FunctionCallExpr
  <2>2. DOMAIN args = 1 .. d
    BY <1>4, LenProperties
  <2>c. PICK c : c = conv
    OBVIOUS
  <2>w. PICK W : W = {c[i] : i \in 1 .. d} \cup {f}
    OBVIOUS
  <2>3. c \in Seq(W) /\ Len(c) = d /\ DOMAIN c = 1 .. d /\ f \in W
    <3>1. c \in [1 .. d -> W] /\ f \in W
      BY <2>2, <2>c, <2>w
    <3> QED
      BY <3>1, IsSequence
  <2>4. Last(Append(c, f)) = f /\ Front(Append(c, f)) = c
    <3>1. PICK a : a = Append(c, f)
      OBVIOUS
    <3>2. a \in Seq(W) /\ Len(a) = d + 1 /\ a[d + 1] = f /\ \A i \in 1 .. d : a[i] = c[i]
      BY <2>3, <3>1, AppendProperties
    <3>3. Front(a) = SubSeq(a, 1, d) /\ Last(a) = f
      BY <3>2 DEF Front, Last
    <3>4. \A i \in 1 .. d : a[i] \in W
      BY <3>2, ElementOfSeq
    <3>5. Front(a) \in Seq(W) /\ Len(Front(a)) = d /\ \A i \in 1 .. d : Front(a)[i] = a[i]
      BY <3>3, <3>4, SubSeqProperties
    <3>6. Front(a) = c
      BY <2>3, <3>2, <3>5, SeqEqual
    <3> QED
      BY <3>1, <3>3, <3>6
  <2>t. PICK types : types = [i \in DOMAIN c |-> c[i].type]
    OBVIOUS
  <2>5. ASSUME f.kind = "function", UniqueFunctions
        PROVE  types = func_list[f.n + 1].params
    <3>1. func_list[f.n + 1].params = params /\ n \in DOMAIN func_list
      BY <1>7, <2>p, <2>5
    <3>2. params \in Seq(DeclTypes)
      <4>1. func_list[n] \in [name : Names, type : DeclTypes, params : Seq(DeclTypes)]
        BY <1>5, <3>1, ElementOfSeq, LenProperties
      <4> QED
        BY <2>p, <4>1
    <3>3. DOMAIN params = 1 .. d /\ params \in [1 .. d -> DeclTypes]
      BY <1>4, <2>1, <3>2, LenProperties
    <3>4. \A i \in 1 .. d : c[i].type = params[i]
      BY <2>1, <2>2, <2>c, <3>3, ConvertedType
    <3> QED
      BY <2>3, <2>t, <3>1, <3>3, <3>4
  <2>6. e.kids = Append(c, f) /\ e.kind = "call" /\ e.type = f.type
    BY <2>1, <2>c DEF Node
  <2>7. WellTyped(e)
    <3>1. f = Last(e.kids) /\ c = Front(e.kids) /\ e.kind = "call" /\ e.type # "none"
      BY <1>3, <2>4, <2>6
    <3>2. Passed(c) = types
      BY <2>t DEF Passed
    <3>3. f.kind = "function" /\ UniqueFunctions => Passed(c) = func_list[f.n + 1].params
      BY <2>5, <3>2
    <3> QED
      BY <3>1, <3>3, CallTyped
  <2> QED
    BY <1>3, <2>6, <2>7 DEF Matches
<1> QED
  BY <1>8, <1>9

-----------------------------------------------------------------------------
(* While an identifier is looked up, its handler is the next call.           *)

AwaitsSearch ==
  /\ todo # <<>> /\ search.name = Cur.name
  /\ \/ Head(todo).call = "leave" /\ Cur.kind = "ident"
     \/ Head(todo).call = "enter" /\ Cur.kind = "declstmt"
FoundIs ==
  /\ search.at = "decl_found" => search.list \in 1 .. Len(decl_list)
  /\ search.at = "func_found" => /\ search.list \in 1 .. Len(func_list)
                                 /\ func_list[search.list].name = search.name
Found ==
  /\ outcome = "running" /\ search.at \notin {"idle", "crash"} => AwaitsSearch
  /\ FoundIs

LEMMA FoundStep ==
  ASSUME IInv, FoundIs, SearchStep
  PROVE  FoundIs'
<1>1. search.list \in Nat /\ Len(decl_list) \in Nat /\ Len(func_list) \in Nat
  <2>1. func_list \in Seq([name : Names, type : DeclTypes, params : Seq(DeclTypes)])
    BY FuncListsAssumption DEF IInv, ScopeTypeOK
  <2> QED
    BY <2>1 DEF IInv, ScopeTypeOK
<1>2. decl_list' = decl_list /\ func_list' = func_list
  BY DEF SearchStep, SkipBlock, MatchDecl, PassDecl, DeclAbsent, SkipFuncBlock, MatchFunc,
     PassFunc, FuncAbsent, Result, listVars
<1>t. search \in [at : {"idle", "decl", "func", "crash"} \cup Results,
                  name : Names \cup {NoName}, list : Nat, cp : Nat]
  BY DEF IInv, ScopeTypeOK
<1>3. CASE MatchDecl
  <2>1. search.at = "decl" /\ search.list # 0 /\ search' = [search EXCEPT !.at = "decl_found"]
    BY <1>3 DEF MatchDecl, Result
  <2>2. search'.at = "decl_found" /\ search'.list = search.list
    BY <1>t, <2>1
  <2>3. search.list <= Len(decl_list)
    BY <2>1 DEF IInv, DeclWalk
  <2> QED
    BY <1>1, <1>2, <2>1, <2>2, <2>3 DEF FoundIs
<1>4. CASE MatchFunc
  <2>1. search.at = "func" /\ search.list # 0 /\ search' = [search EXCEPT !.at = "func_found"]
        /\ func_list[search.list].name = search.name
    BY <1>4 DEF MatchFunc, Result
  <2>2. search'.at = "func_found" /\ search'.list = search.list /\ search'.name = search.name
    BY <1>t, <2>1
  <2>3. search.list <= Len(func_list)
    BY <2>1 DEF IInv, FuncWalk
  <2> QED
    BY <1>1, <1>2, <2>1, <2>2, <2>3 DEF FoundIs
<1>5. CASE ~MatchDecl /\ ~MatchFunc
  <2>1. search'.at \in {"decl", "func", "crash", "decl_absent", "func_absent"}
    BY <1>5, <1>t DEF SearchStep, SkipBlock, PassDecl, DeclAbsent, SkipFuncBlock, PassFunc,
       FuncAbsent, Result
  <2> QED
    BY <2>1 DEF FoundIs
<1> QED
  BY <1>3, <1>4, <1>5

LEMMA FoundNext ==
  ASSUME IInv, Found, CheckNext
  PROVE  Found'
<1>t. search \in [at : {"idle", "decl", "func", "crash"} \cup Results,
                  name : Names \cup {NoName}, list : Nat, cp : Nat]
  BY DEF IInv, ScopeTypeOK
<1>1. CASE Parsed \/ EnterNode \/ LeaveNode \/ LeaveCall \/ LeaveIf \/ LeaveEndIf \/ SearchCrashes
  <2>1. search' = search /\ decl_list' = decl_list /\ func_list' = func_list
    BY <1>1 DEF Parsed, ReadStatement, ReadIf, ReadBlock, ReadEmptyBlock,
       ReadClose, Close, Finish, AllRead, Arrive,
       EnterNode, LeaveNode, LeaveCall, LeaveIf, LeaveEndIf, SearchCrashes, scopeVars
  <2>2. outcome = "running"
    BY <1>1 DEF Parsed, ReadStatement, ReadIf, ReadBlock, ReadEmptyBlock,
       ReadClose, Close, Finish, AllRead, Read,
       AtStatement, EnterNode, LeaveNode, LeaveCall, LeaveIf, LeaveEndIf, SearchCrashes,
       Entering, Leaving
  <2>3. ~AwaitsSearch \/ search.at = "crash"
    BY <1>1 DEF Parsed, ReadStatement, ReadIf, ReadBlock, ReadEmptyBlock,
       ReadClose, Close, Finish, AllRead, Read,
       AtStatement, EnterNode, LeaveNode, LeaveCall, LeaveIf, LeaveEndIf, SearchCrashes,
       Entering, Leaving, Cur, AwaitsSearch
  <2> QED
    BY <2>1, <2>2, <2>3 DEF Found, FoundIs
<1>2. CASE LeaveIdent \/ EnterDecl
  <2>1. /\ todo' = todo /\ todo # <<>>
        /\ \/ Head(todo).call = "leave" /\ Cur.kind = "ident"
           \/ Head(todo).call = "enter" /\ Cur.kind = "declstmt"
        /\ search' = Search("decl", Cur.name, Len(decl_list), LastEnd)
    BY <1>2 DEF LeaveIdent, EnterDecl, Leaving, Entering, Cur, StartDeclSearch, checkVars
  <2>2. search'.at = "decl" /\ search'.name = Cur.name
    BY <2>1 DEF Search
  <2> QED
    BY <2>1, <2>2 DEF Found, FoundIs, AwaitsSearch, Cur
<1>3. CASE IdentNoVariable
  <2>1. todo' = todo /\ outcome' = outcome /\ search.at = "decl_absent" /\ outcome = "running"
        /\ search' = Search("func", search.name, Len(func_list), LastEnd)
    BY <1>3 DEF IdentNoVariable, StartFuncSearch, checkVars, Leaving
  <2>2. search'.at = "func" /\ search'.name = search.name
    BY <2>1 DEF Search
  <2> QED
    BY <2>1, <2>2 DEF Found, FoundIs, AwaitsSearch, Cur
<1>4. CASE Searching
  <2>1. todo' = todo /\ outcome' = outcome /\ SearchStep
    BY <1>4 DEF Searching, checkVars
  <2>2. search'.name = search.name /\ search.at \in {"decl", "func"}
    BY <1>t, <2>1 DEF SearchStep, SkipBlock, MatchDecl, PassDecl, DeclAbsent, SkipFuncBlock, MatchFunc,
       PassFunc, FuncAbsent, Result
  <2>3. FoundIs'
    BY <2>1, FoundStep DEF Found
  <2> QED
    BY <2>1, <2>2, <2>3 DEF Found, AwaitsSearch, Cur
<1>5. CASE IdentIsVariable \/ IdentIsFunction \/ IdentUnknown \/ AlreadyDefined \/ Declare
  <2>1. search' = Idle
    BY <1>5 DEF IdentIsVariable, IdentIsFunction, IdentUnknown, AlreadyDefined, Declare, Return,
       ChainDeclaration
  <2>2. search'.at = "idle"
    BY <2>1 DEF Idle, Search
  <2> QED
    BY <2>2 DEF Found, FoundIs
<1>6. CASE EnterBegin \/ EnterEmpty \/ EnterEnd
  <2>1. search' = search /\ search.at = "idle"
    BY <1>6 DEF EnterBegin, EnterEmpty, EnterEnd, BeginBlock, EmptyBlock, EndBlock
  <2> QED
    BY <2>1 DEF Found, FoundIs
<1> QED
  BY <1>1, <1>2, <1>3, <1>4, <1>5, <1>6 DEF CheckNext, Visit

-----------------------------------------------------------------------------
(* The handlers, one by one.                                                 *)

LEMMA EnteringIs ==
  ASSUME NEW kinds, Entering(kinds)
  PROVE  outcome = "running" /\ todo # <<>> /\ Head(todo).call = "enter" /\ Cur.kind \in kinds
BY DEF Entering, Cur

LEMMA LeavingIs ==
  ASSUME NEW kinds, Leaving(kinds)
  PROVE  outcome = "running" /\ todo # <<>> /\ Head(todo).call = "leave" /\ Cur.kind \in kinds
BY DEF Leaving, Cur

LEMMA LeftIs ==
  ASSUME NEW e, NEW log, Left(e, log)
  PROVE  /\ todo' = Tail(todo) /\ vals' = Append(Below, e) /\ outcome' = outcome
         /\ ~check_log' => ~check_log /\ ~log
BY DEF Left, Running

LEMMA StackVisit ==
  ASSUME NEW Exprs, Grammar(Exprs), Pending(Exprs), IInv, Found, Stacked, Visit
  PROVE  Stacked'
<1>f. func_list' = func_list
  BY DEF Visit, EnterNode, LeaveNode, LeaveCall, LeaveIdent, IdentIsVariable, IdentNoVariable,
     IdentIsFunction, IdentUnknown, Searching, SearchCrashes, EnterDecl, AlreadyDefined, Declare,
     LeaveIf, LeaveEndIf, EnterBegin, EnterEmpty, EnterEnd, StartDeclSearch, StartFuncSearch,
     SearchStep, SkipBlock, MatchDecl, PassDecl, DeclAbsent, SkipFuncBlock, MatchFunc, PassFunc,
     FuncAbsent, Result, Return, ChainDeclaration, BeginBlock, EndBlock, EmptyBlock,
     scopeVars, listVars
<1>l. /\ decl_list \in Seq([name : Names, type : DeclTypes])
      /\ func_list \in Seq([name : Names, type : DeclTypes, params : Seq(DeclTypes)])
      /\ search.list \in Nat /\ ScopeTypeOK
  BY FuncListsAssumption DEF IInv, ScopeTypeOK
<1>1. CASE EnterNode \/ AlreadyDefined \/ Declare
  <2>1. /\ todo # <<>> /\ Head(todo).call = "enter" /\ Cur.kind \notin BlockKinds
        /\ todo' = Visits(Cur) \o Tail(todo) /\ vals' = vals /\ (~check_log' => ~check_log)
    <3>1. CASE EnterNode
      <4>1. todo # <<>> /\ Entering({Cur.kind}) /\ todo' = Visits(Cur) \o Tail(todo)
            /\ vals' = vals /\ check_log' = check_log
        BY <3>1 DEF EnterNode
      <4>2. outcome = "running" /\ Head(todo).call = "enter"
        BY <4>1, EnteringIs
      <4>3. Cur.kind \notin BlockKinds
        BY <3>1, <4>1, <4>2 DEF EnterNode, Entering, BlockKinds, Cur
      <4> QED
        BY <4>1, <4>2, <4>3
    <3>2. CASE AlreadyDefined \/ Declare
      <4>1. Entering({"declstmt"})
        BY <3>2 DEF AlreadyDefined, Declare
      <4>2. \E log : DeclEntered(log)
        BY <3>2 DEF AlreadyDefined, Declare
      <4>3. todo' = Visits(Cur) \o Tail(todo) /\ vals' = vals /\ (~check_log' => ~check_log)
        BY <4>2 DEF DeclEntered, Running
      <4> QED
        BY <4>1, <4>3, EnteringIs DEF BlockKinds
    <3> QED
      BY <1>1, <3>1, <3>2
  <2> QED
    BY <1>f, <2>1, StackEntered
<1>2. CASE EnterBegin \/ EnterEmpty \/ EnterEnd
  <2>1. /\ todo # <<>> /\ Cur.kind \in BlockKinds /\ todo' = Tail(todo) /\ vals' = vals
        /\ check_log' = check_log
    BY <1>2 DEF EnterBegin, EnterEmpty, EnterEnd, Entering, Taken, BlockKinds, Cur
  <2> QED
    BY <1>f, <2>1, StackKept
<1>3. CASE LeaveIdent \/ IdentNoVariable \/ Searching \/ SearchCrashes \/ EnterDecl
           \/ ((LeaveCall \/ LeaveIf) /\ todo' = todo /\ vals' = vals /\ check_log' = check_log)
  <2>1. todo' = todo /\ vals' = vals /\ check_log' = check_log
    BY <1>3 DEF LeaveIdent, IdentNoVariable, Searching, SearchCrashes, EnterDecl, Stop, checkVars
  <2> QED
    BY <1>f, <2>1, StackSame
<1> DEFINE Leaves(e) ==
             /\ todo # <<>> /\ Head(todo).call = "leave" /\ Cur.kind \notin BlockKinds
             /\ todo' = Tail(todo) /\ vals' = Append(Below, e)
             /\ ~check_log' => ~check_log /\ Matches(e, Cur)
<1>4. ASSUME NEW e, Leaves(e) PROVE Stacked'
  BY <1>f, <1>4, StackLeft
<1>5. CASE LeaveNode
  <2>p. PICK k, r : k = Checked /\ r = Rule(Cur, k)
    OBVIOUS
  <2>e. PICK e : e = IF r = Rejected THEN Erroneous(Cur, k) ELSE r
    OBVIOUS
  <2>1. /\ todo # <<>> /\ Head(todo).call = "leave"
        /\ todo' = Tail(todo) /\ vals' = Append(Below, e)
        /\ check_log' = (check_log \/ r = Rejected)
        /\ Cur.kind \notin {"ident", "call", "ifenter", "ifleave"}
    <3>1. todo # <<>> /\ Head(todo).call = "leave" /\ outcome = "running"
      BY <1>5 DEF LeaveNode, Leaving
    <3>2. Cur.kind \notin {"ident", "call", "ifenter", "ifleave"}
      BY <1>5, <3>1 DEF LeaveNode, Leaving, Cur
    <3>3. Left(e, r = Rejected)
      BY <1>5, <2>p, <2>e DEF LeaveNode
    <3> QED
      BY <3>1, <3>2, <3>3 DEF Left, Running
  <2>2. Cur \in Trees(Exprs) /\ Cur.kind \notin BlockKinds
    BY <2>1, LeaveIsCall
  <2>3. Cur \in Exprs \cup Statements
    BY <2>1, <2>2 DEF Trees, IfEnters, EndIf, Tree
  <2>4. ASSUME ~check_log' PROVE ~check_log /\ Matches(e, Cur)
    <3>1. ~check_log /\ r # Rejected /\ e = r
      BY <2>1, <2>4, <2>e
    <3>2. PICK V, h, st : vals \in Seq(V) /\ Stacks(h, st)
      BY DEF Stacked
    <3>l. LeaveShape(Exprs, V, h, st, Len(vals) - Len(Cur.kids))
      BY <2>1, <2>2, <3>2, LeavingFacts
    <3>3. k \in Seq(V) /\ Len(k) = Len(Cur.kids)
      BY <2>p, <3>l DEF LeaveShape
    <3>4. \A i \in 1 .. Len(Cur.kids) : Matches(k[i], Cur.kids[i])
      BY <2>p, <3>1, <3>l DEF LeaveShape
    <3>5. Matches(r, Cur)
      BY <2>1, <2>3, <2>p, <3>1, <3>3, <3>4, RuleMatches
    <3> QED
      BY <3>1, <3>5
  <2>5. Leaves(e)
    BY <2>1, <2>2, <2>4
  <2> QED
    BY <1>4, <2>5
<1>6. CASE IdentIsVariable
  <2>d. PICK e : e = IdentExpr(search.list - 1, decl_list[search.list].type)
    OBVIOUS
  <2>1. /\ todo # <<>> /\ Head(todo).call = "leave" /\ Cur.kind = "ident"
        /\ search.at = "decl_found" /\ todo' = Tail(todo) /\ vals' = Append(Below, e)
        /\ ~check_log' => ~check_log
    <3>1. Leaving({"ident"}) /\ search.at = "decl_found" /\ Left(e, FALSE)
      BY <1>6, <2>d DEF IdentIsVariable
    <3>2. todo' = Tail(todo) /\ vals' = Append(Below, e) /\ (~check_log' => ~check_log)
      BY <3>1, LeftIs
    <3> QED
      BY <3>1, <3>2, LeavingIs
  <2>2. decl_list[search.list].type \in DeclTypes
    <3>1. search.list \in 1 .. Len(decl_list)
      BY <2>1 DEF Found, FoundIs
    <3>2. decl_list[search.list] \in [name : Names, type : DeclTypes]
      BY <1>l, <3>1, ElementOfSeq
    <3> QED
      BY <3>2
  <2>3. Matches(e, Cur)
    <3>1. e.kind = "ident" /\ e.type # "none" /\ e # Rejected
      BY <2>d, <2>2 DEF IdentExpr, Node, Rejected, Grammar
    <3> QED
      BY <3>1 DEF Matches, WellTyped, ArithKinds, OrderKinds, EqualKinds, LogicalKinds, StepKinds,
         AssignedKinds
  <2>4. Leaves(e)
    BY <2>1, <2>3 DEF BlockKinds
  <2> QED
    BY <1>4, <2>4
<1>7. CASE IdentIsFunction
  <2>d. PICK e : e = FunctionExpr(search.list - 1, func_list[search.list].type)
    OBVIOUS
  <2>1. /\ todo # <<>> /\ Head(todo).call = "leave" /\ Cur.kind = "ident" /\ outcome = "running"
        /\ search.at = "func_found" /\ todo' = Tail(todo) /\ vals' = Append(Below, e)
        /\ ~check_log' => ~check_log
    <3>1. Leaving({"ident"}) /\ search.at = "func_found" /\ Left(e, FALSE)
      BY <1>7, <2>d DEF IdentIsFunction
    <3>2. todo' = Tail(todo) /\ vals' = Append(Below, e) /\ (~check_log' => ~check_log)
      BY <3>1, LeftIs
    <3> QED
      BY <3>1, <3>2, LeavingIs
  <2>2. /\ search.list \in DOMAIN func_list /\ func_list[search.list].type \in DeclTypes
        /\ func_list[search.list].name = Cur.name
    <3>1. search.list \in 1 .. Len(func_list) /\ func_list[search.list].name = search.name
      BY <2>1 DEF Found, FoundIs
    <3>2. func_list[search.list] \in [name : Names, type : DeclTypes, params : Seq(DeclTypes)]
      BY <1>l, <3>1, ElementOfSeq
    <3>3. search.name = Cur.name
      BY <2>1 DEF Found, AwaitsSearch
    <3> QED
      BY <1>l, <3>1, <3>2, <3>3, LenProperties
  <2>3. Matches(e, Cur)
    <3>1. e.kind = "function" /\ e.type # "none" /\ e # Rejected /\ e.n = search.list - 1
      BY <2>d, <2>2 DEF FunctionExpr, Node, Rejected, Grammar
    <3>2. e.n + 1 = search.list
      BY <1>l, <3>1
    <3>3. WellTyped(e)
      BY <3>1 DEF WellTyped, ArithKinds, OrderKinds, EqualKinds, LogicalKinds, StepKinds, AssignedKinds
    <3> QED
      BY <2>1, <2>2, <3>1, <3>2, <3>3 DEF Matches
  <2>4. Leaves(e)
    BY <2>1, <2>3 DEF BlockKinds
  <2> QED
    BY <1>4, <2>4
<1>8. CASE IdentUnknown
  <2>d. PICK e : e = Node("ident", "none", 0, <<>>)
    OBVIOUS
  <2>1. Leaving({"ident"}) /\ Left(e, TRUE)
    BY <1>8, <2>d DEF IdentUnknown
  <2>2. todo' = Tail(todo) /\ vals' = Append(Below, e) /\ check_log'
    BY <2>1, LeftIs
  <2>3. todo # <<>> /\ Head(todo).call = "leave" /\ Cur.kind \notin BlockKinds
    BY <2>1, LeavingIs DEF BlockKinds
  <2>4. Leaves(e)
    BY <2>2, <2>3
  <2> QED
    BY <1>4, <2>4
<1>9. CASE LeaveEndIf
  <2>1. Matches(IfLeave, Cur)
    <3>1. Cur.kind = "ifleave" /\ IfLeave.kind = "ifleave" /\ IfLeave # Rejected
      BY <1>9 DEF LeaveEndIf, Leaving, Cur, IfLeave, Node, Rejected
    <3> QED
      BY <3>1 DEF Matches, WellTyped, Untyped, ArithKinds, OrderKinds, EqualKinds, LogicalKinds,
         StepKinds, AssignedKinds
  <2>2. Leaves(IfLeave)
    BY <1>9, <2>1 DEF LeaveEndIf, Leaving, Left, Running, Cur, BlockKinds
  <2> QED
    BY <1>4, <2>2
<1>10. CASE LeaveIf
  <2>d. PICK c, e : c = Checked[1] /\ e = IfEnter(c)
    OBVIOUS
  <2>1. \/ todo' = todo /\ vals' = vals /\ check_log' = check_log
        \/ /\ e # Rejected /\ todo # <<>> /\ Head(todo).call = "leave" /\ Cur.kind = "ifenter"
           /\ todo' = Tail(todo) /\ vals' = Append(Below, e) /\ (~check_log' => ~check_log)
    <3>1. Leaving({"ifenter"}) /\ ((Left(e, FALSE) /\ e # Rejected) \/ Stop("exit") \/ Stop("crash"))
      BY <1>10, <2>d DEF LeaveIf
    <3>2. Left(e, FALSE) => todo' = Tail(todo) /\ vals' = Append(Below, e) /\ (~check_log' => ~check_log)
      BY LeftIs
    <3>3. todo # <<>> /\ Head(todo).call = "leave" /\ Cur.kind = "ifenter"
      BY <3>1, LeavingIs
    <3>4. Stop("exit") \/ Stop("crash") => todo' = todo /\ vals' = vals /\ check_log' = check_log
      BY DEF Stop
    <3> QED
      BY <3>1, <3>2, <3>3, <3>4
  <2>2. ASSUME e # Rejected, Cur.kind = "ifenter" PROVE Matches(e, Cur)
    <3>1. e = Node("ifenter", "none", 0, <<c>>) /\ c.type \in {"boolean", "int"}
      BY <2>d, <2>2 DEF IfEnter
    <3> QED
      BY <2>2, <3>1 DEF Matches, WellTyped, Untyped, Node, ArithKinds, OrderKinds, EqualKinds,
         LogicalKinds, StepKinds, AssignedKinds
  <2>3. \/ todo' = todo /\ vals' = vals /\ check_log' = check_log
        \/ Leaves(e)
    <3>1. Cur.kind = "ifenter" => Cur.kind \notin BlockKinds
      BY DEF BlockKinds
    <3> QED
      BY <2>1, <2>2, <3>1
  <2> QED
    BY <1>3, <1>4, <1>10, <2>3
<1>11. CASE LeaveCall
  <2>1. /\ todo # <<>> /\ Head(todo).call = "leave" /\ Cur.kind = "call" /\ Cur \in Exprs
    <3>1. todo # <<>> /\ Head(todo).call = "leave" /\ Cur.kind = "call"
      BY <1>11 DEF LeaveCall, Leaving, Cur
    <3>2. Cur \in Trees(Exprs)
      BY <3>1, LeaveIsCall
    <3> QED
      BY <3>1, <3>2 DEF Trees, IfEnters, EndIf, Tree, Grammar
  <2>k. PICK k : k = Checked
    OBVIOUS
  <2>d. PICK f, args, n : f = k[Len(k)] /\ args = Front(k) /\ n = FirstFunction(Last(Cur.kids).name)
    OBVIOUS
  <2>c. PICK call : call = IF n = 0 THEN Node("call", f.type, 0, k)
                           ELSE FunctionCallExpr(func_list[n].params, f, args)
    OBVIOUS
  <2>e. PICK e : e = IF call = Rejected THEN Node("call", f.type, 0, k) ELSE call
    OBVIOUS
  <2>2. \/ todo' = todo /\ vals' = vals /\ check_log' = check_log
        \/ Left(e, call = Rejected) /\ Last(Cur.kids).kind = "ident"
    BY <1>11, <2>k, <2>d, <2>c, <2>e DEF LeaveCall, Stop
  <2>3. ASSUME ~check_log, call # Rejected, Last(Cur.kids).kind = "ident" PROVE Matches(e, Cur)
    <3>1. PICK V, h, st : vals \in Seq(V) /\ Stacks(h, st)
      BY DEF Stacked
    <3>2. Cur.kind \notin BlockKinds
      BY <2>1 DEF BlockKinds
    <3>l. LeaveShape(Exprs, V, h, st, Len(vals) - Len(Cur.kids))
      BY <2>1, <3>1, <3>2, LeavingFacts
    <3>3. k \in Seq(V) /\ Len(k) = Len(Cur.kids)
      BY <2>k, <3>l DEF LeaveShape
    <3>4. \A i \in 1 .. Len(Cur.kids) : Matches(k[i], Cur.kids[i])
      BY <2>3, <2>k, <3>l DEF LeaveShape
    <3>5. Matches(call, Cur)
      BY <1>l, <2>1, <2>3, <2>d, <2>c, <3>3, <3>4, CallMatches
    <3> QED
      BY <2>3, <2>e, <3>5
  <2>4. ASSUME Left(e, call = Rejected), Last(Cur.kids).kind = "ident" PROVE Leaves(e)
    BY <2>1, <2>3, <2>4 DEF Left, Running, BlockKinds
  <2> HIDE DEF Leaves
  <2> QED
    BY <1>3, <1>4, <1>11, <2>2, <2>4
<1> QED
  BY <1>1, <1>2, <1>3, <1>5, <1>6, <1>7, <1>8, <1>9, <1>10, <1>11 DEF Visit

\* A null type is met only by a program that is logged.
LEMMA NullTypes ==
  ASSUME NEW Exprs, Grammar(Exprs), Pending(Exprs), Stacked, LeaveCall \/ LeaveIf,
         outcome' = "crash"
  PROVE  check_log
<1> SUFFICES ASSUME ~check_log PROVE FALSE
  OBVIOUS
<1>1. outcome = "running" /\ todo # <<>> /\ Head(todo).call = "leave" /\ Cur.kind \in {"call", "ifenter"}
  BY DEF LeaveCall, LeaveIf, Leaving, Cur
<1>2. Cur \in Trees(Exprs) /\ Cur.kind \notin BlockKinds
  BY <1>1, LeaveIsCall
<1>3. PICK V, h, st : vals \in Seq(V) /\ Stacks(h, st)
  BY DEF Stacked
<1>k. PICK k : k = Checked
  OBVIOUS
<1>s. LeaveShape(Exprs, V, h, st, Len(vals) - Len(Cur.kids))
  BY <1>1, <1>2, <1>3, LeavingFacts
<1>4. k \in Seq(V) /\ Len(k) = Len(Cur.kids)
  BY <1>k, <1>s DEF LeaveShape
<1>5. \A i \in 1 .. Len(Cur.kids) : Matches(k[i], Cur.kids[i])
  BY <1>k, <1>s DEF LeaveShape
<1>6. \A i \in 1 .. Len(Cur.kids) : k[i].type # "none"
  <2>1. Cur.kids \in Seq(Exprs)
    BY <1>2, TreeShape
  <2> QED
    BY <1>5, <2>1, KidTyped, ElementOfSeq
<1>7. CASE LeaveIf
  <2>1. k[1].type = "none" /\ Cur.kind = "ifenter"
    BY <1>1, <1>7, <1>k, LeavingIs DEF LeaveIf, Left, Running, Stop
  <2>2. Len(Cur.kids) = 1
    <3>1. Cur \in IfEnters
      BY <1>2, <2>1 DEF Trees, Grammar, LeafKinds, BinaryKinds, UnaryKinds, ArithKinds, OrderKinds,
         EqualKinds, LogicalKinds, StepKinds, AssignedKinds, EndIf, Tree
    <3> QED
      BY <3>1 DEF IfEnters, Tree
  <2> QED
    BY <1>6, <2>1, <2>2
<1>8. CASE LeaveCall
  <2>1. PICK args : args = Front(k)
    OBVIOUS
  <2>2. \E i \in DOMAIN args : args[i].type = "none"
    BY <1>1, <1>8, <1>k, <2>1 DEF LeaveCall, Left, Running, Stop
  <2>3. Len(k) \in Nat /\ Len(k) >= 1
    <3>1. Cur.kind = "call" /\ Cur \in Exprs
      <4>1. Cur.kind = "call"
        BY <1>8, LeavingIs DEF LeaveCall
      <4> QED
        BY <1>2, <4>1 DEF Trees, IfEnters, EndIf, Tree, Grammar
    <3>2. Len(Cur.kids) >= 1
      BY <3>1 DEF Grammar, LeafKinds, BinaryKinds, UnaryKinds, ArithKinds, OrderKinds,
         EqualKinds, LogicalKinds, StepKinds, AssignedKinds
    <3> QED
      BY <1>4, <3>2, LenProperties
  <2>d. PICK d \in Nat : d = Len(k) - 1 /\ d + 1 = Len(k)
    BY <2>3, Len(k) - 1 \in Nat
  <2>4. DOMAIN args = 1 .. d /\ \A i \in 1 .. d : args[i] = k[i]
    <3>1. args = SubSeq(k, 1, d)
      BY <2>1, <2>d DEF Front
    <3>2. \A i \in 1 .. d : k[i] \in V
      BY <1>4, <2>d, ElementOfSeq
    <3>3. args \in Seq(V) /\ Len(args) = d /\ \A i \in 1 .. d : args[i] = k[i]
      BY <3>1, <3>2, SubSeqProperties
    <3> QED
      BY <3>3, LenProperties
  <2> QED
    BY <1>4, <1>6, <2>2, <2>d, <2>4
<1> QED
  BY <1>7, <1>8

-----------------------------------------------------------------------------
(* The invariant of the types, and what follows from it.                     *)

TypedInv(Exprs) == Pending(Exprs) /\ NestOK /\ Found /\ Stacked /\ NullTypesLogged

LEMMA TypedInit ==
  ASSUME NEW Exprs, CheckInit
  PROVE  TypedInv(Exprs)
<1>1. todo = <<>> /\ vals = <<>> /\ outcome = "running" /\ search.at = "idle"
  BY DEF CheckInit, ScopeInit, Idle, Search
<1>2. Pending(Exprs) /\ NestOK
  BY BraceInit
<1>3. Found /\ NullTypesLogged
  BY <1>1 DEF Found, FoundIs, NullTypesLogged
<1>4. Stacked
  <2>1. PICK h : h = [j \in 1 .. 1 |-> 0]
    OBVIOUS
  <2>2. h \in [1 .. 1 -> Nat] /\ h[1] = 0
    BY <2>1
  <2>3. Len(todo) = 0 /\ Len(vals) = 0 /\ vals \in Seq({})
    BY <1>1
  <2>4. Stacks(h, h)
    BY <2>2, <2>3 DEF Stacks
  <2> QED
    BY <2>3, <2>4 DEF Stacked
<1> QED
  BY <1>2, <1>3, <1>4 DEF TypedInv

\* Only a null type or the search for a function crashes the check.
LEMMA CrashIs ==
  ASSUME CheckNext, outcome' = "crash"
  PROVE  LeaveCall \/ LeaveIf \/ SearchCrashes
<1>1. outcome = "running"
  BY DEF CheckNext, Parsed, ReadStatement, ReadIf, ReadBlock, ReadEmptyBlock,
       ReadClose, Close, Finish, AllRead,
     Read, AtStatement, Visit, EnterNode, LeaveNode, LeaveCall, LeaveIdent, IdentIsVariable,
     IdentNoVariable, IdentIsFunction, IdentUnknown, Searching, SearchCrashes, EnterDecl,
     AlreadyDefined, Declare, LeaveIf, LeaveEndIf, EnterBegin, EnterEmpty, EnterEnd,
     Entering, Leaving
<1>2. CASE Parsed
  <2>1. outcome' \in {outcome, "rejected", "accepted"}
    BY <1>2 DEF Parsed, ReadStatement, ReadIf, ReadBlock, ReadEmptyBlock,
       ReadClose, Close, Finish, AllRead, Arrive
  <2> QED
    BY <1>1, <2>1
<1>3. CASE EnterNode \/ LeaveNode \/ LeaveIdent \/ IdentIsVariable \/ IdentNoVariable
           \/ IdentIsFunction \/ IdentUnknown \/ Searching \/ EnterDecl \/ AlreadyDefined
           \/ Declare \/ LeaveEndIf \/ EnterBegin \/ EnterEmpty \/ EnterEnd
  <2>1. outcome' = outcome
    BY <1>3 DEF EnterNode, LeaveNode, LeaveIdent, IdentIsVariable, IdentNoVariable,
       IdentIsFunction, IdentUnknown, Searching, EnterDecl, AlreadyDefined, Declare, LeaveEndIf,
       EnterBegin, EnterEmpty, EnterEnd, DeclEntered, Left, Running, Taken, checkVars
  <2> QED
    BY <1>1, <2>1
<1> QED
  BY <1>2, <1>3 DEF CheckNext, Visit

LEMMA LogKept ==
  ASSUME NEW Exprs, Grammar(Exprs), Pending(Exprs), Stacked, CheckNext
  PROVE  NullTypesLogged'
<1> SUFFICES ASSUME outcome' = "crash", search'.at # "crash" PROVE check_log'
  BY DEF NullTypesLogged
<1>1. CASE LeaveCall \/ LeaveIf
  <2>1. check_log
    BY <1>1, NullTypes
  <2>2. check_log => check_log'
    BY <1>1 DEF LeaveCall, LeaveIf, Left, Running, Stop
  <2> QED
    BY <2>1, <2>2
<1>2. CASE SearchCrashes
  BY <1>2 DEF SearchCrashes, scopeVars
<1> QED
  BY <1>1, <1>2, CrashIs

LEMMA TypedNext ==
  ASSUME NEW Exprs, Grammar(Exprs), TypedInv(Exprs), IInv, [CheckNext]_meanVars
  PROVE  TypedInv(Exprs)'
<1>1. ScopeTypeOK /\ Pending(Exprs) /\ NestOK /\ Found /\ Stacked /\ NullTypesLogged
  BY DEF TypedInv, IInv
<1>2. Pending(Exprs)' /\ NestOK'
  BY <1>1, BraceNext
<1>3. ASSUME CheckNext PROVE Found' /\ Stacked' /\ NullTypesLogged'
  <2>1. Found'
    BY <1>1, <1>3, FoundNext
  <2>2. Stacked'
    BY <1>1, <1>3, StackRead, StackVisit DEF CheckNext
  <2>3. NullTypesLogged'
    BY <1>1, <1>3, LogKept
  <2> QED
    BY <2>1, <2>2, <2>3
<1>4. ASSUME UNCHANGED meanVars PROVE Found' /\ Stacked' /\ NullTypesLogged'
  <2>1. /\ todo' = todo /\ vals' = vals /\ outcome' = outcome /\ search' = search
        /\ func_list' = func_list /\ decl_list' = decl_list
    BY <1>4 DEF meanVars, scopeVars, checkVars
  <2>2. check_log' = check_log
    BY <1>4 DEF meanVars, checkVars
  <2>3. Stacked'
    BY <1>1, <2>1, <2>2, StackSame
  <2>4. Found'
    BY <1>1, <2>1 DEF Found, FoundIs, AwaitsSearch, Cur
  <2>5. NullTypesLogged'
    BY <1>1, <2>1, <2>2 DEF NullTypesLogged
  <2> QED
    BY <2>3, <2>4, <2>5
<1> QED
  BY <1>2, <1>3, <1>4 DEF TypedInv

LEMMA StackedIsTyped ==
  ASSUME Stacked
  PROVE  AcceptedIsTyped
<1>1. PICK V, h, st : vals \in Seq(V) /\ Stacks(h, st)
  BY DEF Stacked
<1>2. ASSUME ~check_log, NEW i \in DOMAIN vals PROVE WellTyped(vals[i])
  <2>1. i \in 1 .. Len(vals)
    BY <1>1, LenProperties
  <2>2. Matches(vals[i], st[1][i])
    BY <1>1, <1>2, <2>1 DEF Stacks
  <2> QED
    BY <2>2 DEF Matches
<1> QED
  BY <1>2 DEF AcceptedIsTyped

LEMMA TypedInvHolds ==
  ASSUME NEW CONSTANT Exprs, Grammar(Exprs)
  PROVE  CheckSpec => []TypedInv(Exprs)
<1>1. CheckInit => TypedInv(Exprs)
  BY TypedInit
<1>2. TypedInv(Exprs) /\ IInv /\ [CheckNext]_meanVars => TypedInv(Exprs)'
  BY TypedNext
<1> QED
  BY <1>1, <1>2, CheckImplementsScope, IInvHolds, PTL DEF CheckSpec

\* An accepted program is typed, however long it is and however deep its
\* expressions are: while nothing is logged the rules and their casts leave
\* every node with the types the code generator reads (meanvisitor.c:147-520).
THEOREM AcceptedTyped ==
  ASSUME NEW CONSTANT Exprs, Grammar(Exprs)
  PROVE  CheckSpec => []AcceptedIsTyped
<1>1. TypedInv(Exprs) => AcceptedIsTyped
  BY StackedIsTyped DEF TypedInv
<1> QED
  BY <1>1, TypedInvHolds, PTL

\* The walk over a null type stops the check only when an error is logged, for
\* every program of the grammar (meanvisitor.c:485, 547).
THEOREM CrashesAreLogged ==
  ASSUME NEW CONSTANT Exprs, Grammar(Exprs)
  PROVE  CheckSpec => []NullTypesLogged
<1>1. TypedInv(Exprs) => NullTypesLogged
  BY DEF TypedInv
<1> QED
  BY <1>1, TypedInvHolds, PTL


-----------------------------------------------------------------------------
(* Cgent implements the check.                                               *)

LEMMA MainKeepsChecked ==
  ASSUME CgentNext, ~Check
  PROVE  UNCHANGED meanVars
BY DEF CgentNext, NoInput, Create, ParseError, Parse, CheckStops, EndCheck, Generate, Traverse,
       GenerateStops, CopyCode, EndGenerate, OpenOutput, OpenFails, CloseOutput,
       DeleteExecutable,
       ShowTree, EndTree, DeleteCompiler, Main

\* The program touches the lists, the trees and the log only in do_mean_check.
THEOREM ProgramImplementsCheck == CgentSpec => CheckSpec
<1>1. CgentInit => CheckInit
  BY DEF CgentInit
<1>2. [CgentNext]_cgentVars => [CheckNext]_meanVars
  <2> SUFFICES ASSUME [CgentNext]_cgentVars PROVE CheckNext \/ UNCHANGED meanVars
    OBVIOUS
  <2>1. CASE Check
    BY <2>1 DEF Check
  <2>2. CASE CgentNext /\ ~Check
    BY <2>2, MainKeepsChecked
  <2>3. CASE UNCHANGED cgentVars
    BY <2>3 DEF cgentVars
  <2> QED
    BY <2>1, <2>2, <2>3
<1> QED
  BY <1>1, <1>2, PTL DEF CgentSpec, CheckSpec

\* In every program that is checked: a name means what the language says as
\* long as no block was closed inside another, no block has two variables of one
\* name, the search for a function fails only at an odd checkpoint, and every
\* turn of a search moves back.
THEOREM ProgramScopes ==
  /\ CgentSpec => [](ScopeTypeOK /\ ExactWhenFlat /\ OwnBlockUnique /\ CrashesWhenOdd)
  /\ CgentSpec => SearchDescends
BY ProgramImplementsCheck, CheckImplementsScope, ScopeTypes, SearchIsExactWhenFlat,
   OwnBlocksUnique, FunctionSearchCrashes, SearchesDescend, PTL

\* In the program too, the blocks are those of the braces (csua.y:108-166).
THEOREM ProgramBraces ==
  ASSUME NEW CONSTANT Exprs, Grammar(Exprs)
  PROVE  CgentSpec => []BracesAreBlocks
BY ProgramImplementsCheck, BracesMatchBlocks, PTL

\* A program that is accepted is typed, and the walk over a null type stops
\* cgent only when an error is logged (meanvisitor.c:147-520, 547).
THEOREM ProgramTyped ==
  ASSUME NEW CONSTANT Exprs, Grammar(Exprs)
  PROVE  CgentSpec => [](AcceptedIsTyped /\ NullTypesLogged)
BY ProgramImplementsCheck, AcceptedTyped, CrashesAreLogged, PTL

-----------------------------------------------------------------------------
(* What main owns in each phase.                                             *)

Inputs    == Owned("main", {"input", "storage"})
Output    == Owned("main", {"output"})
Executable == VariableBlocks(Len(decl_list)) \cup Owned("exec", {"constant_pool", "code", "exec"})
Generator == VisitorBlocks("codegen") \cup Notify("codegen")

Owns ==
  /\ phase = "start" => live = {}
  /\ phase = "parse" => live \subseteq Inputs
  /\ phase = "check" => live \subseteq Inputs \cup VisitorBlocks("mean")
  /\ phase \in {"generate", "tree", "close"} => live \subseteq Inputs
  /\ phase = "traverse" => live \subseteq Inputs \cup Executable \cup Generator
  /\ phase = "finish" => live \subseteq Inputs \cup Executable \cup Generator
                                                \cup Owned("codegen", {"code"})
  /\ phase = "generated" => live \subseteq Inputs \cup Executable \cup Generator
  /\ phase \in {"write", "delete_executable"} => live \subseteq Inputs \cup Executable
  /\ phase = "delete" => live \subseteq Inputs \cup Executable \cup Output
  /\ phase = "shown" => live \subseteq Inputs \cup VisitorBlocks("tree")
  /\ phase = "ended" => live = {}

\* An executable is made between two phases, of a program that was accepted.
Making == {"traverse", "finish", "generated", "write", "delete", "delete_executable"}
Accepted ==
  /\ outcome = "accepted" => ~check_log
  /\ phase \in Making \cup {"generate"} => outcome = "accepted"

MainInv == Owns /\ Accepted /\ GeneratesChecked

\* Nothing outside an executable is the block of one.
LEMMA ExecOnly ==
  ASSUME Owned("exec", {"exec"}) \subseteq Inputs \cup VisitorBlocks("mean") \cup VisitorBlocks("tree")
  PROVE  FALSE
<1>1. <<"exec", "exec", 0>> \in Owned("exec", {"exec"})
  BY DEF Owned
<1>2. \A v : v \in {"main", "mean", "tree"} => v # "exec"
  OBVIOUS
<1>3. <<"exec", "exec", 0>> \notin Inputs \cup VisitorBlocks("mean") \cup VisitorBlocks("tree")
  BY DEF Inputs, VisitorBlocks, Owned
<1> QED
  BY <1>1, <1>3

LEMMA Parts ==
  /\ Owned("exec", {"exec"}) \cup VariableBlocks(Len(decl_list)) \subseteq Executable
  /\ Owned("exec", {"constant_pool"}) \subseteq Executable
  /\ Owned("exec", {"code"}) \subseteq Executable
BY DEF Owned, Executable

LEMMA OwnsInit == CgentInit => MainInv
<1> SUFFICES ASSUME CgentInit PROVE MainInv
  OBVIOUS
<1>1. phase = "start" /\ live = {} /\ outcome = "running"
  BY DEF CgentInit, CheckInit
<1>2. Owned("exec", {"exec"}) # {}
  <2>1. <<"exec", "exec", 0>> \in Owned("exec", {"exec"})
    BY DEF Owned
  <2> QED
    BY <2>1
<1>3. Owns
  BY <1>1 DEF Owns
<1>4. Accepted
  BY <1>1 DEF Accepted, Making
<1>5. GeneratesChecked
  BY <1>1, <1>2 DEF GeneratesChecked
<1> QED
  BY <1>3, <1>4, <1>5 DEF MainInv

\* The check ends with "accepted" only if nothing was logged.
LEMMA CheckAccepts ==
  ASSUME CheckNext
  PROVE  outcome = "running" /\ (outcome' = "accepted" => ~check_log')
<1>1. CASE ReadStatement \/ ReadIf \/ ReadBlock \/ ReadEmptyBlock \/ ReadClose
  <2>1. outcome = "running"
    BY <1>1 DEF ReadStatement, ReadIf, ReadBlock, ReadEmptyBlock, ReadClose, Close, Read, AtStatement
  <2>2. outcome' = outcome
    BY <1>1 DEF ReadStatement, ReadIf, ReadBlock, ReadEmptyBlock, ReadClose, Arrive
  <2> QED
    BY <2>1, <2>2
<1>3. CASE Finish
  BY <1>3 DEF Finish, AllRead, AtStatement
<1>2. CASE Visit
  <2>1. outcome = "running"
    BY <1>2 DEF Visit, EnterNode, LeaveNode, LeaveCall, LeaveIdent, IdentIsVariable,
       IdentNoVariable, IdentIsFunction, IdentUnknown, Searching, SearchCrashes, EnterDecl,
       AlreadyDefined, Declare, LeaveIf, LeaveEndIf, EnterBegin, EnterEmpty, EnterEnd,
       Entering, Leaving
  <2>2. outcome' \in {"running", "exit", "crash"}
    BY <1>2, <2>1 DEF Visit, EnterNode, LeaveNode, LeaveCall, LeaveIdent, IdentIsVariable,
       IdentNoVariable, IdentIsFunction, IdentUnknown, Searching, SearchCrashes, EnterDecl,
       AlreadyDefined, Declare, LeaveIf, LeaveEndIf, EnterBegin, EnterEmpty, EnterEnd,
       DeclEntered, Left, Running, Stop, Taken, checkVars
  <2> QED
    BY <2>1, <2>2
<1> QED
  BY <1>1, <1>2, <1>3 DEF CheckNext, Parsed

\* In a check, nothing is allocated; outside of it, nothing is checked.
LEMMA CheckKeepsMain ==
  ASSUME MainInv, Check
  PROVE  MainInv'
<1>1. /\ phase = "check" /\ phase' = phase /\ live' = live
      /\ outcome = "running" /\ (outcome' = "accepted" => ~check_log')
  BY CheckAccepts DEF Check
<1>2. Owns' /\ Accepted'
  BY <1>1 DEF MainInv, Owns, Accepted, Making, Inputs
<1>3. ~(Owned("exec", {"exec"}) \subseteq live)
  BY <1>1, ExecOnly DEF MainInv, Owns
<1> QED
  BY <1>1, <1>2, <1>3 DEF MainInv, GeneratesChecked, Owned

LEMMA MainHolds ==
  ASSUME MainInv, CgentNext, ~Check
  PROVE  MainInv'
<1>1. UNCHANGED <<decl_list, outcome, check_log>>
  BY MainKeepsChecked DEF meanVars, scopeVars, checkVars
<1>2. /\ Executable' = Executable /\ Inputs' = Inputs /\ Output' = Output
      /\ Generator' = Generator
      /\ Owned("codegen", {"code"})' = Owned("codegen", {"code"})
  BY <1>1 DEF Executable, VariableBlocks, Owned, Inputs, Output, Generator, VisitorBlocks, Notify
<1>3. ASSUME phase \in Making \cup {"generate"} PROVE GeneratesChecked'
  BY <1>1, <1>3 DEF MainInv, Accepted, GeneratesChecked
<1>4. ASSUME live' \subseteq Inputs \cup VisitorBlocks("mean") \cup VisitorBlocks("tree")
      PROVE  GeneratesChecked'
  <2>1. ~(Owned("exec", {"exec"}) \subseteq live')
    BY <1>4, ExecOnly
  <2> QED
    BY <2>1 DEF GeneratesChecked, Owned
<1>5. CASE NoInput \/ ParseError \/ CheckStops \/ GenerateStops \/ OpenFails
  <2>1. live' = live /\ phase' = "exited"
    BY <1>5 DEF NoInput, ParseError, CheckStops, GenerateStops, OpenFails, Main, Exit
  <2> QED
    BY <1>1, <2>1 DEF MainInv, Owns, Accepted, Making, GeneratesChecked, Owned
<1>6. CASE Create \/ Parse \/ EndCheck \/ ShowTree \/ EndTree \/ DeleteCompiler
  <2>1. Owns'
    BY <1>6 DEF MainInv, Owns, Create, Parse, EndCheck, ShowTree, EndTree, DeleteCompiler,
                Main, DeleteVisitor, Inputs
  <2>2. live' \subseteq Inputs \cup VisitorBlocks("mean") \cup VisitorBlocks("tree")
    BY <1>6 DEF MainInv, Owns, Create, Parse, EndCheck, ShowTree, EndTree, DeleteCompiler,
                Main, DeleteVisitor, Inputs
  <2>3. Accepted'
    BY <1>1, <1>6 DEF MainInv, Accepted, Making, Create, Parse, EndCheck, ShowTree, EndTree,
                      DeleteCompiler, Main
  <2> QED
    BY <1>4, <2>1, <2>2, <2>3 DEF MainInv
<1>7. CASE Generate \/ Traverse \/ CopyCode \/ EndGenerate
  <2>1. phase \in Making \cup {"generate"} /\ phase' \in Making
    BY <1>7 DEF Generate, Traverse, CopyCode, EndGenerate, Main, Making
  <2>2. ASSUME Generate PROVE Owns'
    <3>1. phase' = "traverse" /\ live' \subseteq Inputs \cup Executable \cup Generator
      BY <2>2, Parts DEF MainInv, Owns, Generate, Main, Generator
    <3> QED
      BY <1>2, <3>1 DEF Owns
  <2>3. ASSUME Traverse PROVE Owns'
    <3>1. phase' = "finish" /\ live \subseteq Inputs \cup Executable \cup Generator
      BY <2>3 DEF MainInv, Owns, Traverse, Main
    <3>2. live' \subseteq live \cup Owned("codegen", {"code"}) \cup Owned("exec", {"constant_pool"})
      BY <2>3 DEF Traverse
    <3>3. live' \subseteq Inputs \cup Executable \cup Generator \cup Owned("codegen", {"code"})
      BY <3>1, <3>2, Parts
    <3> QED
      BY <1>2, <3>1, <3>3 DEF Owns
  <2>4. ASSUME CopyCode PROVE Owns'
    <3>1. /\ phase' = "generated"
          /\ live \subseteq Inputs \cup Executable \cup Generator \cup Owned("codegen", {"code"})
          /\ live' = (live \ Owned("codegen", {"code"})) \cup Owned("exec", {"code"})
      BY <2>4 DEF MainInv, Owns, CopyCode, Main
    <3>2. live' \subseteq Inputs \cup Executable \cup Generator
      BY <3>1, Parts
    <3> QED
      BY <1>2, <3>1, <3>2 DEF Owns
  <2>5. ASSUME EndGenerate PROVE Owns'
    <3>1. phase' = "write" /\ live' \subseteq Inputs \cup Executable
      BY <2>5 DEF MainInv, Owns, EndGenerate, Main, DeleteVisitor, Generator
    <3> QED
      BY <1>2, <3>1 DEF Owns
  <2>6. Owns'
    BY <1>7, <2>2, <2>3, <2>4, <2>5
  <2>7. Accepted'
    BY <1>1, <2>1 DEF MainInv, Accepted
  <2> QED
    BY <1>3, <2>1, <2>6, <2>7 DEF MainInv
<1>8. CASE OpenOutput \/ CloseOutput \/ DeleteExecutable
  <2>1. phase \in Making /\ phase' \in Making \cup {"tree"}
    BY <1>8 DEF OpenOutput, CloseOutput, DeleteExecutable, Main, Making
  <2>2. ASSUME OpenOutput PROVE Owns'
    <3>1. phase' = "delete" /\ live' \subseteq Inputs \cup Executable \cup Output
      BY <2>2 DEF MainInv, Owns, OpenOutput, Main, Output
    <3> QED
      BY <1>2, <3>1 DEF Owns
  <2>3. ASSUME CloseOutput PROVE Owns'
    <3>1. phase' = "delete_executable" /\ live' \subseteq Inputs \cup Executable
      BY <2>3 DEF MainInv, Owns, CloseOutput, Main, Output
    <3> QED
      BY <1>2, <3>1 DEF Owns
  <2>4. ASSUME DeleteExecutable PROVE Owns'
    <3>1. phase' = "tree" /\ live' \subseteq Inputs
      BY <2>4 DEF MainInv, Owns, DeleteExecutable, Main, Executable
    <3> QED
      BY <1>2, <3>1 DEF Owns
  <2>5. Owns'
    BY <1>8, <2>2, <2>3, <2>4
  <2>6. Accepted'
    BY <1>1, <2>1 DEF MainInv, Accepted
  <2> QED
    BY <1>3, <2>1, <2>5, <2>6 DEF MainInv
<1> QED
  BY <1>5, <1>6, <1>7, <1>8 DEF CgentNext

LEMMA MainInvHolds == CgentSpec => []MainInv
<1>1. MainInv /\ [CgentNext]_cgentVars => MainInv'
  <2> SUFFICES ASSUME MainInv, [CgentNext]_cgentVars PROVE MainInv'
    OBVIOUS
  <2>1. CASE UNCHANGED cgentVars
    <3>1. UNCHANGED <<phase, live, decl_list, outcome, check_log>>
      BY <2>1 DEF cgentVars, meanVars, scopeVars, checkVars
    <3>2. Executable' = Executable
      BY <3>1 DEF Executable, VariableBlocks, Owned
    <3> QED
      BY <3>1, <3>2 DEF MainInv, Owns, Accepted, GeneratesChecked
  <2> QED
    BY <2>1, CheckKeepsMain, MainHolds
<1> QED
  BY <1>1, OwnsInit, PTL DEF CgentSpec

\* Whatever the program, when cgent ends it has freed and closed everything.
THEOREM MainFreesAll == CgentSpec => []AllFreed
<1>1. MainInv => AllFreed
  BY DEF MainInv, Owns, AllFreed
<1> QED
  BY <1>1, MainInvHolds, PTL

\* Code is generated only for a program in which nothing was logged.
THEOREM OnlyCheckedGenerated == CgentSpec => []GeneratesChecked
BY MainInvHolds, PTL DEF MainInv

=============================================================================
