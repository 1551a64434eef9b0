------------------------------- MODULE MCCsua -------------------------------
(* Bounded sets of programs for the compiler and machine of Csua. Every      *)
(* program is built with the rules of MeanVisitor, so it is one the checker  *)
(* accepts; what the rules reject drops out.                                 *)
EXTENDS CsuaMeaning, MeanVisitor, WellMade

\* int x; int y; double d; boolean b;
MCDecls == <<[name |-> "x", type |-> "int"], [name |-> "y", type |-> "int"],
             [name |-> "d", type |-> "double"], [name |-> "b", type |-> "boolean"]>>
x == IdentExpr(0, "int")
y == IdentExpr(1, "int")
d == IdentExpr(2, "double")
b == IdentExpr(3, "boolean")

\* int print(int i, double j); int printb(int i); in the order of native.c.
MCNatives == <<[args |-> <<"int", "double">>, ret |-> 0], [args |-> <<"int">>, ret |-> 1]>>
PrintCall(args)  == FunctionCallExpr(<<"int", "double">>, FunctionExpr(0, "int"), args)
PrintbCall(args) == FunctionCallExpr(<<"int">>, FunctionExpr(1, "int"), args)

Three == IntExpr(3)
Half5 == DoubleExpr(5)
True == BooleanExpr(1)
False == BooleanExpr(0)

\* S itself. Counting makes TLC sort it, for a quick membership test.
Sorted(S) == IF Cardinality(S) > 0 THEN S ELSE {}

Accepted(es) == es \ {Rejected}
Atoms == {x, d, b, Three, Half5, True}

\* Every operator over every pair of operands the checker accepts.
Operations == Accepted(
  {ArithmeticExpr(k, l, r) : k \in ArithOps, l \in Atoms, r \in {x, Three, Half5}} \cup
  {CompareExpr(k, l, r) : k \in {"gt", "ge", "lt", "le"}, l \in Atoms \ {b, True}, r \in Atoms} \cup
  {EqualityExpr(k, l, r) : k \in {"eq", "ne"}, l \in Atoms, r \in Atoms} \cup
  {LogicalExpr(k, l, r) : k \in {"land", "lor"}, l \in {b, True, False}, r \in {b, True, False}} \cup
  {MinusExpr(e) : e \in Atoms} \cup {LogicalNotExpr(e) : e \in {b, True}} \cup
  {IncDecExpr(k, e) : k \in {"inc", "dec"}, e \in {x, y}})

MCProgram(stmts) == [decls |-> MCDecls, stmts |-> stmts]

\* x = 7, d = 2.5, b = false by initializer, and y is never initialized.
Prefix == <<DeclStmt(0, "int", <<IntExpr(7)>>), DeclStmt(1, "int", <<>>),
            DeclStmt(2, "double", <<Half5>>), DeclStmt(3, "boolean", <<False>>)>>

\* A target for each value: the result becomes visible, with a conversion
\* where the types differ.
StoredAnywhere(e) == Accepted({ExprStmt(AssignExpr("assign", v, e)) : v \in {x, d, b}})

SomeCalls == Accepted({PrintCall(<<l, r>>) : l \in {x, d}, r \in {Three, d}} \cup
                      {PrintbCall(<<e>>) : e \in {x, y, ArithmeticExpr("add", x, Three)}})
SomeAssigns == Accepted(
  {AssignExpr(k, v, e) : k \in AssignKinds, v \in {x, y}, e \in {Three, Half5}} \cup
  {AssignExpr("sub_assign", v, ArithmeticExpr("sub", x, y)) : v \in {x, y}} \cup
  {AssignExpr("assign", v, AssignExpr("assign", w, e)) :
     v \in {x, d, b}, w \in {y, d, b}, e \in {Three, True}} \cup
  {AssignExpr("assign", v, c) : v \in {x, d}, c \in SomeCalls} \cup
  {PrintCall(<<AssignExpr("assign", y, AssignExpr("assign", x, Three)), d>>),
   PrintCall(<<AssignExpr("add_assign", x, Three), AssignExpr("assign", d, y)>>),
   AssignExpr("assign", y, PrintbCall(<<AssignExpr("assign", x, Three)>>))})

SomeStmts == Accepted({ExprStmt(e) : e \in SomeAssigns \cup SomeCalls} \cup
                      {ExprStmt(IncDecExpr("inc", y)), ExprStmt(x)})
\* What may follow, one of every kind: it shows what a statement leaves behind.
NextStmts == Accepted(
  {ExprStmt(e) : e \in SomeCalls \cup
     {AssignExpr(k, x, Three) : k \in {"assign", "add_assign", "div_assign"}} \cup
     {AssignExpr("assign", v, AssignExpr("assign", y, Three)) : v \in {x, d}} \cup
     {AssignExpr("assign", x, PrintbCall(<<AssignExpr("assign", y, Three)>>)),
      AssignExpr("sub_assign", x, ArithmeticExpr("sub", x, y)),
      IncDecExpr("inc", y), x}})
Nested == Accepted({ArithmeticExpr(k, ArithmeticExpr(l, x, e), IncDecExpr("inc", y)) :
                      k \in {"sub", "div"}, l \in {"add", "mul"}, e \in {Three, d}})

AllStraight == {p : p \in
  {MCProgram(Prefix \o <<s>>) : s \in UNION {StoredAnywhere(e) : e \in Operations \cup Nested}} \cup
  {MCProgram(Prefix \o <<s, t>>) : s \in SomeStmts, t \in NextStmts}}

-----------------------------------------------------------------------------
\* Blocks and if statements around the assignments and calls above.
If(e, body) == <<IfEnter(e), BlockBegin>> \o body \o <<BlockEnd, IfLeave>>
Block(body) == <<BlockBegin>> \o body \o <<BlockEnd>>

Conditions == {False, x, y, CompareExpr("le", x, Three)}
Bodies == {<<ExprStmt(AssignExpr("assign", v, e))>> : v \in {x, y}, e \in {Three, x, y}}
          \cup {<<ExprStmt(PrintCall(<<x, d>>))>>, <<ExprStmt(IncDecExpr("dec", y))>>}
Inner == Bodies \cup {If(c, s) : c \in {False, x}, s \in Bodies}
         \cup {Block(s) \o s : s \in Bodies}
Last == {<<>>, <<ExprStmt(AssignExpr("add_assign", x, y))>>}
        \cup {If(c, s) : c \in {True, y}, s \in Bodies}
AllBranch ==
  {MCProgram(Prefix \o If(c, s) \o t) : c \in Conditions, s \in Inner, t \in Last}

-----------------------------------------------------------------------------
\* The nodes of the programs, level by level. ({n : n \in S} makes TLC
\* enumerate S once.)
Nodes0 == {n : n \in UNION {{p.stmts[i] : i \in DOMAIN p.stmts} : p \in Programs}}
Nodes1 == {n : n \in UNION {Kids(m) : m \in Nodes0}}
Nodes2 == {n : n \in UNION {Kids(m) : m \in Nodes1}}
Nodes3 == {n : n \in UNION {Kids(m) : m \in Nodes2}}
Nodes4 == {n : n \in UNION {Kids(m) : m \in Nodes3}}
AllNodes == Sorted(Nodes0 \cup Nodes1 \cup Nodes2 \cup Nodes3 \cup Nodes4)

\* The constants' values. (TLC computes the sets above once.)
MCPrograms == AllStraight \cup AllBranch
MCNodes == AllNodes

-----------------------------------------------------------------------------
\* The sorting of each program (WellMade), from its trees.
RECURSIVE IsPlain(_), IsQuiet(_), Nest(_), IsArg(_), IsBusy(_), LevelsOf(_)
IsPlain(e) == e.kind \in OperatorKinds /\ \A k \in Kids(e) : IsPlain(k)
IsQuiet(e) == \/ e.kind \in OperatorKinds /\ \A k \in Kids(e) : IsQuiet(k)
              \/ e.kind = "call" /\ \A k \in Args(e) : IsQuiet(k)
\* 0 where there is no chain.
Nest(e) == IF e.kind \in UnaryKinds THEN Nest(e.kids[1])
           ELSE IF e.kind \notin AssignKinds THEN 0
           ELSE IF IsQuiet(e.kids[2]) THEN 1
           ELSE IF Nest(e.kids[2]) = 0 THEN 0 ELSE Nest(e.kids[2]) + 1
IsArg(e) == \/ e.kind \in UnaryKinds /\ IsArg(e.kids[1])
            \/ e.kind \in AssignKinds /\ (IsPlain(e.kids[2]) \/ IsArg(e.kids[2]))
IsBusy(e) == \/ e.kind \in UnaryKinds /\ IsBusy(e.kids[1])
             \/ e.kind = "call" /\ \E k \in Args(e) : IsArg(k)
LevelsOf(stmts) ==
  IF stmts = <<>> THEN <<Level(0, <<>>)>>
  ELSE LET before == LevelsOf(SubSeq(stmts, 1, Len(stmts) - 1))
           u == before[Len(before)]
           s == stmts[Len(stmts)]
       IN  Append(before,
                  CASE s.kind = "blockbegin" -> Level(u.blocks + 1, u.ifs)
                    [] s.kind = "blockend" -> Level(u.blocks - 1, u.ifs)
                    [] s.kind = "ifenter" -> Level(u.blocks, Append(u.ifs, u.blocks))
                    [] s.kind = "ifleave" -> Level(u.blocks, SubSeq(u.ifs, 1, Len(u.ifs) - 1))
                    [] OTHER -> u)

RECURSIVE Under(_)
Under(e) == {e} \cup UNION {Under(k) : k \in Kids(e)}
SortingOf(p) ==
  LET nodes == UNION {UNION {Under(k) : k \in Kids(p.stmts[i])} : i \in DOMAIN p.stmts}
      chain == {e \in nodes : Nest(e) > 0}
  IN  [plain |-> {e \in nodes : IsPlain(e)}, calling |-> {e \in nodes : IsQuiet(e) /\ ~IsPlain(e)},
       chain |-> chain, nest |-> [e \in chain |-> Nest(e)],
       arg |-> {e \in nodes : IsArg(e)}, busy |-> {e \in nodes : IsBusy(e)},
       levels |-> LevelsOf(p.stmts)]

\* Every program of the runs is one that WellMade describes.
ASSUME ProgramsWellMade == \A p \in MCPrograms : WellMade(SortingOf(p), p)

=============================================================================
