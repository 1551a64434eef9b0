----------------------------- MODULE MCCodegen -----------------------------
(* The code generator alone, on everything the mean check lets pass: also    *)
(* functions that are assigned to or incremented, assignments anywhere in an *)
(* expression, and if statements nested deeper than the array of labels.     *)
EXTENDS FiniteSets, Codegen, MeanVisitor

MCDecls == <<[name |-> "x", type |-> "int"], [name |-> "d", type |-> "double"],
             [name |-> "b", type |-> "boolean"]>>
x == IdentExpr(0, "int")
d == IdentExpr(1, "double")
b == IdentExpr(2, "boolean")
f == FunctionExpr(0, "int")

\* S itself. Counting makes TLC sort it, for a quick membership test.
Sorted(S) == IF Cardinality(S) > 0 THEN S ELSE {}

Accepted(es) == es \ {Rejected}
Atoms == {x, d, b, f, IntExpr(3), DoubleExpr(5), BooleanExpr(1)}
Binaries(ls, rs) == Accepted(
  UNION {{ArithmeticExpr("sub", l, r), CompareExpr("le", l, r), EqualityExpr("eq", l, r),
          LogicalExpr("lor", l, r)} : l \in ls, r \in rs})
Assigns(ls, rs) == Accepted(
  {AssignExpr(k, l, r) : k \in {"assign", "add_assign"}, l \in ls, r \in rs})
Unaries(es) == Accepted(
  UNION {{IncDecExpr("inc", e), MinusExpr(e), LogicalNotExpr(e),
          FunctionCallExpr(<<"int">>, f, <<e>>)} : e \in es})

Level1 == Atoms \cup Binaries(Atoms, Atoms) \cup Unaries(Atoms) \cup Assigns(Atoms, Atoms)
Level2 == Level1 \cup Assigns({x, d}, Level1) \cup Unaries(Level1) \cup Binaries({x, b}, Level1)
\* The value assigned is that of a call whose argument is an assignment.
CallsOfAssigns == {FunctionCallExpr(<<"int">>, f, <<a>>) : a \in Assigns({x, d}, {x, IntExpr(3)})}
Level3 == Level2 \cup Assigns({x, d}, CallsOfAssigns)

Stmts1 == Accepted({ExprStmt(e) : e \in Level3} \cup {DeclStmt(0, "int", <<e>>) : e \in Level1}
                   \cup {DeclStmt(2, "boolean", <<e>>) : e \in Assigns({b}, Atoms)})
\* A statement behind one that may have left the modes changed.
Stmts2 == {<<s, t>> : s \in Stmts1, t \in {ExprStmt(IncDecExpr("dec", x)), ExprStmt(x)}}

\* n if statements inside each other, then one more.
Open(n)   == [i \in 1 .. 2 * n |-> IF i % 2 = 1 THEN IfEnter(b) ELSE BlockBegin]
Closed(n) == [i \in 1 .. 2 * n |-> IF i % 2 = 1 THEN BlockEnd ELSE IfLeave]
NestedIfs == {Open(n) \o Closed(n) \o Open(m) \o <<ExprStmt(x)>> \o Closed(m) : n, m \in 0 .. 4}

AllPrograms == Sorted({[decls |-> MCDecls, stmts |-> s] : s \in Stmts2 \cup NestedIfs})

Kids(n) == {n.kids[i] : i \in DOMAIN n.kids}
Nodes0 == {n : n \in UNION {{p.stmts[i] : i \in DOMAIN p.stmts} : p \in AllPrograms}}
Nodes1 == {n : n \in UNION {Kids(m) : m \in Nodes0}}
Nodes2 == {n : n \in UNION {Kids(m) : m \in Nodes1}}
Nodes3 == {n : n \in UNION {Kids(m) : m \in Nodes2}}
Nodes4 == {n : n \in UNION {Kids(m) : m \in Nodes3}}
Nodes5 == {n : n \in UNION {Kids(m) : m \in Nodes4}}
Nodes6 == {n : n \in UNION {Kids(m) : m \in Nodes5}}
AllNodes == Sorted(UNION {Nodes0, Nodes1, Nodes2, Nodes3, Nodes4, Nodes5, Nodes6})

\* The constants' values. (TLC computes AllPrograms and AllNodes once.)
MCPrograms == AllPrograms
MCNodes == AllNodes

\* The process ends when it gave up or has the code.
Finished == (outcome # "running" \/ Generated) /\ UNCHANGED codegenVars
GenSpec == CodegenInit /\ [][CodegenNext \/ Finished]_codegenVars

=============================================================================
