----------------------------- MODULE MCDefects -----------------------------
(* Programs the compiler accepts and that do not do what the repository      *)
(* says: one small set for each disagreement.                                *)
EXTENDS CsuaMeaning, MeanVisitor

MCNatives == <<[args |-> <<"int", "double">>, ret |-> 0], [args |-> <<"int">>, ret |-> 1]>>

IntVar(i) == IdentExpr(i, "int")
Assign(i, e) == ExprStmt(AssignExpr("assign", IntVar(i), e))
IntDecl(name) == [name |-> name, type |-> "int"]
If(e, body) == <<IfEnter(e), BlockBegin>> \o body \o <<BlockEnd, IfLeave>>

\* int i = 0; int j = 0; if (0) { j = i; }
SkipPrograms ==
  {[decls |-> <<IntDecl("i"), IntDecl("j")>>,
    stmts |-> <<DeclStmt(0, "int", <<IntExpr(0)>>), DeclStmt(1, "int", <<IntExpr(0)>>)>>
              \o If(IntExpr(0), <<Assign(1, IntVar(0))>>)]}

\* tests/blk_success_2.cs: int a; { int c = 10; } { int c = 11; } int c = 12;
SiblingPrograms ==
  {[decls |-> <<IntDecl("a"), IntDecl("c"), IntDecl("c"), IntDecl("c")>>,
    stmts |-> <<DeclStmt(0, "int", <<>>),
                BlockBegin, DeclStmt(1, "int", <<IntExpr(10)>>), BlockEnd,
                BlockBegin, DeclStmt(2, "int", <<IntExpr(11)>>), BlockEnd,
                DeclStmt(3, "int", <<IntExpr(12)>>)>>]}

\* int printb(int k); int x; int y; x = y = printb(x = 3);
NestedPrograms ==
  {[decls |-> <<IntDecl("x"), IntDecl("y")>>,
    stmts |-> <<Assign(0, AssignExpr("assign", IntVar(1),
                  FunctionCallExpr(<<"int">>, FunctionExpr(1, "int"),
                                   <<AssignExpr("assign", IntVar(0), IntExpr(3))>>)))>>]}

\* tests/prog4.cs: int print(); int j; int i; i = 4; j = i = i + 5; print();
CallPrograms ==
  {[decls |-> <<IntDecl("j"), IntDecl("i")>>,
    stmts |-> <<DeclStmt(0, "int", <<>>), DeclStmt(1, "int", <<>>),
                Assign(1, IntExpr(4)),
                Assign(0, AssignExpr("assign", IntVar(1),
                                     ArithmeticExpr("add", IntVar(1), IntExpr(5)))),
                ExprStmt(FunctionCallExpr(<<>>, FunctionExpr(0, "int"), <<>>))>>]}

Kids(n) == {n.kids[i] : i \in DOMAIN n.kids}
Nodes0 == UNION {{p.stmts[i] : i \in DOMAIN p.stmts} : p \in Programs}
Nodes1 == UNION {Kids(m) : m \in Nodes0}
Nodes2 == UNION {Kids(m) : m \in Nodes1}
Nodes3 == UNION {Kids(m) : m \in Nodes2}
Nodes4 == UNION {Kids(m) : m \in Nodes3}
Nodes5 == UNION {Kids(m) : m \in Nodes4}
MCNodes == Nodes0 \cup Nodes1 \cup Nodes2 \cup Nodes3 \cup Nodes4 \cup Nodes5

\* A false if statement skips to its label and execution goes on behind it
\* (svm.c:790, "skip until LABEL"): the machine does not give up.
SkipsToLabel == mode # "exit"

=============================================================================
