------------------------------ MODULE WellMade ------------------------------
(* The programs whose code leaves the machine's stack right, told from their *)
(* trees alone. Of nested assignments and calls the visitor remembers no     *)
(* more than two flags and a depth (codegenvisitor.c:578-607, 706-742), so   *)
(* not every place of an expression can hold them.                           *)
EXTENDS CodeShape

Leaves1       == {"boolean", "int", "double", "ident"}
UnaryKinds    == {"minus", "lognot", "cast_int_to_double", "cast_double_to_int"}
OperatorKinds == Leaves1 \cup UnaryKinds \cup {"inc", "dec", "land", "lor"} \cup DOMAIN BinaryOps

\* The node's children have the types that its handler takes them to have, and
\* its variable is declared; the mean check sees to all of it but to these: the
\* target is a variable, a compound one an int, and a call has arguments, an
\* int the first of them.
KidTags(e, tags) == Len(e.kids) = Len(tags) /\ \A i \in DOMAIN tags : Tag(e.kids[i].type) = tags[i]
Variable(p, e) ==
  e.kind = "ident" /\ e.kids = <<>> /\ e.n + 1 \in DOMAIN p.decls /\ Tag(e.type) = Tag(p.decls[e.n + 1].type)
NativeNode(f) ==
  f.kind = "function" /\ f.kids = <<>> /\ f.n + 1 \in DOMAIN Natives /\ Tag(f.type) = "int"
FunctionIn(e) == e.kids[Len(e.kids)]

TypedNode(p, e) ==
  LET tag == Tag(e.type) IN
  /\ e.kind \in Leaves1 => e.kids = <<>>
  /\ e.kind \in {"boolean", "int"} => tag = "int"
  /\ e.kind = "double" => tag = "double"
  /\ e.kind = "ident" => Variable(p, e)
  /\ e.kind \in ArithOps => KidTags(e, <<tag, tag>>)
  /\ e.kind \in CompareOps => tag = "int" /\ KidTags(e, <<Tag(e.kids[1].type), Tag(e.kids[1].type)>>)
  /\ e.kind \in {"land", "lor"} => tag = "int" /\ KidTags(e, <<"int", "int">>)
  /\ e.kind = "lognot" => tag = "int" /\ KidTags(e, <<"int">>)
  /\ e.kind = "minus" => KidTags(e, <<tag>>)
  /\ e.kind = "cast_int_to_double" => tag = "double" /\ KidTags(e, <<"int">>)
  /\ e.kind = "cast_double_to_int" => tag = "int" /\ KidTags(e, <<"double">>)
  /\ e.kind \in {"inc", "dec"} => tag = "int" /\ KidTags(e, <<"int">>) /\ Variable(p, e.kids[1])
  /\ e.kind = "call" => /\ Len(e.kids) > 1 /\ NativeNode(FunctionIn(e))
                        /\ Len(e.kids) = Len(Natives[FunctionIn(e).n + 1].args) + 1
                        /\ tag = "int" /\ Tag(e.kids[1].type) = "int"
  /\ e.kind \in AssignKinds => /\ KidTags(e, <<tag, tag>>) /\ Variable(p, e.kids[1])
                               /\ e.kind # "assign" => tag = "int"

-----------------------------------------------------------------------------
(* Where assignments may stand. A sorting g of expressions:                  *)
(*   plain    neither calls nor assigns;                                     *)
(*   calling  calls, and assigns nothing;                                    *)
(*   chain    a nested assignment x = y = e, g.nest[e] deep;                 *)
(*   arg      an assignment that is an argument, of nothing but such;        *)
(*   busy     a call with such arguments.                                    *)

Kids(e) == {e.kids[i] : i \in DOMAIN e.kids}
Args(e) == {e.kids[i] : i \in 1 .. Len(e.kids) - 1}
Unassigning(g) == g.plain \cup g.calling
Expressions(g)     == g.plain \cup g.calling \cup g.chain \cup g.arg \cup g.busy

PlainNode(g, e)   == e.kind \in OperatorKinds /\ Kids(e) \subseteq g.plain
CallingNode(g, e) ==
  \/ e.kind \in OperatorKinds /\ Kids(e) \subseteq Unassigning(g) /\ Kids(e) \cap g.calling # {}
  \/ e.kind = "call" /\ Args(e) \subseteq Unassigning(g)
ChainNode(g, e) ==
  /\ g.nest[e] \in 1 .. UINT16_MAX
  /\ \/ e.kind \in UnaryKinds /\ e.kids[1] \in g.chain /\ g.nest[e.kids[1]] <= g.nest[e]
     \/ e.kind \in AssignKinds /\ e.kids[2] \in Unassigning(g)
     \/ e.kind \in AssignKinds /\ e.kids[2] \in g.chain /\ g.nest[e.kids[2]] < g.nest[e]
ArgNode(g, e) ==
  \/ e.kind \in UnaryKinds /\ e.kids[1] \in g.arg
  \/ e.kind \in AssignKinds /\ e.kids[2] \in g.plain \cup g.arg
\* The last of the assignments is followed by arguments that assign nothing.
BusyNode(g, e) ==
  \/ e.kind \in UnaryKinds /\ e.kids[1] \in g.busy
  \/ /\ e.kind = "call"
     /\ \E k \in 1 .. Len(e.kids) - 1 :
          /\ e.kids[k] \in g.arg
          /\ \A i \in 1 .. k - 1 : e.kids[i] \in g.plain \cup g.arg
          /\ \A i \in k + 1 .. Len(e.kids) - 1 : e.kids[i] \in Unassigning(g)

\* An assignment that is a statement.
Stores(g, e) ==
  /\ e.kind \in AssignKinds
  /\ \/ e.kids[2] \in Unassigning(g) \cup g.busy
     \/ e.kids[2] \in g.chain /\ g.nest[e.kids[2]] < UINT16_MAX

Sorts(g, p) ==
  /\ \A e \in g.plain : PlainNode(g, e)
  /\ \A e \in g.calling : CallingNode(g, e)
  /\ \A e \in g.chain : ChainNode(g, e)
  /\ \A e \in g.arg : ArgNode(g, e)
  /\ \A e \in g.busy : BusyNode(g, e)
  /\ \A e \in Expressions(g) : TypedNode(p, e)

-----------------------------------------------------------------------------
(* Statements. A level is the number of open blocks and, for each open if    *)
(* statement, the number there was when it was opened.                       *)

Level(n, s) == [blocks |-> n, ifs |-> s]
Levels      == [blocks : Nat, ifs : Seq(Nat)]

\* The declaration that the initializer is stored to is the first of its name.
Initializes(p, e) ==
  /\ e.n + 1 \in DOMAIN p.decls
  /\ \A i \in DOMAIN p.decls :
       /\ p.decls[i].name = p.decls[e.n + 1].name
       /\ \A j \in 1 .. i - 1 : p.decls[j].name # p.decls[e.n + 1].name
       => Tag(p.decls[i].type) = Tag(e.kids[1].type)

Raises(e, u, v) ==
  \/ e.kind \in {"exprstmt", "declstmt"} /\ v = u
  \/ e.kind = "blockbegin" /\ v = Level(u.blocks + 1, u.ifs)
  \/ e.kind = "blockend" /\ u.blocks > 0 /\ v = Level(u.blocks - 1, u.ifs)
  \/ e.kind = "ifenter" /\ v = Level(u.blocks, Append(u.ifs, u.blocks))
  \/ /\ e.kind = "ifleave" /\ u.ifs # <<>> /\ u.ifs[Len(u.ifs)] = u.blocks
     /\ v = Level(u.blocks, SubSeq(u.ifs, 1, Len(u.ifs) - 1))

WellPut(g, p, e) ==
  LET e1 == e.kids[1] IN
  /\ e.kind \in {"exprstmt", "ifenter"} => Len(e.kids) = 1
  /\ e.kind = "exprstmt" => e1 \in Unassigning(g) \cup g.busy \/ (Stores(g, e1) /\ TypedNode(p, e1))
  /\ e.kind = "ifenter" => e1 \in Unassigning(g) /\ Tag(e1.type) = "int"
  /\ e.kind = "declstmt" => e.kids = <<>> \/ (Len(e.kids) = 1 /\ e1 \in Unassigning(g) /\ Initializes(p, e))
  /\ e.kind \in {"blockbegin", "blockend", "ifleave"} => e.kids = <<>>

\* g sorts the expressions of p and gives the levels before and behind each of
\* its statements; they begin and end with none open.
WellMade(g, p) ==
  /\ Sorts(g, p)
  /\ \A i \in DOMAIN p.stmts : WellPut(g, p, p.stmts[i])
  /\ g.levels \in Seq(Levels) /\ Len(g.levels) = Len(p.stmts) + 1
  /\ g.levels[1] = Level(0, <<>>) /\ g.levels[Len(g.levels)] = Level(0, <<>>)
  /\ \A i \in DOMAIN p.stmts : Raises(p.stmts[i], g.levels[i], g.levels[i + 1])

=============================================================================
