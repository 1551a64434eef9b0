------------------------------ MODULE MCCgent ------------------------------
(* Small instances of the mean check and of the program that runs it: the    *)
(* statements are chosen so that every rule is applied to operands it takes  *)
(* and to ones it rejects, and so that names are shadowed, called, missing   *)
(* and declared twice.                                                       *)
EXTENDS Cgent

Leaf(kind) == Tree(kind, NoName, "none", <<>>)
Op(kind, kids) == Tree(kind, NoName, "none", kids)
Ident(name) == Tree("ident", name, "none", <<>>)
Stmt(e) == Op("exprstmt", <<e>>)
Decl(type, name, init) == Tree("declstmt", name, type, init)
Call(f, args) == Op("call", Append(args, f))

F(params) == [name |-> "f", type |-> "int", params |-> params]
P == [name |-> "p", type |-> "double", params |-> <<>>]

\* No function, one, and three of which two have one name.
MCFuncLists == {<<>>, <<F(<<"double">>)>>, <<F(<<>>), F(<<"double">>), P>>}

MCStatements ==
  {Decl("int", "p", <<>>),
   Decl("double", "q", <<Ident("p")>>),
   Decl("int", "f", <<Leaf("double")>>),
   Stmt(Op("assign", <<Ident("p"), Op("add", <<Ident("q"), Leaf("int")>>)>>)),
   Stmt(Op("sub_assign", <<Ident("q"), Op("inc", <<Ident("p")>>)>>)),
   Stmt(Call(Ident("f"), <<Ident("p")>>)),
   Stmt(Call(Leaf("int"), <<>>))}

MCConditions ==
  {Op("lt", <<Ident("p"), Ident("q")>>),
   Op("minus", <<Ident("q")>>),
   Op("land", <<Op("eq", <<Ident("p"), Leaf("double")>>), Op("lognot", <<Leaf("boolean")>>)>>)}

\* For the scope of names alone: one declaration, one use, no function.
ScopeStatements == {Decl("int", "p", <<>>), Stmt(Ident("p"))}
NoFunctions == {<<>>}
AnyCondition == {Leaf("boolean")}

=============================================================================
