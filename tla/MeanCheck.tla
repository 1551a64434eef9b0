----------------------------- MODULE MeanCheck -----------------------------
(* do_mean_check (comp/interface.c): the mean visitor walks the statements   *)
(* that the parser chained, looks up every name (Scope), applies the rule of *)
(* every node (MeanVisitor) and logs what a rule rejects. The walk goes on   *)
(* after an error, over nodes whose type was never set.                      *)
EXTENDS Scope, MeanVisitor, SequencesExt

CONSTANTS
  Statements,   \* the trees of expression statements and declarations
  Conditions,   \* the trees of the conditions of if statements
  MaxGroups     \* bound: statements and blocks of a program

ASSUME MaxGroupsAssumption == MaxGroups \in Nat

VARIABLES
  parser,     \* [nest, fresh, left, funcs]: open braces, see below
  todo,       \* the handlers traverse_stmt and traverse_expr have yet to call
  vals,       \* the checked nodes of the statement, left but not taken by a parent
  check_log,  \* something was logged
  outcome     \* "running", "accepted", "rejected", "exit" or "crash"

checkVars == <<parser, todo, vals, check_log, outcome>>
meanVars == <<scopeVars, checkVars>>

\* A node of the syntax tree before the check.
Tree(kind, name, type, kids) == [kind |-> kind, name |-> name, type |-> type, kids |-> kids]

ArithKinds   == {"add", "sub", "mul", "div", "mod"}
OrderKinds   == {"gt", "ge", "lt", "le"}
EqualKinds   == {"eq", "ne"}
LogicalKinds == {"land", "lor"}
StepKinds    == {"inc", "dec"}
AssignedKinds == {"assign", "add_assign", "sub_assign", "mul_assign", "div_assign", "mod_assign"}

-----------------------------------------------------------------------------
(* The traversal. A handler is called on entering and on leaving a node; an  *)
(* if statement is entered after its condition.                              *)

Enter(t) == [call |-> "enter", tree |-> t]
Leave(t) == [call |-> "leave", tree |-> t]
Entering(kinds) == /\ outcome = "running" /\ todo # <<>>
                   /\ Head(todo).call = "enter" /\ Head(todo).tree.kind \in kinds
Leaving(kinds)  == /\ outcome = "running" /\ todo # <<>>
                   /\ Head(todo).call = "leave" /\ Head(todo).tree.kind \in kinds
Cur == Head(todo).tree

\* The calls for the children, the right side of an assignment first, and the
\* leave handler after them.
Visits(t) ==
  (IF t.kind \in AssignedKinds THEN <<Enter(t.kids[2]), Enter(t.kids[1])>>
   ELSE [i \in DOMAIN t.kids |-> Enter(t.kids[i])]) \o <<Leave(t)>>

\* The checked children of Cur, in the order of its kids, and what lies below.
Below == SubSeq(vals, 1, Len(vals) - Len(Cur.kids))
Checked == LET visited == SubSeq(vals, Len(Below) + 1, Len(vals))
           IN  IF Cur.kind \in AssignedKinds THEN Reverse(visited) ELSE visited

Running(log) == check_log' = (check_log \/ log) /\ UNCHANGED <<parser, outcome>>
\* The leave handler of Cur ends: node e takes the place of its children.
Left(e, log) == todo' = Tail(todo) /\ vals' = Append(Below, e) /\ Running(log)
Stop(how) == outcome' = how /\ UNCHANGED <<parser, todo, vals, check_log>>

\* The enter handlers of expressions and of expression statements do nothing.
EnterNode ==
  /\ todo # <<>> /\ ~Entering({"declstmt", "block_begin", "block_empty", "block_end"})
  /\ Entering({Cur.kind})
  /\ todo' = Visits(Cur) \o Tail(todo)
  /\ UNCHANGED <<scopeVars, parser, vals, check_log, outcome>>

-----------------------------------------------------------------------------
(* The rules.                                                                *)

\* The type a node has after its rule logged an error: a binary expression was
\* created with type boolean, the others without a type.
Erroneous(t, k) ==
  Node(t.kind,
       IF t.kind \in ArithKinds \cup OrderKinds \cup EqualKinds \cup LogicalKinds THEN "boolean"
       ELSE IF t.kind \in AssignedKinds \/ (t.kind \in StepKinds /\ k[1].type = "int")
       THEN k[1].type
       ELSE "none", 0, k)

Rule(t, k) ==
  CASE t.kind = "boolean" -> BooleanExpr(0)
    [] t.kind = "int"     -> IntExpr(0)
    [] t.kind = "double"  -> DoubleExpr(0)
    [] t.kind \in ArithKinds    -> ArithmeticExpr(t.kind, k[1], k[2])
    [] t.kind \in OrderKinds    -> CompareExpr(t.kind, k[1], k[2])
    [] t.kind \in EqualKinds    -> EqualityExpr(t.kind, k[1], k[2])
    [] t.kind \in LogicalKinds  -> LogicalExpr(t.kind, k[1], k[2])
    [] t.kind \in StepKinds     -> IncDecExpr(t.kind, k[1])
    [] t.kind = "minus"  -> MinusExpr(k[1])
    [] t.kind = "lognot" -> LogicalNotExpr(k[1])
    [] t.kind \in AssignedKinds -> AssignExpr(t.kind, k[1], k[2])
    [] t.kind = "exprstmt" -> Node("exprstmt", "none", 0, k)
    [] t.kind = "declstmt" -> DeclStmt(0, t.type, k)

LeaveNode ==
  /\ todo # <<>> /\ ~Leaving({"ident", "call", "ifenter", "ifleave"}) /\ Leaving({Cur.kind})
  /\ LET e == Rule(Cur, Checked)
     IN  Left(IF e = Rejected THEN Erroneous(Cur, Checked) ELSE e, e = Rejected)
  /\ UNCHANGED scopeVars

\* leave_identexpr: the declarations first, then the functions.
LeaveIdent ==
  /\ Leaving({"ident"})
  /\ \E name \in Names : name = Cur.name /\ StartDeclSearch(name)
  /\ UNCHANGED checkVars

IdentIsVariable ==
  /\ Leaving({"ident"}) /\ search.at = "decl_found" /\ Return
  /\ Left(IdentExpr(search.list - 1, decl_list[search.list].type), FALSE)

IdentNoVariable == Leaving({"ident"}) /\ StartFuncSearch /\ UNCHANGED checkVars

IdentIsFunction ==
  /\ Leaving({"ident"}) /\ search.at = "func_found" /\ Return
  /\ Left(FunctionExpr(search.list - 1, func_list[search.list].type), FALSE)

\* Mutant of IdentUnknown: the error is not logged.
IdentUnknownUnlogged ==
  /\ Leaving({"ident"}) /\ search.at = "func_absent" /\ Return
  /\ Left(Node("ident", "none", 0, <<>>), FALSE)

IdentUnknown ==
  /\ Leaving({"ident"}) /\ search.at = "func_absent" /\ Return
  /\ Left(Node("ident", "none", 0, <<>>), TRUE)

Searching == outcome = "running" /\ SearchStep /\ UNCHANGED checkVars
SearchCrashes == outcome = "running" /\ search.at = "crash" /\ Stop("crash") /\ UNCHANGED scopeVars

\* cs_search_function: the first function of the name.
FirstFunction(name) ==
  LET named == {i \in DOMAIN func_list : func_list[i].name = name}
  IN  IF named = {} THEN 0 ELSE CHOOSE i \in named : \A j \in named : i <= j

\* leave_funccallexpr. Only an identifier can be called; the arguments are
\* checked if there is a function of its name, whatever the identifier is; and
\* the type of an argument is read without asking whether it has one.
LeaveCall ==
  /\ Leaving({"call"})
  /\ LET k == Checked
         f == k[Len(k)]
         args == Front(k)
         n == FirstFunction(Last(Cur.kids).name)
         params == func_list[n].params
         call == IF n = 0 THEN Node("call", f.type, 0, k) ELSE FunctionCallExpr(params, f, args)
     IN  IF Last(Cur.kids).kind # "ident" THEN Stop("exit")
         ELSE IF n # 0 /\ Len(params) = Len(args) /\ \E i \in DOMAIN args : args[i].type = "none"
         THEN Stop("crash")
         ELSE Left(IF call = Rejected THEN Node("call", f.type, 0, k) ELSE call, call = Rejected)
  /\ UNCHANGED scopeVars

-----------------------------------------------------------------------------
(* The statements.                                                           *)

\* enter_declstmt
EnterDecl ==
  /\ Entering({"declstmt"})
  /\ \E name \in Names : name = Cur.name /\ StartDeclSearch(name)
  /\ UNCHANGED checkVars

DeclEntered(log) == todo' = Visits(Cur) \o Tail(todo) /\ vals' = vals /\ Running(log)
AlreadyDefined ==
  Entering({"declstmt"}) /\ search.at = "decl_found" /\ Return /\ DeclEntered(TRUE)
Declare ==
  /\ Entering({"declstmt"})
  /\ \E type \in DeclTypes : type = Cur.type /\ ChainDeclaration(type)
  /\ DeclEntered(FALSE)

\* enter_ifopstmt, called behind the condition, whose type it reads.
LeaveIf ==
  /\ Leaving({"ifenter"})
  /\ LET e == Checked[1]
     IN  IF e.type = "none" THEN Stop("crash")
         ELSE IF IfEnter(e) = Rejected THEN Stop("exit")
         ELSE Left(IfEnter(e), FALSE)
  /\ UNCHANGED scopeVars
LeaveEndIf == Leaving({"ifleave"}) /\ Left(IfLeave, FALSE) /\ UNCHANGED scopeVars

\* enter_blkopstmt. A beginning without an end ("{}") is the same statement.
Taken == todo' = Tail(todo) /\ UNCHANGED <<parser, vals, check_log, outcome>>
EnterBegin == Entering({"block_begin"}) /\ BeginBlock /\ Taken
EnterEmpty == Entering({"block_empty"}) /\ EmptyBlock /\ Taken
EnterEnd   == Entering({"block_end"})   /\ EndBlock   /\ Taken

-----------------------------------------------------------------------------
(* The statements as the productions of comp/csua.y chain them. The parser   *)
(* has read the program before, so they arrive in any order it accepts: nest *)
(* holds the open braces, innermost last, fresh that the innermost is a      *)
(* block with nothing in it (closed at once, that is "{}"), left bounds the  *)
(* program. A function definition chains no statement; funcs counts those    *)
(* that need not have been read yet, each of which can fill a block.         *)

Mark(kind) == Enter(Tree(kind, NoName, "none", <<>>))
Arrive(stmts) == todo' = stmts /\ vals' = <<>> /\ UNCHANGED <<scopeVars, check_log, outcome>>
AtStatement == outcome = "running" /\ todo = <<>>
Read(nest, fresh) == /\ AtStatement /\ parser.left > 0
                     /\ parser' = [parser EXCEPT !.nest = nest, !.fresh = fresh, !.left = @ - 1]

ReadStatement == Read(parser.nest, FALSE) /\ \E s \in Statements : Arrive(<<Enter(s)>>)

ReadIf == /\ Read(Append(parser.nest, "if"), FALSE)
          /\ \E c \in Conditions :
               Arrive(<<Enter(Tree("ifenter", NoName, "none", <<c>>)), Mark("block_begin")>>)

ReadBlock == /\ parser.left > 1 \/ parser.funcs > 0
             /\ Read(Append(parser.nest, "block"), TRUE) /\ Arrive(<<Mark("block_begin")>>)

ReadEmptyBlock == Read(parser.nest, FALSE) /\ Arrive(<<Mark("block_empty")>>)

\* A block that has only a function definition in it is closed with no
\* statement between its beginning and its end.
Close ==
  /\ AtStatement /\ parser.nest # <<>> /\ (parser.fresh => parser.funcs > 0)
  /\ parser' = [parser EXCEPT !.nest = Front(@), !.fresh = FALSE,
                              !.funcs = IF parser.fresh THEN @ - 1 ELSE @]

\* Mutant of ReadClose: the end of an if statement ends no block.
ReadCloseIfOnly ==
  /\ Close
  /\ Arrive(IF Last(parser.nest) = "if" THEN <<Mark("ifleave")>> ELSE <<Mark("block_end")>>)

ReadClose ==
  /\ Close
  /\ Arrive(IF Last(parser.nest) = "if" THEN <<Mark("block_end"), Mark("ifleave")>>
            ELSE <<Mark("block_end")>>)

\* A program is not empty: it has a statement or a function.
AllRead == AtStatement /\ parser.nest = <<>> /\ (parser.left < MaxGroups \/ func_list # <<>>)

\* Mutant of Finish: the log is not looked at.
FinishAccepting ==
  /\ AllRead
  /\ outcome' = "accepted"
  /\ UNCHANGED <<scopeVars, parser, todo, vals, check_log>>

Finish ==
  /\ AllRead
  /\ outcome' = IF check_log THEN "rejected" ELSE "accepted"
  /\ UNCHANGED <<scopeVars, parser, todo, vals, check_log>>

-----------------------------------------------------------------------------
CheckInit ==
  /\ ScopeInit
  /\ parser = [nest |-> <<>>, fresh |-> FALSE, left |-> MaxGroups, funcs |-> Len(func_list)]
  /\ todo = <<>> /\ vals = <<>> /\ check_log = FALSE /\ outcome = "running"

Parsed == ReadStatement \/ ReadIf \/ ReadBlock \/ ReadEmptyBlock \/ ReadClose \/ Finish
Visit == \/ EnterNode \/ LeaveNode \/ LeaveCall
         \/ LeaveIdent \/ IdentIsVariable \/ IdentNoVariable \/ IdentIsFunction \/ IdentUnknown
         \/ Searching \/ SearchCrashes
         \/ EnterDecl \/ AlreadyDefined \/ Declare
         \/ LeaveIf \/ LeaveEndIf \/ EnterBegin \/ EnterEmpty \/ EnterEnd

CheckNext == Parsed \/ Visit

CheckSpec == CheckInit /\ [][CheckNext]_meanVars

-----------------------------------------------------------------------------
(* Properties.                                                               *)

\* What the code generator takes from the types of a checked node: it emits
\* one opcode for the type of the node, or of its left operand, and no other.
UniqueFunctions == \A i, j \in DOMAIN func_list : func_list[i].name = func_list[j].name => i = j
WellTyped(e) ==
  LET T(i) == e.kids[i].type
      args == Front(e.kids)
      f == Last(e.kids)
  IN
  /\ e.kind \in ArithKinds => e.type \in Numeric /\ T(1) = e.type /\ T(2) = e.type
  /\ e.kind \in OrderKinds \cup EqualKinds => T(1) # "none" /\ T(1) = T(2)
  /\ e.kind \in LogicalKinds => T(1) = "boolean" /\ T(2) = "boolean"
  /\ e.kind \in StepKinds \cup {"minus", "lognot"} => T(1) = e.type
  /\ e.kind \in AssignedKinds => T(1) = e.type /\ T(2) = e.type
  /\ e.kind = "declstmt" /\ e.kids # <<>> => T(1) = e.type
  /\ e.kind = "ifenter" => T(1) \in {"int", "boolean"}
  /\ e.kind = "call" /\ f.kind = "function" /\ UniqueFunctions =>
       [i \in DOMAIN args |-> args[i].type] = func_list[f.n + 1].params
  /\ e.kind \notin {"exprstmt", "ifenter", "ifleave"} => e.type # "none"

\* A program that is accepted is typed throughout: as long as nothing is
\* logged, the rules and the casts they insert leave every node with operands
\* of the types the code generator assumes, whatever was declared before
\* (meanvisitor.c:147-311, 400-520).
AcceptedIsTyped == ~check_log => \A i \in DOMAIN vals : WellTyped(vals[i])

\* A null type is dereferenced only in a program that has an error which is
\* already logged: an accepted prefix never crashes the check
\* (meanvisitor.c:485, 547).
NullTypesLogged == outcome = "crash" /\ search.at # "crash" => check_log

\* The block statements pair up as the braces do, so an end never comes
\* without the beginning it ends (csua.y:108-166, meanvisitor.c:600-613).
BracesAreBlocks == todo = <<>> => Len(opened) = Len(parser.nest)

=============================================================================
