---------------------------- MODULE MeanVisitor ----------------------------
(* The type rules of the mean check (comp/meanvisitor.c), one operator per   *)
(* leave handler. The visitor works bottom-up, so a rule takes the checked   *)
(* children of an expression and returns the checked expression: its type    *)
(* and the cast nodes the handler inserts. An expression whose handler logs  *)
(* an error is Rejected; a program with one is never compiled                *)
(* (comp/interface.c, do_mean_check).                                        *)
(*                                                                           *)
(* A node of the syntax tree is a record: its kind, its type, a number (the  *)
(* value of a literal, the index of a variable or function) and the sequence *)
(* of its children. A double is the number of its halves.                    *)
EXTENDS Integers, Sequences

Node(kind, type, n, kids) == [kind |-> kind, type |-> type, n |-> n, kids |-> kids]

Rejected == Node("rejected", "none", 0, <<>>)

BooleanExpr(n) == Node("boolean", "boolean", n, <<>>)
IntExpr(n)     == Node("int", "int", n, <<>>)
DoubleExpr(n)  == Node("double", "double", n, <<>>)

\* leave_identexpr once the declaration (or the function) is found: n is the
\* index do_mean_check gives it.
IdentExpr(n, type)    == Node("ident", type, n, <<>>)
FunctionExpr(n, type) == Node("function", type, n, <<>>)

ToDouble(e) == IF e.type = "int" THEN Node("cast_int_to_double", "double", 0, <<e>>) ELSE e
ToInt(e)    == IF e.type = "double" THEN Node("cast_double_to_int", "int", 0, <<e>>) ELSE e

Numeric == {"int", "double"}

\* cast_arithmetic_binary_expr: an int meeting a double is cast.
ArithmeticExpr(kind, l, r) ==
  IF ~({l.type, r.type} \subseteq Numeric) THEN Rejected
  ELSE IF l.type = r.type THEN Node(kind, l.type, 0, <<l, r>>)
  ELSE Node(kind, "double", 0, <<ToDouble(l), ToDouble(r)>>)

\* compare_type_check, then the comparison is a boolean. Two booleans may be
\* ordered: the check lets them pass.
CompareExpr(kind, l, r) ==
  IF "none" \in {l.type, r.type} THEN Rejected
  ELSE IF l.type = r.type THEN Node(kind, "boolean", 0, <<l, r>>)
  ELSE IF {l.type, r.type} = Numeric
       THEN Node(kind, "boolean", 0, <<ToDouble(l), ToDouble(r)>>)
  ELSE Rejected

\* compare_equality_type_check
EqualityExpr(kind, l, r) ==
  IF (l.type = "boolean") # (r.type = "boolean") THEN Rejected
  ELSE CompareExpr(kind, l, r)

\* logical_type_check
LogicalExpr(kind, l, r) ==
  IF {l.type, r.type} = {"boolean"} THEN Node(kind, "boolean", 0, <<l, r>>) ELSE Rejected

\* incdec_typecheck: an int that is not a literal. The message built for a
\* function operand is never logged.
IncDecExpr(kind, e) ==
  IF e.type = "int" /\ e.kind # "int" THEN Node(kind, "int", 0, <<e>>) ELSE Rejected

MinusExpr(e)      == IF e.type \in Numeric THEN Node("minus", e.type, 0, <<e>>) ELSE Rejected
LogicalNotExpr(e) == IF e.type = "boolean" THEN Node("lognot", "boolean", 0, <<e>>) ELSE Rejected

\* Mutant of Converted: the node itself is returned, not the cast made for it.
ConvertedWithoutCast(type, e) ==
  IF e.type = type \/ {e.type, type} = Numeric THEN e ELSE Rejected

\* assignment_type_check: e as a value of the given type.
Converted(type, e) ==
  IF e.type = type THEN e
  ELSE IF type = "int" /\ e.type = "double" THEN ToInt(e)
  ELSE IF type = "double" /\ e.type = "int" THEN ToDouble(e)
  ELSE Rejected

\* leave_assignexpr: the left side may be any expression the grammar allows,
\* and the type of a compound assignment is checked like a plain one's.
AssignExpr(kind, l, r) ==
  IF l.type = "none" \/ Converted(l.type, r) = Rejected THEN Rejected
  ELSE Node(kind, l.type, 0, <<l, Converted(l.type, r)>>)

\* leave_funccallexpr: one argument per parameter, each converted like an
\* assignment. The function is the last child, as it is traversed last.
FunctionCallExpr(params, f, args) ==
  IF \/ Len(params) # Len(args)
     \/ \E i \in DOMAIN params : Converted(params[i], args[i]) = Rejected
  THEN Rejected
  ELSE Node("call", f.type, 0,
            Append([i \in DOMAIN args |-> Converted(params[i], args[i])], f))

\* Statements. A declaration carries its own index; its initializer is
\* converted to its type (leave_declstmt).
ExprStmt(e) == IF e = Rejected THEN Rejected ELSE Node("exprstmt", "none", 0, <<e>>)
DeclStmt(n, type, init) ==
  IF init = <<>> THEN Node("declstmt", type, n, <<>>)
  ELSE IF Converted(type, init[1]) = Rejected THEN Rejected
  ELSE Node("declstmt", type, n, <<Converted(type, init[1])>>)
BlockBegin == Node("blockbegin", "none", 0, <<>>)
BlockEnd   == Node("blockend", "none", 0, <<>>)

\* enter_ifopstmt: a boolean or an int condition.
IfEnter(e) == IF e.type \in {"boolean", "int"} THEN Node("ifenter", "none", 0, <<e>>) ELSE Rejected
IfLeave    == Node("ifleave", "none", 0, <<>>)

=============================================================================
