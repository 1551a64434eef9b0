------------------------------- MODULE Values -------------------------------
(* The arithmetic of C that both the machine (svm/svm.c) and the meaning of  *)
(* a source program rest on. A value carries the member of the union         *)
(* SVM_Value that was written last: "int", "double" (v counts halves; a      *)
(* product or quotient is cut to that grid), or "junk" for bits the model    *)
(* does not follow.                                                          *)
EXTENDS Integers

IntVal(n)    == [t |-> "int", v |-> n]
DoubleVal(h) == [t |-> "double", v |-> h]
Junk         == [t |-> "junk", v |-> 0]
Truth(b)     == IntVal(IF b THEN 1 ELSE 0)
\* The tag of a type's values: a boolean is the int 0 or 1.
Tag(type)    == IF type = "double" THEN "double" ELSE "int"

Abs(n) == IF n < 0 THEN -n ELSE n
\* Division of C: towards zero, the remainder taking the dividend's sign.
Quot(a, b) == IF (a < 0) = (b < 0) THEN Abs(a) \div Abs(b) ELSE -(Abs(a) \div Abs(b))
Rem(a, b)  == a - b * Quot(a, b)

\* a op b on two numbers of type t; the divisor of div and mod is not 0.
Arith(op, t, a, b) ==
  CASE op = "add" -> a + b
    [] op = "sub" -> a - b
    [] op = "mul" -> IF t = "double" THEN Quot(a * b, 2) ELSE a * b
    [] op = "div" -> IF t = "double" THEN Quot(2 * a, b) ELSE Quot(a, b)
    [] op = "mod" -> Rem(a, b)

Holds(op, a, b) ==
  CASE op = "gt" -> a > b [] op = "ge" -> a >= b
    [] op = "lt" -> a < b [] op = "le" -> a <= b
    [] op = "eq" -> a = b [] op = "ne" -> a # b

ArithOps   == {"add", "sub", "mul", "div", "mod"}
CompareOps == {"gt", "ge", "lt", "le", "eq", "ne"}

\* A binary operator on two values of type t.
Binary(op, t, a, b) ==
  IF a.t # t \/ b.t # t THEN Junk
  ELSE IF op \in CompareOps THEN Truth(Holds(op, a.v, b.v))
  ELSE IF op \in {"div", "mod"} /\ b.v = 0 THEN Junk
  ELSE [t |-> t, v |-> Arith(op, t, a.v, b.v)]

AsDouble(a) == IF a.t = "int" THEN DoubleVal(2 * a.v) ELSE Junk
AsInt(a)    == IF a.t = "double" THEN IntVal(Quot(a.v, 2)) ELSE Junk
Negated(t, a) == IF a.t = t THEN [t |-> t, v |-> -a.v] ELSE Junk

=============================================================================
