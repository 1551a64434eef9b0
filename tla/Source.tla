------------------------------- MODULE Source -------------------------------
(* What a checked program means: its statements executed over the values of  *)
(* its variables, with no machine in between. An expression has a value and  *)
(* may change variables (an assignment, ++ and --) or print (a call);        *)
(* operands, arguments and the right side of an assignment are evaluated     *)
(* from left to right, && and || evaluate both operands, ++ and -- yield the *)
(* new value, and an assignment yields the value stored.                     *)
(*                                                                           *)
(* A result is [v, env] with env = [globals, output].                        *)
EXTENDS Integers, Sequences, Values

LOCAL IsAssign(e) == e.kind \in {"assign", "add_assign", "sub_assign", "mul_assign",
                                 "div_assign", "mod_assign"}
LOCAL CompoundOp == [add_assign |-> "add", sub_assign |-> "sub", mul_assign |-> "mul",
                     div_assign |-> "div", mod_assign |-> "mod"]
LOCAL Res(v, env) == [v |-> v, env |-> env]
LOCAL Set(env, n, v) == [env EXCEPT !.globals[n + 1] = v]

ZeroOf(type) == [t |-> Tag(type), v |-> 0]

RECURSIVE Eval(_, _, _), EvalArgs(_, _, _, _)

\* The first k children of a call, their values in order.
EvalArgs(e, k, env, natives) ==
  IF k = 0 THEN [vs |-> <<>>, env |-> env]
  ELSE LET before == EvalArgs(e, k - 1, env, natives)
           last == Eval(e.kids[k], before.env, natives)
       IN  [vs |-> Append(before.vs, last.v), env |-> last.env]

Eval(e, env, natives) ==
  LET kid(i) == e.kids[i]
      one == Eval(kid(1), env, natives)
      two == Eval(kid(2), one.env, natives)
  IN
  CASE e.kind \in {"int", "boolean"} -> Res(IntVal(e.n), env)
    [] e.kind = "double" -> Res(DoubleVal(e.n), env)
    [] e.kind = "ident"  -> Res(env.globals[e.n + 1], env)
    [] e.kind = "cast_int_to_double" -> Res(AsDouble(one.v), one.env)
    [] e.kind = "cast_double_to_int" -> Res(AsInt(one.v), one.env)
    [] e.kind = "minus"  -> Res(Negated(one.v.t, one.v), one.env)
    [] e.kind = "lognot" -> Res(Truth(one.v.v = 0), one.env)
    [] e.kind = "land"   -> Res(Truth(one.v.v = 1 /\ two.v.v = 1), two.env)
    [] e.kind = "lor"    -> Res(Truth(one.v.v = 1 \/ two.v.v = 1), two.env)
    [] e.kind \in ArithOps \cup CompareOps ->
         Res(Binary(e.kind, Tag(kid(1).type), one.v, two.v), two.env)
    [] e.kind \in {"inc", "dec"} ->
         LET v == Binary(IF e.kind = "inc" THEN "add" ELSE "sub", "int", one.v, IntVal(1))
         IN  Res(v, Set(one.env, kid(1).n, v))
    [] IsAssign(e) ->
         LET right == Eval(kid(2), env, natives)
             v == IF e.kind = "assign" THEN right.v
                  ELSE Binary(CompoundOp[e.kind], Tag(e.type), env.globals[kid(1).n + 1], right.v)
         IN  Res(v, Set(right.env, kid(1).n, v))
    [] e.kind = "call" ->
         LET n == Len(e.kids)
             args == EvalArgs(e, n - 1, env, natives)
         IN  Res(IntVal(natives[e.kids[n].n + 1].ret),
                 [args.env EXCEPT !.output = Append(@, args.vs)])

RECURSIVE Exec(_, _, _, _)

\* stmts executed from the i-th on. The body of an if whose condition is false
\* is left out: i moves behind the ifleave that closes it.
Exec(stmts, i, env, natives) ==
  IF i > Len(stmts) THEN env
  ELSE LET s == stmts[i]
           value == Eval(s.kids[1], env, natives)
           opened(j) == Len(SelectSeq(SubSeq(stmts, i, j), LAMBDA t : t.kind = "ifenter"))
           closed(j) == Len(SelectSeq(SubSeq(stmts, i, j), LAMBDA t : t.kind = "ifleave"))
           closing == CHOOSE j \in i .. Len(stmts) :
                        opened(j) = closed(j) /\ \A k \in i .. j - 1 : opened(k) > closed(k)
       IN  CASE s.kind = "exprstmt" -> Exec(stmts, i + 1, value.env, natives)
             [] s.kind = "declstmt" /\ s.kids # <<>> ->
                  Exec(stmts, i + 1, Set(value.env, s.n, value.v), natives)
             [] s.kind = "ifenter" ->
                  Exec(stmts, IF value.v.v # 0 THEN i + 1 ELSE closing + 1, value.env, natives)
             [] OTHER -> Exec(stmts, i + 1, env, natives)

Meaning(prog, natives) ==
  Exec(prog.stmts, 1,
       [globals |-> [i \in DOMAIN prog.decls |-> ZeroOf(prog.decls[i].type)], output |-> <<>>],
       natives)

=============================================================================
