------------------------------- MODULE MCSvm -------------------------------
(* Every short image over a few bytes, most of them misaligned or cut off,   *)
(* and every short sequence of whole instructions.                           *)
EXTENDS SvmRun

MCNatives == <<[args |-> <<"int", "double">>, ret |-> 0], [args |-> <<"int">>, ret |-> 1]>>

MCImage(code, slots, pts) ==
  [constant_pool |-> <<IntVal(0), IntVal(1), DoubleVal(5)>>, types |-> <<"int", "double">>,
   code |-> code, stack_size |-> slots, pt_stack_size |-> pts]

\* A push, a condition, a label, a block, a byte of no opcode, and operands.
SomeBytes == {0, 1, Op.push_stack_pointer, Op.pop_static_int, Op.goto, Op.label, 200}

\* Behind a false condition: goto 0 after push_int 0.
FalseGoto == <<Op.push_int, 0, 0, Op.goto, 0, 0>>
SkippedImages == {MCImage(FalseGoto \o c, 2, 1) : c \in [1 .. 4 -> SomeBytes]}
ShortImages == {MCImage(c, 2, 1) : c \in UNION {[1 .. n -> SomeBytes] : n \in 0 .. 3}}

\* One instruction of each family; the stack is deep enough, or not.
Instr(op, operand) == IF op \in WithOperand THEN <<op, 0, operand>> ELSE <<op>>
SomeInstrs == {Instr(Op.push_int, 1), Instr(Op.push_double, 2), Instr(Op.push_static_int, 1),
               Instr(Op.push_static_double, 1), Instr(Op.pop_static_double, 1),
               Instr(Op.div_int, 0), Instr(Op.lt_double, 0), Instr(Op.logical_and, 0),
               Instr(Op.cast_double_to_int, 0), Instr(Op.minus_double, 0), Instr(Op.pop, 0),
               Instr(Op.push_function, 0), Instr(Op.push_function, 1), Instr(Op.invoke, 0),
               Instr(Op.push_stack_pointer, 0), Instr(Op.pop_stack_pointer, 0),
               Instr(Op.goto, 1), Instr(Op.label, 1)}
InstrImages == {MCImage(a \o b \o c, n, 1) :
                  a \in SomeInstrs, b \in SomeInstrs, c \in SomeInstrs \cup {<<>>},
                  n \in {1, 3}}

MCImages == {i : i \in SkippedImages \cup ShortImages \cup InstrImages}

=============================================================================
