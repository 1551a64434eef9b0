----------------------------- MODULE CodeShape -----------------------------
(* What generated code does to the machine's stack, told from the code       *)
(* alone: at each place of it the stack has one shape, by whatever way the   *)
(* machine got there. Each instruction finds the operands that it takes, of  *)
(* the type that it takes, and room for what it pushes.                      *)
EXTENDS Csua

\* A shape is the number of blocks, each with a slot reserved, and the members
\* written to the slots above them; f is the number of the function in a slot
\* that push_function wrote.
Members == [t : {"int", "double"}, f : Int]
Shapes  == [blocks : Nat, tags : Seq(Members)]
NumberOf(t)   == [t |-> t, f |-> -1]
FunctionOf(n) == [t |-> "int", f |-> n]
Bare(n)       == [blocks |-> n, tags |-> <<>>]
Replace(a, n, new) ==
  [blocks |-> a.blocks, tags |-> SubSeq(a.tags, 1, Len(a.tags) - n) \o new]

\* The k-th slot from the top was written as a t.
TopIs(a, k, t) == k <= Len(a.tags) /\ a.tags[Len(a.tags) - k + 1].t = t
Room(img, a) == a.blocks + Len(a.tags) <= img.stack_size /\ a.blocks <= img.pt_stack_size

-----------------------------------------------------------------------------
(* The instructions by what they do to the stack, and their types.           *)

ConstantPushes == {Op.push_int, Op.push_double}
StaticPushes   == {Op.push_static_int, Op.push_static_double}
StaticPops     == {Op.pop_static_int, Op.pop_static_double}
LogicalOpcodes == {Op.logical_and, Op.logical_or}
UnaryOpcodes   == {Op.minus_int, Op.minus_double, Op.increment, Op.decrement,
                   Op.cast_int_to_double, Op.cast_double_to_int, Op.logical_not}

MemberOf(op)  == IF op \in {Op.push_int, Op.push_static_int, Op.pop_static_int}
                 THEN "int" ELSE "double"
UnaryFrom(op) == IF op \in {Op.minus_double, Op.cast_double_to_int} THEN "double" ELSE "int"
UnaryTo(op)   == IF op \in {Op.minus_double, Op.cast_int_to_double} THEN "double" ELSE "int"
BinaryTo(op)  == IF OperatorOf(op) \in CompareOps THEN "int" ELSE OperandType(op)

\* The arguments of the native function whose number is on top.
Callee(a)  == a.tags[Len(a.tags)].f
ArgsOf(a)  == Natives[(Callee(a) % 65536) + 1].args

\* The result of a call goes where its first argument was, or the function;
\* the tag of that slot stays what it was, and the result is an int.
Callable(a) == /\ Len(a.tags) > 0 /\ Callee(a) >= 0 /\ Callee(a) % 65536 < Len(Natives)
               /\ TopIs(a, 1, "int") /\ TopIs(a, Len(ArgsOf(a)) + 1, "int")

Allowed(img, op, arg, a) ==
  /\ op \in ConstantPushes => arg < Len(img.constant_pool) /\ img.constant_pool[arg + 1].t = MemberOf(op)
  /\ op \in StaticPushes \cup StaticPops => arg < Len(img.types) /\ img.types[arg + 1] = MemberOf(op)
  /\ op \in StaticPops => TopIs(a, 1, MemberOf(op))
  /\ op \in BinaryOpcodes => TopIs(a, 1, OperandType(op)) /\ TopIs(a, 2, OperandType(op))
  /\ op \in LogicalOpcodes => TopIs(a, 1, "int") /\ TopIs(a, 2, "int")
  /\ op \in UnaryOpcodes => TopIs(a, 1, UnaryFrom(op))
  /\ op = Op.pop => Len(a.tags) > 0
  /\ op = Op.goto => TopIs(a, 1, "int")
  /\ op = Op.invoke => Callable(a)
  /\ op \in {Op.push_stack_pointer, Op.pop_stack_pointer} => a.tags = <<>>
  /\ op = Op.pop_stack_pointer => a.blocks > 0

After(op, arg, a) ==
  CASE op \in ConstantPushes \cup StaticPushes -> Replace(a, 0, <<NumberOf(MemberOf(op))>>)
    [] op \in StaticPops \cup {Op.pop, Op.goto} -> Replace(a, 1, <<>>)
    [] op \in BinaryOpcodes -> Replace(a, 2, <<NumberOf(BinaryTo(op))>>)
    [] op \in LogicalOpcodes -> Replace(a, 2, <<NumberOf("int")>>)
    [] op \in UnaryOpcodes -> Replace(a, 1, <<NumberOf(UnaryTo(op))>>)
    [] op = Op.push_function -> Replace(a, 0, <<FunctionOf(arg)>>)
    [] op = Op.invoke -> Replace(a, Len(ArgsOf(a)) + 1, <<NumberOf("int")>>)
    [] op = Op.push_stack_pointer -> Bare(a.blocks + 1)
    [] op = Op.pop_stack_pointer -> Bare(a.blocks - 1)
    [] OTHER -> a

-----------------------------------------------------------------------------
(* The shapes along the code.                                                *)

OperandOf(code, i) == IF code[i + 1] \in WithOperand THEN Operand(code, i) ELSE 0
AfterAt(code, i, a) == After(code[i + 1], OperandOf(code, i), a)

\* The code read once from its beginning, with no regard to jumps: pairs of a
\* place and the shape there. It stops where an instruction is not allowed.
Passes(img, s) == /\ s[1] < Len(img.code)
                  /\ Allowed(img, img.code[s[1] + 1], OperandOf(img.code, s[1]), s[2])
                  /\ AfterAt(img.code, s[1], s[2]) \in Shapes
Onward(img, s) == <<Behind(img.code, s[1]), AfterAt(img.code, s[1], s[2])>>
Walk(img) ==
  LET from[s \in Nat \X Shapes] ==
        {s} \cup IF Passes(img, s) THEN from[Onward(img, s)] ELSE {}
  IN  from[<<0, Bare(0)>>]
ShapesOf(img) == [i \in Boundaries(img.code) |-> (CHOOSE p \in Walk(img) : p[1] = i)[2]]

\* T gives each place its shape: the instruction there is allowed, and leads to
\* the shape behind it; a label has the shape of every goto that leads to it,
\* and there is one for each; the end of the code has the shape of the start.
Follow(T, img) ==
  LET code == img.code IN
    /\ T[0] = Bare(0) /\ T[Len(code)] = Bare(0)
    /\ \A i \in Boundaries(code) :
         /\ T[i] \in Shapes /\ Room(img, T[i])
         /\ i < Len(code) => /\ Allowed(img, code[i + 1], OperandOf(code, i), T[i])
                             /\ T[Behind(code, i)] = AfterAt(code, i, T[i])
    /\ \A g \in InstrAt(code, Op.goto) :
         /\ \A l \in InstrAt(code, Op.label) :
              g < l /\ Operand(code, g) = Operand(code, l) => T[l] = T[Behind(code, g)]
         /\ \E l \in InstrAt(code, Op.label) :
              Behind(code, g) <= l /\ Operand(code, g) = Operand(code, l)
Shaped(img) == /\ \A i \in Boundaries(img.code) : \E p \in Walk(img) : p[1] = i
               /\ Follow(ShapesOf(img), img)

-----------------------------------------------------------------------------
(* What the serializer's counts take for granted. A function's slot is not   *)
(* counted, so before a call the stack must once have been given a slot back *)
(* that was; and the count of the blocks, where there are any, takes an      *)
(* operand's byte for the instruction that ends one.                         *)

GivesBack == StaticPops \cup BinaryOpcodes \cup LogicalOpcodes \cup {Op.pop, Op.goto}
Countable(code) ==
  /\ \A n \in InstrAt(code, Op.push_function) :
       \E i \in Boundaries(code) : i < n /\ code[i + 1] \in GivesBack
  /\ InstrAt(code, Op.push_stack_pointer) # {} =>
       \A i \in Boundaries(code) :
         i < Len(code) /\ code[i + 1] \in WithOperand =>
           code[i + 2] # Op.pop_stack_pointer /\ code[i + 3] # Op.pop_stack_pointer

-----------------------------------------------------------------------------
\* Generated code leaves every type, every operand and every level of the stack
\* right, whichever branches are taken: the types of the constants and variables
\* are those its instructions take, a call finds its arguments, the branches of
\* an if statement leave the stack alike, and the sizes that the serializer
\* counts are enough (codegenvisitor.c:36-900, codegentest.c:143-200).
GeneratedCodeShaped == mode = "idle" /\ Generated => Shaped(Executable)

=============================================================================
