----------------------------- MODULE CsuaProofs -----------------------------
(* Proofs about the machine by itself (SvmRun), and about the compiler and   *)
(* the machine together (Csua): what the code generator finished is what the *)
(* machine runs, so the invariants of the two meet, and the machine stays in *)
(* step with the code.                                                       *)
EXTENDS CodeShape, CodegenProofs, SvmRun

-----------------------------------------------------------------------------
(* The stack machine on every image whatsoever, compiled or not: its state   *)
(* stays well-typed, it never fetches a byte behind the footer of the code's *)
(* allocation, and it never goes back. FetchesInFooter is inductive with the *)
(* types alone: the bytes of the footer are no label and no opcode of the    *)
(* table, so that even a skip loop that has run off the code stops there.    *)

TagSet == {"int", "double", "junk"}

-----------------------------------------------------------------------------
(* Values.                                                                   *)

LEMMA QuotInt == ASSUME NEW a \in Int, NEW b \in Int, b # 0
                 PROVE  Quot(a, b) \in Int
<1>1. Abs(a) \in Nat /\ Abs(b) \in Nat /\ Abs(b) > 0
  BY DEF Abs
<1> DEFINE q == Abs(a) \div Abs(b)
<1>2. q \in Int
  BY <1>1
<1>3. Quot(a, b) = q \/ Quot(a, b) = -q
  BY DEF Quot
<1> HIDE DEF q
<1>4. QED
  BY <1>2, <1>3

LEMMA RemInt == ASSUME NEW a \in Int, NEW b \in Int, b # 0
                PROVE  Rem(a, b) \in Int
<1>1. Quot(a, b) \in Int
  BY QuotInt
<1>2. b * Quot(a, b) \in Int
  BY <1>1
<1>3. QED
  BY <1>2 DEF Rem

LEMMA ArithInt ==
  ASSUME NEW op \in ArithOps, NEW t \in {"int", "double"}, NEW a \in Int, NEW b \in Int,
         op \in {"div", "mod"} => b # 0
  PROVE  Arith(op, t, a, b) \in Int
<1>1. CASE op = "add"
  BY <1>1 DEF Arith
<1>2. CASE op = "sub"
  BY <1>2 DEF Arith
<1>3. CASE op = "mul"
  <2>1. a * b \in Int /\ Quot(a * b, 2) \in Int
    BY QuotInt
  <2>2. Arith(op, t, a, b) = Quot(a * b, 2) \/ Arith(op, t, a, b) = a * b
    BY <1>3 DEF Arith
  <2>3. QED
    BY <2>1, <2>2
<1>4. CASE op = "div"
  <2>1. 2 * a \in Int /\ Quot(2 * a, b) \in Int /\ Quot(a, b) \in Int
    BY <1>4, QuotInt
  <2>2. Arith(op, t, a, b) = Quot(2 * a, b) \/ Arith(op, t, a, b) = Quot(a, b)
    BY <1>4 DEF Arith
  <2>3. QED
    BY <2>1, <2>2
<1>5. CASE op = "mod"
  <2>1. Rem(a, b) \in Int
    BY <1>5, RemInt
  <2>2. Arith(op, t, a, b) = Rem(a, b)
    BY <1>5 DEF Arith
  <2>3. QED
    BY <2>1, <2>2
<1>6. QED
  BY <1>1, <1>2, <1>3, <1>4, <1>5 DEF ArithOps

\* The operators of the machine return values, also for junk operands.
LEMMA BasicValues ==
  /\ Junk \in Value
  /\ \A n \in Int : IntVal(n) \in Value /\ DoubleVal(n) \in Value
  /\ \A v \in Value, t \in TagSet : As(t, v) \in Value
  /\ \A p \in BOOLEAN : Truth(p) \in Value
BY DEF Junk, IntVal, DoubleVal, Truth, As, Value, TagSet

LEMMA BinaryValue ==
  ASSUME NEW op \in ArithOps \cup CompareOps, NEW t \in {"int", "double"},
         NEW a \in Value, NEW b \in Value
  PROVE  Binary(op, t, a, b) \in Value
<1>1. a.v \in Int /\ b.v \in Int
  BY DEF Value
<1>2. CASE a.t # t \/ b.t # t
  BY <1>2, BasicValues DEF Binary
<1>3. CASE a.t = t /\ b.t = t /\ op \in CompareOps
  <2>1. Truth(Holds(op, a.v, b.v)) \in Value
    BY DEF Truth, IntVal, Value
  <2>2. QED
    BY <1>3, <2>1 DEF Binary
<1>4. CASE a.t = t /\ b.t = t /\ op \notin CompareOps
  <2>1. CASE op \in {"div", "mod"} /\ b.v = 0
    BY <1>4, <2>1, BasicValues DEF Binary
  <2>2. CASE ~(op \in {"div", "mod"} /\ b.v = 0)
    <3>1. Arith(op, t, a.v, b.v) \in Int
      BY <1>1, <1>4, <2>2, ArithInt
    <3>2. Binary(op, t, a, b) = [t |-> t, v |-> Arith(op, t, a.v, b.v)]
      BY <1>4, <2>2 DEF Binary
    <3>3. QED
      BY <3>1, <3>2 DEF Value
  <2>3. QED
    BY <2>1, <2>2
<1>5. QED
  BY <1>2, <1>3, <1>4

LEMMA UnaryValue ==
  ASSUME NEW b \in (23 .. 28) \cup {Op.logical_not}, NEW v \in Value
  PROVE  UnaryResult(b, v) \in Value
<1>1. v.v \in Int /\ IntVal(1) \in Value
  BY BasicValues DEF Value
<1>2. /\ Negated("int", v) \in Value /\ Negated("double", v) \in Value
      /\ AsDouble(v) \in Value
  BY <1>1, BasicValues DEF Negated, AsDouble, Value, DoubleVal
<1>3. AsInt(v) \in Value
  <2>1. Quot(v.v, 2) \in Int
    BY <1>1, QuotInt
  <2>2. QED
    BY <2>1, BasicValues DEF AsInt
<1>4. /\ Binary("add", "int", v, IntVal(1)) \in Value
      /\ Binary("sub", "int", v, IntVal(1)) \in Value
  BY <1>1, BinaryValue DEF ArithOps
<1>5. (IF v.t = "int" THEN Truth(v.v # 1) ELSE Junk) \in Value
  BY BasicValues
<1>6. b = 23 \/ b = 24 \/ b = 25 \/ b = 26 \/ b = 27 \/ b = 28 \/ b = 43
  BY DEF Op
<1>7. QED
  BY <1>2, <1>3, <1>4, <1>5, <1>6 DEF UnaryResult, Op

\* Every opcode of the family stands for an operator.
LEMMA OperatorOfType ==
  ASSUME NEW b \in BinaryOpcodes
  PROVE  OperatorOf(b) \in ArithOps \cup CompareOps /\ OperandType(b) \in {"int", "double"}
<1>1. CASE b \in 13 .. 22
  <2>1. (b - 13) \div 2 + 1 \in 1 .. 5
    BY <1>1
  <2>2. \A i \in 1 .. 5 : <<"add", "sub", "mul", "div", "mod">>[i] \in ArithOps
    BY DEF ArithOps
  <2>3. QED
    BY <1>1, <2>1, <2>2 DEF OperatorOf, OperandType
<1>2. CASE b \in 29 .. 40
  <2>1. (b - 29) \div 2 + 1 \in 1 .. 6 /\ ~(b <= 22)
    BY <1>2
  <2>2. \A i \in 1 .. 6 : <<"eq", "ne", "gt", "ge", "lt", "le">>[i] \in CompareOps
    BY DEF CompareOps
  <2>3. QED
    BY <1>2, <2>1, <2>2 DEF OperatorOf, OperandType
<1>3. QED
  BY <1>1, <1>2 DEF BinaryOpcodes

-----------------------------------------------------------------------------
(* The building blocks of a step.                                            *)

SvmInv == SvmTypeOK /\ FetchesInFooter

\* What every instruction does to the machine: it stays in the invariant, and
\* if it does not end the run, it moves forward.
Sound == SvmInv' /\ mode' # "idle" /\ (mode' \in {"run", "skip"} => pc' > pc)

\* A step's effect on what is not the position.
DataOK ==
  /\ sp \in Nat
  /\ stack \in [0 .. image.stack_size - 1 -> Value]
  /\ stack_value_type \in [0 .. image.stack_size - 1 -> TagSet]
  /\ pt_stack \in Seq(Nat) /\ globals \in Seq(Value) /\ output \in Seq(Seq(Value))

LEMMA DataTyped == ASSUME SvmTypeOK, mode # "idle" PROVE DataOK
BY DEF SvmTypeOK, DataOK, TagSet

\* Two bytes are a uint16_t.
LEMMA WordsTyped == \A h, l \in Byte : h * 256 + l \in UInt16 /\ h * 256 + l \in Nat
<1>1. /\ UINT8_MAX \in Nat /\ UINT8_MAX <= 255
      /\ UINT16_MAX \in Nat /\ UINT16_MAX >= 65535
  BY DEF UINT8_MAX, UINT16_MAX
<1>2. QED
  BY <1>1 DEF Byte, UInt16

LEMMA BytesTyped ==
  ASSUME SvmTypeOK
  PROVE  /\ code_size \in Nat
         /\ \A i \in Nat : CodeByte(i) \in Byte
         /\ Arg \in UInt16 /\ Arg \in Nat /\ Opcode \in Byte
         /\ Opcode \in {Op.label} \cup 0 .. 49 => pc < code_size
<1>1. image.code \in Seq(Byte) /\ pc \in Nat
  BY DEF SvmTypeOK, Image
<1>2. code_size \in Nat
  BY <1>1 DEF code_size
<1>3. ASSUME NEW i \in Nat PROVE CodeByte(i) \in Byte
  <2>1. CASE i < code_size
    <3>1. i + 1 \in 1 .. Len(image.code)
      BY <1>1, <2>1 DEF code_size
    <3>2. QED
      BY <1>1, <2>1, <3>1 DEF CodeByte
  <2>2. CASE ~(i < code_size)
    BY <2>2 DEF CodeByte, MARK, Byte, UINT8_MAX
  <2>3. QED
    BY <2>1, <2>2
<1>4. CodeByte(pc) \in Byte /\ CodeByte(pc + 1) \in Byte /\ CodeByte(pc + 2) \in Byte
  BY <1>1, <1>3
<1>5. Arg \in UInt16 /\ Arg \in Nat
  BY <1>4, WordsTyped DEF Arg
<1>6. Opcode \in {Op.label} \cup 0 .. 49 => pc < code_size
  <2>1. Op.label = 49
    BY DEF Op
  <2>2. ~(pc < code_size) => Opcode = 205
    BY DEF Opcode, CodeByte, MARK
  <2>3. QED
    BY <2>1, <2>2
<1>7. QED
  BY <1>2, <1>3, <1>4, <1>5, <1>6 DEF Opcode

\* The i-th of n arguments below the top is a slot of the stack.
LEMMA Slots ==
  ASSUME NEW base \in Nat, NEW n \in Nat, NEW top \in Nat, NEW size \in Nat,
         base = top - 1 - n, top <= size, NEW i \in 1 .. n
  PROVE  base + i - 1 \in 0 .. size - 1
OBVIOUS

\* Sequences as functions.
LEMMA Element ==
  ASSUME NEW S, NEW s \in Seq(S), NEW i \in 1 .. Len(s)
  PROVE  s[i] \in S
OBVIOUS

LEMMA ListedTyped ==
  ASSUME NEW S, NEW n \in Nat, NEW g \in [1 .. n -> S]
  PROVE  g \in Seq(S)
OBVIOUS

\* The sequences that an operand is an index of.
LEMMA PoolsTyped ==
  ASSUME SvmTypeOK
  PROVE  /\ image.constant_pool \in Seq(Value) /\ Len(image.constant_pool) \in Nat
         /\ globals \in Seq(Value) /\ Len(globals) \in Nat
<1>1. image.constant_pool \in Seq(Value)
  BY DEF SvmTypeOK, Image
<1>2. globals \in Seq(Value)
  BY DEF SvmTypeOK
<1>3. QED
  BY <1>1, <1>2

LEMMA Indexed ==
  ASSUME NEW n \in Nat, NEW len \in Nat, n < len
  PROVE  n + 1 \in 1 .. len
OBVIOUS

LEMMA SizesTyped == \A b : OpSize(b) \in {0, 2} /\ SSize(b) \in {-1, 0, 1}
BY DEF OpSize, SSize

\* An instruction that went well, once its data is known to be typed.
LEMMA Advanced ==
  ASSUME SvmInv, Running, Advance, DataOK'
  PROVE  Sound
<1>1. pc \in Nat /\ mode = "run" /\ code_size \in Nat /\ (pc < code_size \/ pc = 0)
  BY BytesTyped DEF SvmInv, SvmTypeOK, Running
<1>2. /\ pc' = pc + 1 \/ pc' = pc + 3
      /\ image' = image /\ seeking' = seeking /\ mode' = "run"
  BY <1>1, SizesTyped DEF Advance
<1>3. pc' \in Nat /\ pc' > pc /\ pc' < code_size + MARK_SIZE
  BY <1>1, <1>2 DEF MARK_SIZE
<1>4. SvmTypeOK'
  BY <1>2, <1>3 DEF SvmInv, SvmTypeOK, DataOK, TagSet
<1>5. FetchesInFooter'
  BY <1>2, <1>3 DEF FetchesInFooter, code_size
<1>6. QED
  BY <1>2, <1>3, <1>4, <1>5 DEF Sound, SvmInv

LEMMA Stopping ==
  ASSUME SvmInv, mode # "idle", NEW m \in {"done", "exit", "undefined"}, Stop(m)
  PROVE  Sound
<1>1. SvmTypeOK' /\ FetchesInFooter'
  BY DEF SvmInv, Stop, SvmTypeOK, FetchesInFooter, code_size
<1>2. QED
  BY <1>1 DEF Sound, SvmInv, Stop

LEMMA Stored ==
  ASSUME SvmTypeOK, mode # "idle", image' = image, NEW n \in Nat, n <= sp,
         NEW tag \in TagSet, NEW v \in Value, Store(n, tag, v),
         pt_stack' \in Seq(Nat), globals' \in Seq(Value), output' \in Seq(Seq(Value))
  PROVE  DataOK'
<1>1. sp' \in Nat
  BY DEF Store, SvmTypeOK
<1>2. stack' \in [0 .. image.stack_size - 1 -> Value]
  BY DataTyped DEF Store, DataOK
<1>3. stack_value_type' \in [0 .. image.stack_size - 1 -> TagSet]
  BY DataTyped DEF Store, DataOK
<1>4. QED
  BY <1>1, <1>2, <1>3 DEF DataOK

LEMMA Dropped ==
  ASSUME SvmTypeOK, mode # "idle", image' = image, NEW n \in Nat, n <= sp, Drop(n),
         pt_stack' \in Seq(Nat), globals' \in Seq(Value), output' \in Seq(Seq(Value))
  PROVE  DataOK'
<1>1. sp' \in Nat
  BY DEF Drop, SvmTypeOK
<1>2. QED
  BY <1>1, DataTyped DEF Drop, DataOK

LEMMA TopTyped ==
  ASSUME SvmTypeOK, mode # "idle", NEW n \in Nat, CanPop(n), NEW k \in 1 .. n
  PROVE  Top(k) \in Value
<1>1. sp \in Nat /\ image.stack_size \in Nat
  BY DEF SvmTypeOK, Image
<1>2. sp - k \in 0 .. image.stack_size - 1
  BY <1>1 DEF CanPop
<1>3. QED
  BY <1>2, DataTyped DEF Top, DataOK

--------------------------------------------------------

-----------------------------------------------------------------------------
(* One lemma per instruction.                                                *)

LEMMA PushConstantOK == SvmInv /\ PushConstant => Sound
<1> SUFFICES ASSUME SvmInv, PushConstant
             PROVE  Sound
  OBVIOUS
<1>1. mode # "idle" /\ Running /\ SvmTypeOK
  BY DEF PushConstant, Running, SvmInv
<1>2. CASE Undefined
  BY <1>1, <1>2, Stopping DEF Undefined
<1>3. ASSUME NEW t \in {"int", "double"}, Arg < Len(image.constant_pool),
             Store(0, t, As(t, image.constant_pool[Arg + 1])), Advance,
             UNCHANGED <<pt_stack, globals, output>>
      PROVE  Sound
  <2>1. image.constant_pool[Arg + 1] \in Value
    <3>1. image.constant_pool \in Seq(Value) /\ Arg + 1 \in 1 .. Len(image.constant_pool)
      <4>1. Arg \in Nat /\ Arg < Len(image.constant_pool)
        BY <1>1, <1>3, BytesTyped
      <4>2. QED
        BY <1>1, <4>1, PoolsTyped, Indexed
    <3>2. QED
      BY <3>1
  <2>2. As(t, image.constant_pool[Arg + 1]) \in Value /\ t \in TagSet
    BY <2>1, BasicValues DEF TagSet
  <2>3. DataOK'
    BY <1>1, <1>3, <2>2, DataTyped, Stored DEF Advance, DataOK
  <2>4. QED
    BY <1>1, <1>3, <2>3, Advanced
<1>4. QED
  BY <1>2, <1>3 DEF PushConstant

LEMMA PushStaticOK == SvmInv /\ PushStatic => Sound
<1> SUFFICES ASSUME SvmInv, PushStatic
             PROVE  Sound
  OBVIOUS
<1>1. mode # "idle" /\ Running /\ SvmTypeOK
  BY DEF PushStatic, Running, SvmInv
<1>2. CASE Undefined
  BY <1>1, <1>2, Stopping DEF Undefined
<1>3. ASSUME NEW t \in {"int", "double"}, Arg < Len(globals),
             Store(0, t, As(t, globals[Arg + 1])), Advance,
             UNCHANGED <<pt_stack, globals, output>>
      PROVE  Sound
  <2>1. globals[Arg + 1] \in Value
    <3>1. globals \in Seq(Value) /\ Arg + 1 \in 1 .. Len(globals)
      <4>1. Arg \in Nat /\ Arg < Len(globals)
        BY <1>1, <1>3, BytesTyped
      <4>2. QED
        BY <1>1, <4>1, PoolsTyped, Indexed
    <3>2. QED
      BY <3>1
  <2>2. As(t, globals[Arg + 1]) \in Value /\ t \in TagSet
    BY <2>1, BasicValues DEF TagSet
  <2>3. DataOK'
    BY <1>1, <1>3, <2>2, DataTyped, Stored DEF Advance, DataOK
  <2>4. QED
    BY <1>1, <1>3, <2>3, Advanced
<1>4. QED
  BY <1>2, <1>3 DEF PushStatic

LEMMA PopStaticOK == SvmInv /\ PopStatic => Sound
<1> SUFFICES ASSUME SvmInv, PopStatic
             PROVE  Sound
  OBVIOUS
<1>1. mode # "idle" /\ Running /\ SvmTypeOK
  BY DEF PopStatic, Running, SvmInv
<1>2. CASE Undefined
  BY <1>1, <1>2, Stopping DEF Undefined
<1>3. ASSUME NEW t \in {"int", "double"}, Arg < Len(globals), CanPop(1),
             globals' = [globals EXCEPT ![Arg + 1] = As(t, Top(1))],
             Drop(1), Advance, UNCHANGED <<pt_stack, output>>
      PROVE  Sound
  <2>1. As(t, Top(1)) \in Value
    <3>1. Top(1) \in Value
      BY <1>1, <1>3, TopTyped
    <3>2. QED
      BY <3>1, BasicValues DEF TagSet
  <2>2. globals' \in Seq(Value)
    <3>1. globals \in Seq(Value) /\ Arg + 1 \in 1 .. Len(globals)
      <4>1. Arg \in Nat /\ Arg < Len(globals)
        BY <1>1, <1>3, BytesTyped
      <4>2. QED
        BY <1>1, <4>1, PoolsTyped, Indexed
    <3>2. QED
      BY <1>3, <2>1, <3>1
  <2>3. DataOK'
    BY <1>1, <1>3, <2>2, DataTyped, Dropped DEF Advance, DataOK, CanPop
  <2>4. QED
    BY <1>1, <1>3, <2>3, Advanced
<1>4. QED
  BY <1>2, <1>3 DEF PopStatic

LEMMA BinaryInstrOK == SvmInv /\ BinaryInstr => Sound
<1> SUFFICES ASSUME SvmInv, BinaryInstr
             PROVE  Sound
  OBVIOUS
<1> DEFINE op == OperatorOf(Opcode)
           t == OperandType(Opcode)
           tag == IF op \in CompareOps THEN "int" ELSE t
           v == Binary(op, t, Top(2), Top(1))
<1>1. mode # "idle" /\ Running /\ SvmTypeOK /\ Opcode \in BinaryOpcodes
  BY DEF BinaryInstr, Running, SvmInv
<1>2. CASE Undefined
  BY <1>1, <1>2, Stopping DEF Undefined
<1>3. CASE CanPop(2) /\ Store(2, tag, v) /\ Advance /\ UNCHANGED <<pt_stack, globals, output>>
  <2>1. Top(1) \in Value /\ Top(2) \in Value
    BY <1>1, <1>3, TopTyped
  <2>2. op \in ArithOps \cup CompareOps /\ t \in {"int", "double"}
    BY <1>1, OperatorOfType
  <2>3. v \in Value /\ tag \in TagSet
    BY <2>1, <2>2, BinaryValue DEF TagSet
  <2> HIDE DEF op, t, tag, v
  <2>4. DataOK'
    BY <1>1, <1>3, <2>3, DataTyped, Stored DEF Advance, DataOK, CanPop
  <2>5. QED
    BY <1>1, <1>3, <2>4, Advanced
<1>4. QED
  BY <1>2, <1>3 DEF BinaryInstr

LEMMA LogicalInstrOK == SvmInv /\ LogicalInstr => Sound
<1> SUFFICES ASSUME SvmInv, LogicalInstr
             PROVE  Sound
  OBVIOUS
<1> DEFINE v == Logical(Opcode, Top(2), Top(1))
<1>1. mode # "idle" /\ Running /\ SvmTypeOK
  BY DEF LogicalInstr, Running, SvmInv
<1>2. CASE Undefined
  BY <1>1, <1>2, Stopping DEF Undefined
<1>3. CASE CanPop(2) /\ Store(2, "int", v) /\ Advance /\ UNCHANGED <<pt_stack, globals, output>>
  <2>1. v \in Value /\ "int" \in TagSet
    BY BasicValues DEF Logical, TagSet
  <2> HIDE DEF v
  <2>2. DataOK'
    BY <1>1, <1>3, <2>1, DataTyped, Stored DEF Advance, DataOK, CanPop
  <2>3. QED
    BY <1>1, <1>3, <2>2, Advanced
<1>4. QED
  BY <1>2, <1>3 DEF LogicalInstr

LEMMA UnaryInstrOK == SvmInv /\ UnaryInstr => Sound
<1> SUFFICES ASSUME SvmInv, UnaryInstr
             PROVE  Sound
  OBVIOUS
<1> DEFINE v == UnaryResult(Opcode, Top(1))
           tag == IF Opcode \in {Op.minus_double, Op.cast_int_to_double} THEN "double" ELSE "int"
<1>1. /\ mode # "idle" /\ Running /\ SvmTypeOK
      /\ Opcode \in (23 .. 28) \cup {Op.logical_not}
  BY DEF UnaryInstr, Running, SvmInv
<1>2. CASE Undefined
  BY <1>1, <1>2, Stopping DEF Undefined
<1>3. CASE CanPop(1) /\ Store(1, tag, v) /\ Advance /\ UNCHANGED <<pt_stack, globals, output>>
  <2>1. Top(1) \in Value
    BY <1>1, <1>3, TopTyped
  <2>2. v \in Value /\ tag \in TagSet
    BY <1>1, <2>1, UnaryValue DEF TagSet
  <2> HIDE DEF v, tag
  <2>3. DataOK'
    BY <1>1, <1>3, <2>2, DataTyped, Stored DEF Advance, DataOK, CanPop
  <2>4. QED
    BY <1>1, <1>3, <2>3, Advanced
<1>4. QED
  BY <1>2, <1>3 DEF UnaryInstr

--------------------------------------------------------

LEMMA PopInstrOK == SvmInv /\ PopInstr => Sound
<1> SUFFICES ASSUME SvmInv, PopInstr
             PROVE  Sound
  OBVIOUS
<1>1. mode # "idle" /\ Running /\ SvmTypeOK
  BY DEF PopInstr, Running, SvmInv
<1>2. CASE Undefined
  BY <1>1, <1>2, Stopping DEF Undefined
<1>3. CASE CanPop(1) /\ Drop(1) /\ Advance /\ UNCHANGED <<pt_stack, globals, output>>
  <2>1. DataOK'
    BY <1>1, <1>3, DataTyped, Dropped DEF Advance, DataOK, CanPop
  <2>2. QED
    BY <1>1, <1>3, <2>1, Advanced
<1>4. QED
  BY <1>2, <1>3 DEF PopInstr

LEMMA PushFunctionOK == SvmInv /\ PushFunction => Sound
<1> SUFFICES ASSUME SvmInv, PushFunction
             PROVE  Sound
  OBVIOUS
<1>1. mode # "idle" /\ Running /\ SvmTypeOK
  BY DEF PushFunction, Running, SvmInv
<1>2. CASE Undefined
  BY <1>1, <1>2, Stopping DEF Undefined
<1>3. CASE Store(0, "int", IntVal(Arg)) /\ Advance /\ UNCHANGED <<pt_stack, globals, output>>
  <2>1. IntVal(Arg) \in Value /\ "int" \in TagSet
    BY <1>1, BytesTyped, BasicValues DEF TagSet
  <2>2. DataOK'
    BY <1>1, <1>3, <2>1, DataTyped, Stored DEF Advance, DataOK
  <2>3. QED
    BY <1>1, <1>3, <2>2, Advanced
<1>4. QED
  BY <1>2, <1>3 DEF PushFunction

LEMMA InvokeOK == SvmInv /\ Invoke => Sound
<1> SUFFICES ASSUME SvmInv, Invoke
             PROVE  Sound
  OBVIOUS
<1> DEFINE w == Top(1).v % 65536
           f == Natives[w + 1]
           base == sp - 1 - Len(f.args)
           args == [i \in DOMAIN f.args |-> As(f.args[i], stack[base + i - 1])]
<1>1. mode # "idle" /\ Running /\ SvmTypeOK
  BY DEF Invoke, Running, SvmInv
<1>2. CASE Undefined
  BY <1>1, <1>2, Stopping DEF Undefined
<1>3. CASE /\ CanPop(1) /\ w < Len(Natives) /\ base >= 0
           /\ output' = Append(output, args)
           /\ stack' = [stack EXCEPT ![base] = IntVal(f.ret)]
           /\ sp' = base + 1
           /\ Advance /\ UNCHANGED <<stack_value_type, pt_stack, globals>>
  <2>1. w \in Nat
    <3>1. Top(1).v \in Int
      BY <1>1, <1>3, TopTyped DEF Value
    <3>2. QED
      BY <3>1
  <2>2. f \in [args : Seq({"int", "double"}), ret : {0, 1}]
    <3>1. Len(Natives) \in Nat
      BY NativesAssumption
    <3>2. w + 1 \in 1 .. Len(Natives)
      BY <1>3, <2>1, <3>1, Indexed
    <3> HIDE DEF w
    <3>3. QED
      BY <3>2, NativesAssumption, Element
  <2> HIDE DEF w, f
  <2>3. /\ f.args \in Seq({"int", "double"}) /\ Len(f.args) \in Nat
        /\ IntVal(f.ret) \in Value
    BY <2>2, BasicValues
  <2>4. base \in Nat /\ sp \in Nat /\ image.stack_size \in Nat /\ sp <= image.stack_size
    BY <1>1, <1>3, <2>3 DEF SvmTypeOK, Image, CanPop
  <2>5. args \in Seq(Value)
    <3>1. ASSUME NEW i \in 1 .. Len(f.args)
          PROVE  As(f.args[i], stack[base + i - 1]) \in Value
      <4>1. base + i - 1 \in 0 .. image.stack_size - 1
        <5>1. base = sp - 1 - Len(f.args)
          OBVIOUS
        <5> HIDE DEF base
        <5>2. QED
          BY <2>3, <2>4, <5>1, Slots
      <4>2. stack[base + i - 1] \in Value
        BY <1>1, <4>1, DataTyped DEF DataOK
      <4>3. f.args[i] \in TagSet
        BY <2>3 DEF TagSet
      <4>4. QED
        BY <4>2, <4>3, BasicValues
    <3>2. DOMAIN f.args = 1 .. Len(f.args)
      BY <2>3
    <3>3. args \in [1 .. Len(f.args) -> Value]
      BY <3>1, <3>2
    <3> HIDE DEF args
    <3>4. QED
      BY <2>3, <3>3, ListedTyped
  <2>6. output' \in Seq(Seq(Value))
    <3>1. output \in Seq(Seq(Value))
      BY <1>1 DEF SvmTypeOK
    <3> HIDE DEF args
    <3>2. QED
      BY <1>3, <2>5, <3>1
  <2>7. stack' \in [0 .. image.stack_size - 1 -> Value]
    BY <1>1, <1>3, <2>3, DataTyped DEF DataOK
  <2>8. sp' \in Nat
    BY <1>3, <2>4
  <2>9. DataOK'
    BY <1>1, <1>3, <2>6, <2>7, <2>8, DataTyped DEF DataOK, Advance
  <2>10. QED
    BY <1>1, <1>3, <2>9, Advanced
<1>4. QED
  BY <1>2, <1>3 DEF Invoke

LEMMA StackPtOK == SvmInv /\ (PushStackPt \/ PopStackPt) => Sound
<1> SUFFICES ASSUME SvmInv, PushStackPt \/ PopStackPt
             PROVE  Sound
  OBVIOUS
<1>1. /\ mode # "idle" /\ Running /\ SvmTypeOK /\ sp \in Nat /\ pt_stack \in Seq(Nat)
      /\ DataOK
  BY DataTyped DEF PushStackPt, PopStackPt, Running, SvmInv, SvmTypeOK
<1>2. CASE Undefined \/ Stop("exit")
  BY <1>1, <1>2, Stopping DEF Undefined
<1>3. CASE /\ pt_stack' = Append(pt_stack, sp) /\ sp' = sp + 1 /\ Advance
           /\ UNCHANGED <<stack, stack_value_type, globals, output>>
  <2>1. pt_stack' \in Seq(Nat) /\ sp' \in Nat
    BY <1>1, <1>3
  <2>2. DataOK'
    BY <1>1, <1>3, <2>1 DEF DataOK, Advance
  <2>3. QED
    BY <1>1, <1>3, <2>2, Advanced
<1>4. CASE /\ pt_stack # <<>> /\ sp' = pt_stack[Len(pt_stack)]
           /\ pt_stack' = SubSeq(pt_stack, 1, Len(pt_stack) - 1)
           /\ Advance /\ UNCHANGED <<stack, stack_value_type, globals, output>>
  <2>1. pt_stack' \in Seq(Nat) /\ sp' \in Nat
    BY <1>1, <1>4
  <2>2. DataOK'
    BY <1>1, <1>4, <2>1 DEF DataOK, Advance
  <2>3. QED
    BY <1>1, <1>4, <2>2, Advanced
<1>5. QED
  BY <1>2, <1>3, <1>4 DEF PushStackPt, PopStackPt

\* A condition is popped, and what it says decides only about the mode.
LEMMA GotoOK == SvmInv /\ Goto => Sound
<1> SUFFICES ASSUME SvmInv, Goto
             PROVE  Sound
  OBVIOUS
<1>1. mode = "run" /\ Running /\ SvmTypeOK /\ pc \in Nat /\ Opcode = Op.goto
  BY DEF Goto, Running, SvmInv, SvmTypeOK
<1>2. CASE Undefined
  BY <1>1, <1>2, Stopping DEF Undefined
<1>3. CASE /\ CanPop(1) /\ pc' = pc + 3 /\ Drop(1)
           /\ UNCHANGED <<image, pt_stack, globals, output>>
           /\ \/ UNCHANGED <<mode, seeking>>
              \/ mode' = "skip" /\ seeking' = Arg
  <2>1. DataOK'
    BY <1>1, <1>3, DataTyped, Dropped DEF DataOK, CanPop
  <2>2. pc < code_size /\ code_size \in Nat /\ Arg \in UInt16
    BY <1>1, BytesTyped DEF Op
  <2>3. pc' \in Nat /\ pc' > pc /\ pc' < code_size + MARK_SIZE
    BY <1>1, <1>3, <2>2 DEF MARK_SIZE
  <2>4. SvmTypeOK'
    BY <1>1, <1>3, <2>1, <2>2, <2>3 DEF SvmTypeOK, DataOK, TagSet
  <2>5. FetchesInFooter'
    BY <1>3, <2>3 DEF FetchesInFooter, code_size
  <2>6. QED
    BY <1>1, <1>3, <2>3, <2>4, <2>5 DEF Sound, SvmInv
<1>4. QED
  BY <1>2, <1>3 DEF Goto

LEMMA LabelOK == SvmInv /\ Label => Sound
<1> SUFFICES ASSUME SvmInv, Label
             PROVE  Sound
  OBVIOUS
<1>1. Running /\ SvmTypeOK /\ mode # "idle" /\ Advance
      /\ UNCHANGED <<sp, stack, stack_value_type, pt_stack, globals, output>>
  BY DEF Label, Running, SvmInv
<1>2. DataOK'
  BY <1>1, DataTyped DEF DataOK, Advance
<1>3. QED
  BY <1>1, <1>2, Advanced

\* One step of the skip loop from a byte of the code.
LEMMA SkippedTo ==
  ASSUME SvmInv, mode = "skip", pc < code_size,
         NEW k \in 1 .. 3, NEW m \in {"run", "skip", "exit"}, SkipTo(pc + k, m),
         seeking' \in {seeking, NoLabel}
  PROVE  Sound
<1>1. pc \in Nat /\ code_size \in Nat /\ SvmTypeOK /\ DataOK
  BY BytesTyped, DataTyped DEF SvmInv, SvmTypeOK
<1>2. pc' \in Nat /\ pc' > pc /\ pc' < code_size + MARK_SIZE
  BY <1>1 DEF SkipTo, MARK_SIZE
<1>3. SvmTypeOK'
  BY <1>1, <1>2 DEF SvmTypeOK, SkipTo
<1>4. FetchesInFooter'
  BY <1>2 DEF FetchesInFooter, SkipTo, code_size
<1>5. QED
  BY <1>2, <1>3, <1>4 DEF Sound, SvmInv, SkipTo

LEMMA SkipLabelOK == SvmInv /\ SkipLabel => Sound
<1> SUFFICES ASSUME SvmInv, SkipLabel
             PROVE  Sound
  OBVIOUS
<1>1. mode = "skip" /\ pc < code_size
  BY BytesTyped DEF SkipLabel, SvmInv
<1>2. CASE SkipTo(pc + 3, "run") /\ seeking' = NoLabel
  BY <1>1, <1>2, SkippedTo
<1>3. CASE SkipOn(pc + 3)
  BY <1>1, <1>3, SkippedTo DEF SkipOn
<1>4. QED
  BY <1>2, <1>3 DEF SkipLabel

LEMMA SkipOtherOK == SvmInv /\ SkipOther => Sound
<1> SUFFICES ASSUME SvmInv, SkipOther
             PROVE  Sound
  OBVIOUS
<1> DEFINE k == 1 + (IF SSize(Opcode) >= 1 THEN 2 * SSize(Opcode) ELSE 0)
<1>1. mode = "skip" /\ pc \in Nat
  BY DEF SkipOther, SvmInv, SvmTypeOK
<1>2. CASE Undefined
  BY <1>1, <1>2, Stopping DEF Undefined
<1>3. CASE InTable(Opcode) /\ SkipOn(pc + k)
  <2>1. pc < code_size
    BY <1>3, BytesTyped DEF InTable, SvmInv
  <2>2. k \in 1 .. 3
    BY SizesTyped
  <2> HIDE DEF k
  <2>3. QED
    BY <1>1, <1>3, <2>1, <2>2, SkippedTo DEF SkipOn
<1>4. pc + 1 + (IF SSize(Opcode) >= 1 THEN 2 * SSize(Opcode) ELSE 0) = pc + k
  BY <1>1, SizesTyped
<1>5. QED
  BY <1>2, <1>3, <1>4 DEF SkipOther

-----------------------------------------------------------------------------
LEMMA SvmNextOK == SvmInv /\ SvmNext => Sound
<1> SUFFICES ASSUME SvmInv, SvmNext
             PROVE  Sound
  OBVIOUS
<1>1. CASE PushConstant \/ PushStatic \/ PopStatic
  BY <1>1, PushConstantOK, PushStaticOK, PopStaticOK
<1>2. CASE BinaryInstr \/ LogicalInstr \/ UnaryInstr \/ PopInstr
  BY <1>2, BinaryInstrOK, LogicalInstrOK, UnaryInstrOK, PopInstrOK
<1>3. CASE PushFunction \/ Invoke \/ PushStackPt \/ PopStackPt
  BY <1>3, PushFunctionOK, InvokeOK, StackPtOK
<1>4. CASE Goto \/ Label \/ SkipLabel \/ SkipOther
  BY <1>4, GotoOK, LabelOK, SkipLabelOK, SkipOtherOK
<1>5. CASE Unknown
  <2>1. mode # "idle" /\ (Stop("undefined") \/ Stop("exit"))
    BY <1>5 DEF Unknown, Running
  <2>2. QED
    BY <2>1, Stopping
<1>6. CASE ShowStatus
  <2> DEFINE m == IF sp > image.stack_size THEN "undefined"
                  ELSE IF \E i \in 0 .. sp - 1 : stack_value_type[i] = "junk" THEN "exit"
                  ELSE "done"
  <2>1. m \in {"done", "exit", "undefined"}
    OBVIOUS
  <2>2. Stop(m) /\ mode # "idle"
    BY <1>6 DEF ShowStatus
  <2> HIDE DEF m
  <2>3. QED
    BY <2>1, <2>2, Stopping
<1>7. QED
  BY <1>1, <1>2, <1>3, <1>4, <1>5, <1>6 DEF SvmNext

\* The program svm, or any other that loads a well-formed image.
LEMMA LoadOK == ASSUME SvmInv, NEW img \in Image, Load(img) PROVE SvmInv'
<1>1. /\ image' \in Image /\ pc' = 0 /\ sp' = 0 /\ pt_stack' = <<>> /\ output' = <<>>
      /\ seeking' = NoLabel /\ mode' = "run"
  BY DEF Load
<1>2. /\ stack' \in [0 .. image'.stack_size - 1 -> Value]
      /\ stack_value_type' \in [0 .. image'.stack_size - 1 -> {"int", "double", "junk"}]
  BY BasicValues DEF Load
<1>3. globals' \in Seq(Value)
  <2>1. img.types \in Seq({"int", "double"})
    BY DEF Image
  <2>2. \A i \in 1 .. Len(img.types) : [t |-> img.types[i], v |-> 0] \in Value
    BY <2>1 DEF Value
  <2>3. DOMAIN img.types = 1 .. Len(img.types) /\ Len(img.types) \in Nat
    BY <2>1
  <2>4. [i \in 1 .. Len(img.types) |-> [t |-> img.types[i], v |-> 0]] \in Seq(Value)
    BY <2>2, <2>3
  <2>5. QED
    BY <2>3, <2>4 DEF Load
<1>4. SvmTypeOK'
  BY <1>1, <1>2, <1>3 DEF SvmTypeOK
<1>5. FetchesInFooter'
  <2>1. Len(image'.code) \in Nat
    BY <1>1 DEF Image
  <2>2. QED
    BY <1>1, <2>1 DEF FetchesInFooter, code_size, MARK_SIZE
<1>6. QED
  BY <1>4, <1>5 DEF SvmInv

LEMMA RunInitOK == RunInit => SvmInv
<1> SUFFICES ASSUME RunInit
             PROVE  SvmInv
  OBVIOUS
<1>1. image \in Image /\ Len(image.code) \in Nat
  BY ImagesAssumption DEF RunInit, Image
<1>2. SvmTypeOK
  BY <1>1 DEF RunInit, SvmIdle, SvmTypeOK
<1>3. FetchesInFooter
  BY <1>1 DEF RunInit, SvmIdle, FetchesInFooter, code_size, MARK_SIZE
<1>4. QED
  BY <1>2, <1>3 DEF SvmInv

LEMMA RunNextOK == SvmInv /\ [RunNext]_svmVars => SvmInv'
<1> SUFFICES ASSUME SvmInv, [RunNext]_svmVars
             PROVE  SvmInv'
  OBVIOUS
<1>1. CASE Start
  BY <1>1, LoadOK DEF Start, SvmInv, SvmTypeOK
<1>2. CASE SvmNext
  BY <1>2, SvmNextOK DEF Sound
<1>3. CASE UNCHANGED svmVars
  BY <1>3 DEF svmVars, SvmInv, SvmTypeOK, FetchesInFooter, code_size
<1>4. QED
  BY <1>1, <1>2, <1>3 DEF RunNext, Stopped

\* Whatever bytes the file holds, the machine's state is well-typed: a stack
\* slot holds one value, seeking is a label of 16 bits, saved stack pointers
\* are naturals (svm.c:360-834).
THEOREM MachineTyped == RunSpec => []SvmTypeOK
<1>1. SvmInv => SvmTypeOK
  BY DEF SvmInv
<1>2. QED
  BY <1>1, RunInitOK, RunNextOK, PTL DEF RunSpec

\* Whatever bytes the file holds, every byte the machine fetches is a byte of
\* the code or of the footer behind it (svm.c:360-365, 790-811).
THEOREM FetchesStayInFooter == RunSpec => []FetchesInFooter
<1>1. SvmInv => FetchesInFooter
  BY DEF SvmInv
<1>2. QED
  BY <1>1, RunInitOK, RunNextOK, PTL DEF RunSpec

\* Whatever bytes the file holds, an instruction or a step of the skip loop
\* that does not end the run moves the machine forward, so that no image can
\* make it loop (svm.c:517-834).
THEOREM MachineGoesForward == RunSpec => Forward
<1>1. SvmInv /\ [RunNext]_svmVars
        => [(mode \in {"run", "skip"} /\ ~Halted') => pc' > pc]_svmVars
  <2> SUFFICES ASSUME SvmInv, RunNext, mode \in {"run", "skip"}, ~Halted'
               PROVE  pc' > pc \/ UNCHANGED svmVars
    OBVIOUS
  <2>1. CASE Start
    BY <2>1 DEF Start, Load
  <2>2. CASE SvmNext
    <3>1. Sound /\ SvmTypeOK'
      BY <2>2, SvmNextOK DEF Sound, SvmInv
    <3>2. mode' \in {"idle", "run", "skip"}
      BY <3>1 DEF SvmTypeOK, Halted
    <3>3. QED
      BY <3>1, <3>2 DEF Sound
  <2>3. CASE Stopped
    BY <2>3 DEF Stopped
  <2>4. QED
    BY <2>1, <2>2, <2>3 DEF RunNext
<1>2. QED
  BY <1>1, RunInitOK, RunNextOK, PTL DEF RunSpec, Forward

-----------------------------------------------------------------------------
(* The sizes that serialize writes are numbers: the recursions that count    *)
(* them have solutions, and every solution has numbers for its values.       *)

Pushes(op) == IF SSize(op) > 0 THEN SSize(op) ELSE 0
CountFrom(f, code, i) == IF i > Len(code) THEN 0 ELSE Pushes(code[i]) + f[i + 1 + OpSize(code[i])]
Counts(f, code) == f = [i \in Nat |-> CountFrom(f, code, i)]

LEMMA PushesNat == \A op : Pushes(op) \in Nat
BY DEF Pushes, SSize

LEMMA CountsSolved ==
  ASSUME NEW code, Len(code) \in Nat
  PROVE  \E f : Counts(f, code)
<1> DEFINE Partly(f, k) == /\ f \in [Nat -> Nat]
                           /\ \A i \in Nat : i >= k => f[i] = CountFrom(f, code, i)
           Bad == {n \in Nat : n <= Len(code) + 1 /\ ~\E f : Partly(f, Len(code) + 1 - n)}
<1>1. Bad = {}
  <2> SUFFICES ASSUME Bad # {} PROVE FALSE
    OBVIOUS
  <2>1. Bad \in SUBSET Nat
    OBVIOUS
  <2> HIDE DEF Bad
  <2>2. PICK n \in Bad : \A m \in Bad : n <= m
    BY <2>1, Least
  <2> USE DEF Bad
  <2>3. n \in Nat /\ n <= Len(code) + 1 /\ ~\E f : Partly(f, Len(code) + 1 - n)
    OBVIOUS
  <2>4. n # 0
    <3> DEFINE z == [i \in Nat |-> 0]
    <3>1. Partly(z, Len(code) + 1)
      BY DEF CountFrom
    <3> HIDE DEF Partly, z
    <3>2. Len(code) + 1 - 0 = Len(code) + 1
      OBVIOUS
    <3>3. QED
      BY <2>3, <3>1, <3>2
  <2> DEFINE k == Len(code) + 1 - n
  <2>5. k \in Nat /\ k <= Len(code) /\ Len(code) + 1 - (n - 1) = k + 1 /\ n - 1 \in Nat
        /\ n - 1 <= Len(code) + 1
    BY <2>3, <2>4
  <2>6. n - 1 \notin Bad
    <3> HIDE DEF Bad
    <3>1. QED
      BY <2>2, <2>3
  <2>7. \E f : Partly(f, k + 1)
    BY <2>5, <2>6
  <2> HIDE DEF k, Bad
  <2>8. PICK f : Partly(f, k + 1)
    BY <2>7
  <2> DEFINE v == CountFrom(f, code, k)
             g == [f EXCEPT ![k] = v]
             next == k + 1 + OpSize(code[k])
  <2>9. next \in Nat /\ next > k
    BY <2>5, OpSizes
  <2>10. v \in Nat
    <3>1. f[next] \in Nat
      BY <2>8, <2>9
    <3>2. Pushes(code[k]) \in Nat
      BY PushesNat
    <3> HIDE DEF next
    <3>3. Pushes(code[k]) + f[next] \in Nat
      BY <3>1, <3>2
    <3>4. QED
      BY <3>3 DEF CountFrom, next
  <2>11. g \in [Nat -> Nat] /\ g[k] = v /\ \A i \in Nat : i # k => g[i] = f[i]
    <3> HIDE DEF v
    <3>1. QED
      BY <2>5, <2>8, <2>10
  <2> HIDE DEF g, v
  <2>12. ASSUME NEW i \in Nat, i >= k PROVE g[i] = CountFrom(g, code, i)
    <3> DEFINE j == i + 1 + OpSize(code[i])
    <3>1. j \in Nat /\ j > k
      BY <2>5, <2>12, OpSizes
    <3>a. j \in Nat /\ j # k
      BY <2>5, <3>1
    <3>2. g[j] = f[j]
      <4> HIDE DEF j
      <4>1. QED
        BY <2>11, <3>a
    <3>3. CountFrom(g, code, i) = CountFrom(f, code, i)
      BY <3>2 DEF CountFrom
    <3>4. g[i] = CountFrom(f, code, i)
      <4>1. CASE i = k
        BY <2>11, <4>1 DEF v
      <4>2. CASE i # k
        <5>1. i >= k + 1
          BY <2>5, <2>12, <4>2
        <5>2. f[i] = CountFrom(f, code, i)
          BY <2>8, <5>1
        <5>3. QED
          BY <2>11, <4>2, <5>2
      <4>3. QED
        BY <4>1, <4>2
    <3>5. QED
      BY <3>3, <3>4
  <2>13. Partly(g, k)
    BY <2>11, <2>12
  <2> HIDE DEF Partly
  <2>14. QED
    BY <2>3, <2>13 DEF k
<1>2. Len(code) + 1 \in Nat /\ Len(code) + 1 - (Len(code) + 1) = 0
  OBVIOUS
<1>3. \E f : Partly(f, 0)
  <2> HIDE DEF Partly
  <2>1. Len(code) + 1 \notin Bad
    BY <1>1
  <2>2. QED
    BY <1>2, <2>1
<1>4. PICK f : Partly(f, 0)
  BY <1>3
<1>5. \A i \in Nat : f[i] = CountFrom(f, code, i)
  BY <1>4
<1>6. f = [i \in Nat |-> CountFrom(f, code, i)]
  BY <1>4, <1>5
<1>7. QED
  BY <1>6 DEF Counts

LEMMA CountStackSizeSum ==
  ASSUME NEW code, Len(code) \in Nat
  PROVE  \E f : Counts(f, code) /\ CountStackSize(code) = f[1] /\ \A i \in Nat : f[i] \in Nat
<1> DEFINE f == CHOOSE h : Counts(h, code)
<1>1. Counts(f, code)
  BY CountsSolved
<1>2. CountStackSize(code) = f[1]
  BY DEF CountStackSize, Counts, CountFrom, Pushes
<1> HIDE DEF f
<1>3. \A i \in Nat : f[i] = CountFrom(f, code, i)
  BY <1>1 DEF Counts
<1> DEFINE Bad == {n \in Nat : \E i \in Nat : /\ n = (IF i > Len(code) THEN 0 ELSE Len(code) + 1 - i)
                                              /\ f[i] \notin Nat}
<1>4. Bad = {}
  <2> SUFFICES ASSUME Bad # {} PROVE FALSE
    OBVIOUS
  <2>1. Bad \in SUBSET Nat
    OBVIOUS
  <2> HIDE DEF Bad
  <2>2. PICK n \in Bad : \A m \in Bad : n <= m
    BY <2>1, Least
  <2> USE DEF Bad
  <2>3. PICK i \in Nat : n = (IF i > Len(code) THEN 0 ELSE Len(code) + 1 - i) /\ f[i] \notin Nat
    BY <2>2
  <2> DEFINE j == i + 1 + OpSize(code[i])
  <2>4. j \in Nat /\ j > i
    BY OpSizes
  <2>5. ~(i > Len(code))
    BY <1>3, <2>3 DEF CountFrom
  <2>6. f[i] = Pushes(code[i]) + f[j]
    BY <1>3, <2>5 DEF CountFrom
  <2> HIDE DEF j
  <2>7. f[j] \notin Nat
    BY <2>3, <2>6, PushesNat
  <2> DEFINE m == IF j > Len(code) THEN 0 ELSE Len(code) + 1 - j
  <2>8. m \in Nat /\ m < n
    BY <2>3, <2>4, <2>5
  <2>9. m \in Bad
    BY <2>4, <2>7, <2>8
  <2> HIDE DEF m, Bad
  <2>10. QED
    BY <2>1, <2>2, <2>8, <2>9
<1>5. ASSUME NEW i \in Nat PROVE f[i] \in Nat
  <2> DEFINE m == IF i > Len(code) THEN 0 ELSE Len(code) + 1 - i
  <2>1. m \in Nat
    OBVIOUS
  <2>2. f[i] \notin Nat => m \in Bad
    BY <2>1
  <2>3. QED
    BY <1>4, <2>2
<1> HIDE DEF Bad
<1>6. QED
  BY <1>1, <1>2, <1>5

LEMMA CountStackSizeNat ==
  ASSUME NEW code, Len(code) \in Nat
  PROVE  CountStackSize(code) \in Nat
BY CountStackSizeSum

Nesting == [size : Int, max : Nat]
Nested(c, op) ==
  IF op = Op.push_stack_pointer
  THEN [size |-> c.size + 1, max |-> IF c.size + 1 > c.max THEN c.size + 1 ELSE c.max]
  ELSE IF op = Op.pop_stack_pointer THEN [c EXCEPT !.size = @ - 1]
  ELSE c
ScanAt(f, code, i) == IF i = 0 THEN [size |-> 0, max |-> 0] ELSE Nested(f[i - 1], code[i])
Scans(f, code) == f = [i \in 0 .. Len(code) |-> ScanAt(f, code, i)]

LEMMA NestedTyped == \A c \in Nesting : \A op : Nested(c, op) \in Nesting
<1> SUFFICES ASSUME NEW c \in Nesting, NEW op PROVE Nested(c, op) \in Nesting
  OBVIOUS
<1>1. c.size \in Int /\ c.max \in Nat /\ [size |-> 0, max |-> 0] \in Nesting
  BY DEF Nesting
<1>2. CASE op = Op.push_stack_pointer
  <2>1. (IF c.size + 1 > c.max THEN c.size + 1 ELSE c.max) \in Nat
    BY <1>1
  <2>2. QED
    BY <1>1, <1>2, <2>1 DEF Nested, Nesting
<1>3. CASE op # Op.push_stack_pointer
  BY <1>1, <1>3 DEF Nested, Nesting
<1>4. QED
  BY <1>2, <1>3

LEMMA ScansSolved ==
  ASSUME NEW code, Len(code) \in Nat
  PROVE  \E f : Scans(f, code)
<1> DEFINE D == 0 .. Len(code)
           Partly(f, k) == /\ f \in [D -> Nesting]
                           /\ \A i \in 0 .. k : f[i] = ScanAt(f, code, i)
           Bad == {n \in Nat : n <= Len(code) /\ ~\E f : Partly(f, n)}
<1>0. [size |-> 0, max |-> 0] \in Nesting
  BY DEF Nesting
<1>1. Bad = {}
  <2> SUFFICES ASSUME Bad # {} PROVE FALSE
    OBVIOUS
  <2>1. Bad \in SUBSET Nat
    OBVIOUS
  <2> HIDE DEF Bad
  <2>2. PICK n \in Bad : \A m \in Bad : n <= m
    BY <2>1, Least
  <2> USE DEF Bad
  <2>3. n \in Nat /\ n <= Len(code) /\ ~\E f : Partly(f, n)
    OBVIOUS
  <2>4. n # 0
    <3> DEFINE z == [i \in D |-> [size |-> 0, max |-> 0]]
    <3>1. z \in [D -> Nesting]
      BY <1>0
    <3>2. \A i \in 0 .. 0 : i = 0 /\ i \in D
      OBVIOUS
    <3>3. \A i \in 0 .. 0 : z[i] = ScanAt(z, code, i)
      BY <3>2 DEF ScanAt
    <3>4. Partly(z, 0)
      BY <3>1, <3>3
    <3> HIDE DEF Partly, z
    <3>5. QED
      BY <2>3, <3>4
  <2>5. n - 1 \in Nat /\ n - 1 <= Len(code) /\ n \in D /\ n - 1 \in D
    BY <2>3, <2>4
  <2>6. n - 1 \notin Bad
    <3> HIDE DEF Bad
    <3>1. QED
      BY <2>2, <2>3
  <2>7. PICK f : Partly(f, n - 1)
    BY <2>5, <2>6
  <2> HIDE DEF Bad
  <2> DEFINE v == Nested(f[n - 1], code[n])
             g == [f EXCEPT ![n] = v]
  <2>8. v \in Nesting
    BY <2>5, <2>7, NestedTyped
  <2>9. g \in [D -> Nesting] /\ g[n] = v /\ \A i \in D : i # n => g[i] = f[i]
    <3> HIDE DEF v
    <3>1. QED
      BY <2>5, <2>7, <2>8
  <2> HIDE DEF g
  <2>10. ASSUME NEW i \in 0 .. n PROVE g[i] = ScanAt(g, code, i)
    <3>1. i \in D /\ (i # 0 => i - 1 \in D /\ i - 1 # n)
      BY <2>3
    <3>2. CASE i = n
      <4>1. g[n - 1] = f[n - 1]
        BY <2>4, <2>5, <2>9
      <4>2. QED
        BY <2>4, <2>9, <3>2, <4>1 DEF ScanAt
    <3>3. CASE i # n
      <4>1. i \in 0 .. n - 1
        BY <2>3, <3>3
      <4>2. f[i] = ScanAt(f, code, i)
        BY <2>7, <4>1
      <4>3. g[i] = f[i] /\ (i # 0 => g[i - 1] = f[i - 1])
        BY <2>9, <3>1, <3>3
      <4>4. QED
        BY <4>2, <4>3 DEF ScanAt
    <3>4. QED
      BY <3>2, <3>3
  <2>11. Partly(g, n)
    BY <2>9, <2>10
  <2> HIDE DEF Partly
  <2>12. QED
    BY <2>3, <2>11
<1>2. \E f : Partly(f, Len(code))
  <2> HIDE DEF Partly
  <2>1. Len(code) \notin Bad
    BY <1>1
  <2>2. QED
    BY <2>1
<1>3. PICK f : Partly(f, Len(code))
  BY <1>2
<1>4. f = [i \in 0 .. Len(code) |-> ScanAt(f, code, i)]
  BY <1>3
<1>5. QED
  BY <1>4 DEF Scans

LEMMA CountPointerStackSizeScan ==
  ASSUME NEW code, Len(code) \in Nat
  PROVE  \E f : /\ Scans(f, code) /\ CountPointerStackSize(code) = f[Len(code)].max
               /\ \A i \in 0 .. Len(code) : f[i] \in Nesting
<1> DEFINE f == CHOOSE h : Scans(h, code)
<1>1. Scans(f, code)
  BY ScansSolved
<1>2. CountPointerStackSize(code) = f[Len(code)].max
  BY DEF CountPointerStackSize, Scans, ScanAt, Nested
<1> HIDE DEF f
<1>3. \A i \in 0 .. Len(code) : f[i] = ScanAt(f, code, i)
  BY <1>1 DEF Scans
<1> DEFINE Bad == {n \in Nat : n <= Len(code) /\ f[n] \notin Nesting}
<1>4. Bad = {}
  <2> SUFFICES ASSUME Bad # {} PROVE FALSE
    OBVIOUS
  <2>1. Bad \in SUBSET Nat
    OBVIOUS
  <2> HIDE DEF Bad
  <2>2. PICK n \in Bad : \A m \in Bad : n <= m
    BY <2>1, Least
  <2> USE DEF Bad
  <2>3. n \in Nat /\ n <= Len(code) /\ f[n] \notin Nesting /\ f[n] = ScanAt(f, code, n)
    BY <1>3
  <2>4. n # 0
    BY <2>3 DEF ScanAt, Nesting
  <2>5. n - 1 \in Nat /\ n - 1 <= Len(code) /\ n - 1 < n
    BY <2>3, <2>4
  <2>6. f[n - 1] \notin Nesting
    BY <2>3, <2>4, NestedTyped DEF ScanAt
  <2>7. n - 1 \in Bad
    BY <2>5, <2>6
  <2> HIDE DEF Bad
  <2>8. QED
    BY <2>1, <2>2, <2>5, <2>7
<1>5. \A n \in 0 .. Len(code) : f[n] \in Nesting
  BY <1>4
<1> HIDE DEF Bad
<1>6. QED
  BY <1>1, <1>2, <1>5

LEMMA CountPointerStackSizeNat ==
  ASSUME NEW code, Len(code) \in Nat
  PROVE  CountPointerStackSize(code) \in Nat
<1>1. PICK f : /\ CountPointerStackSize(code) = f[Len(code)].max
               /\ \A i \in 0 .. Len(code) : f[i] \in Nesting
  BY CountPointerStackSizeScan
<1>2. f[Len(code)] \in Nesting
  BY <1>1
<1>3. QED
  BY <1>1, <1>2 DEF Nesting

LEMMA ExecutableTyped == ASSUME TypeOK PROVE Executable \in Image
<1>1. buf.code \in Seq(Byte) /\ Len(buf.code) \in Nat
  BY DEF TypeOK
<1>2. CountStackSize(buf.code) \in Nat /\ CountPointerStackSize(buf.code) \in Nat
  BY <1>1, CountStackSizeNat, CountPointerStackSizeNat
<1>3. constant_pool \in Seq(Value)
  <2>1. [t : {"int", "double"}, v : Int] \subseteq Value
    BY DEF Value
  <2> DEFINE Consts == [t : {"int", "double"}, v : Int]
  <2>0. constant_pool \in Seq(Consts)
    BY DEF TypeOK
  <2> HIDE DEF Consts
  <2>2. constant_pool \in [1 .. Len(constant_pool) -> Consts] /\ Len(constant_pool) \in Nat
    BY <2>0
  <2>3. constant_pool \in [1 .. Len(constant_pool) -> Value]
    BY <2>1, <2>2 DEF Consts
  <2>4. QED
    BY <2>2, <2>3, ListedTyped
<1>4. [i \in DOMAIN prog.decls |-> Tag(prog.decls[i].type)] \in Seq({"int", "double"})
  <2>1. prog.decls \in Seq([name : STRING, type : Types])
    BY NodesAssumption DEF TypeOK
  <2>2. DOMAIN prog.decls = 1 .. Len(prog.decls) /\ Len(prog.decls) \in Nat
    BY <2>1
  <2>3. \A i \in DOMAIN prog.decls : Tag(prog.decls[i].type) \in {"int", "double"}
    BY DEF Tag
  <2>4. [i \in 1 .. Len(prog.decls) |-> Tag(prog.decls[i].type)] \in Seq({"int", "double"})
    BY <2>2, <2>3
  <2>5. QED
    BY <2>2, <2>4
<1>5. QED
  BY <1>1, <1>2, <1>3, <1>4 DEF Executable, Image


-----------------------------------------------------------------------------
(* The compiler and the machine together: both invariants, and the machine   *)
(* runs nothing but the finished code.                                       *)

Waiting == mode \in {"idle", "undefined"} /\ image = NoImage /\ pc = 0 /\ DataOK
Loaded == mode # "idle" /\ Generated /\ image = Executable
CsuaInv == CodegenInv /\ PairingInv /\ TidyCode /\ SvmInv /\ (Waiting \/ Loaded)

LEMMA CsuaInitOK == CsuaInit => CsuaInv
<1> SUFFICES ASSUME CsuaInit PROVE CsuaInv
  OBVIOUS
<1>1. CodegenInv /\ PairingInv /\ TidyCode
  BY InitInv, PairingInit, TidyInit DEF CsuaInit
<1>2. image = NoImage /\ SvmIdle
  BY DEF CsuaInit
<1>3. image \in Image /\ Len(image.code) = 0 /\ image.stack_size = 0
  BY <1>2 DEF NoImage, Image
<1>4. SvmTypeOK
  BY <1>2, <1>3 DEF SvmIdle, SvmTypeOK
<1>5. FetchesInFooter
  BY <1>2, <1>3 DEF SvmIdle, FetchesInFooter, code_size, MARK_SIZE
<1>6. DataOK
  <2>1. \A S : <<>> \in [0 .. -1 -> S]
    <3>1. 0 .. -1 = {} /\ DOMAIN <<>> = {}
      OBVIOUS
    <3>2. <<>> = [i \in {} |-> i]
      BY <3>1
    <3>3. QED
      BY <3>1, <3>2
  <2>2. 0 .. image.stack_size - 1 = 0 .. -1
    BY <1>3
  <2>3. /\ stack \in [0 .. image.stack_size - 1 -> Value]
        /\ stack_value_type \in [0 .. image.stack_size - 1 -> TagSet]
    BY <1>2, <2>1, <2>2 DEF SvmIdle
  <2>4. QED
    BY <1>2, <2>3 DEF SvmIdle, DataOK
<1>7. QED
  BY <1>1, <1>2, <1>4, <1>5, <1>6 DEF CsuaInv, SvmInv, Waiting, SvmIdle

LEMMA SvmMoves == SvmNext => mode \in {"run", "skip"}
BY DEF SvmNext, PushConstant, PushStatic, PopStatic, BinaryInstr, LogicalInstr, UnaryInstr, PopInstr,
       PushFunction, Invoke, PushStackPt, PopStackPt, Goto, Label, Unknown, SkipLabel, SkipOther,
       ShowStatus, Running

LEMMA ImageKept == SvmNext => image' = image
<1> SUFFICES ASSUME SvmNext PROVE image' = image
  OBVIOUS
<1>1. CASE PushConstant \/ PushStatic \/ PopStatic
  BY <1>1 DEF PushConstant, PushStatic, PopStatic, Advance, Undefined, Stop
<1>2. CASE BinaryInstr \/ LogicalInstr \/ UnaryInstr \/ PopInstr
  BY <1>2 DEF BinaryInstr, LogicalInstr, UnaryInstr, PopInstr, Advance, Undefined, Stop
<1>3. CASE PushFunction \/ Invoke \/ PushStackPt \/ PopStackPt
  BY <1>3 DEF PushFunction, Invoke, PushStackPt, PopStackPt, Advance, Undefined, Stop
<1>4. CASE Goto \/ Label \/ Unknown
  BY <1>4 DEF Goto, Label, Unknown, Advance, Undefined, Stop
<1>5. CASE SkipLabel \/ SkipOther \/ ShowStatus
  BY <1>5 DEF SkipLabel, SkipOther, ShowStatus, SkipOn, SkipTo, Undefined, Stop
<1>6. QED
  BY <1>1, <1>2, <1>3, <1>4, <1>5 DEF SvmNext

LEMMA CsuaNextOK == CsuaInv /\ [CsuaNext]_csuaVars => CsuaInv'
<1> SUFFICES ASSUME CsuaInv, [CsuaNext]_csuaVars
             PROVE  CsuaInv'
  OBVIOUS
<1>1. CodegenInv /\ PairingInv /\ TidyCode /\ SvmInv
  BY DEF CsuaInv
<1>2. ASSUME UNCHANGED codegenVars PROVE CodegenInv' /\ PairingInv' /\ TidyCode'
  BY <1>1, <1>2, NextInv, PairingNext, TidyNext DEF PairingInv
<1>3. CASE Compile
  <2>1. mode = "idle" /\ CodegenNext /\ UNCHANGED svmVars /\ Waiting
    BY <1>3 DEF Compile, CsuaInv, Loaded
  <2>2. CodegenInv' /\ PairingInv' /\ TidyCode'
    BY <1>1, <2>1, NextInv, PairingNext, TidyNext DEF PairingInv
  <2>3. SvmInv' /\ Waiting'
    BY <1>1, <2>1 DEF svmVars, SvmInv, SvmTypeOK, FetchesInFooter, code_size, Waiting, DataOK
  <2>4. QED
    BY <2>2, <2>3 DEF CsuaInv
<1>4. CASE RunExecutable
  <2>1. mode = "idle" /\ Waiting /\ Generated /\ UNCHANGED codegenVars
    BY <1>4 DEF RunExecutable, CsuaInv, Loaded
  <2>2. CodegenInv' /\ PairingInv' /\ TidyCode'
    BY <1>2, <2>1
  <2>3. CASE Load(Executable)
    <3>1. Executable \in Image
      BY <1>1, ExecutableTyped DEF CodegenInv
    <3>2. SvmInv'
      BY <1>1, <2>3, <3>1, LoadOK
    <3>3. image' = Executable /\ mode' = "run"
      BY <2>3 DEF Load
    <3>4. Executable' = Executable /\ Generated'
      BY <2>1 DEF codegenVars, handlerVars, Executable, Generated
    <3>5. QED
      BY <2>2, <3>2, <3>3, <3>4 DEF CsuaInv, Loaded
  <2>4. CASE Undefined
    <3>1. Waiting'
      BY <2>1, <2>4 DEF Undefined, Stop, Waiting, DataOK
    <3>2. SvmInv'
      BY <1>1, <2>1, <2>4 DEF Undefined, Stop, Waiting, DataOK, SvmInv, SvmTypeOK, TagSet,
         FetchesInFooter, code_size
    <3>3. QED
      BY <2>2, <3>1, <3>2 DEF CsuaInv
  <2>5. QED
    BY <1>4, <2>3, <2>4 DEF RunExecutable
<1>5. CASE Execute
  <2>1. SvmNext /\ UNCHANGED codegenVars
    BY <1>5 DEF Execute
  <2>2. SvmInv' /\ mode' # "idle"
    BY <1>1, <2>1, SvmNextOK DEF Sound
  <2>3. image' = image /\ mode \in {"run", "skip"}
    BY <2>1, ImageKept, SvmMoves
  <2>4. CodegenInv' /\ PairingInv' /\ TidyCode'
    BY <1>2, <2>1
  <2>5. Loaded
    BY <2>3 DEF CsuaInv, Waiting
  <2>6. Executable' = Executable /\ Generated'
    BY <2>1, <2>5 DEF codegenVars, handlerVars, Executable, Generated, Loaded
  <2>7. QED
    BY <2>2, <2>3, <2>4, <2>5, <2>6 DEF CsuaInv, Loaded
<1>6. CASE UNCHANGED csuaVars
  <2>1. UNCHANGED codegenVars /\ UNCHANGED svmVars
    BY <1>6 DEF csuaVars
  <2>2. SvmInv'
    BY <1>1, <2>1 DEF svmVars, SvmInv, SvmTypeOK, FetchesInFooter, code_size
  <2>3. CASE Waiting
    <3>1. Waiting'
      BY <2>1, <2>3 DEF svmVars, Waiting, DataOK
    <3>2. QED
      BY <1>2, <2>1, <2>2, <3>1 DEF CsuaInv
  <2>4. CASE Loaded
    <3>1. Loaded'
      BY <2>1, <2>4 DEF svmVars, Loaded, Executable, Generated, codegenVars, handlerVars
    <3>2. QED
      BY <1>2, <2>1, <2>2, <3>1 DEF CsuaInv
  <2>5. QED
    BY <2>3, <2>4 DEF CsuaInv
<1>7. QED
  BY <1>3, <1>4, <1>5, <1>6 DEF CsuaNext, Ended

THEOREM CsuaInvariant == CsuaSpec => []CsuaInv
BY CsuaInitOK, CsuaNextOK, PTL DEF CsuaSpec

\* The compiler and the machine keep to their types when they run one after
\* the other: what is loaded is a well-formed image.
THEOREM CsuaTyped == CsuaSpec => [](TypeOK /\ SvmTypeOK)
<1>1. CsuaInv => TypeOK /\ SvmTypeOK
  BY DEF CsuaInv, CodegenInv, SvmInv
<1>2. QED
  BY <1>1, CsuaInvariant, PTL

\* The buffer is large enough, the labels of open if statements are distinct,
\* and the machine fetches no byte behind the code's footer
\* (codegenvisitor.c:16-49, 814-833; svm.c:360-365, 790-811).
THEOREM CsuaInBounds == CsuaSpec => [](BytesFit /\ LabelsFresh /\ FetchesInFooter)
<1>1. CsuaInv => BytesFit /\ LabelsFresh /\ FetchesInFooter
  BY DEF CsuaInv, CodegenInv, SvmInv
<1>2. QED
  BY <1>1, CsuaInvariant, PTL

\* The code that is written to the file is read in step by the disassembler,
\* and its gotos and labels pair up as long as the labels fit into two bytes
\* (codegentest.c:281-351, codegenvisitor.c:814-864).
THEOREM CsuaCode == CsuaSpec => []((LabelsFit => LabelsPaired) /\ (Generated => Disassembles(buf.code)))
<1>1. CsuaInv => (LabelsFit => LabelsPaired) /\ (Generated => Disassembles(buf.code))
  BY PairedAtEnd DEF CsuaInv, PairingInv, Readable
<1>2. QED
  BY <1>1, CsuaInvariant, PTL

\* No compiled program makes the machine loop (svm.c:517-834).
THEOREM CsuaGoesForward == CsuaSpec => Forward
<1>1. CsuaInv /\ [CsuaNext]_csuaVars
        => [(mode \in {"run", "skip"} /\ ~Halted') => pc' > pc]_svmVars
  <2> SUFFICES ASSUME CsuaInv, CsuaNext, mode \in {"run", "skip"}, ~Halted'
               PROVE  pc' > pc \/ UNCHANGED svmVars
    BY DEF csuaVars
  <2>1. CASE Compile \/ RunExecutable
    BY <2>1 DEF Compile, RunExecutable
  <2>2. CASE Execute
    <3>1. Sound /\ SvmTypeOK'
      BY <2>2, SvmNextOK DEF Sound, SvmInv, CsuaInv, Execute
    <3>2. mode' \in {"idle", "run", "skip"}
      BY <3>1 DEF SvmTypeOK, Halted
    <3>3. QED
      BY <3>1, <3>2 DEF Sound
  <2>3. CASE Ended
    BY <2>3 DEF Ended, csuaVars
  <2>4. QED
    BY <2>1, <2>2, <2>3 DEF CsuaNext
<1>2. QED
  BY <1>1, CsuaInvariant, PTL DEF CsuaSpec, Forward

-----------------------------------------------------------------------------
(* Where the machine executes. The skip loop takes operands for opcodes; it  *)
(* goes astray only where one of their bytes looks like a label.             *)

\* No operand holds the byte of the opcode label.
LabelsInStep ==
  \A i \in DOMAIN image.code : image.code[i] = Op.label => i - 1 \in Boundaries(image.code)
AtBoundary == LabelsInStep => ExecutesAtBoundaries

LEMMA StepPlace ==
  ASSUME SvmTypeOK, SvmNext, mode' = "run"
  PROVE  \/ Running /\ Opcode \in Opcodes /\ pc' = pc + 1 + OpSize(Opcode)
         \/ mode = "skip" /\ Opcode = Op.label /\ Arg = seeking /\ pc' = pc + 3
<1>0. OpSize(Op.goto) = 2 /\ Op.goto \in Opcodes
  BY DEF OpSize, Op, WithOperand, Opcodes
<1>1. CASE PushConstant \/ PushStatic \/ PopStatic
  BY <1>1 DEF PushConstant, PushStatic, PopStatic, Advance, Undefined, Stop, Op, Opcodes
<1>2. CASE BinaryInstr \/ LogicalInstr \/ UnaryInstr \/ PopInstr
  BY <1>2 DEF BinaryInstr, LogicalInstr, UnaryInstr, PopInstr, Advance, Undefined, Stop, Op, Opcodes,
     BinaryOpcodes
<1>3. CASE PushFunction \/ Invoke \/ PushStackPt \/ PopStackPt
  BY <1>3 DEF PushFunction, Invoke, PushStackPt, PopStackPt, Advance, Undefined, Stop, Op, Opcodes
<1>4. CASE Goto
  <2>1. Running /\ Opcode = Op.goto /\ mode' = "run" /\ (pc' = pc + 3 \/ Undefined)
    BY <1>4 DEF Goto
  <2>2. pc' = pc + 3
    BY <2>1 DEF Undefined, Stop
  <2>3. pc' = pc + 1 + OpSize(Opcode)
    BY <1>0, <2>1, <2>2 DEF SvmTypeOK
  <2>4. QED
    BY <1>0, <2>1, <2>3
<1>5. CASE Label \/ Unknown
  BY <1>5 DEF Label, Unknown, Advance, Stop, Op, Opcodes
<1>6. CASE SkipLabel \/ SkipOther \/ ShowStatus
  BY <1>6 DEF SkipLabel, SkipOther, ShowStatus, SkipOn, SkipTo, Undefined, Stop
<1>7. QED
  BY <1>1, <1>2, <1>3, <1>4, <1>5, <1>6 DEF SvmNext

LEMMA LoadedWhole ==
  ASSUME CsuaInv, Loaded
  PROVE  /\ image.code \in Seq(Byte) /\ Len(image.code) \in Nat
         /\ Whole(image.code) /\ Disassembles(image.code)
         /\ Boundaries(image.code) \in SUBSET Nat
         /\ Closed(Boundaries(image.code), image.code)
<1>1. image.code = buf.code
  BY DEF Loaded, Executable
<1>2. Readable(image.code)
  BY <1>1 DEF CsuaInv, PairingInv
<1>3. Len(image.code) \in Nat
  BY <1>2 DEF Readable
<1>4. QED
  BY <1>2, <1>3, BoundariesClosed DEF Readable

\* An opcode is a byte of the code, and execution goes on behind its operand.
LEMMA NextBoundary ==
  ASSUME CsuaInv, Loaded, pc \in Boundaries(image.code), Opcode \in Opcodes
  PROVE  /\ pc + 1 \in DOMAIN image.code /\ Opcode = image.code[pc + 1]
         /\ pc + 1 + OpSize(Opcode) \in Boundaries(image.code)
         /\ pc + 1 + OpSize(Opcode) <= Len(image.code)
<1>1. /\ image.code \in Seq(Byte) /\ Len(image.code) \in Nat /\ pc \in Nat
      /\ Whole(image.code) /\ Closed(Boundaries(image.code), image.code)
  BY LoadedWhole DEF CsuaInv, SvmInv, SvmTypeOK
<1>2. pc < Len(image.code)
  <2>1. Opcodes \subseteq {Op.label} \cup 0 .. 49
    BY DEF Opcodes
  <2>2. QED
    BY <2>1, BytesTyped DEF CsuaInv, SvmInv, code_size
<1>3. Opcode = image.code[pc + 1]
  BY <1>2 DEF Opcode, CodeByte, code_size
<1>4. pc + 1 + OpSize(Opcode) \in Boundaries(image.code)
  BY <1>1, <1>2, <1>3 DEF Closed, Behind
<1>5. pc + 1 + OpSize(Opcode) \in 0 .. Len(image.code)
  BY <1>1, <1>4 DEF Whole
<1>6. QED
  BY <1>1, <1>2, <1>3, <1>4, <1>5

LEMMA LabelPlace ==
  ASSUME CsuaInv, Loaded, LabelsInStep, Opcode = Op.label
  PROVE  pc \in Boundaries(image.code)
<1>1. image.code \in Seq(Byte) /\ Len(image.code) \in Nat /\ pc \in Nat
  BY LoadedWhole DEF CsuaInv, SvmInv, SvmTypeOK
<1>2. pc < Len(image.code)
  BY BytesTyped DEF CsuaInv, SvmInv, code_size
<1>3. pc + 1 \in DOMAIN image.code /\ image.code[pc + 1] = Op.label
  BY <1>1, <1>2 DEF Opcode, CodeByte, code_size
<1>4. PICK i \in DOMAIN image.code : i = pc + 1
  BY <1>3
<1>5. i - 1 \in Boundaries(image.code)
  BY <1>3, <1>4 DEF LabelsInStep
<1>6. QED
  BY <1>1, <1>4, <1>5

LEMMA BoundaryInit == CsuaInit => AtBoundary
BY DEF CsuaInit, SvmIdle, AtBoundary, ExecutesAtBoundaries

LEMMA LabelSize == OpSize(Op.label) = 2 /\ Op.label \in Opcodes
BY DEF OpSize, Op, WithOperand, Opcodes

LEMMA ExecuteMoves ==
  ASSUME CsuaInv, Execute
  PROVE  Loaded /\ SvmTypeOK /\ SvmNext /\ image' = image
<1>1. SvmNext /\ mode \in {"run", "skip"}
  BY SvmMoves DEF Execute
<1>2. QED
  BY <1>1, ImageKept DEF CsuaInv, SvmInv, Waiting

LEMMA BoundaryNext == CsuaInv /\ AtBoundary /\ [CsuaNext]_csuaVars => AtBoundary'
<1> SUFFICES ASSUME CsuaInv, AtBoundary, [CsuaNext]_csuaVars, LabelsInStep', mode' = "run"
             PROVE  pc' \in Boundaries(image'.code)
  BY DEF AtBoundary, ExecutesAtBoundaries
<1>1. CASE Execute
  <2>1. Loaded /\ SvmTypeOK /\ SvmNext /\ image' = image
    BY <1>1, ExecuteMoves
  <2>2. LabelsInStep
    BY <2>1 DEF LabelsInStep
  <2>3. CASE Running /\ Opcode \in Opcodes /\ pc' = pc + 1 + OpSize(Opcode)
    <3>1. pc \in Boundaries(image.code)
      BY <2>2, <2>3 DEF AtBoundary, ExecutesAtBoundaries, Running
    <3>2. QED
      BY <2>1, <2>3, <3>1, NextBoundary
  <2>4. CASE mode = "skip" /\ Opcode = Op.label /\ Arg = seeking /\ pc' = pc + 3
    <3>1. pc \in Boundaries(image.code) /\ pc \in Nat
      BY <2>1, <2>2, <2>4, LabelPlace DEF SvmTypeOK
    <3>2. pc + 1 + OpSize(Opcode) = pc + 3 /\ Opcode \in Opcodes
      BY <2>4, <3>1, LabelSize
    <3>3. QED
      BY <2>1, <2>4, <3>1, <3>2, NextBoundary
  <2>5. QED
    BY <2>1, <2>3, <2>4, StepPlace
<1>2. CASE Compile \/ UNCHANGED csuaVars
  <2>1. UNCHANGED svmVars
    BY <1>2 DEF Compile, csuaVars
  <2>2. QED
    BY <2>1 DEF svmVars, AtBoundary, ExecutesAtBoundaries, LabelsInStep
<1>3. CASE RunExecutable
  <2>1. mode = "idle" /\ pc' = 0 /\ image' = Executable
    BY <1>3 DEF RunExecutable, Load, Undefined, Stop
  <2>2. Len(buf.code) \in Nat
    BY DEF CsuaInv, PairingInv, Readable
  <2>3. 0 \in Boundaries(buf.code)
    BY <2>2, BoundariesClosed
  <2>4. QED
    BY <2>1, <2>3 DEF Executable
<1>4. QED
  BY <1>1, <1>2, <1>3 DEF CsuaNext, Ended

LEMMA ResumesThere ==
  ASSUME CsuaInv, LabelsInStep, [CsuaNext]_csuaVars, mode = "skip", mode' = "run"
  PROVE  /\ pc' - 3 \in Boundaries(image.code)
         /\ image.code[pc' - 2] = Op.label
         /\ image.code[pc' - 1] * 256 + image.code[pc'] = seeking
<1>1. Execute
  BY DEF CsuaNext, Compile, RunExecutable, Ended, csuaVars, svmVars
<1>2. Loaded /\ SvmTypeOK /\ SvmNext
  BY <1>1, ExecuteMoves
<1>3. mode = "skip" /\ Opcode = Op.label /\ Arg = seeking /\ pc' = pc + 3
  BY <1>2, StepPlace DEF Running
<1>4. pc \in Boundaries(image.code) /\ pc \in Nat
  BY <1>2, <1>3, LabelPlace DEF SvmTypeOK
<1>5. image.code[pc + 1] = Op.label /\ pc + 3 <= Len(image.code) /\ Len(image.code) \in Nat
  <2>1. pc + 1 + OpSize(Opcode) = pc + 3 /\ Opcode \in Opcodes
    BY <1>3, <1>4, LabelSize
  <2>2. QED
    BY <1>2, <1>3, <1>4, <2>1, NextBoundary, LoadedWhole
<1>6. Arg = image.code[pc + 2] * 256 + image.code[pc + 3]
  <2>1. pc + 1 < code_size /\ pc + 2 < code_size
    BY <1>4, <1>5 DEF code_size
  <2>2. pc + 1 + 1 = pc + 2 /\ pc + 2 + 1 = pc + 3
    BY <1>4
  <2>3. CodeByte(pc + 1) = image.code[pc + 2] /\ CodeByte(pc + 2) = image.code[pc + 3]
    BY <2>1, <2>2 DEF CodeByte
  <2>4. QED
    BY <2>3 DEF Arg
<1>7. pc' - 3 = pc /\ pc' - 2 = pc + 1 /\ pc' - 1 = pc + 2
  BY <1>3, <1>4
<1>8. QED
  BY <1>3, <1>4, <1>5, <1>6, <1>7

\* The machine executes only at instruction boundaries and resumes only behind
\* the label it looked for, whatever the skip loop reads on its way, unless a
\* byte of an operand looks like a label (svm.c:517-530, 790-811).
THEOREM CsuaStaysInStep ==
  CsuaSpec /\ []LabelsInStep => []ExecutesAtBoundaries /\ ResumesAtItsLabel
<1>1. CsuaInv /\ LabelsInStep /\ [CsuaNext]_csuaVars
        => [mode = "skip" /\ mode' = "run" =>
              /\ pc' - 3 \in Boundaries(image.code)
              /\ image.code[pc' - 2] = Op.label
              /\ image.code[pc' - 1] * 256 + image.code[pc'] = seeking]_csuaVars
  BY ResumesThere
<1>2. AtBoundary /\ LabelsInStep => ExecutesAtBoundaries
  BY DEF AtBoundary
<1>3. QED
  BY <1>1, <1>2, BoundaryInit, BoundaryNext, CsuaInvariant, PTL DEF CsuaSpec, ResumesAtItsLabel

\* Every opcode the machine meets in step is one that the code generator made:
\* it never gives up on an unknown one (svm.c:828-831).
Known == mode = "run" /\ pc < code_size => Opcode \in Listed

LEMMA KnownInStep == CsuaInv /\ ExecutesAtBoundaries => Known
<1> SUFFICES ASSUME CsuaInv, ExecutesAtBoundaries, mode = "run", pc < code_size
             PROVE  Opcode \in Listed
  BY DEF Known
<1>1. Loaded /\ pc \in Boundaries(image.code)
  BY DEF CsuaInv, Waiting, ExecutesAtBoundaries
<1>2. image.code[pc + 1] \in Listed
  BY <1>1, LoadedWhole DEF Disassembles, code_size
<1>3. QED
  BY <1>2 DEF Opcode, CodeByte

LEMMA FewInStep == CsuaInv /\ FewOperands => LabelsInStep
<1> SUFFICES ASSUME CsuaInv, FewOperands
             PROVE  LabelsInStep
  OBVIOUS
<1>1. CASE Waiting
  BY <1>1 DEF Waiting, NoImage, LabelsInStep
<1>2. CASE Loaded
  <2>1. Tidy(image.code) /\ image.code \in Seq(Byte)
    BY <1>2, LoadedWhole DEF CsuaInv, TidyCode, Loaded, Executable
  <2>2. QED
    BY <2>1 DEF Tidy, LabelsInStep
<1>3. QED
  BY <1>1, <1>2 DEF CsuaInv

\* A program with no more constants, labels and variables than there are
\* opcodes is run in step from beginning to end, and the size of its stack is
\* counted from the table alone (codegentest.c:143-160, svm.c:790-831).
THEOREM FewRunInStep ==
  CsuaSpec => [](FewOperands => /\ ExecutesAtBoundaries /\ Known
                                /\ Generated => CountsInTable(buf.code))
<1>1. CsuaInv /\ AtBoundary /\ FewOperands
        => ExecutesAtBoundaries /\ Known /\ (Generated => CountsInTable(buf.code))
  <2>1. CsuaInv => buf.code \in Seq(Byte)
    BY DEF CsuaInv, CodegenInv, TypeOK
  <2>2. CsuaInv /\ FewOperands => CountsInTable(buf.code)
    BY <2>1 DEF CsuaInv, TidyCode, Tidy, CountsInTable
  <2>3. CsuaInv /\ AtBoundary /\ FewOperands => ExecutesAtBoundaries
    BY FewInStep DEF AtBoundary
  <2>4. QED
    BY <2>2, <2>3, KnownInStep
<1>2. QED
  BY <1>1, BoundaryInit, BoundaryNext, CsuaInvariant, PTL DEF CsuaSpec

-----------------------------------------------------------------------------
(* The visitor's modes. The pending calls tell, for every moment, how many   *)
(* calls and assignments are open and, where it is certain, whether the last *)
(* mode was set by an assignment's notification.                             *)

\* Nodes in which nothing is assigned; targets, initializers and conditions
\* are such.
Quiet(F) ==
  /\ \A e \in F : e.kind \notin AssignKinds /\ \A i \in DOMAIN e.kids : e.kids[i] \in F
  /\ \A e \in Nodes : e.kind \in AssignKinds => e.kids[1] \in F
  /\ \A e \in Nodes : e.kind \in StatementKinds \ {"exprstmt"} =>
                        \A i \in DOMAIN e.kids : e.kids[i] \in F

Marks == [calls : Nat, assigns : Nat, last : {"normal", "assign", "any"}]
Mark(c, d, l) == [calls |-> c, assigns |-> d, last |-> l]
AtRest == Mark(0, 0, "normal")

Enters(F, e, a, b) ==
  IF e.kind \in StatementKinds THEN a = AtRest /\ b = AtRest
  ELSE b = Mark(a.calls, a.assigns, "any") \/ (e \in F /\ b = a)
Leaves(e, a, b) ==
  IF e.kind \in StatementKinds
  THEN a.calls = 0 /\ a.assigns = 0 /\ (a.last = "normal" \/ e.kind = "exprstmt") /\ b = AtRest
  ELSE IF e.kind \in AssignKinds
  THEN a.assigns > 0 /\ a.last = "assign" /\ b = Mark(a.calls, a.assigns - 1, "any")
  ELSE IF e.kind = "call" THEN a.calls > 0 /\ b = Mark(a.calls - 1, a.assigns, a.last)
  ELSE b = a
Moves(F, c, a, b) ==
  \/ c.at = "enter" /\ Enters(F, c.node, a, b)
  \/ c.at = "notify" /\ b = Mark(a.calls, a.assigns, "assign")
  \/ c.at = "leave" /\ Leaves(c.node, a, b)
ModeStep(F) == {s \in Pending \X Marks \X Marks : Moves(F, s[1], s[2], s[3])}

Conforms(a) ==
  /\ a.last = "normal" => vi_state = "VISIT_NORMAL"
  /\ a.last = "assign" => vi_state = "VISIT_NOMAL_ASSIGN"
  /\ vf_state = "VISIT_F_CALL" => a.calls > 0
  /\ vi_state = "VISIT_NORMAL" => assign_depth <= a.assigns
MarkedBy(F, td, a) == a \in Marks /\ Leads(ModeStep(F), td, a, AtRest)
Marked(F) == \E a \in Marks : MarkedBy(F, todo, a) /\ Conforms(a)

LEMMA ModeStepIn ==
  ASSUME NEW F, NEW c, NEW a, NEW b
  PROVE  <<c, a, b>> \in ModeStep(F) <=> c \in Pending /\ a \in Marks /\ b \in Marks /\ Moves(F, c, a, b)
BY DEF ModeStep

LEMMA MarkTyped ==
  ASSUME NEW c \in Nat, NEW d \in Nat, NEW l \in {"normal", "assign", "any"}
  PROVE  /\ Mark(c, d, l) \in Marks
         /\ Mark(c, d, l).calls = c /\ Mark(c, d, l).assigns = d /\ Mark(c, d, l).last = l
BY DEF Mark, Marks

LEMMA RestTyped == AtRest \in Marks /\ AtRest.calls = 0 /\ AtRest.assigns = 0 /\ AtRest.last = "normal"
BY MarkTyped DEF AtRest

\* The calls for the children of a node.
LEMMA ChildrenKeep ==
  ASSUME NEW R, NEW e \in Nodes, e.kind \notin AssignKinds, NEW a,
         \A i \in DOMAIN e.kids : <<Call("enter", e.kids[i]), a, a>> \in R
  PROVE  Leads(R, Children(e), a, a)
<1> DEFINE n == Len(e.kids)
           sh == [i \in 1 .. n + 1 |-> a]
           td == Children(e)
<1>1. e.kids \in Seq(Nodes) /\ n \in Nat /\ DOMAIN e.kids = 1 .. n
  BY NodesAssumption
<1>2. td = [i \in 1 .. n |-> Call("enter", e.kids[i])]
  BY <1>1 DEF Children
<1>3. Len(td) = n
  BY <1>1, <1>2
<1>4. ASSUME NEW i \in 1 .. n PROVE <<td[i], sh[i], sh[i + 1]>> \in R
  <2>1. i \in 1 .. n + 1 /\ i + 1 \in 1 .. n + 1
    BY <1>1
  <2>2. sh[i] = a /\ sh[i + 1] = a /\ td[i] = Call("enter", e.kids[i])
    BY <1>2, <2>1
  <2> HIDE DEF sh, td
  <2>3. QED
    BY <1>1, <2>2
<1>5. sh[1] = a /\ sh[n + 1] = a /\ DOMAIN sh = 1 .. n + 1
  BY <1>1
<1> HIDE DEF sh, td, n
<1>6. Along(R, td, sh)
  BY <1>3, <1>4, <1>5 DEF Along
<1>7. Leads(R, td, a, a)
  BY <1>3, <1>5, <1>6 DEF Leads
<1>8. QED
  BY <1>7 DEF td

LEMMA ChildrenAssign ==
  ASSUME NEW R, NEW e \in Nodes, e.kind \in AssignKinds, NEW a, NEW b, NEW c, NEW d,
         <<Call("enter", e.kids[2]), a, b>> \in R,
         <<Call("notify", e), b, c>> \in R,
         <<Call("enter", e.kids[1]), c, d>> \in R
  PROVE  Leads(R, Children(e), a, d)
<1> DEFINE sh == [i \in 1 .. 4 |-> IF i = 1 THEN a ELSE IF i = 2 THEN b ELSE IF i = 3 THEN c ELSE d]
           td == Children(e)
<1>1. td = <<Call("enter", e.kids[2]), Call("notify", e), Call("enter", e.kids[1])>>
  BY DEF Children
<1>2. sh[1] = a /\ sh[2] = b /\ sh[3] = c /\ sh[4] = d /\ DOMAIN sh = 1 .. 4
  OBVIOUS
<1> HIDE DEF sh, td
<1>3. /\ Len(td) = 3 /\ td[1] = Call("enter", e.kids[2]) /\ td[2] = Call("notify", e)
      /\ td[3] = Call("enter", e.kids[1])
  BY <1>1
<1>4. ASSUME NEW i \in 1 .. 3 PROVE <<td[i], sh[i], sh[i + 1]>> \in R
  <2>1. i = 1 \/ i = 2 \/ i = 3
    OBVIOUS
  <2>2. QED
    BY <1>2, <1>3, <2>1
<1>5. Along(R, td, sh)
  BY <1>2, <1>3, <1>4 DEF Along
<1>6. Leads(R, td, a, d)
  BY <1>2, <1>3, <1>5 DEF Leads
<1>7. QED
  BY <1>6 DEF td

\* Entering a node replaces its call by those of its children and its leaving:
\* what this marks, case by case.
LEMMA Entered ==
  ASSUME TypeOK, todo # <<>>, todo[1].at = "enter", Descend, NEW F,
         NEW a, NEW b, NEW k, NEW m, NEW R,
         Leads(R, Tail(todo), b, AtRest),
         Leads(R, Children(Cur), m, k), <<Call("leave", Cur), k, b>> \in R
  PROVE  Leads(R, todo', m, AtRest)
<1>1. todo \in Seq(Pending) /\ Cur \in Nodes
  BY CurIsNode DEF TypeOK
<1>2. Children(Cur) \in Seq(Pending)
  BY <1>1, ChildrenPending
<1>3. Call("leave", Cur) \in Pending
  BY <1>1 DEF Call, Pending
<1> DEFINE kids == Children(Cur)
           c == Call("leave", Cur)
<1>4. todo' = kids \o <<c>> \o Tail(todo)
  BY DEF Descend
<1>5. kids \in Seq(Pending) /\ c \in Pending /\ Leads(R, kids, m, k) /\ <<c, k, b>> \in R
  BY <1>2, <1>3
<1> HIDE DEF kids, c
<1>6. QED
  BY <1>1, <1>4, <1>5, LeadsDescend

\* The first pending call.
LEMMA FirstMarked ==
  ASSUME TypeOK, todo # <<>>, NEW F, NEW a, MarkedBy(F, todo, a)
  PROVE  \E b \in Marks : Moves(F, todo[1], a, b) /\ MarkedBy(F, Tail(todo), b)
<1>1. todo \in Seq(Pending)
  BY DEF TypeOK
<1>2. PICK b : <<todo[1], a, b>> \in ModeStep(F) /\ Leads(ModeStep(F), Tail(todo), b, AtRest)
  BY <1>1, LeadsTail DEF MarkedBy
<1>3. b \in Marks /\ Moves(F, todo[1], a, b)
  BY <1>2, ModeStepIn
<1>4. QED
  BY <1>2, <1>3 DEF MarkedBy

\* What entering a node makes of the marks.
MarksIn(e, a, m) ==
  /\ m \in Marks /\ m.last \in {a.last, "any"}
  /\ m.calls = IF e.kind = "call" THEN a.calls + 1 ELSE a.calls
  /\ m.assigns = IF e.kind \in AssignKinds THEN a.assigns + 1 ELSE a.assigns
EntersMarked(F, e, a) == \E m \in Marks : MarksIn(e, a, m) /\ MarkedBy(F, todo', m)

LEMMA KidsTyped ==
  ASSUME NEW e \in Nodes
  PROVE  /\ e.kids \in Seq(Nodes)
         /\ \A i \in DOMAIN e.kids : /\ e.kids[i] \in Nodes /\ e.kids[i].kind \notin StatementKinds
                                     /\ Call("enter", e.kids[i]) \in Pending
         /\ e.kind \in AssignKinds => 1 \in DOMAIN e.kids /\ 2 \in DOMAIN e.kids
<1>1. e.kids \in Seq(Nodes) /\ (e.kind \in AssignKinds => Len(e.kids) = 2)
  BY NodesAssumption
<1>2. \A i \in DOMAIN e.kids : e.kids[i] \in Nodes
  BY <1>1
<1>3. \A n \in Nodes : Call("enter", n) \in Pending
  BY DEF Call, Pending
<1>4. \A i \in DOMAIN e.kids : e.kids[i].kind \notin StatementKinds
  BY StatementsAssumption
<1>5. QED
  BY <1>1, <1>2, <1>3, <1>4

LEMMA EnterStep ==
  ASSUME NEW F, NEW n \in Nodes, n.kind \notin StatementKinds, NEW a \in Marks,
         a.last = "any" \/ n \in F
  PROVE  <<Call("enter", n), a, a>> \in ModeStep(F)
<1>1. Call("enter", n) \in Pending /\ Call("enter", n).at = "enter" /\ Call("enter", n).node = n
  BY DEF Call, Pending
<1>2. a.last = "any" => a = Mark(a.calls, a.assigns, "any")
  BY DEF Mark, Marks
<1>3. Enters(F, n, a, a)
  BY <1>2 DEF Enters
<1>4. Moves(F, Call("enter", n), a, a)
  BY <1>1, <1>3 DEF Moves
<1>5. QED
  BY <1>1, <1>4, ModeStepIn

LEMMA LeaveStep ==
  ASSUME NEW F, NEW n \in Nodes, NEW a \in Marks, NEW b \in Marks, Leaves(n, a, b)
  PROVE  <<Call("leave", n), a, b>> \in ModeStep(F)
<1>1. Call("leave", n) \in Pending /\ Call("leave", n).at = "leave" /\ Call("leave", n).node = n
  BY DEF Call, Pending
<1>2. Moves(F, Call("leave", n), a, b)
  BY <1>1 DEF Moves
<1>3. QED
  BY <1>1, <1>2, ModeStepIn

\* Children in which nothing is assigned, or of which nothing is said.
LEMMA ChildrenMarked ==
  ASSUME NEW F, NEW e \in Nodes, e.kind \notin AssignKinds, NEW a \in Marks,
         a.last = "any" \/ \A i \in DOMAIN e.kids : e.kids[i] \in F
  PROVE  Leads(ModeStep(F), Children(e), a, a)
<1>1. ASSUME NEW i \in DOMAIN e.kids PROVE <<Call("enter", e.kids[i]), a, a>> \in ModeStep(F)
  BY KidsTyped, EnterStep
<1>2. QED
  BY <1>1, ChildrenKeep

LEMMA AssignMarked ==
  ASSUME NEW F, Quiet(F), NEW e \in Nodes, e.kind \in AssignKinds, NEW c \in Nat, NEW d \in Nat
  PROVE  Leads(ModeStep(F), Children(e), Mark(c, d, "any"), Mark(c, d, "assign"))
<1> DEFINE a == Mark(c, d, "any")
           b == Mark(c, d, "assign")
<1>1. /\ a \in Marks /\ a.last = "any" /\ a.calls = c /\ a.assigns = d
      /\ b \in Marks /\ b.last = "assign" /\ b = Mark(a.calls, a.assigns, "assign")
  BY MarkTyped
<1>2. <<Call("enter", e.kids[2]), a, a>> \in ModeStep(F)
  BY <1>1, KidsTyped, EnterStep
<1>3. <<Call("notify", e), a, b>> \in ModeStep(F)
  <2>1. Call("notify", e) \in Pending /\ Call("notify", e).at = "notify"
    BY DEF Call, Pending
  <2>2. Moves(F, Call("notify", e), a, b)
    BY <1>1, <2>1 DEF Moves
  <2>3. QED
    BY <1>1, <2>1, <2>2, ModeStepIn
<1>4. <<Call("enter", e.kids[1]), b, b>> \in ModeStep(F)
  <2>1. e.kids[1] \in F /\ e.kids[1] \in Nodes /\ e.kids[1].kind \notin StatementKinds
    BY KidsTyped DEF Quiet
  <2>2. QED
    BY <1>1, <2>1, EnterStep
<1> HIDE DEF a, b
<1>5. Leads(ModeStep(F), Children(e), a, b)
  BY <1>2, <1>3, <1>4, ChildrenAssign
<1>6. QED
  BY <1>5 DEF a, b

LEMMA EnterMarked ==
  ASSUME TypeOK, Calling("enter"), Descend, NEW F, Quiet(F), NEW a \in Marks, MarkedBy(F, todo, a)
  PROVE  EntersMarked(F, Cur, a) /\ (Cur.kind \in StatementKinds => a = AtRest)
<1>1. Cur \in Nodes /\ todo # <<>> /\ todo[1].at = "enter" /\ todo[1].node = Cur
  BY CurIsNode DEF Calling, Cur
<1>2. PICK b \in Marks : Moves(F, todo[1], a, b) /\ MarkedBy(F, Tail(todo), b)
  BY <1>1, FirstMarked
<1>3. Enters(F, Cur, a, b) /\ Leads(ModeStep(F), Tail(todo), b, AtRest)
  BY <1>1, <1>2 DEF Moves, MarkedBy
<1>4. a.calls \in Nat /\ a.assigns \in Nat /\ a.last \in {"normal", "assign", "any"}
  BY DEF Marks
<1>5. ASSUME NEW m \in Marks, NEW k \in Marks, MarksIn(Cur, a, m),
             Leads(ModeStep(F), Children(Cur), m, k), Leaves(Cur, k, b)
      PROVE  EntersMarked(F, Cur, a)
  <2>1. <<Call("leave", Cur), k, b>> \in ModeStep(F)
    BY <1>1, <1>5, LeaveStep
  <2>2. Leads(ModeStep(F), todo', m, AtRest)
    BY <1>1, <1>3, <1>5, <2>1, Entered
  <2>3. QED
    BY <1>5, <2>2 DEF EntersMarked, MarkedBy
<1>6. CASE Cur.kind \in StatementKinds
  <2>1. a = AtRest /\ b = AtRest
    BY <1>3, <1>6 DEF Enters
  <2>2. Cur.kind \notin AssignKinds /\ Cur.kind # "call"
    BY <1>6 DEF StatementKinds, AssignKinds, CompoundOf
  <2>3. CASE Cur.kind = "exprstmt"
    <3> DEFINE m == Mark(0, 0, "any")
    <3>1. m \in Marks /\ m.calls = 0 /\ m.assigns = 0 /\ m.last = "any"
      BY MarkTyped
    <3> HIDE DEF m
    <3>2. MarksIn(Cur, a, m)
      BY <2>1, <2>2, <3>1, RestTyped DEF MarksIn
    <3>3. Leaves(Cur, m, b)
      BY <1>6, <2>1, <2>3, <3>1 DEF Leaves
    <3>4. Leads(ModeStep(F), Children(Cur), m, m)
      BY <1>1, <2>2, <3>1, ChildrenMarked
    <3>5. QED
      BY <1>5, <2>1, <3>1, <3>2, <3>3, <3>4
  <2>4. CASE Cur.kind # "exprstmt"
    <3>1. MarksIn(Cur, a, a)
      BY <2>2 DEF MarksIn
    <3>2. Leaves(Cur, a, b)
      BY <1>6, <2>1, RestTyped DEF Leaves
    <3>3. Leads(ModeStep(F), Children(Cur), a, a)
      BY <1>1, <1>6, <2>2, <2>4, ChildrenMarked DEF Quiet
    <3>4. QED
      BY <1>5, <2>1, <3>1, <3>2, <3>3
  <2>5. QED
    BY <2>3, <2>4
<1>7. CASE Cur.kind \in AssignKinds
  <2>1. Cur.kind \notin StatementKinds /\ Cur.kind # "call" /\ Cur \notin F
    BY <1>7 DEF StatementKinds, AssignKinds, CompoundOf, Quiet
  <2>2. b = Mark(a.calls, a.assigns, "any")
    BY <1>3, <2>1 DEF Enters
  <2> DEFINE m == Mark(a.calls, a.assigns + 1, "any")
             k == Mark(a.calls, a.assigns + 1, "assign")
  <2>3. /\ m \in Marks /\ m.calls = a.calls /\ m.assigns = a.assigns + 1 /\ m.last = "any"
        /\ k \in Marks /\ k.calls = a.calls /\ k.assigns = a.assigns + 1 /\ k.last = "assign"
    BY <1>4, MarkTyped
  <2>4. Leads(ModeStep(F), Children(Cur), m, k)
    BY <1>1, <1>4, <1>7, AssignMarked
  <2> HIDE DEF m, k
  <2>5. MarksIn(Cur, a, m)
    BY <1>7, <2>1, <2>3 DEF MarksIn
  <2>6. k.assigns > 0 /\ k.assigns - 1 = a.assigns
    BY <1>4, <2>3
  <2>7. Leaves(Cur, k, b)
    BY <1>7, <2>1, <2>2, <2>3, <2>6 DEF Leaves
  <2>8. QED
    BY <1>5, <2>1, <2>3, <2>4, <2>5, <2>7
<1>8. CASE Cur.kind = "call"
  <2>1. Cur.kind \notin StatementKinds /\ Cur.kind \notin AssignKinds
    BY <1>8 DEF StatementKinds, AssignKinds, CompoundOf
  <2>2. PICK l \in {a.last, "any"} : b = Mark(a.calls, a.assigns, l) /\ (l = "any" \/ Cur \in F)
    <3>1. a = Mark(a.calls, a.assigns, a.last)
      BY DEF Mark, Marks
    <3>2. QED
      BY <1>3, <2>1, <3>1 DEF Enters
  <2> DEFINE m == Mark(a.calls + 1, a.assigns, l)
  <2>3. m \in Marks /\ m.calls = a.calls + 1 /\ m.assigns = a.assigns /\ m.last = l
    BY <1>4, <2>2, MarkTyped
  <2> HIDE DEF m
  <2>4. MarksIn(Cur, a, m)
    BY <1>8, <2>1, <2>2, <2>3 DEF MarksIn
  <2>5. m.calls > 0 /\ m.calls - 1 = a.calls
    BY <1>4, <2>3
  <2>6. Leaves(Cur, m, b)
    BY <1>8, <2>1, <2>2, <2>3, <2>5 DEF Leaves
  <2>7. Leads(ModeStep(F), Children(Cur), m, m)
    <3>1. m.last = "any" \/ \A i \in DOMAIN Cur.kids : Cur.kids[i] \in F
      BY <2>2, <2>3 DEF Quiet
    <3>2. QED
      BY <1>1, <2>1, <2>3, <3>1, ChildrenMarked
  <2>8. QED
    BY <1>5, <2>1, <2>3, <2>4, <2>6, <2>7
<1>9. CASE Cur.kind \notin StatementKinds \cup AssignKinds \cup {"call"}
  <2>1. PICK l \in {a.last, "any"} : b = Mark(a.calls, a.assigns, l) /\ (l = "any" \/ Cur \in F)
    <3>1. a = Mark(a.calls, a.assigns, a.last)
      BY DEF Mark, Marks
    <3>2. QED
      BY <1>3, <1>9, <3>1 DEF Enters
  <2>2. b.calls = a.calls /\ b.assigns = a.assigns /\ b.last = l
    BY <1>4, <2>1, MarkTyped
  <2>3. MarksIn(Cur, a, b) /\ Leaves(Cur, b, b)
    BY <1>9, <2>1, <2>2 DEF MarksIn, Leaves
  <2>4. Leads(ModeStep(F), Children(Cur), b, b)
    <3>1. b.last = "any" \/ \A i \in DOMAIN Cur.kids : Cur.kids[i] \in F
      BY <2>1, <2>2 DEF Quiet
    <3>2. QED
      BY <1>1, <1>9, <3>1, ChildrenMarked
  <2>5. QED
    BY <1>5, <1>9, <2>3, <2>4
<1>10. QED
  BY <1>6, <1>7, <1>8, <1>9

ModesKept == UNCHANGED <<vi_state, vf_state, assign_depth>>

LEMMA SameMarked ==
  ASSUME NEW F, Marked(F), ModesKept, todo' = todo
  PROVE  Marked(F)'
BY DEF Marked, ModesKept, Conforms, MarkedBy

\* A node is left, or its assignment notified, with the modes as the marks say.
LEMMA ReturnMarked ==
  ASSUME Return, NEW F, NEW b \in Marks, MarkedBy(F, Tail(todo), b), Conforms(b)'
  PROVE  Marked(F)'
BY DEF Marked, MarkedBy, Return

LEMMA LeavingMarked ==
  ASSUME TypeOK, Calling("leave"), NEW F, NEW a \in Marks, MarkedBy(F, todo, a)
  PROVE  \E b \in Marks : Leaves(Cur, a, b) /\ MarkedBy(F, Tail(todo), b)
<1>1. todo # <<>> /\ todo[1].at = "leave" /\ todo[1].node = Cur
  BY DEF Calling, Cur
<1>2. PICK b \in Marks : Moves(F, todo[1], a, b) /\ MarkedBy(F, Tail(todo), b)
  BY <1>1, FirstMarked
<1>3. Leaves(Cur, a, b)
  BY <1>1, <1>2 DEF Moves
<1>4. QED
  BY <1>2, <1>3

Ordinary(e) == e.kind \notin AssignKinds \cup {"call", "exprstmt"}

LEMMA KeepMarked ==
  ASSUME TypeOK, Calling("leave"), Return, ModesKept, Ordinary(Cur), NEW F, Marked(F)
  PROVE  Marked(F)'
<1>1. PICK a \in Marks : MarkedBy(F, todo, a) /\ Conforms(a)
  BY DEF Marked
<1>2. PICK b \in Marks : Leaves(Cur, a, b) /\ MarkedBy(F, Tail(todo), b)
  BY <1>1, LeavingMarked
<1>3. b.calls = a.calls /\ b.assigns = a.assigns /\ b.last = a.last
  BY <1>2, RestTyped DEF Leaves, Ordinary
<1>4. Conforms(b)'
  BY <1>1, <1>3 DEF Conforms, ModesKept
<1>5. QED
  BY <1>2, <1>4, ReturnMarked

LEMMA MarkedEnters ==
  ASSUME TypeOK, NEW F, Quiet(F), Marked(F), EnterOther \/ EnterAssign \/ EnterFuncCall
  PROVE  Marked(F)'
<1>1. PICK a \in Marks : MarkedBy(F, todo, a) /\ Conforms(a)
  BY DEF Marked
<1>2. Calling("enter") /\ Descend
  BY DEF EnterOther, EnterAssign, EnterFuncCall
<1>3. EntersMarked(F, Cur, a)
  BY <1>1, <1>2, EnterMarked
<1>4. PICK m \in Marks : MarksIn(Cur, a, m) /\ MarkedBy(F, todo', m)
  BY <1>3 DEF EntersMarked
<1>5. a.calls \in Nat /\ a.assigns \in Nat /\ m.calls \in Nat /\ m.assigns \in Nat
  BY DEF Marks
<1>6. Conforms(m)'
  <2>1. CASE EnterOther
    <3>1. ModesKept /\ Cur.kind \notin AssignKinds \cup {"call"}
      BY <2>1 DEF EnterOther, handlerVars, ModesKept
    <3>2. QED
      BY <1>1, <1>4, <3>1 DEF MarksIn, Conforms, ModesKept
  <2>2. CASE EnterFuncCall
    <3>1. UNCHANGED <<vi_state, assign_depth>> /\ Cur.kind = "call"
      BY <2>2 DEF EnterFuncCall
    <3>2. Cur.kind \notin AssignKinds
      BY <3>1 DEF AssignKinds, CompoundOf
    <3>3. m.calls = a.calls + 1 /\ m.assigns = a.assigns
      BY <1>4, <3>1, <3>2 DEF MarksIn
    <3>4. QED
      BY <1>1, <1>4, <1>5, <3>1, <3>3 DEF MarksIn, Conforms
  <2>3. CASE EnterAssign
    <3>1. /\ UNCHANGED <<vi_state, vf_state>> /\ Cur.kind \in AssignKinds
          /\ assign_depth' = (assign_depth + 1) % 65536
      BY <2>3 DEF EnterAssign
    <3>2. Cur.kind # "call"
      BY <3>1 DEF AssignKinds, CompoundOf
    <3>3. m.calls = a.calls /\ m.assigns = a.assigns + 1
      BY <1>4, <3>1, <3>2 DEF MarksIn
    <3>4. assign_depth \in Nat
      BY DEF TypeOK, UInt16
    <3>5. (assign_depth + 1) % 65536 <= assign_depth + 1
      BY <3>4
    <3>6. (assign_depth + 1) % 65536 \in Nat
      BY <3>4
    <3>7. assign_depth <= a.assigns => assign_depth' <= m.assigns
      BY <1>5, <3>1, <3>3, <3>4, <3>5, <3>6
    <3>8. QED
      BY <1>1, <1>4, <3>1, <3>3, <3>7 DEF MarksIn, Conforms
  <2>4. QED
    BY <2>1, <2>2, <2>3
<1>7. QED
  BY <1>4, <1>6 DEF Marked

LEMMA MarkedNotify ==
  ASSUME TypeOK, NEW F, Marked(F), NotifyAssign
  PROVE  Marked(F)'
<1>1. CASE Exit
  BY <1>1, SameMarked DEF Exit, ModesKept
<1>2. CASE vi_state' = "VISIT_NOMAL_ASSIGN" /\ Return /\ UNCHANGED <<vf_state, assign_depth>>
  <2>1. PICK a \in Marks : MarkedBy(F, todo, a) /\ Conforms(a)
    BY DEF Marked
  <2>2. todo # <<>> /\ todo[1].at = "notify"
    BY DEF NotifyAssign, Calling
  <2>3. PICK b \in Marks : Moves(F, todo[1], a, b) /\ MarkedBy(F, Tail(todo), b)
    BY <2>1, <2>2, FirstMarked
  <2>4. b = Mark(a.calls, a.assigns, "assign") /\ a.calls \in Nat /\ a.assigns \in Nat
    BY <2>2, <2>3 DEF Moves, Marks
  <2>5. b.calls = a.calls /\ b.assigns = a.assigns /\ b.last = "assign"
    BY <2>4, MarkTyped
  <2>6. Conforms(b)'
    BY <1>2, <2>1, <2>5 DEF Conforms
  <2>7. QED
    BY <1>2, <2>3, <2>6, ReturnMarked
<1>3. QED
  BY <1>1, <1>2 DEF NotifyAssign

LEMMA MarkedLeaveAssign ==
  ASSUME TypeOK, NEW F, Marked(F), LeaveAssign
  PROVE  Marked(F)'
<1>1. Calling("leave") /\ Return /\ Cur.kind \in AssignKinds /\ vf_state' = vf_state
  BY DEF LeaveAssign
<1>2. PICK a \in Marks : MarkedBy(F, todo, a) /\ Conforms(a)
  BY DEF Marked
<1>3. PICK b \in Marks : Leaves(Cur, a, b) /\ MarkedBy(F, Tail(todo), b)
  BY <1>1, <1>2, LeavingMarked
<1>4. Cur.kind \notin StatementKinds
  BY <1>1 DEF AssignKinds, CompoundOf, StatementKinds
<1>5. /\ a.assigns > 0 /\ a.last = "assign" /\ b = Mark(a.calls, a.assigns - 1, "any")
      /\ a.calls \in Nat /\ a.assigns - 1 \in Nat
  BY <1>1, <1>3, <1>4 DEF Leaves, Marks
<1>6. b.calls = a.calls /\ b.assigns = a.assigns - 1 /\ b.last = "any"
  BY <1>5, MarkTyped
<1>7. vi_state = "VISIT_NOMAL_ASSIGN"
  BY <1>2, <1>5 DEF Conforms
<1>8. vi_state' = "VISIT_NOMAL_ASSIGN" \/ (vi_state' = "VISIT_NORMAL" /\ assign_depth' = 0)
  BY <1>7 DEF LeaveAssign
<1>9. vi_state' = "VISIT_NORMAL" => assign_depth' <= b.assigns
  BY <1>5, <1>6, <1>8
<1>10. Conforms(b)'
  BY <1>1, <1>2, <1>6, <1>9 DEF Conforms
<1>11. QED
  BY <1>1, <1>3, <1>10, ReturnMarked

LEMMA MarkedLeaveFuncCall ==
  ASSUME TypeOK, NEW F, Marked(F), LeaveFuncCall
  PROVE  Marked(F)'
<1>1. /\ Calling("leave") /\ Return /\ Cur.kind = "call" /\ vf_state' = "VISIT_F_NO"
      /\ UNCHANGED <<vi_state, assign_depth>>
  BY DEF LeaveFuncCall
<1>2. PICK a \in Marks : MarkedBy(F, todo, a) /\ Conforms(a)
  BY DEF Marked
<1>3. PICK b \in Marks : Leaves(Cur, a, b) /\ MarkedBy(F, Tail(todo), b)
  BY <1>1, <1>2, LeavingMarked
<1>4. Cur.kind \notin StatementKinds \cup AssignKinds
  BY <1>1 DEF AssignKinds, CompoundOf, StatementKinds
<1>5. /\ b = Mark(a.calls - 1, a.assigns, a.last)
      /\ a.calls - 1 \in Nat /\ a.assigns \in Nat /\ a.last \in {"normal", "assign", "any"}
  BY <1>1, <1>3, <1>4 DEF Leaves, Marks
<1>6. b.calls = a.calls - 1 /\ b.assigns = a.assigns /\ b.last = a.last
  BY <1>5, MarkTyped
<1>7. Conforms(b)'
  BY <1>1, <1>2, <1>6 DEF Conforms
<1>8. QED
  BY <1>1, <1>3, <1>7, ReturnMarked

LEMMA MarkedLeaveExprStmt ==
  ASSUME TypeOK, NEW F, Marked(F), LeaveExprStmt
  PROVE  Marked(F)'
<1>1. /\ Calling("leave") /\ Return /\ Cur.kind = "exprstmt" /\ vf_state' = vf_state
      /\ \/ vi_state = "VISIT_NORMAL" /\ UNCHANGED <<vi_state, assign_depth>>
         \/ vi_state' = "VISIT_NORMAL" /\ assign_depth' = 0
  BY DEF LeaveExprStmt
<1>2. PICK a \in Marks : MarkedBy(F, todo, a) /\ Conforms(a)
  BY DEF Marked
<1>3. PICK b \in Marks : Leaves(Cur, a, b) /\ MarkedBy(F, Tail(todo), b)
  BY <1>1, <1>2, LeavingMarked
<1>4. a.calls = 0 /\ a.assigns = 0 /\ b = AtRest
  BY <1>1, <1>3 DEF Leaves, StatementKinds
<1>5. vi_state' = "VISIT_NORMAL" /\ assign_depth' <= 0 /\ vf_state' # "VISIT_F_CALL"
  BY <1>1, <1>2, <1>4 DEF Conforms
<1>6. Conforms(b)'
  BY <1>4, <1>5, RestTyped DEF Conforms
<1>7. QED
  BY <1>1, <1>3, <1>6, ReturnMarked

LEMMA MarkedNext ==
  ASSUME TypeOK, NEW F, Quiet(F), Marked(F), [CodegenNext]_codegenVars
  PROVE  Marked(F)'
<1>1. CASE UNCHANGED codegenVars
  BY <1>1, SameMarked DEF codegenVars, handlerVars, ModesKept
<1>2. CASE LeaveFunctionAssign
  BY <1>2, SameMarked DEF LeaveFunctionAssign, Exit, ModesKept
<1>3. CASE LeaveLiteral \/ LeaveIdentNormal \/ LeaveIdentAssign
  <2>1. Calling("leave") /\ Return /\ ModesKept
    BY <1>3 DEF LeaveLiteral, LeaveIdentNormal, LeaveIdentAssign, EmitAndReturn, KeepModes, ModesKept
  <2>2. Cur.kind \in {"boolean", "int", "double", "ident", "function"}
    BY <1>3 DEF LeaveLiteral, LeaveIdentNormal, LeaveIdentAssign
  <2>3. Ordinary(Cur)
    BY <2>2 DEF Ordinary, AssignKinds, CompoundOf
  <2>4. QED
    BY <2>1, <2>3, KeepMarked
<1>4. CASE LeaveBinary
  <2>1. CASE Exit
    BY <2>1, SameMarked DEF Exit, ModesKept
  <2>2. CASE ~Exit
    <3>1. Calling("leave") /\ Return /\ ModesKept /\ Cur.kind \in DOMAIN BinaryOps
      BY <1>4, <2>2 DEF LeaveBinary, EmitAndReturn, KeepModes, ModesKept
    <3>2. Ordinary(Cur)
      BY <3>1 DEF Ordinary, AssignKinds, CompoundOf, BinaryOps
    <3>3. QED
      BY <3>1, <3>2, KeepMarked
  <2>3. QED
    BY <2>1, <2>2
<1>5. CASE LeaveUnary
  <2>1. CASE Exit
    BY <2>1, SameMarked DEF Exit, ModesKept
  <2>2. CASE ~Exit
    <3>1. Calling("leave") /\ Return /\ ModesKept /\ Cur.kind \in UnaryNodes
      BY <1>5, <2>2, UnaryEmits DEF EmitAndReturn, KeepModes, ModesKept
    <3>2. Ordinary(Cur)
      BY <3>1 DEF Ordinary, AssignKinds, CompoundOf, UnaryNodes
    <3>3. QED
      BY <3>1, <3>2, KeepMarked
  <2>3. QED
    BY <2>1, <2>2
<1>6. CASE LeaveIncDec
  <2>1. Calling("leave") /\ Cur.kind \in {"inc", "dec"} /\ ModesKept /\ (Return \/ todo' = todo)
    BY <1>6 DEF LeaveIncDec, KeepModes, Exit, ModesKept
  <2>2. Ordinary(Cur)
    BY <2>1 DEF Ordinary, AssignKinds, CompoundOf
  <2>3. QED
    BY <2>1, <2>2, KeepMarked, SameMarked
<1>7. CASE LeaveDeclStmt \/ LeaveBlockOp
  <2>1. Calling("leave") /\ Return /\ ModesKept
    BY <1>7 DEF LeaveDeclStmt, LeaveBlockOp, EmitAndReturn, KeepModes, handlerVars, ModesKept
  <2>2. Cur.kind \in {"declstmt", "blockbegin", "blockend"}
    BY <1>7 DEF LeaveDeclStmt, LeaveBlockOp
  <2>3. Ordinary(Cur)
    BY <2>2 DEF Ordinary, AssignKinds, CompoundOf
  <2>4. QED
    BY <2>1, <2>3, KeepMarked
<1>8. CASE LeaveIfEnter \/ LeaveIfLeave
  <2>1. Calling("leave") /\ Cur.kind \in {"ifenter", "ifleave"} /\ ModesKept /\ (Return \/ todo' = todo)
    BY <1>8 DEF LeaveIfEnter, LeaveIfLeave, Exit, ModesKept
  <2>2. Ordinary(Cur)
    BY <2>1 DEF Ordinary, AssignKinds, CompoundOf
  <2>3. QED
    BY <2>1, <2>2, KeepMarked, SameMarked
<1>9. QED
  BY <1>1, <1>2, <1>3, <1>4, <1>5, <1>6, <1>7, <1>8, MarkedEnters, MarkedNotify, MarkedLeaveAssign,
     MarkedLeaveFuncCall, MarkedLeaveExprStmt DEF CodegenNext

LEMMA MarkedInit ==
  ASSUME CodegenInit, NEW F
  PROVE  Marked(F)
<1> DEFINE stmts == prog.stmts
<1>1. prog \in Programs /\ todo = [i \in DOMAIN stmts |-> Call("enter", stmts[i])]
  BY DEF CodegenInit
<1>2. stmts \in Seq(Nodes) /\ \A i \in DOMAIN stmts : stmts[i].kind \in StatementKinds
  BY <1>1, NodesAssumption, StatementsAssumption
<1> HIDE DEF stmts
<1> DEFINE sh == [i \in 1 .. Len(stmts) + 1 |-> AtRest]
<1>3. Len(todo) = Len(stmts) /\ Len(stmts) \in Nat /\ DOMAIN stmts = 1 .. Len(stmts)
  BY <1>1, <1>2
<1>4. ASSUME NEW i \in 1 .. Len(todo) PROVE <<todo[i], sh[i], sh[i + 1]>> \in ModeStep(F)
  <2>1. stmts[i] \in Nodes /\ stmts[i].kind \in StatementKinds /\ todo[i] = Call("enter", stmts[i])
    BY <1>1, <1>2, <1>3
  <2>2. todo[i] \in Pending /\ todo[i].at = "enter" /\ todo[i].node = stmts[i]
    BY <2>1 DEF Call, Pending
  <2>3. i \in 1 .. Len(stmts) + 1 /\ i + 1 \in 1 .. Len(stmts) + 1
    BY <1>3
  <2>4. sh[i] = AtRest /\ sh[i + 1] = AtRest
    BY <2>3
  <2>5. Moves(F, todo[i], AtRest, AtRest)
    BY <2>1, <2>2 DEF Moves, Enters
  <2> HIDE DEF sh
  <2>6. QED
    BY <2>2, <2>4, <2>5, RestTyped, ModeStepIn
<1>5. DOMAIN sh = 1 .. Len(todo) + 1 /\ sh[1] = AtRest /\ sh[Len(todo) + 1] = AtRest
  BY <1>3
<1> HIDE DEF sh
<1>6. Along(ModeStep(F), todo, sh)
  BY <1>4, <1>5 DEF Along
<1>7. MarkedBy(F, todo, AtRest)
  BY <1>5, <1>6, RestTyped DEF MarkedBy, Leads
<1>8. Conforms(AtRest)
  BY RestTyped DEF Conforms, CodegenInit
<1>9. QED
  BY <1>7, <1>8, RestTyped DEF Marked

LEMMA MarkedReset ==
  ASSUME TypeOK, NEW F, Quiet(F), Marked(F)
  PROVE  ModesReset
<1>1. PICK a \in Marks : MarkedBy(F, todo, a) /\ Conforms(a)
  BY DEF Marked
<1>2. a = AtRest => vi_state = "VISIT_NORMAL" /\ vf_state = "VISIT_F_NO" /\ assign_depth = 0
  <2>1. assign_depth \in Nat
    BY DEF TypeOK, UInt16
  <2>2. QED
    BY <1>1, <2>1, RestTyped DEF Conforms, TypeOK
<1>3. CASE Generated
  <2>1. Leads(ModeStep(F), <<>>, a, AtRest)
    BY <1>1, <1>3 DEF MarkedBy, Generated
  <2>2. a = AtRest
    BY <2>1, LeadsNowhere
  <2>3. QED
    BY <1>2, <2>2 DEF ModesReset
<1>4. CASE Calling("enter") /\ Cur.kind \in {"exprstmt", "declstmt"}
  <2>1. todo # <<>> /\ todo[1].at = "enter" /\ todo[1].node = Cur
    BY <1>4 DEF Calling, Cur
  <2>2. PICK b \in Marks : Moves(F, todo[1], a, b)
    BY <1>1, <2>1, FirstMarked
  <2>3. a = AtRest
    BY <1>4, <2>1, <2>2 DEF Moves, Enters, StatementKinds
  <2>4. QED
    BY <1>2, <2>3 DEF ModesReset
<1>5. QED
  BY <1>3, <1>4 DEF ModesReset

\* No statement leaves its modes to the next, however assignments and calls are
\* nested in expression statements: provided that targets, initializers and
\* conditions assign nothing (codegenvisitor.c:578-607, 706-742).
THEOREM ModesAreReset ==
  ASSUME NEW CONSTANT F, Quiet(F)
  PROVE  CsuaSpec => []ModesReset
<1>1. CsuaInit => CsuaInv /\ Marked(F)
  BY CsuaInitOK, MarkedInit DEF CsuaInit
<1>2. CsuaInv /\ Marked(F) /\ [CsuaNext]_csuaVars => CsuaInv' /\ Marked(F)'
  <2> SUFFICES ASSUME CsuaInv, Marked(F), [CsuaNext]_csuaVars
               PROVE  CsuaInv' /\ Marked(F)'
    OBVIOUS
  <2>1. CsuaInv' /\ TypeOK
    BY CsuaNextOK DEF CsuaInv, CodegenInv
  <2>2. [CodegenNext]_codegenVars
    BY DEF CsuaNext, Compile, RunExecutable, Execute, Ended, csuaVars
  <2>3. QED
    BY <2>1, <2>2, MarkedNext
<1>3. CsuaInv /\ Marked(F) => ModesReset
  BY MarkedReset DEF CsuaInv, CodegenInv
<1>4. QED
  BY <1>1, <1>2, <1>3, PTL DEF CsuaSpec

-----------------------------------------------------------------------------
(* The machine on code that has its shapes (CodeShape).                      *)

\* n slots are replaced by one, or dropped.
Puts(a, n, s, b) ==
  /\ b.blocks = a.blocks /\ n <= Len(a.tags) /\ Len(b.tags) = Len(a.tags) - n + 1
  /\ \A i \in 1 .. Len(a.tags) - n : b.tags[i] = a.tags[i]
  /\ b.tags[Len(b.tags)] = s
Drops(a, n, b) ==
  /\ b.blocks = a.blocks /\ n <= Len(a.tags) /\ Len(b.tags) = Len(a.tags) - n
  /\ \A i \in 1 .. Len(a.tags) - n : b.tags[i] = a.tags[i]

LEMMA ReplacePuts ==
  ASSUME NEW a \in Shapes, NEW n \in Nat, n <= Len(a.tags), NEW s
  PROVE  Puts(a, n, s, Replace(a, n, <<s>>))
<1>1. a.tags \in Seq(Members) /\ Len(a.tags) \in Nat
  BY DEF Shapes
<1> DEFINE m == Len(a.tags) - n
           x == SubSeq(a.tags, 1, m)
<1>2. m \in Nat /\ m <= Len(a.tags)
  BY <1>1
<1>3. x \in Seq(Members) /\ Len(x) = m /\ \A i \in 1 .. m : x[i] = a.tags[i]
  <2> HIDE DEF m
  <2>1. \A i \in 1 .. m : a.tags[i] \in Members
    BY <1>1, <1>2
  <2>2. QED
    BY <1>2, <2>1, SubSeqProperties
<1> DEFINE b == Replace(a, n, <<s>>)
<1>4. b.blocks = a.blocks /\ b.tags = x \o <<s>>
  BY DEF Replace
<1> HIDE DEF m, x, b
<1>5. Len(b.tags) = m + 1 /\ b.tags[m + 1] = s /\ \A i \in 1 .. m : b.tags[i] = x[i]
  BY <1>2, <1>3, <1>4
<1>6. QED
  BY <1>1, <1>2, <1>3, <1>4, <1>5 DEF Puts, m, b

LEMMA ReplaceDrops ==
  ASSUME NEW a \in Shapes, NEW n \in Nat, n <= Len(a.tags)
  PROVE  Drops(a, n, Replace(a, n, <<>>))
<1>1. a.tags \in Seq(Members) /\ Len(a.tags) \in Nat
  BY DEF Shapes
<1> DEFINE m == Len(a.tags) - n
           x == SubSeq(a.tags, 1, m)
<1>2. m \in Nat /\ m <= Len(a.tags)
  BY <1>1
<1>3. x \in Seq(Members) /\ Len(x) = m /\ \A i \in 1 .. m : x[i] = a.tags[i]
  <2> HIDE DEF m
  <2>1. \A i \in 1 .. m : a.tags[i] \in Members
    BY <1>1, <1>2
  <2>2. QED
    BY <1>2, <2>1, SubSeqProperties
<1> DEFINE b == Replace(a, n, <<>>)
<1>4. b.blocks = a.blocks /\ b.tags = x \o <<>>
  BY DEF Replace
<1> HIDE DEF m, x, b
<1>5. b.tags = x
  BY <1>3, <1>4
<1>6. QED
  BY <1>1, <1>2, <1>3, <1>4, <1>5 DEF Drops, m, b

-----------------------------------------------------------------------------
(* The machine's stack has a shape, and each instruction keeps to its effect.*)

Fit(s, v) == v.t = s.t /\ (s.f >= 0 => v.v = s.f)
Fits(a) ==
  /\ sp = a.blocks + Len(a.tags) /\ sp <= image.stack_size
  /\ Len(pt_stack) = a.blocks /\ \A k \in 1 .. a.blocks : pt_stack[k] = k - 1
  /\ \A k \in 1 .. Len(a.tags) : Fit(a.tags[k], stack[a.blocks + k - 1])
\* Tags and variables agree with what was written.
Agree == /\ \A i \in 0 .. image.stack_size - 1 : stack_value_type[i] = stack[i].t
         /\ Len(globals) = Len(image.types)
         /\ \A i \in 1 .. Len(image.types) : globals[i].t = image.types[i]

LEMMA StoreFits ==
  ASSUME SvmTypeOK, mode # "idle", image' = image, globals' = globals, pt_stack' = pt_stack,
         NEW a \in Shapes, NEW b \in Shapes, Fits(a), Agree,
         NEW n \in Nat, NEW s, NEW v, Puts(a, n, s, b), Fit(s, v), Store(n, v.t, v),
         sp - n < image.stack_size
  PROVE  Fits(b)' /\ Agree'
<1> DEFINE top == sp - n
           m == Len(a.tags)
<1>1. /\ sp \in Nat /\ image.stack_size \in Nat
      /\ DOMAIN stack = 0 .. image.stack_size - 1
      /\ DOMAIN stack_value_type = 0 .. image.stack_size - 1
  BY DEF SvmTypeOK, Image
<1>2. /\ a.blocks \in Nat /\ m \in Nat /\ b.blocks = a.blocks /\ Len(b.tags) \in Nat
      /\ n <= m /\ Len(b.tags) = m - n + 1 /\ sp = a.blocks + m
  BY DEF Shapes, Puts, Fits
<1>3. top \in 0 .. image.stack_size - 1 /\ top = b.blocks + Len(b.tags) - 1
  BY <1>1, <1>2
<1>4. sp' = top + 1
  BY DEF Store
<1>5. /\ DOMAIN stack' = 0 .. image.stack_size - 1
      /\ stack'[top] = v /\ stack_value_type'[top] = v.t
      /\ \A i \in 0 .. image.stack_size - 1 :
           i # top => stack'[i] = stack[i] /\ stack_value_type'[i] = stack_value_type[i]
  BY <1>1, <1>3 DEF Store
<1> HIDE DEF top, m
<1>6. ASSUME NEW k \in 1 .. Len(b.tags) PROVE Fit(b.tags[k], stack'[b.blocks + k - 1])
  <2>1. CASE k = Len(b.tags)
    <3>1. b.tags[k] = s
      BY <2>1 DEF Puts
    <3>2. b.blocks + k - 1 = top
      BY <1>2, <1>3, <2>1
    <3>3. QED
      BY <1>5, <3>1, <3>2
  <2>2. CASE k # Len(b.tags)
    <3>1. k \in 1 .. m - n /\ k \in 1 .. m
      BY <1>2, <2>2
    <3>2. b.tags[k] = a.tags[k]
      BY <3>1 DEF Puts, m
    <3>3. b.blocks + k - 1 \in 0 .. image.stack_size - 1 /\ b.blocks + k - 1 # top
      <4>1. k \in Nat /\ k >= 1 /\ k < Len(b.tags)
        BY <1>2, <3>1
      <4>2. top \in Int /\ 0 <= top /\ top < image.stack_size /\ b.blocks \in Nat
        BY <1>1, <1>2, <1>3
      <4>3. b.blocks + k - 1 < top
        BY <1>2, <1>3, <4>1, <4>2
      <4>4. QED
        BY <1>1, <4>1, <4>2, <4>3
    <3>4. stack'[b.blocks + k - 1] = stack[a.blocks + k - 1]
      BY <1>2, <1>5, <3>3
    <3>5. Fit(a.tags[k], stack[a.blocks + k - 1])
      BY <3>1 DEF Fits, m
    <3>6. QED
      BY <3>2, <3>4, <3>5
  <2>3. QED
    BY <2>1, <2>2
<1>7. Fits(b)'
  <2>1. sp' = b.blocks + Len(b.tags) /\ sp' <= image'.stack_size
    <3>1. sp' = b.blocks + Len(b.tags)
      BY <1>2, <1>3, <1>4
    <3>2. top + 1 <= image.stack_size
      BY <1>1, <1>3
    <3>3. QED
      BY <1>4, <3>1, <3>2
  <2>2. Len(pt_stack') = b.blocks /\ \A k \in 1 .. b.blocks : pt_stack'[k] = k - 1
    BY <1>2 DEF Fits
  <2>3. QED
    BY <1>6, <2>1, <2>2 DEF Fits
<1>8. Agree'
  BY <1>5 DEF Agree
<1>9. QED
  BY <1>7, <1>8

\* A lower shape fits when the slots above it are gone.
LEMMA DropFits ==
  ASSUME SvmTypeOK, image' = image, pt_stack' = pt_stack, stack' = stack,
         NEW a \in Shapes, NEW b \in Shapes, Fits(a),
         NEW n \in Nat, Drops(a, n, b), sp' = sp - n
  PROVE  Fits(b)'
<1>1. /\ a.blocks \in Nat /\ Len(a.tags) \in Nat /\ b.blocks = a.blocks /\ Len(b.tags) \in Nat
      /\ n <= Len(a.tags) /\ Len(b.tags) = Len(a.tags) - n /\ sp = a.blocks + Len(a.tags)
      /\ sp <= image.stack_size /\ image.stack_size \in Nat
  BY DEF Shapes, Drops, Fits, SvmTypeOK, Image
<1>2. sp' = b.blocks + Len(b.tags) /\ sp' <= image'.stack_size
  BY <1>1
<1>3. Len(pt_stack') = b.blocks /\ \A k \in 1 .. b.blocks : pt_stack'[k] = k - 1
  BY <1>1 DEF Fits
<1>4. \A k \in 1 .. Len(b.tags) : Fit(b.tags[k], stack'[b.blocks + k - 1])
  <2>1. \A k \in 1 .. Len(b.tags) : k \in 1 .. Len(a.tags) - n /\ k \in 1 .. Len(a.tags)
    BY <1>1
  <2>2. QED
    BY <1>1, <2>1 DEF Fits, Drops
<1>5. QED
  BY <1>2, <1>3, <1>4 DEF Fits

LEMMA TopFits ==
  ASSUME SvmTypeOK, NEW a \in Shapes, Fits(a), NEW k \in Nat, k >= 1, NEW t, TopIs(a, k, t)
  PROVE  Top(k).t = t /\ CanPop(k) /\ sp - k < image.stack_size
<1>1. /\ a.blocks \in Nat /\ Len(a.tags) \in Nat /\ k <= Len(a.tags)
      /\ sp = a.blocks + Len(a.tags) /\ sp <= image.stack_size /\ image.stack_size \in Nat
  BY DEF Shapes, Fits, TopIs, SvmTypeOK, Image
<1> DEFINE i == Len(a.tags) - k + 1
<1>2. i \in 1 .. Len(a.tags) /\ a.blocks + i - 1 = sp - k
  BY <1>1
<1>3. a.tags[i].t = t
  BY DEF TopIs
<1> HIDE DEF i
<1>4. Fit(a.tags[i], stack[a.blocks + i - 1])
  BY <1>2 DEF Fits
<1>5. Top(k).t = t
  BY <1>2, <1>3, <1>4 DEF Fit, Top
<1>6. CanPop(k) /\ sp - k < image.stack_size
  BY <1>1 DEF CanPop
<1>7. QED
  BY <1>5, <1>6

-----------------------------------------------------------------------------
(* The families of instructions.                                             *)

LEMMA Families ==
  /\ ConstantPushes = {1, 2} /\ StaticPushes = {9, 10} /\ StaticPops = {11, 12}
  /\ LogicalOpcodes = {41, 42} /\ UnaryOpcodes = {23, 24, 25, 26, 27, 28, 43}
  /\ Op.pop = 44 /\ Op.push_function = 45 /\ Op.invoke = 46 /\ Op.goto = 48 /\ Op.label = 49
  /\ Op.push_stack_pointer = 5 /\ Op.pop_stack_pointer = 8
BY DEF Op, ConstantPushes, StaticPushes, StaticPops, LogicalOpcodes, UnaryOpcodes

LEMMA MembersOf ==
  /\ MemberOf(1) = "int" /\ MemberOf(2) = "double" /\ MemberOf(9) = "int" /\ MemberOf(10) = "double"
  /\ MemberOf(11) = "int" /\ MemberOf(12) = "double"
BY DEF Op, MemberOf

\* The families apart, by number.
LEMMA FamiliesApart ==
  ASSUME NEW op
  PROVE  /\ op \in ConstantPushes \cup StaticPushes <=> op \in {1, 2, 9, 10}
         /\ op \in StaticPops \cup {Op.pop, Op.goto} <=> op \in {11, 12, 44, 48}
         /\ op \in LogicalOpcodes <=> op \in {41, 42}
         /\ op \in UnaryOpcodes <=> op \in {23, 24, 25, 26, 27, 28, 43}
BY Families

LEMMA BinaryApart ==
  \A op \in Int : op \in BinaryOpcodes <=> (op >= 13 /\ op <= 22) \/ (op >= 29 /\ op <= 40)
BY DEF BinaryOpcodes

LEMMA AfterPush ==
  ASSUME NEW op \in Int, NEW arg, NEW a, op \in {1, 2, 9, 10}
  PROVE  After(op, arg, a) = Replace(a, 0, <<NumberOf(MemberOf(op))>>)
BY Families, FamiliesApart, BinaryApart, SMTT(60) DEF After

LEMMA AfterPop ==
  ASSUME NEW op \in Int, NEW arg, NEW a, op \in {11, 12, 44, 48}
  PROVE  After(op, arg, a) = Replace(a, 1, <<>>)
BY Families, FamiliesApart, BinaryApart, SMTT(60) DEF After

LEMMA AfterFunction ==
  ASSUME NEW op \in Int, NEW arg, NEW a, op = 45
  PROVE  After(op, arg, a) = Replace(a, 0, <<FunctionOf(arg)>>)
BY Families, FamiliesApart, BinaryApart, SMTT(60) DEF After

LEMMA AfterInvoke ==
  ASSUME NEW op \in Int, NEW arg, NEW a, op = 46
  PROVE  After(op, arg, a) = Replace(a, Len(ArgsOf(a)) + 1, <<NumberOf("int")>>)
BY Families, FamiliesApart, BinaryApart, SMTT(60) DEF After

LEMMA AfterBegin ==
  ASSUME NEW op \in Int, NEW arg, NEW a, op = 5
  PROVE  After(op, arg, a) = Bare(a.blocks + 1)
BY Families, FamiliesApart, BinaryApart, SMTT(60) DEF After

LEMMA AfterEnd ==
  ASSUME NEW op \in Int, NEW arg, NEW a, op = 8
  PROVE  After(op, arg, a) = Bare(a.blocks - 1)
BY Families, FamiliesApart, BinaryApart, SMTT(60) DEF After

LEMMA AfterLabel ==
  ASSUME NEW op \in Int, NEW arg, NEW a, op = 49
  PROVE  After(op, arg, a) = a
BY Families, FamiliesApart, BinaryApart, SMTT(60) DEF After

LEMMA AfterBinary ==
  ASSUME NEW op \in Int, NEW arg, NEW a, op \in BinaryOpcodes
  PROVE  After(op, arg, a) = Replace(a, 2, <<NumberOf(BinaryTo(op))>>)
BY Families, FamiliesApart, BinaryApart, SMTT(60) DEF After

LEMMA AfterLogical ==
  ASSUME NEW op \in Int, NEW arg, NEW a, op \in {41, 42}
  PROVE  After(op, arg, a) = Replace(a, 2, <<NumberOf("int")>>)
BY Families, FamiliesApart, BinaryApart, SMTT(60) DEF After

LEMMA AfterUnary ==
  ASSUME NEW op \in Int, NEW arg, NEW a, op \in {23, 24, 25, 26, 27, 28, 43}
  PROVE  After(op, arg, a) = Replace(a, 1, <<NumberOf(UnaryTo(op))>>)
BY Families, FamiliesApart, BinaryApart, SMTT(60) DEF After

-----------------------------------------------------------------------------
(* Each instruction takes the machine from the shape it finds to the next.   *)

\* The operand of the instruction at pc.
ArgNow == IF Opcode \in WithOperand THEN Arg ELSE 0
Steps(a, b) == /\ a \in Shapes /\ b \in Shapes /\ Fits(a) /\ Agree /\ Room(image, b)
               /\ Allowed(image, Opcode, ArgNow, a) /\ b = After(Opcode, ArgNow, a)
Goes(b) == mode' = "run" /\ Fits(b)' /\ Agree'

LEMMA OperandNow ==
  /\ Opcode \in {1, 2, 9, 10, 11, 12, 45, 48, 49} => ArgNow = Arg
  /\ Opcode \in {1, 2, 9, 10, 11, 12, 45} => pc + 1 + OpSize(Opcode) = pc + 1 + 2
BY DEF ArgNow, WithOperand, OpSize

LEMMA OpcodeInt == ASSUME SvmTypeOK PROVE Opcode \in Int /\ Arg \in Nat
BY BytesTyped DEF Byte, UINT8_MAX

\* There is room for a slot more, when the next shape has one more.
LEMMA RoomForOne ==
  ASSUME SvmTypeOK, NEW a \in Shapes, NEW b \in Shapes, Fits(a), Room(image, b), NEW s, Puts(a, 0, s, b)
  PROVE  sp < image.stack_size
<1>1. /\ a.blocks \in Nat /\ Len(a.tags) \in Nat /\ b.blocks = a.blocks
      /\ Len(b.tags) = Len(a.tags) - 0 + 1 /\ sp = a.blocks + Len(a.tags)
  BY DEF Shapes, Puts, Fits
<1>2. b.blocks + Len(b.tags) <= image.stack_size /\ image.stack_size \in Nat
  BY DEF Room, SvmTypeOK, Image
<1>3. QED
  BY <1>1, <1>2

\* A value replaces n slots.
LEMMA StoreGoes ==
  ASSUME SvmTypeOK, mode = "run", NEW a, NEW b, Steps(a, b), NEW n \in Nat, NEW s, NEW v,
         Puts(a, n, s, b), Fit(s, v), Store(n, v.t, v), Advance, UNCHANGED <<pt_stack, globals>>
  PROVE  Goes(b)
<1>1. /\ a \in Shapes /\ b \in Shapes /\ Fits(a) /\ Agree /\ Room(image, b)
      /\ image' = image /\ mode' = "run"
  BY DEF Steps, Advance
<1>2. /\ a.blocks \in Nat /\ Len(a.tags) \in Nat /\ b.blocks = a.blocks
      /\ Len(b.tags) = Len(a.tags) - n + 1 /\ sp = a.blocks + Len(a.tags)
  BY <1>1 DEF Shapes, Puts, Fits
<1>3. b.blocks + Len(b.tags) <= image.stack_size /\ image.stack_size \in Nat
  BY <1>1 DEF Room, SvmTypeOK, Image
<1>4. sp - n < image.stack_size
  BY <1>2, <1>3
<1>5. Fits(b)' /\ Agree'
  BY <1>1, <1>4, StoreFits
<1>6. QED
  BY <1>1, <1>5 DEF Goes

\* The slots above are gone.
LEMMA DropGoes ==
  ASSUME SvmTypeOK, NEW a, NEW b, Steps(a, b), NEW n \in Nat, Drops(a, n, b), Drop(n),
         image' = image, UNCHANGED <<pt_stack, globals>>
  PROVE  Fits(b)' /\ Agree'
<1>1. Fits(b)'
  BY DropFits DEF Steps, Drop
<1>2. Agree'
  BY DEF Steps, Drop, Agree
<1>3. QED
  BY <1>1, <1>2

LEMMA PushConstantFits ==
  ASSUME SvmTypeOK, PushConstant, NEW a, NEW b, Steps(a, b)
  PROVE  Goes(b)
<1> DEFINE t == IF Opcode = Op.push_int THEN "int" ELSE "double"
           c == image.constant_pool[Arg + 1]
<1>1. Opcode \in {1, 2} /\ Opcode \in Int /\ mode = "run" /\ MemberOf(Opcode) = t
  BY OpcodeInt DEF PushConstant, Running, MemberOf, Op
<1>2. ArgNow = Arg
  BY <1>1, OperandNow
<1>3. Arg < Len(image.constant_pool) /\ c.t = t
  BY <1>1, <1>2, Families DEF Steps, Allowed
<1>4. Puts(a, 0, NumberOf(t), b)
  <2>1. After(Opcode, ArgNow, a) = Replace(a, 0, <<NumberOf(MemberOf(Opcode))>>)
    BY <1>1, AfterPush
  <2>2. b = Replace(a, 0, <<NumberOf(t)>>) /\ Len(a.tags) \in Nat
    BY <1>1, <2>1 DEF Steps, Shapes
  <2>3. QED
    BY <2>2, ReplacePuts DEF Steps
<1>5. sp < image.stack_size
  BY <1>4, RoomForOne DEF Steps
<1>6. As(t, c) = c
  BY <1>3 DEF As
<1>7. Store(0, t, c) /\ Advance /\ UNCHANGED <<pt_stack, globals>>
  BY <1>3, <1>5, <1>6 DEF PushConstant
<1> HIDE DEF t, c
<1>8. Fit(NumberOf(t), c) /\ Store(0, c.t, c)
  BY <1>3, <1>7 DEF Fit, NumberOf
<1>9. QED
  BY <1>1, <1>4, <1>7, <1>8, StoreGoes

LEMMA PushStaticFits ==
  ASSUME SvmTypeOK, PushStatic, NEW a, NEW b, Steps(a, b)
  PROVE  Goes(b)
<1> DEFINE t == IF Opcode = Op.push_static_int THEN "int" ELSE "double"
           c == globals[Arg + 1]
<1>1. Opcode \in {9, 10} /\ Opcode \in Int /\ mode = "run" /\ MemberOf(Opcode) = t
  BY OpcodeInt DEF PushStatic, Running, MemberOf, Op
<1>2. ArgNow = Arg
  BY <1>1, OperandNow
<1>3. Arg < Len(image.types) /\ image.types[Arg + 1] = t /\ Len(globals) = Len(image.types)
  BY <1>1, <1>2, Families DEF Steps, Allowed, Agree
<1>4. c.t = t
  <2>1. Arg + 1 \in 1 .. Len(image.types)
    BY <1>3, OpcodeInt DEF SvmTypeOK, Image
  <2>2. QED
    BY <1>3, <2>1 DEF Agree, Steps
<1>5. Puts(a, 0, NumberOf(t), b)
  <2>1. After(Opcode, ArgNow, a) = Replace(a, 0, <<NumberOf(MemberOf(Opcode))>>)
    BY <1>1, AfterPush
  <2>2. b = Replace(a, 0, <<NumberOf(t)>>) /\ Len(a.tags) \in Nat
    BY <1>1, <2>1 DEF Steps, Shapes
  <2>3. QED
    BY <2>2, ReplacePuts DEF Steps
<1>6. sp < image.stack_size
  BY <1>5, RoomForOne DEF Steps
<1>7. As(t, c) = c
  BY <1>4 DEF As
<1>8. Store(0, t, c) /\ Advance /\ UNCHANGED <<pt_stack, globals>>
  BY <1>3, <1>6, <1>7 DEF PushStatic
<1> HIDE DEF t, c
<1>9. Fit(NumberOf(t), c) /\ Store(0, c.t, c)
  BY <1>4, <1>8 DEF Fit, NumberOf
<1>10. QED
  BY <1>1, <1>5, <1>8, <1>9, StoreGoes

LEMMA PushFunctionFits ==
  ASSUME SvmTypeOK, PushFunction, NEW a, NEW b, Steps(a, b)
  PROVE  Goes(b)
<1>1. Opcode = 45 /\ Opcode \in Int /\ mode = "run" /\ ArgNow = Arg
  BY Families, OpcodeInt, OperandNow DEF PushFunction, Running
<1>2. Puts(a, 0, FunctionOf(Arg), b)
  <2>1. After(Opcode, ArgNow, a) = Replace(a, 0, <<FunctionOf(ArgNow)>>)
    BY <1>1, AfterFunction
  <2>2. b = Replace(a, 0, <<FunctionOf(Arg)>>) /\ Len(a.tags) \in Nat
    BY <1>1, <2>1 DEF Steps, Shapes
  <2>3. QED
    BY <2>2, ReplacePuts DEF Steps
<1>3. sp < image.stack_size
  BY <1>2, RoomForOne DEF Steps
<1>4. Store(0, "int", IntVal(Arg)) /\ Advance /\ UNCHANGED <<pt_stack, globals>>
  BY <1>3 DEF PushFunction
<1>5. Fit(FunctionOf(Arg), IntVal(Arg)) /\ IntVal(Arg).t = "int"
  BY DEF Fit, FunctionOf, IntVal
<1>6. Store(0, IntVal(Arg).t, IntVal(Arg))
  BY <1>4, <1>5
<1>7. QED
  BY <1>1, <1>2, <1>4, <1>5, <1>6, StoreGoes

LEMMA PopStaticFits ==
  ASSUME SvmTypeOK, PopStatic, NEW a, NEW b, Steps(a, b)
  PROVE  Goes(b)
<1> DEFINE t == IF Opcode = Op.pop_static_int THEN "int" ELSE "double"
<1>1. Opcode \in {11, 12} /\ Opcode \in Int /\ mode = "run" /\ MemberOf(Opcode) = t
  BY OpcodeInt DEF PopStatic, Running, MemberOf, Op
<1>2. ArgNow = Arg
  BY <1>1, OperandNow
<1>3. /\ Arg < Len(image.types) /\ image.types[Arg + 1] = t /\ Len(globals) = Len(image.types)
      /\ TopIs(a, 1, t)
  BY <1>1, <1>2, Families DEF Steps, Allowed, Agree
<1> HIDE DEF t
<1>4. Top(1).t = t /\ CanPop(1)
  BY <1>3, TopFits DEF Steps
<1>5. As(t, Top(1)) = Top(1)
  BY <1>4 DEF As
<1>6. Drop(1) /\ Advance /\ pt_stack' = pt_stack /\ globals' = [globals EXCEPT ![Arg + 1] = Top(1)]
  BY <1>3, <1>4, <1>5 DEF PopStatic, t
<1>7. Drops(a, 1, b)
  <2>1. After(Opcode, ArgNow, a) = Replace(a, 1, <<>>)
    BY <1>1, AfterPop
  <2>2. b = Replace(a, 1, <<>>) /\ 1 <= Len(a.tags)
    BY <1>3, <2>1 DEF Steps, TopIs
  <2>3. QED
    BY <2>2, ReplaceDrops DEF Steps
<1>8. Fits(b)'
  BY <1>6, <1>7, DropFits DEF Steps, Drop, Advance
<1>9. Agree'
  <2>1. /\ stack' = stack /\ stack_value_type' = stack_value_type /\ image' = image
    BY <1>6 DEF Drop, Advance
  <2>2. /\ globals \in Seq(Value) /\ Arg + 1 \in 1 .. Len(globals)
        /\ \A i \in 1 .. Len(image.types) : globals[i].t = image.types[i]
    BY <1>3, OpcodeInt DEF SvmTypeOK, Image, Agree, Steps
  <2>3. Len(globals') = Len(globals) /\ globals'[Arg + 1] = Top(1)
        /\ \A i \in 1 .. Len(globals) : i # Arg + 1 => globals'[i] = globals[i]
    BY <1>6, <2>2
  <2>4. \A i \in 1 .. Len(image.types) : globals'[i].t = image.types[i]
    BY <1>3, <1>4, <2>2, <2>3
  <2>5. QED
    BY <1>3, <2>1, <2>3, <2>4 DEF Agree, Steps
<1>10. QED
  BY <1>1, <1>6, <1>8, <1>9 DEF Goes, Advance

LEMMA PopFits ==
  ASSUME SvmTypeOK, PopInstr, NEW a, NEW b, Steps(a, b)
  PROVE  Goes(b)
<1>1. Opcode = 44 /\ Opcode \in Int /\ mode = "run"
  BY Families, OpcodeInt DEF PopInstr, Running
<1>2. Len(a.tags) > 0 /\ Len(a.tags) \in Nat /\ a.blocks \in Nat
  BY <1>1, Families DEF Steps, Allowed, Shapes
<1>3. CanPop(1)
  BY <1>2 DEF CanPop, Steps, Fits
<1>4. Drop(1) /\ Advance /\ UNCHANGED <<pt_stack, globals>>
  BY <1>3 DEF PopInstr
<1>5. Drops(a, 1, b)
  <2>1. After(Opcode, ArgNow, a) = Replace(a, 1, <<>>)
    BY <1>1, AfterPop
  <2>2. b = Replace(a, 1, <<>>) /\ 1 <= Len(a.tags)
    BY <1>2, <2>1 DEF Steps
  <2>3. QED
    BY <2>2, ReplaceDrops DEF Steps
<1>6. QED
  BY <1>1, <1>4, <1>5, DropGoes DEF Goes, Advance

LEMMA LabelFits ==
  ASSUME SvmTypeOK, Label, NEW a, NEW b, Steps(a, b)
  PROVE  Goes(b)
<1>1. Opcode = 49 /\ Opcode \in Int /\ mode = "run"
  BY Families, OpcodeInt DEF Label, Running
<1>2. b = a
  BY <1>1, AfterLabel DEF Steps
<1>3. QED
  BY <1>1, <1>2 DEF Steps, Label, Advance, Goes, Fits, Agree

\* The machine is about to divide by zero.
ZeroDivision == /\ mode = "run" /\ Opcode \in {Op.div_int, Op.div_double, Op.mod_int, Op.mod_double}
                /\ Top(1).v = 0

LEMMA Divisions == {Op.div_int, Op.div_double, Op.mod_int, Op.mod_double} = {19, 20, 21, 22}
BY DEF Op

LEMMA DividingOpcodes ==
  ASSUME NEW op \in BinaryOpcodes, OperatorOf(op) \in {"div", "mod"}
  PROVE  op \in {19, 20, 21, 22}
<1>1. CASE op \in 13 .. 22
  <2>1. CASE op \in {13, 14}
    <3>1. (op - 13) \div 2 + 1 = 1
      BY <2>1
    <3>2. OperatorOf(op) = "add"
      BY <1>1, <3>1 DEF OperatorOf
    <3>3. QED
      BY <3>2
  <2>2. CASE op \in {15, 16}
    <3>1. (op - 13) \div 2 + 1 = 2
      BY <2>2
    <3>2. OperatorOf(op) = "sub"
      BY <1>1, <3>1 DEF OperatorOf
    <3>3. QED
      BY <3>2
  <2>3. CASE op \in {17, 18}
    <3>1. (op - 13) \div 2 + 1 = 3
      BY <2>3
    <3>2. OperatorOf(op) = "mul"
      BY <1>1, <3>1 DEF OperatorOf
    <3>3. QED
      BY <3>2
  <2>4. QED
    BY <1>1, <2>1, <2>2, <2>3
<1>2. CASE op \in 29 .. 40
  <2>1. (op - 29) \div 2 + 1 \in 1 .. 6 /\ ~(op <= 22)
    BY <1>2
  <2>2. \A i \in 1 .. 6 : <<"eq", "ne", "gt", "ge", "lt", "le">>[i] \notin {"div", "mod"}
    OBVIOUS
  <2>3. QED
    BY <1>2, <2>1, <2>2 DEF OperatorOf
<1>3. QED
  BY <1>1, <1>2 DEF BinaryOpcodes

LEMMA BinaryTyped ==
  ASSUME NEW op, NEW t, NEW x, NEW y, x.t = t, y.t = t,
         op \in {"div", "mod"} => y.v # 0
  PROVE  Binary(op, t, x, y).t = IF op \in CompareOps THEN "int" ELSE t
<1>1. CASE op \in CompareOps
  BY <1>1 DEF Binary, Truth, IntVal
<1>2. CASE op \notin CompareOps
  <2>1. Binary(op, t, x, y) = [t |-> t, v |-> Arith(op, t, x.v, y.v)]
    BY <1>2 DEF Binary
  <2>2. QED
    BY <1>2, <2>1
<1>3. QED
  BY <1>1, <1>2

LEMMA BinaryFits ==
  ASSUME SvmTypeOK, BinaryInstr, NEW a, NEW b, Steps(a, b), ~ZeroDivision
  PROVE  Goes(b)
<1> DEFINE op == OperatorOf(Opcode)
           t == OperandType(Opcode)
           u == IF op \in CompareOps THEN "int" ELSE t
           v == Binary(op, t, Top(2), Top(1))
<1>1. Opcode \in BinaryOpcodes /\ Opcode \in Int /\ mode = "run"
  BY OpcodeInt DEF BinaryInstr, Running
<1>2. TopIs(a, 1, t) /\ TopIs(a, 2, t)
  BY <1>1 DEF Steps, Allowed
<1>3. Top(1).t = t /\ Top(2).t = t /\ CanPop(2)
  BY <1>2, TopFits DEF Steps
<1>4. op \in {"div", "mod"} => Top(1).v # 0
  BY <1>1, DividingOpcodes, Divisions DEF ZeroDivision
<1>5. ~DividesByZero(Opcode, Top(1))
  BY <1>1, Divisions DEF ZeroDivision, DividesByZero, IntVal
<1>6. v.t = u
  BY <1>3, <1>4, BinaryTyped
<1>7. Store(2, u, v) /\ Advance /\ UNCHANGED <<pt_stack, globals>>
  BY <1>3, <1>5 DEF BinaryInstr
<1>8. Puts(a, 2, NumberOf(u), b)
  <2>1. After(Opcode, ArgNow, a) = Replace(a, 2, <<NumberOf(BinaryTo(Opcode))>>)
    BY <1>1, AfterBinary
  <2>2. b = Replace(a, 2, <<NumberOf(u)>>) /\ 2 <= Len(a.tags)
    BY <1>2, <2>1 DEF Steps, TopIs, BinaryTo
  <2>3. QED
    BY <2>2, ReplacePuts DEF Steps
<1> HIDE DEF op, t, u, v
<1>9. Fit(NumberOf(u), v) /\ Store(2, v.t, v)
  BY <1>6, <1>7 DEF Fit, NumberOf
<1>10. QED
  BY <1>1, <1>7, <1>8, <1>9, StoreGoes

LEMMA LogicalFits ==
  ASSUME SvmTypeOK, LogicalInstr, NEW a, NEW b, Steps(a, b)
  PROVE  Goes(b)
<1> DEFINE v == Logical(Opcode, Top(2), Top(1))
<1>1. Opcode \in {41, 42} /\ Opcode \in Int /\ mode = "run"
  BY OpcodeInt DEF LogicalInstr, Running, Op
<1>2. TopIs(a, 1, "int") /\ TopIs(a, 2, "int")
  BY <1>1, Families DEF Steps, Allowed
<1>3. Top(1).t = "int" /\ Top(2).t = "int" /\ CanPop(2)
  BY <1>2, TopFits DEF Steps
<1>4. v.t = "int"
  BY <1>3 DEF Logical, Truth, IntVal
<1>5. Store(2, "int", v) /\ Advance /\ UNCHANGED <<pt_stack, globals>>
  BY <1>3 DEF LogicalInstr
<1>6. Puts(a, 2, NumberOf("int"), b)
  <2>1. After(Opcode, ArgNow, a) = Replace(a, 2, <<NumberOf("int")>>)
    BY <1>1, AfterLogical
  <2>2. b = Replace(a, 2, <<NumberOf("int")>>) /\ 2 <= Len(a.tags)
    BY <1>2, <2>1 DEF Steps, TopIs
  <2>3. QED
    BY <2>2, ReplacePuts DEF Steps
<1> HIDE DEF v
<1>7. Fit(NumberOf("int"), v) /\ Store(2, v.t, v)
  BY <1>4, <1>5 DEF Fit, NumberOf
<1>8. QED
  BY <1>1, <1>5, <1>6, <1>7, StoreGoes

LEMMA UnaryTyped ==
  ASSUME NEW op \in {23, 24, 25, 26, 27, 28, 43}, NEW v, v.t = UnaryFrom(op)
  PROVE  UnaryResult(op, v).t = UnaryTo(op)
<1>1. /\ Op.minus_int = 23 /\ Op.minus_double = 24 /\ Op.increment = 25 /\ Op.decrement = 26
      /\ Op.cast_int_to_double = 27 /\ Op.cast_double_to_int = 28 /\ Op.logical_not = 43
  BY DEF Op
<1>2. CASE op = 23
  BY <1>1, <1>2 DEF UnaryFrom, UnaryTo, UnaryResult, Negated
<1>3. CASE op = 24
  BY <1>1, <1>3 DEF UnaryFrom, UnaryTo, UnaryResult, Negated
<1>4. CASE op \in {25, 26}
  <2>1. v.t = "int" /\ UnaryTo(op) = "int" /\ IntVal(1).t = "int"
    BY <1>1, <1>4 DEF UnaryFrom, UnaryTo, IntVal
  <2>a. ASSUME NEW p \in {"add", "sub"} PROVE Binary(p, "int", v, IntVal(1)).t = "int"
    <3>1. p \notin {"div", "mod"}
      OBVIOUS
    <3>2. Binary(p, "int", v, IntVal(1)).t = IF p \in CompareOps THEN "int" ELSE "int"
      BY <2>1, <3>1 DEF Binary, Truth, IntVal
    <3>3. QED
      BY <3>2
  <2>2. \A p \in {"add", "sub"} : Binary(p, "int", v, IntVal(1)).t = "int"
    BY <2>a
  <2>3. UnaryResult(op, v) = Binary("add", "int", v, IntVal(1))
        \/ UnaryResult(op, v) = Binary("sub", "int", v, IntVal(1))
    BY <1>1, <1>4 DEF UnaryResult
  <2>4. QED
    BY <2>1, <2>2, <2>3
<1>5. CASE op = 27
  BY <1>1, <1>5 DEF UnaryFrom, UnaryTo, UnaryResult, AsDouble, DoubleVal
<1>6. CASE op = 28
  BY <1>1, <1>6 DEF UnaryFrom, UnaryTo, UnaryResult, AsInt, IntVal
<1>7. CASE op = 43
  BY <1>1, <1>7 DEF UnaryFrom, UnaryTo, UnaryResult, Truth, IntVal
<1>8. QED
  BY <1>2, <1>3, <1>4, <1>5, <1>6, <1>7

LEMMA UnaryFits ==
  ASSUME SvmTypeOK, UnaryInstr, NEW a, NEW b, Steps(a, b)
  PROVE  Goes(b)
<1> DEFINE v == UnaryResult(Opcode, Top(1))
<1>1. Opcode \in {23, 24, 25, 26, 27, 28, 43} /\ Opcode \in Int /\ mode = "run"
  BY OpcodeInt DEF UnaryInstr, Running, Op
<1>2. TopIs(a, 1, UnaryFrom(Opcode))
  BY <1>1, Families DEF Steps, Allowed
<1>3. Top(1).t = UnaryFrom(Opcode) /\ CanPop(1)
  BY <1>2, TopFits DEF Steps
<1>4. v.t = UnaryTo(Opcode)
  BY <1>1, <1>3, UnaryTyped
<1>5. Store(1, UnaryTo(Opcode), v) /\ Advance /\ UNCHANGED <<pt_stack, globals>>
  BY <1>3 DEF UnaryInstr, UnaryTo
<1>6. Puts(a, 1, NumberOf(UnaryTo(Opcode)), b)
  <2>1. After(Opcode, ArgNow, a) = Replace(a, 1, <<NumberOf(UnaryTo(Opcode))>>)
    BY <1>1, AfterUnary
  <2>2. b = Replace(a, 1, <<NumberOf(UnaryTo(Opcode))>>) /\ 1 <= Len(a.tags)
    BY <1>2, <2>1 DEF Steps, TopIs
  <2>3. QED
    BY <2>2, ReplacePuts DEF Steps
<1> HIDE DEF v
<1>7. Fit(NumberOf(UnaryTo(Opcode)), v) /\ Store(1, v.t, v)
  BY <1>4, <1>5 DEF Fit, NumberOf
<1>8. QED
  BY <1>1, <1>5, <1>6, <1>7, StoreGoes

\* The result of a call is put where its first argument was, or the function:
\* that slot's tag, an int's, is kept.
LEMMA InvokeFits ==
  ASSUME SvmTypeOK, Invoke, NEW a, NEW b, Steps(a, b)
  PROVE  Goes(b)
<1>k. PICK k : k = Len(ArgsOf(a))
  OBVIOUS
<1>f. PICK f : f = Natives[(Top(1).v % 65536) + 1]
  OBVIOUS
<1>v. PICK v : v = IntVal(f.ret)
  OBVIOUS
<1>1. Opcode = 46 /\ Opcode \in Int /\ mode = "run" /\ a \in Shapes /\ Fits(a)
  BY Families, OpcodeInt DEF Invoke, Running, Steps
<1>2. /\ Len(a.tags) > 0 /\ Callee(a) >= 0 /\ Callee(a) % 65536 < Len(Natives)
      /\ TopIs(a, 1, "int") /\ TopIs(a, k + 1, "int")
  BY <1>1, <1>k, Families DEF Steps, Allowed, Callable
<1>3. Top(1).t = "int" /\ CanPop(1)
  BY <1>1, <1>2, TopFits
<1>4. /\ a.tags \in Seq(Members) /\ Len(a.tags) \in Nat /\ a.blocks \in Nat
      /\ sp = a.blocks + Len(a.tags) /\ sp <= image.stack_size /\ image.stack_size \in Nat
  BY <1>1 DEF Shapes, Fits, SvmTypeOK, Image
<1>5. Top(1).v = Callee(a)
  <2>0. Len(a.tags) \in 1 .. Len(a.tags)
    BY <1>2, <1>4
  <2>1. Fit(a.tags[Len(a.tags)], stack[a.blocks + Len(a.tags) - 1])
    BY <1>1, <2>0 DEF Fits
  <2>2. QED
    BY <1>2, <1>4, <2>1 DEF Fit, Callee, Top
<1>6. ArgsOf(a) = f.args
  BY <1>5, <1>f DEF ArgsOf
<1>7. k \in Nat /\ k + 1 <= Len(a.tags)
  <2>1. Callee(a) \in Int
    <3>1. a.tags[Len(a.tags)] \in Members
      BY <1>2, <1>4, ElementOfSeq
    <3>2. QED
      BY <3>1 DEF Callee, Members
  <2>i. PICK i : i = (Callee(a) % 65536) + 1
    OBVIOUS
  <2>2. i \in 1 .. Len(Natives)
    BY <1>2, <2>1, <2>i, NativesAssumption
  <2> DEFINE N == [args : Seq({"int", "double"}), ret : {0, 1}]
  <2>3. Natives[i] \in N
    <3>1. Natives \in Seq(N)
      BY NativesAssumption
    <3> HIDE DEF N
    <3>2. QED
      BY <2>2, <3>1, ElementOfSeq
  <2>4. ArgsOf(a) \in Seq({"int", "double"})
    BY <2>3, <2>i DEF ArgsOf
  <2>5. Len(ArgsOf(a)) \in Nat
    BY <2>4
  <2>6. QED
    BY <1>2, <1>k, <2>5 DEF TopIs
<1>8. /\ sp - 1 - k = sp - (k + 1) /\ sp - 1 - k >= 0 /\ sp - 1 - k \in 0 .. image.stack_size - 1
      /\ sp - (k + 1) + 1 = sp - 1 - k + 1
  <2>m. PICK m \in Nat : m = Len(a.tags)
    BY <1>4
  <2>1. m \in Nat /\ k \in Nat /\ k + 1 <= m /\ sp = a.blocks + m /\ a.blocks \in Nat
        /\ sp <= image.stack_size /\ image.stack_size \in Nat
    BY <1>4, <1>7, <2>m
  <2>2. QED
    BY <2>1
<1>9. /\ stack' = [stack EXCEPT ![sp - (k + 1)] = v] /\ sp' = sp - (k + 1) + 1 /\ Advance
      /\ UNCHANGED <<stack_value_type, pt_stack, globals>>
  <2>1. Top(1).v % 65536 < Len(Natives) /\ sp - 1 - Len(f.args) >= 0
    BY <1>2, <1>5, <1>6, <1>8, <1>k
  <2>2. /\ stack' = [stack EXCEPT ![sp - 1 - Len(f.args)] = v] /\ sp' = sp - 1 - Len(f.args) + 1
        /\ Advance /\ UNCHANGED <<stack_value_type, pt_stack, globals>>
    BY <1>3, <1>f, <1>v, <2>1 DEF Invoke
  <2>3. Len(f.args) = k
    BY <1>6, <1>k
  <2>4. QED
    BY <1>8, <2>2, <2>3
<1>10. stack_value_type' = [stack_value_type EXCEPT ![sp - (k + 1)] = "int"]
  <2>1. Top(k + 1).t = "int"
    BY <1>1, <1>2, <1>7, TopFits
  <2>2. sp - (k + 1) \in 0 .. image.stack_size - 1
    BY <1>8
  <2>3. stack_value_type[sp - (k + 1)] = "int"
    BY <2>1, <2>2 DEF Top, Agree, Steps
  <2>4. stack_value_type \in [0 .. image.stack_size - 1 -> {"int", "double", "junk"}]
    BY <1>1 DEF SvmTypeOK
  <2>5. QED
    BY <1>9, <2>2, <2>3, <2>4
<1>11. Puts(a, k + 1, NumberOf("int"), b)
  <2>1. After(Opcode, ArgNow, a) = Replace(a, k + 1, <<NumberOf("int")>>)
    BY <1>1, <1>k, AfterInvoke
  <2>2. b = Replace(a, k + 1, <<NumberOf("int")>>)
    BY <2>1 DEF Steps
  <2>3. QED
    BY <1>1, <1>7, <2>2, ReplacePuts
<1>12. v.t = "int" /\ Fit(NumberOf("int"), v)
  BY <1>v DEF IntVal, Fit, NumberOf
<1>13. Store(k + 1, v.t, v)
  BY <1>9, <1>10, <1>12 DEF Store
<1>14. k + 1 \in Nat
  BY <1>7
<1>15. QED
  BY <1>1, <1>9, <1>11, <1>12, <1>13, <1>14, StoreGoes

LEMMA PushStackPtFits ==
  ASSUME SvmTypeOK, PushStackPt, NEW a, NEW b, Steps(a, b)
  PROVE  Goes(b)
<1>1. Opcode = 5 /\ Opcode \in Int /\ mode = "run" /\ a \in Shapes /\ Fits(a) /\ Room(image, b)
  BY Families, OpcodeInt DEF PushStackPt, Running, Steps
<1>2. a.tags = <<>> /\ a.blocks \in Nat
  BY <1>1, Families DEF Steps, Allowed, Shapes
<1>3. b = Bare(a.blocks + 1)
  BY <1>1, AfterBegin DEF Steps
<1>4. b.blocks = a.blocks + 1 /\ b.tags = <<>> /\ Len(b.tags) = 0 /\ Len(a.tags) = 0
  BY <1>2, <1>3 DEF Bare
<1>5. /\ sp = a.blocks /\ Len(pt_stack) = a.blocks /\ \A i \in 1 .. a.blocks : pt_stack[i] = i - 1
      /\ a.blocks + 1 <= image.stack_size /\ a.blocks + 1 <= image.pt_stack_size
      /\ image.stack_size \in Nat /\ image.pt_stack_size \in Nat /\ pt_stack \in Seq(Nat)
  BY <1>1, <1>2, <1>4 DEF Fits, Room, SvmTypeOK, Image
<1>6. ~(Len(pt_stack) >= image.stack_size) /\ ~(Len(pt_stack) >= image.pt_stack_size)
  BY <1>2, <1>5
<1>7. /\ pt_stack' = Append(pt_stack, sp) /\ sp' = sp + 1 /\ Advance
      /\ UNCHANGED <<stack, stack_value_type, globals>>
  BY <1>6 DEF PushStackPt
<1>8. Len(pt_stack') = b.blocks /\ \A i \in 1 .. b.blocks : pt_stack'[i] = i - 1
  <2>1. /\ Len(pt_stack') = a.blocks + 1 /\ pt_stack'[a.blocks + 1] = sp
        /\ \A i \in 1 .. a.blocks : pt_stack'[i] = pt_stack[i]
    BY <1>2, <1>5, <1>7
  <2>2. ASSUME NEW i \in 1 .. b.blocks PROVE pt_stack'[i] = i - 1
    <3>1. i = a.blocks + 1 \/ i \in 1 .. a.blocks
      BY <1>2, <1>4
    <3>2. CASE i = a.blocks + 1
      BY <1>2, <1>5, <2>1, <3>2
    <3>3. CASE i \in 1 .. a.blocks
      BY <1>5, <2>1, <3>3
    <3>4. QED
      BY <3>1, <3>2, <3>3
  <2>3. QED
    BY <1>4, <2>1, <2>2
<1>9. Fits(b)'
  <2>1. sp' = b.blocks + Len(b.tags) /\ sp' <= image'.stack_size
    BY <1>2, <1>4, <1>5, <1>7 DEF Advance
  <2>2. QED
    BY <1>4, <1>8, <2>1 DEF Fits
<1>10. Agree'
  BY <1>7 DEF Steps, Agree, Advance
<1>11. QED
  BY <1>1, <1>7, <1>9, <1>10 DEF Goes, Advance

LEMMA PopStackPtFits ==
  ASSUME SvmTypeOK, PopStackPt, NEW a, NEW b, Steps(a, b)
  PROVE  Goes(b)
<1>1. Opcode = 8 /\ Opcode \in Int /\ mode = "run" /\ a \in Shapes /\ Fits(a)
  BY Families, OpcodeInt DEF PopStackPt, Running, Steps
<1>2. a.tags = <<>> /\ a.blocks \in Nat /\ a.blocks > 0
  BY <1>1, Families DEF Steps, Allowed, Shapes
<1>3. b = Bare(a.blocks - 1)
  BY <1>1, AfterEnd DEF Steps
<1>4. b.blocks = a.blocks - 1 /\ b.tags = <<>> /\ Len(b.tags) = 0 /\ Len(a.tags) = 0
  BY <1>2, <1>3 DEF Bare
<1>5. /\ sp = a.blocks /\ Len(pt_stack) = a.blocks /\ \A i \in 1 .. a.blocks : pt_stack[i] = i - 1
      /\ sp <= image.stack_size /\ image.stack_size \in Nat /\ pt_stack \in Seq(Nat)
  BY <1>1, <1>2, <1>4 DEF Fits, SvmTypeOK, Image
<1>6. /\ sp' = a.blocks - 1 /\ pt_stack' = SubSeq(pt_stack, 1, a.blocks - 1) /\ Advance
      /\ UNCHANGED <<stack, stack_value_type, globals>>
  <2>1. pt_stack # <<>> /\ pt_stack[Len(pt_stack)] = a.blocks - 1
    BY <1>2, <1>5
  <2>2. QED
    BY <1>5, <2>1 DEF PopStackPt
<1>7. Len(pt_stack') = b.blocks /\ \A i \in 1 .. b.blocks : pt_stack'[i] = i - 1
  <2>1. \A i \in 1 .. a.blocks - 1 : pt_stack[i] \in Nat
    BY <1>5, ElementOfSeq
  <2>2. a.blocks - 1 \in Nat
    BY <1>2
  <2>3. /\ Len(pt_stack') = a.blocks - 1
        /\ \A i \in 1 .. a.blocks - 1 : pt_stack'[i] = pt_stack[i]
    BY <1>5, <1>6, <2>1, <2>2, SubSeqProperties
  <2>4. QED
    BY <1>2, <1>4, <1>5, <2>3
<1>8. Fits(b)'
  <2>1. sp' = b.blocks + Len(b.tags) /\ sp' <= image'.stack_size
    BY <1>2, <1>4, <1>5, <1>6 DEF Advance
  <2>2. QED
    BY <1>4, <1>7, <2>1 DEF Fits
<1>9. Agree'
  BY <1>6 DEF Steps, Agree, Advance
<1>10. QED
  BY <1>1, <1>6, <1>8, <1>9 DEF Goes, Advance

\* A jump takes its condition from the stack, whether it is taken or not.
LEMMA GotoFits ==
  ASSUME SvmTypeOK, Goto, NEW a, NEW b, Steps(a, b)
  PROVE  /\ Fits(b)' /\ Agree' /\ pc' = pc + 3 /\ image' = image
         /\ mode' = "run" \/ (mode' = "skip" /\ seeking' = Arg)
<1>1. Opcode = 48 /\ Opcode \in Int /\ mode = "run"
  BY Families, OpcodeInt DEF Goto, Running
<1>2. TopIs(a, 1, "int")
  BY <1>1, Families DEF Steps, Allowed
<1>3. CanPop(1)
  BY <1>2, TopFits DEF Steps
<1>4. /\ Drop(1) /\ pc' = pc + 3 /\ image' = image /\ UNCHANGED <<pt_stack, globals>>
      /\ mode' = mode \/ (mode' = "skip" /\ seeking' = Arg)
  BY <1>3 DEF Goto
<1>5. Drops(a, 1, b)
  <2>1. After(Opcode, ArgNow, a) = Replace(a, 1, <<>>)
    BY <1>1, AfterPop
  <2>2. b = Replace(a, 1, <<>>) /\ 1 <= Len(a.tags)
    BY <1>2, <2>1 DEF Steps, TopIs
  <2>3. QED
    BY <2>2, ReplaceDrops DEF Steps
<1>6. QED
  BY <1>1, <1>4, <1>5, DropGoes

-----------------------------------------------------------------------------
(* The machine along the shapes of the code that it runs.                    *)

\* What its state has to do with the shapes T of the places.
Skipping(T) ==
  \E g \in InstrAt(image.code, Op.goto) :
    g < pc /\ seeking = Operand(image.code, g) /\ Fits(T[Behind(image.code, g)])
Held(T) ==
  /\ Agree /\ sp <= image.stack_size /\ mode # "undefined"
  /\ mode = "run"  => Fits(T[pc])
  /\ mode = "skip" => pc < code_size /\ Skipping(T)
  /\ mode = "done" => sp = 0 /\ pt_stack = <<>>
  /\ mode = "exit" => image.code = <<>> \/ seeking \in Nat

LEMMA FitsSame ==
  ASSUME NEW a, Fits(a), UNCHANGED <<image, sp, stack, pt_stack>>
  PROVE  Fits(a)'
BY DEF Fits

LEMMA AgreeSame ==
  ASSUME Agree, UNCHANGED <<image, stack, stack_value_type, globals>>
  PROVE  Agree'
BY DEF Agree

\* The instruction at pc, as the code has it.
LEMMA PlaceFacts ==
  ASSUME CsuaInv, Loaded, pc \in Boundaries(image.code), pc < code_size
  PROVE  /\ pc \in Nat /\ Opcode = image.code[pc + 1] /\ Opcode \in Listed /\ Opcode \in Opcodes
         /\ ArgNow = OperandOf(image.code, pc)
         /\ Opcode \in WithOperand => Arg = Operand(image.code, pc)
         /\ Behind(image.code, pc) = pc + 1 + OpSize(Opcode)
         /\ Behind(image.code, pc) \in Boundaries(image.code)
         /\ Behind(image.code, pc) <= Len(image.code)
<1>1. /\ image.code \in Seq(Byte) /\ Len(image.code) \in Nat /\ Whole(image.code)
      /\ Disassembles(image.code) /\ pc \in Nat /\ code_size = Len(image.code)
  BY LoadedWhole DEF CsuaInv, SvmInv, SvmTypeOK, code_size
<1>2. Opcode = image.code[pc + 1]
  BY <1>1 DEF Opcode, CodeByte
<1>3. Opcode \in Listed /\ Opcode \in Opcodes
  BY <1>1, <1>2, ListedOpcodes DEF Disassembles
<1>4. /\ pc + 1 + OpSize(Opcode) \in Boundaries(image.code)
      /\ pc + 1 + OpSize(Opcode) <= Len(image.code)
  BY <1>3, NextBoundary
<1>5. Behind(image.code, pc) = pc + 1 + OpSize(Opcode)
  BY <1>2 DEF Behind
<1>6. ASSUME Opcode \in WithOperand PROVE Arg = Operand(image.code, pc)
  <2>1. OpSize(Opcode) = 2
    BY <1>6 DEF OpSize
  <2>2. pc + 1 < code_size /\ pc + 2 < code_size /\ pc + 1 + 1 = pc + 2 /\ pc + 2 + 1 = pc + 3
    BY <1>1, <1>4, <2>1
  <2>3. CodeByte(pc + 1) = image.code[pc + 2] /\ CodeByte(pc + 2) = image.code[pc + 3]
    BY <2>2 DEF CodeByte
  <2>4. QED
    BY <2>3 DEF Arg, Operand
<1>7. ArgNow = OperandOf(image.code, pc)
  BY <1>2, <1>6 DEF ArgNow, OperandOf
<1>8. QED
  BY <1>1, <1>2, <1>3, <1>4, <1>5, <1>6, <1>7

\* From a place to the one behind it.
LEMMA PlaceSteps ==
  ASSUME CsuaInv, Loaded, pc \in Boundaries(image.code), pc < code_size,
         NEW T, Follow(T, image), Fits(T[pc]), Agree
  PROVE  Steps(T[pc], T[Behind(image.code, pc)])
<1>1. /\ pc \in Nat /\ Opcode = image.code[pc + 1] /\ ArgNow = OperandOf(image.code, pc)
      /\ Behind(image.code, pc) \in Boundaries(image.code) /\ pc < Len(image.code)
  BY PlaceFacts DEF code_size
<1>2. /\ T[pc] \in Shapes /\ Allowed(image, image.code[pc + 1], OperandOf(image.code, pc), T[pc])
      /\ T[Behind(image.code, pc)] = AfterAt(image.code, pc, T[pc])
  BY <1>1 DEF Follow
<1>3. T[Behind(image.code, pc)] \in Shapes /\ Room(image, T[Behind(image.code, pc)])
  BY <1>1 DEF Follow
<1>4. QED
  BY <1>1, <1>2, <1>3 DEF Steps, AfterAt

\* Any instruction but a taken jump goes on to the place behind it.
LEMMA StepGoes ==
  ASSUME SvmTypeOK, SvmNext, mode = "run", pc < code_size, Opcode \in Listed, ~ZeroDivision,
         NEW a, NEW b, Steps(a, b)
  PROVE  \/ Goes(b)
         \/ /\ Opcode = Op.goto /\ mode' = "skip" /\ pc' = pc + 3 /\ seeking' = Arg
            /\ image' = image /\ Fits(b)' /\ Agree'
<1>1. CASE PushConstant \/ PushStatic \/ PopStatic
  BY <1>1, PushConstantFits, PushStaticFits, PopStaticFits
<1>2. CASE BinaryInstr \/ LogicalInstr \/ UnaryInstr
  BY <1>2, BinaryFits, LogicalFits, UnaryFits
<1>3. CASE PopInstr \/ PushFunction \/ Invoke
  BY <1>3, PopFits, PushFunctionFits, InvokeFits
<1>4. CASE PushStackPt \/ PopStackPt \/ Label
  BY <1>4, PushStackPtFits, PopStackPtFits, LabelFits
<1>5. CASE Goto
  <2>1. Opcode = Op.goto
    BY <1>5 DEF Goto
  <2>2. QED
    BY <1>5, <2>1, GotoFits DEF Goes
<1>6. CASE Unknown
  <2>1. Opcode \in {0, 3, 4, 6, 7, 47} \cup (50 .. 255)
    BY <1>6 DEF Unknown, Op
  <2>2. Opcode \in Opcodes /\ Opcode \notin {3, 4, 6, 7, 47}
    BY DEF Listed, Op
  <2>3. QED
    BY <2>1, <2>2 DEF Opcodes
<1>7. CASE SkipLabel \/ SkipOther \/ ShowStatus
  <2>1. pc \in Nat /\ code_size \in Nat
    BY BytesTyped DEF SvmTypeOK
  <2>2. QED
    BY <1>7, <2>1 DEF SkipLabel, SkipOther, ShowStatus
<1>8. QED
  BY <1>1, <1>2, <1>3, <1>4, <1>5, <1>6, <1>7 DEF SvmNext

LEMMA GotoInside ==
  ASSUME CsuaInv, Loaded, NEW g \in InstrAt(image.code, Op.goto)
  PROVE  /\ g \in Nat /\ g + 3 <= Len(image.code) /\ Behind(image.code, g) = g + 3
         /\ Operand(image.code, g) \in Nat
<1>1. image.code \in Seq(Byte) /\ Len(image.code) \in Nat /\ Whole(image.code)
  BY LoadedWhole
<1>2. Op.goto \in WithOperand
  BY DEF Op, WithOperand
<1>3. g \in Nat /\ g + 3 <= Len(image.code) /\ image.code[g + 1] = Op.goto
  BY <1>1, <1>2, OperandInside
<1>4. Behind(image.code, g) = g + 3
  BY <1>2, <1>3 DEF Behind, OpSize
<1>5. Operand(image.code, g) \in Nat
  <2>1. g + 2 \in 1 .. Len(image.code) /\ g + 3 \in 1 .. Len(image.code)
    BY <1>1, <1>3
  <2>i. PICK i \in 1 .. Len(image.code) : i = g + 2
    BY <2>1
  <2>j. PICK j \in 1 .. Len(image.code) : j = g + 3
    BY <2>1
  <2>2. image.code[i] \in Nat /\ image.code[j] \in Nat
    <3>1. image.code[i] \in Byte /\ image.code[j] \in Byte
      BY <1>1, ElementOfSeq
    <3>2. Byte \subseteq Nat
      BY DEF Byte, UINT8_MAX
    <3>3. QED
      BY <3>1, <3>2
  <2>3. Operand(image.code, g) = image.code[i] * 256 + image.code[j]
    BY <2>i, <2>j DEF Operand
  <2> DEFINE hi == image.code[i]
             lo == image.code[j]
  <2>4. hi \in Nat /\ lo \in Nat /\ Operand(image.code, g) = hi * 256 + lo
    BY <2>2, <2>3
  <2> HIDE DEF hi, lo
  <2>5. QED
    BY <2>4
<1>6. QED
  BY <1>3, <1>4, <1>5

\* An instruction inside the code.
LEMMA HeldRun ==
  ASSUME CsuaInv, Loaded, ExecutesAtBoundaries, mode = "run", pc < code_size, SvmNext,
         ~ZeroDivision, NEW T, Follow(T, image), Held(T)
  PROVE  Held(T)'
<1>b. PICK b : b = T[Behind(image.code, pc)]
  OBVIOUS
<1>1. pc \in Boundaries(image.code) /\ Fits(T[pc]) /\ Agree /\ SvmTypeOK
  BY DEF ExecutesAtBoundaries, Held, CsuaInv, SvmInv
<1>2. /\ pc \in Nat /\ Opcode = image.code[pc + 1] /\ Opcode \in Listed
      /\ Opcode \in WithOperand => Arg = Operand(image.code, pc)
      /\ Behind(image.code, pc) = pc + 1 + OpSize(Opcode)
  BY <1>1, PlaceFacts
<1>3. Steps(T[pc], b)
  BY <1>1, <1>b, PlaceSteps
<1>4. CASE Goes(b)
  <2>1. pc' = Behind(image.code, pc) /\ mode' = "run" /\ image' = image
    BY <1>1, <1>2, <1>4, StepPlace, ImageKept DEF Goes
  <2>2. Fits(b)' /\ Agree'
    BY <1>4 DEF Goes
  <2>3. b = T[pc']
    BY <1>b, <2>1
  <2>4. Fits(T[pc])'
    BY <2>2, <2>3 DEF Fits
  <2>5. sp' <= image'.stack_size
    BY <2>2 DEF Fits
  <2>6. QED
    BY <2>1, <2>2, <2>4, <2>5 DEF Held
<1>5. CASE /\ Opcode = Op.goto /\ mode' = "skip" /\ pc' = pc + 3 /\ seeking' = Arg
           /\ image' = image /\ Fits(b)' /\ Agree'
  <2>1. pc \in InstrAt(image.code, Op.goto)
    BY <1>1, <1>2, <1>5 DEF InstrAt, code_size
  <2>2. Op.goto \in WithOperand
    BY DEF Op, WithOperand
  <2>3. seeking' = Operand(image.code, pc)
    BY <1>2, <1>5, <2>2
  <2>4. PICK l \in InstrAt(image.code, Op.label) : Behind(image.code, pc) <= l
    BY <2>1 DEF Follow
  <2>5. pc' < code_size'
    <3>1. Behind(image.code, pc) = pc + 3
      BY <2>1, GotoInside
    <3>2. l < Len(image.code) /\ l \in Nat /\ Len(image.code) \in Nat
      BY LoadedWhole DEF InstrAt
    <3>3. QED
      BY <1>2, <1>5, <2>4, <3>1, <3>2 DEF code_size
  <2>6. Skipping(T)'
    <3>1. pc < pc' /\ pc \in InstrAt(image'.code, Op.goto) /\ seeking' = Operand(image'.code, pc)
      BY <1>2, <1>5, <2>1, <2>3
    <3>g. PICK g : g = pc
      OBVIOUS
    <3>2. b = T[Behind(image'.code, g)]
      BY <1>b, <1>5, <3>g
    <3>3. Fits(T[Behind(image.code, g)])'
      BY <1>5, <3>2 DEF Fits
    <3>4. QED
      BY <3>1, <3>3, <3>g DEF Skipping
  <2>7. sp' <= image'.stack_size
    BY <1>5 DEF Fits
  <2>8. QED
    BY <1>5, <2>5, <2>6, <2>7 DEF Held
<1>6. QED
  BY <1>1, <1>2, <1>3, <1>4, <1>5, StepGoes

\* The end of the code, where both stacks are empty.
LEMMA HeldShow ==
  ASSUME CsuaInv, Loaded, ExecutesAtBoundaries, mode = "run", ~(pc < code_size), SvmNext,
         NEW T, Follow(T, image), Held(T)
  PROVE  Held(T)'
<1>1. pc \in Boundaries(image.code) /\ Fits(T[pc]) /\ Agree /\ SvmTypeOK /\ sp <= image.stack_size
  BY DEF ExecutesAtBoundaries, Held, CsuaInv, SvmInv
<1>2. pc = Len(image.code)
  <2>1. pc \in 0 .. Len(image.code) /\ Len(image.code) \in Nat
    BY <1>1, LoadedWhole DEF Whole
  <2>2. QED
    BY <2>1 DEF code_size
<1>3. Fits(Bare(0))
  BY <1>1, <1>2 DEF Follow
<1>4. sp = 0 /\ pt_stack = <<>>
  BY <1>1, <1>3 DEF Fits, Bare, SvmTypeOK
<1>5. ASSUME NEW m \in {"done", "exit"}, Stop(m), m = "exit" => image.code = <<>>
      PROVE  Held(T)'
  BY <1>1, <1>4, <1>5, AgreeSame DEF Stop, Held
<1>6. CASE pc = 0
  <2>1. image.code = <<>> /\ Opcode = 205
    <3>1. image.code \in Seq(Byte)
      BY LoadedWhole
    <3>2. image.code = <<>>
      BY <1>2, <1>6, <3>1, EmptySeq
    <3>3. QED
      BY <1>2, <1>6, <3>2 DEF Opcode, CodeByte, code_size, MARK
  <2>2. Opcode \notin Opcodes
    BY <2>1 DEF Opcodes
  <2>3. Unknown
    <3>1. ~ShowStatus /\ ~SkipLabel /\ ~SkipOther
      BY <1>6 DEF ShowStatus, SkipLabel, SkipOther
    <3>2. mode' = "run" => Opcode \in Opcodes
      BY <1>1, StepPlace
    <3>3. /\ ~PushConstant /\ ~PushStatic /\ ~PopStatic /\ ~BinaryInstr /\ ~LogicalInstr /\ ~UnaryInstr
          /\ ~PopInstr /\ ~PushFunction /\ ~Invoke /\ ~PushStackPt /\ ~PopStackPt /\ ~Goto /\ ~Label
      BY <2>1 DEF PushConstant, PushStatic, PopStatic, BinaryInstr, LogicalInstr, UnaryInstr,
         PopInstr, PushFunction, Invoke, PushStackPt, PopStackPt, Goto, Label, Op, BinaryOpcodes
    <3>4. QED
      BY <3>1, <3>3 DEF SvmNext
  <2>4. QED
    <3>1. ~(sp > image.stack_size)
      BY <1>1, <1>4 DEF SvmTypeOK, Image
    <3>2. QED
      BY <1>5, <2>1, <2>3, <3>1 DEF Unknown
<1>7. CASE pc # 0
  <2>1. ShowStatus
    BY <1>7 DEF SvmNext, PushConstant, PushStatic, PopStatic, BinaryInstr, LogicalInstr, UnaryInstr,
         PopInstr, PushFunction, Invoke, PushStackPt, PopStackPt, Goto, Label, Unknown, Running,
         SkipLabel, SkipOther
  <2>2. Stop("done")
    <3>1. 0 .. sp - 1 = {}
      BY <1>4
    <3>2. ~(sp > image.stack_size)
      BY <1>1, <1>4 DEF SvmTypeOK, Image
    <3>3. QED
      BY <2>1, <3>1, <3>2 DEF ShowStatus
  <2>3. QED
    BY <1>5, <2>2
<1>8. QED
  BY <1>6, <1>7

\* The search for a label ends where the stack has the shape behind the goto.
LEMMA HeldSkip ==
  ASSUME CsuaInv, Loaded, LabelsInStep, FewOperands, mode = "skip", SvmNext,
         NEW T, Follow(T, image), Held(T)
  PROVE  Held(T)'
<1>1. /\ Agree /\ SvmTypeOK /\ sp <= image.stack_size /\ pc < code_size /\ pc \in Nat
      /\ image.code \in Seq(Byte) /\ Len(image.code) \in Nat
  BY LoadedWhole DEF Held, CsuaInv, SvmInv, SvmTypeOK
<1>2. PICK g \in InstrAt(image.code, Op.goto) :
        g < pc /\ seeking = Operand(image.code, g) /\ Fits(T[Behind(image.code, g)])
  BY DEF Held, Skipping
<1>3. g \in Nat /\ seeking \in Nat
  BY <1>2, GotoInside
<1>4. ASSUME NEW next \in Nat, next > pc, SkipOn(next)
      PROVE  Held(T)'
  <2>1. /\ pc' = next /\ seeking' = seeking /\ image' = image
        /\ UNCHANGED <<image, sp, stack, stack_value_type, pt_stack, globals>>
        /\ mode' = IF next < code_size THEN "skip" ELSE "exit"
    BY <1>4 DEF SkipOn, SkipTo
  <2>2. Fits(T[Behind(image.code, g)])'
    BY <1>2, <2>1 DEF Fits
  <2>3. Skipping(T)'
    <3>1. g < pc'
      BY <1>1, <1>2, <1>3, <1>4, <2>1
    <3>2. g \in InstrAt(image'.code, Op.goto) /\ seeking' = Operand(image'.code, g)
      BY <1>2, <2>1
    <3>3. QED
      BY <2>2, <3>1, <3>2 DEF Skipping
  <2>4. Agree'
    BY <1>1, <2>1, AgreeSame
  <2>5. QED
    BY <1>1, <1>3, <2>1, <2>3, <2>4 DEF Held, code_size
<1>5. CASE SkipLabel
  <2>1. Opcode = Op.label /\ pc \in Boundaries(image.code)
    BY <1>5, LabelPlace DEF SkipLabel
  <2>2. CASE Arg = seeking
    <3>1. /\ pc' = pc + 3 /\ mode' = "run" /\ image' = image
          /\ UNCHANGED <<image, sp, stack, stack_value_type, pt_stack, globals>>
      BY <1>5, <2>2 DEF SkipLabel, SkipTo
    <3>2. /\ Opcode = image.code[pc + 1] /\ Opcode \in WithOperand /\ Arg = Operand(image.code, pc)
          /\ ArgNow = OperandOf(image.code, pc) /\ Behind(image.code, pc) = pc + 3
      <4>1. Opcode \in WithOperand
        BY <2>1 DEF Op, WithOperand
      <4>2. OpSize(Opcode) = 2
        BY <4>1 DEF OpSize
      <4>3. QED
        BY <1>1, <2>1, <4>1, <4>2, PlaceFacts
    <3>3. pc \in InstrAt(image.code, Op.label)
      BY <1>1, <2>1, <3>2 DEF InstrAt, code_size
    <3>4. T[pc] = T[Behind(image.code, g)]
      BY <1>2, <2>2, <3>2, <3>3 DEF Follow
    <3>5. T[pc + 3] = T[pc]
      <4>1. T[Behind(image.code, pc)] = AfterAt(image.code, pc, T[pc])
        BY <1>1, <2>1 DEF Follow, code_size
      <4>2. AfterAt(image.code, pc, T[pc]) = T[pc]
        <5>1. Opcode \in Int /\ Opcode = 49
          BY <2>1, <1>1, OpcodeInt DEF Op
        <5>2. QED
          BY <3>2, <5>1, AfterLabel DEF AfterAt
      <4>3. QED
        BY <3>2, <4>1, <4>2
    <3>6. Fits(T[pc])'
      <4>1. T[pc'] = T[Behind(image.code, g)]
        BY <3>1, <3>4, <3>5
      <4>2. QED
        BY <1>2, <3>1, <4>1 DEF Fits
    <3>7. Agree'
      BY <1>1, <3>1, AgreeSame
    <3>8. QED
      BY <1>1, <3>1, <3>6, <3>7 DEF Held
  <2>3. CASE Arg # seeking
    <3>1. SkipOn(pc + 3)
      BY <1>5, <2>3 DEF SkipLabel
    <3>2. QED
      BY <1>1, <1>4, <3>1
  <2>4. QED
    BY <2>2, <2>3
<1>6. CASE SkipOther
  <2>1. InTable(Opcode)
    <3>1. Tidy(image.code)
      BY DEF CsuaInv, TidyCode, Loaded, Executable
    <3>2. Opcode = image.code[pc + 1] /\ pc + 1 \in DOMAIN image.code
      BY <1>1 DEF Opcode, CodeByte, code_size
    <3>3. PICK j \in DOMAIN image.code : j = pc + 1
      BY <3>2
    <3>4. QED
      BY <3>1, <3>2, <3>3 DEF Tidy
  <2> DEFINE k == 1 + (IF SSize(Opcode) >= 1 THEN 2 * SSize(Opcode) ELSE 0)
  <2>2. k \in 1 .. 3
    BY SizesTyped
  <2>3. pc + 1 + (IF SSize(Opcode) >= 1 THEN 2 * SSize(Opcode) ELSE 0) = pc + k
    BY <1>1, SizesTyped
  <2>4. SkipOn(pc + k)
    BY <1>6, <2>1, <2>3 DEF SkipOther
  <2> HIDE DEF k
  <2>5. pc + k \in Nat /\ pc + k > pc
    BY <1>1, <2>2
  <2>6. QED
    BY <1>4, <2>4, <2>5
<1>7. SkipLabel \/ SkipOther
  BY DEF SvmNext, PushConstant, PushStatic, PopStatic, BinaryInstr, LogicalInstr, UnaryInstr,
         PopInstr, PushFunction, Invoke, PushStackPt, PopStackPt, Goto, Label, Unknown, Running,
         ShowStatus
<1>8. QED
  BY <1>5, <1>6, <1>7

\* Along CsuaInv and AtBoundary.
ShapedInv ==
  /\ mode = "idle" => sp = 0 /\ globals = <<>>
  /\ FewOperands /\ Shaped(Executable) => mode # "undefined"
  /\ Loaded /\ FewOperands /\ Shaped(image) => Held(ShapesOf(image))

LEMMA ShapedInit == CsuaInit => ShapedInv
<1> SUFFICES ASSUME CsuaInit PROVE ShapedInv
  OBVIOUS
<1>1. sp = 0 /\ globals = <<>> /\ mode = "idle"
  BY DEF CsuaInit, SvmIdle
<1>2. QED
  BY <1>1 DEF ShapedInv, Loaded

LEMMA HeldLoad ==
  ASSUME NEW img \in Image, Load(img), NEW T, Follow(T, img)
  PROVE  Held(T)'
<1>1. /\ image' = img /\ pc' = 0 /\ sp' = 0 /\ pt_stack' = <<>> /\ mode' = "run"
      /\ stack' = [i \in 0 .. img.stack_size - 1 |-> Junk]
      /\ stack_value_type' = [i \in 0 .. img.stack_size - 1 |-> "junk"]
      /\ globals' = [i \in DOMAIN img.types |-> [t |-> img.types[i], v |-> 0]]
  BY DEF Load
<1>2. img.stack_size \in Nat /\ img.types \in Seq({"int", "double"})
  BY DEF Image
<1>3. Fits(Bare(0))'
  BY <1>1, <1>2 DEF Fits, Bare
<1>4. Fits(T[pc])'
  <2>1. T[pc'] = Bare(0)
    BY <1>1 DEF Follow
  <2>2. QED
    BY <1>3, <2>1 DEF Fits
<1>5. Agree'
  <2>1. \A i \in 0 .. img.stack_size - 1 : stack_value_type'[i] = stack'[i].t
    BY <1>1 DEF Junk
  <2>2. DOMAIN img.types = 1 .. Len(img.types) /\ Len(img.types) \in Nat
    BY <1>2
  <2>3. Len(globals') = Len(img.types) /\ \A i \in 1 .. Len(img.types) : globals'[i].t = img.types[i]
    BY <1>1, <2>2
  <2>4. QED
    BY <1>1, <2>1, <2>3 DEF Agree
<1>6. QED
  BY <1>1, <1>2, <1>4, <1>5 DEF Held

LEMMA HeldExecute ==
  ASSUME CsuaInv, AtBoundary, FewOperands, Execute, ~ZeroDivision, NEW T, Follow(T, image), Held(T)
  PROVE  Held(T)'
<1>1. Loaded /\ SvmNext /\ LabelsInStep /\ ExecutesAtBoundaries
  BY ExecuteMoves, FewInStep DEF AtBoundary
<1>2. mode \in {"run", "skip"}
  BY <1>1, SvmMoves
<1>3. QED
  BY <1>1, <1>2, HeldRun, HeldShow, HeldSkip

LEMMA ShapedNext ==
  ASSUME CsuaInv, AtBoundary, ShapedInv, [CsuaNext]_csuaVars, ~ZeroDivision
  PROVE  ShapedInv'
<1>1. CASE Execute
  <2>1. /\ Loaded /\ SvmNext /\ image' = image /\ UNCHANGED codegenVars /\ mode' # "idle"
        /\ image = Executable
    BY <1>1, ExecuteMoves, SvmNextOK DEF Execute, CsuaInv, Sound, Loaded
  <2>2. Executable' = Executable /\ (FewOperands' => FewOperands)
    BY <2>1 DEF Executable, FewOperands, codegenVars, handlerVars
  <2>3. ASSUME FewOperands, Shaped(image)
        PROVE  Held(ShapesOf(image))'
    <3>2. PICK T : T = ShapesOf(image)
      OBVIOUS
    <3>3. Held(T) /\ Follow(T, image)
      BY <2>1, <2>3, <3>2 DEF ShapedInv, Shaped
    <3>4. Held(T)'
      BY <1>1, <2>3, <3>3, HeldExecute
    <3>5. T = ShapesOf(image')
      BY <2>1, <3>2
    <3>6. QED
      BY <3>4, <3>5 DEF Held, Skipping
  <2>4. FewOperands' /\ Shaped(Executable') => mode' # "undefined"
    BY <2>1, <2>2, <2>3 DEF Held
  <2>5. FewOperands' /\ Shaped(image') => Held(ShapesOf(image))'
    BY <2>1, <2>2, <2>3
  <2>6. QED
    BY <2>1, <2>4, <2>5 DEF ShapedInv
<1>2. CASE Compile
  <2>1. mode = "idle" /\ UNCHANGED svmVars
    BY <1>2 DEF Compile
  <2>2. QED
    BY <2>1 DEF svmVars, ShapedInv, Loaded
<1>3. CASE RunExecutable
  <2>1. /\ mode = "idle" /\ UNCHANGED codegenVars
        /\ IF CountsInTable(buf.code) THEN Load(Executable) ELSE Undefined
    BY <1>3 DEF RunExecutable
  <2>2. Executable' = Executable /\ (FewOperands' => FewOperands)
    BY <2>1 DEF Executable, FewOperands, codegenVars, handlerVars
  <2>3. CASE Load(Executable)
    <3>1. mode' = "run" /\ image' = Executable
      BY <2>3 DEF Load
    <3>2. ASSUME Shaped(Executable)
          PROVE  Held(ShapesOf(image))'
      <4>1. PICK T : T = ShapesOf(Executable)
        OBVIOUS
      <4>i. PICK img : img = Executable
        OBVIOUS
      <4>2. Follow(T, img) /\ img \in Image /\ Load(img)
        BY <2>3, <3>2, <4>1, <4>i, ExecutableTyped DEF Shaped, CsuaInv, CodegenInv
      <4>3. Held(T)'
        BY <4>2, HeldLoad
      <4>4. T = ShapesOf(image')
        BY <3>1, <4>1
      <4>5. QED
        BY <4>3, <4>4 DEF Held, Skipping
    <3>3. QED
      BY <2>2, <3>1, <3>2 DEF ShapedInv
  <2>4. CASE ~CountsInTable(buf.code)
    <3>1. mode' = "undefined" /\ image' = image /\ UNCHANGED <<sp, globals>>
      BY <2>1, <2>4 DEF Undefined, Stop
    <3>2. ~FewOperands
      <4>1. buf.code \in Seq(Byte)
        BY DEF CsuaInv, CodegenInv, TypeOK
      <4>2. QED
        BY <2>4, <4>1 DEF CsuaInv, TidyCode, Tidy, CountsInTable
    <3>3. QED
      BY <2>2, <3>1, <3>2 DEF ShapedInv
  <2>5. QED
    BY <2>1, <2>3, <2>4
<1>4. CASE UNCHANGED csuaVars
  <2>1. UNCHANGED codegenVars /\ UNCHANGED svmVars
    BY <1>4 DEF csuaVars
  <2>2. /\ Executable' = Executable /\ (FewOperands' => FewOperands) /\ (Loaded' => Loaded)
        /\ image' = image /\ UNCHANGED <<mode, sp, globals>>
    BY <2>1 DEF Executable, FewOperands, codegenVars, handlerVars, svmVars, Loaded, Generated
  <2>3. Held(ShapesOf(image)) => Held(ShapesOf(image))'
    <3>1. PICK T : T = ShapesOf(image)
      OBVIOUS
    <3>2. Held(T) => Held(T)'
      BY <2>1 DEF svmVars, Held, Skipping, Fits, Agree, code_size
    <3>3. T = ShapesOf(image')
      BY <2>2, <3>1
    <3>4. QED
      BY <3>1, <3>2, <3>3 DEF Held, Skipping
  <2>4. QED
    BY <2>2, <2>3 DEF ShapedInv
<1>5. QED
  BY <1>1, <1>2, <1>3, <1>4 DEF CsuaNext, Ended

LEMMA ShapedRuns ==
  ASSUME CsuaInv, ShapedInv, Generated, FewOperands, Shaped(Executable)
  PROVE  /\ NeverUndefined /\ StacksEmptyAtEnd /\ GlobalsTyped /\ TagsMatchValues
         /\ buf.code # <<>> => ExitsOnlySkipping
<1>1. outcome = "running" /\ Disassembles(buf.code) /\ mode # "undefined"
  BY DEF Generated, CsuaInv, PairingInv, Readable, ShapedInv
<1>2. CASE mode = "idle"
  <2>1. sp = 0 /\ globals = <<>>
    BY <1>2 DEF ShapedInv
  <2>2. 0 .. sp - 1 = {} /\ DOMAIN globals = {}
    BY <2>1
  <2>3. QED
    BY <1>1, <1>2, <2>2 DEF NeverUndefined, StacksEmptyAtEnd, GlobalsTyped, TagsMatchValues,
       ExitsOnlySkipping
<1>3. CASE mode # "idle"
  <2>1. Loaded /\ image = Executable /\ SvmTypeOK
    BY <1>1, <1>3 DEF CsuaInv, Waiting, Loaded, SvmInv
  <2>2. Held(ShapesOf(image))
    BY <2>1 DEF ShapedInv
  <2>3. /\ Agree /\ sp <= image.stack_size /\ (mode = "done" => sp = 0 /\ pt_stack = <<>>)
        /\ (mode = "exit" => image.code = <<>> \/ seeking \in Nat)
    BY <2>2 DEF Held
  <2>4. GlobalsTyped
    <3>1. DOMAIN globals = 1 .. Len(globals)
      BY <2>1 DEF SvmTypeOK
    <3>2. QED
      BY <2>3, <3>1 DEF Agree, GlobalsTyped
  <2>5. TagsMatchValues
    <3>1. image.stack_size \in Nat /\ sp \in Nat
      BY <2>1 DEF SvmTypeOK, Image
    <3>2. \A i \in 0 .. sp - 1 : i \in 0 .. image.stack_size - 1
      BY <2>3, <3>1
    <3>3. QED
      BY <2>3, <3>2 DEF Agree, TagsMatchValues
  <2>6. buf.code # <<>> => ExitsOnlySkipping
    <3>1. image.code = buf.code
      BY <2>1 DEF Executable
    <3>2. \A n \in Nat : n # NoLabel
      BY DEF NoLabel
    <3>3. QED
      BY <1>1, <2>3, <3>1, <3>2 DEF ExitsOnlySkipping
  <2>7. QED
    BY <1>1, <2>3, <2>4, <2>5, <2>6 DEF NeverUndefined, StacksEmptyAtEnd
<1>4. QED
  BY <1>2, <1>3

\* Whatever branches it takes, code that has its shapes keeps the machine inside
\* its arrays, every variable at its type and every tag true to its slot, ends
\* with both stacks empty and gives up only in search of a label: no unchecked
\* access of svm.c:360-450 goes astray, unless the program divides by zero.
THEOREM ShapedCodeRunsWell ==
  CsuaSpec /\ []~ZeroDivision =>
    [](Generated /\ FewOperands /\ Shaped(Executable) =>
         /\ NeverUndefined /\ StacksEmptyAtEnd /\ GlobalsTyped /\ TagsMatchValues
         /\ buf.code # <<>> => ExitsOnlySkipping)
<1>1. CsuaInit => CsuaInv /\ AtBoundary /\ ShapedInv
  BY CsuaInitOK, BoundaryInit, ShapedInit
<1>2. CsuaInv /\ AtBoundary /\ ShapedInv /\ [CsuaNext]_csuaVars /\ ~ZeroDivision
        => CsuaInv' /\ AtBoundary' /\ ShapedInv'
  BY CsuaNextOK, BoundaryNext, ShapedNext
<1>3. CsuaInv /\ ShapedInv =>
        (Generated /\ FewOperands /\ Shaped(Executable) =>
           /\ NeverUndefined /\ StacksEmptyAtEnd /\ GlobalsTyped /\ TagsMatchValues
           /\ buf.code # <<>> => ExitsOnlySkipping)
  BY ShapedRuns
<1>4. QED
  BY <1>1, <1>2, <1>3, PTL DEF CsuaSpec

-----------------------------------------------------------------------------
(* Shapes laid along the code that is generated so far.                      *)

\* No slot holds a function; one is on top only where it is called.
Clear(a) == \A k \in DOMAIN a.tags : a.tags[k].f < 0
Placed(T, img, code, i) ==
  /\ Allowed(img, code[i + 1], OperandOf(code, i), T[i])
  /\ T[Behind(code, i)] = AfterAt(code, i, T[i])
  /\ Clear(T[i]) \/ code[i + 1] = Op.invoke
  /\ code[i + 1] = Op.invoke => Len(ArgsOf(T[i])) > 0
Laid(T, img, code) ==
  /\ T[0] = Bare(0)
  /\ \A i \in Boundaries(code) : /\ T[i] \in Shapes
                                 /\ i < Len(code) => Placed(T, img, code, i)

LEMMA BareShape ==
  ASSUME NEW n \in Nat
  PROVE  Bare(n) \in Shapes /\ Bare(n).blocks = n /\ Bare(n).tags = <<>> /\ Clear(Bare(n))
BY DEF Bare, Shapes, Clear

-----------------------------------------------------------------------------
(* The walk along code on which shapes are laid.                             *)

Walked == Nat \X Shapes
WalkedOn(S, img) == \A s \in S : Passes(img, s) => Onward(img, s) \in S
WalkFrom(img, s) == {q \in Walked : \A S \in SUBSET Walked : s \in S /\ WalkedOn(S, img) => q \in S}
Walks(f, img) ==
  f = [s \in Walked |-> {s} \cup IF Passes(img, s) THEN f[Onward(img, s)] ELSE {}]

LEMMA OnwardTyped ==
  ASSUME NEW img, NEW s \in Walked, Passes(img, s)
  PROVE  Onward(img, s) \in Walked
<1>1. s[1] \in Nat
  BY DEF Walked
<1>2. Behind(img.code, s[1]) \in Nat
  BY <1>1, BehindLater
<1>3. QED
  BY <1>2 DEF Passes, Onward, Walked

LEMMA WalkStep ==
  ASSUME NEW img, NEW s \in Walked
  PROVE  WalkFrom(img, s) = {s} \cup IF Passes(img, s) THEN WalkFrom(img, Onward(img, s)) ELSE {}
<1> DEFINE n == Onward(img, s)
           rest == IF Passes(img, s) THEN WalkFrom(img, n) ELSE {}
<1>1. Passes(img, s) => n \in Walked
  BY OnwardTyped
<1>2. s \in WalkFrom(img, s)
  BY DEF WalkFrom
<1>3. ASSUME NEW q \in rest PROVE q \in WalkFrom(img, s)
  <2>1. Passes(img, s) /\ q \in WalkFrom(img, n)
    BY <1>3
  <2> HIDE DEF rest
  <2>2. ASSUME NEW S \in SUBSET Walked, s \in S, WalkedOn(S, img) PROVE q \in S
    <3>1. n \in S
      BY <2>1, <2>2 DEF WalkedOn
    <3> HIDE DEF n
    <3>2. QED
      BY <2>1, <2>2, <3>1 DEF WalkFrom
  <2>3. QED
    BY <2>1, <2>2 DEF WalkFrom
<1>4. ASSUME NEW q \in WalkFrom(img, s) PROVE q \in {s} \cup rest
  <2> DEFINE W == {s} \cup rest
  <2>1. W \in SUBSET Walked /\ s \in W
    BY DEF WalkFrom
  <2>2. ASSUME NEW k \in W, Passes(img, k) PROVE Onward(img, k) \in W
    <3>1. CASE k = s
      <4>1. Passes(img, s) /\ n \in WalkFrom(img, n)
        BY <1>1, <2>2, <3>1 DEF WalkFrom
      <4>2. QED
        BY <3>1, <4>1
    <3>2. CASE k # s
      <4>1. Passes(img, s) /\ k \in WalkFrom(img, n)
        BY <2>2, <3>2
      <4>2. k \in Walked /\ Onward(img, k) \in Walked
        BY <2>1, <2>2, OnwardTyped
      <4>3. ASSUME NEW S \in SUBSET Walked, n \in S, WalkedOn(S, img) PROVE Onward(img, k) \in S
        <5>1. k \in S
          BY <4>1, <4>3 DEF WalkFrom
        <5>2. QED
          BY <2>2, <4>3, <5>1 DEF WalkedOn
      <4>4. Onward(img, k) \in WalkFrom(img, n)
        BY <4>2, <4>3 DEF WalkFrom
      <4>5. QED
        BY <4>1, <4>4
    <3>3. QED
      BY <3>1, <3>2
  <2> HIDE DEF W
  <2>3. WalkedOn(W, img)
    BY <2>2 DEF WalkedOn
  <2>4. q \in W
    BY <2>1, <2>3 DEF WalkFrom
  <2>5. QED
    BY <2>4 DEF W
<1>5. QED
  BY <1>2, <1>3, <1>4

\* The recursion of Walk has a solution, so that Walk is one's value.
LEMMA WalkSolved ==
  ASSUME NEW img
  PROVE  \E f : Walks(f, img) /\ Walk(img) = f[<<0, Bare(0)>>]
<1> DEFINE g == [s \in Walked |-> WalkFrom(img, s)]
           f == CHOOSE h : Walks(h, img)
<1>1. Walks(g, img)
  <2>1. \A s \in Walked : WalkFrom(img, s) =
          {s} \cup IF Passes(img, s) THEN g[Onward(img, s)] ELSE {}
    BY WalkStep, OnwardTyped
  <2> HIDE DEF g
  <2>2. g = [s \in Walked |-> {s} \cup IF Passes(img, s) THEN g[Onward(img, s)] ELSE {}]
    BY <2>1 DEF g
  <2>3. QED
    BY <2>2 DEF Walks
<1>2. Walks(f, img)
  BY <1>1
<1>3. Walk(img) = f[<<0, Bare(0)>>]
  BY DEF Walk, Walks, Walked
<1>4. QED
  BY <1>2, <1>3

\* It meets each boundary once, in the shape that is laid there.
LEMMA WalkMeets ==
  ASSUME NEW img, img.code \in Seq(Byte), Whole(img.code), NEW T, Laid(T, img, img.code)
  PROVE  Walk(img) = {<<i, T[i]>> : i \in Boundaries(img.code)}
<1> DEFINE code == img.code
           B == Boundaries(code)
           at(i) == <<i, T[i]>>
<1>1. /\ Len(code) \in Nat /\ B \in SUBSET Nat /\ 0 \in B /\ B \subseteq 0 .. Len(code)
      /\ \A i \in B : i < Len(code) => Behind(code, i) \in B
      /\ T[0] = Bare(0) /\ \A i \in B : T[i] \in Shapes
  BY BoundariesClosed DEF Whole, Closed, Laid
<1>2. PICK f : Walks(f, img) /\ Walk(img) = f[<<0, Bare(0)>>]
  BY WalkSolved
<1>3. \A s \in Walked : f[s] = {s} \cup IF Passes(img, s) THEN f[Onward(img, s)] ELSE {}
  BY <1>2 DEF Walks
<1>4. ASSUME NEW i \in B
      PROVE  /\ at(i) \in Walked
             /\ i < Len(code) => Passes(img, at(i)) /\ Onward(img, at(i)) = at(Behind(code, i))
             /\ ~(i < Len(code)) => ~Passes(img, at(i))
  <2>1. at(i) \in Walked /\ at(i)[1] = i /\ at(i)[2] = T[i] /\ T[i] \in Shapes
    BY <1>1 DEF Walked
  <2>2. ASSUME i < Len(code)
        PROVE  Passes(img, at(i)) /\ Onward(img, at(i)) = at(Behind(code, i))
    <3>1. /\ Allowed(img, code[i + 1], OperandOf(code, i), T[i])
          /\ T[Behind(code, i)] = AfterAt(code, i, T[i])
      BY <2>2 DEF Laid, Placed
    <3>2. Behind(code, i) \in B
      BY <1>1, <2>2
    <3>3. AfterAt(code, i, T[i]) \in Shapes
      BY <1>1, <3>1, <3>2
    <3>4. QED
      BY <2>1, <2>2, <3>1, <3>3 DEF Passes, Onward
  <2>3. ~(i < Len(code)) => ~Passes(img, at(i))
    BY <2>1 DEF Passes
  <2>4. QED
    BY <2>1, <2>2, <2>3
<1> HIDE DEF B, code, at
<1>5. ASSUME NEW i \in B
      PROVE  f[at(i)] = {at(i)} \cup IF i < Len(code) THEN f[at(Behind(code, i))] ELSE {}
  <2>1. at(i) \in Walked
    BY <1>4
  <2>2. f[at(i)] = {at(i)} \cup IF Passes(img, at(i)) THEN f[Onward(img, at(i))] ELSE {}
    BY <1>3, <2>1
  <2>3. CASE i < Len(code)
    BY <1>4, <2>2, <2>3
  <2>4. CASE ~(i < Len(code))
    BY <1>4, <2>2, <2>4
  <2>5. QED
    BY <2>3, <2>4
<1> DEFINE W == {at(i) : i \in B}
           S == {i \in B : f[at(i)] \subseteq f[at(0)]}
           Bad == {m \in Nat : \E i \in B : m = Len(code) - i /\ ~(f[at(i)] \subseteq W)}
<1>6. B \subseteq S
  <2>1. S \in SUBSET Nat /\ 0 \in S
    BY <1>1
  <2>2. Closed(S, code)
    <3>1. ASSUME NEW i \in S, i < Len(code) PROVE Behind(code, i) \in S
      <4>1. i \in B /\ f[at(i)] \subseteq f[at(0)] /\ Behind(code, i) \in B
        BY <1>1, <3>1
      <4>2. f[at(Behind(code, i))] \subseteq f[at(i)]
        BY <1>5, <3>1, <4>1
      <4>3. QED
        BY <4>1, <4>2
    <3> HIDE DEF S
    <3>2. QED
      BY <3>1 DEF Closed
  <2> HIDE DEF S
  <2>3. QED
    BY <1>1, <2>1, <2>2, BoundariesLeast DEF B
<1>7. Bad = {}
  <2> SUFFICES ASSUME Bad # {} PROVE FALSE
    OBVIOUS
  <2>1. Bad \in SUBSET Nat
    OBVIOUS
  <2>2. PICK m \in Bad : \A k \in Bad : m <= k
    BY <2>1, Least
  <2>3. PICK i \in B : m = Len(code) - i /\ ~(f[at(i)] \subseteq W)
    BY <2>2
  <2>4. at(i) \in W
    OBVIOUS
  <2>5. i < Len(code) /\ ~(f[at(Behind(code, i))] \subseteq W)
    BY <1>5, <2>3, <2>4
  <2>6. i \in Nat /\ Behind(code, i) \in B /\ Behind(code, i) \in 0 .. Len(code)
    BY <1>1, <2>5
  <2>7. Behind(code, i) > i
    BY <2>6, BehindLater
  <2>8. Len(code) - Behind(code, i) \in Nat /\ Len(code) - Behind(code, i) < m
    BY <1>1, <2>3, <2>6, <2>7
  <2>9. Len(code) - Behind(code, i) \in Bad
    BY <2>5, <2>6, <2>8
  <2> HIDE DEF Bad
  <2>10. QED
    BY <2>1, <2>2, <2>8, <2>9
<1>8. f[at(0)] \subseteq W
  <2>1. Len(code) - 0 \in Nat
    BY <1>1
  <2>2. QED
    BY <1>1, <1>7, <2>1
<1>9. W \subseteq f[at(0)]
  <2>1. ASSUME NEW i \in B PROVE at(i) \in f[at(0)]
    <3>1. at(i) \in f[at(i)] /\ f[at(i)] \subseteq f[at(0)]
      BY <1>5, <1>6
    <3>2. QED
      BY <3>1
  <2>2. QED
    BY <2>1
<1>10. at(0) = <<0, Bare(0)>>
  BY <1>1 DEF at
<1>11. Walk(img) = W
  BY <1>2, <1>8, <1>9, <1>10
<1>12. QED
  BY <1>11 DEF at, B, code

LEMMA ShapesLaid ==
  ASSUME NEW img, img.code \in Seq(Byte), Whole(img.code), NEW T, Laid(T, img, img.code)
  PROVE  /\ \A i \in Boundaries(img.code) : \E p \in Walk(img) : p[1] = i
         /\ \A i \in Boundaries(img.code) : ShapesOf(img)[i] = T[i]
<1> DEFINE B == Boundaries(img.code)
<1>1. Walk(img) = {<<i, T[i]>> : i \in B}
  BY WalkMeets
<1>2. ASSUME NEW i \in B
      PROVE  /\ \E p \in Walk(img) : p[1] = i
             /\ (CHOOSE p \in Walk(img) : p[1] = i)[2] = T[i]
  <2>1. <<i, T[i]>> \in Walk(img) /\ <<i, T[i]>>[1] = i
    BY <1>1
  <2>2. ASSUME NEW p \in Walk(img), p[1] = i PROVE p[2] = T[i]
    BY <1>1, <2>2
  <2>3. QED
    BY <2>1, <2>2
<1>3. QED
  BY <1>2 DEF ShapesOf

-----------------------------------------------------------------------------
(* What one instruction does to the stack, by its family.                    *)

LEMMA ListedFamilies ==
  ASSUME NEW op \in Listed
  PROVE  /\ op \in Int
         /\ \/ op \in {1, 2, 9, 10} \/ op = 45 \/ op \in {11, 12, 44, 48} \/ op \in BinaryOpcodes
            \/ op \in {41, 42} \/ op \in {23, 24, 25, 26, 27, 28, 43} \/ op = 46 \/ op = 5 \/ op = 8
            \/ op = 49
<1>1. /\ op \in 1 .. 49 /\ op # 3 /\ op # 4 /\ op # 6 /\ op # 7 /\ op # 47
  BY DEF Listed, Opcodes, Op
<1>2. op \in Int /\ (op \in BinaryOpcodes <=> (op >= 13 /\ op <= 22) \/ (op >= 29 /\ op <= 40))
  BY <1>1, BinaryApart
<1>3. QED
  BY <1>1, <1>2

LEMMA GivesBackNumbers ==
  \A op \in Int : op \in GivesBack <=> op \in {11, 12, 41, 42, 44, 48} \/ op \in BinaryOpcodes
BY Families DEF GivesBack

\* How many slots an instruction takes, of those that are there.
LEMMA AllowedTakes ==
  ASSUME NEW img, NEW op \in Listed, NEW arg, NEW a \in Shapes, Allowed(img, op, arg, a)
  PROVE  /\ Len(a.tags) \in Nat /\ a.blocks \in Nat
         /\ op \in {11, 12, 44, 48} => 1 <= Len(a.tags)
         /\ op \in BinaryOpcodes \cup {41, 42} => 2 <= Len(a.tags)
         /\ op \in {23, 24, 25, 26, 27, 28, 43} => 1 <= Len(a.tags)
         /\ op = 46 => Len(ArgsOf(a)) + 1 <= Len(a.tags) /\ Callee(a) >= 0 /\ Len(a.tags) > 0
         /\ op \in {5, 8} => a.tags = <<>>
         /\ op = 8 => a.blocks > 0
<1>1. op \in Int
  BY ListedFamilies
<1>2. Len(a.tags) \in Nat /\ a.blocks \in Nat
  BY DEF Shapes
<1>3. op \in {11, 12, 44, 48} => 1 <= Len(a.tags)
  BY <1>2, Families DEF Allowed, TopIs
<1>4. op \in BinaryOpcodes \cup {41, 42} => 2 <= Len(a.tags)
  BY <1>2, Families DEF Allowed, TopIs
<1>5. op \in {23, 24, 25, 26, 27, 28, 43} => 1 <= Len(a.tags)
  BY <1>2, Families DEF Allowed, TopIs
<1>6. op = 46 => Callable(a)
  BY Families DEF Allowed
<1>7. op = 46 => Len(ArgsOf(a)) + 1 <= Len(a.tags) /\ Callee(a) >= 0 /\ Len(a.tags) > 0
  BY <1>6 DEF Callable, TopIs
<1>8. (op \in {5, 8} => a.tags = <<>>) /\ (op = 8 => a.blocks > 0)
  BY Families DEF Allowed
<1>9. QED
  BY <1>2, <1>3, <1>4, <1>5, <1>7, <1>8

LEMMA ArgsCount ==
  ASSUME NEW a, Callable(a)
  PROVE  Len(ArgsOf(a)) \in Nat
BY NativesAssumption DEF Callable, ArgsOf

\* s replaces the slots that are taken, or nothing does.
LEMMA StepShapes ==
  ASSUME NEW img, NEW op \in Listed, NEW arg, NEW a \in Shapes, Allowed(img, op, arg, a),
         NEW b, b = After(op, arg, a)
  PROVE  \/ op \in {1, 2, 9, 10} /\ Puts(a, 0, NumberOf(MemberOf(op)), b)
         \/ op = 45 /\ Puts(a, 0, FunctionOf(arg), b)
         \/ op \in GivesBack /\ Drops(a, 1, b)
         \/ op \in GivesBack /\ \E t : Puts(a, 2, NumberOf(t), b)
         \/ op \in {23, 24, 25, 26, 27, 28, 43} /\ \E t : Puts(a, 1, NumberOf(t), b)
         \/ op = 46 /\ Len(ArgsOf(a)) \in Nat /\ Puts(a, Len(ArgsOf(a)) + 1, NumberOf("int"), b)
         \/ op = 5 /\ b = Bare(a.blocks + 1)
         \/ op = 8 /\ b = Bare(a.blocks - 1)
         \/ op = 49 /\ b = a
<1>1. op \in Int
  BY ListedFamilies
<1>2. Len(a.tags) \in Nat /\ 0 <= Len(a.tags)
  BY DEF Shapes
<1>3. CASE op \in {1, 2, 9, 10}
  <2>1. b = Replace(a, 0, <<NumberOf(MemberOf(op))>>)
    BY <1>1, <1>3, AfterPush
  <2>2. Puts(a, 0, NumberOf(MemberOf(op)), b)
    BY <1>2, <2>1, ReplacePuts
  <2>3. QED
    BY <1>3, <2>2
<1>4. CASE op = 45
  <2>1. b = Replace(a, 0, <<FunctionOf(arg)>>)
    BY <1>1, <1>4, AfterFunction
  <2>2. Puts(a, 0, FunctionOf(arg), b)
    BY <1>2, <2>1, ReplacePuts
  <2>3. QED
    BY <1>4, <2>2
<1>5. CASE op \in {11, 12, 44, 48}
  <2>1. op \in GivesBack
    BY <1>1, <1>5, GivesBackNumbers
  <2>2. 1 <= Len(a.tags) /\ b = Replace(a, 1, <<>>)
    BY <1>1, <1>5, AllowedTakes, AfterPop
  <2>3. QED
    BY <2>1, <2>2, ReplaceDrops
<1>6. CASE op \in BinaryOpcodes
  <2>1. op \in GivesBack
    BY <1>1, <1>6, GivesBackNumbers
  <2>2. 2 <= Len(a.tags) /\ b = Replace(a, 2, <<NumberOf(BinaryTo(op))>>)
    BY <1>1, <1>6, AllowedTakes, AfterBinary
  <2>3. Puts(a, 2, NumberOf(BinaryTo(op)), b)
    BY <2>2, ReplacePuts
  <2>4. QED
    BY <2>1, <2>3
<1>7. CASE op \in {41, 42}
  <2>1. op \in GivesBack
    BY <1>1, <1>7, GivesBackNumbers
  <2>2. 2 <= Len(a.tags) /\ b = Replace(a, 2, <<NumberOf("int")>>)
    BY <1>1, <1>7, AllowedTakes, AfterLogical
  <2>3. Puts(a, 2, NumberOf("int"), b)
    BY <2>2, ReplacePuts
  <2>4. QED
    BY <2>1, <2>3
<1>8. CASE op \in {23, 24, 25, 26, 27, 28, 43}
  <2>1. 1 <= Len(a.tags) /\ b = Replace(a, 1, <<NumberOf(UnaryTo(op))>>)
    BY <1>1, <1>8, AllowedTakes, AfterUnary
  <2>2. Puts(a, 1, NumberOf(UnaryTo(op)), b)
    BY <2>1, ReplacePuts
  <2>3. QED
    BY <1>8, <2>2
<1>9. CASE op = 46
  <2>1. Callable(a)
    BY <1>9, Families DEF Allowed
  <2>2. Len(ArgsOf(a)) \in Nat
    BY <2>1, ArgsCount
  <2>3. Len(ArgsOf(a)) + 1 <= Len(a.tags) /\ b = Replace(a, Len(ArgsOf(a)) + 1, <<NumberOf("int")>>)
    BY <1>1, <1>9, AllowedTakes, AfterInvoke
  <2> DEFINE n == Len(ArgsOf(a)) + 1
  <2>4. n \in Nat /\ n <= Len(a.tags) /\ b = Replace(a, n, <<NumberOf("int")>>)
    BY <2>2, <2>3
  <2> HIDE DEF n
  <2>5. Puts(a, n, NumberOf("int"), b)
    BY <2>4, ReplacePuts
  <2>6. QED
    BY <1>9, <2>2, <2>5 DEF n
<1>10. CASE op = 5
  BY <1>1, <1>10, AfterBegin
<1>11. CASE op = 8
  BY <1>1, <1>11, AfterEnd
<1>12. CASE op = 49
  BY <1>1, <1>12, AfterLabel
<1>13. QED
  BY <1>3, <1>4, <1>5, <1>6, <1>7, <1>8, <1>9, <1>10, <1>11, <1>12, ListedFamilies

\* A function can only be on top.
Nearly(a) == \A k \in 1 .. Len(a.tags) - 1 : a.tags[k].f < 0

LEMMA StaysClear ==
  ASSUME NEW a \in Shapes, NEW b \in Shapes, NEW n \in Nat, n <= Len(a.tags)
  PROVE  /\ Nearly(a) /\ n > 0 /\ (Drops(a, n, b) \/ \E t : Puts(a, n, NumberOf(t), b)) => Clear(b)
         /\ Clear(a) /\ (Drops(a, n, b) \/ \E t : Puts(a, n, NumberOf(t), b)) => Clear(b)
         /\ Clear(a) /\ (\E s : Puts(a, n, s, b)) => Nearly(b)
         /\ Clear(b) => Nearly(b)
<1>1. /\ a.tags \in Seq(Members) /\ b.tags \in Seq(Members) /\ Len(a.tags) \in Nat /\ Len(b.tags) \in Nat
      /\ DOMAIN a.tags = 1 .. Len(a.tags) /\ DOMAIN b.tags = 1 .. Len(b.tags)
  BY DEF Shapes
<1>2. \A t : NumberOf(t).f < 0
  BY DEF NumberOf
<1>3. Clear(b) => Nearly(b)
  BY <1>1 DEF Clear, Nearly
<1>4. ASSUME \/ Nearly(a) /\ n > 0
             \/ Clear(a),
             Drops(a, n, b) \/ \E t : Puts(a, n, NumberOf(t), b)
      PROVE  Clear(b)
  <2>1. ASSUME NEW k \in 1 .. Len(a.tags) - n PROVE a.tags[k].f < 0
    <3>1. k \in 1 .. Len(a.tags) /\ (n > 0 => k \in 1 .. Len(a.tags) - 1)
      BY <1>1
    <3>2. QED
      BY <1>1, <1>4, <3>1 DEF Clear, Nearly
  <2>2. CASE Drops(a, n, b)
    BY <1>1, <2>1, <2>2 DEF Drops, Clear
  <2>3. ASSUME NEW t, Puts(a, n, NumberOf(t), b) PROVE Clear(b)
    <3>1. /\ Len(b.tags) = Len(a.tags) - n + 1 /\ b.tags[Len(b.tags)].f < 0
          /\ \A i \in 1 .. Len(a.tags) - n : b.tags[i].f < 0
      BY <1>2, <2>1, <2>3 DEF Puts
    <3> DEFINE la == Len(a.tags)
               lb == Len(b.tags)
    <3>2. \A k \in 1 .. lb : k \in 1 .. la - n \/ k = lb
      <4>1. la \in Nat /\ lb \in Nat /\ n \in Nat /\ lb = la - n + 1
        BY <1>1, <3>1
      <4> HIDE DEF la, lb
      <4>2. QED
        BY <4>1
    <3>3. QED
      BY <1>1, <3>1, <3>2 DEF Clear
  <2>4. QED
    BY <1>4, <2>2, <2>3
<1>5. ASSUME Clear(a), NEW s, Puts(a, n, s, b)
      PROVE  Nearly(b)
  <2>1. Len(b.tags) - 1 = Len(a.tags) - n /\ \A i \in 1 .. Len(a.tags) - n : b.tags[i] = a.tags[i]
    BY <1>1, <1>5 DEF Puts
  <2>2. \A i \in 1 .. Len(a.tags) - n : a.tags[i].f < 0
    BY <1>1, <1>5 DEF Clear
  <2>3. QED
    BY <2>1, <2>2 DEF Nearly
<1>6. QED
  BY <1>3, <1>4, <1>5

-----------------------------------------------------------------------------
\* No boundary lies between an instruction's and the one behind it.
LEMMA BoundariesApart ==
  ASSUME NEW code, Len(code) \in Nat, NEW i \in Boundaries(code), NEW j \in Boundaries(code), i < j
  PROVE  Behind(code, i) <= j
<1> DEFINE B == Boundaries(code)
           Bad == {k \in B : \E m \in B : k < m /\ m < Behind(code, k)}
<1>1. B \in SUBSET Nat /\ 0 \in B /\ \A k \in B : k < Len(code) => Behind(code, k) \in B
  BY BoundariesClosed DEF Closed
<1>2. \A k \in B : Behind(code, k) \in Nat /\ Behind(code, k) > k
  BY <1>1, BehindLater
<1> HIDE DEF B
<1>3. Bad = {}
  <2> SUFFICES ASSUME Bad # {} PROVE FALSE
    OBVIOUS
  <2>1. Bad \in SUBSET Nat
    BY <1>1
  <2>2. PICK k \in Bad : \A m \in Bad : k <= m
    BY <2>1, Least
  <2>3. PICK m \in B : k < m /\ m < Behind(code, k)
    BY <2>2
  <2>k. k \in B
    BY <2>2
  <2> DEFINE S == {n \in B : ~(k < n /\ n < Behind(code, k))}
  <2>4. S \in SUBSET Nat /\ 0 \in S
    <3>1. k \in Nat /\ ~(k < 0)
      BY <1>1, <2>k
    <3>2. QED
      BY <1>1, <3>1
  <2>5. ASSUME NEW n \in S, n < Len(code) PROVE Behind(code, n) \in S
    <3>1. n \in B /\ n \in Nat /\ k \in Nat /\ Behind(code, n) \in B /\ Behind(code, n) \in Nat
          /\ Behind(code, k) \in Nat /\ Behind(code, n) > n
      BY <1>1, <1>2, <2>5, <2>k
    <3>2. CASE n = k
      BY <3>1, <3>2
    <3>3. CASE n > k
      BY <2>5, <3>1, <3>3
    <3>4. CASE n < k
      <4>1. n \notin Bad
        BY <2>2, <3>1, <3>4
      <4>2. ~(n < k /\ k < Behind(code, n))
        BY <2>k, <3>1, <4>1
      <4>3. Behind(code, n) <= k
        BY <3>1, <3>4, <4>2
      <4>4. QED
        BY <3>1, <4>3
    <3>5. QED
      BY <3>1, <3>2, <3>3, <3>4
  <2> HIDE DEF S
  <2>6. Closed(S, code)
    BY <2>5 DEF Closed
  <2>7. B \subseteq S
    BY <2>4, <2>6, BoundariesLeast DEF B
  <2>8. QED
    BY <2>3, <2>7 DEF S
<1>4. i \in B /\ j \in B /\ i \in Nat /\ j \in Nat /\ Behind(code, i) \in Nat
  BY <1>1, <1>2 DEF B
<1>5. ~(j < Behind(code, i))
  BY <1>3, <1>4
<1>6. QED
  BY <1>4, <1>5

-----------------------------------------------------------------------------
(* The sizes that the serializer counts leave room for the shapes.           *)

Height(a) == a.blocks + Len(a.tags)

LEMMA HeightNat == ASSUME NEW a \in Shapes PROVE Height(a) \in Nat
BY DEF Height, Shapes

LEMMA PushesOf ==
  ASSUME NEW op \in Int
  PROVE  /\ Pushes(op) \in Nat
         /\ op \in {1, 2, 5, 9, 10, 48, 49} => Pushes(op) = 1
BY DEF Pushes, SSize

LEMMA HeightPuts ==
  ASSUME NEW a \in Shapes, NEW b \in Shapes, NEW n \in Nat
  PROVE  /\ Drops(a, n, b) => Height(b) = Height(a) - n
         /\ \A s : Puts(a, n, s, b) => Height(b) = Height(a) - n + 1
<1>1. Len(a.tags) \in Nat /\ Len(b.tags) \in Nat /\ a.blocks \in Nat
  BY DEF Shapes
<1>2. ASSUME Drops(a, n, b) PROVE Height(b) = Height(a) - n
  <2>1. b.blocks = a.blocks /\ Len(b.tags) = Len(a.tags) - n
    BY <1>2 DEF Drops
  <2>2. QED
    BY <1>1, <2>1 DEF Height
<1>3. ASSUME NEW s, Puts(a, n, s, b) PROVE Height(b) = Height(a) - n + 1
  <2>1. b.blocks = a.blocks /\ Len(b.tags) = Len(a.tags) - n + 1
    BY <1>3 DEF Puts
  <2>2. QED
    BY <1>1, <2>1 DEF Height
<1>4. QED
  BY <1>2, <1>3

LEMMA NotGivesBack == \A op \in {1, 2, 5, 8, 9, 10, 23, 24, 25, 26, 27, 28, 43, 45, 46, 49} : op \notin GivesBack
<1> SUFFICES ASSUME NEW op \in {1, 2, 5, 8, 9, 10, 23, 24, 25, 26, 27, 28, 43, 45, 46, 49}
             PROVE  op \notin GivesBack
  OBVIOUS
<1>1. op \in Int /\ op \notin {11, 12, 41, 42, 44, 48} /\ ~((op >= 13 /\ op <= 22) \/ (op >= 29 /\ op <= 40))
  OBVIOUS
<1>2. QED
  BY <1>1, BinaryApart, GivesBackNumbers

\* One instruction, by what it adds to the count.
LEMMA StepHeight ==
  ASSUME NEW img, NEW op \in Listed, NEW arg, NEW a \in Shapes, Allowed(img, op, arg, a),
         NEW b \in Shapes, b = After(op, arg, a),
         Nearly(a), Clear(a) \/ op = 46, op = 46 => Len(ArgsOf(a)) > 0
  PROVE  /\ Nearly(b) /\ (op # 45 => Clear(b))
         /\ op = 45 => Height(b) = Height(a) + 1 /\ Clear(a) /\ (arg \in Nat => ~Clear(b))
         /\ op \in GivesBack => Clear(a) /\ Height(b) + 1 <= Height(a) + Pushes(op)
         /\ op # 45 /\ op \notin GivesBack =>
              Height(b) + (IF Clear(a) THEN 0 ELSE 1) <= Height(a) + Pushes(op)
<1>1. /\ op \in Int /\ Len(a.tags) \in Nat /\ a.blocks \in Nat /\ Height(a) \in Nat /\ Height(b) \in Nat
      /\ Pushes(op) \in Nat
  BY ListedFamilies, AllowedTakes, HeightNat, PushesOf
<1>2. op = 45 => op \notin GivesBack /\ Clear(a)
  BY NotGivesBack
<1>3. CASE op \in {1, 2, 9, 10} /\ Puts(a, 0, NumberOf(MemberOf(op)), b)
  <2>0. op \notin GivesBack
    BY <1>3, NotGivesBack
  <2>k. op # 45 /\ op # 46 /\ op \in {1, 2, 5, 9, 10, 48, 49}
    BY <1>3
  <2>1. Clear(a) /\ Pushes(op) = 1 /\ op \notin GivesBack /\ op # 45
    BY <1>1, <2>k, <2>0, PushesOf
  <2>2. Clear(b) /\ Nearly(b)
    BY <1>1, <1>3, <2>1, StaysClear
  <2>3. Height(b) = Height(a) - 0 + 1
    BY <1>3, HeightPuts
  <2>4. QED
    BY <1>1, <2>1, <2>2, <2>3
<1>4. CASE op = 45 /\ Puts(a, 0, FunctionOf(arg), b)
  <2>1. Nearly(b)
    BY <1>1, <1>2, <1>4, StaysClear
  <2>2. Height(b) = Height(a) - 0 + 1
    BY <1>4, HeightPuts
  <2>3. Len(b.tags) \in DOMAIN b.tags /\ b.tags[Len(b.tags)].f = arg
    <3>1. b.tags[Len(b.tags)] = FunctionOf(arg) /\ Len(b.tags) = Len(a.tags) - 0 + 1
      BY <1>4 DEF Puts
    <3>2. b.tags \in Seq(Members) /\ Len(b.tags) > 0
      BY <1>1, <3>1 DEF Shapes
    <3>3. QED
      BY <3>1, <3>2 DEF FunctionOf
  <2>4. arg \in Nat => ~Clear(b)
    BY <2>3 DEF Clear
  <2>5. QED
    BY <1>1, <1>2, <1>4, <2>1, <2>2, <2>4
<1>5. CASE op \in GivesBack /\ Drops(a, 1, b)
  <2>1. op # 45 /\ op # 46
    BY <1>5, NotGivesBack
  <2>2. 1 <= Len(a.tags)
    BY <1>5 DEF Drops
  <2>3. Clear(b) /\ Nearly(b)
    BY <1>5, <2>2, StaysClear
  <2>4. Height(b) = Height(a) - 1
    BY <1>5, HeightPuts
  <2>5. QED
    BY <1>1, <1>5, <2>1, <2>3, <2>4
<1>6. CASE op \in GivesBack /\ \E t : Puts(a, 2, NumberOf(t), b)
  <2>1. op # 45 /\ op # 46
    BY <1>6, NotGivesBack
  <2>2. 2 <= Len(a.tags)
    BY <1>6 DEF Puts
  <2>3. Clear(b) /\ Nearly(b)
    BY <1>6, <2>2, StaysClear
  <2>4. Height(b) = Height(a) - 2 + 1
    BY <1>6, HeightPuts
  <2>5. QED
    BY <1>1, <1>6, <2>1, <2>3, <2>4
<1>7. CASE op \in {23, 24, 25, 26, 27, 28, 43} /\ \E t : Puts(a, 1, NumberOf(t), b)
  <2>1. op # 45 /\ op # 46 /\ op \notin GivesBack /\ Clear(a)
    BY <1>7, NotGivesBack
  <2>2. 1 <= Len(a.tags)
    BY <1>7 DEF Puts
  <2>3. Clear(b) /\ Nearly(b)
    BY <1>7, <2>2, StaysClear
  <2>4. Height(b) = Height(a) - 1 + 1
    BY <1>7, HeightPuts
  <2>5. QED
    BY <1>1, <2>1, <2>3, <2>4
<1>8. CASE op = 46 /\ Len(ArgsOf(a)) \in Nat /\ Puts(a, Len(ArgsOf(a)) + 1, NumberOf("int"), b)
  <2> DEFINE n == Len(ArgsOf(a)) + 1
  <2>1. op # 45 /\ op \notin GivesBack /\ n \in Nat /\ n > 1 /\ Puts(a, n, NumberOf("int"), b)
    BY <1>8, NotGivesBack
  <2> HIDE DEF n
  <2>2. n <= Len(a.tags)
    BY <2>1 DEF Puts
  <2>3. Clear(b) /\ Nearly(b)
    BY <2>1, <2>2, StaysClear
  <2>4. Height(b) = Height(a) - n + 1
    BY <2>1, HeightPuts
  <2>5. Height(b) + 1 <= Height(a) + Pushes(op)
    BY <1>1, <2>1, <2>4
  <2>6. QED
    BY <1>1, <2>1, <2>3, <2>5
<1>9. CASE op = 5 /\ b = Bare(a.blocks + 1)
  <2>1. op # 45 /\ op # 46 /\ op \notin GivesBack /\ Clear(a) /\ Pushes(op) = 1
    BY <1>1, <1>9, NotGivesBack, PushesOf
  <2>2. Clear(b) /\ b.blocks = a.blocks + 1 /\ b.tags = <<>>
    BY <1>1, <1>9, BareShape
  <2>3. a.tags = <<>>
    BY <1>9, AllowedTakes
  <2>4. Height(b) = Height(a) + 1
    BY <1>1, <2>2, <2>3 DEF Height
  <2>5. Nearly(b)
    BY <2>2 DEF Nearly
  <2>6. QED
    BY <1>1, <2>1, <2>2, <2>4, <2>5
<1>10. CASE op = 8 /\ b = Bare(a.blocks - 1)
  <2>1. op # 45 /\ op # 46 /\ op \notin GivesBack /\ Clear(a)
    BY <1>1, <1>10, NotGivesBack
  <2>2. a.tags = <<>> /\ a.blocks - 1 \in Nat
    BY <1>1, <1>10, AllowedTakes
  <2>3. Clear(b) /\ b.blocks = a.blocks - 1 /\ b.tags = <<>>
    BY <1>10, <2>2, BareShape
  <2>4. Height(b) = Height(a) - 1
    BY <1>1, <2>2, <2>3 DEF Height
  <2>5. Nearly(b)
    BY <2>3 DEF Nearly
  <2>6. QED
    BY <1>1, <2>1, <2>3, <2>4, <2>5
<1>11. CASE op = 49 /\ b = a
  <2>1. op # 45 /\ op # 46 /\ op \notin GivesBack /\ Clear(a)
    BY <1>11, NotGivesBack
  <2>2. QED
    BY <1>1, <1>11, <2>1
<1>12. QED
  BY <1>3, <1>4, <1>5, <1>6, <1>7, <1>8, <1>9, <1>10, <1>11, StepShapes

LEMMA StackRoom ==
  ASSUME NEW img, NEW code, Readable(code), Countable(code), NEW T, Laid(T, img, code)
  PROVE  \A i \in Boundaries(code) : Height(T[i]) <= CountStackSize(code)
<1> DEFINE B == Boundaries(code)
           G(i) == \E j \in B : j < i /\ code[j + 1] \in GivesBack
           more(i) == IF G(i) THEN 1 ELSE 0
           call(a) == IF Clear(a) THEN 0 ELSE 1
<1>1. /\ code \in Seq(Byte) /\ Len(code) \in Nat /\ B \in SUBSET Nat /\ 0 \in B /\ B \subseteq 0 .. Len(code)
      /\ \A i \in B : i < Len(code) => Behind(code, i) \in B /\ code[i + 1] \in Listed
      /\ T[0] = Bare(0) /\ \A i \in B : T[i] \in Shapes
  BY BoundariesClosed DEF Whole, Closed, Laid, Readable, Disassembles
<1>2. PICK f : Counts(f, code) /\ CountStackSize(code) = f[1] /\ \A i \in Nat : f[i] \in Nat
  BY <1>1, CountStackSizeSum
<1>3. ASSUME NEW i \in B, i < Len(code)
      PROVE  f[i + 1] = Pushes(code[i + 1]) + f[Behind(code, i) + 1]
  <2>1. i + 1 \in Nat /\ ~(i + 1 > Len(code)) /\ OpSize(code[i + 1]) \in Nat
    BY <1>1, <1>3, OpSizes
  <2>2. f[i + 1] = CountFrom(f, code, i + 1)
    BY <1>2, <2>1 DEF Counts
  <2>3. f[i + 1] = Pushes(code[i + 1]) + f[i + 1 + 1 + OpSize(code[i + 1])]
    BY <2>1, <2>2 DEF CountFrom
  <2>4. i + 1 + 1 + OpSize(code[i + 1]) = Behind(code, i) + 1
    BY <1>1, <2>1 DEF Behind
  <2>5. QED
    BY <2>3, <2>4
<1>4. ASSUME NEW i \in B, i < Len(code)
      PROVE  G(Behind(code, i)) <=> G(i) \/ code[i + 1] \in GivesBack
  <2>1. i \in Nat /\ Behind(code, i) \in Nat /\ Behind(code, i) > i
    BY <1>1, BehindLater
  <2>2. \A j \in B : j \in Nat /\ (i < j => Behind(code, i) <= j)
    BY <1>1, BoundariesApart
  <2>3. \A j \in B : j < Behind(code, i) <=> j < i \/ j = i
    BY <2>1, <2>2
  <2>4. QED
    BY <2>3
<1> DEFINE S == {i \in B : /\ Nearly(T[i]) /\ (Clear(T[i]) \/ G(i))
                           /\ Height(T[i]) + more(i) + f[i + 1] <= f[1] + call(T[i])}
<1>5. S \in SUBSET Nat /\ 0 \in S
  <2>1. Bare(0) \in Shapes /\ Height(Bare(0)) = 0 /\ Clear(Bare(0)) /\ Nearly(Bare(0))
    <3>1. Bare(0) \in Shapes /\ Bare(0).blocks = 0 /\ Bare(0).tags = <<>> /\ Clear(Bare(0))
      BY BareShape
    <3>2. QED
      BY <3>1 DEF Height, Nearly
  <2>2. ~G(0)
    BY <1>1
  <2>3. f[0 + 1] = f[1] /\ f[1] \in Nat
    BY <1>2
  <2>4. QED
    BY <1>1, <2>1, <2>2, <2>3
<1>6. ASSUME NEW i \in S, i < Len(code) PROVE Behind(code, i) \in S
  <2> DEFINE op == code[i + 1]
             arg == OperandOf(code, i)
             a == T[i]
             j == Behind(code, i)
             b == T[j]
  <2>1. /\ i \in B /\ j \in B /\ op \in Listed /\ a \in Shapes /\ b \in Shapes /\ i \in Nat /\ j \in Nat
        /\ Nearly(a) /\ (Clear(a) \/ G(i)) /\ Height(a) + more(i) + f[i + 1] <= f[1] + call(a)
    BY <1>1, <1>6
  <2>2. /\ Allowed(img, op, arg, a) /\ b = After(op, arg, a) /\ (Clear(a) \/ op = 46)
        /\ op = 46 => Len(ArgsOf(a)) > 0
    BY <1>6, <2>1, Families DEF Laid, Placed, AfterAt
  <2>3. f[i + 1] = Pushes(op) + f[j + 1] /\ (G(j) <=> G(i) \/ op \in GivesBack)
    BY <1>3, <1>4, <1>6, <2>1
  <2>4. op = 45 => G(i)
    <3> SUFFICES ASSUME op = 45 PROVE G(i)
      OBVIOUS
    <3>1. i \in InstrAt(code, Op.push_function)
      BY <1>6, <2>1, Families DEF InstrAt
    <3>2. QED
      BY <3>1 DEF Countable
  <2>4b. op = 45 => arg \in Nat
    <3> SUFFICES ASSUME op = 45 PROVE arg \in Nat
      OBVIOUS
    <3>1. i \in InstrAt(code, 45) /\ 45 \in WithOperand
      BY <1>6, <2>1 DEF InstrAt, WithOperand
    <3>2. i + 3 <= Len(code)
      BY <1>1, <3>1, OperandInside DEF Readable
    <3>3. i + 2 \in 1 .. Len(code) /\ i + 3 \in 1 .. Len(code)
      BY <1>1, <2>1, <3>2
    <3>4. code[i + 2] \in Byte /\ code[i + 3] \in Byte
      BY <1>1, <3>3
    <3>5. arg = code[i + 2] * 256 + code[i + 3]
      BY <3>1 DEF OperandOf, Operand
    <3>6. code[i + 2] \in Nat /\ code[i + 3] \in Nat
      BY <3>4 DEF Byte, UINT8_MAX
    <3> HIDE DEF arg
    <3>7. QED
      BY <3>5, <3>6
  <2>5. f[i + 1] \in Nat /\ f[j + 1] \in Nat /\ f[1] \in Nat
    BY <1>2, <2>1
  <2>6. op \in Int /\ Pushes(op) \in Nat /\ Height(a) \in Nat /\ Height(b) \in Nat
    BY <2>1, ListedFamilies, PushesOf, HeightNat
  <2> HIDE DEF a, b, op, arg, j, G
  <2>7. /\ Nearly(b) /\ (op # 45 => Clear(b))
        /\ op = 45 => Height(b) = Height(a) + 1 /\ Clear(a) /\ (arg \in Nat => ~Clear(b))
        /\ op \in GivesBack => Clear(a) /\ Height(b) + 1 <= Height(a) + Pushes(op)
        /\ op # 45 /\ op \notin GivesBack => Height(b) + call(a) <= Height(a) + Pushes(op)
    BY <2>1, <2>2, StepHeight
  <2>8. Clear(b) \/ G(j)
    BY <2>3, <2>4, <2>7
  <2>9. Height(b) + more(j) + f[j + 1] <= f[1] + call(b)
    <3>1. CASE op = 45
      <4>1. more(j) = 1 /\ more(i) = 1 /\ call(a) = 0 /\ call(b) \in {0, 1}
        BY <2>3, <2>4, <2>7, <3>1
      <4>2. op \notin GivesBack
        BY <3>1, NotGivesBack
      <4>3. call(b) = 1
        BY <2>4b, <2>7, <3>1
      <4>4. QED
        BY <2>1, <2>3, <2>5, <2>6, <2>7, <3>1, <4>1, <4>3
    <3>2. CASE op \in GivesBack
      <4>1. more(j) = 1 /\ more(i) \in {0, 1} /\ call(a) = 0 /\ call(b) \in {0, 1}
        BY <2>3, <2>7, <3>2
      <4>2. QED
        BY <2>1, <2>3, <2>5, <2>6, <2>7, <3>2, <4>1
    <3>3. CASE op # 45 /\ op \notin GivesBack
      <4>1. more(j) = more(i) /\ more(i) \in {0, 1} /\ call(a) \in {0, 1} /\ call(b) \in {0, 1}
        BY <2>3, <3>3
      <4>2. QED
        BY <2>1, <2>3, <2>5, <2>6, <2>7, <3>3, <4>1
    <3>4. QED
      BY <3>1, <3>2, <3>3
  <2>10. QED
    BY <2>1, <2>7, <2>8, <2>9 DEF b, j
<1> HIDE DEF S
<1>7. B \subseteq S
  <2>1. Closed(S, code)
    BY <1>6 DEF Closed
  <2>2. QED
    BY <1>1, <1>5, <2>1, BoundariesLeast
<1>8. ASSUME NEW i \in B PROVE Height(T[i]) <= f[1]
  <2>1. /\ Clear(T[i]) \/ G(i)
        /\ Height(T[i]) + more(i) + f[i + 1] <= f[1] + call(T[i])
        /\ f[i + 1] \in Nat /\ f[1] \in Nat /\ Height(T[i]) \in Nat
    BY <1>1, <1>2, <1>7, HeightNat DEF S
  <2> HIDE DEF G
  <2>2. call(T[i]) <= more(i) /\ call(T[i]) \in {0, 1} /\ more(i) \in {0, 1}
    BY <2>1
  <2> HIDE DEF call, more
  <2>3. QED
    BY <2>1, <2>2
<1>9. QED
  BY <1>2, <1>8

LEMMA NestedKeeps ==
  ASSUME NEW c \in Nesting, NEW op
  PROVE  /\ Nested(c, op) \in Nesting /\ Nested(c, op).max >= c.max
         /\ op # 8 => Nested(c, op).size >= c.size
         /\ c.size <= c.max => Nested(c, op).size <= Nested(c, op).max
         /\ op = 5 => Nested(c, op).size = c.size + 1
         /\ op = 8 => Nested(c, op).size = c.size - 1
<1>1. c.size \in Int /\ c.max \in Nat /\ Nested(c, op) \in Nesting
  BY NestedTyped DEF Nesting
<1>2. CASE op = 5
  <2>1. Nested(c, op) = [size |-> c.size + 1, max |-> IF c.size + 1 > c.max THEN c.size + 1 ELSE c.max]
    BY <1>2, Families DEF Nested
  <2>2. QED
    BY <1>1, <1>2, <2>1
<1>3. CASE op = 8
  <2>1. Nested(c, op) = [c EXCEPT !.size = @ - 1]
    BY <1>3, Families DEF Nested
  <2>2. Nested(c, op).size = c.size - 1 /\ Nested(c, op).max = c.max
    BY <2>1 DEF Nesting
  <2>3. QED
    BY <1>1, <1>3, <2>2
<1>4. CASE op # 5 /\ op # 8
  <2>1. Nested(c, op) = c
    BY <1>4, Families DEF Nested
  <2>2. QED
    BY <1>1, <1>4, <2>1
<1>5. QED
  BY <1>2, <1>3, <1>4

LEMMA ScanBounds ==
  ASSUME NEW code, Len(code) \in Nat, NEW f, Scans(f, code), \A i \in 0 .. Len(code) : f[i] \in Nesting
  PROVE  \A i \in 0 .. Len(code) : f[i].size <= f[Len(code)].max
<1> DEFINE n == Len(code)
           Low == {i \in 0 .. n : ~(f[i].size <= f[i].max)}
           Far == {m \in Nat : m <= n /\ ~(f[n - m].max <= f[n].max)}
<1>1. \A i \in 0 .. n : f[i] = ScanAt(f, code, i)
  BY DEF Scans
<1>2. \A i \in 0 .. n : f[i].size \in Int /\ f[i].max \in Nat /\ f[i] \in Nesting
  BY DEF Nesting
<1>3. f[0].size = 0 /\ f[0].max = 0
  BY <1>1 DEF ScanAt
<1>4. \A i \in 0 .. n : i # 0 => i - 1 \in 0 .. n /\ f[i] = Nested(f[i - 1], code[i])
  BY <1>1 DEF ScanAt
<1> HIDE DEF n
<1>5. Low = {}
  <2> SUFFICES ASSUME Low # {} PROVE FALSE
    OBVIOUS
  <2>1. Low \in SUBSET Nat
    OBVIOUS
  <2>2. PICK i \in Low : \A k \in Low : i <= k
    BY <2>1, Least
  <2>3. i \in 0 .. n /\ ~(f[i].size <= f[i].max) /\ i # 0
    BY <1>3, <2>2
  <2>4. i - 1 \in 0 .. n /\ i - 1 < i
    BY <1>4, <2>3
  <2>5. i - 1 \notin Low
    <3> HIDE DEF Low
    <3>1. QED
      BY <2>2, <2>3, <2>4
  <2>6. f[i - 1].size <= f[i - 1].max
    BY <2>4, <2>5
  <2>7. f[i].size <= f[i].max
    <3>1. f[i - 1] \in Nesting /\ f[i] = Nested(f[i - 1], code[i])
      BY <1>2, <1>4, <2>3, <2>4
    <3>2. Nested(f[i - 1], code[i]).size <= Nested(f[i - 1], code[i]).max
      BY <2>6, <3>1, NestedKeeps
    <3>3. QED
      BY <3>1, <3>2
  <2>8. QED
    BY <2>3, <2>7
<1>6. Far = {}
  <2> SUFFICES ASSUME Far # {} PROVE FALSE
    OBVIOUS
  <2>1. Far \in SUBSET Nat
    OBVIOUS
  <2>2. PICK m \in Far : \A k \in Far : m <= k
    BY <2>1, Least
  <2>3. m \in Nat /\ m <= n /\ ~(f[n - m].max <= f[n].max) /\ n \in Nat
    BY <2>2 DEF n
  <2>4. m # 0
    <3>1. n - 0 = n /\ n \in 0 .. n
      BY <2>3
    <3>2. f[n].max \in Nat
      BY <1>2, <3>1
    <3>3. QED
      BY <2>3, <3>1, <3>2
  <2> DEFINE i == n - m + 1
  <2>5. m - 1 \in Nat /\ m - 1 < m /\ m - 1 <= n /\ n - (m - 1) = i /\ i \in 0 .. n /\ i # 0 /\ i - 1 = n - m
        /\ i - 1 \in 0 .. n
    BY <2>3, <2>4
  <2> HIDE DEF i
  <2>6. m - 1 \notin Far
    <3> HIDE DEF Far
    <3>1. QED
      BY <2>2, <2>3, <2>5
  <2>7. f[i].max <= f[n].max
    BY <2>5, <2>6
  <2>8. f[i].max >= f[i - 1].max
    BY <1>2, <1>4, <2>5, NestedKeeps
  <2>9. f[n - m].max \in Nat /\ f[i].max \in Nat /\ f[n].max \in Nat /\ f[i].max >= f[n - m].max
    BY <1>2, <2>3, <2>5, <2>8
  <2>10. QED
    BY <2>3, <2>7, <2>9
<1>7. ASSUME NEW i \in 0 .. n PROVE f[i].size <= f[n].max
  <2>1. f[i].size <= f[i].max
    BY <1>5
  <2>2. n - i \in Nat /\ n - i <= n /\ n - (n - i) = i /\ n \in 0 .. n
    BY DEF n
  <2>3. f[i].max <= f[n].max
    BY <1>6, <2>2
  <2>4. QED
    BY <1>2, <2>1, <2>2, <2>3
<1>8. QED
  BY <1>7 DEF n

LEMMA StepBlocks ==
  ASSUME NEW img, NEW op \in Listed, NEW arg, NEW a \in Shapes, Allowed(img, op, arg, a),
         NEW b, b = After(op, arg, a)
  PROVE  b.blocks = IF op = 5 THEN a.blocks + 1 ELSE IF op = 8 THEN a.blocks - 1 ELSE a.blocks
<1>1. op \in GivesBack => op # 5 /\ op # 8
  BY NotGivesBack
<1>2. a.blocks \in Nat /\ (op = 8 => a.blocks > 0)
  BY AllowedTakes
<1>3. (op = 5 => Bare(a.blocks + 1).blocks = a.blocks + 1) /\ (op = 8 => Bare(a.blocks - 1).blocks = a.blocks - 1)
  BY DEF Bare
<1>4. CASE op = 5 \/ op = 8
  BY <1>1, <1>3, <1>4, StepShapes
<1>5. CASE op # 5 /\ op # 8
  <2>1. (\E n, s : Puts(a, n, s, b)) \/ (\E n : Drops(a, n, b)) \/ b = a
    BY <1>5, StepShapes
  <2>2. b.blocks = a.blocks
    BY <2>1 DEF Puts, Drops
  <2>3. QED
    BY <1>5, <2>2
<1>6. QED
  BY <1>4, <1>5

\* Without blocks none is counted, ...
LEMMA NoBlocks ==
  ASSUME NEW img, NEW code, Readable(code), InstrAt(code, Op.push_stack_pointer) = {}, NEW T, Laid(T, img, code)
  PROVE  \A i \in Boundaries(code) : T[i].blocks <= CountPointerStackSize(code)
<1> DEFINE B == Boundaries(code)
           S == {i \in B : T[i].blocks = 0}
<1>1. /\ code \in Seq(Byte) /\ Len(code) \in Nat /\ B \in SUBSET Nat /\ 0 \in B
      /\ \A i \in B : i < Len(code) => Behind(code, i) \in B /\ code[i + 1] \in Listed
      /\ T[0] = Bare(0) /\ \A i \in B : T[i] \in Shapes
  BY BoundariesClosed DEF Whole, Closed, Laid, Readable, Disassembles
<1>2. S \in SUBSET Nat /\ 0 \in S
  <2>1. T[0].blocks = 0
    BY <1>1, BareShape
  <2>2. QED
    BY <1>1, <2>1
<1>3. ASSUME NEW i \in S, i < Len(code) PROVE Behind(code, i) \in S
  <2> DEFINE op == code[i + 1]
             arg == OperandOf(code, i)
             a == T[i]
             j == Behind(code, i)
             b == T[j]
  <2>1. i \in B /\ j \in B /\ op \in Listed /\ a \in Shapes /\ b \in Shapes /\ a.blocks = 0
    BY <1>1, <1>3
  <2>2. Allowed(img, op, arg, a) /\ b = After(op, arg, a)
    BY <1>3, <2>1 DEF Laid, Placed, AfterAt
  <2>3. op # 5
    BY <1>3, <2>1, Families DEF InstrAt
  <2>4. op # 8
    <3> HIDE DEF a, op, arg
    <3>1. op = 8 => a.blocks > 0
      BY <2>1, <2>2, AllowedTakes
    <3>2. QED
      BY <2>1, <3>1
  <2> HIDE DEF a, b, op, arg, j
  <2>5. b.blocks = a.blocks
    BY <2>1, <2>2, <2>3, <2>4, StepBlocks
  <2>6. QED
    BY <2>1, <2>5 DEF b, j
<1> HIDE DEF S
<1>4. B \subseteq S
  <2>1. Closed(S, code)
    BY <1>3 DEF Closed
  <2>2. QED
    BY <1>1, <1>2, <2>1, BoundariesLeast
<1>5. CountPointerStackSize(code) \in Nat
  BY <1>1, CountPointerStackSizeNat
<1>6. QED
  BY <1>4, <1>5 DEF S

\* ... and with blocks no less than there are.
LEMMA PointerRoom ==
  ASSUME NEW img, NEW code, Readable(code), Countable(code), NEW T, Laid(T, img, code)
  PROVE  \A i \in Boundaries(code) : T[i].blocks <= CountPointerStackSize(code)
<1> SUFFICES ASSUME InstrAt(code, Op.push_stack_pointer) # {}
             PROVE  \A i \in Boundaries(code) : T[i].blocks <= CountPointerStackSize(code)
  BY NoBlocks
<1> DEFINE B == Boundaries(code)
<1>1. /\ code \in Seq(Byte) /\ Len(code) \in Nat /\ B \in SUBSET Nat /\ 0 \in B /\ B \subseteq 0 .. Len(code)
      /\ \A i \in B : i < Len(code) => Behind(code, i) \in B /\ code[i + 1] \in Listed
      /\ T[0] = Bare(0) /\ \A i \in B : T[i] \in Shapes
  BY BoundariesClosed DEF Whole, Closed, Laid, Readable, Disassembles
<1>2. PICK f : /\ Scans(f, code) /\ CountPointerStackSize(code) = f[Len(code)].max
               /\ \A i \in 0 .. Len(code) : f[i] \in Nesting
  BY <1>1, CountPointerStackSizeScan
<1>3. \A i \in 0 .. Len(code) : i # 0 => i - 1 \in 0 .. Len(code) /\ f[i] = Nested(f[i - 1], code[i])
  BY <1>1, <1>2 DEF Scans, ScanAt
<1>4. f[0].size = 0
  BY <1>1, <1>2 DEF Scans, ScanAt
<1>5. \A i \in 0 .. Len(code) : f[i].size \in Int /\ f[i].max \in Nat
  BY <1>2 DEF Nesting
<1> DEFINE S == {i \in B : T[i].blocks <= f[i].size}
<1>6. S \in SUBSET Nat /\ 0 \in S
  <2>1. T[0].blocks = 0
    BY <1>1, BareShape
  <2>2. QED
    BY <1>1, <1>4, <2>1
<1>7. ASSUME NEW i \in S, i < Len(code) PROVE Behind(code, i) \in S
  <2> DEFINE op == code[i + 1]
             arg == OperandOf(code, i)
             a == T[i]
             j == Behind(code, i)
             b == T[j]
  <2>1. /\ i \in B /\ j \in B /\ op \in Listed /\ a \in Shapes /\ b \in Shapes /\ i \in Nat
        /\ j \in 0 .. Len(code) /\ a.blocks <= f[i].size /\ a.blocks \in Nat /\ op \in Int
    BY <1>1, <1>7, ListedFamilies DEF Shapes
  <2>2. Allowed(img, op, arg, a) /\ b = After(op, arg, a)
    BY <1>7, <2>1 DEF Laid, Placed, AfterAt
  <2>3. i + 1 \in 0 .. Len(code) /\ i \in 0 .. Len(code) /\ i + 1 # 0 /\ (i + 1) - 1 = i
    BY <1>1, <1>7, <2>1
  <2>4. f[i + 1] = Nested(f[i], op) /\ f[i] \in Nesting
    BY <1>2, <1>3, <2>3
  <2>5. j = IF op \in WithOperand THEN i + 3 ELSE i + 1
    BY <2>1 DEF Behind, OpSize
  <2> DEFINE d == IF op = 5 THEN 1 ELSE IF op = 8 THEN -1 ELSE 0
  <2>6. b.blocks = a.blocks + d /\ b.blocks \in Nat
    <3> HIDE DEF a, b, op, arg
    <3>1. b.blocks = IF op = 5 THEN a.blocks + 1 ELSE IF op = 8 THEN a.blocks - 1 ELSE a.blocks
      BY <2>1, <2>2, StepBlocks
    <3>2. b.blocks \in Nat
      BY <2>1 DEF Shapes
    <3>3. QED
      BY <2>1, <3>1, <3>2
  <2>7. f[i + 1].size >= f[i].size + d
    <3>1. f[i].size \in Int /\ f[i + 1].size \in Int
      BY <1>5, <2>3
    <3> HIDE DEF op
    <3>2. QED
      BY <2>4, <3>1, NestedKeeps
  <2>8. f[j].size >= f[i + 1].size
    <3>1. CASE op \notin WithOperand
      BY <1>5, <2>3, <2>5, <3>1
    <3>2. CASE op \in WithOperand
      <4>1. j = i + 3 /\ code[i + 2] # 8 /\ code[i + 3] # 8
        BY <1>7, <2>1, <2>5, <3>2, Families DEF Countable
      <4>2. /\ i + 2 \in 0 .. Len(code) /\ i + 2 # 0 /\ (i + 2) - 1 = i + 1
            /\ i + 3 \in 0 .. Len(code) /\ i + 3 # 0 /\ (i + 3) - 1 = i + 2
        BY <1>1, <2>1, <4>1
      <4>3. f[i + 2] = Nested(f[i + 1], code[i + 2]) /\ f[i + 3] = Nested(f[i + 2], code[i + 3])
        BY <1>3, <4>2
      <4>4. f[i + 1] \in Nesting /\ f[i + 2] \in Nesting
        BY <1>2, <2>3, <4>2
      <4>5. f[i + 2].size >= f[i + 1].size
        BY <4>1, <4>3, <4>4, NestedKeeps
      <4>6. f[i + 3].size >= f[i + 2].size
        BY <4>1, <4>3, <4>4, NestedKeeps
      <4>7. f[i + 1].size \in Int /\ f[i + 2].size \in Int /\ f[i + 3].size \in Int
        BY <1>5, <2>3, <4>2
      <4> HIDE DEF j
      <4>8. QED
        BY <4>1, <4>5, <4>6, <4>7
    <3>3. QED
      BY <3>1, <3>2
  <2>9. f[i].size \in Int /\ f[i + 1].size \in Int /\ f[j].size \in Int /\ d \in Int
    BY <1>5, <2>1, <2>3
  <2> HIDE DEF a, b, op, j, d
  <2>10. b.blocks <= f[j].size
    BY <2>1, <2>6, <2>7, <2>8, <2>9
  <2>11. QED
    BY <2>1, <2>10 DEF b, j
<1> HIDE DEF S
<1>8. B \subseteq S
  <2>1. Closed(S, code)
    BY <1>7 DEF Closed
  <2>2. QED
    BY <1>1, <1>6, <2>1, BoundariesLeast
<1>9. ASSUME NEW i \in B PROVE T[i].blocks <= f[Len(code)].max
  <2>1. i \in 0 .. Len(code) /\ Len(code) \in 0 .. Len(code) /\ T[i].blocks <= f[i].size /\ T[i].blocks \in Nat
    BY <1>1, <1>8 DEF S, Shapes
  <2>2. f[i].size <= f[Len(code)].max
    BY <1>1, <1>2, <2>1, ScanBounds
  <2>3. QED
    BY <1>5, <2>1, <2>2
<1>10. QED
  BY <1>2, <1>9

-----------------------------------------------------------------------------
\* Shapes that are laid along finished code, alike where a goto leads and bare
\* at its end, are the shapes that the walk finds.
LEMMA LaidShaped ==
  ASSUME NEW img, Readable(img.code), Countable(img.code),
         img.stack_size = CountStackSize(img.code), img.pt_stack_size = CountPointerStackSize(img.code),
         NEW T, Laid(T, img, img.code), T[Len(img.code)] = Bare(0),
         \A g \in InstrAt(img.code, Op.goto) :
           /\ \A l \in InstrAt(img.code, Op.label) :
                g < l /\ Operand(img.code, g) = Operand(img.code, l) => T[l] = T[Behind(img.code, g)]
           /\ \E l \in InstrAt(img.code, Op.label) :
                g < l /\ Operand(img.code, g) = Operand(img.code, l)
  PROVE  Shaped(img)
<1> DEFINE code == img.code
           B == Boundaries(code)
           U == ShapesOf(img)
<1>1. /\ code \in Seq(Byte) /\ Len(code) \in Nat /\ Whole(code) /\ B \in SUBSET Nat /\ 0 \in B
      /\ Len(code) \in B /\ B \subseteq 0 .. Len(code)
      /\ \A i \in B : i < Len(code) => Behind(code, i) \in B
  BY BoundariesClosed DEF Whole, Closed, Readable
<1> HIDE DEF B, U
<1>2. (\A i \in B : \E p \in Walk(img) : p[1] = i) /\ \A i \in B : U[i] = T[i]
  <2>1. /\ \A i \in Boundaries(img.code) : \E p \in Walk(img) : p[1] = i
        /\ \A i \in Boundaries(img.code) : ShapesOf(img)[i] = T[i]
    <3>1. img.code \in Seq(Byte) /\ Whole(img.code) /\ Laid(T, img, img.code)
      BY <1>1
    <3>2. QED
      BY <3>1, ShapesLaid
  <2>2. QED
    BY <2>1 DEF B, U
<1> USE DEF B
<1>3. \A i \in B : T[i] \in Shapes /\ Height(T[i]) <= img.stack_size /\ T[i].blocks <= img.pt_stack_size
  BY StackRoom, PointerRoom DEF Laid
<1>4. \A i \in B : i < Len(code) => /\ Allowed(img, code[i + 1], OperandOf(code, i), T[i])
                                     /\ T[Behind(code, i)] = AfterAt(code, i, T[i])
  BY DEF Laid, Placed
<1>5. T[0] = Bare(0) /\ T[Len(code)] = Bare(0)
  BY DEF Laid
<1>6. ASSUME NEW g \in InstrAt(code, Op.goto)
      PROVE  /\ \A l \in InstrAt(code, Op.label) :
                  g < l /\ Operand(code, g) = Operand(code, l) => U[l] = U[Behind(code, g)]
             /\ \E l \in InstrAt(code, Op.label) :
                  Behind(code, g) <= l /\ Operand(code, g) = Operand(code, l)
  <2>1. g \in B /\ g < Len(code) /\ Behind(code, g) \in B
    BY <1>1 DEF InstrAt
  <2>2. \A l \in InstrAt(code, Op.label) : l \in B
    BY DEF InstrAt
  <2>3. \A l \in InstrAt(code, Op.label) : g < l => Behind(code, g) <= l
    BY <1>1, <2>1, <2>2, BoundariesApart
  <2>4. QED
    BY <1>2, <2>1, <2>2, <2>3
<1> HIDE DEF U
<1>7. Follow(U, img)
  <2>1. U[0] = Bare(0) /\ U[Len(code)] = Bare(0)
    BY <1>1, <1>2, <1>5
  <2>2. ASSUME NEW i \in B
        PROVE  /\ U[i] \in Shapes /\ Room(img, U[i])
               /\ i < Len(code) => /\ Allowed(img, code[i + 1], OperandOf(code, i), U[i])
                                   /\ U[Behind(code, i)] = AfterAt(code, i, U[i])
    BY <1>1, <1>2, <1>3, <1>4 DEF Room, Height
  <2>3. QED
    BY <1>6, <2>1, <2>2 DEF Follow
<1>8. QED
  BY <1>2, <1>7 DEF Shaped, U

-----------------------------------------------------------------------------
(* Shapes laid along the code that is generated, and the blocks that each    *)
(* open if statement was entered with.                                       *)

ArgOf(op, operand) == IF op \in WithOperand THEN operand ELSE 0
Emits(img, op, operand, a, b) ==
  /\ op \in Listed /\ operand \in Int /\ (op \in WithOperand => 0 <= operand /\ operand <= UINT16_MAX)
  /\ a \in Shapes /\ b \in Shapes
  /\ Allowed(img, op, ArgOf(op, operand), a) /\ b = After(op, ArgOf(op, operand), a)
  /\ Clear(a) \/ op = Op.invoke
  /\ op = Op.invoke => Len(ArgsOf(a)) > 0
Meets(T, code, open, ifs) ==
  /\ Len(open) = Len(ifs)
  /\ \A g \in Gotos(code) :
       /\ \A k \in 1 .. Len(open) : Operand(code, g) = open[k] => T[Behind(code, g)] = Bare(ifs[k])
       /\ \A l \in Labels(code) : g < l /\ Operand(code, g) = Operand(code, l) => T[l] = T[Behind(code, g)]
Fitted(img, code, open, ifs, a) == \E T : Laid(T, img, code) /\ T[Len(code)] = a /\ Meets(T, code, open, ifs)

LEMMA OperandOfAppended ==
  ASSUME NEW code \in Seq(Byte), NEW op \in Opcodes, NEW operand \in Int,
         op \in WithOperand => 0 <= operand /\ operand <= UINT16_MAX
  PROVE  /\ (code \o Bytes(op, operand))[Len(code) + 1] = op
         /\ OperandOf(code \o Bytes(op, operand), Len(code)) = ArgOf(op, operand)
         /\ Behind(code \o Bytes(op, operand), Len(code)) = Len(code \o Bytes(op, operand))
<1> DEFINE new == code \o Bytes(op, operand)
<1>1. new[Len(code) + 1] = op /\ Len(new) = Len(code) + 1 + OpSize(op)
  BY Appended
<1>2. op \in WithOperand => Operand(new, Len(code)) = operand
  BY OperandNew
<1> HIDE DEF new
<1>3. OperandOf(new, Len(code)) = ArgOf(op, operand)
  BY <1>1, <1>2 DEF OperandOf, ArgOf
<1>4. Len(code) \in Nat /\ OpSize(op) \in Nat
  BY OpSizes
<1>5. Behind(new, Len(code)) = Len(new)
  BY <1>1, <1>4 DEF Behind
<1>6. QED
  BY <1>1, <1>3, <1>5 DEF new

\* What was there before is read as before.
LEMMA KeptInside ==
  ASSUME NEW code \in Seq(Byte), Whole(code), NEW op \in Opcodes, NEW operand \in Int,
         NEW i \in Boundaries(code), i < Len(code)
  PROVE  /\ (code \o Bytes(op, operand))[i + 1] = code[i + 1]
         /\ Behind(code \o Bytes(op, operand), i) = Behind(code, i)
         /\ Behind(code, i) \in Boundaries(code) /\ Behind(code, i) <= Len(code)
         /\ OperandOf(code \o Bytes(op, operand), i) = OperandOf(code, i)
<1> DEFINE new == code \o Bytes(op, operand)
<1>1. i \in Nat /\ Len(code) \in Nat /\ i + 1 \in 1 .. Len(code)
  BY DEF Whole
<1>2. new[i + 1] = code[i + 1]
  BY <1>1, Appended
<1>3. Behind(new, i) = Behind(code, i)
  BY <1>2 DEF Behind
<1>4. Behind(code, i) \in Boundaries(code) /\ Behind(code, i) <= Len(code)
  <2>1. Behind(code, i) \in Boundaries(code)
    BY <1>1, BoundariesClosed DEF Closed
  <2>2. QED
    BY <1>1, <2>1 DEF Whole
<1>5. OperandOf(new, i) = OperandOf(code, i)
  <2>1. CASE code[i + 1] \in WithOperand
    <3> DEFINE o == code[i + 1]
    <3>1. o \in WithOperand /\ i \in InstrAt(code, o)
      BY <1>1, <2>1 DEF InstrAt
    <3> HIDE DEF o
    <3>2. Operand(new, i) = Operand(code, i)
      BY <3>1, OperandKept
    <3>3. QED
      BY <1>2, <3>2 DEF OperandOf
  <2>2. CASE code[i + 1] \notin WithOperand
    BY <1>2, <2>2 DEF OperandOf
  <2>3. QED
    BY <2>1, <2>2
<1>6. QED
  BY <1>2, <1>3, <1>4, <1>5

LaidOn(T, code, new, b) == [i \in Boundaries(new) |-> IF i <= Len(code) THEN T[i] ELSE b]

Prolongs(U, T, img, code, new, b) ==
  /\ Laid(U, img, new) /\ U[Len(new)] = b /\ U[Len(code)] = T[Len(code)]
  /\ \A i \in Boundaries(code) : U[i] = T[i]

LEMMA LaidExtends ==
  ASSUME NEW img, NEW code \in Seq(Byte), Whole(code), NEW T, Laid(T, img, code),
         NEW op, NEW operand, NEW b, Emits(img, op, operand, T[Len(code)], b)
  PROVE  \E U : Prolongs(U, T, img, code, code \o Bytes(op, operand), b)
<1>01. PICK new : new = code \o Bytes(op, operand)
  OBVIOUS
<1>02. PICK U : U = LaidOn(T, code, new, b)
  OBVIOUS
<1>03. PICK a : a = T[Len(code)]
  OBVIOUS
<1>04. Emits(img, op, operand, a, b)
  BY <1>03
<1>1. op \in Opcodes /\ operand \in Int /\ (op \in WithOperand => 0 <= operand /\ operand <= UINT16_MAX)
      /\ a \in Shapes /\ b \in Shapes
  BY <1>04, ListedOpcodes DEF Emits
<1>2. /\ new \in Seq(Byte) /\ Len(new) = Len(code) + 1 + OpSize(op)
      /\ Boundaries(new) = Boundaries(code) \cup {Len(new)}
  <2>1. new \in Seq(Byte) /\ Len(new) = Len(code) + 1 + OpSize(op)
    BY <1>01, <1>1, Appended
  <2>2. Boundaries(new) = Boundaries(code) \cup {Len(code) + 1 + OpSize(op)}
    BY <1>01, <1>1, BoundariesAppend
  <2>3. QED
    BY <2>1, <2>2
<1>3. Len(code) \in Nat /\ OpSize(op) \in Nat /\ Len(new) > Len(code) /\ Len(new) \in Nat
  BY <1>2, OpSizes
<1>4. Len(code) \in Boundaries(code) /\ Boundaries(code) \subseteq 0 .. Len(code)
  BY DEF Whole
<1>5. \A i \in Boundaries(code) : U[i] = T[i] /\ i \in Nat /\ i <= Len(code) /\ i < Len(new)
  <2> SUFFICES ASSUME NEW i \in Boundaries(code) PROVE U[i] = T[i] /\ i \in Nat /\ i <= Len(code) /\ i < Len(new)
    OBVIOUS
  <2>1. i \in Nat /\ i <= Len(code) /\ i \in Boundaries(new)
    BY <1>2, <1>3, <1>4
  <2>2. U[i] = T[i]
    BY <1>02, <2>1 DEF LaidOn
  <2>3. QED
    BY <1>3, <2>1, <2>2
<1>6. U[Len(new)] = b
  BY <1>02, <1>2, <1>3 DEF LaidOn
<1>7. U[0] = Bare(0)
  <2>1. 0 \in Boundaries(code)
    BY <1>3, BoundariesClosed
  <2>2. QED
    BY <1>5, <2>1 DEF Laid
<1>8. ASSUME NEW i \in Boundaries(new) PROVE U[i] \in Shapes /\ (i < Len(new) => Placed(U, img, new, i))
  <2>1. CASE i = Len(new)
    BY <1>1, <1>3, <1>6, <2>1
  <2>2. CASE i = Len(code)
    <3>1. U[i] = a
      BY <1>03, <1>4, <1>5, <2>2
    <3>2. new[i + 1] = op /\ OperandOf(new, i) = ArgOf(op, operand) /\ Behind(new, i) = Len(new)
      BY <1>01, <1>1, <2>2, OperandOfAppended
    <3>3. Placed(U, img, new, i)
      BY <1>04, <1>6, <3>1, <3>2 DEF Placed, AfterAt, Emits
    <3>4. QED
      BY <1>1, <3>1, <3>3
  <2>3. CASE i \in Boundaries(code) /\ i # Len(code)
    <3>1. i < Len(code) /\ U[i] = T[i]
      BY <1>3, <1>5, <2>3
    <3>2. T[i] \in Shapes /\ Placed(T, img, code, i)
      BY <2>3, <3>1 DEF Laid
    <3>3. /\ new[i + 1] = code[i + 1] /\ Behind(new, i) = Behind(code, i) /\ OperandOf(new, i) = OperandOf(code, i)
          /\ Behind(code, i) \in Boundaries(code)
      BY <1>01, <1>1, <2>3, <3>1, KeptInside
    <3>4. U[Behind(new, i)] = T[Behind(code, i)]
      BY <1>5, <3>3
    <3>5. Placed(U, img, new, i)
      BY <3>1, <3>2, <3>3, <3>4 DEF Placed, AfterAt
    <3>6. QED
      BY <3>1, <3>2, <3>5
  <2>4. QED
    BY <1>2, <2>1, <2>2, <2>3
<1>9. Laid(U, img, new) /\ U[Len(new)] = b /\ (\A i \in Boundaries(code) : U[i] = T[i]) /\ U[Len(code)] = T[Len(code)]
  BY <1>2, <1>4, <1>5, <1>6, <1>7, <1>8 DEF Laid
<1>10. Prolongs(U, T, img, code, new, b)
  BY <1>9 DEF Prolongs
<1>11. QED
  BY <1>01, <1>10

LEMMA JumpsKept ==
  ASSUME NEW code \in Seq(Byte), Whole(code), NEW op \in Opcodes, NEW operand \in Int,
         NEW new, new = code \o Bytes(op, operand), NEW i \in Gotos(code) \cup Labels(code)
  PROVE  /\ i \in Boundaries(code) /\ i \in Nat /\ i < Len(code)
         /\ Operand(new, i) = Operand(code, i)
         /\ Behind(new, i) = Behind(code, i) /\ Behind(code, i) \in Boundaries(code)
<1>1. i \in Boundaries(code) /\ i < Len(code)
  BY DEF Gotos, Labels, InstrAt
<1>2. i \in Nat
  BY <1>1 DEF Whole
<1>3. Operand(new, i) = Operand(code, i)
  BY OperandKept, OpIf DEF Gotos, Labels
<1>4. Behind(new, i) = Behind(code, i) /\ Behind(code, i) \in Boundaries(code)
  BY <1>1, KeptInside
<1>5. QED
  BY <1>1, <1>2, <1>3, <1>4

LEMMA JumpsMore ==
  ASSUME NEW code \in Seq(Byte), Whole(code), NEW op \in Opcodes, NEW operand \in Int
  PROVE  /\ Gotos(code \o Bytes(op, operand)) = IF op = Op.goto THEN Gotos(code) \cup {Len(code)} ELSE Gotos(code)
         /\ Labels(code \o Bytes(op, operand)) = IF op = Op.label THEN Labels(code) \cup {Len(code)} ELSE Labels(code)
<1> DEFINE new == code \o Bytes(op, operand)
<1>1. InstrAt(new, Op.goto) = InstrAt(code, Op.goto) \cup (IF op = Op.goto THEN {Len(code)} ELSE {})
  BY InstrAppend
<1>2. InstrAt(new, Op.label) = InstrAt(code, Op.label) \cup (IF op = Op.label THEN {Len(code)} ELSE {})
  BY InstrAppend
<1> HIDE DEF new
<1>3. Gotos(new) = IF op = Op.goto THEN Gotos(code) \cup {Len(code)} ELSE Gotos(code)
  BY <1>1 DEF Gotos
<1>4. Labels(new) = IF op = Op.label THEN Labels(code) \cup {Len(code)} ELSE Labels(code)
  BY <1>2 DEF Labels
<1>5. QED
  BY <1>3, <1>4 DEF new

\* An instruction that is no jump.
LEMMA FittedEmit ==
  ASSUME NEW img, NEW code \in Seq(Byte), Whole(code), NEW open, NEW ifs, NEW a, Fitted(img, code, open, ifs, a),
         NEW op \in Plain, NEW operand, NEW b, Emits(img, op, operand, a, b)
  PROVE  Fitted(img, code \o Bytes(op, operand), open, ifs, b)
<1>0. PICK new : new = code \o Bytes(op, operand)
  OBVIOUS
<1>1. PICK T : Laid(T, img, code) /\ T[Len(code)] = a /\ Meets(T, code, open, ifs)
  BY DEF Fitted
<1>2. op \in Opcodes /\ operand \in Int /\ op # Op.goto /\ op # Op.label
  BY ListedOpcodes DEF Emits, Plain
<1>3. PICK U : Laid(U, img, new) /\ U[Len(new)] = b /\ \A i \in Boundaries(code) : U[i] = T[i]
  <2>1. Emits(img, op, operand, T[Len(code)], b)
    BY <1>1
  <2>2. PICK U : Prolongs(U, T, img, code, code \o Bytes(op, operand), b)
    BY <1>1, <2>1, LaidExtends
  <2>3. QED
    BY <1>0, <2>2 DEF Prolongs
<1>4. Gotos(new) = Gotos(code) /\ Labels(new) = Labels(code)
  <2>1. /\ Gotos(code \o Bytes(op, operand)) = IF op = Op.goto THEN Gotos(code) \cup {Len(code)} ELSE Gotos(code)
        /\ Labels(code \o Bytes(op, operand)) = IF op = Op.label THEN Labels(code) \cup {Len(code)} ELSE Labels(code)
    BY <1>2, JumpsMore, Zenon
  <2>2. QED
    BY <1>0, <1>2, <2>1
<1>5. \A i \in Gotos(code) \cup Labels(code) :
        i \in Boundaries(code) /\ Operand(new, i) = Operand(code, i)
        /\ Behind(new, i) = Behind(code, i) /\ Behind(code, i) \in Boundaries(code)
  BY <1>0, <1>2, JumpsKept
<1>6. Meets(U, new, open, ifs)
  <2>1. Len(open) = Len(ifs)
    BY <1>1 DEF Meets
  <2>2. ASSUME NEW g \in Gotos(new)
        PROVE  /\ \A k \in 1 .. Len(open) : Operand(new, g) = open[k] => U[Behind(new, g)] = Bare(ifs[k])
               /\ \A l \in Labels(new) : g < l /\ Operand(new, g) = Operand(new, l) => U[l] = U[Behind(new, g)]
    <3>1. g \in Gotos(code) /\ U[Behind(new, g)] = T[Behind(code, g)] /\ Operand(new, g) = Operand(code, g)
      BY <1>3, <1>4, <1>5
    <3>2. \A l \in Labels(new) : l \in Labels(code) /\ U[l] = T[l] /\ Operand(new, l) = Operand(code, l)
      BY <1>3, <1>4, <1>5
    <3>3. QED
      BY <1>1, <3>1, <3>2 DEF Meets
  <2>3. QED
    BY <2>1, <2>2 DEF Meets
<1>7. QED
  BY <1>0, <1>3, <1>6 DEF Fitted

\* The goto of an if statement: no other has its label.
LEMMA FittedOpen ==
  ASSUME NEW img, NEW code \in Seq(Byte), Whole(code), NEW open, NEW ifs \in Seq(Nat), NEW a,
         Fitted(img, code, open, ifs, a), NEW n, Rising(open, n), Paired(code, open, n),
         NEW k \in Nat, Emits(img, Op.goto, n, a, Bare(k))
  PROVE  Fitted(img, code \o Bytes(Op.goto, n), Append(open, n), Append(ifs, k), Bare(k))
<1>0. PICK new : new = code \o Bytes(Op.goto, n)
  OBVIOUS
<1> DEFINE open2 == Append(open, n)
           ifs2 == Append(ifs, k)
<1>1. PICK T : Laid(T, img, code) /\ T[Len(code)] = a /\ Meets(T, code, open, ifs)
  BY DEF Fitted
<1>2. Op.goto \in Opcodes /\ n \in Int /\ n \in Nat /\ n <= UINT16_MAX /\ Op.goto \in WithOperand /\ Op.goto # Op.label
  BY OpIf DEF Emits, Rising
<1>3. PICK U : Laid(U, img, new) /\ U[Len(new)] = Bare(k) /\ \A i \in Boundaries(code) : U[i] = T[i]
  <2>1. Emits(img, Op.goto, n, T[Len(code)], Bare(k))
    BY <1>1
  <2>2. PICK U : Prolongs(U, T, img, code, code \o Bytes(Op.goto, n), Bare(k))
    BY <1>1, <2>1, LaidExtends
  <2>3. QED
    BY <1>0, <2>2 DEF Prolongs
<1>4. Gotos(new) = Gotos(code) \cup {Len(code)} /\ Labels(new) = Labels(code)
  <2>1. /\ Gotos(code \o Bytes(Op.goto, n)) = IF Op.goto = Op.goto THEN Gotos(code) \cup {Len(code)} ELSE Gotos(code)
        /\ Labels(code \o Bytes(Op.goto, n)) = IF Op.goto = Op.label THEN Labels(code) \cup {Len(code)} ELSE Labels(code)
    BY <1>2, JumpsMore, Zenon
  <2>2. QED
    BY <1>0, <1>2, <2>1
<1>5. \A i \in Gotos(code) \cup Labels(code) :
        i \in Boundaries(code) /\ i < Len(code) /\ Operand(new, i) = Operand(code, i)
        /\ Behind(new, i) = Behind(code, i) /\ Behind(code, i) \in Boundaries(code)
  BY <1>0, <1>2, JumpsKept
<1>6. Operand(new, Len(code)) = n /\ Behind(new, Len(code)) = Len(new)
  <2>1. Operand(new, Len(code)) = n
    BY <1>0, <1>2, OperandNew
  <2>2. Behind(new, Len(code)) = Len(new)
    BY <1>0, <1>2, OperandOfAppended
  <2>3. QED
    BY <2>1, <2>2
<1>7. /\ open \in Seq(Nat) /\ Len(open) = Len(ifs) /\ Len(open) \in Nat /\ Len(code) \in Nat
      /\ \A j \in 1 .. Len(open) : open[j] < n
      /\ \A g \in Gotos(code) : Operand(code, g) < n /\ Operand(code, g) \in Nat
  <2>1. open \in Seq(Nat) /\ \A j \in 1 .. Len(open) : open[j] < n
    BY DEF Rising
  <2>2. Len(open) = Len(ifs)
    BY <1>1 DEF Meets
  <2>3. \A g \in Gotos(code) : Targets(code)[g] < n /\ Targets(code)[g] \in Nat
    BY DEF Paired, PairedBy
  <2>4. \A g \in Gotos(code) : Targets(code)[g] = Operand(code, g)
    BY DEF Targets
  <2>5. \A g \in Gotos(code) : Operand(code, g) < n /\ Operand(code, g) \in Nat
    BY <2>3, <2>4
  <2>6. open \in Seq(Nat) /\ Len(open) \in Nat /\ Len(code) \in Nat
    BY DEF Rising
  <2>7. QED
    BY <2>1, <2>2, <2>5, <2>6
<1>8. /\ Len(open2) = Len(open) + 1 /\ Len(ifs2) = Len(ifs) + 1
      /\ open2[Len(open) + 1] = n /\ ifs2[Len(open) + 1] = k
      /\ \A j \in 1 .. Len(open) : open2[j] = open[j] /\ ifs2[j] = ifs[j]
  BY <1>2, <1>7
<1> HIDE DEF open2, ifs2
<1>9. Meets(U, new, open2, ifs2)
  <2>1. Len(open2) = Len(ifs2)
    BY <1>7, <1>8
  <2>2. ASSUME NEW g \in Gotos(new)
        PROVE  /\ \A j \in 1 .. Len(open2) : Operand(new, g) = open2[j] => U[Behind(new, g)] = Bare(ifs2[j])
               /\ \A l \in Labels(new) : g < l /\ Operand(new, g) = Operand(new, l) => U[l] = U[Behind(new, g)]
    <3>1. CASE g = Len(code)
      <4>1. U[Behind(new, g)] = Bare(k) /\ Operand(new, g) = n
        BY <1>3, <1>6, <3>1
      <4>2. ASSUME NEW j \in 1 .. Len(open2), open2[j] = n PROVE ifs2[j] = k
        <5>1. j = Len(open) + 1 \/ j \in 1 .. Len(open)
          BY <1>7, <1>8
        <5>2. ASSUME j \in 1 .. Len(open) PROVE FALSE
          <6>1. open2[j] = open[j] /\ open[j] < n
            BY <1>7, <1>8, <5>2
          <6>2. n < n
            BY <4>2, <6>1
          <6>3. QED
            BY <1>2, <6>2
        <5>3. QED
          BY <1>8, <5>1, <5>2
      <4>3. ASSUME NEW l \in Labels(new) PROVE ~(g < l)
        <5>1. l \in Boundaries(code) /\ l < Len(code)
          BY <1>4, <1>5
        <5>2. l \in Nat
          BY <5>1 DEF Whole
        <5>3. QED
          BY <1>7, <3>1, <5>1, <5>2
      <4>4. QED
        BY <4>1, <4>2, <4>3
    <3>2. CASE g \in Gotos(code)
      <4>1. U[Behind(new, g)] = T[Behind(code, g)] /\ Operand(new, g) = Operand(code, g)
        BY <1>3, <1>5, <3>2
      <4>2. \A l \in Labels(new) : l \in Labels(code) /\ U[l] = T[l] /\ Operand(new, l) = Operand(code, l)
        BY <1>3, <1>4, <1>5
      <4>3. ASSUME NEW j \in 1 .. Len(open2), Operand(new, g) = open2[j]
            PROVE  U[Behind(new, g)] = Bare(ifs2[j])
        <5>1. Operand(code, g) < n /\ Operand(code, g) \in Nat
          BY <1>7, <3>2
        <5>2. j = Len(open) + 1 \/ j \in 1 .. Len(open)
          BY <1>7, <1>8
        <5>3. j # Len(open) + 1
          BY <1>2, <1>8, <4>1, <4>3, <5>1
        <5>4. j \in 1 .. Len(open) /\ open2[j] = open[j] /\ ifs2[j] = ifs[j]
          BY <1>8, <5>2, <5>3
        <5>5. T[Behind(code, g)] = Bare(ifs[j])
          BY <1>1, <3>2, <4>1, <4>3, <5>4 DEF Meets
        <5>6. QED
          BY <4>1, <5>4, <5>5
      <4>4. ASSUME NEW l \in Labels(new), g < l, Operand(new, g) = Operand(new, l)
            PROVE  U[l] = U[Behind(new, g)]
        BY <1>1, <3>2, <4>1, <4>2, <4>4 DEF Meets
      <4>5. QED
        BY <4>3, <4>4
    <3>3. QED
      BY <1>4, <3>1, <3>2
  <2>3. QED
    BY <2>1, <2>2 DEF Meets
<1>10. QED
  BY <1>0, <1>3, <1>9 DEF Fitted, open2, ifs2

\* The label of an if statement, with as many blocks open as when it was entered.
LEMMA FittedClose ==
  ASSUME NEW img, NEW code \in Seq(Byte), Whole(code), NEW open \in Seq(Nat), NEW ifs \in Seq(Nat), open # <<>>,
         NEW a, Fitted(img, code, open, ifs, a), a = Bare(ifs[Len(ifs)]),
         Emits(img, Op.label, open[Len(open)], a, a)
  PROVE  Fitted(img, code \o Bytes(Op.label, open[Len(open)]),
                SubSeq(open, 1, Len(open) - 1), SubSeq(ifs, 1, Len(ifs) - 1), a)
<1>01. PICK top : top = open[Len(open)]
  OBVIOUS
<1>0. PICK new : new = code \o Bytes(Op.label, top)
  OBVIOUS
<1> DEFINE open2 == SubSeq(open, 1, Len(open) - 1)
           ifs2 == SubSeq(ifs, 1, Len(ifs) - 1)
<1>1. PICK T : Laid(T, img, code) /\ T[Len(code)] = a /\ Meets(T, code, open, ifs)
  BY DEF Fitted
<1>2. Op.label \in Opcodes /\ top \in Int /\ 0 <= top /\ top <= UINT16_MAX /\ Op.label \in WithOperand /\ Op.goto # Op.label
  BY <1>01, OpIf DEF Emits
<1>3. PICK U : Laid(U, img, new) /\ U[Len(new)] = a /\ (\A i \in Boundaries(code) : U[i] = T[i]) /\ U[Len(code)] = a
  <2>1. Emits(img, Op.label, top, T[Len(code)], a)
    BY <1>01, <1>1
  <2>2. PICK U : Prolongs(U, T, img, code, code \o Bytes(Op.label, top), a)
    BY <1>1, <2>1, LaidExtends
  <2>3. QED
    BY <1>0, <1>1, <2>2 DEF Prolongs
<1>4. Gotos(new) = Gotos(code) /\ Labels(new) = Labels(code) \cup {Len(code)}
  <2>1. /\ Gotos(code \o Bytes(Op.label, top)) = IF Op.label = Op.goto THEN Gotos(code) \cup {Len(code)} ELSE Gotos(code)
        /\ Labels(code \o Bytes(Op.label, top)) = IF Op.label = Op.label THEN Labels(code) \cup {Len(code)} ELSE Labels(code)
    BY <1>2, JumpsMore, Zenon
  <2>2. QED
    BY <1>0, <1>2, <2>1
<1>5. \A i \in Gotos(code) \cup Labels(code) :
        i \in Boundaries(code) /\ i < Len(code) /\ Operand(new, i) = Operand(code, i)
        /\ Behind(new, i) = Behind(code, i) /\ Behind(code, i) \in Boundaries(code)
  BY <1>0, <1>2, JumpsKept
<1>6. Operand(new, Len(code)) = top
  BY <1>0, <1>2, OperandNew
<1>7. Len(open) = Len(ifs) /\ Len(open) \in Nat /\ Len(open) > 0
  BY <1>1 DEF Meets
<1>8. Len(open2) = Len(open) - 1 /\ Len(ifs2) = Len(open) - 1
      /\ \A j \in 1 .. Len(open) - 1 : open2[j] = open[j] /\ ifs2[j] = ifs[j]
  BY <1>7
<1> HIDE DEF open2, ifs2
<1>9. Meets(U, new, open2, ifs2)
  <2>1. Len(open2) = Len(ifs2)
    BY <1>8
  <2>2. ASSUME NEW g \in Gotos(new)
        PROVE  /\ \A j \in 1 .. Len(open2) : Operand(new, g) = open2[j] => U[Behind(new, g)] = Bare(ifs2[j])
               /\ \A l \in Labels(new) : g < l /\ Operand(new, g) = Operand(new, l) => U[l] = U[Behind(new, g)]
    <3>1. g \in Gotos(code) /\ U[Behind(new, g)] = T[Behind(code, g)] /\ Operand(new, g) = Operand(code, g)
      BY <1>3, <1>4, <1>5
    <3>2. ASSUME NEW j \in 1 .. Len(open2), Operand(new, g) = open2[j]
          PROVE  U[Behind(new, g)] = Bare(ifs2[j])
      <4>1. j \in 1 .. Len(open) /\ open2[j] = open[j] /\ ifs2[j] = ifs[j]
        BY <1>7, <1>8
      <4>2. T[Behind(code, g)] = Bare(ifs[j])
        BY <1>1, <3>1, <3>2, <4>1 DEF Meets
      <4>3. QED
        BY <3>1, <4>1, <4>2
    <3>3. ASSUME NEW l \in Labels(new), g < l, Operand(new, g) = Operand(new, l)
          PROVE  U[l] = U[Behind(new, g)]
      <4>1. CASE l \in Labels(code)
        <5>1. U[l] = T[l] /\ Operand(new, l) = Operand(code, l)
          BY <1>3, <1>5, <4>1
        <5>2. QED
          BY <1>1, <3>1, <3>3, <4>1, <5>1 DEF Meets
      <4>2. CASE l = Len(code)
        <5>1. Operand(code, g) = top /\ Len(open) \in 1 .. Len(open)
          BY <1>6, <1>7, <3>1, <3>3, <4>2
        <5>2. T[Behind(code, g)] = Bare(ifs[Len(open)])
          BY <1>01, <1>1, <3>1, <5>1 DEF Meets
        <5>3. QED
          BY <1>3, <1>7, <3>1, <4>2, <5>2
      <4>3. QED
        BY <1>4, <4>1, <4>2
    <3>4. QED
      BY <3>2, <3>3
  <2>3. QED
    BY <2>1, <2>2 DEF Meets
<1>10. QED
  BY <1>01, <1>0, <1>3, <1>9 DEF Fitted, open2, ifs2

-----------------------------------------------------------------------------
(* The constants and the types of the variables.                             *)

Parts(pool, types) == [constant_pool |-> pool, types |-> types]

\* Shapes depend on nothing else of an image, and more constants do no harm.
LEMMA OperandNat ==
  ASSUME NEW code \in Seq(Byte), Whole(code), NEW i \in Boundaries(code), i < Len(code)
  PROVE  OperandOf(code, i) \in Nat
<1>1. CASE code[i + 1] \in WithOperand
  <2>1. PICK o \in WithOperand : o = code[i + 1]
    BY <1>1
  <2>2. i \in InstrAt(code, o)
    BY <2>1 DEF InstrAt
  <2>3. i \in Nat /\ i + 3 <= Len(code)
    BY <2>2, OperandInside
  <2>4. i + 2 \in 1 .. Len(code) /\ i + 3 \in 1 .. Len(code)
    BY <2>3
  <2>5. code[i + 2] \in Byte /\ code[i + 3] \in Byte
    BY <2>4, ElementOfSeq
  <2>6. code[i + 2] \in Nat /\ code[i + 3] \in Nat
    BY <2>5 DEF Byte
  <2>7. QED
    BY <1>1, <2>6 DEF OperandOf, Operand
<1>2. CASE code[i + 1] \notin WithOperand
  BY <1>2 DEF OperandOf
<1>3. QED
  BY <1>1, <1>2

LEMMA AllowedMore ==
  ASSUME NEW img, NEW more, more.types = img.types,
         Len(img.constant_pool) \in Nat, Len(more.constant_pool) \in Nat,
         Len(img.constant_pool) <= Len(more.constant_pool),
         \A i \in 1 .. Len(img.constant_pool) : more.constant_pool[i] = img.constant_pool[i],
         NEW op, NEW arg \in Nat, NEW a, Allowed(img, op, arg, a)
  PROVE  Allowed(more, op, arg, a)
<1>1. op \in ConstantPushes => arg < Len(img.constant_pool) /\ img.constant_pool[arg + 1].t = MemberOf(op)
  BY DEF Allowed
<1>2. op \in ConstantPushes => arg < Len(more.constant_pool) /\ more.constant_pool[arg + 1].t = MemberOf(op)
  <2>1. op \in ConstantPushes => arg + 1 \in 1 .. Len(img.constant_pool) /\ arg < Len(more.constant_pool)
    BY <1>1
  <2>2. QED
    BY <1>1, <2>1
<1>3. QED
  BY <1>2 DEF Allowed

\* Shapes depend on nothing else of an image, and more constants do no harm.
LEMMA LaidMore ==
  ASSUME NEW img, NEW more, NEW code \in Seq(Byte), Whole(code), NEW T, Laid(T, img, code), more.types = img.types,
         Len(img.constant_pool) \in Nat, Len(more.constant_pool) \in Nat,
         Len(img.constant_pool) <= Len(more.constant_pool),
         \A i \in 1 .. Len(img.constant_pool) : more.constant_pool[i] = img.constant_pool[i]
  PROVE  Laid(T, more, code)
<1>1. ASSUME NEW i \in Boundaries(code), i < Len(code) PROVE Placed(T, more, code, i)
  <2>1. Placed(T, img, code, i)
    BY <1>1 DEF Laid
  <2>2. OperandOf(code, i) \in Nat
    BY <1>1, OperandNat
  <2>3. Allowed(more, code[i + 1], OperandOf(code, i), T[i])
    BY <2>1, <2>2, AllowedMore DEF Placed
  <2>4. QED
    BY <2>1, <2>3 DEF Placed
<1>2. QED
  BY <1>1 DEF Laid

LEMMA FittedMore ==
  ASSUME NEW pool, NEW c, NEW types, Len(pool) \in Nat, Len(Append(pool, c)) = Len(pool) + 1,
         \A i \in 1 .. Len(pool) : Append(pool, c)[i] = pool[i],
         NEW code \in Seq(Byte), Whole(code), NEW open, NEW ifs, NEW a,
         Fitted(Parts(pool, types), code, open, ifs, a)
  PROVE  Fitted(Parts(Append(pool, c), types), code, open, ifs, a)
<1> DEFINE img == Parts(pool, types)
           more == Parts(Append(pool, c), types)
<1>1. img.constant_pool = pool /\ more.constant_pool = Append(pool, c) /\ more.types = img.types
  BY DEF Parts
<1> HIDE DEF img, more
<1>2. PICK T : Laid(T, img, code) /\ T[Len(code)] = a /\ Meets(T, code, open, ifs)
  BY DEF Fitted, img
<1>3. Len(img.constant_pool) <= Len(more.constant_pool) /\ Len(more.constant_pool) \in Nat
  BY <1>1
<1>4. Laid(T, more, code)
  BY <1>1, <1>2, <1>3, LaidMore
<1>5. QED
  BY <1>2, <1>4 DEF Fitted, more

LEMMA FittedNothing ==
  ASSUME NEW img
  PROVE  Fitted(img, <<>>, <<>>, <<>>, Bare(0))
<1> DEFINE T == [i \in {0} |-> Bare(0)]
<1>1. Boundaries(<<>>) = {0} /\ Len(<<>>) = 0 /\ T[0] = Bare(0) /\ Bare(0) \in Shapes
  BY BoundariesOfNothing, BareShape
<1> HIDE DEF T
<1>2. Laid(T, img, <<>>)
  BY <1>1 DEF Laid
<1>3. Gotos(<<>>) = {}
  BY <1>1 DEF Gotos, InstrAt
<1>4. Meets(T, <<>>, <<>>, <<>>)
  BY <1>3 DEF Meets
<1>5. QED
  BY <1>1, <1>2, <1>4 DEF Fitted

=============================================================================
