--------------------------- MODULE CodegenProofs ---------------------------
(* What holds of the code generator for every set of programs, every growth  *)
(* of the buffer of three bytes or more and every length of id_stack.        *)
EXTENDS Serialize, FiniteSetTheorems, SequenceTheorems, WellFoundedInduction, TLAPS

\* What gen_byte_code does to a buffer: bytes stay bytes, the size is a number,
\* and code that fitted still fits, as an instruction needs at most 3 bytes.
LEMMA GenFits ==
  ASSUME NEW b \in [code : Seq(Byte), size : Nat], Len(b.code) <= b.size,
         NEW op \in Opcodes, NEW operand \in Int
  PROVE  /\ Gen(b, op, operand) \in [code : Seq(Byte), size : Nat]
         /\ Len(Gen(b, op, operand).code) <= Gen(b, op, operand).size
<1> DEFINE instr == IF op \in WithOperand THEN <<op, Hi(operand), Lo(operand)>> ELSE <<op>>
<1>1. Hi(operand) \in Byte /\ Lo(operand) \in Byte /\ op \in Byte
  BY DEF Hi, Lo, Byte, UINT8_MAX, Opcodes
<1>2. instr \in Seq(Byte) /\ Len(instr) = 1 + OpSize(op)
  BY <1>1 DEF OpSize
<1>3. OpSize(op) \in 0 .. 2
  BY DEF OpSize
<1>4. b.code \o instr \in Seq(Byte) /\ Len(b.code \o instr) = Len(b.code) + 1 + OpSize(op)
  BY <1>2, <1>3
<1>5. Gen(b, op, operand).code = b.code \o instr
  BY DEF Gen
<1>6. Gen(b, op, operand).size = IF Len(b.code) + 2 + OpSize(op) > b.size
                                 THEN b.size + CODE_ALLOC_SIZE ELSE b.size
  BY DEF Gen
<1>7. Gen(b, op, operand) \in [code : Seq(Byte), size : Nat]
  BY <1>4, <1>3, AllocAssumption DEF Gen
<1>8. QED
  BY <1>3, <1>4, <1>5, <1>6, <1>7, AllocAssumption

\* The invariant of every handler: its types, code that fits into the buffer,
\* and distinct labels on id_stack. It is inductive as it stands.
CodegenInv == TypeOK /\ BytesFit /\ LabelsFresh

\* The buffer, and the buffer after one more instruction.
LEMMA BufferInv ==
  ASSUME CodegenInv
  PROVE  buf \in [code : Seq(Byte), size : Nat] /\ Len(buf.code) <= buf.size
BY DEF CodegenInv, TypeOK, BytesFit

LEMMA BufferGen ==
  ASSUME CodegenInv, NEW op \in Opcodes, NEW operand \in Int
  PROVE  /\ Gen(buf, op, operand) \in [code : Seq(Byte), size : Nat]
         /\ Len(Gen(buf, op, operand).code) <= Gen(buf, op, operand).size
BY BufferInv, GenFits

\* What the handlers rely on when they are called: there is a current node, and
\* the calls still pending after it are well formed.
LEMMA CurIsNode ==
  ASSUME TypeOK, todo # <<>>
  PROVE  Cur \in Nodes /\ Tail(todo) \in Seq(Pending)
<1>1. todo \in Seq(Pending)
  BY DEF TypeOK
<1>2. todo[1] \in Pending /\ Tail(todo) \in Seq(Pending)
  BY <1>1
<1>3. QED
  BY <1>2 DEF Pending, Cur

\* The calls that traversing a node adds.
LEMMA ChildrenPending ==
  ASSUME NEW e \in Nodes
  PROVE  Children(e) \in Seq(Pending)
<1>1. e.kids \in Seq(Nodes)
  BY NodesAssumption
<1>2. CASE e.kind \in AssignKinds
  <2>1. e.kids[1] \in Nodes /\ e.kids[2] \in Nodes
    BY <1>1, <1>2, NodesAssumption
  <2>2. /\ Call("enter", e.kids[1]) \in Pending /\ Call("enter", e.kids[2]) \in Pending
        /\ Call("notify", e) \in Pending
    <3>1. \A n \in Nodes : Call("enter", n) \in Pending
      BY DEF Call, Pending
    <3>2. Call("notify", e) \in Pending
      BY <1>2 DEF Call, Pending
    <3>3. QED
      BY <2>1, <3>1, <3>2
  <2>3. QED
    BY <1>2, <2>2 DEF Children
<1>3. CASE e.kind \notin AssignKinds
  <2>1. \A i \in DOMAIN e.kids : Call("enter", e.kids[i]) \in Pending
    BY <1>1 DEF Call, Pending
  <2>2. Children(e) = [i \in 1 .. Len(e.kids) |-> Call("enter", e.kids[i])]
    BY <1>1, <1>3 DEF Children
  <2>3. Len(e.kids) \in Nat /\ \A i \in 1 .. Len(e.kids) : Call("enter", e.kids[i]) \in Pending
    BY <1>1, <2>1
  <2>4. QED
    BY <2>2, <2>3, IsASeq
<1>4. QED
  BY <1>2, <1>3

\* Descending keeps the pending calls well formed.
LEMMA DescendPending ==
  ASSUME TypeOK, todo # <<>>, Descend
  PROVE  todo' \in Seq(Pending)
<1>1. Cur \in Nodes /\ Tail(todo) \in Seq(Pending)
  BY CurIsNode
<1>2. Children(Cur) \in Seq(Pending)
  BY <1>1, ChildrenPending
<1>3. Call("leave", Cur) \in Pending
  BY <1>1 DEF Call, Pending
<1>4. QED
  BY <1>1, <1>2, <1>3 DEF Descend

\* A handler that only generates one instruction and returns.
LEMMA EmitAndReturnInv ==
  ASSUME CodegenInv, todo # <<>>, NEW op \in Opcodes, NEW operand \in Int, EmitAndReturn(op, operand)
  PROVE  CodegenInv'
<1>1. buf' \in [code : Seq(Byte), size : Nat] /\ Len(buf'.code) <= buf'.size
  BY BufferGen DEF EmitAndReturn, Emit
<1>2. todo' \in Seq(Pending)
  BY CurIsNode DEF EmitAndReturn, Return, CodegenInv
<1>3. TypeOK'
  BY <1>1, <1>2 DEF EmitAndReturn, KeepModes, CodegenInv, TypeOK
<1>4. BytesFit'
  BY <1>1 DEF BytesFit
<1>5. LabelsFresh'
  BY DEF EmitAndReturn, KeepModes, CodegenInv, LabelsFresh
<1>6. QED
  BY <1>3, <1>4, <1>5 DEF CodegenInv

\* A handler that gives up.
LEMMA ExitInv ==
  ASSUME CodegenInv, Exit
  PROVE  CodegenInv'
<1>1. TypeOK'
  BY DEF Exit, CodegenInv, TypeOK
<1>2. BytesFit'
  BY DEF Exit, CodegenInv, BytesFit
<1>3. LabelsFresh'
  BY DEF Exit, CodegenInv, LabelsFresh
<1>4. QED
  BY <1>1, <1>2, <1>3 DEF CodegenInv

-----------------------------------------------------------------------------
(* The handlers, one lemma for each that is not of one of the kinds above.   *)

\* Numbers that a uint16_t holds.
LEMMA Depths == 0 \in UInt16 /\ \A n \in Int : n % 65536 \in UInt16
<1>1. UINT16_MAX \in Nat /\ UINT16_MAX >= 65535
  BY DEF UINT16_MAX
<1>2. QED
  BY <1>1 DEF UInt16

\* What the handlers of a unary operator emit, and the kinds of their nodes.
UnaryEmitted == {Op.logical_and, Op.logical_or, Op.logical_not, Op.cast_int_to_double,
                 Op.cast_double_to_int, Op.minus_int, Op.minus_double}
UnaryNodes == {"land", "lor", "lognot", "minus", "cast_int_to_double", "cast_double_to_int"}

\* The handler of a unary operator emits one instruction with no operand, or
\* it exits.
LEMMA UnaryEmits ==
  ASSUME LeaveUnary
  PROVE  /\ Calling("leave") /\ Cur.kind \in UnaryNodes
         /\ Exit \/ \E op \in UnaryEmitted : EmitAndReturn(op, 0)
<1>1. CASE Cur.kind \in DOMAIN LogicalOps /\ EmitAndReturn(LogicalOps[Cur.kind], 0)
  <2>1. Cur.kind \in UnaryNodes /\ LogicalOps[Cur.kind] \in UnaryEmitted
    BY <1>1 DEF LogicalOps, UnaryEmitted, UnaryNodes
  <2>2. QED
    BY <1>1, <2>1 DEF LeaveUnary
<1>2. CASE Cur.kind \in DOMAIN CastOps /\ EmitAndReturn(CastOps[Cur.kind], 0)
  <2>1. Cur.kind \in UnaryNodes /\ CastOps[Cur.kind] \in UnaryEmitted
    BY <1>2 DEF CastOps, UnaryEmitted, UnaryNodes
  <2>2. QED
    BY <1>2, <2>1 DEF LeaveUnary
<1>3. CASE Cur.kind = "lognot" /\ EmitAndReturn(Op.logical_not, 0)
  BY <1>3 DEF LeaveUnary, UnaryEmitted, UnaryNodes
<1>4. CASE Cur.kind = "minus" /\ Cur.type \in DOMAIN MinusOps /\ EmitAndReturn(MinusOps[Cur.type], 0)
  <2>1. Cur.kind \in UnaryNodes /\ MinusOps[Cur.type] \in UnaryEmitted
    BY <1>4 DEF MinusOps, UnaryEmitted, UnaryNodes
  <2>2. QED
    BY <1>4, <2>1 DEF LeaveUnary
<1>5. CASE Cur.kind = "minus" /\ Exit
  BY <1>5 DEF LeaveUnary, UnaryNodes
<1>6. QED
  BY <1>1, <1>2, <1>3, <1>4, <1>5 DEF LeaveUnary

\* Every opcode the handlers name is one of the table's.
LEMMA OpcodesInTable ==
  /\ \A type \in Types : PushStaticOp(type) \in Opcodes /\ PopStaticOp(type) \in Opcodes
  /\ \A k \in DOMAIN BinaryOps : \A t \in DOMAIN BinaryOps[k] : BinaryOps[k][t] \in Opcodes
  /\ UnaryEmitted \subseteq Opcodes
  /\ \A k \in DOMAIN CompoundOf : CompoundOf[k] \in DOMAIN BinaryOps
                                /\ {"int", "double"} \subseteq DOMAIN BinaryOps[CompoundOf[k]]
<1>1. \A type \in Types : PushStaticOp(type) \in Opcodes /\ PopStaticOp(type) \in Opcodes
  BY DEF PushStaticOp, PopStaticOp, Op, Opcodes
<1>2. \A k \in DOMAIN BinaryOps : \A t \in DOMAIN BinaryOps[k] : BinaryOps[k][t] \in Opcodes
  BY DEF BinaryOps, Op, Opcodes
<1>3. UnaryEmitted \subseteq Opcodes
  BY DEF UnaryEmitted, Op, Opcodes
<1>4. \A k \in DOMAIN CompoundOf : CompoundOf[k] \in DOMAIN BinaryOps
                                /\ {"int", "double"} \subseteq DOMAIN BinaryOps[CompoundOf[k]]
  BY DEF CompoundOf, BinaryOps
<1>5. QED
  BY <1>1, <1>2, <1>3, <1>4

LEMMA EnterInv ==
  ASSUME CodegenInv, EnterOther \/ EnterAssign \/ EnterFuncCall
  PROVE  CodegenInv'
<1>1. todo # <<>> /\ Descend
  BY DEF EnterOther, EnterAssign, EnterFuncCall, Calling
<1>2. Cur \in Nodes /\ todo' \in Seq(Pending)
  BY <1>1, CurIsNode, DescendPending DEF CodegenInv
<1>3. buf' \in [code : Seq(Byte), size : Nat] /\ Len(buf'.code) <= buf'.size
  <2>1. CASE EnterOther \/ EnterFuncCall
    BY <2>1 DEF EnterOther, EnterFuncCall, handlerVars, CodegenInv, TypeOK, BytesFit
  <2>2. CASE EnterAssign
    <3>1. CASE Cur.kind # "assign" /\ Cur.kids[1].kind = "ident"
      <4>1. Cur.kids[1] \in Nodes
        BY <1>2, <2>2, NodesAssumption DEF EnterAssign
      <4>2. Cur.kids[1].n \in Int /\ Op.push_static_int \in Opcodes
        BY <4>1, NodesAssumption DEF Op, Opcodes
      <4>3. buf' = Gen(buf, Op.push_static_int, Cur.kids[1].n)
        BY <2>2, <3>1 DEF EnterAssign, Emit
      <4>4. QED
        BY <4>2, <4>3, BufferGen
    <3>2. CASE ~(Cur.kind # "assign" /\ Cur.kids[1].kind = "ident")
      BY <2>2, <3>2 DEF EnterAssign, CodegenInv, TypeOK, BytesFit
    <3>3. QED
      BY <3>1, <3>2
  <2>3. QED
    BY <2>1, <2>2
<1>4. assign_depth' \in UInt16
  <2> DEFINE deeper == (assign_depth + 1) % 65536
  <2>1. assign_depth \in Int
    BY DEF CodegenInv, TypeOK, UInt16
  <2>2. deeper \in UInt16
    BY <2>1, Depths
  <2>3. assign_depth' = assign_depth \/ assign_depth' = deeper
    BY DEF EnterOther, EnterAssign, EnterFuncCall, handlerVars
  <2> HIDE DEF deeper
  <2>4. QED
    BY <2>2, <2>3 DEF CodegenInv, TypeOK
<1>5. TypeOK'
  BY <1>2, <1>3, <1>4
     DEF EnterOther, EnterAssign, EnterFuncCall, handlerVars, CodegenInv, TypeOK
<1>6. LabelsFresh'
  BY DEF EnterOther, EnterAssign, EnterFuncCall, handlerVars, CodegenInv, LabelsFresh
<1>7. QED
  BY <1>3, <1>5, <1>6 DEF CodegenInv, BytesFit

LEMMA LeaveLiteralInv ==
  ASSUME CodegenInv, LeaveLiteral
  PROVE  CodegenInv'
<1>1. todo # <<>> /\ Return
  BY DEF LeaveLiteral, Calling
<1>2. Cur \in Nodes /\ todo' \in Seq(Pending)
  BY <1>1, CurIsNode DEF Return, CodegenInv
<1>3. Cur.n \in Int /\ Len(constant_pool) \in Int
  BY <1>2, NodesAssumption DEF CodegenInv, TypeOK
<1>4. constant_pool' \in Seq([t : {"int", "double"}, v : Int])
  BY <1>3 DEF LeaveLiteral, CodegenInv, TypeOK
<1>5. PICK op \in {Op.push_double, Op.push_int} : buf' = Gen(buf, op, Len(constant_pool))
  BY DEF LeaveLiteral, Emit
<1>6. op \in Opcodes
  BY <1>5 DEF Op, Opcodes
<1>7. buf' \in [code : Seq(Byte), size : Nat] /\ Len(buf'.code) <= buf'.size
  BY <1>3, <1>5, <1>6, BufferGen
<1>8. TypeOK'
  BY <1>2, <1>4, <1>7 DEF LeaveLiteral, KeepModes, CodegenInv, TypeOK
<1>9. LabelsFresh'
  BY DEF LeaveLiteral, KeepModes, CodegenInv, LabelsFresh
<1>10. QED
  BY <1>7, <1>8, <1>9 DEF CodegenInv, BytesFit

LEMMA LeaveIdentInv ==
  ASSUME CodegenInv, LeaveIdentNormal \/ LeaveIdentAssign \/ LeaveFunctionAssign
  PROVE  CodegenInv'
<1>1. todo # <<>>
  BY DEF LeaveIdentNormal, LeaveIdentAssign, LeaveFunctionAssign, Calling
<1>2. Cur.n \in Int /\ Cur.type \in Types
  BY <1>1, CurIsNode, NodesAssumption DEF CodegenInv
<1>3. Op.push_function \in Opcodes
  BY DEF Op, Opcodes
<1>4. CASE LeaveIdentNormal
  BY <1>1, <1>2, <1>3, <1>4, OpcodesInTable, EmitAndReturnInv DEF LeaveIdentNormal
<1>5. CASE LeaveIdentAssign
  <2> DEFINE stored == Gen(buf, PopStaticOp(Cur.type), Cur.n)
  <2>1. stored \in [code : Seq(Byte), size : Nat] /\ Len(stored.code) <= stored.size
    BY <1>2, OpcodesInTable, BufferGen
  <2>2. buf' = IF ValueWanted THEN Gen(stored, PushStaticOp(Cur.type), Cur.n) ELSE stored
    BY <1>5 DEF LeaveIdentAssign
  <2> HIDE DEF stored
  <2>3. buf' \in [code : Seq(Byte), size : Nat] /\ Len(buf'.code) <= buf'.size
    BY <1>2, <2>1, <2>2, OpcodesInTable, GenFits
  <2>4. todo' \in Seq(Pending)
    BY <1>1, <1>5, CurIsNode DEF LeaveIdentAssign, Return, CodegenInv
  <2>5. TypeOK'
    BY <1>5, <2>3, <2>4 DEF LeaveIdentAssign, KeepModes, CodegenInv, TypeOK
  <2>6. LabelsFresh'
    BY <1>5 DEF LeaveIdentAssign, KeepModes, CodegenInv, LabelsFresh
  <2>7. QED
    BY <2>3, <2>5, <2>6 DEF CodegenInv, BytesFit
<1>6. CASE LeaveFunctionAssign
  BY <1>6, ExitInv DEF LeaveFunctionAssign
<1>7. QED
  BY <1>4, <1>5, <1>6

LEMMA LeaveOperatorInv ==
  ASSUME CodegenInv, LeaveBinary \/ LeaveUnary
  PROVE  CodegenInv'
<1>1. todo # <<>>
  BY DEF LeaveBinary, LeaveUnary, Calling
<1>2. CASE LeaveBinary
  <2>1. CASE Cur.kids[1].type \in DOMAIN BinaryOps[Cur.kind]
    <3>1. EmitAndReturn(BinaryOps[Cur.kind][Cur.kids[1].type], 0)
      BY <1>2, <2>1 DEF LeaveBinary
    <3>2. BinaryOps[Cur.kind][Cur.kids[1].type] \in Opcodes
      BY <1>2, <2>1, OpcodesInTable DEF LeaveBinary
    <3>3. QED
      BY <1>1, <3>1, <3>2, EmitAndReturnInv
  <2>2. CASE Cur.kids[1].type \notin DOMAIN BinaryOps[Cur.kind]
    BY <1>2, <2>2, ExitInv DEF LeaveBinary
  <2>3. QED
    BY <2>1, <2>2
<1>3. CASE LeaveUnary
  <2>1. CASE Exit
    BY <2>1, ExitInv
  <2>2. ASSUME NEW op \in UnaryEmitted, EmitAndReturn(op, 0) PROVE CodegenInv'
    BY <1>1, <2>2, OpcodesInTable, EmitAndReturnInv
  <2>3. QED
    BY <1>3, <2>1, <2>2, UnaryEmits
<1>4. QED
  BY <1>2, <1>3

LEMMA LeaveIncDecInv ==
  ASSUME CodegenInv, LeaveIncDec
  PROVE  CodegenInv'
<1>1. todo # <<>> /\ Cur.kind \in {"inc", "dec"}
  BY DEF LeaveIncDec, Calling
<1>2. CASE Exit
  BY <1>2, ExitInv
<1>3. CASE outcome' = "undefined" /\ UNCHANGED <<prog, todo, buf, constant_pool, vi_state, vf_state,
                                                assign_depth, id_stack, id>>
  <2>1. TypeOK'
    BY <1>3 DEF CodegenInv, TypeOK
  <2>2. LabelsFresh' /\ BytesFit'
    BY <1>3 DEF CodegenInv, LabelsFresh, BytesFit
  <2>3. QED
    BY <2>1, <2>2 DEF CodegenInv
<1>4. CASE /\ buf' = LET bumped == Gen(buf, IF Cur.kind = "inc" THEN Op.increment ELSE Op.decrement, 0)
                        stored == Gen(bumped, Op.pop_static_int, Cur.kids[1].n)
                    IN  Gen(stored, Op.push_static_int, Cur.kids[1].n)
           /\ Return /\ KeepModes /\ UNCHANGED constant_pool
  <2>1. Cur \in Nodes
    BY <1>1, CurIsNode DEF CodegenInv
  <2>2. Cur.kids[1] \in Nodes
    BY <1>1, <2>1, NodesAssumption
  <2>3. Cur.kids[1].n \in Int
    BY <2>2, NodesAssumption
  <2> DEFINE op1 == IF Cur.kind = "inc" THEN Op.increment ELSE Op.decrement
             bumped == Gen(buf, op1, 0)
             stored == Gen(bumped, Op.pop_static_int, Cur.kids[1].n)
  <2>4. op1 \in Opcodes /\ Op.pop_static_int \in Opcodes /\ Op.push_static_int \in Opcodes
    BY DEF Op, Opcodes
  <2>5. bumped \in [code : Seq(Byte), size : Nat] /\ Len(bumped.code) <= bumped.size
    <3> HIDE DEF op1
    <3> QED
      BY <2>4, BufferGen
  <2>6. stored \in [code : Seq(Byte), size : Nat] /\ Len(stored.code) <= stored.size
    <3> HIDE DEF bumped
    <3> QED
      BY <2>3, <2>4, <2>5, GenFits
  <2>7. buf' = Gen(stored, Op.push_static_int, Cur.kids[1].n)
    BY <1>4
  <2>8. buf' \in [code : Seq(Byte), size : Nat] /\ Len(buf'.code) <= buf'.size
    <3> HIDE DEF stored
    <3> QED
      BY <2>3, <2>4, <2>6, <2>7, GenFits
  <2>9. todo' \in Seq(Pending)
    BY <1>1, <1>4, CurIsNode DEF Return, CodegenInv
  <2>10. TypeOK'
    <3> HIDE DEF stored
    <3> QED
      BY <1>4, <2>8, <2>9 DEF KeepModes, CodegenInv, TypeOK
  <2>11. LabelsFresh'
    <3> HIDE DEF stored
    <3> QED
      BY <1>4 DEF KeepModes, CodegenInv, LabelsFresh
  <2>12. QED
    BY <2>8, <2>10, <2>11 DEF CodegenInv, BytesFit
<1>5. QED
  BY <1>2, <1>3, <1>4 DEF LeaveIncDec

LEMMA NotifyAssignInv ==
  ASSUME CodegenInv, NotifyAssign
  PROVE  CodegenInv'
<1>1. todo # <<>>
  BY DEF NotifyAssign, Calling
<1>2. Cur.kind \in AssignKinds
  <2>1. todo[1] \in Pending /\ todo[1].at = "notify"
    BY <1>1 DEF NotifyAssign, Calling, CodegenInv, TypeOK
  <2>2. QED
    BY <2>1 DEF Pending, Cur
<1>3. CASE Exit
  BY <1>3, ExitInv
<1>4. CASE ~Exit
  <2> DEFINE type == Cur.kids[2].type
             op == BinaryOps[CompoundOf[Cur.kind]][type]
  <2>1. /\ vi_state' = "VISIT_NOMAL_ASSIGN" /\ Return
        /\ UNCHANGED <<prog, constant_pool, vf_state, assign_depth, id_stack, id, outcome>>
    BY <1>4 DEF NotifyAssign
  <2>2. buf' = buf \/ (Cur.kind # "assign" /\ type \in {"int", "double"} /\ buf' = Gen(buf, op, 0))
    BY <1>4 DEF NotifyAssign, EmitOp, Emit
  <2>3. buf' \in [code : Seq(Byte), size : Nat] /\ Len(buf'.code) <= buf'.size
    <3>1. CASE buf' = buf
      BY <3>1 DEF CodegenInv, TypeOK, BytesFit
    <3>2. CASE Cur.kind # "assign" /\ type \in {"int", "double"} /\ buf' = Gen(buf, op, 0)
      <4>1. Cur.kind \in AssignKinds
        BY <1>2
      <4>2. op \in Opcodes
        BY <3>2, <4>1, OpcodesInTable DEF AssignKinds
      <4>3. buf' = Gen(buf, op, 0)
        BY <3>2
      <4>4. QED
        <5> HIDE DEF op
        <5> QED
          BY <4>2, <4>3, BufferGen
    <3>3. QED
      BY <2>2, <3>1, <3>2
  <2>4. todo' \in Seq(Pending)
    BY <1>1, <2>1, CurIsNode DEF Return, CodegenInv
  <2>5. TypeOK'
    BY <2>1, <2>3, <2>4 DEF CodegenInv, TypeOK
  <2>6. LabelsFresh'
    BY <2>1 DEF CodegenInv, LabelsFresh
  <2>7. QED
    BY <2>3, <2>5, <2>6 DEF CodegenInv, BytesFit
<1>5. QED
  BY <1>3, <1>4

LEMMA LeaveAssignInv ==
  ASSUME CodegenInv, LeaveAssign
  PROVE  CodegenInv'
<1>1. todo' \in Seq(Pending)
  BY CurIsNode DEF LeaveAssign, Calling, Return, CodegenInv
<1>2. assign_depth' \in UInt16
  <2> DEFINE shallower == (assign_depth - 1) % 65536
  <2>1. assign_depth \in Int
    BY DEF CodegenInv, TypeOK, UInt16
  <2>2. shallower \in UInt16 /\ 0 \in UInt16
    BY <2>1, Depths
  <2>3. assign_depth' = 0 \/ assign_depth' = shallower
    BY DEF LeaveAssign
  <2> HIDE DEF shallower
  <2>4. QED
    BY <2>2, <2>3
<1>3. TypeOK'
  BY <1>1, <1>2 DEF LeaveAssign, CodegenInv, TypeOK
<1>4. BytesFit' /\ LabelsFresh'
  BY DEF LeaveAssign, CodegenInv, BytesFit, LabelsFresh
<1>5. QED
  BY <1>3, <1>4 DEF CodegenInv

LEMMA LeaveCallOrExprStmtInv ==
  ASSUME CodegenInv, LeaveFuncCall \/ LeaveExprStmt
  PROVE  CodegenInv'
<1>1. todo' \in Seq(Pending)
  BY CurIsNode DEF LeaveFuncCall, LeaveExprStmt, Calling, Return, CodegenInv
<1>2. Op.invoke \in Opcodes /\ Op.pop \in Opcodes
  BY DEF Op, Opcodes
<1>3. buf' = buf \/ buf' = Gen(buf, Op.invoke, 0) \/ buf' = Gen(buf, Op.pop, 0)
  BY DEF LeaveFuncCall, LeaveExprStmt, EmitOp, Emit
<1>4. buf' \in [code : Seq(Byte), size : Nat] /\ Len(buf'.code) <= buf'.size
  <2>1. CASE buf' = buf
    BY <2>1 DEF CodegenInv, TypeOK, BytesFit
  <2>2. CASE buf' = Gen(buf, Op.invoke, 0)
    BY <1>2, <2>2, BufferGen
  <2>3. CASE buf' = Gen(buf, Op.pop, 0)
    BY <1>2, <2>3, BufferGen
  <2>4. QED
    BY <1>3, <2>1, <2>2, <2>3
<1>5. assign_depth' \in UInt16
  BY Depths DEF LeaveFuncCall, LeaveExprStmt, CodegenInv, TypeOK
<1>6. TypeOK'
  BY <1>1, <1>4, <1>5 DEF LeaveFuncCall, LeaveExprStmt, CodegenInv, TypeOK
<1>7. LabelsFresh'
  BY DEF LeaveFuncCall, LeaveExprStmt, CodegenInv, LabelsFresh
<1>8. QED
  BY <1>4, <1>6, <1>7 DEF CodegenInv, BytesFit

LEMMA LeaveDeclOrBlockInv ==
  ASSUME CodegenInv, LeaveDeclStmt \/ LeaveBlockOp
  PROVE  CodegenInv'
<1>1. todo # <<>>
  BY DEF LeaveDeclStmt, LeaveBlockOp, Calling
<1>2. CASE LeaveDeclStmt /\ Cur.kids # <<>>
  <2>1. PICK i \in DOMAIN prog.decls : EmitAndReturn(PopStaticOp(prog.decls[i].type), i - 1)
    BY <1>2 DEF LeaveDeclStmt
  <2>2. prog.decls \in Seq([name : STRING, type : Types])
    BY NodesAssumption DEF CodegenInv, TypeOK
  <2>3. /\ i \in 1 .. Len(prog.decls) /\ Len(prog.decls) \in Nat
        /\ prog.decls[i] \in [name : STRING, type : Types]
    <3> DEFINE decls == prog.decls  D == [name : STRING, type : Types]
    <3>1. decls \in Seq(D) /\ i \in DOMAIN decls
      BY <2>1, <2>2
    <3> HIDE DEF decls, D
    <3>2. i \in 1 .. Len(decls) /\ Len(decls) \in Nat /\ decls[i] \in D
      BY <3>1
    <3>3. QED
      BY <3>2 DEF decls, D
  <2>4. prog.decls[i].type \in Types
    BY <2>3
  <2>5. PopStaticOp(prog.decls[i].type) \in Opcodes
    BY <2>4, OpcodesInTable
  <2>6. i - 1 \in Int
    BY <2>3
  <2>7. QED
    BY <1>1, <2>1, <2>5, <2>6, EmitAndReturnInv
<1>3. CASE LeaveDeclStmt /\ Cur.kids = <<>>
  <2>1. Return /\ UNCHANGED <<prog, handlerVars>>
    BY <1>3 DEF LeaveDeclStmt
  <2>2. todo' \in Seq(Pending)
    BY <1>1, <2>1, CurIsNode DEF Return, CodegenInv
  <2>3. TypeOK'
    BY <2>1, <2>2 DEF handlerVars, CodegenInv, TypeOK
  <2>4. BytesFit' /\ LabelsFresh'
    BY <2>1 DEF handlerVars, CodegenInv, BytesFit, LabelsFresh
  <2>5. QED
    BY <2>3, <2>4 DEF CodegenInv
<1>4. CASE LeaveBlockOp
  <2>1. (IF Cur.kind = "blockbegin" THEN Op.push_stack_pointer ELSE Op.pop_stack_pointer) \in Opcodes
    BY DEF Op, Opcodes
  <2>2. QED
    BY <1>1, <1>4, <2>1, EmitAndReturnInv DEF LeaveBlockOp
<1>5. QED
  BY <1>2, <1>3, <1>4

\* push_id hands out the next number and pop_id takes back the newest: what is
\* left on the stack stays ordered and below id.
LEMMA LeaveIfInv ==
  ASSUME CodegenInv, LeaveIfEnter \/ LeaveIfLeave
  PROVE  CodegenInv'
<1>1. todo # <<>>
  BY DEF LeaveIfEnter, LeaveIfLeave, Calling
<1>2. Op.goto \in Opcodes /\ Op.label \in Opcodes
  BY DEF Op, Opcodes
<1>3. CASE Exit
  BY <1>3, ExitInv
<1>4. CASE LeaveIfEnter /\ ~Exit
  <2>1. /\ Len(id_stack) < ID_STACK_SIZE - 1
        /\ id_stack' = Append(id_stack, id) /\ id' = id + 1
        /\ buf' = Gen(buf, Op.goto, id) /\ Return
        /\ UNCHANGED <<prog, constant_pool, vi_state, vf_state, assign_depth, outcome>>
    BY <1>4, IdStackAssumption DEF LeaveIfEnter, Emit, CodegenInv, TypeOK
  <2>2. buf' \in [code : Seq(Byte), size : Nat] /\ Len(buf'.code) <= buf'.size
    <3>1. id \in Int /\ buf' = Gen(buf, Op.goto, id)
      BY <2>1 DEF CodegenInv, TypeOK
    <3>2. QED
      BY <1>2, <3>1, BufferGen
  <2>3. todo' \in Seq(Pending)
    BY <1>1, <2>1, CurIsNode DEF Return, CodegenInv
  <2>4. TypeOK'
    BY <2>1, <2>2, <2>3 DEF CodegenInv, TypeOK
  <2>5. LabelsFresh'
    BY <2>1, IdStackAssumption DEF CodegenInv, TypeOK, LabelsFresh
  <2>6. QED
    BY <2>2, <2>4, <2>5 DEF CodegenInv, BytesFit
<1>5. CASE LeaveIfLeave
  <2>1. /\ id_stack # <<>>
        /\ id_stack' = SubSeq(id_stack, 1, Len(id_stack) - 1)
        /\ buf' = Gen(buf, Op.label, id_stack[Len(id_stack)]) /\ Return
        /\ UNCHANGED <<prog, constant_pool, vi_state, vf_state, assign_depth, id, outcome>>
    BY <1>5 DEF LeaveIfLeave, Emit
  <2>2. id_stack \in Seq(Nat) /\ Len(id_stack) \in 1 .. Len(id_stack)
    BY <2>1 DEF CodegenInv, TypeOK
  <2>3. id_stack[Len(id_stack)] \in Int
    BY <2>2
  <2>4. buf' \in [code : Seq(Byte), size : Nat] /\ Len(buf'.code) <= buf'.size
    BY <1>2, <2>1, <2>3, BufferGen
  <2>5. todo' \in Seq(Pending)
    BY <1>1, <2>1, CurIsNode DEF Return, CodegenInv
  <2>6. id_stack' \in Seq(Nat)
    BY <2>1, <2>2
  <2>7. TypeOK'
    BY <2>1, <2>4, <2>5, <2>6 DEF CodegenInv, TypeOK
  <2>8. LabelsFresh'
    BY <2>1, <2>2, IdStackAssumption DEF CodegenInv, LabelsFresh
  <2>9. QED
    BY <2>4, <2>7, <2>8 DEF CodegenInv, BytesFit
<1>6. QED
  BY <1>3, <1>4, <1>5

-----------------------------------------------------------------------------
(* The theorems.                                                             *)

LEMMA InitInv == CodegenInit => CodegenInv
<1> SUFFICES ASSUME CodegenInit
             PROVE  CodegenInv
  OBVIOUS
<1>1. prog.stmts \in Seq(Nodes)
  BY NodesAssumption DEF CodegenInit
<1>2. todo = [i \in 1 .. Len(prog.stmts) |-> Call("enter", prog.stmts[i])]
  BY <1>1 DEF CodegenInit
<1>3. Len(prog.stmts) \in Nat
      /\ \A i \in 1 .. Len(prog.stmts) : Call("enter", prog.stmts[i]) \in Pending
  BY <1>1 DEF Call, Pending
<1>4. todo \in Seq(Pending)
  BY <1>2, <1>3, IsASeq
<1>5. QED
  BY <1>4, Depths, IdStackAssumption DEF CodegenInit, CodegenInv, TypeOK, BytesFit, LabelsFresh

\* Every handler, and a step of other components, preserves the invariant.
LEMMA NextInv == CodegenInv /\ [CodegenNext]_codegenVars => CodegenInv'
<1> SUFFICES ASSUME CodegenInv, [CodegenNext]_codegenVars
             PROVE  CodegenInv'
  OBVIOUS
<1>1. CASE UNCHANGED codegenVars
  <2>1. TypeOK'
    BY <1>1 DEF codegenVars, handlerVars, CodegenInv, TypeOK
  <2>2. BytesFit' /\ LabelsFresh'
    BY <1>1 DEF codegenVars, handlerVars, CodegenInv, BytesFit, LabelsFresh
  <2>3. QED
    BY <2>1, <2>2 DEF CodegenInv
<1>2. CASE EnterOther \/ EnterAssign \/ EnterFuncCall
  BY <1>2, EnterInv
<1>3. CASE LeaveLiteral
  BY <1>3, LeaveLiteralInv
<1>4. CASE LeaveIdentNormal \/ LeaveIdentAssign \/ LeaveFunctionAssign
  BY <1>4, LeaveIdentInv
<1>5. CASE LeaveBinary \/ LeaveUnary
  BY <1>5, LeaveOperatorInv
<1>6. CASE LeaveIncDec
  BY <1>6, LeaveIncDecInv
<1>7. CASE NotifyAssign
  BY <1>7, NotifyAssignInv
<1>8. CASE LeaveAssign
  BY <1>8, LeaveAssignInv
<1>9. CASE LeaveFuncCall \/ LeaveExprStmt
  BY <1>9, LeaveCallOrExprStmtInv
<1>10. CASE LeaveDeclStmt \/ LeaveBlockOp
  BY <1>10, LeaveDeclOrBlockInv
<1>11. CASE LeaveIfEnter \/ LeaveIfLeave
  BY <1>11, LeaveIfInv
<1>12. QED
  BY <1>1, <1>2, <1>3, <1>4, <1>5, <1>6, <1>7, <1>8, <1>9, <1>10, <1>11 DEF CodegenNext

\* Types, room for every generated byte and fresh labels, always: for every set
\* of checked programs, whatever their size and nesting, CODE_ALLOC_SIZE >= 3
\* and ID_STACK_SIZE >= 1 (codegenvisitor.c:16-49, 814-864).
THEOREM CodegenInvariant == CodegenSpec => []CodegenInv
<1>1. QED
  BY InitInv, NextInv, PTL DEF CodegenSpec

\* No handler leaves the types of the visitor's state: the uint16_t depth wraps
\* where it is counted below 0 (codegenvisitor.c:598-607).
THEOREM TypeCorrect == CodegenSpec => []TypeOK
<1>1. CodegenInv => TypeOK
  BY DEF CodegenInv
<1>2. QED
  BY <1>1, CodegenInvariant, PTL

\* gen_byte_code never stores behind the end of its buffer.
THEOREM CodeFitsBuffer == CodegenSpec => []BytesFit
<1>1. CodegenInv => BytesFit
  BY DEF CodegenInv
<1>2. QED
  BY <1>1, CodegenInvariant, PTL

\* The labels of open if statements are always distinct, and push_id never
\* writes behind id_stack.
THEOREM LabelsStayFresh == CodegenSpec => []LabelsFresh
<1>1. CodegenInv => LabelsFresh
  BY DEF CodegenInv
<1>2. QED
  BY <1>1, CodegenInvariant, PTL

-----------------------------------------------------------------------------
(* The generated code as a sequence of instructions. The recursions over it  *)
(* are followed from a smallest counterexample.                              *)

LEMMA Least ==
  ASSUME NEW S \in SUBSET Nat, S # {}
  PROVE  \E n \in S : \A m \in S : n <= m
<1>1. OpToRel(<, Nat) = {ss \in Nat \X Nat : ss[1] < ss[2]}
  BY Zenon DEF OpToRel
<1>2. PICK n \in S : \A m \in S : ~(<<m, n>> \in OpToRel(<, Nat))
  BY WFMin, NatLessThanWellFounded
<1>3. \A m \in S : ~(m < n)
  BY <1>1, <1>2
<1>4. QED
  BY <1>3

\* Sets of positions that hold with each instruction the next one.
Closed(S, code) == \A i \in S : i < Len(code) => Behind(code, i) \in S
ReachedFrom(i, code) == {j \in Nat : \A S \in SUBSET Nat : i \in S /\ Closed(S, code) => j \in S}
Follows(f, code) ==
  f = [i \in Nat |-> {i} \cup IF i < Len(code) THEN f[i + 1 + OpSize(code[i + 1])] ELSE {}]

LEMMA OpSizes == \A op : OpSize(op) \in Nat /\ OpSize(op) <= 2
BY DEF OpSize

LEMMA BehindLater ==
  ASSUME NEW code, NEW i \in Nat
  PROVE  Behind(code, i) \in Nat /\ Behind(code, i) > i /\ Behind(code, i) <= i + 3
BY OpSizes DEF Behind

\* The recursion of Boundaries has a solution, and only one.
LEMMA ReachedStep ==
  ASSUME NEW code, Len(code) \in Nat, NEW i \in Nat
  PROVE  ReachedFrom(i, code) =
           {i} \cup IF i < Len(code) THEN ReachedFrom(Behind(code, i), code) ELSE {}
<1> DEFINE n == Behind(code, i)
           rest == IF i < Len(code) THEN ReachedFrom(n, code) ELSE {}
<1>1. n \in Nat
  BY BehindLater
<1>2. i \in ReachedFrom(i, code)
  BY DEF ReachedFrom
<1>3. ASSUME NEW j \in rest PROVE j \in ReachedFrom(i, code)
  <2>1. i < Len(code) /\ j \in ReachedFrom(n, code)
    BY <1>3
  <2> HIDE DEF rest
  <2>2. ASSUME NEW S \in SUBSET Nat, i \in S, Closed(S, code) PROVE j \in S
    <3>1. n \in S
      BY <2>1, <2>2 DEF Closed
    <3>2. QED
      BY <2>1, <2>2, <3>1 DEF ReachedFrom
  <2>3. QED
    BY <2>1, <2>2 DEF ReachedFrom
<1>4. ASSUME NEW j \in ReachedFrom(i, code) PROVE j \in {i} \cup rest
  <2> DEFINE T == {i} \cup rest
  <2>1. T \in SUBSET Nat /\ i \in T
    BY DEF ReachedFrom
  <2>2. ASSUME NEW k \in T, k < Len(code) PROVE Behind(code, k) \in T
    <3>1. CASE k = i
      <4>1. i < Len(code) /\ n \in ReachedFrom(n, code)
        BY <1>1, <2>2, <3>1 DEF ReachedFrom
      <4>2. QED
        BY <3>1, <4>1
    <3>2. CASE k # i
      <4>1. i < Len(code) /\ k \in ReachedFrom(n, code)
        BY <2>2, <3>2
      <4>2. k \in Nat /\ Behind(code, k) \in Nat
        BY <2>1, <2>2, BehindLater
      <4>3. ASSUME NEW S \in SUBSET Nat, n \in S, Closed(S, code) PROVE Behind(code, k) \in S
        <5>1. k \in S
          BY <4>1, <4>3 DEF ReachedFrom
        <5>2. QED
          BY <2>2, <4>3, <5>1 DEF Closed
      <4>4. Behind(code, k) \in ReachedFrom(n, code)
        BY <4>2, <4>3 DEF ReachedFrom
      <4>5. QED
        BY <4>1, <4>4
    <3>3. QED
      BY <3>1, <3>2
  <2> HIDE DEF T
  <2>3. Closed(T, code)
    BY <2>2 DEF Closed
  <2>4. j \in T
    BY <2>1, <2>3 DEF ReachedFrom
  <2>5. QED
    BY <2>4 DEF T
<1>5. QED
  BY <1>2, <1>3, <1>4

LEMMA BoundariesReached ==
  ASSUME NEW code, Len(code) \in Nat
  PROVE  Boundaries(code) = ReachedFrom(0, code)
<1> DEFINE g == [i \in Nat |-> ReachedFrom(i, code)]
           f == CHOOSE h : Follows(h, code)
<1>1. Follows(g, code)
  <2>1. \A i \in Nat : ReachedFrom(i, code) =
          {i} \cup IF i < Len(code) THEN g[i + 1 + OpSize(code[i + 1])] ELSE {}
    BY ReachedStep, BehindLater DEF Behind
  <2> HIDE DEF g
  <2>2. g = [i \in Nat |-> {i} \cup IF i < Len(code) THEN g[i + 1 + OpSize(code[i + 1])] ELSE {}]
    BY <2>1 DEF g
  <2>3. QED
    BY <2>2 DEF Follows
<1>2. Follows(f, code)
  BY <1>1
<1>3. Boundaries(code) = f[0]
  BY DEF Boundaries, Follows
<1> HIDE DEF f, g
<1>4. \A i \in Nat : f[i] = {i} \cup IF i < Len(code) THEN f[Behind(code, i)] ELSE {}
  BY <1>2 DEF Follows, Behind
<1> DEFINE Bad == {m \in Nat : \E i \in Nat : m = (IF i < Len(code) THEN Len(code) - i ELSE 0)
                                              /\ f[i] # ReachedFrom(i, code)}
<1>5. Bad = {}
  <2> SUFFICES ASSUME Bad # {} PROVE FALSE
    OBVIOUS
  <2>1. Bad \in SUBSET Nat
    OBVIOUS
  <2>2. PICK m \in Bad : \A k \in Bad : m <= k
    BY <2>1, Least
  <2>3. PICK i \in Nat : m = (IF i < Len(code) THEN Len(code) - i ELSE 0)
                         /\ f[i] # ReachedFrom(i, code)
    BY <2>2
  <2> DEFINE n == Behind(code, i)
  <2>4. n \in Nat /\ n > i
    BY BehindLater
  <2>5. i < Len(code) /\ f[n] # ReachedFrom(n, code)
    BY <1>4, <2>3, ReachedStep
  <2> HIDE DEF n
  <2> DEFINE mm == IF n < Len(code) THEN Len(code) - n ELSE 0
  <2>6. mm \in Nat /\ mm < m
    BY <2>3, <2>4, <2>5
  <2>7. mm \in Bad
    BY <2>4, <2>5, <2>6
  <2> HIDE DEF mm, Bad
  <2>8. QED
    BY <2>1, <2>2, <2>6, <2>7
<1>6. f[0] = ReachedFrom(0, code)
  <2>1. \A i \in Nat : (IF i < Len(code) THEN Len(code) - i ELSE 0) \in Nat
    OBVIOUS
  <2>2. QED
    BY <1>5, <2>1
<1>7. QED
  BY <1>3, <1>6

\* The boundaries are the least set that holds the beginning and, with an
\* instruction, the one behind it.
LEMMA BoundariesClosed ==
  ASSUME NEW code, Len(code) \in Nat
  PROVE  /\ Boundaries(code) \in SUBSET Nat
         /\ 0 \in Boundaries(code)
         /\ Closed(Boundaries(code), code)
<1>1. Boundaries(code) = ReachedFrom(0, code)
  BY BoundariesReached
<1>2. Boundaries(code) \in SUBSET Nat /\ 0 \in Boundaries(code)
  BY <1>1 DEF ReachedFrom
<1>3. ASSUME NEW k \in Boundaries(code), k < Len(code)
      PROVE  Behind(code, k) \in Boundaries(code)
  <2>1. Behind(code, k) \in Nat
    BY <1>2, BehindLater
  <2>2. ASSUME NEW S \in SUBSET Nat, 0 \in S, Closed(S, code)
        PROVE  Behind(code, k) \in S
    <3>1. k \in S
      BY <1>1, <2>2 DEF ReachedFrom
    <3>2. QED
      BY <1>3, <2>2, <3>1 DEF Closed
  <2>3. QED
    BY <1>1, <2>1, <2>2 DEF ReachedFrom
<1>4. QED
  BY <1>2, <1>3 DEF Closed

LEMMA BoundariesLeast ==
  ASSUME NEW code, Len(code) \in Nat, NEW S \in SUBSET Nat, 0 \in S, Closed(S, code)
  PROVE  Boundaries(code) \subseteq S
BY BoundariesReached DEF ReachedFrom

\* What one more instruction does to the code. Every handler appends whole
\* instructions, so the code ends at a boundary.
Bytes(op, operand) == IF op \in WithOperand THEN <<op, Hi(operand), Lo(operand)>> ELSE <<op>>
Whole(code) == Len(code) \in Boundaries(code) /\ Boundaries(code) \subseteq 0 .. Len(code)

LEMMA GenBytes ==
  ASSUME NEW b, NEW op, NEW operand
  PROVE  Gen(b, op, operand).code = b.code \o Bytes(op, operand)
BY DEF Gen, Bytes

LEMMA BytesTyped1 ==
  ASSUME NEW op \in Opcodes, NEW operand \in Int
  PROVE  /\ Bytes(op, operand) \in Seq(Byte)
         /\ Len(Bytes(op, operand)) = 1 + OpSize(op)
         /\ Bytes(op, operand)[1] = op
         /\ op \in WithOperand => /\ Bytes(op, operand)[2] = Hi(operand)
                                 /\ Bytes(op, operand)[3] = Lo(operand)
<1>1. Hi(operand) \in Byte /\ Lo(operand) \in Byte /\ op \in Byte
  BY DEF Hi, Lo, Byte, UINT8_MAX, Opcodes
<1>2. QED
  BY <1>1 DEF Bytes, OpSize

LEMMA Appended ==
  ASSUME NEW code \in Seq(Byte), NEW op \in Opcodes, NEW operand \in Int
  PROVE  /\ code \o Bytes(op, operand) \in Seq(Byte)
         /\ Len(code \o Bytes(op, operand)) = Len(code) + 1 + OpSize(op)
         /\ \A i \in 1 .. Len(code) : (code \o Bytes(op, operand))[i] = code[i]
         /\ (code \o Bytes(op, operand))[Len(code) + 1] = op
         /\ op \in WithOperand =>
              /\ (code \o Bytes(op, operand))[Len(code) + 2] = Hi(operand)
              /\ (code \o Bytes(op, operand))[Len(code) + 3] = Lo(operand)
<1> DEFINE new == code \o Bytes(op, operand)
<1> DEFINE b == Bytes(op, operand)
<1>1. b \in Seq(Byte) /\ Len(b) = 1 + OpSize(op) /\ b[1] = op
      /\ (op \in WithOperand => b[2] = Hi(operand) /\ b[3] = Lo(operand))
  BY BytesTyped1
<1> HIDE DEF b
<1>2. new = code \o b
  BY DEF b
<1> HIDE DEF new
<1>3. OpSize(op) \in Nat /\ (op \in WithOperand => OpSize(op) = 2)
  BY DEF OpSize
<1> HIDE DEF Hi, Lo
<1>4. new \in Seq(Byte) /\ Len(new) = Len(code) + Len(b)
  BY <1>1, <1>2, ConcatProperties
<1>5. \A i \in 1 .. Len(code) : new[i] = code[i]
  BY <1>1, <1>2, ConcatProperties
<1>6. \A i \in 1 .. Len(b) : new[Len(code) + i] = b[i]
  BY <1>1, <1>2, ConcatProperties
<1>7. 1 \in 1 .. Len(b) /\ (op \in WithOperand => 2 \in 1 .. Len(b) /\ 3 \in 1 .. Len(b))
  BY <1>1, <1>3
<1>8. new[Len(code) + 1] = op
  BY <1>1, <1>6, <1>7
<1>9. op \in WithOperand => new[Len(code) + 2] = Hi(operand) /\ new[Len(code) + 3] = Lo(operand)
  BY <1>1, <1>6, <1>7
<1>10. Len(new) = Len(code) + 1 + OpSize(op)
  BY <1>1, <1>3, <1>4
<1>11. QED
  BY <1>4, <1>5, <1>8, <1>9, <1>10 DEF new

LEMMA BoundariesAppend ==
  ASSUME NEW code \in Seq(Byte), NEW op \in Opcodes, NEW operand \in Int, Whole(code)
  PROVE  /\ Boundaries(code \o Bytes(op, operand)) =
              Boundaries(code) \cup {Len(code) + 1 + OpSize(op)}
         /\ Whole(code \o Bytes(op, operand))
<1> DEFINE n == Len(code)
           B == Boundaries(code)
           new == code \o Bytes(op, operand)
<1>1. /\ new \in Seq(Byte) /\ Len(new) = n + 1 + OpSize(op)
      /\ \A i \in 1 .. n : new[i] = code[i]
      /\ new[n + 1] = op
  BY Appended
<1>0. n \in Nat /\ OpSize(op) \in Nat /\ Len(new) \in Nat /\ n < Len(new)
  BY <1>1, OpSizes
<1>2. B \in SUBSET Nat /\ 0 \in B /\ Closed(B, code) /\ n \in B /\ B \subseteq 0 .. n
  BY <1>0, <1>1, BoundariesClosed DEF Whole
<1>3. \A i \in B : i < n => Behind(new, i) = Behind(code, i)
  BY <1>0, <1>1, <1>2 DEF Behind
<1>4. Behind(new, n) = Len(new)
  BY <1>0, <1>1 DEF Behind
<1>5. /\ Boundaries(new) \in SUBSET Nat /\ 0 \in Boundaries(new)
      /\ Closed(Boundaries(new), new)
  BY <1>0, <1>1, BoundariesClosed
<1> HIDE DEF B, n, new
<1>6. B \subseteq Boundaries(new)
  <2> DEFINE S == B \cap Boundaries(new)
  <2>1. S \in SUBSET Nat /\ 0 \in S
    BY <1>2, <1>5
  <2>2. ASSUME NEW i \in S, i < Len(code) PROVE Behind(code, i) \in S
    <3>1. i < n /\ i < Len(new) /\ i \in B /\ i \in Boundaries(new)
      BY <1>0, <1>1, <1>2, <2>2 DEF n
    <3>2. Behind(code, i) \in B /\ Behind(code, i) \in Boundaries(new)
      BY <1>2, <1>3, <1>5, <3>1 DEF Closed, n
    <3>3. QED
      BY <3>2
  <2> HIDE DEF S
  <2>3. Closed(S, code)
    BY <2>2 DEF Closed
  <2>4. B \subseteq S
    BY <1>0, <1>1, <2>1, <2>3, BoundariesLeast DEF B, n
  <2>5. QED
    BY <2>4 DEF S
<1>7. Len(new) \in Boundaries(new)
  <2>1. n \in Boundaries(new) /\ n < Len(new)
    BY <1>0, <1>1, <1>2, <1>6
  <2>2. QED
    BY <1>4, <1>5, <2>1 DEF Closed
<1>8. Boundaries(new) \subseteq B \cup {Len(new)}
  <2> DEFINE S == B \cup {Len(new)}
  <2>1. S \in SUBSET Nat /\ 0 \in S /\ Len(new) \in Nat
    BY <1>0, <1>1, <1>2
  <2>2. ASSUME NEW i \in S, i < Len(new) PROVE Behind(new, i) \in S
    <3>1. i \in B /\ i \in 0 .. n
      BY <1>0, <1>1, <1>2, <2>2
    <3>2. CASE i < n
      <4>1. Behind(code, i) \in B
        BY <1>2, <3>1, <3>2 DEF Closed, n
      <4>2. QED
        BY <1>3, <3>1, <3>2, <4>1
    <3>3. CASE i = n
      BY <1>4, <3>3
    <3>4. QED
      BY <1>0, <1>1, <3>1, <3>2, <3>3
  <2> HIDE DEF S
  <2>3. Closed(S, new)
    BY <2>2 DEF Closed
  <2>4. Boundaries(new) \subseteq S
    BY <2>1, <2>3, BoundariesLeast
  <2>5. QED
    BY <2>4 DEF S
<1>9. Boundaries(new) \subseteq 0 .. Len(new)
  <2>1. \A i \in B : i \in 0 .. Len(new)
    BY <1>0, <1>2
  <2>2. QED
    BY <1>0, <1>8, <2>1
<1>10. QED
  BY <1>1, <1>6, <1>7, <1>8, <1>9 DEF Whole, B, n, new

LEMMA BoundariesOfNothing == Boundaries(<<>>) = {0} /\ Whole(<<>>)
<1>1. Closed({0}, <<>>) /\ Len(<<>>) = 0 /\ {0} \in SUBSET Nat /\ 0 \in {0}
  BY DEF Closed
<1>2. Boundaries(<<>>) = {0}
  <2>1. Boundaries(<<>>) \subseteq {0}
    BY <1>1, BoundariesLeast
  <2>2. 0 \in Boundaries(<<>>)
    BY <1>1, BoundariesClosed
  <2>3. QED
    BY <2>1, <2>2
<1>3. QED
  BY <1>1, <1>2 DEF Whole

\* One more instruction of those that ops holds, with one of args for its
\* operand, and up to three. All but the instructions of if statements are plain.
Extends(ops, args, c, d) == d = c \/ \E op \in ops, operand \in args : d = c \o Bytes(op, operand)
Plain == Listed \ {Op.goto, Op.label}
Grows(args, c, d) == \E c1, c2 \in Seq(Byte) :
                 Extends(Plain, args, c, c1) /\ Extends(Plain, args, c1, c2) /\ Extends(Plain, args, c2, d)

LEMMA ListedOpcodes == Listed \subseteq Opcodes
BY DEF Listed, Opcodes

Readable(code) == code \in Seq(Byte) /\ Whole(code) /\ Disassembles(code)

LEMMA ExtendsReadable ==
  ASSUME NEW args \in SUBSET Int, NEW c, NEW d, Readable(c), Extends(Listed, args, c, d)
  PROVE  Readable(d)
<1>1. CASE d = c
  BY <1>1
<1>2. ASSUME NEW op \in Listed, NEW operand \in args, d = c \o Bytes(op, operand)
      PROVE  Readable(d)
  <2>1. c \in Seq(Byte) /\ op \in Opcodes /\ Whole(c) /\ Disassembles(c)
    BY ListedOpcodes DEF Readable
  <2>2. /\ d \in Seq(Byte) /\ Len(d) = Len(c) + 1 + OpSize(op)
        /\ \A i \in 1 .. Len(c) : d[i] = c[i]
        /\ d[Len(c) + 1] = op
    BY <1>2, <2>1, Appended
  <2>3. Boundaries(d) = Boundaries(c) \cup {Len(c) + 1 + OpSize(op)} /\ Whole(d)
    BY <1>2, <2>1, BoundariesAppend
  <2>4. Boundaries(c) \subseteq 0 .. Len(c)
    BY <2>1 DEF Whole
  <2>5. ASSUME NEW i \in Boundaries(d), i < Len(d) PROVE d[i + 1] \in Listed
    <3>1. i \in Boundaries(c) /\ i \in 0 .. Len(c) /\ Len(c) \in Nat
      BY <2>1, <2>2, <2>3, <2>4, <2>5
    <3>2. CASE i < Len(c)
      <4>1. c[i + 1] \in Listed /\ i + 1 \in 1 .. Len(c)
        BY <2>1, <3>1, <3>2 DEF Disassembles
      <4>2. QED
        BY <2>2, <4>1
    <3>3. CASE i = Len(c)
      BY <1>2, <2>2, <3>3
    <3>4. QED
      BY <3>1, <3>2, <3>3
  <2>6. QED
    BY <2>2, <2>3, <2>5 DEF Readable, Disassembles
<1>3. QED
  BY <1>1, <1>2 DEF Extends

LEMMA GrowsReadable ==
  ASSUME NEW args \in SUBSET Int, NEW c, NEW d, Readable(c), Grows(args, c, d)
  PROVE  Readable(d)
<1>1. \A c1, c2 : Extends(Plain, args, c1, c2) => Extends(Listed, args, c1, c2)
  BY Zenon DEF Extends, Plain
<1>2. QED
  BY <1>1, ExtendsReadable DEF Grows

\* Every handler appends such instructions and changes nothing before them.
LEMMA GenExtends ==
  ASSUME NEW args \in SUBSET Int, NEW b, NEW op \in Plain, NEW operand \in args
  PROVE  Extends(Plain, args, b.code, Gen(b, op, operand).code)
BY GenBytes DEF Extends

LEMMA OneGrows ==
  ASSUME NEW args \in SUBSET Int, NEW b \in [code : Seq(Byte), size : Nat], NEW op \in Plain, NEW operand \in args
  PROVE  Grows(args, b.code, Gen(b, op, operand).code)
<1>1. b.code \in Seq(Byte)
  OBVIOUS
<1>2. Extends(Plain, args, b.code, b.code) /\ Extends(Plain, args, b.code, Gen(b, op, operand).code)
  BY GenExtends DEF Extends
<1>3. QED
  BY <1>1, <1>2 DEF Grows

LEMMA NoneGrows ==
  ASSUME NEW args \in SUBSET Int, NEW c \in Seq(Byte)
  PROVE  Grows(args, c, c)
<1>1. Extends(Plain, args, c, c)
  BY DEF Extends
<1>2. QED
  BY <1>1 DEF Grows

\* The handlers' opcodes are among those the disassembler lists.
LEMMA OpcodesPlain ==
  /\ \A type : PushStaticOp(type) \in Plain /\ PopStaticOp(type) \in Plain
  /\ \A k \in DOMAIN BinaryOps : \A t \in DOMAIN BinaryOps[k] : BinaryOps[k][t] \in Plain
  /\ UnaryEmitted \subseteq Plain
  /\ {Op.push_int, Op.push_double, Op.push_static_int, Op.pop_static_int, Op.push_function,
      Op.minus_int, Op.minus_double, Op.increment, Op.decrement, Op.invoke, Op.pop,
      Op.push_stack_pointer, Op.pop_stack_pointer} \subseteq Plain
<1>1. \A type : PushStaticOp(type) \in Plain /\ PopStaticOp(type) \in Plain
  BY DEF PushStaticOp, PopStaticOp, Op, Plain, Listed, Opcodes
<1>2. ASSUME NEW k \in DOMAIN BinaryOps, NEW t \in DOMAIN BinaryOps[k]
      PROVE  BinaryOps[k][t] \in Plain
  <2>1. BinaryOps[k][t] \in 13 .. 40 /\ BinaryOps[k][t] \in Opcodes
    BY DEF BinaryOps, Op, Opcodes
  <2>2. QED
    BY <2>1 DEF Plain, Listed, Op
<1>3. UnaryEmitted \subseteq Plain
  BY DEF UnaryEmitted, Op, Plain, Listed, Opcodes
<1>4. {Op.push_int, Op.push_double, Op.push_static_int, Op.pop_static_int, Op.push_function,
       Op.minus_int, Op.minus_double, Op.increment, Op.decrement, Op.invoke, Op.pop,
       Op.push_stack_pointer, Op.pop_stack_pointer} \subseteq Plain
  BY DEF Op, Plain, Listed, Opcodes
<1>5. QED
  BY <1>1, <1>2, <1>3, <1>4

LEMMA GenTyped ==
  ASSUME NEW b, b.code \in Seq(Byte), NEW op \in Plain, NEW operand \in Int
  PROVE  Gen(b, op, operand).code \in Seq(Byte)
<1> DEFINE code == b.code
<1>1. code \in Seq(Byte) /\ op \in Opcodes
  BY ListedOpcodes DEF Plain
<1> HIDE DEF code
<1>2. code \o Bytes(op, operand) \in Seq(Byte)
  BY <1>1, Appended
<1>3. QED
  BY <1>2, GenBytes DEF code

\* The instructions of one handler.
LEMMA TwoGrow ==
  ASSUME NEW args \in SUBSET Int, NEW b \in [code : Seq(Byte), size : Nat], NEW op \in Plain, NEW operand \in args,
         NEW op2 \in Plain, NEW operand2 \in args
  PROVE  Grows(args, b.code, Gen(Gen(b, op, operand), op2, operand2).code)
<1> DEFINE b1 == Gen(b, op, operand)
           b2 == Gen(b1, op2, operand2)
<1>1. b.code \in Seq(Byte) /\ b1.code \in Seq(Byte)
  BY GenTyped
<1>2. Extends(Plain, args, b.code, b.code) /\ Extends(Plain, args, b.code, b1.code)
  BY GenExtends DEF Extends
<1> HIDE DEF b1
<1>3. Extends(Plain, args, b1.code, b2.code)
  BY GenExtends
<1>4. QED
  BY <1>1, <1>2, <1>3 DEF Grows, b1

LEMMA ThreeGrow ==
  ASSUME NEW args \in SUBSET Int, NEW b \in [code : Seq(Byte), size : Nat], NEW op \in Plain, NEW operand \in args,
         NEW op2 \in Plain, NEW operand2 \in args, NEW op3 \in Plain, NEW operand3 \in args
  PROVE  Grows(args, b.code, Gen(Gen(Gen(b, op, operand), op2, operand2), op3, operand3).code)
<1> DEFINE b1 == Gen(b, op, operand)
           b2 == Gen(b1, op2, operand2)
           b3 == Gen(b2, op3, operand3)
<1>1. b.code \in Seq(Byte) /\ b1.code \in Seq(Byte)
  BY GenTyped
<1>2. Extends(Plain, args, b.code, b1.code)
  BY GenExtends
<1> HIDE DEF b1
<1>3. Extends(Plain, args, b1.code, b2.code) /\ b2.code \in Seq(Byte)
  BY <1>1, GenTyped, GenExtends
<1> HIDE DEF b2
<1>4. Extends(Plain, args, b2.code, b3.code)
  BY GenExtends
<1>5. QED
  BY <1>1, <1>2, <1>3, <1>4 DEF Grows, b1, b2

\* What a step does to the code and the labels, the traversal aside.
OpensIf == /\ buf'.code = buf.code \o Bytes(Op.goto, id)
           /\ id_stack' = Append(id_stack, id) /\ id' = id + 1
ClosesIf == /\ id_stack # <<>>
            /\ buf'.code = buf.code \o Bytes(Op.label, id_stack[Len(id_stack)])
            /\ id_stack' = SubSeq(id_stack, 1, Len(id_stack) - 1) /\ id' = id

\* What a handler may write as an operand: nothing, the index of a constant, the
\* new one included, of a declaration, or of what an identifier stands for.
Identifiers == {e \in Nodes : e.kind \in {"ident", "function"}}
Operands == {0} \cup {k \in Nat : k < Len(constant_pool') \/ k < Len(prog.decls)}
            \cup {e.n : e \in Identifiers}

LEMMA PlainGrows ==
  ASSUME TypeOK, CodegenNext, ~LeaveIfEnter, ~LeaveIfLeave
  PROVE  Grows(Operands, buf.code, buf'.code)
<1>0. /\ Operands \in SUBSET Int /\ 0 \in Operands
      /\ \A k \in Nat : k < Len(prog.decls) => k \in Operands
  <2>1. \A e \in Identifiers : e.n \in Int
    BY NodesAssumption DEF Identifiers
  <2>2. QED
    BY <2>1 DEF Operands
<1>1. buf \in [code : Seq(Byte), size : Nat] /\ buf.code \in Seq(Byte)
  BY DEF TypeOK
<1>3. ASSUME todo # <<>>
      PROVE  /\ Cur.kind \in {"ident", "function"} => Cur.n \in Operands
             /\ Cur.kind \in AssignKinds \cup {"inc", "dec"} /\ Cur.kids[1].kind = "ident"
                  => Cur.kids[1].n \in Operands
  <2>1. Cur \in Nodes
    BY <1>3, CurIsNode
  <2>2. \A e \in Nodes : /\ e.n \in Int /\ e.kids \in Seq(Nodes)
                         /\ e.kind \in AssignKinds => Len(e.kids) = 2
                         /\ e.kind \in {"inc", "dec"} => Len(e.kids) = 1
    BY NodesAssumption
  <2> HIDE DEF Cur
  <2>3. \A i \in DOMAIN Cur.kids : Cur.kids[i] \in Nodes
    BY <2>1, <2>2
  <2>4. \A e \in Nodes : e.kind \in {"ident", "function"} => e.n \in Operands
    BY DEF Operands, Identifiers
  <2>5. Cur.kind \in AssignKinds \cup {"inc", "dec"} => 1 \in DOMAIN Cur.kids
    BY <2>1, <2>2
  <2>6. QED
    BY <2>1, <2>3, <2>4, <2>5
<1>4. ASSUME UNCHANGED buf PROVE Grows(Operands, buf.code, buf'.code)
  BY <1>0, <1>1, <1>4, NoneGrows
<1>5. ASSUME NEW op \in Plain, NEW operand \in Operands, Emit(op, operand)
      PROVE  Grows(Operands, buf.code, buf'.code)
  BY <1>0, <1>1, <1>5, OneGrows DEF Emit
<1>6. CASE EnterOther \/ EnterFuncCall \/ LeaveFunctionAssign \/ LeaveAssign
  BY <1>4, <1>6 DEF EnterOther, EnterFuncCall, LeaveFunctionAssign, LeaveAssign, Exit, handlerVars
<1>7. CASE EnterAssign
  <2>1. todo # <<>> /\ Cur.kind \in AssignKinds
    BY <1>7 DEF EnterAssign, Calling
  <2>2. Cur.kids[1].kind = "ident" => Cur.kids[1].n \in Operands
    BY <1>3, <2>1
  <2>3. \/ UNCHANGED buf
        \/ Cur.kids[1].kind = "ident" /\ Emit(Op.push_static_int, Cur.kids[1].n)
    BY <1>7 DEF EnterAssign
  <2>4. QED
    BY <1>4, <1>5, <2>2, <2>3, OpcodesPlain
<1>8. CASE LeaveLiteral
  <2>1. \E op \in {Op.push_double, Op.push_int} : Emit(op, Len(constant_pool))
    BY <1>8 DEF LeaveLiteral
  <2>2. Len(constant_pool) \in Operands
    <3>1. Len(constant_pool) \in Nat /\ Len(constant_pool') = Len(constant_pool) + 1
      BY <1>8 DEF LeaveLiteral, TypeOK
    <3>2. QED
      BY <3>1 DEF Operands
  <2>3. QED
    BY <1>5, <2>1, <2>2, OpcodesPlain
<1>9. CASE LeaveIdentNormal
  <2>1. todo # <<>> /\ Cur.kind \in {"ident", "function"}
    BY <1>9 DEF LeaveIdentNormal, Calling
  <2>2. \E op \in {Op.push_function, PushStaticOp(Cur.type)} : Emit(op, Cur.n)
    BY <1>9 DEF LeaveIdentNormal, EmitAndReturn
  <2>3. QED
    BY <1>3, <1>5, <2>1, <2>2, OpcodesPlain
<1>10. CASE LeaveIdentAssign
  <2>1. todo # <<>> /\ Cur.kind \in {"ident", "function"}
    BY <1>10 DEF LeaveIdentAssign, Calling
  <2>2. \/ buf' = Gen(buf, PopStaticOp(Cur.type), Cur.n)
        \/ buf' = Gen(Gen(buf, PopStaticOp(Cur.type), Cur.n), PushStaticOp(Cur.type), Cur.n)
    BY <1>10 DEF LeaveIdentAssign
  <2>3. Cur.n \in Operands
    BY <1>3, <2>1
  <2>4. PopStaticOp(Cur.type) \in Plain /\ PushStaticOp(Cur.type) \in Plain
    BY OpcodesPlain
  <2>5. QED
    BY <1>0, <1>1, <2>2, <2>3, <2>4, OneGrows, TwoGrow
<1>11. CASE LeaveBinary
  <2>1. UNCHANGED buf \/ \E op \in Plain : Emit(op, 0)
    BY <1>11, OpcodesPlain DEF LeaveBinary, EmitAndReturn, Exit
  <2>2. QED
    BY <1>0, <1>4, <1>5, <2>1
<1>12. CASE LeaveUnary
  <2>1. UNCHANGED buf \/ \E op \in Plain : Emit(op, 0)
    BY <1>12, UnaryEmits, OpcodesPlain DEF EmitAndReturn, Exit
  <2>2. QED
    BY <1>0, <1>4, <1>5, <2>1
<1>13. CASE LeaveIncDec
  <2>1. todo # <<>> /\ Cur.kind \in {"inc", "dec"}
    BY <1>13 DEF LeaveIncDec, Calling
  <2>2. Cur.kids[1].kind = "ident" => Cur.kids[1].n \in Operands
    BY <1>3, <2>1
  <2>3. \/ UNCHANGED buf
        \/ \E op \in {Op.increment, Op.decrement} :
             /\ Cur.kids[1].kind = "ident"
             /\ buf' = Gen(Gen(Gen(buf, op, 0), Op.pop_static_int, Cur.kids[1].n),
                           Op.push_static_int, Cur.kids[1].n)
    BY <1>13 DEF LeaveIncDec, Exit
  <2>4. ASSUME NEW op \in {Op.increment, Op.decrement}, Cur.kids[1].kind = "ident",
               buf' = Gen(Gen(Gen(buf, op, 0), Op.pop_static_int, Cur.kids[1].n),
                          Op.push_static_int, Cur.kids[1].n)
        PROVE  Grows(Operands, buf.code, buf'.code)
    <3>1. op \in Plain /\ Op.pop_static_int \in Plain /\ Op.push_static_int \in Plain
      BY OpcodesPlain
    <3> DEFINE n == Cur.kids[1].n
    <3>2. n \in Operands /\ 0 \in Operands
      BY <1>0, <2>2, <2>4
    <3>3. buf' = Gen(Gen(Gen(buf, op, 0), Op.pop_static_int, n), Op.push_static_int, n)
      BY <2>4
    <3> HIDE DEF n
    <3>4. Grows(Operands, buf.code, Gen(Gen(Gen(buf, op, 0), Op.pop_static_int, n),
                              Op.push_static_int, n).code)
      BY <1>0, <1>1, <3>1, <3>2, ThreeGrow
    <3>5. QED
      BY <3>3, <3>4
  <2>5. QED
    BY <1>4, <2>3, <2>4
<1>14. CASE NotifyAssign
  <2>1. todo # <<>> /\ Cur.kind \in AssignKinds
    <3>1. todo # <<>> /\ todo[1].at = "notify" /\ todo \in Seq(Pending)
      BY <1>14 DEF NotifyAssign, Calling, TypeOK
    <3>2. todo[1] \in Pending
      BY <3>1
    <3>3. QED
      BY <3>1, <3>2 DEF Pending, Cur
  <2>2. \/ UNCHANGED buf
        \/ /\ Cur.kind # "assign" /\ Cur.kids[2].type \in {"int", "double"}
           /\ Emit(BinaryOps[CompoundOf[Cur.kind]][Cur.kids[2].type], 0)
    BY <1>14 DEF NotifyAssign, EmitOp, Exit
  <2>3. Cur.kind # "assign" => Cur.kind \in DOMAIN CompoundOf
    BY <2>1 DEF AssignKinds
  <2>4. QED
    BY <1>0, <1>4, <1>5, <2>2, <2>3, OpcodesPlain, OpcodesInTable
<1>15. CASE LeaveFuncCall \/ LeaveExprStmt
  <2>1. UNCHANGED buf \/ Emit(Op.invoke, 0) \/ Emit(Op.pop, 0)
    BY <1>15 DEF LeaveFuncCall, LeaveExprStmt, EmitOp
  <2>2. QED
    BY <1>0, <1>4, <1>5, <2>1, OpcodesPlain
<1>16. CASE LeaveDeclStmt
  <2>1. prog.decls \in Seq([name : STRING, type : Types])
    BY NodesAssumption DEF TypeOK
  <2>2. UNCHANGED buf \/ \E i \in DOMAIN prog.decls : Emit(PopStaticOp(prog.decls[i].type), i - 1)
    BY <1>16 DEF LeaveDeclStmt, EmitAndReturn, handlerVars
  <2>3. \A i \in DOMAIN prog.decls : i - 1 \in Operands
    <3>1. \A i \in DOMAIN prog.decls : i - 1 \in Nat /\ i - 1 < Len(prog.decls)
      BY <2>1
    <3>2. QED
      BY <1>0, <3>1
  <2>4. QED
    BY <1>4, <1>5, <2>2, <2>3, OpcodesPlain
<1>17. CASE LeaveBlockOp
  <2>1. Emit(Op.push_stack_pointer, 0) \/ Emit(Op.pop_stack_pointer, 0)
    BY <1>17 DEF LeaveBlockOp, EmitAndReturn
  <2>2. QED
    BY <1>0, <1>5, <2>1, OpcodesPlain
<1>18. QED
  BY <1>6, <1>7, <1>8, <1>9, <1>10, <1>11, <1>12, <1>13, <1>14, <1>15, <1>16, <1>17
     DEF CodegenNext

LEMMA StepGrows ==
  ASSUME TypeOK, CodegenNext
  PROVE  \/ Grows(Operands, buf.code, buf'.code) /\ UNCHANGED <<id, id_stack>>
         \/ OpensIf \/ ClosesIf
<1>1. CASE LeaveIfEnter
  <2>1. CASE Exit
    <3>1. Grows(Operands, buf.code, buf'.code)
      BY <2>1, NoneGrows DEF Exit, TypeOK
    <3>2. QED
      BY <2>1, <3>1 DEF Exit
  <2>2. CASE id_stack' = Append(id_stack, id) /\ id' = id + 1 /\ Emit(Op.goto, id)
    BY <2>2, GenBytes DEF OpensIf, Emit
  <2>3. QED
    BY <1>1, <2>1, <2>2 DEF LeaveIfEnter
<1>2. CASE LeaveIfLeave
  <2> DEFINE top == id_stack[Len(id_stack)]
  <2>1. buf' = Gen(buf, Op.label, top)
    BY <1>2 DEF LeaveIfLeave, Emit
  <2> HIDE DEF top
  <2>2. buf'.code = buf.code \o Bytes(Op.label, top)
    BY <2>1, GenBytes
  <2>3. QED
    BY <1>2, <2>2 DEF LeaveIfLeave, ClosesIf, top
<1>3. ~LeaveIfEnter /\ ~LeaveIfLeave => UNCHANGED <<id, id_stack>>
  <2>1. CASE EnterOther \/ EnterAssign \/ EnterFuncCall \/ LeaveLiteral
    BY <2>1 DEF EnterOther, EnterAssign, EnterFuncCall, LeaveLiteral, handlerVars, KeepModes
  <2>2. CASE LeaveIdentNormal \/ LeaveIdentAssign \/ LeaveFunctionAssign
    BY <2>2 DEF LeaveIdentNormal, LeaveIdentAssign, LeaveFunctionAssign, EmitAndReturn, KeepModes, Exit
  <2>3. CASE LeaveBinary \/ LeaveUnary \/ LeaveIncDec \/ NotifyAssign
    BY <2>3 DEF LeaveBinary, LeaveUnary, LeaveIncDec, NotifyAssign, EmitAndReturn, KeepModes, Exit
  <2>4. CASE LeaveAssign \/ LeaveFuncCall \/ LeaveExprStmt
    BY <2>4 DEF LeaveAssign, LeaveFuncCall, LeaveExprStmt
  <2>5. CASE LeaveDeclStmt \/ LeaveBlockOp
    BY <2>5 DEF LeaveDeclStmt, LeaveBlockOp, EmitAndReturn, KeepModes, handlerVars
  <2>6. QED
    BY <2>1, <2>2, <2>3, <2>4, <2>5 DEF CodegenNext
<1>4. QED
  BY <1>1, <1>2, <1>3, PlainGrows

LEMMA ReadableInit == CodegenInit => Readable(buf.code)
<1> SUFFICES ASSUME CodegenInit
             PROVE  Readable(buf.code)
  OBVIOUS
<1>1. buf.code = <<>> /\ Len(<<>>) = 0 /\ <<>> \in Seq(Byte)
  BY DEF CodegenInit
<1>2. Boundaries(<<>>) = {0} /\ Whole(<<>>)
  BY BoundariesOfNothing
<1>3. Disassembles(<<>>)
  BY <1>1, <1>2 DEF Disassembles
<1>4. QED
  BY <1>1, <1>2, <1>3 DEF Readable

LEMMA ReadableNext ==
  ASSUME TypeOK, Readable(buf.code), [CodegenNext]_codegenVars
  PROVE  Readable(buf'.code)
<1>1. CASE UNCHANGED codegenVars
  BY <1>1 DEF codegenVars, handlerVars
<1>2. Op.goto \in Listed /\ Op.label \in Listed
  BY DEF Op, Listed, Opcodes
<1>3. CASE OpensIf
  <2>1. id \in Int
    BY DEF TypeOK
  <2>2. Extends(Listed, Int, buf.code, buf'.code)
    BY <1>2, <1>3, <2>1 DEF Extends, OpensIf
  <2>3. QED
    BY <2>2, ExtendsReadable
<1>4. CASE ClosesIf
  <2>1. id_stack[Len(id_stack)] \in Int
    BY <1>4 DEF TypeOK, ClosesIf
  <2>2. Extends(Listed, Int, buf.code, buf'.code)
    BY <1>2, <1>4, <2>1 DEF Extends, ClosesIf
  <2>3. QED
    BY <2>2, ExtendsReadable
<1>5. QED
  BY <1>1, <1>3, <1>4, StepGrows, GrowsReadable

\* Whatever is generated, the disassembler reads in step: at every place where
\* it looks for an instruction there is one, and one that it knows
\* (codegentest.c:281-351).
THEOREM GeneratedCodeReadable == CodegenSpec => [](Generated => Disassembles(buf.code))
<1>1. CodegenInit => CodegenInv /\ Readable(buf.code)
  BY InitInv, ReadableInit
<1>2. CodegenInv /\ Readable(buf.code) /\ [CodegenNext]_codegenVars
        => CodegenInv' /\ Readable(buf.code)'
  BY NextInv, ReadableNext DEF CodegenInv
<1>3. CodegenInv /\ Readable(buf.code) => (Generated => Disassembles(buf.code))
  BY DEF Readable
<1>4. QED
  BY <1>1, <1>2, <1>3, PTL DEF CodegenSpec

-----------------------------------------------------------------------------
(* Instructions and their operands.                                          *)

LEMMA HiLo ==
  ASSUME NEW n \in Nat, n <= UINT16_MAX
  PROVE  Hi(n) * 256 + Lo(n) = n
<1> DEFINE q == n \div 256
           r == n % 256
<1>1. q \in Nat /\ r \in Nat
  OBVIOUS
<1>2. q < 256
  BY DEF UINT16_MAX
<1>3. n = 256 * q + r
  OBVIOUS
<1>4. Hi(n) = q % 256 /\ Lo(n) = r
  BY DEF Hi, Lo
<1> HIDE DEF q, r
<1>5. q % 256 = q
  BY <1>1, <1>2
<1>6. QED
  BY <1>1, <1>3, <1>4, <1>5

LEMMA OperandInside ==
  ASSUME NEW code \in Seq(Byte), Whole(code), NEW op \in WithOperand, NEW i \in InstrAt(code, op)
  PROVE  i \in Nat /\ i + 3 <= Len(code) /\ code[i + 1] = op
<1>1. i \in Boundaries(code) /\ i < Len(code) /\ code[i + 1] = op
  BY DEF InstrAt
<1>2. Boundaries(code) \in SUBSET Nat /\ Closed(Boundaries(code), code)
  BY BoundariesClosed
<1>3. Behind(code, i) \in Boundaries(code)
  BY <1>1, <1>2 DEF Closed
<1>4. OpSize(op) = 2 /\ i \in Nat
  BY <1>1, <1>2 DEF OpSize
<1>5. Behind(code, i) = i + 3
  BY <1>1, <1>4 DEF Behind
<1>6. i + 3 \in 0 .. Len(code)
  BY <1>3, <1>5 DEF Whole
<1>7. QED
  BY <1>1, <1>4, <1>6

LEMMA InstrAppend ==
  ASSUME NEW code \in Seq(Byte), Whole(code), NEW op \in Opcodes, NEW operand \in Int,
         NEW o
  PROVE  InstrAt(code \o Bytes(op, operand), o) =
           InstrAt(code, o) \cup (IF op = o THEN {Len(code)} ELSE {})
<1> DEFINE new == code \o Bytes(op, operand)
           n == Len(code)
<1>a. /\ n \in Nat /\ OpSize(op) \in Nat
      /\ Boundaries(new) = Boundaries(code) \cup {n + 1 + OpSize(op)}
  BY BoundariesAppend, OpSizes
<1>b. /\ Len(new) = n + 1 + OpSize(op)
      /\ \A i \in 1 .. n : new[i] = code[i]
      /\ new[n + 1] = op
  BY Appended
<1>1. /\ n \in Nat /\ OpSize(op) \in Nat /\ Len(new) = n + 1 + OpSize(op)
      /\ \A i \in 1 .. n : new[i] = code[i]
      /\ new[n + 1] = op
      /\ Boundaries(new) = Boundaries(code) \cup {n + 1 + OpSize(op)}
  BY <1>a, <1>b
<1>2. n \in Boundaries(code) /\ \A i \in Boundaries(code) : i \in 0 .. n
  BY DEF Whole
<1> HIDE DEF new, n
<1>3. ASSUME NEW i \in InstrAt(new, o) PROVE i \in InstrAt(code, o) \cup (IF op = o THEN {n} ELSE {})
  <2>1. i \in Boundaries(code) /\ i \in 0 .. n /\ new[i + 1] = o
    BY <1>1, <1>2 DEF InstrAt
  <2>2. CASE i = n
    BY <1>1, <2>1, <2>2
  <2>3. CASE i < n
    <3>1. new[i + 1] = code[i + 1]
      BY <1>1, <2>1, <2>3
    <3>2. QED
      BY <2>1, <2>3, <3>1 DEF InstrAt, n
  <2>4. QED
    BY <1>1, <2>1, <2>2, <2>3
<1>4. ASSUME NEW i \in InstrAt(code, o) PROVE i \in InstrAt(new, o)
  <2>1. i \in Boundaries(code) /\ i \in 0 .. n /\ i < n /\ code[i + 1] = o
    BY <1>2 DEF InstrAt, n
  <2>2. new[i + 1] = o
    BY <1>1, <2>1
  <2>3. i < Len(new) /\ i \in Boundaries(new)
    BY <1>1, <2>1
  <2>4. QED
    BY <2>2, <2>3 DEF InstrAt
<1>5. ASSUME op = o PROVE n \in InstrAt(new, o)
  <2>1. n < Len(new) /\ n \in Boundaries(new) /\ new[n + 1] = o
    BY <1>1, <1>2, <1>5
  <2>2. QED
    BY <2>1 DEF InstrAt
<1>6. QED
  BY <1>3, <1>4, <1>5 DEF new, n

LEMMA OperandKept ==
  ASSUME NEW code \in Seq(Byte), Whole(code), NEW op \in Opcodes, NEW operand \in Int,
         NEW o \in WithOperand, NEW i \in InstrAt(code, o)
  PROVE  Operand(code \o Bytes(op, operand), i) = Operand(code, i)
<1>1. i \in Nat /\ i + 3 <= Len(code) /\ Len(code) \in Nat
  BY OperandInside
<1>2. i + 2 \in 1 .. Len(code) /\ i + 3 \in 1 .. Len(code)
  BY <1>1
<1> DEFINE new == code \o Bytes(op, operand)
<1>3. \A j \in 1 .. Len(code) : new[j] = code[j]
  BY Appended
<1> HIDE DEF new
<1>4. QED
  BY <1>2, <1>3 DEF Operand, new

LEMMA AppendedHi ==
  ASSUME NEW code \in Seq(Byte), NEW op \in Opcodes, NEW operand \in Int, op \in WithOperand
  PROVE  (code \o Bytes(op, operand))[Len(code) + 2] = Hi(operand)
BY Appended

LEMMA AppendedLo ==
  ASSUME NEW code \in Seq(Byte), NEW op \in Opcodes, NEW operand \in Int, op \in WithOperand
  PROVE  (code \o Bytes(op, operand))[Len(code) + 3] = Lo(operand)
BY Appended

LEMMA OperandNew ==
  ASSUME NEW code \in Seq(Byte), NEW op \in Opcodes, NEW operand \in Int,
         op \in WithOperand, operand >= 0, operand <= UINT16_MAX
  PROVE  Operand(code \o Bytes(op, operand), Len(code)) = operand
<1>1. (code \o Bytes(op, operand))[Len(code) + 2] = Hi(operand)
  BY AppendedHi
<1>2. (code \o Bytes(op, operand))[Len(code) + 3] = Lo(operand)
  BY AppendedLo
<1>3. Hi(operand) * 256 + Lo(operand) = operand
  BY HiLo
<1>4. QED
  BY <1>1, <1>2, <1>3 DEF Operand

-----------------------------------------------------------------------------
(* What is left to do, as steps between levels: R says what each call may do.*)

Along(R, td, sh) == /\ DOMAIN sh = 1 .. Len(td) + 1
                    /\ \A i \in 1 .. Len(td) : <<td[i], sh[i], sh[i + 1]>> \in R

Leads(R, td, from, to) == \E sh : Along(R, td, sh) /\ sh[1] = from /\ sh[Len(td) + 1] = to

LEMMA AlongTail ==
  ASSUME NEW R, NEW td \in Seq(Pending), td # <<>>, NEW sh, Along(R, td, sh)
  PROVE  \E b : <<td[1], sh[1], b>> \in R /\ Leads(R, Tail(td), b, sh[Len(td) + 1])
<1> DEFINE w == [i \in 1 .. Len(td) |-> sh[i + 1]]
<1>1. Len(td) \in Nat /\ Len(td) > 0 /\ Len(Tail(td)) = Len(td) - 1 /\ Tail(td) \in Seq(Pending)
      /\ \A i \in 1 .. Len(td) - 1 : Tail(td)[i] = td[i + 1]
  OBVIOUS
<1> DEFINE n == Len(td)
           t == Tail(td)
<1> HIDE DEF t
<1>2. \A i \in 1 .. n : <<td[i], sh[i], sh[i + 1]>> \in R
  BY DEF Along
<1>3. ASSUME NEW i \in 1 .. n - 1 PROVE <<t[i], w[i], w[i + 1]>> \in R
  <2>1. i + 1 \in 1 .. n /\ i \in 1 .. n
    BY <1>1
  <2>2. t[i] = td[i + 1] /\ w[i] = sh[i + 1] /\ w[i + 1] = sh[i + 1 + 1]
    BY <1>1, <2>1 DEF t
  <2>3. QED
    BY <1>2, <2>1, <2>2
<1>4. DOMAIN w = 1 .. n /\ Len(t) = n - 1 /\ n - 1 + 1 = n
  BY <1>1 DEF t
<1>5. Along(R, t, w)
  BY <1>3, <1>4 DEF Along
<1>6. 1 \in 1 .. n /\ n \in 1 .. n
  BY <1>1
<1>7. <<td[1], sh[1], w[1]>> \in R
  BY <1>2, <1>6
<1>8. w[n] = sh[n + 1]
  BY <1>6
<1>9. w[Len(t) + 1] = sh[n + 1]
  BY <1>4, <1>8
<1> HIDE DEF w
<1>10. QED
  BY <1>5, <1>7, <1>9 DEF t, Leads

LEMMA AlongBoth ==
  ASSUME NEW R, NEW s \in Seq(Pending), NEW t \in Seq(Pending), NEW u, NEW w,
         Along(R, s, u), Along(R, t, w), u[Len(s) + 1] = w[1]
  PROVE  \E v : /\ Along(R, s \o t, v)
                /\ v[1] = u[1]
                /\ v[Len(s \o t) + 1] = w[Len(t) + 1]
<1> DEFINE v == [i \in 1 .. Len(s) + Len(t) + 1 |-> IF i <= Len(s) THEN u[i] ELSE w[i - Len(s)]]
           m == Len(s)
           n == Len(t)
           st == s \o t
<1>1. m \in Nat /\ n \in Nat /\ Len(st) = m + n
      /\ \A i \in 1 .. m + n : st[i] = IF i <= m THEN s[i] ELSE t[i - m]
  BY ConcatProperties
<1> HIDE DEF st
<1>2. /\ \A i \in 1 .. m : <<s[i], u[i], u[i + 1]>> \in R
      /\ \A i \in 1 .. n : <<t[i], w[i], w[i + 1]>> \in R
  BY DEF Along
<1>3. ASSUME NEW i \in 1 .. m + n PROVE <<st[i], v[i], v[i + 1]>> \in R
  <2>1. i \in 1 .. m + n + 1 /\ i + 1 \in 1 .. m + n + 1
    BY <1>1
  <2>2. CASE i <= m
    <3>1. i \in 1 .. m /\ st[i] = s[i] /\ v[i] = u[i]
      BY <1>1, <2>1, <2>2
    <3>2. v[i + 1] = u[i + 1]
      <4>1. CASE i + 1 <= m
        BY <2>1, <4>1
      <4>2. CASE i = m
        <5>1. v[i + 1] = w[m + 1 - m] /\ m + 1 - m = 1
          BY <1>1, <2>1, <4>2
        <5>2. QED
          BY <4>2, <5>1
      <4>3. QED
        BY <1>1, <2>2, <4>1, <4>2
    <3>3. QED
      BY <1>2, <3>1, <3>2
  <2>3. CASE i > m
    <3>1. i - m \in 1 .. n /\ st[i] = t[i - m] /\ v[i] = w[i - m]
      BY <1>1, <2>1, <2>3
    <3>2. v[i + 1] = w[i + 1 - m] /\ i + 1 - m = i - m + 1
      BY <1>1, <2>1, <2>3
    <3>3. QED
      BY <1>2, <3>1, <3>2
  <2>4. QED
    BY <1>1, <2>2, <2>3
<1>4. DOMAIN v = 1 .. Len(st) + 1
  BY <1>1
<1>5. Along(R, st, v)
  BY <1>1, <1>3, <1>4 DEF Along
<1>6. v[1] = u[1]
  <2>1. CASE m = 0
    <3>1. v[1] = w[1 - 0] /\ 1 - 0 = 1
      BY <1>1, <2>1
    <3>2. QED
      BY <2>1, <3>1
  <2>2. CASE m > 0
    BY <1>1, <2>2
  <2>3. QED
    BY <1>1, <2>1, <2>2
<1>7. v[m + n + 1] = w[n + 1]
  <2>1. m + n + 1 \in 1 .. m + n + 1 /\ ~(m + n + 1 <= m) /\ m + n + 1 - m = n + 1
    BY <1>1
  <2>2. QED
    BY <2>1
<1>8. v[Len(st) + 1] = w[n + 1]
  BY <1>1, <1>7
<1> HIDE DEF v
<1>9. QED
  BY <1>5, <1>6, <1>8 DEF st

LEMMA LeadsTail ==
  ASSUME NEW R, NEW td \in Seq(Pending), td # <<>>, NEW a, NEW z, Leads(R, td, a, z)
  PROVE  \E b : <<td[1], a, b>> \in R /\ Leads(R, Tail(td), b, z)
<1>1. PICK sh : Along(R, td, sh) /\ sh[1] = a /\ sh[Len(td) + 1] = z
  BY DEF Leads
<1>2. QED
  BY <1>1, AlongTail

LEMMA LeadsBoth ==
  ASSUME NEW R, NEW s \in Seq(Pending), NEW t \in Seq(Pending), NEW a, NEW b, NEW z,
         Leads(R, s, a, b), Leads(R, t, b, z)
  PROVE  Leads(R, s \o t, a, z)
<1>1. PICK u : Along(R, s, u) /\ u[1] = a /\ u[Len(s) + 1] = b
  BY DEF Leads
<1>2. PICK w : Along(R, t, w) /\ w[1] = b /\ w[Len(t) + 1] = z
  BY DEF Leads
<1>3. \E v : /\ Along(R, s \o t, v)
             /\ v[1] = u[1]
             /\ v[Len(s \o t) + 1] = w[Len(t) + 1]
  BY <1>1, <1>2, AlongBoth
<1>4. QED
  BY <1>1, <1>2, <1>3 DEF Leads

LEMMA LeadsOne ==
  ASSUME NEW R, NEW c, NEW a, NEW b, <<c, a, b>> \in R
  PROVE  Leads(R, <<c>>, a, b)
<1> DEFINE w == [i \in 1 .. 2 |-> IF i = 1 THEN a ELSE b]
<1>1. w[1] = a /\ w[2] = b /\ DOMAIN w = 1 .. 2
  OBVIOUS
<1>2. Len(<<c>>) = 1 /\ <<c>>[1] = c
  OBVIOUS
<1> HIDE DEF w
<1>3. ASSUME NEW i \in 1 .. Len(<<c>>) PROVE <<<<c>>[i], w[i], w[i + 1]>> \in R
  <2>1. i = 1
    BY <1>2
  <2>2. QED
    BY <1>1, <1>2, <2>1
<1>4. Along(R, <<c>>, w)
  BY <1>1, <1>2, <1>3 DEF Along
<1>5. QED
  BY <1>1, <1>2, <1>4 DEF Leads

LEMMA LeadsNowhere ==
  ASSUME NEW R, NEW a, NEW z
  PROVE  Leads(R, <<>>, a, z) <=> a = z
<1>1. ASSUME Leads(R, <<>>, a, z) PROVE a = z
  BY <1>1 DEF Leads
<1> DEFINE w == [i \in 1 .. 1 |-> a]
<1>2. w[1] = a /\ Along(R, <<>>, w) /\ Len(<<>>) = 0
  BY DEF Along
<1> HIDE DEF w
<1>3. Leads(R, <<>>, a, a)
  BY <1>2 DEF Leads
<1>4. QED
  BY <1>1, <1>3

LEMMA LeadsDescend ==
  ASSUME NEW R, NEW td \in Seq(Pending), td # <<>>, NEW kids \in Seq(Pending), NEW c \in Pending,
         NEW a, NEW b, NEW z, NEW k,
         Leads(R, kids, a, k), <<c, k, b>> \in R, Leads(R, Tail(td), b, z)
  PROVE  Leads(R, kids \o <<c>> \o Tail(td), a, z)
<1>1. Tail(td) \in Seq(Pending) /\ <<c>> \in Seq(Pending) /\ kids \o <<c>> \in Seq(Pending)
  OBVIOUS
<1>2. Leads(R, <<c>>, k, b)
  BY LeadsOne
<1>3. Leads(R, kids \o <<c>>, a, b)
  BY <1>1, <1>2, LeadsBoth
<1>4. QED
  BY <1>1, <1>3, LeadsBoth

-----------------------------------------------------------------------------
(* Labels. A goto's label is open, or its label instruction is behind it.    *)

Gotos(code) == InstrAt(code, Op.goto)
Labels(code) == InstrAt(code, Op.label)
Targets(code) == [i \in Gotos(code) \cup Labels(code) |-> Operand(code, i)]

PairedBy(G, L, t, open, n) ==
  /\ \A g \in G : t[g] \in Nat /\ t[g] < n
  /\ \A g, h \in G : t[g] = t[h] => g = h
  /\ \A l \in L : \E g \in G : g < l /\ t[g] = t[l]
  /\ \A l, m \in L : t[l] = t[m] => l = m
  /\ \A i \in 1 .. Len(open) : /\ \E g \in G : t[g] = open[i]
                               /\ \A l \in L : t[l] # open[i]
  /\ \A g \in G : \/ \E i \in 1 .. Len(open) : open[i] = t[g]
                  \/ \E l \in L : g < l /\ t[l] = t[g]
Paired(code, open, n) == PairedBy(Gotos(code), Labels(code), Targets(code), open, n)

LEMMA InstrInside ==
  ASSUME NEW code \in Seq(Byte), Whole(code), NEW op
  PROVE  \A i \in InstrAt(code, op) : i \in Nat /\ i < Len(code)
<1>1. Boundaries(code) \subseteq 0 .. Len(code)
  BY DEF Whole
<1>2. QED
  BY <1>1 DEF InstrAt

LEMMA OpIf == /\ Op.goto \in Opcodes /\ Op.label \in Opcodes /\ Op.goto # Op.label
              /\ Op.goto \in WithOperand /\ Op.label \in WithOperand
BY DEF Op, Opcodes, WithOperand

\* Another instruction disturbs nothing.
LEMMA PlainPaired ==
  ASSUME NEW args \in SUBSET Int, NEW code \in Seq(Byte), Whole(code), NEW open, NEW n, Paired(code, open, n),
         NEW d, Extends(Plain, args, code, d)
  PROVE  d \in Seq(Byte) /\ Whole(d) /\ Paired(d, open, n)
<1>1. CASE d = code
  BY <1>1
<1>2. ASSUME NEW op \in Plain, NEW operand \in args, d = code \o Bytes(op, operand)
      PROVE  d \in Seq(Byte) /\ Whole(d) /\ Paired(d, open, n)
  <2>1. op \in Opcodes /\ op # Op.goto /\ op # Op.label
    BY ListedOpcodes DEF Plain
  <2>2. d \in Seq(Byte) /\ Whole(d)
    BY <1>2, <2>1, Appended, BoundariesAppend
  <2>3. Gotos(d) = Gotos(code) /\ Labels(d) = Labels(code)
    <3>1. InstrAt(d, Op.goto) = InstrAt(code, Op.goto) \cup (IF op = Op.goto THEN {Len(code)} ELSE {})
      BY <1>2, <2>1, InstrAppend
    <3>2. InstrAt(d, Op.label) = InstrAt(code, Op.label) \cup (IF op = Op.label THEN {Len(code)} ELSE {})
      BY <1>2, <2>1, InstrAppend
    <3>3. QED
      BY <2>1, <3>1, <3>2 DEF Gotos, Labels
  <2>4. \A i \in Gotos(code) \cup Labels(code) : Operand(d, i) = Operand(code, i)
    BY <1>2, <2>1, OperandKept, OpIf DEF Gotos, Labels
  <2>5. Targets(d) = Targets(code)
    BY <2>3, <2>4 DEF Targets
  <2>6. QED
    BY <2>2, <2>3, <2>5 DEF Paired
<1>3. QED
  BY <1>1, <1>2 DEF Extends

LEMMA GrowsPaired ==
  ASSUME NEW args \in SUBSET Int, NEW code \in Seq(Byte), Whole(code), NEW open, NEW n, Paired(code, open, n),
         NEW d, Grows(args, code, d)
  PROVE  Paired(d, open, n)
<1>1. PICK c1, c2 \in Seq(Byte) :
        Extends(Plain, args, code, c1) /\ Extends(Plain, args, c1, c2) /\ Extends(Plain, args, c2, d)
  BY DEF Grows
<1>2. Whole(c1) /\ Paired(c1, open, n)
  BY <1>1, PlainPaired
<1>3. Whole(c2) /\ Paired(c2, open, n)
  BY <1>1, <1>2, PlainPaired
<1>4. QED
  BY <1>1, <1>3, PlainPaired

\* A goto or label behind the code is one more, with its operand.
LEMMA OneMore ==
  ASSUME NEW code \in Seq(Byte), Whole(code), NEW op \in {Op.goto, Op.label},
         NEW operand \in Int, operand >= 0, operand <= UINT16_MAX
  PROVE  LET d == code \o Bytes(op, operand) IN
           /\ Gotos(d) = Gotos(code) \cup (IF op = Op.goto THEN {Len(code)} ELSE {})
           /\ Labels(d) = Labels(code) \cup (IF op = Op.label THEN {Len(code)} ELSE {})
           /\ Targets(d)[Len(code)] = operand
           /\ \A i \in Gotos(code) \cup Labels(code) : Targets(d)[i] = Targets(code)[i]
           /\ \A i \in Gotos(code) \cup Labels(code) : i \in Nat /\ i < Len(code)
<1> DEFINE d == code \o Bytes(op, operand)
<1>1. op \in Opcodes /\ op \in WithOperand
  BY OpIf
<1>2. /\ Gotos(d) = Gotos(code) \cup (IF op = Op.goto THEN {Len(code)} ELSE {})
      /\ Labels(d) = Labels(code) \cup (IF op = Op.label THEN {Len(code)} ELSE {})
  BY <1>1, InstrAppend DEF Gotos, Labels
<1>3. \A i \in Gotos(code) \cup Labels(code) : Operand(d, i) = Operand(code, i)
  BY <1>1, OperandKept, OpIf DEF Gotos, Labels
<1>4. Operand(d, Len(code)) = operand
  BY <1>1, OperandNew
<1>5. \A i \in Gotos(code) \cup Labels(code) : i \in Nat /\ i < Len(code)
  BY InstrInside DEF Gotos, Labels
<1> HIDE DEF d
<1>6. Len(code) \in Gotos(d) \cup Labels(d)
  BY <1>2
<1>7. \A i \in Gotos(d) \cup Labels(d) : Targets(d)[i] = Operand(d, i)
  BY DEF Targets
<1>8. \A i \in Gotos(code) \cup Labels(code) : Targets(code)[i] = Operand(code, i)
  BY DEF Targets
<1>9. \A i \in Gotos(code) \cup Labels(code) : Targets(d)[i] = Targets(code)[i]
  BY <1>2, <1>3, <1>7, <1>8
<1>10. QED
  BY <1>2, <1>4, <1>5, <1>6, <1>7, <1>9 DEF d

\* The labels of the open if statements, as LabelsFresh has them.
Rising(open, n) == /\ open \in Seq(Nat) /\ n \in Nat
                   /\ \A i \in DOMAIN open :
                        open[i] < n /\ \A j \in DOMAIN open : i < j => open[i] < open[j]

LEMMA OpenPaired ==
  ASSUME NEW code \in Seq(Byte), Whole(code), NEW open, NEW n, Rising(open, n),
         Paired(code, open, n), n <= UINT16_MAX
  PROVE  Paired(code \o Bytes(Op.goto, n), Append(open, n), n + 1)
<1> DEFINE d == code \o Bytes(Op.goto, n)
           G == Gotos(code)
           L == Labels(code)
           t == Targets(code)
           u == Targets(d)
           p == Len(code)
           now == Append(open, n)
<1>1. n \in Nat /\ n >= 0 /\ n \in Int /\ open \in Seq(Nat)
  BY DEF Rising
<1>2. /\ Gotos(d) = G \cup {p} /\ Labels(d) = L
      /\ u[p] = n
      /\ \A i \in G \cup L : u[i] = t[i]
      /\ \A i \in G \cup L : i \in Nat /\ i < p
  <2>1. Op.goto \in {Op.goto, Op.label} /\ Op.goto # Op.label
    BY OpIf
  <2>2. QED
    BY <1>1, <2>1, OneMore
<1>3. /\ \A g \in G : t[g] \in Nat /\ t[g] < n
      /\ \A g, h \in G : t[g] = t[h] => g = h
      /\ \A l \in L : \E g \in G : g < l /\ t[g] = t[l]
      /\ \A l, m \in L : t[l] = t[m] => l = m
      /\ \A i \in 1 .. Len(open) : /\ \E g \in G : t[g] = open[i]
                                   /\ \A l \in L : t[l] # open[i]
      /\ \A g \in G : \/ \E i \in 1 .. Len(open) : open[i] = t[g]
                      \/ \E l \in L : g < l /\ t[l] = t[g]
  BY DEF Paired, PairedBy
<1>4. /\ Len(now) = Len(open) + 1 /\ Len(open) \in Nat
      /\ \A i \in 1 .. Len(open) : now[i] = open[i]
      /\ now[Len(open) + 1] = n
  BY <1>1
<1>5. p \in Nat
  OBVIOUS
<1> HIDE DEF d, G, L, t, u, p, now
<1>6. \A g \in G \cup {p} : u[g] \in Nat /\ u[g] < n + 1
  BY <1>1, <1>2, <1>3
<1>7. \A g, h \in G \cup {p} : u[g] = u[h] => g = h
  BY <1>1, <1>2, <1>3
<1>8. \A l \in L : t[l] # n
  BY <1>1, <1>3
<1>9. \A l \in L : \E g \in G \cup {p} : g < l /\ u[g] = u[l]
  BY <1>2, <1>3
<1>10. \A l, m \in L : u[l] = u[m] => l = m
  BY <1>2, <1>3
<1>11. ASSUME NEW i \in 1 .. Len(now)
       PROVE  /\ \E g \in G \cup {p} : u[g] = now[i]
              /\ \A l \in L : u[l] # now[i]
  <2>1. CASE i = Len(open) + 1
    BY <1>2, <1>4, <1>8, <2>1
  <2>2. CASE i \in 1 .. Len(open)
    BY <1>2, <1>3, <1>4, <2>2
  <2>3. QED
    BY <1>4, <2>1, <2>2
<1>12. ASSUME NEW g \in G \cup {p}
       PROVE  \/ \E i \in 1 .. Len(now) : now[i] = u[g]
              \/ \E l \in L : g < l /\ u[l] = u[g]
  <2>1. CASE g = p
    <3>1. Len(open) + 1 \in 1 .. Len(now)
      BY <1>4
    <3>2. QED
      BY <1>2, <1>4, <2>1, <3>1
  <2>2. CASE g \in G
    <3>1. CASE \E i \in 1 .. Len(open) : open[i] = t[g]
      <4>1. PICK i \in 1 .. Len(open) : open[i] = t[g]
        BY <3>1
      <4>2. i \in 1 .. Len(now) /\ now[i] = u[g]
        BY <1>2, <1>4, <2>2, <4>1
      <4>3. QED
        BY <4>2
    <3>2. CASE \E l \in L : g < l /\ t[l] = t[g]
      BY <1>2, <2>2, <3>2
    <3>3. QED
      BY <1>3, <2>2, <3>1, <3>2
  <2>3. QED
    BY <2>1, <2>2
<1>13. PairedBy(G \cup {p}, L, u, now, n + 1)
  BY <1>6, <1>7, <1>9, <1>10, <1>11, <1>12 DEF PairedBy
<1>14. QED
  BY <1>2, <1>13 DEF Paired, d, u, now

LEMMA ClosePaired ==
  ASSUME NEW code \in Seq(Byte), Whole(code), NEW open, NEW n, Rising(open, n),
         Paired(code, open, n), n <= UINT16_MAX + 1, open # <<>>
  PROVE  Paired(code \o Bytes(Op.label, open[Len(open)]), SubSeq(open, 1, Len(open) - 1), n)
<1> DEFINE top == open[Len(open)]
           d == code \o Bytes(Op.label, top)
           G == Gotos(code)
           L == Labels(code)
           t == Targets(code)
           u == Targets(d)
           p == Len(code)
           now == SubSeq(open, 1, Len(open) - 1)
           q == Len(open)
<1>1. n \in Nat /\ open \in Seq(Nat) /\ Len(open) \in Nat /\ Len(open) >= 1
  BY DEF Rising
<1>2. /\ Len(now) = q - 1
      /\ \A i \in 1 .. q - 1 : now[i] = open[i]
  <2>1. 1 \in 1 .. Len(open) + 1 /\ q - 1 \in 1 - 1 .. Len(open)
    BY <1>1
  <2>2. /\ Len(now) = IF 1 <= q - 1 THEN q - 1 - 1 + 1 ELSE 0
        /\ \A i \in 1 .. q - 1 - 1 + 1 : now[i] = open[1 + i - 1]
    BY <1>1, <2>1, SubSeqProperties
  <2>3. Len(now) = q - 1
    <3>1. q \in Nat /\ q >= 1
      BY <1>1
    <3>2. Len(now) = IF 1 <= q - 1 THEN q - 1 - 1 + 1 ELSE 0
      BY <2>2
    <3> HIDE DEF now, q
    <3>3. QED
      BY <3>1, <3>2
  <2>4. ASSUME NEW i \in 1 .. q - 1 PROVE now[i] = open[i]
    <3>1. i \in 1 .. q - 1 - 1 + 1 /\ 1 + i - 1 = i
      BY <1>1
    <3>2. QED
      BY <2>2, <3>1
  <2>5. QED
    BY <2>3, <2>4
<1>3. /\ q \in 1 .. q
      /\ \A i \in 1 .. q : open[i] \in Nat /\ open[i] < n
      /\ \A i \in 1 .. q : \A j \in 1 .. q : i < j => open[i] < open[j]
  BY <1>1 DEF Rising
<1>4. top \in Int /\ top >= 0 /\ top < n
  BY <1>3
<1>5. top <= UINT16_MAX
  <2>1. UINT16_MAX \in Int
    BY DEF UINT16_MAX
  <2> HIDE DEF top
  <2>2. QED
    BY <1>1, <1>4, <2>1
<1> HIDE DEF top
<1>6. /\ Gotos(d) = G /\ Labels(d) = L \cup {p}
      /\ u[p] = top
      /\ \A i \in G \cup L : u[i] = t[i]
      /\ \A i \in G \cup L : i \in Nat /\ i < p
  <2>1. Op.label \in {Op.goto, Op.label} /\ Op.label # Op.goto
    BY OpIf
  <2>2. QED
    BY <1>4, <1>5, <2>1, OneMore
<1>7. /\ \A g \in G : t[g] \in Nat /\ t[g] < n
      /\ \A g, h \in G : t[g] = t[h] => g = h
      /\ \A l \in L : \E g \in G : g < l /\ t[g] = t[l]
      /\ \A l, m \in L : t[l] = t[m] => l = m
      /\ \A i \in 1 .. Len(open) : /\ \E g \in G : t[g] = open[i]
                                   /\ \A l \in L : t[l] # open[i]
      /\ \A g \in G : \/ \E i \in 1 .. Len(open) : open[i] = t[g]
                      \/ \E l \in L : g < l /\ t[l] = t[g]
  BY DEF Paired, PairedBy
<1>8. top = open[q] /\ q \in Nat /\ q >= 1
  BY <1>1 DEF top
<1>9. p \in Nat
  OBVIOUS
<1> HIDE DEF d, G, L, t, u, p, now, q
<1>10. \A g \in G : u[g] \in Nat /\ u[g] < n
  BY <1>6, <1>7
<1>11. \A g, h \in G : u[g] = u[h] => g = h
  BY <1>6, <1>7
<1>12. /\ \E g \in G : t[g] = top
       /\ \A l \in L : t[l] # top
  BY <1>3, <1>7, <1>8 DEF q
<1>13. ASSUME NEW l \in L \cup {p} PROVE \E g \in G : g < l /\ u[g] = u[l]
  BY <1>6, <1>7, <1>12
<1>14. \A l, m \in L \cup {p} : u[l] = u[m] => l = m
  BY <1>6, <1>7, <1>12
<1>15. ASSUME NEW i \in 1 .. Len(now)
       PROVE  /\ \E g \in G : u[g] = now[i]
              /\ \A l \in L \cup {p} : u[l] # now[i]
  <2>1. i \in 1 .. q - 1 /\ i \in 1 .. q /\ i < q /\ now[i] = open[i] /\ open[i] < open[q]
    <3>1. i \in 1 .. q - 1 /\ i \in 1 .. q /\ i < q
      BY <1>2, <1>8
    <3>2. QED
      BY <1>2, <1>3, <3>1
  <2>2. open[i] # top
    BY <1>3, <1>8, <2>1
  <2>3. /\ \E g \in G : t[g] = open[i]
        /\ \A l \in L : t[l] # open[i]
    BY <1>7, <2>1 DEF q
  <2>4. QED
    BY <1>6, <2>1, <2>2, <2>3
<1>16. ASSUME NEW g \in G
       PROVE  \/ \E i \in 1 .. Len(now) : now[i] = u[g]
              \/ \E l \in L \cup {p} : g < l /\ u[l] = u[g]
  <2>1. CASE \E i \in 1 .. q : open[i] = t[g]
    <3>1. PICK i \in 1 .. q : open[i] = t[g]
      BY <2>1
    <3>2. CASE i = q
      <4>1. t[g] = top /\ g < p /\ u[p] = u[g]
        BY <1>6, <1>8, <3>1, <3>2
      <4>2. QED
        BY <4>1
    <3>3. CASE i # q
      <4>1. i \in 1 .. q - 1
        BY <1>8, <3>3
      <4>2. i \in 1 .. Len(now) /\ now[i] = u[g]
        BY <1>2, <1>6, <3>1, <4>1
      <4>3. QED
        BY <4>2
    <3>4. QED
      BY <3>2, <3>3
  <2>2. CASE \E l \in L : g < l /\ t[l] = t[g]
    BY <1>6, <2>2
  <2>3. QED
    BY <1>7, <2>1, <2>2 DEF q
<1>17. PairedBy(G, L \cup {p}, u, now, n)
  BY <1>10, <1>11, <1>13, <1>14, <1>15, <1>16 DEF PairedBy
<1>18. QED
  BY <1>6, <1>17 DEF Paired, d, u, now, top

-----------------------------------------------------------------------------
(* The if statements that the pending calls will open and close: a level for *)
(* each of them, from the open ones now to none at the end.                  *)

Rise(e) == IF e.kind = "ifenter" THEN 1 ELSE IF e.kind = "ifleave" THEN -1 ELSE 0
LevelStep == {c \in Pending \X Int \X Int : c[3] = c[2] + Rise(c[1].node)}
Levelled(td, from) == Leads(LevelStep, td, from, 0)

LEMMA LevelStepIn ==
  ASSUME NEW c, NEW m, NEW n
  PROVE  <<c, m, n>> \in LevelStep <=>
           c \in Pending /\ m \in Int /\ n \in Int /\ n = m + Rise(c.node)
BY DEF LevelStep

LEMMA ChildrenLevel ==
  ASSUME NEW e \in Nodes, NEW m \in Int
  PROVE  Leads(LevelStep, Children(e), m, m)
<1> DEFINE td == Children(e)
           sh == [i \in 1 .. Len(Children(e)) + 1 |-> m]
<1>1. td \in Seq(Pending)
  BY ChildrenPending
<1>2. e.kids \in Seq(Nodes) /\ \A i \in DOMAIN e.kids : Rise(e.kids[i]) = 0
  <2>1. e.kids \in Seq(Nodes)
    BY NodesAssumption
  <2>2. \A i \in DOMAIN e.kids : e.kids[i].kind \notin StatementKinds
    BY StatementsAssumption
  <2>3. QED
    BY <2>1, <2>2 DEF Rise, StatementKinds
<1>3. \A i \in 1 .. Len(td) : Rise(td[i].node) = 0
  <2>1. CASE e.kind \in AssignKinds
    <3>1. Len(e.kids) = 2 /\ 1 \in DOMAIN e.kids /\ 2 \in DOMAIN e.kids
      BY <1>2, <2>1, NodesAssumption
    <3>2. Rise(e) = 0
      BY <2>1 DEF AssignKinds, CompoundOf, Rise
    <3>3. td = <<Call("enter", e.kids[2]), Call("notify", e), Call("enter", e.kids[1])>>
      BY <2>1 DEF Children
    <3>4. /\ Call("enter", e.kids[2]).node = e.kids[2] /\ Call("notify", e).node = e
          /\ Call("enter", e.kids[1]).node = e.kids[1]
      BY DEF Call
    <3> HIDE DEF td
    <3>5. /\ Len(td) = 3 /\ td[1] = Call("enter", e.kids[2]) /\ td[2] = Call("notify", e)
          /\ td[3] = Call("enter", e.kids[1])
      BY <3>3
    <3>6. \A i \in 1 .. 3 : i = 1 \/ i = 2 \/ i = 3
      OBVIOUS
    <3>7. QED
      BY <1>2, <3>1, <3>2, <3>4, <3>5, <3>6
  <2>2. CASE e.kind \notin AssignKinds
    <3>1. td = [i \in DOMAIN e.kids |-> Call("enter", e.kids[i])]
      BY <2>2 DEF Children
    <3> HIDE DEF td
    <3>2. DOMAIN td = DOMAIN e.kids /\ DOMAIN td = 1 .. Len(td)
      BY <1>1, <3>1
    <3>3. \A i \in DOMAIN e.kids : td[i].node = e.kids[i]
      BY <3>1 DEF Call
    <3>4. QED
      BY <1>2, <3>2, <3>3
  <2>3. QED
    BY <2>1, <2>2
<1>4. Len(td) \in Nat
  BY <1>1
<1> HIDE DEF td
<1>5. ASSUME NEW i \in 1 .. Len(td) PROVE <<td[i], sh[i], sh[i + 1]>> \in LevelStep
  <2>1. i \in 1 .. Len(td) + 1 /\ i + 1 \in 1 .. Len(td) + 1 /\ td[i] \in Pending
    BY <1>1, <1>4
  <2>2. sh[i] = m /\ sh[i + 1] = m
    BY <2>1 DEF td
  <2>3. m = m + Rise(td[i].node)
    BY <1>3
  <2> HIDE DEF sh
  <2>4. QED
    BY <2>1, <2>2, <2>3, LevelStepIn
<1>6. DOMAIN sh = 1 .. Len(td) + 1
  BY DEF td
<1>7. sh[1] = m /\ sh[Len(td) + 1] = m
  <2>1. 1 \in 1 .. Len(td) + 1 /\ Len(td) + 1 \in 1 .. Len(td) + 1
    BY <1>4
  <2>2. QED
    BY <2>1 DEF td
<1> HIDE DEF sh
<1>8. Along(LevelStep, td, sh)
  BY <1>5, <1>6 DEF Along
<1>9. Leads(LevelStep, td, m, m)
  BY <1>7, <1>8 DEF Leads
<1>10. QED
  BY <1>9 DEF td

\* Where the traversal goes, and what that does to the levels.
LEMMA DescendLevelled ==
  ASSUME TypeOK, todo # <<>>, Descend, NEW m, Levelled(todo, m)
  PROVE  Levelled(todo', m)
<1>1. todo \in Seq(Pending) /\ Cur \in Nodes
  BY CurIsNode DEF TypeOK
<1>2. PICK b : <<todo[1], m, b>> \in LevelStep /\ Leads(LevelStep, Tail(todo), b, 0)
  BY <1>1, LeadsTail DEF Levelled
<1>3. m \in Int /\ b \in Int /\ b = m + Rise(Cur)
  BY <1>2, LevelStepIn DEF Cur
<1> DEFINE kids == Children(Cur)
           c == Call("leave", Cur)
<1>4. kids \in Seq(Pending) /\ Leads(LevelStep, kids, m, m)
  BY <1>1, <1>3, ChildrenPending, ChildrenLevel
<1>5. c \in Pending /\ c.node = Cur
  BY <1>1 DEF Call, Pending
<1>6. todo' = kids \o <<c>> \o Tail(todo)
  BY DEF Descend
<1> HIDE DEF c, kids, Descend
<1>7. <<c, m, b>> \in LevelStep
  BY <1>3, <1>5, LevelStepIn
<1>8. QED
  BY <1>1, <1>2, <1>4, <1>5, <1>6, <1>7, LeadsDescend DEF Levelled

LEMMA ReturnLevelled ==
  ASSUME TypeOK, todo # <<>>, Return, NEW m, Levelled(todo, m)
  PROVE  Levelled(todo', m + Rise(Cur)) /\ m \in Int
<1>1. todo \in Seq(Pending)
  BY DEF TypeOK
<1>2. PICK b : <<todo[1], m, b>> \in LevelStep /\ Leads(LevelStep, Tail(todo), b, 0)
  BY <1>1, LeadsTail DEF Levelled
<1>3. b = m + Rise(Cur) /\ m \in Int
  BY <1>2, LevelStepIn DEF Cur
<1>4. QED
  BY <1>2, <1>3 DEF Levelled, Return

LEMMA BeforeStep ==
  ASSUME NEW stmts, NEW i \in Nat, i # 0, NEW kind
  PROVE  /\ Before(stmts, i - 1, kind) \in Nat
         /\ Before(stmts, i, kind) = IF stmts[i].kind = kind THEN Before(stmts, i - 1, kind) + 1
                                     ELSE Before(stmts, i - 1, kind)
<1> DEFINE S == {j \in 1 .. i - 1 : stmts[j].kind = kind}
           T == {j \in 1 .. i : stmts[j].kind = kind}
<1>1. IsFiniteSet(1 .. i - 1)
  BY FS_Interval
<1>2. IsFiniteSet(S) /\ Cardinality(S) \in Nat
  BY <1>1, FS_Subset, FS_CardinalityType
<1>3. T = IF stmts[i].kind = kind THEN S \cup {i} ELSE S
  OBVIOUS
<1>4. i \notin S
  OBVIOUS
<1>5. Before(stmts, i - 1, kind) = Cardinality(S) /\ Before(stmts, i, kind) = Cardinality(T)
  BY DEF Before
<1> HIDE DEF S, T
<1>6. Cardinality(S \cup {i}) = Cardinality(S) + 1
  BY <1>2, <1>4, FS_AddElement
<1>7. QED
  BY <1>2, <1>3, <1>5, <1>6

LEMMA OpenedStep ==
  ASSUME NEW stmts, NEW i \in Nat, i # 0
  PROVE  /\ Opened(stmts, i - 1) \in Int /\ Opened(stmts, i) \in Int
         /\ Opened(stmts, i) = Opened(stmts, i - 1) + Rise(stmts[i])
<1>1. /\ Before(stmts, i - 1, "ifenter") \in Nat
      /\ Before(stmts, i, "ifenter") = IF stmts[i].kind = "ifenter"
                                       THEN Before(stmts, i - 1, "ifenter") + 1
                                       ELSE Before(stmts, i - 1, "ifenter")
  BY BeforeStep
<1>2. /\ Before(stmts, i - 1, "ifleave") \in Nat
      /\ Before(stmts, i, "ifleave") = IF stmts[i].kind = "ifleave"
                                       THEN Before(stmts, i - 1, "ifleave") + 1
                                       ELSE Before(stmts, i - 1, "ifleave")
  BY BeforeStep
<1>3. QED
  BY <1>1, <1>2 DEF Opened, Rise

LEMMA LevelledInit == CodegenInit => Levelled(todo, Len(id_stack))
<1> SUFFICES ASSUME CodegenInit
             PROVE  Levelled(todo, Len(id_stack))
  OBVIOUS
<1> DEFINE stmts == prog.stmts
           sh == [i \in 1 .. Len(stmts) + 1 |-> Opened(stmts, i - 1)]
<1>1. /\ prog \in Programs /\ Len(id_stack) = 0
      /\ todo = [i \in DOMAIN stmts |-> Call("enter", stmts[i])]
  BY DEF CodegenInit
<1>2. stmts \in Seq(Nodes) /\ Len(stmts) \in Nat
  BY <1>1, NodesAssumption
<1>3. Opened(stmts, Len(stmts)) = 0
  BY <1>1, StatementsAssumption
<1>4. Opened(stmts, 0) = 0
  <2>1. \A kind : {j \in 1 .. 0 : stmts[j].kind = kind} = {}
    OBVIOUS
  <2>2. \A kind : Before(stmts, 0, kind) = 0
    BY <2>1, FS_EmptySet DEF Before
  <2>3. QED
    BY <2>2 DEF Opened
<1> HIDE DEF stmts
<1>5. Len(todo) = Len(stmts)
  BY <1>1, <1>2
<1>6. ASSUME NEW i \in 1 .. Len(todo) PROVE <<todo[i], sh[i], sh[i + 1]>> \in LevelStep
  <2>1. i \in DOMAIN stmts /\ stmts[i] \in Nodes /\ i \in Nat /\ i # 0
    BY <1>2, <1>5
  <2>2. todo[i] = Call("enter", stmts[i])
    BY <1>1, <2>1
  <2>3. todo[i] \in Pending /\ todo[i].node = stmts[i]
    BY <2>1, <2>2 DEF Call, Pending
  <2>4. sh[i] = Opened(stmts, i - 1) /\ sh[i + 1] = Opened(stmts, i)
    <3>1. i \in 1 .. Len(stmts) + 1 /\ i + 1 \in 1 .. Len(stmts) + 1 /\ i + 1 - 1 = i
      BY <1>2, <1>5
    <3>2. QED
      BY <3>1
  <2> HIDE DEF sh
  <2>5. sh[i] \in Int /\ sh[i + 1] \in Int /\ sh[i + 1] = sh[i] + Rise(stmts[i])
    BY <2>1, <2>4, OpenedStep
  <2>6. QED
    BY <2>3, <2>5, LevelStepIn
<1>7. sh[1] = 0 /\ sh[Len(todo) + 1] = 0 /\ DOMAIN sh = 1 .. Len(todo) + 1
  <2>1. 1 \in 1 .. Len(stmts) + 1 /\ Len(stmts) + 1 \in 1 .. Len(stmts) + 1
        /\ Len(stmts) + 1 - 1 = Len(stmts) /\ 1 - 1 = 0
    BY <1>2
  <2>2. QED
    BY <1>3, <1>4, <1>5, <2>1
<1> HIDE DEF sh
<1>8. Along(LevelStep, todo, sh)
  BY <1>6, <1>7 DEF Along
<1>9. QED
  BY <1>1, <1>7, <1>8 DEF Levelled, Leads

LEMMA LevelledNext ==
  ASSUME TypeOK, Levelled(todo, Len(id_stack)), [CodegenNext]_codegenVars
  PROVE  Levelled(todo', Len(id_stack'))
<1>1. ASSUME UNCHANGED <<todo, id_stack>> PROVE Levelled(todo', Len(id_stack'))
  BY <1>1
<1>2. ASSUME todo # <<>>, Descend, UNCHANGED id_stack PROVE Levelled(todo', Len(id_stack'))
  BY <1>2, DescendLevelled
<1>3. ASSUME todo # <<>>, Return, Cur.kind \notin {"ifenter", "ifleave"}, UNCHANGED id_stack
      PROVE  Levelled(todo', Len(id_stack'))
  <2>1. Rise(Cur) = 0
    BY <1>3 DEF Rise
  <2>2. Levelled(todo', Len(id_stack) + Rise(Cur)) /\ Len(id_stack) \in Int
    BY <1>3, ReturnLevelled
  <2>3. QED
    BY <1>3, <2>1, <2>2
<1>4. CASE EnterOther \/ EnterAssign \/ EnterFuncCall
  BY <1>2, <1>4 DEF EnterOther, EnterAssign, EnterFuncCall, Calling, handlerVars
<1>5. CASE LeaveLiteral \/ LeaveIdentNormal \/ LeaveIdentAssign
  BY <1>3, <1>5 DEF LeaveLiteral, LeaveIdentNormal, LeaveIdentAssign, Calling, EmitAndReturn, KeepModes
<1>6. CASE LeaveFunctionAssign
  BY <1>1, <1>6 DEF LeaveFunctionAssign, Exit
<1>7. CASE LeaveBinary
  <2>1. Cur.kind \notin {"ifenter", "ifleave"} /\ todo # <<>>
    BY <1>7 DEF LeaveBinary, BinaryOps, Calling
  <2>2. QED
    BY <1>1, <1>3, <1>7, <2>1 DEF LeaveBinary, EmitAndReturn, KeepModes, Exit
<1>8. CASE LeaveUnary
  <2>1. Cur.kind \notin {"ifenter", "ifleave"} /\ todo # <<>>
    BY <1>8, UnaryEmits DEF UnaryNodes, Calling
  <2>2. QED
    BY <1>1, <1>3, <1>8, <2>1, UnaryEmits DEF EmitAndReturn, KeepModes, Exit
<1>9. CASE LeaveIncDec
  BY <1>1, <1>3, <1>9 DEF LeaveIncDec, Calling, KeepModes, Exit
<1>10. CASE NotifyAssign
  <2>1. Cur.kind \notin {"ifenter", "ifleave"} /\ todo # <<>>
    <3>1. todo # <<>> /\ todo[1].at = "notify" /\ todo \in Seq(Pending)
      BY <1>10 DEF NotifyAssign, Calling, TypeOK
    <3>2. todo[1] \in Pending
      BY <3>1
    <3>3. Cur.kind \in AssignKinds
      BY <3>1, <3>2 DEF Pending, Cur
    <3>4. QED
      BY <3>1, <3>3 DEF AssignKinds, CompoundOf
  <2>2. QED
    BY <1>1, <1>3, <1>10, <2>1 DEF NotifyAssign, Exit
<1>11. CASE LeaveAssign
  <2>1. Cur.kind \notin {"ifenter", "ifleave"} /\ todo # <<>>
    BY <1>11 DEF LeaveAssign, Calling, AssignKinds, CompoundOf
  <2>2. QED
    BY <1>3, <1>11, <2>1 DEF LeaveAssign
<1>12. CASE LeaveFuncCall \/ LeaveExprStmt
  BY <1>3, <1>12 DEF LeaveFuncCall, LeaveExprStmt, Calling
<1>13. CASE LeaveDeclStmt
  BY <1>3, <1>13 DEF LeaveDeclStmt, Calling, EmitAndReturn, KeepModes, handlerVars
<1>14. CASE LeaveBlockOp
  BY <1>3, <1>14 DEF LeaveBlockOp, Calling, EmitAndReturn, KeepModes
<1>15. CASE LeaveIfEnter
  <2>1. todo # <<>> /\ Cur.kind = "ifenter"
    BY <1>15 DEF LeaveIfEnter, Calling
  <2>2. CASE Exit
    BY <1>1, <2>2 DEF Exit
  <2>3. CASE Return /\ id_stack' = Append(id_stack, id)
    <3>1. Levelled(todo', Len(id_stack) + 1)
      BY <2>1, <2>3, ReturnLevelled DEF Rise
    <3>2. Len(id_stack') = Len(id_stack) + 1
      BY <2>3 DEF TypeOK
    <3>3. QED
      BY <3>1, <3>2
  <2>4. QED
    BY <1>15, <2>2, <2>3 DEF LeaveIfEnter
<1>16. CASE LeaveIfLeave
  <2>1. /\ todo # <<>> /\ Cur.kind = "ifleave" /\ id_stack # <<>> /\ Return
        /\ id_stack' = SubSeq(id_stack, 1, Len(id_stack) - 1)
    BY <1>16 DEF LeaveIfLeave, Calling
  <2>2. Levelled(todo', Len(id_stack) + (-1))
    BY <2>1, ReturnLevelled DEF Rise
  <2>3. id_stack \in Seq(Nat) /\ Len(id_stack) \in Nat /\ Len(id_stack) >= 1
    BY <2>1 DEF TypeOK
  <2>4. Len(id_stack') = Len(id_stack) + (-1)
    <3> DEFINE q == Len(id_stack)
               now == id_stack'
    <3>1. 1 \in 1 .. q + 1 /\ q - 1 \in 1 - 1 .. q
      BY <2>3
    <3>2. Len(now) = IF 1 <= q - 1 THEN q - 1 - 1 + 1 ELSE 0
      BY <2>1, <2>3, <3>1, SubSeqProperties
    <3>3. q \in Nat /\ q >= 1
      BY <2>3
    <3> HIDE DEF q, now
    <3>4. Len(now) = q + (-1)
      BY <3>2, <3>3
    <3>5. QED
      BY <3>4 DEF q, now
  <2>5. QED
    BY <2>2, <2>4
<1>17. CASE UNCHANGED codegenVars
  BY <1>1, <1>17 DEF codegenVars, handlerVars
<1>18. QED
  BY <1>4, <1>5, <1>6, <1>7, <1>8, <1>9, <1>10, <1>11, <1>12, <1>13, <1>14, <1>15, <1>16, <1>17
     DEF CodegenNext

-----------------------------------------------------------------------------
\* The labels still fit into two bytes.
LabelsFit == id <= UINT16_MAX + 1
PairingInv == /\ Readable(buf.code)
              /\ Levelled(todo, Len(id_stack))
              /\ LabelsFit => Paired(buf.code, id_stack, id)

LEMMA PairingInit == CodegenInit => PairingInv
<1> SUFFICES ASSUME CodegenInit
             PROVE  PairingInv
  OBVIOUS
<1>1. buf.code = <<>> /\ id_stack = <<>> /\ Len(<<>>) = 0
  BY DEF CodegenInit
<1>2. Boundaries(<<>>) = {0}
  BY BoundariesOfNothing
<1>3. Gotos(<<>>) = {} /\ Labels(<<>>) = {}
  BY <1>1, <1>2 DEF Gotos, Labels, InstrAt
<1>4. Paired(<<>>, <<>>, id)
  BY <1>1, <1>3 DEF Paired, PairedBy
<1>5. QED
  BY <1>1, <1>4, LevelledInit, ReadableInit DEF PairingInv

LEMMA PairingNext ==
  ASSUME CodegenInv, PairingInv, [CodegenNext]_codegenVars
  PROVE  PairingInv'
<1>1. TypeOK /\ LabelsFresh
  BY DEF CodegenInv
<1>2. buf.code \in Seq(Byte) /\ Whole(buf.code) /\ id \in Nat /\ UINT16_MAX \in Int
  BY <1>1 DEF PairingInv, Readable, TypeOK, UINT16_MAX
<1>3. Rising(id_stack, id)
  BY <1>1 DEF Rising, LabelsFresh, TypeOK
<1>4. Readable(buf'.code) /\ Levelled(todo', Len(id_stack'))
  BY <1>1, ReadableNext, LevelledNext DEF PairingInv
<1>5. ASSUME LabelsFit' PROVE Paired(buf'.code, id_stack', id')
  <2>1. CASE Grows(Operands, buf.code, buf'.code) /\ UNCHANGED <<id, id_stack>>
    <3>1. Paired(buf.code, id_stack, id)
      BY <1>5, <2>1 DEF PairingInv, LabelsFit
    <3>2. QED
      BY <1>2, <2>1, <3>1, GrowsPaired
  <2>2. CASE OpensIf
    <3>1. id + 1 <= UINT16_MAX + 1
      BY <1>5, <2>2 DEF OpensIf, LabelsFit
    <3>2. id <= UINT16_MAX /\ id <= UINT16_MAX + 1
      BY <1>2, <3>1
    <3>3. Paired(buf.code, id_stack, id)
      BY <3>2 DEF PairingInv, LabelsFit
    <3>4. Paired(buf.code \o Bytes(Op.goto, id), Append(id_stack, id), id + 1)
      BY <1>2, <1>3, <3>2, <3>3, OpenPaired
    <3>5. QED
      BY <2>2, <3>4 DEF OpensIf
  <2>3. CASE ClosesIf
    <3>1. id <= UINT16_MAX + 1 /\ id_stack # <<>>
      BY <1>5, <2>3 DEF ClosesIf, LabelsFit
    <3>2. Paired(buf.code, id_stack, id)
      BY <3>1 DEF PairingInv, LabelsFit
    <3>3. Paired(buf.code \o Bytes(Op.label, id_stack[Len(id_stack)]),
                 SubSeq(id_stack, 1, Len(id_stack) - 1), id)
      BY <1>2, <1>3, <3>1, <3>2, ClosePaired
    <3>4. QED
      BY <2>3, <3>3 DEF ClosesIf
  <2>4. CASE UNCHANGED codegenVars
    BY <1>5, <2>4 DEF PairingInv, LabelsFit, codegenVars, handlerVars
  <2>5. QED
    BY <1>1, <2>1, <2>2, <2>3, <2>4, StepGrows
<1>6. QED
  BY <1>4, <1>5 DEF PairingInv

LEMMA PairedAtEnd ==
  ASSUME CodegenInv, PairingInv, LabelsFit
  PROVE  LabelsPaired
<1> SUFFICES ASSUME Generated
             PROVE  /\ \A g \in InstructionsOf(Op.goto) :
                         Cardinality({l \in InstructionsOf(Op.label) :
                                        l > g /\ TargetAt(l) = TargetAt(g)}) = 1
                    /\ \A l \in InstructionsOf(Op.label) :
                         Cardinality({g \in InstructionsOf(Op.goto) :
                                        g < l /\ TargetAt(l) = TargetAt(g)}) = 1
  BY DEF LabelsPaired
<1> DEFINE G == Gotos(buf.code)
           L == Labels(buf.code)
           t == Targets(buf.code)
<1>1. todo = <<>> /\ Levelled(<<>>, Len(id_stack))
  BY DEF Generated, PairingInv
<1>2. Len(id_stack) = 0
  BY <1>1, LeadsNowhere DEF Levelled
<1>3. /\ \A g, h \in G : t[g] = t[h] => g = h
      /\ \A l \in L : \E g \in G : g < l /\ t[g] = t[l]
      /\ \A l, m \in L : t[l] = t[m] => l = m
      /\ \A g \in G : \/ \E i \in 1 .. Len(id_stack) : id_stack[i] = t[g]
                      \/ \E l \in L : g < l /\ t[l] = t[g]
  BY DEF PairingInv, Paired, PairedBy
<1>4. buf.code \in Seq(Byte) /\ Whole(buf.code)
  BY DEF PairingInv, Readable
<1>5. \A i \in G \cup L : i \in Nat
  BY <1>4, InstrInside DEF Gotos, Labels
<1>6. \A op : InstructionsOf(op) = InstrAt(buf.code, op)
  <2>1. Boundaries(buf.code) \subseteq 0 .. Len(buf.code) /\ Len(buf.code) \in Nat
    BY <1>4 DEF Whole
  <2>2. \A i \in Boundaries(buf.code) : i # Len(buf.code) <=> i < Len(buf.code)
    BY <2>1
  <2>3. QED
    BY <2>2 DEF InstructionsOf, InstrAt
<1>7. InstructionsOf(Op.goto) = G /\ InstructionsOf(Op.label) = L
  BY <1>6 DEF Gotos, Labels
<1>8. \A i \in G \cup L : TargetAt(i) = t[i]
  BY DEF TargetAt, Targets, Operand
<1> HIDE DEF G, L, t
<1>9. ASSUME NEW g \in G
      PROVE  Cardinality({l \in L : l > g /\ TargetAt(l) = TargetAt(g)}) = 1
  <2>1. PICK l \in L : g < l /\ t[l] = t[g]
    BY <1>2, <1>3
  <2>2. {m \in L : m > g /\ TargetAt(m) = TargetAt(g)} = {l}
    BY <1>3, <1>5, <1>8, <2>1
  <2>3. QED
    BY <2>2, FS_Singleton
<1>10. ASSUME NEW l \in L
       PROVE  Cardinality({g \in G : g < l /\ TargetAt(l) = TargetAt(g)}) = 1
  <2>1. PICK g \in G : g < l /\ t[g] = t[l]
    BY <1>3
  <2>2. {h \in G : h < l /\ TargetAt(l) = TargetAt(h)} = {g}
    BY <1>3, <1>5, <1>8, <2>1
  <2>3. QED
    BY <2>2, FS_Singleton
<1>11. QED
  BY <1>7, <1>9, <1>10

\* However deep the if statements nest, the gotos and labels of the finished
\* code pair up, as long as the labels fit into the two bytes of an operand
\* (codegenvisitor.c:814-864).
THEOREM IfsPairUp == CodegenSpec => [](LabelsFit => LabelsPaired)
<1>1. CodegenInit => CodegenInv /\ PairingInv
  BY InitInv, PairingInit
<1>2. CodegenInv /\ PairingInv /\ [CodegenNext]_codegenVars => CodegenInv' /\ PairingInv'
  BY NextInv, PairingNext
<1>3. CodegenInv /\ PairingInv => (LabelsFit => LabelsPaired)
  BY PairedAtEnd
<1>4. QED
  BY <1>1, <1>2, <1>3, PTL DEF CodegenSpec

-----------------------------------------------------------------------------
(* Operands that are no more than an opcode: every byte of the code is one   *)
(* that the table knows, and no operand looks like a label.                  *)

FewOperands == /\ Len(constant_pool) <= Op.label /\ id <= Op.label /\ Len(prog.decls) <= Op.label
               /\ \A e \in Identifiers : 0 <= e.n /\ e.n < Op.label
Tidy(code) == \A j \in 1 .. Len(code) :
                InTable(code[j]) /\ (code[j] = Op.label => j - 1 \in Boundaries(code))
FewIds == {k \in Nat : k < Op.label}

LEMMA LabelByte == Op.label \in Nat /\ Op.label = 49
BY DEF Op

LEMMA SmallBytes ==
  ASSUME NEW operand \in FewIds
  PROVE  /\ Hi(operand) = 0 /\ Lo(operand) = operand /\ operand \in Int
         /\ InTable(0) /\ InTable(operand) /\ operand # Op.label /\ 0 # Op.label
<1>1. operand \in Nat /\ operand < 49 /\ Op.label = 49
  BY LabelByte DEF FewIds
<1>2. operand \div 256 = 0 /\ operand % 256 = operand
  BY <1>1
<1>3. QED
  BY <1>1, <1>2 DEF Hi, Lo, InTable

LEMMA TidyAppend ==
  ASSUME NEW code \in Seq(Byte), Whole(code), Tidy(code), NEW op \in Opcodes, NEW operand \in FewIds
  PROVE  Tidy(code \o Bytes(op, operand))
<1> DEFINE new == code \o Bytes(op, operand)
           n == Len(code)
           B == Boundaries(new)
<1>1. operand \in Int /\ n \in Nat
  BY SmallBytes
<1>2. /\ Len(new) = n + 1 + OpSize(op)
      /\ \A i \in 1 .. n : new[i] = code[i]
      /\ new[n + 1] = op
      /\ op \in WithOperand => new[n + 2] = Hi(operand) /\ new[n + 3] = Lo(operand)
  BY <1>1, Appended
<1>3. B = Boundaries(code) \cup {n + 1 + OpSize(op)}
  BY <1>1, BoundariesAppend
<1>4. n \in B
  BY <1>3 DEF Whole
<1>5. OpSize(op) = IF op \in WithOperand THEN 2 ELSE 0
  BY DEF OpSize
<1>6. Hi(operand) = 0 /\ Lo(operand) = operand /\ InTable(0) /\ InTable(operand)
      /\ operand # Op.label /\ 0 # Op.label
  BY SmallBytes
<1>7. InTable(op)
  BY DEF InTable, Opcodes
<1> HIDE DEF new, B, n
<1>8. ASSUME NEW j \in 1 .. Len(new)
      PROVE  InTable(new[j]) /\ (new[j] = Op.label => j - 1 \in B)
  <2>1. CASE j \in 1 .. n
    <3>1. InTable(code[j]) /\ (code[j] = Op.label => j - 1 \in Boundaries(code))
      BY <2>1 DEF Tidy, n
    <3>2. QED
      BY <1>2, <1>3, <2>1, <3>1
  <2>2. CASE j = n + 1
    <3>1. j - 1 = n
      BY <1>1, <2>2
    <3>2. QED
      BY <1>2, <1>4, <1>7, <2>2, <3>1
  <2>3. CASE op \in WithOperand /\ (j = n + 2 \/ j = n + 3)
    BY <1>2, <1>6, <2>3
  <2>4. QED
    BY <1>1, <1>2, <1>5, <2>1, <2>2, <2>3
<1>9. QED
  BY <1>8 DEF new, B, Tidy

LEMMA ExtendsTidy ==
  ASSUME NEW args \in SUBSET FewIds, NEW c \in Seq(Byte), Whole(c), Tidy(c),
         NEW d, Extends(Opcodes, args, c, d)
  PROVE  d \in Seq(Byte) /\ Whole(d) /\ Tidy(d)
<1>1. CASE d = c
  BY <1>1
<1>2. ASSUME NEW op \in Opcodes, NEW operand \in args, d = c \o Bytes(op, operand)
      PROVE  d \in Seq(Byte) /\ Whole(d) /\ Tidy(d)
  <2>1. operand \in FewIds /\ operand \in Int
    BY SmallBytes
  <2>2. QED
    BY <1>2, <2>1, TidyAppend, Appended, BoundariesAppend
<1>3. QED
  BY <1>1, <1>2 DEF Extends

LEMMA GrowsTidy ==
  ASSUME NEW args \in SUBSET FewIds, NEW c \in Seq(Byte), Whole(c), Tidy(c),
         NEW d, Grows(args, c, d)
  PROVE  Tidy(d)
<1>1. \A c1, c2 : Extends(Plain, args, c1, c2) => Extends(Opcodes, args, c1, c2)
  BY Zenon, ListedOpcodes DEF Extends, Plain
<1>2. PICK c1, c2 \in Seq(Byte) :
        Extends(Opcodes, args, c, c1) /\ Extends(Opcodes, args, c1, c2) /\ Extends(Opcodes, args, c2, d)
  BY <1>1 DEF Grows
<1>3. Whole(c1) /\ Tidy(c1)
  BY <1>2, ExtendsTidy
<1>4. Whole(c2) /\ Tidy(c2)
  BY <1>2, <1>3, ExtendsTidy
<1>5. QED
  BY <1>2, <1>4, ExtendsTidy

TidyCode == FewOperands => Tidy(buf.code)

LEMMA TidyInit == CodegenInit => TidyCode
<1> SUFFICES ASSUME CodegenInit
             PROVE  Tidy(buf.code)
  BY DEF TidyCode
<1>1. 1 .. Len(buf.code) = {}
  BY DEF CodegenInit
<1>2. QED
  BY <1>1 DEF Tidy

\* Neither the constants nor the labels become fewer.
LEMMA MoreOperands ==
  ASSUME TypeOK, CodegenNext
  PROVE  /\ prog' = prog
         /\ UNCHANGED constant_pool \/ \E c : constant_pool' = Append(constant_pool, c)
<1>1. CASE EnterOther \/ EnterAssign \/ EnterFuncCall \/ LeaveLiteral
  BY <1>1 DEF EnterOther, EnterAssign, EnterFuncCall, LeaveLiteral, handlerVars, KeepModes
<1>2. CASE LeaveIdentNormal \/ LeaveIdentAssign \/ LeaveFunctionAssign
  BY <1>2 DEF LeaveIdentNormal, LeaveIdentAssign, LeaveFunctionAssign, EmitAndReturn, KeepModes, Exit
<1>3. CASE LeaveBinary \/ LeaveUnary \/ LeaveIncDec \/ NotifyAssign
  BY <1>3 DEF LeaveBinary, LeaveUnary, LeaveIncDec, NotifyAssign, EmitAndReturn, KeepModes, Exit
<1>4. CASE LeaveAssign \/ LeaveFuncCall \/ LeaveExprStmt
  BY <1>4 DEF LeaveAssign, LeaveFuncCall, LeaveExprStmt
<1>5. CASE LeaveDeclStmt \/ LeaveBlockOp \/ LeaveIfEnter \/ LeaveIfLeave
  BY <1>5 DEF LeaveDeclStmt, LeaveBlockOp, LeaveIfEnter, LeaveIfLeave, EmitAndReturn, KeepModes,
     handlerVars, Exit
<1>6. QED
  BY <1>1, <1>2, <1>3, <1>4, <1>5 DEF CodegenNext

LEMMA TidyNext ==
  ASSUME CodegenInv, Readable(buf.code), TidyCode, [CodegenNext]_codegenVars
  PROVE  TidyCode'
<1> SUFFICES ASSUME FewOperands' PROVE Tidy(buf'.code)
  BY DEF TidyCode
<1>1. TypeOK /\ LabelsFresh /\ buf.code \in Seq(Byte) /\ Whole(buf.code)
  BY DEF CodegenInv, Readable
<1>2. id \in Nat /\ constant_pool \in Seq([t : {"int", "double"}, v : Int]) /\ Op.label \in Nat
      /\ 0 < Op.label
  BY <1>1, LabelByte DEF TypeOK
<1>3. CASE UNCHANGED codegenVars
  BY <1>3 DEF codegenVars, handlerVars, TidyCode, FewOperands
<1>4. CASE CodegenNext
  <2>1. prog' = prog /\ (UNCHANGED constant_pool \/ \E c : constant_pool' = Append(constant_pool, c))
    BY <1>1, <1>4, MoreOperands
  <2>2. /\ Len(constant_pool) <= Len(constant_pool')
        /\ Len(constant_pool) \in Nat /\ Len(constant_pool') \in Nat
    BY <1>2, <2>1
  <2>3. /\ Len(constant_pool') <= Op.label /\ id' <= Op.label /\ Len(prog.decls) <= Op.label
        /\ \A e \in Identifiers : 0 <= e.n /\ e.n < Op.label
    BY <2>1 DEF FewOperands
  <2>4. Len(constant_pool) <= Op.label
    BY <1>2, <2>2, <2>3
  <2>5. id <= Op.label => Tidy(buf.code)
    BY <2>3, <2>4 DEF TidyCode, FewOperands
  <2>6. \A e \in Identifiers : e.n \in Int
    BY NodesAssumption DEF Identifiers
  <2>7. Len(prog.decls) \in Nat
    BY <1>1, NodesAssumption DEF TypeOK
  <2>8. Operands \in SUBSET FewIds
    BY <1>2, <2>2, <2>3, <2>6, <2>7 DEF Operands, FewIds
  <2>9. CASE Grows(Operands, buf.code, buf'.code) /\ UNCHANGED <<id, id_stack>>
    BY <1>1, <2>3, <2>5, <2>8, <2>9, GrowsTidy
  <2>10. CASE OpensIf
    <3>1. id + 1 <= Op.label
      BY <2>3, <2>10 DEF OpensIf
    <3>2. id <= Op.label /\ id \in FewIds
      BY <1>2, <3>1 DEF FewIds
    <3>3. Tidy(buf.code \o Bytes(Op.goto, id))
      BY <1>1, <2>5, <3>2, TidyAppend, OpIf
    <3>4. QED
      BY <2>10, <3>3 DEF OpensIf
  <2>11. CASE ClosesIf
    <3> DEFINE top == id_stack[Len(id_stack)]
    <3>1. id <= Op.label /\ id_stack # <<>> /\ id_stack \in Seq(Nat)
      BY <1>1, <2>3, <2>11 DEF ClosesIf, TypeOK
    <3>2. Len(id_stack) \in DOMAIN id_stack
      BY <3>1
    <3>3. top \in Nat /\ top < id
      BY <1>1, <3>1, <3>2 DEF LabelsFresh
    <3>4. buf'.code = buf.code \o Bytes(Op.label, top)
      BY <2>11 DEF ClosesIf
    <3> HIDE DEF top
    <3>5. top \in FewIds
      BY <1>2, <3>1, <3>3 DEF FewIds
    <3>6. Tidy(buf.code \o Bytes(Op.label, top))
      BY <1>1, <2>5, <3>1, <3>5, TidyAppend, OpIf
    <3>7. QED
      BY <3>4, <3>6
  <2>12. QED
    BY <1>1, <1>4, <2>9, <2>10, <2>11, StepGrows
<1>5. QED
  BY <1>3, <1>4

\* As long as no operand is more than an opcode, the count of the stack's size
\* looks up nothing that is not in its table (codegentest.c:143-160).
THEOREM FewFitTheTable == CodegenSpec => [](FewOperands /\ Generated => CountsInTable(buf.code))
<1>1. CodegenInit => CodegenInv /\ Readable(buf.code) /\ TidyCode
  BY InitInv, ReadableInit, TidyInit
<1>2. CodegenInv /\ Readable(buf.code) /\ TidyCode /\ [CodegenNext]_codegenVars
        => CodegenInv' /\ Readable(buf.code)' /\ TidyCode'
  BY NextInv, ReadableNext, TidyNext DEF CodegenInv
<1>3. CodegenInv /\ TidyCode => (FewOperands /\ Generated => CountsInTable(buf.code))
  <2>1. CodegenInv => buf.code \in Seq(Byte)
    BY DEF CodegenInv, TypeOK
  <2>2. QED
    BY <2>1 DEF TidyCode, Tidy, CountsInTable
<1>4. QED
  BY <1>1, <1>2, <1>3, PTL DEF CodegenSpec

=============================================================================
