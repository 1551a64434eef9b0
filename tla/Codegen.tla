------------------------------ MODULE Codegen ------------------------------
(* The code generator: the visitor of comp/codegenvisitor.c driven by the    *)
(* traversal of comp/traversor.c over a checked program. One action is one   *)
(* handler call; todo is what the C call stack of the traversal still has to *)
(* do: nodes to enter, assignments to notify, nodes to leave.                *)
(*                                                                           *)
(* A program is [decls, stmts]: the global declaration list (index order,    *)
(* each with its name and type) and the statements, nodes of MeanVisitor.    *)
EXTENDS Integers, Sequences, FiniteSets, OpInfo

CONSTANTS
  Programs,         \* the checked programs the generator may be given
  Nodes,            \* every node of their trees
  CODE_ALLOC_SIZE,  \* bytes added when the code buffer is grown
  ID_STACK_SIZE     \* length of the array id_stack

Types == {"int", "double", "boolean", "none"}

CompoundOf == [add_assign |-> "add", sub_assign |-> "sub", mul_assign |-> "mul",
               div_assign |-> "div", mod_assign |-> "mod"]
AssignKinds == {"assign"} \cup DOMAIN CompoundOf

ASSUME AllocAssumption == CODE_ALLOC_SIZE \in Nat /\ CODE_ALLOC_SIZE >= 3
ASSUME IdStackAssumption == ID_STACK_SIZE \in Nat \ {0}
\* The trees are finite records whose children are nodes again; create.c makes
\* an assignment with its two sides and ++ and -- with their operand.
ASSUME NodesAssumption ==
  /\ \A e \in Nodes : /\ DOMAIN e = {"kind", "type", "n", "kids"}
                      /\ e.type \in Types /\ e.n \in Int /\ e.kids \in Seq(Nodes)
                      /\ e.kind \in AssignKinds => Len(e.kids) = 2
                      /\ e.kind \in {"inc", "dec"} => Len(e.kids) = 1
  /\ \A p \in Programs : /\ p.stmts \in Seq(Nodes)
                         /\ p.decls \in Seq([name : STRING, type : Types])

\* Statements hold expressions, and expressions only expressions; the grammar
\* ends every if statement that it begins, and no other.
StatementKinds == {"exprstmt", "declstmt", "blockbegin", "blockend", "ifenter", "ifleave"}
Before(stmts, i, kind) == Cardinality({j \in 1 .. i : stmts[j].kind = kind})
Opened(stmts, i) == Before(stmts, i, "ifenter") - Before(stmts, i, "ifleave")
ASSUME StatementsAssumption ==
  /\ \A e \in Nodes : \A i \in DOMAIN e.kids : e.kids[i].kind \notin StatementKinds
  /\ \A p \in Programs : /\ \A i \in DOMAIN p.stmts : p.stmts[i].kind \in StatementKinds
                         /\ \A i \in 1 .. Len(p.stmts) : Opened(p.stmts, i) >= 0
                         /\ Opened(p.stmts, Len(p.stmts)) = 0

VARIABLES
  prog,          \* the program being compiled
  todo,          \* the traversal's pending calls, the next one first
  buf,           \* [code, size]: the bytes generated (pos = Len(code)), current_code_size
  constant_pool, \* exec->constant_pool: sequence of [t, v]
  vi_state,      \* VISIT_NORMAL or VISIT_NOMAL_ASSIGN
  vf_state,      \* VISIT_F_NO or VISIT_F_CALL
  assign_depth,  \* a uint16_t
  id_stack,      \* labels of the if statements that are open
  id,            \* the next label
  outcome        \* "running", "exit" (the process gave up), "undefined"

handlerVars == <<buf, constant_pool, vi_state, vf_state, assign_depth, id_stack, id, outcome>>
codegenVars == <<prog, todo, handlerVars>>

-----------------------------------------------------------------------------
(* gen_byte_code. The buffer is grown at most once, by CODE_ALLOC_SIZE, when *)
(* fewer than 2 + operand bytes are free; only then are the bytes stored.    *)

Hi(operand) == (operand \div 256) % 256
Lo(operand) == operand % 256

\* Mutant of Gen: the room for the operand is forgotten.
GenForOpcodeOnly(b, op, operand) ==
  [code |-> b.code \o (IF op \in WithOperand THEN <<op, Hi(operand), Lo(operand)>> ELSE <<op>>),
   size |-> IF Len(b.code) + 2 > b.size THEN b.size + CODE_ALLOC_SIZE ELSE b.size]

Gen(b, op, operand) ==
  [code |-> b.code \o (IF op \in WithOperand THEN <<op, Hi(operand), Lo(operand)>> ELSE <<op>>),
   size |-> IF Len(b.code) + 2 + OpSize(op) > b.size THEN b.size + CODE_ALLOC_SIZE ELSE b.size]

Emit(op, operand) == buf' = Gen(buf, op, operand)
EmitOp(op) == Emit(op, 0)

-----------------------------------------------------------------------------
(* The traversal.                                                            *)

Call(at, e) == [at |-> at, node |-> e]
Calling(at) == outcome = "running" /\ todo # <<>> /\ todo[1].at = at
Cur == todo[1].node

\* traverse_expr_children, traverse_stmt_children: an assignment visits its
\* right side, is notified, and then visits its left side.
Children(e) ==
  IF e.kind \in AssignKinds
  THEN <<Call("enter", e.kids[2]), Call("notify", e), Call("enter", e.kids[1])>>
  ELSE [i \in DOMAIN e.kids |-> Call("enter", e.kids[i])]

\* traverse_expr, traverse_stmt: enter, children, leave. (An if statement is
\* entered after its children, directly before it is left: LeaveIfEnter.)
Descend == todo' = Children(Cur) \o <<Call("leave", Cur)>> \o Tail(todo)
Return == todo' = Tail(todo)

Exit == outcome' = "exit" /\ UNCHANGED <<prog, buf, constant_pool, vi_state, vf_state,
                                         assign_depth, id_stack, id, todo>>

-----------------------------------------------------------------------------
(* Entering a node.                                                          *)

\* The enter handlers that do nothing.
EnterOther ==
  /\ Calling("enter") /\ Cur.kind \notin AssignKinds \cup {"call"}
  /\ Descend
  /\ UNCHANGED <<prog, handlerVars>>

\* enter_assignexpr: a compound assignment to a variable first pushes it, as
\* an int whatever its type.
EnterAssign ==
  /\ Calling("enter") /\ Cur.kind \in AssignKinds
  /\ IF Cur.kind # "assign" /\ Cur.kids[1].kind = "ident"
     THEN Emit(Op.push_static_int, Cur.kids[1].n)
     ELSE UNCHANGED buf
  /\ assign_depth' = (assign_depth + 1) % 65536
  /\ Descend
  /\ UNCHANGED <<prog, constant_pool, vi_state, vf_state, id_stack, id, outcome>>

\* enter_funccallexpr
EnterFuncCall ==
  /\ Calling("enter") /\ Cur.kind = "call"
  /\ vf_state' = "VISIT_F_CALL"
  /\ Descend
  /\ UNCHANGED <<prog, buf, constant_pool, vi_state, assign_depth, id_stack, id, outcome>>

-----------------------------------------------------------------------------
(* Leaving an expression.                                                    *)

\* The handlers that only generate code leave the visitor's modes alone.
KeepModes == UNCHANGED <<prog, vi_state, vf_state, assign_depth, id_stack, id, outcome>>
EmitAndReturn(op, operand) ==
  Emit(op, operand) /\ Return /\ KeepModes /\ UNCHANGED constant_pool

\* leave_boolexpr, leave_intexpr, leave_doubleexpr: add_constant appends a
\* new entry even for a value the pool already holds.
LeaveLiteral ==
  /\ Calling("leave") /\ Cur.kind \in {"boolean", "int", "double"}
  /\ LET type == IF Cur.kind = "double" THEN "double" ELSE "int" IN
       /\ constant_pool' = Append(constant_pool, [t |-> type, v |-> Cur.n])
       /\ Emit(IF type = "double" THEN Op.push_double ELSE Op.push_int, Len(constant_pool))
  /\ Return /\ KeepModes

PushStaticOp(type) == IF type = "double" THEN Op.push_static_double ELSE Op.push_static_int
\* Mutant of PopStaticOp: a double is stored as an int.
PopStaticInt(type) == Op.pop_static_int
PopStaticOp(type)  == IF type = "double" THEN Op.pop_static_double ELSE Op.pop_static_int

\* leave_identexpr while no assignment has been notified: the value is pushed.
LeaveIdentNormal ==
  /\ Calling("leave") /\ Cur.kind \in {"ident", "function"} /\ vi_state = "VISIT_NORMAL"
  /\ EmitAndReturn(IF Cur.kind = "function" THEN Op.push_function ELSE PushStaticOp(Cur.type), Cur.n)

\* Mutants of ValueWanted: one level of nesting too early; calls forgotten.
ValueWantedTooEarly == assign_depth >= 1 \/ vf_state = "VISIT_F_CALL"
ValueWantedNested == assign_depth > 1

\* Nested assignment, or one inside a function call: the value is wanted again.
ValueWanted == assign_depth > 1 \/ vf_state = "VISIT_F_CALL"

\* leave_identexpr after notify_assignexpr: the variable is the target.
LeaveIdentAssign ==
  /\ Calling("leave") /\ Cur.kind = "ident" /\ vi_state = "VISIT_NOMAL_ASSIGN"
  /\ LET stored == Gen(buf, PopStaticOp(Cur.type), Cur.n) IN
       buf' = IF ValueWanted THEN Gen(stored, PushStaticOp(Cur.type), Cur.n) ELSE stored
  /\ Return /\ KeepModes /\ UNCHANGED constant_pool

\* "cannot assign value to function"
LeaveFunctionAssign ==
  /\ Calling("leave") /\ Cur.kind = "function" /\ vi_state = "VISIT_NOMAL_ASSIGN"
  /\ Exit

\* The handlers of the binary operators: the opcode for the operands' type.
\* Arithmetic and ordering have none for booleans, equality takes them as ints.
BinaryOps ==
  [add |-> [int |-> Op.add_int, double |-> Op.add_double],
   sub |-> [int |-> Op.sub_int, double |-> Op.sub_double],
   mul |-> [int |-> Op.mul_int, double |-> Op.mul_double],
   div |-> [int |-> Op.div_int, double |-> Op.div_double],
   mod |-> [int |-> Op.mod_int, double |-> Op.mod_double],
   gt  |-> [int |-> Op.gt_int, double |-> Op.gt_double],
   ge  |-> [int |-> Op.ge_int, double |-> Op.ge_double],
   lt  |-> [int |-> Op.lt_int, double |-> Op.lt_double],
   le  |-> [int |-> Op.le_int, double |-> Op.le_double],
   eq  |-> [int |-> Op.eq_int, double |-> Op.eq_double, boolean |-> Op.eq_int],
   ne  |-> [int |-> Op.ne_int, double |-> Op.ne_double, boolean |-> Op.ne_int]]

LeaveBinary ==
  /\ Calling("leave") /\ Cur.kind \in DOMAIN BinaryOps
  /\ LET ops == BinaryOps[Cur.kind]  type == Cur.kids[1].type IN
       IF type \in DOMAIN ops THEN EmitAndReturn(ops[type], 0) ELSE Exit

\* leave_landexpr, leave_lorexpr, leave_castexpr, leave_lognotexpr and
\* leave_minusexpr, which has no opcode for a boolean.
LogicalOps == [land |-> Op.logical_and, lor |-> Op.logical_or]
CastOps    == [cast_int_to_double |-> Op.cast_int_to_double,
               cast_double_to_int |-> Op.cast_double_to_int]
MinusOps   == [int |-> Op.minus_int, double |-> Op.minus_double]

LeaveUnary ==
  /\ Calling("leave")
  /\ \/ Cur.kind \in DOMAIN LogicalOps /\ EmitAndReturn(LogicalOps[Cur.kind], 0)
     \/ Cur.kind \in DOMAIN CastOps /\ EmitAndReturn(CastOps[Cur.kind], 0)
     \/ Cur.kind = "lognot" /\ EmitAndReturn(Op.logical_not, 0)
     \/ /\ Cur.kind = "minus"
        /\ IF Cur.type \in DOMAIN MinusOps THEN EmitAndReturn(MinusOps[Cur.type], 0) ELSE Exit

\* leave_incexpr, leave_decexpr: only outside an assignment target. The
\* operand's declaration is read without asking whether it is a variable.
LeaveIncDec ==
  /\ Calling("leave") /\ Cur.kind \in {"inc", "dec"}
  /\ \/ vi_state # "VISIT_NORMAL" /\ Exit
     \/ vi_state = "VISIT_NORMAL" /\ Cur.kids[1].kind # "ident" /\ outcome' = "undefined"
        /\ UNCHANGED <<prog, todo, buf, constant_pool, vi_state, vf_state,
                       assign_depth, id_stack, id>>
     \/ /\ vi_state = "VISIT_NORMAL" /\ Cur.kids[1].kind = "ident"
        /\ LET bumped == Gen(buf, IF Cur.kind = "inc" THEN Op.increment ELSE Op.decrement, 0)
               stored == Gen(bumped, Op.pop_static_int, Cur.kids[1].n)
           IN  buf' = Gen(stored, Op.push_static_int, Cur.kids[1].n)
        /\ Return /\ KeepModes /\ UNCHANGED constant_pool

-----------------------------------------------------------------------------
(* Assignments and calls.                                                    *)

\* notify_assignexpr: the value of the right side is on the stack; a compound
\* operator is applied in the right side's type, and then the target follows.
NotifyAssign ==
  /\ Calling("notify")
  /\ LET type == Cur.kids[2].type IN
       IF Cur.kind = "assign"
       THEN buf' = buf /\ vi_state' = "VISIT_NOMAL_ASSIGN" /\ Return
            /\ UNCHANGED <<prog, constant_pool, vf_state, assign_depth, id_stack, id, outcome>>
       ELSE IF type \in {"int", "double"}
       THEN EmitOp(BinaryOps[CompoundOf[Cur.kind]][type])
            /\ vi_state' = "VISIT_NOMAL_ASSIGN" /\ Return
            /\ UNCHANGED <<prog, constant_pool, vf_state, assign_depth, id_stack, id, outcome>>
       ELSE Exit

\* Mutant of LeaveAssign: a signed depth.
LeaveAssignSigned ==
  /\ Calling("leave") /\ Cur.kind \in AssignKinds
  /\ IF vf_state = "VISIT_F_CALL"
     THEN vi_state' = "VISIT_NORMAL" /\ assign_depth' = 0
     ELSE assign_depth' = assign_depth - 1 /\ UNCHANGED vi_state
  /\ Return
  /\ UNCHANGED <<prog, buf, constant_pool, vf_state, id_stack, id, outcome>>

\* leave_assignexpr: inside a call the modes are reset here, elsewhere only at
\* the end of the statement.
LeaveAssign ==
  /\ Calling("leave") /\ Cur.kind \in AssignKinds
  /\ IF vf_state = "VISIT_F_CALL"
     THEN vi_state' = "VISIT_NORMAL" /\ assign_depth' = 0
     ELSE assign_depth' = (assign_depth - 1) % 65536 /\ UNCHANGED vi_state
  /\ Return
  /\ UNCHANGED <<prog, buf, constant_pool, vf_state, id_stack, id, outcome>>

\* leave_funccallexpr: vf_state is a flag, so leaving an inner call clears it.
LeaveFuncCall ==
  /\ Calling("leave") /\ Cur.kind = "call"
  /\ vf_state' = "VISIT_F_NO"
  /\ EmitOp(Op.invoke) /\ Return
  /\ UNCHANGED <<prog, constant_pool, vi_state, assign_depth, id_stack, id, outcome>>

-----------------------------------------------------------------------------
(* Leaving a statement.                                                      *)

\* Mutant of LeaveExprStmt: the depth is not reset.
LeaveExprStmtKeepsDepth ==
  /\ Calling("leave") /\ Cur.kind = "exprstmt"
  /\ IF vi_state = "VISIT_NORMAL" THEN EmitOp(Op.pop) /\ UNCHANGED vi_state
     ELSE vi_state' = "VISIT_NORMAL" /\ UNCHANGED buf
  /\ Return
  /\ UNCHANGED <<prog, constant_pool, vf_state, assign_depth, id_stack, id, outcome>>

\* leave_exprstmt: the value is dropped, unless an assignment stored it.
LeaveExprStmt ==
  /\ Calling("leave") /\ Cur.kind = "exprstmt"
  /\ IF vi_state = "VISIT_NORMAL"
     THEN EmitOp(Op.pop) /\ UNCHANGED <<vi_state, assign_depth>>
     ELSE vi_state' = "VISIT_NORMAL" /\ assign_depth' = 0 /\ UNCHANGED buf
  /\ Return
  /\ UNCHANGED <<prog, constant_pool, vf_state, id_stack, id, outcome>>

\* cs_search_decl_global: the first declaration of the name in the whole list.
SearchDeclGlobal(name, i) ==
  prog.decls[i].name = name /\ \A j \in 1 .. i - 1 : prog.decls[j].name # name

\* leave_declstmt: the initializer is stored to the declaration found by name.
LeaveDeclStmt ==
  /\ Calling("leave") /\ Cur.kind = "declstmt"
  /\ IF Cur.kids # <<>>
     THEN \E i \in DOMAIN prog.decls :
            /\ SearchDeclGlobal(prog.decls[Cur.n + 1].name, i)
            /\ EmitAndReturn(PopStaticOp(prog.decls[i].type), i - 1)
     ELSE Return /\ UNCHANGED <<prog, handlerVars>>

\* Mutant of LeaveBlockOp: the two ends of a block exchanged.
LeaveBlockOpExchanged ==
  /\ Calling("leave") /\ Cur.kind \in {"blockbegin", "blockend"}
  /\ EmitAndReturn(IF Cur.kind = "blockend" THEN Op.push_stack_pointer
                   ELSE Op.pop_stack_pointer, 0)

\* leave_blkopstmt. The list of checkpoints, whose tail it looks at last
\* (codegenvisitor.c:809), is not empty: the mean check has put this block in it.
LeaveBlockOp ==
  /\ Calling("leave") /\ Cur.kind \in {"blockbegin", "blockend"}
  /\ EmitAndReturn(IF Cur.kind = "blockbegin" THEN Op.push_stack_pointer
                   ELSE Op.pop_stack_pointer, 0)

\* Mutants: push_id without id += 1; the label of the newest if, not of the
\* innermost open one.
LeaveIfEnterSameId ==
  /\ Calling("leave") /\ Cur.kind = "ifenter"
  /\ Len(id_stack) < ID_STACK_SIZE - 1
  /\ id_stack' = Append(id_stack, id) /\ Emit(Op.goto, id) /\ Return
  /\ UNCHANGED <<prog, constant_pool, vi_state, vf_state, assign_depth, id, outcome>>
LeaveIfLeaveNewest ==
  /\ Calling("leave") /\ Cur.kind = "ifleave" /\ id_stack # <<>>
  /\ Emit(Op.label, id - 1)
  /\ id_stack' = SubSeq(id_stack, 1, Len(id_stack) - 1)
  /\ Return
  /\ UNCHANGED <<prog, constant_pool, vi_state, vf_state, assign_depth, id, outcome>>

\* push_id keeps the last entry of the array free; then enter_if_stmt.
LeaveIfEnter ==
  /\ Calling("leave") /\ Cur.kind = "ifenter"
  /\ IF Len(id_stack) >= ID_STACK_SIZE - 1 THEN Exit
     ELSE /\ id_stack' = Append(id_stack, id) /\ id' = id + 1
          /\ Emit(Op.goto, id)
          /\ Return
          /\ UNCHANGED <<prog, constant_pool, vi_state, vf_state, assign_depth, outcome>>

\* pop_id and leave_if_stmt; the grammar closes only what it opened.
LeaveIfLeave ==
  /\ Calling("leave") /\ Cur.kind = "ifleave" /\ id_stack # <<>>
  /\ Emit(Op.label, id_stack[Len(id_stack)])
  /\ id_stack' = SubSeq(id_stack, 1, Len(id_stack) - 1)
  /\ Return
  /\ UNCHANGED <<prog, constant_pool, vi_state, vf_state, assign_depth, id, outcome>>

-----------------------------------------------------------------------------
\* create_codegen_visitor, then code_generate traverses every statement.
CodegenInit ==
  /\ prog \in Programs
  /\ todo = [i \in DOMAIN prog.stmts |-> Call("enter", prog.stmts[i])]
  /\ buf = [code |-> <<>>, size |-> 0]
  /\ constant_pool = <<>>
  /\ vi_state = "VISIT_NORMAL" /\ vf_state = "VISIT_F_NO" /\ assign_depth = 0
  /\ id_stack = <<>> /\ id = 0
  /\ outcome = "running"

CodegenNext ==
  \/ EnterOther \/ EnterAssign \/ EnterFuncCall
  \/ LeaveLiteral \/ LeaveIdentNormal \/ LeaveIdentAssign \/ LeaveFunctionAssign
  \/ LeaveBinary \/ LeaveUnary \/ LeaveIncDec
  \/ NotifyAssign \/ LeaveAssign \/ LeaveFuncCall
  \/ LeaveExprStmt \/ LeaveDeclStmt \/ LeaveBlockOp \/ LeaveIfEnter \/ LeaveIfLeave

CodegenSpec == CodegenInit /\ [][CodegenNext]_codegenVars

Generated == outcome = "running" /\ todo = <<>>

-----------------------------------------------------------------------------
(* Properties.                                                               *)

\* Only an assignment is notified between its children.
Pending == [at : {"enter", "leave"}, node : Nodes]
           \cup [at : {"notify"}, node : {e \in Nodes : e.kind \in AssignKinds}]

TypeOK ==
  /\ prog \in Programs
  /\ todo \in Seq(Pending)
  /\ buf \in [code : Seq(Byte), size : Nat]
  /\ constant_pool \in Seq([t : {"int", "double"}, v : Int])
  /\ vi_state \in {"VISIT_NORMAL", "VISIT_NOMAL_ASSIGN"}
  /\ vf_state \in {"VISIT_F_NO", "VISIT_F_CALL"}
  /\ assign_depth \in UInt16
  /\ id_stack \in Seq(Nat)
  /\ id \in Nat
  /\ outcome \in {"running", "exit", "undefined"}

\* The generated bytes never outgrow the buffer: gen_byte_code asks for room
\* before it stores an opcode and its operand, and one growth is always enough
\* (codegenvisitor.c:16-49).
BytesFit == Len(buf.code) <= buf.size

\* The labels of the open if statements are distinct, in the order they were
\* opened, and none will be handed out again; the array never fills up
\* (codegenvisitor.c:814-833).
LabelsFresh ==
  /\ Len(id_stack) < ID_STACK_SIZE
  /\ \A i \in DOMAIN id_stack :
       id_stack[i] < id /\ \A j \in DOMAIN id_stack : i < j => id_stack[i] < id_stack[j]

=============================================================================
