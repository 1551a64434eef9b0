-------------------------------- MODULE Svm --------------------------------
(* The stack machine of svm/svm.c: svm_run, one action per opcode or family  *)
(* of opcodes, with its operand stack, pointer stack, globals and native     *)
(* functions. An image is what parse has read from the executable file.      *)
(* Indices are the program's: pc, sp and the stack's slots count from 0.     *)
EXTENDS Integers, Sequences, OpInfo, Values

CONSTANT Natives  \* the native functions in order: sequence of [args, ret]

ASSUME NativesAssumption ==
  Natives \in Seq([args : Seq({"int", "double"}), ret : {0, 1}])

VARIABLES
  image,            \* [constant_pool, types, code, stack_size, pt_stack_size]
  pc, sp,
  stack,            \* the slots 0 .. stack_size - 1, each a value
  stack_value_type, \* their tags: "int", "double", or "junk" for fresh memory
  pt_stack,         \* saved values of sp; pt_stack_count is its length
  globals,
  seeking,          \* the label a false goto looks for, or NoLabel
  mode,             \* "idle", "run", "skip", "done", "exit", "undefined"
  output            \* what native functions printed, a sequence per call

svmVars == <<image, pc, sp, stack, stack_value_type, pt_stack, globals, seeking, mode, output>>

NoLabel == -1

\* set_footer of memory/memory.c: the bytes behind every allocation.
MARK == 205
MARK_SIZE == 4

code_size == Len(image.code)

\* fetch: a byte read past the code is one of its footer.
CodeByte(i) == IF i < code_size THEN image.code[i + 1] ELSE MARK

\* Before the image is loaded.
NoImage == [constant_pool |-> <<>>, types |-> <<>>, code |-> <<>>,
            stack_size |-> 0, pt_stack_size |-> 0]
SvmIdle ==
  /\ pc = 0 /\ sp = 0 /\ stack = <<>> /\ stack_value_type = <<>> /\ pt_stack = <<>>
  /\ globals = <<>> /\ seeking = NoLabel /\ mode = "idle" /\ output = <<>>

\* main: svm_create, parse, add_native_functions, init_svm.
Load(img) ==
  /\ mode = "idle"
  /\ image' = img
  /\ pc' = 0 /\ sp' = 0
  /\ stack' = [i \in 0 .. img.stack_size - 1 |-> Junk]
  /\ stack_value_type' = [i \in 0 .. img.stack_size - 1 |-> "junk"]
  /\ pt_stack' = <<>>
  /\ globals' = [i \in DOMAIN img.types |-> [t |-> img.types[i], v |-> 0]]
  /\ seeking' = NoLabel /\ mode' = "run" /\ output' = <<>>

-----------------------------------------------------------------------------
(* Building blocks of an instruction. The code checks no access: one outside *)
(* its array is undefined behaviour, and nothing is said of what follows.    *)

Stop(m) == mode' = m /\ UNCHANGED <<image, pc, sp, stack, stack_value_type, pt_stack,
                                    globals, seeking, output>>
Undefined == Stop("undefined")

\* svm_run fetches before it first looks at the loop's condition.
Running == mode = "run" /\ (pc < code_size \/ pc = 0)
Opcode == CodeByte(pc)
Arg == CodeByte(pc + 1) * 256 + CodeByte(pc + 2)
Advance == pc' = pc + 1 + OpSize(Opcode) /\ UNCHANGED <<image, seeking, mode>>

Top(k) == stack[sp - k]
CanPop(n) == n <= sp /\ sp <= image.stack_size
Drop(n) == sp' = sp - n /\ UNCHANGED <<stack, stack_value_type>>

\* Pop n slots and push a value: push_i and push_d also write the slot's tag.
Store(n, tag, v) ==
  /\ sp' = sp - n + 1
  /\ stack' = [stack EXCEPT ![sp - n] = v]
  /\ stack_value_type' = [stack_value_type EXCEPT ![sp - n] = tag]

\* Reading a member of the union that was not the one written.
As(t, v) == IF v.t = t THEN v ELSE Junk

-----------------------------------------------------------------------------
(* Instructions.                                                             *)

PushConstant ==
  /\ Running /\ Opcode \in {Op.push_int, Op.push_double}
  /\ LET t == IF Opcode = Op.push_int THEN "int" ELSE "double" IN
       IF Arg < Len(image.constant_pool) /\ sp < image.stack_size
       THEN /\ Store(0, t, As(t, image.constant_pool[Arg + 1])) /\ Advance
            /\ UNCHANGED <<pt_stack, globals, output>>
       ELSE Undefined

PushStatic ==
  /\ Running /\ Opcode \in {Op.push_static_int, Op.push_static_double}
  /\ LET t == IF Opcode = Op.push_static_int THEN "int" ELSE "double" IN
       IF Arg < Len(globals) /\ sp < image.stack_size
       THEN /\ Store(0, t, As(t, globals[Arg + 1])) /\ Advance
            /\ UNCHANGED <<pt_stack, globals, output>>
       ELSE Undefined

\* The store does not look at global_variable_types.
PopStatic ==
  /\ Running /\ Opcode \in {Op.pop_static_int, Op.pop_static_double}
  /\ LET t == IF Opcode = Op.pop_static_int THEN "int" ELSE "double" IN
       IF Arg < Len(globals) /\ CanPop(1)
       THEN /\ globals' = [globals EXCEPT ![Arg + 1] = As(t, Top(1))]
            /\ Drop(1) /\ Advance
            /\ UNCHANGED <<pt_stack, output>>
       ELSE Undefined

\* The arithmetic opcodes 13 .. 22 and the comparisons 29 .. 40 alternate
\* between int and double; the right operand is on top.
BinaryOpcodes == (13 .. 22) \cup (29 .. 40)
OperatorOf(b) == IF b <= 22
                 THEN <<"add", "sub", "mul", "div", "mod">>[(b - 13) \div 2 + 1]
                 ELSE <<"eq", "ne", "gt", "ge", "lt", "le">>[(b - 29) \div 2 + 1]
OperandType(b) == IF b % 2 = 1 THEN "int" ELSE "double"
DividesByZero(b, v) == b \in {Op.div_int, Op.mod_int} /\ v = IntVal(0)

\* Mutants of BinaryInstr: the operands exchanged; a comparison's result tagged
\* with the type it compares.
BinaryInstrExchanged ==
  /\ Running /\ Opcode \in BinaryOpcodes
  /\ LET op == OperatorOf(Opcode)  t == OperandType(Opcode) IN
       IF CanPop(2) /\ ~DividesByZero(Opcode, Top(2))
       THEN /\ Store(2, IF op \in CompareOps THEN "int" ELSE t, Binary(op, t, Top(1), Top(2)))
            /\ Advance /\ UNCHANGED <<pt_stack, globals, output>>
       ELSE Undefined
BinaryInstrOperandTag ==
  /\ Running /\ Opcode \in BinaryOpcodes
  /\ LET op == OperatorOf(Opcode)  t == OperandType(Opcode) IN
       IF CanPop(2) /\ ~DividesByZero(Opcode, Top(1))
       THEN /\ Store(2, t, Binary(op, t, Top(2), Top(1)))
            /\ Advance /\ UNCHANGED <<pt_stack, globals, output>>
       ELSE Undefined

BinaryInstr ==
  /\ Running /\ Opcode \in BinaryOpcodes
  /\ LET op == OperatorOf(Opcode)  t == OperandType(Opcode) IN
       IF CanPop(2) /\ ~DividesByZero(Opcode, Top(1))
       THEN /\ Store(2, IF op \in CompareOps THEN "int" ELSE t, Binary(op, t, Top(2), Top(1)))
            /\ Advance /\ UNCHANGED <<pt_stack, globals, output>>
       ELSE Undefined

\* Logical operators take only 1 for true, and both operands were evaluated.
Logical(op, a, b) ==
  IF a.t # "int" \/ b.t # "int" THEN Junk
  ELSE IF op = Op.logical_and THEN Truth(a.v = 1 /\ b.v = 1) ELSE Truth(a.v = 1 \/ b.v = 1)

LogicalInstr ==
  /\ Running /\ Opcode \in {Op.logical_and, Op.logical_or}
  /\ IF CanPop(2)
     THEN /\ Store(2, "int", Logical(Opcode, Top(2), Top(1)))
          /\ Advance /\ UNCHANGED <<pt_stack, globals, output>>
     ELSE Undefined

\* The instructions that replace the top of the stack.
UnaryResult(b, v) ==
  CASE b = Op.minus_int          -> Negated("int", v)
    [] b = Op.minus_double       -> Negated("double", v)
    [] b = Op.increment          -> Binary("add", "int", v, IntVal(1))
    [] b = Op.decrement          -> Binary("sub", "int", v, IntVal(1))
    [] b = Op.cast_int_to_double -> AsDouble(v)
    [] b = Op.cast_double_to_int -> AsInt(v)
    [] b = Op.logical_not        -> IF v.t = "int" THEN Truth(v.v # 1) ELSE Junk

UnaryInstr ==
  /\ Running /\ Opcode \in (23 .. 28) \cup {Op.logical_not}
  /\ IF CanPop(1)
     THEN /\ Store(1, IF Opcode \in {Op.minus_double, Op.cast_int_to_double} THEN "double"
                      ELSE "int",
                   UnaryResult(Opcode, Top(1)))
          /\ Advance /\ UNCHANGED <<pt_stack, globals, output>>
     ELSE Undefined

\* Mutant of PopInstr: off by one on an empty stack.
PopInstrUnderflows ==
  /\ Running /\ Opcode = Op.pop
  /\ IF CanPop(0) THEN Drop(1) /\ Advance /\ UNCHANGED <<pt_stack, globals, output>>
     ELSE Undefined

PopInstr ==
  /\ Running /\ Opcode = Op.pop
  /\ IF CanPop(1) THEN Drop(1) /\ Advance /\ UNCHANGED <<pt_stack, globals, output>>
     ELSE Undefined

PushFunction ==
  /\ Running /\ Opcode = Op.push_function
  /\ IF sp < image.stack_size
     THEN Store(0, "int", IntVal(Arg)) /\ Advance /\ UNCHANGED <<pt_stack, globals, output>>
     ELSE Undefined

\* The native's own argument count decides what is read and popped; its result
\* is stored without a tag.
Invoke ==
  /\ Running /\ Opcode = Op.invoke
  /\ LET f == Natives[(Top(1).v % 65536) + 1]
         base == sp - 1 - Len(f.args)
     IN  IF CanPop(1) /\ Top(1).t = "int" /\ Top(1).v % 65536 < Len(Natives) /\ base >= 0
         THEN /\ output' = Append(output, [i \in DOMAIN f.args |->
                                             As(f.args[i], stack[base + i - 1])])
              /\ stack' = [stack EXCEPT ![base] = IntVal(f.ret)]
              /\ sp' = base + 1
              /\ Advance /\ UNCHANGED <<stack_value_type, pt_stack, globals>>
         ELSE Undefined

\* push_pt compares with stack_size, not with the array's pt_stack_size, and
\* reserves a slot without writing it.
PushStackPt ==
  /\ Running /\ Opcode = Op.push_stack_pointer
  /\ IF Len(pt_stack) >= image.stack_size THEN Stop("exit")
     ELSE IF Len(pt_stack) >= image.pt_stack_size THEN Undefined
     ELSE /\ pt_stack' = Append(pt_stack, sp) /\ sp' = sp + 1 /\ Advance
          /\ UNCHANGED <<stack, stack_value_type, globals, output>>

\* Mutant of PopStackPt: the saved sp is dropped, not restored.
PopStackPtKeepsSp ==
  /\ Running /\ Opcode = Op.pop_stack_pointer
  /\ IF pt_stack = <<>> THEN Stop("exit")
     ELSE /\ pt_stack' = SubSeq(pt_stack, 1, Len(pt_stack) - 1)
          /\ Advance
          /\ UNCHANGED <<sp, stack, stack_value_type, globals, output>>

PopStackPt ==
  /\ Running /\ Opcode = Op.pop_stack_pointer
  /\ IF pt_stack = <<>> THEN Stop("exit")
     ELSE /\ sp' = pt_stack[Len(pt_stack)]
          /\ pt_stack' = SubSeq(pt_stack, 1, Len(pt_stack) - 1)
          /\ Advance
          /\ UNCHANGED <<stack, stack_value_type, globals, output>>

\* Mutant of Goto: the condition's sense reversed.
GotoReversed ==
  /\ Running /\ Opcode = Op.goto
  /\ IF CanPop(1)
     THEN /\ \E true \in IF Top(1).t = "int" THEN {Top(1).v % 65536 # 0} ELSE BOOLEAN :
               IF ~true THEN UNCHANGED <<mode, seeking>> ELSE mode' = "skip" /\ seeking' = Arg
          /\ pc' = pc + 3 /\ Drop(1)
          /\ UNCHANGED <<image, pt_stack, globals, output>>
     ELSE Undefined

\* A false condition starts the search for the operand's label; the condition
\* is cut to 16 bits. Bits that are not an int may come out either way.
Goto ==
  /\ Running /\ Opcode = Op.goto
  /\ IF CanPop(1)
     THEN /\ \E true \in IF Top(1).t = "int" THEN {Top(1).v % 65536 # 0} ELSE BOOLEAN :
               IF true THEN UNCHANGED <<mode, seeking>> ELSE mode' = "skip" /\ seeking' = Arg
          /\ pc' = pc + 3 /\ Drop(1)
          /\ UNCHANGED <<image, pt_stack, globals, output>>
     ELSE Undefined

\* Mutant of Label: its operand is never fetched, and neither is the opcode.
LabelStays == Running /\ Opcode = Op.label /\ UNCHANGED svmVars

Label == Running /\ Opcode = Op.label /\ Advance
         /\ UNCHANGED <<sp, stack, stack_value_type, pt_stack, globals, output>>

\* No case of the switch: dummy, the stack-variable opcodes, return, and bytes
\* that are no opcode. show_status prints the stack before the process exits.
Unknown ==
  /\ Running
  /\ Opcode \in {0, 3, 4, 6, 7, Op.return} \cup (50 .. 255)
  /\ Stop(IF sp > image.stack_size THEN "undefined" ELSE "exit")

-----------------------------------------------------------------------------
(* The skip loop of SVM_GOTO. Every byte it stops at is taken for an opcode; *)
(* two bytes are dropped for each unit of that opcode's s_size, whether or   *)
(* not it has an operand. Running off the code ends the process; the stack,  *)
(* which is printed then, is inside its array since the goto popped from it. *)

SkipTo(next, m) ==
  /\ pc' = next /\ mode' = m
  /\ UNCHANGED <<image, sp, stack, stack_value_type, pt_stack, globals, output>>

SkipOn(next) ==
  SkipTo(next, IF next < code_size THEN "skip" ELSE "exit") /\ UNCHANGED seeking

\* Mutants of SkipLabel: the first label ends the search; one byte of the
\* operand is left; the machine goes back to the label.
SkipToAnyLabel ==
  /\ mode = "skip" /\ Opcode = Op.label
  /\ SkipTo(pc + 3, "run") /\ seeking' = NoLabel
SkipLabelShort ==
  /\ mode = "skip" /\ Opcode = Op.label
  /\ IF Arg = seeking THEN SkipTo(pc + 2, "run") /\ seeking' = NoLabel
     ELSE SkipOn(pc + 3)
SkipLabelBack ==
  /\ mode = "skip" /\ Opcode = Op.label
  /\ IF Arg = seeking THEN SkipTo(pc, "run") /\ seeking' = NoLabel
     ELSE SkipOn(pc + 3)

SkipLabel ==
  /\ mode = "skip" /\ Opcode = Op.label
  /\ IF Arg = seeking THEN SkipTo(pc + 3, "run") /\ seeking' = NoLabel
     ELSE SkipOn(pc + 3)

\* Mutant of SkipOther: the operand and the pushed slots are both dropped.
SkipOtherTwice ==
  /\ mode = "skip" /\ Opcode # Op.label
  /\ IF InTable(Opcode)
     THEN SkipOn(pc + 1 + OpSize(Opcode) + (IF SSize(Opcode) >= 1 THEN 2 * SSize(Opcode) ELSE 0))
     ELSE Undefined

SkipOther ==
  /\ mode = "skip" /\ Opcode # Op.label
  /\ IF InTable(Opcode) THEN SkipOn(pc + 1 + (IF SSize(Opcode) >= 1 THEN 2 * SSize(Opcode) ELSE 0))
     ELSE Undefined

-----------------------------------------------------------------------------
\* The loop ends and show_status prints the stack: a slot without a known tag
\* makes it exit.
ShowStatus ==
  /\ mode = "run" /\ pc >= code_size /\ pc # 0
  /\ Stop(IF sp > image.stack_size THEN "undefined"
          ELSE IF \E i \in 0 .. sp - 1 : stack_value_type[i] = "junk" THEN "exit"
          ELSE "done")

SvmNext ==
  \/ PushConstant \/ PushStatic \/ PopStatic \/ BinaryInstr \/ LogicalInstr \/ UnaryInstr
  \/ PopInstr \/ PushFunction \/ Invoke \/ PushStackPt \/ PopStackPt
  \/ Goto \/ Label \/ Unknown \/ SkipLabel \/ SkipOther \/ ShowStatus

Halted == mode \in {"done", "exit", "undefined"}

-----------------------------------------------------------------------------
(* What holds of the machine whatever image it is given.                     *)

Value == [t : {"int", "double", "junk"}, v : Int]
Image == [constant_pool : Seq(Value), types : Seq({"int", "double"}), code : Seq(Byte),
          stack_size : Nat, pt_stack_size : Nat]

SvmTypeOK ==
  /\ image \in Image
  /\ pc \in Nat /\ sp \in Nat
  /\ mode # "idle" => /\ stack \in [0 .. image.stack_size - 1 -> Value]
                     /\ stack_value_type \in [0 .. image.stack_size - 1 -> {"int", "double", "junk"}]
  /\ pt_stack \in Seq(Nat)
  /\ globals \in Seq(Value)
  /\ seeking \in {NoLabel} \cup UInt16
  /\ mode \in {"idle", "run", "skip", "done", "exit", "undefined"}
  /\ output \in Seq(Seq(Value))

\* The machine checks pc only between instructions, and its skip loop may jump
\* over the end of the code, yet every byte it ever fetches is a byte of the
\* code or of the MARK_SIZE bytes that set_footer writes behind it
\* (svm.c:360-365, 790-811; memory.c:55-60).
FetchesInFooter == pc < code_size + MARK_SIZE

\* Execution never goes back: no image can make the machine loop.
Forward == [][(mode \in {"run", "skip"} /\ ~Halted') => pc' > pc]_svmVars

=============================================================================
