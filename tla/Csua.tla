-------------------------------- MODULE Csua --------------------------------
(* From a checked program to its result: the code generator, the executable  *)
(* file (Serialize) and the stack machine that reads it, one after the       *)
(* other.                                                                    *)
EXTENDS Serialize, Svm

csuaVars == <<codegenVars, svmVars>>

Compile == mode = "idle" /\ CodegenNext /\ UNCHANGED svmVars
RunExecutable ==
  /\ mode = "idle" /\ Generated /\ Disassembles(buf.code)
  /\ IF CountsInTable(buf.code) THEN Load(Executable) ELSE Undefined
  /\ UNCHANGED codegenVars
Execute == SvmNext /\ UNCHANGED codegenVars

\* Both processes end; a state that is neither moving nor Ended is a deadlock.
Ended == (outcome # "running" \/ Halted) /\ UNCHANGED csuaVars

CsuaInit == CodegenInit /\ image = NoImage /\ SvmIdle
CsuaNext == Compile \/ RunExecutable \/ Execute \/ Ended

\* Each process runs until it ends by itself.
CsuaSpec == CsuaInit /\ [][CsuaNext]_csuaVars /\ WF_csuaVars(Compile \/ RunExecutable \/ Execute)

-----------------------------------------------------------------------------
(* Properties.                                                               *)

\* No stack slot below 0 or past the size that serialize computed, no constant,
\* variable or function that does not exist, no division by zero: generated
\* code never takes the unchecked machine (svm.c:360-450) out of its arrays.
NeverUndefined == mode # "undefined" /\ outcome # "undefined"

\* Statements and blocks give back every slot they take: after a normal end
\* both stacks are empty (leave_exprstmt, leave_blkopstmt).
StacksEmptyAtEnd == mode = "done" => sp = 0 /\ pt_stack = <<>>

\* A variable only ever holds a value of its declared type: no store takes the
\* wrong opcode for its target, and none writes to another variable of another
\* type (svm.c:534-548 does not check).
GlobalsTyped == \A i \in DOMAIN globals : globals[i].t = image.types[i]

\* The machine executes only at instruction boundaries: the skip loop, which
\* reads operands as opcodes (svm.c:790-811), can overshoot but never resumes
\* inside an instruction or at another label than its own.
ExecutesAtBoundaries ==
  mode = "run" => pc \in Boundaries(image.code)
ResumesAtItsLabel ==
  [][mode = "skip" /\ mode' = "run" =>
       /\ pc' - 3 \in Boundaries(image.code)
       /\ image.code[pc' - 2] = Op.label
       /\ image.code[pc' - 1] * 256 + image.code[pc'] = seeking]_csuaVars

\* Neither process gives up on a program, but the machine while it looks for a
\* label: in particular the disassembler, which runs before the executable is
\* written, knows every instruction the code generator makes, and reads the
\* code in step with it (codegentest.c:286-351, svm.c:790-811).
ExitsOnlySkipping ==
  /\ mode = "exit" => seeking # NoLabel
  /\ Generated => Disassembles(buf.code)

\* Compilation and execution end: the traversal consumes the program and every
\* instruction moves the machine forward.
Terminates == <>(outcome # "running" \/ Halted)

\* A statement starts with the visitor's modes as they were at the beginning:
\* whatever assignments and calls the one before nested, none of them leaves
\* its mode to the next (codegenvisitor.c:578-607, 706-742).
ModesReset ==
  (Generated \/ (Calling("enter") /\ Cur.kind \in {"exprstmt", "declstmt"}))
    => vi_state = "VISIT_NORMAL" /\ vf_state = "VISIT_F_NO" /\ assign_depth = 0

\* The tag beside a slot, by which show_status prints it, is the member that
\* was written to it last (svm.c:379-389, 479-515, 756-775).
TagsMatchValues == \A i \in 0 .. sp - 1 : stack_value_type[i] = stack[i].t

=============================================================================
