------------------------------ MODULE Serialize ------------------------------
(* What comp/codegentest.c does with the generated code: exec_disasm lists   *)
(* it, two counts are made of it, and serialize writes the executable file.  *)
EXTENDS FiniteSets, Codegen, Values

\* count_stack_size: the sum of what the table says each instruction pushes.
CountStackSize(code) ==
  LET from[i \in Nat] ==
        IF i > Len(code) THEN 0
        ELSE (IF SSize(code[i]) > 0 THEN SSize(code[i]) ELSE 0) + from[i + 1 + OpSize(code[i])]
  IN  from[1]

\* Mutant of CountPointerStackSize: the maximum is taken before the count.
CountPointerStackSizeLate(code) ==
  LET scan[i \in 0 .. Len(code)] ==
        IF i = 0 THEN [size |-> 0, max |-> 0]
        ELSE LET c == scan[i - 1]
             IN  IF code[i] = Op.push_stack_pointer
                 THEN [size |-> c.size + 1, max |-> IF c.size > c.max THEN c.size ELSE c.max]
                 ELSE IF code[i] = Op.pop_stack_pointer THEN [c EXCEPT !.size = @ - 1]
                 ELSE c
  IN  scan[Len(code)].max

\* count_pointer_stack_size: the deepest nesting of block instructions, looking
\* at every byte of the code, operands included.
CountPointerStackSize(code) ==
  LET scan[i \in 0 .. Len(code)] ==
        IF i = 0 THEN [size |-> 0, max |-> 0]
        ELSE LET c == scan[i - 1]
             IN  IF code[i] = Op.push_stack_pointer
                 THEN [size |-> c.size + 1, max |-> IF c.size + 1 > c.max THEN c.size + 1 ELSE c.max]
                 ELSE IF code[i] = Op.pop_stack_pointer THEN [c EXCEPT !.size = @ - 1]
                 ELSE c
  IN  scan[Len(code)].max

-----------------------------------------------------------------------------
(* exec_disasm lists the code before it is written: from its beginning, each *)
(* instruction with the operand the table says it has.                       *)

\* The positions at which an instruction starts, and the end of the code.
Boundaries(code) ==
  LET from[i \in Nat] ==
        {i} \cup IF i < Len(code) THEN from[i + 1 + OpSize(code[i + 1])] ELSE {}
  IN  from[0]

\* Where the instruction behind the one at i starts, the places of an opcode, and
\* the operand of the instruction at i.
Behind(code, i)   == i + 1 + OpSize(code[i + 1])
InstrAt(code, op) == {i \in Boundaries(code) : i < Len(code) /\ code[i + 1] = op}
Operand(code, i)  == code[i + 2] * 256 + code[i + 3]

\* Mutant of Listed: the opcodes of blocks were not added to the switch.
ListedWithoutBlocks ==
  Opcodes \ {Op.push_stack_int, Op.push_stack_double, Op.push_stack_pointer, Op.pop_stack_int,
             Op.pop_stack_double, Op.pop_stack_pointer, Op.return}

\* The cases of its switch; any other opcode ends the process.
Listed ==
  Opcodes \ {Op.push_stack_int, Op.push_stack_double, Op.pop_stack_int, Op.pop_stack_double,
             Op.return}

Disassembles(code) == \A i \in Boundaries(code) : i < Len(code) => code[i + 1] \in Listed

\* The count looks every byte up in svm_opcode_info: one that is no opcode, an
\* operand past 49, is read from behind the table.
CountsInTable(code) == \A i \in DOMAIN code : InTable(code[i])

\* copy_declaration and serialize; a boolean is stored as an int.
Executable ==
  [constant_pool |-> constant_pool,
   types |-> [i \in DOMAIN prog.decls |-> Tag(prog.decls[i].type)],
   code |-> buf.code,
   stack_size |-> CountStackSize(buf.code),
   pt_stack_size |-> CountPointerStackSize(buf.code)]

-----------------------------------------------------------------------------
\* Each goto has one label of its own behind it, and each label a goto before
\* it: the operands that push_id, current_id and pop_id hand out pair them up
\* however deep the if statements nest (codegenvisitor.c:814-864).
InstructionsOf(op) == {i \in Boundaries(buf.code) \ {Len(buf.code)} : buf.code[i + 1] = op}
TargetAt(i) == buf.code[i + 2] * 256 + buf.code[i + 3]
LabelsPaired ==
  Generated =>
    /\ \A g \in InstructionsOf(Op.goto) :
         Cardinality({l \in InstructionsOf(Op.label) : l > g /\ TargetAt(l) = TargetAt(g)}) = 1
    /\ \A l \in InstructionsOf(Op.label) :
         Cardinality({g \in InstructionsOf(Op.goto) : g < l /\ TargetAt(l) = TargetAt(g)}) = 1

=============================================================================
