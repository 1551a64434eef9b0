------------------------------- MODULE OpInfo -------------------------------
(* The instruction set of the stack machine: the opcode numbers of svm/svm.h *)
(* and the table svm_opcode_info of svm/opinfo.c that the code generator,    *)
(* the serializer and the machine's skip loop read.                          *)
EXTENDS Integers, Sequences

\* uint8_t and uint16_t.
UINT8_MAX  == 255
UINT16_MAX == 65535
Byte   == 0 .. UINT8_MAX
UInt16 == 0 .. UINT16_MAX

\* SVM_Opcode: the position of a name in the enumeration is its byte.
Op == [push_int |-> 1, push_double |-> 2,
       push_stack_int |-> 3, push_stack_double |-> 4, push_stack_pointer |-> 5,
       pop_stack_int |-> 6, pop_stack_double |-> 7, pop_stack_pointer |-> 8,
       push_static_int |-> 9, push_static_double |-> 10,
       pop_static_int |-> 11, pop_static_double |-> 12,
       add_int |-> 13, add_double |-> 14, sub_int |-> 15, sub_double |-> 16,
       mul_int |-> 17, mul_double |-> 18, div_int |-> 19, div_double |-> 20,
       mod_int |-> 21, mod_double |-> 22, minus_int |-> 23, minus_double |-> 24,
       increment |-> 25, decrement |-> 26,
       cast_int_to_double |-> 27, cast_double_to_int |-> 28,
       eq_int |-> 29, eq_double |-> 30, ne_int |-> 31, ne_double |-> 32,
       gt_int |-> 33, gt_double |-> 34, ge_int |-> 35, ge_double |-> 36,
       lt_int |-> 37, lt_double |-> 38, le_int |-> 39, le_double |-> 40,
       logical_and |-> 41, logical_or |-> 42, logical_not |-> 43,
       pop |-> 44, push_function |-> 45, invoke |-> 46, return |-> 47,
       goto |-> 48, label |-> 49]

Opcodes == 1 .. 49

\* The table has an entry "dummy" for byte 0; a byte past 49 is outside it.
InTable(op) == op \in 0 .. 49

\* The opcodes whose parameter string is "i": a two-byte operand follows.
WithOperand == {1, 2, 3, 4, 6, 7, 9, 10, 11, 12, 45, 48, 49}

\* get_opsize: two bytes for each character of the parameter string.
OpSize(op) == IF op \in WithOperand THEN 2 ELSE 0

\* The column s_size.
SSize(op) == IF op \in {1, 2, 3, 4, 5, 9, 10, 48, 49} THEN 1
             ELSE IF op \in {0, 45} \cup (23 .. 28) THEN 0
             ELSE -1

=============================================================================
