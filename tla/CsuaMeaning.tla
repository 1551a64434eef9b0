----------------------------- MODULE CsuaMeaning -----------------------------
(* The program's meaning (Source) is what the compiler and the machine       *)
(* should have computed when they are done.                                  *)
EXTENDS CodeShape, Source

\* The result is the program's: when the machine finishes normally, every
\* variable holds, and every native call printed, what the program says. This
\* ties the visitor's order of code, its two mode flags and the machine's skip
\* loop together (codegenvisitor.c, svm.c:517-834).
ResultIsMeaning ==
  mode = "done" => /\ globals = Meaning(prog, Natives).globals
                   /\ output = Meaning(prog, Natives).output

=============================================================================
