------------------------------- MODULE Cgent -------------------------------
(* The life of the program cgent (main of comp/codegentest.c): it creates a  *)
(* compiler, has the source parsed and checked, generates, disassembles and  *)
(* writes the executable if nothing was logged, prints the tree, and deletes *)
(* what it made. What it owns is a set: blocks of the debug allocator, the   *)
(* compiler's storage, open files. At the end MEM_dump_memory shows the rest.*)
EXTENDS MeanCheck

VARIABLES
  phase,  \* what main does next
  live    \* what is allocated or open

cgentVars == <<meanVars, phase, live>>

\* What an owner has of each kind, numbered from 0.
Owned(owner, kinds) == {owner} \X kinds \X {0}

\* A visitor and its tables of handlers.
VisitorBlocks(v) == Owned(v, {"visitor", "enter_expr", "leave_expr", "enter_stmt", "leave_stmt"})
Notify(v) == Owned(v, {"notify_expr"})
\* The name and the type of each variable of the executable, and their array.
VariableBlocks(n) ==
  Owned("exec", {"variables"}) \cup {"exec"} \X {"name", "type"} \X (0 .. n - 1)

Main(from, to) == phase = from /\ phase' = to /\ UNCHANGED meanVars
Exit == live' = live

\* CS_create_compiler, then CS_compile up to do_mean_check: yyparse may fail,
\* after a message, and create_mean_visitor has its tables.
Create ==
  /\ Main("start", "parse")
  /\ live' = Owned("main", {"input", "storage"})
ParseError == Main("parse", "exited") /\ Exit

\* Wrong arguments, or no file of that name: main returns before it has anything.
NoInput == Main("start", "exited") /\ Exit

Parse ==
  /\ Main("parse", "check")
  /\ live' = live \cup VisitorBlocks("mean")

\* do_mean_check
Check == phase = "check" /\ CheckNext /\ UNCHANGED <<phase, live>>
CheckStops == Main("check", "exited") /\ outcome \in {"exit", "crash"} /\ Exit

\* Mutant of DeleteVisitor: only what every visitor has.
DeleteVisitorTables(v) == live' = live \ VisitorBlocks(v)

\* delete_visitor: the notify table is there for the code generator only.
DeleteVisitor(v) == live' = live \ (VisitorBlocks(v) \cup Notify(v))
EndCheck ==
  /\ outcome \in {"accepted", "rejected"}
  /\ Main("check", IF outcome = "accepted" THEN "generate" ELSE "close")
  /\ DeleteVisitor("mean")

\* code_generate. The traversal allocates a code buffer with the first
\* instruction and a constant pool with the first constant; a node it does not
\* know stops the process.
Generate ==
  /\ Main("generate", "traverse")
  /\ live' = live \cup Owned("exec", {"exec"}) \cup VariableBlocks(Len(decl_list))
                  \cup VisitorBlocks("codegen") \cup Notify("codegen")
Traverse ==
  /\ Main("traverse", "finish")
  /\ \E emitted \in SUBSET (Owned("codegen", {"code"}) \cup Owned("exec", {"constant_pool"})) :
       live' = live \cup emitted
GenerateStops == Main("traverse", "exited") /\ Exit
CopyCode ==
  /\ Main("finish", "generated")
  /\ live' = (live \ Owned("codegen", {"code"})) \cup Owned("exec", {"code"})
EndGenerate == Main("generated", "write") /\ DeleteVisitor("codegen")

\* serialize opens the output and closes it again, delete_executable follows.
\* If fopen fails, or the disassembler before it meets what it does not know,
\* the process stops.
OpenOutput == Main("write", "delete") /\ live' = live \cup Owned("main", {"output"})
OpenFails == Main("write", "exited") /\ Exit
CloseOutput == Main("delete", "delete_executable") /\ live' = live \ Owned("main", {"output"})
DeleteExecutable ==
  /\ Main("delete_executable", "tree")
  /\ live' = live \ (VariableBlocks(Len(decl_list))
                     \cup Owned("exec", {"constant_pool", "code", "exec"}))

\* The tree view has a visitor of its own.
ShowTree == Main("tree", "shown") /\ live' = live \cup VisitorBlocks("tree")
EndTree == Main("shown", "close") /\ DeleteVisitor("tree")

\* fclose, CS_delete_compiler, MEM_dump_memory
DeleteCompiler == Main("close", "ended") /\ live' = live \ Owned("main", {"input", "storage"})

CgentInit == CheckInit /\ phase = "start" /\ live = {}
CgentNext ==
  \/ NoInput \/ Create \/ ParseError \/ Parse \/ Check \/ CheckStops \/ EndCheck
  \/ Generate \/ Traverse \/ GenerateStops \/ CopyCode \/ EndGenerate
  \/ OpenOutput \/ OpenFails \/ CloseOutput \/ DeleteExecutable \/ ShowTree \/ EndTree \/ DeleteCompiler

\* The process runs until it ends.
CgentSpec == CgentInit /\ [][CgentNext]_cgentVars /\ WF_cgentVars(CgentNext)

-----------------------------------------------------------------------------
(* Properties.                                                               *)

\* At MEM_dump_memory everything has been given back, on the path of a program
\* that was accepted and on that of one that was not (codegentest.c:358-392).
AllFreed == phase = "ended" => live = {}

\* There is an executable only for a program in which nothing was logged
\* (interface.c:65-72, codegentest.c:371).
GeneratesChecked == Owned("exec", {"exec"}) \subseteq live => ~check_log /\ outcome = "accepted"

\* The process ends, whatever the program: every search of the lists does, and
\* no statement is visited twice.
MainEnds == <>(phase \in {"ended", "exited"})

=============================================================================
