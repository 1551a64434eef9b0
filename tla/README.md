# A verification project for csua

csua is a small compiler and virtual machine in C. The program `cgent`
(`comp/`) reads a source file, checks it, generates code for a stack machine
and writes an executable file; the program `svm` (`svm/`) reads that file and
runs it. Both use a debug allocator and an arena (`memory/`). This directory
models the two programs in TLA+, checks them with TLC on small instances, and
proves with TLAPS what holds of the parts for every value of their constants.

## The system

| component | state | operations | used by |
|---|---|---|---|
| scanner (`comp/scanner.c`) | a buffer of five bytes and an index in it, `yytext` and its size, a line number | `read`, `pushback`, `addText`, `yylex` | parser |
| parser (`comp/csua.y`, `comp/create.c`) | Bison's stack | productions that build trees and chain statements and functions | `CS_compile` |
| compiler life cycle (`comp/interface.c`, `main` of `comp/codegentest.c`) | the compiler in its storage, visitors, the executable | create, compile, generate, write, delete | `cgent` |
| scope search (`comp/util.c`) | lists of declarations, functions and checkpoints of `{` and `}` | chain, record a checkpoint, search in blocks, search globally | mean check, code generator |
| mean check (`comp/meanvisitor.c`) | types and casts in the tree, a chain of logs | one leave handler per kind of node | `do_mean_check` |
| code generator (`comp/codegenvisitor.c`, `comp/traversor.c`) | code buffer, constant pool, `vi_state`, `vf_state`, `assign_depth`, the stack of labels | enter, notify and leave handlers | `code_generate` |
| disassembler, executable writer (`comp/codegentest.c`) | none: they walk the code, the writer computes two stack sizes | `exec_disasm`, `copy_declaration`, `serialize` | `cgent` |
| machine (`svm/svm.c`, `svm/opinfo.c`) | `pc`, `sp`, stack and its tags, `pt_stack`, globals | one case per opcode, the skip loop of `SVM_GOTO`, `show_status` | `svm` |
| native functions (`svm/native.c`) | none | `print`, `printb` | `SVM_INVOKE` |
| debug allocator (`memory/memory.c`) | a doubly linked chain of headers | malloc, strdup, realloc, free, dump | everything |
| storage (`memory/storage.c`) | a list of pages with a count of cells used | open, malloc, dispose | the tree |

Everything is sequential. What makes the program hard is not concurrency but
long sequences of legal calls over shared modes and unchecked data:

- The code generator is a set of callbacks that talk through two flags and a
  counter. Whether a variable is loaded, stored, or stored and loaded again
  depends on what handlers of *other* nodes left behind.
- The label of an `if` statement, the block around its body and the machine's
  skip loop have to agree, over three files, about where an instruction
  begins.
- The machine checks nothing: that it stays inside its arrays rests on sizes
  which the serializer computes in two ways, both approximate.
- The scopes of names are not kept: a search walks two lists backwards at
  once and guesses from checkpoints which blocks are closed.
- The scanner looks one character ahead by pushing it back into a buffer
  whose end may fall anywhere in a token.
- The mean check goes on after an error, over nodes without a type.
- The allocator moves blocks about in its chain whenever `realloc` moves them
  in memory, and the arena judges the room in a page by a size that need not
  be the page's.

`PROJECT.json` lists these hazards at their lines, with the properties that
would catch each of them, or the reason why none does yet.

## Modules

| module | models | form |
|---|---|---|
| `OpInfo` | `svm.h` opcodes, `opinfo.c` table, `get_opsize` | operators |
| `Lexemes`, `Scanner` | `scanner.c` | one action per case of `yylex` and per turn of its loops |
| `TokenStream` | what the scanner promises: the longest lexemes of the file | the specification `Scanner` implements |
| `Scope` | `util.c`: declarations, functions, checkpoints, the two searches in blocks | one action per turn of a search; the scopes of the language as history |
| `MeanVisitor` | the type rules of `meanvisitor.c` and the casts they insert | operators: checked children in, checked node or `Rejected` out |
| `MeanCheck` | `do_mean_check`: the mean visitor on trees that may be wrong, the statements as `csua.y` chains them | composes `Scope` and `MeanVisitor`; one action per handler and production |
| `Cgent` | `main` of `codegentest.c` with what it allocates and opens | composes `MeanCheck` with the other phases |
| `Codegen` | `codegenvisitor.c` driven by `traversor.c` | one action per handler |
| `Values` | C arithmetic on the union `SVM_Value` | operators |
| `Svm` | `svm_run`, `init_svm`, `show_status`, natives | one action per opcode or family; the skip loop one step at a time |
| `SvmRun` | `main` of `svm.c` on any image | `Svm` with an environment |
| `Serialize` | `serialize` and `exec_disasm` of `codegentest.c`: the two stack sizes, the disassembler's opcode list, the starts of instructions | operators |
| `Csua` | the two programs one after the other, `exec_disasm` and `serialize` between them | composes `Codegen`, `Serialize` and `Svm` |
| `CodeShape` | what instructions take from the stack and leave on it; the shape of the stack at each place of the code | operators over code, what the machine's checks would be if it had any |
| `WellMade` | the programs whose code leaves the machine's stack right, told from their trees alone | a sorting of expressions by how they call and assign, and the levels of blocks and `if`s |
| `Source` | what a checked program means, with no machine | recursive operators |
| `CsuaMeaning` | that the machine computes what `Source` says | `Csua` and `Source` compared |
| `Memory` | `memory.c` | one action per call |
| `BlockList` | what the allocator promises: the live blocks, newest first | the specification `Memory` implements |
| `MemoryList` | the walk of `MEM_dump_memory` | maps `Memory` to `BlockList` |
| `Storage` | `storage.c` | one action per call and branch |
| `MC...` | | programs, images and bounds for TLC |
| `...Proofs` | | theorems |

How the state corresponds to the code:

- `Codegen`: `todo` is what the C call stack of `traverse_expr` and
  `traverse_stmt` still has to do, so that each handler call is a step.
  `buf.code` is `code[0 .. pos-1]`, `buf.size` is `current_code_size`. The
  other variables have the names of the code.
- `Svm`: the names of `SVM_VirtualMachine`. `stack` and `stack_value_type`
  are functions on `0 .. stack_size - 1`. A value carries the member of the
  union that was written last; reading the other member gives `Junk`. `mode`
  is `"skip"` inside the inner loop of `SVM_GOTO`, where `seeking` is the
  label it looks for, and `"exit"` after a message and `exit(1)`. Before it
  exits on an unknown opcode, the machine shows its stack (`Unknown`), which
  reads outside the array if `sp` is beyond it. An access
  outside an array and an integer division by zero are undefined in C:
  the mode becomes `"undefined"` and nothing is said of what follows.
- `Scope`: a node of a list is its position, `NULL` is 0. `search` holds the
  two local pointers of a search. `visible` and `opened` are history: what
  the braces mean.
- `MeanCheck`: `todo` as in `Codegen`. `parser` holds the open braces, so that
  statements arrive in any order the grammar accepts; the parser has read all
  of them before the check starts, which makes no difference to the check. A
  block may hold a function definition and nothing else: no statement is
  chained for it, so such a block has only its begin and its end, and a program
  may be functions only (`funcs`, `Close`, `AllRead`).
  `vals` are the checked nodes whose parent has not been left yet. A null type
  is `"none"`; reading it is `outcome = "crash"`.
- `Cgent`: `phase` is where `main` is, `live` the set of what it owns. `main`
  returns at once for wrong arguments or a missing file (`NoInput`). The
  traversal of the generator is abstracted to whether it made code and constants (its
  detail is `Codegen`).
- `Scanner`: `in` is `buffer`, `ptr` and how far the file is read; `limit` is
  the length of the buffer. `ptr` is unsigned in C and -1 here: either way it
  is at the end of no buffer. `text` is `yytext` up to its NUL.
- `Memory`: a block is the address of its header. The C library's `malloc`
  and `realloc` may return any address that is not in use, `realloc` also the
  old one; either may fail.
- `Storage`: a page is `[cell_num, use_cell_num]`; `handed` is a history
  variable of the pieces the callers hold. A page that is made later counts
  as full at once (`use_cell_num = alloc_num`, storage.c:82), and the model
  keeps that. A failing `MEM_malloc` ends the process (`Memory`) and is no
  action here.

Abstractions of data: names are strings compared for equality, a double is a
number of halves and results are cut to that grid by the machine and by
`Source` alike, ints are unbounded (no program of the runs comes near 2^31),
`assign_depth`, operands and the tested condition keep their 16 bits.

## Runs

| run | size | question |
|---|---|---|
| `programs` | 3,492 programs, 265 thousand states | Does compiled code compute what the program says? |
| `svm` | 15,113 images, 63 thousand states | What can the machine do on code nobody compiled? |
| `codegen` | 2,853 programs, 50 thousand states | Is the generator's own state sound on everything the check accepts? |
| `cgent` | 4 statements and blocks, 475 thousand states | What does the check find, accept and leave behind, on programs with errors too? |
| `scanner` | 10 thousand files, 88 thousand states | Are the tokens those of the file? |
| `memory` | 4 addresses, 277 thousand states | Is the chain the list of live blocks? |
| `storage` | 5 pieces, 8 thousand states | Do pieces stay inside their pages and apart? |

`programs` compiles a program, disassembles it, hands the executable to the
machine and runs it. `ResultIsMeaning` compares globals and output with
`Source`. `NeverUndefined` says that compiled code never leaves the machine's
arrays, `StacksEmptyAtEnd` that statements and blocks give back what they
take, `GlobalsTyped` and `TagsMatchValues` that the member written is the one
the declaration and the tag name, `ModesReset` that no statement leaves its
mode to the next. `GeneratedCodeShaped` says it of the code itself, without
running it: at each place the stack has one shape, by whatever branches the
machine comes there (`CodeShape`). `LabelsPaired` is about the code as written;
`ExecutesAtBoundaries` and `ResumesAtItsLabel` are about the machine reading
it; `Terminates` is the liveness property. The machine may exit, because its
skip loop gives up on some correct programs (see the findings):
`ExitsOnlySkipping` says that then it was skipping, and that the disassembler,
which has an opcode list of its own, never gives up.

`cgent` is the whole compiler process over programs that may be wrong.
`ExactWhenFlat` says how good the search of names is: exact as long as no
block was closed inside another; `OwnBlockUnique` what is left of it
otherwise, and `CrashesWhenOdd` exactly when the search for a function takes
a null pointer. `AcceptedIsTyped` is what the code generator relies on,
`NullTypesLogged` that the walk over untyped nodes hurts no accepted program,
`BracesAreBlocks` that the statements of blocks pair up as the braces do.
`AllFreed` and `GeneratesChecked` are about the life of what `main` makes;
`SearchDescends` and `MainEnds` say that all of it ends.

`scanner` checks a refinement: whatever the ends of the buffer cut, each step
of `Scanner` is a step of `TokenStream` or none. `LinesCounted` leaves out
files with carriage returns, as `"\r\n"` counts twice. `CallsReturn` has one
exception, the comment that no line end follows: it is read for ever
(scanner.c:112).

`svm` runs every image of up to three bytes and every four bytes behind a
false goto, over bytes that misalign the skip loop in every way, and every
two or three instructions of each family with deep and shallow stacks.
`FetchesInFooter` shows that although nothing bounds `pc` inside an
instruction or the skip loop, the at most four bytes it reads too far are the
footer of the allocator. `Forward` and `RunTerminates` show that no image
makes the machine loop.

`memory` checks a refinement: `MemoryList` maps the chain to `BlockList` by
walking it as `MEM_dump_memory` does, and every call must change the entry it
is about and no other. `storage` uses requests below, at and above one cell
and one page, with pages of the default and of another size.

### The programs

Programs of `programs` and `codegen` are built with the rules of
`MeanVisitor`, so each is one the checker accepts. The straight ones of
`programs` have every operator over every pair of operand types, with
conversions, compound and nested assignments, calls with assignments in their
arguments, and each statement that changes the generator's modes followed by
one of every kind, as modes are what could reach from one statement to the
next. The others have a condition of each kind around bodies that contain an
`if` or a block, followed by another `if` or a statement. All place four
declarations in front. Two limits matter:

- Divisors in `programs` are literals and never zero, since nothing in the
  repository says what a zero divisor does; compound assignments in these
  runs target ints (codegenvisitor.c:587 pushes a double target as an int).
- `count_stack_size` counts nothing for `push_function` and so is short for
  calls; the initializers in front of the programs give enough slack. A
  program whose only statement is a call is not among these.

`codegen` takes what the other runs leave out: assignments as operands,
initializers and conditions, functions as operands and targets, and nesting
deeper than the label array.

`cgent` takes trees that the parser could build, right or wrong: every rule is
applied to operands it accepts and to some it rejects, and names are shadowed,
called, missing and declared twice. With functions there are none, one, or
three of which two share a name.

### Bounds

`CODE_ALLOC_SIZE` is 10 in the code; `codegen` uses 3, the smallest growth
that can be enough, so that every instruction meets a full buffer.
`ID_STACK_SIZE` is 100 in the code; `codegen` uses 4, so that the check for
deep nesting fires. `DEFAULT_PAGE_SIZE` is 1024 and `CELL_SIZE` 8; `storage`
uses 2 and 2. Four addresses allow three blocks and a fourth to move one to:
first, middle, last and only block are all moved and freed. `BUFSIZE` is 5 in
the code; `scanner` uses 2, so that the buffer ends inside tokens, behind
them and before the character that is pushed back. `ShortLength` is 3, enough
for every pair of neighbours behind a third character; `LongLength` is 6,
three buffers. All these are parameters of the theorems, which hold for every
value. `MaxGroups`, 4 in `cgent` and 5 in `defect_scope`, bounds the
statements and blocks of a program: four allow a block closed inside another
with a use behind it; five, an empty block in addition.
`ExecutesAtBoundaries` and `ResumesAtItsLabel` need code in which no byte of
an operand is 49, the opcode of a label: the skip loop takes operands for
opcodes. The programs of `programs` are far below 49 constants, labels and
variables; `CsuaProofs` proves that this is enough.

The count of the pointer stack's size (codegentest.c:152) looks up every byte
of the code in the table of opcodes, operands included, and the table ends at
49. `RunExecutable` is undefined when some byte is no opcode (`CountsInTable`).

### Fairness

Both programs are single processes that run until they end by themselves. The
specifications with liveness have one weak fairness condition on the process's
next step: the operating system lets it go on. (`Csua`, `SvmRun`, `Cgent`,
`Scanner`; the caller of the scanner calls it until it returns `EOF`, as the
parser and `scantest.c` do.) Nothing is assumed about which branch is taken:
`MainEnds` rests on searches that end and on a program of finite length
(`MaxGroups`). `Memory` and `Storage` are libraries and have no fairness:
no caller has to make another call.

## Findings

Five runs show disagreements between the repository's comments or tests and
what the code does. Four have one program each (module `MCDefects`), the
fifth all small programs (`MCCgent`).

1. `defect_skip`: a false `if` whose body stores to variable 1 ends the
   process. The skip loop (svm.c:800) drops operands by the table's `s_size`,
   which is -1 for stores: the operand byte 1 is then read as `push_int`,
   which swallows the label.
2. `defect_sibling`: in `tests/blk_success_2.cs` the initializers of three
   variables `c` in different scopes all go to the first one
   (codegenvisitor.c:767).
3. `defect_nested`: `x = y = printb(x = 3);` pops an empty stack, because the
   inner assignment resets `assign_depth` (codegenvisitor.c:605) for the
   outer ones too.
4. `defect_call`: `tests/prog4.cs` declares `print` without parameters, and
   the machine reads two arguments below the stack (svm.c:760).
5. `defect_scope`: the search of names skips closed blocks by going back two
   checkpoints at a time (util.c:129). When a block is closed inside another,
   or after an empty block, the pairs are wrong: a declaration of a closed
   block is found.

## Theorems

All are about every value of the constants; `tlapm` checks each to the last
leaf.

- **`CodegenProofs`**: `TypeCorrect`, `CodeFitsBuffer`, `LabelsStayFresh`,
  from the inductive invariant `CodegenInv`. The buffer: `Gen` grows by at
  least three bytes when fewer than two and the operand are free, so one growth
  is enough. Labels: `id_stack` is increasing and below `id`. Three more
  theorems are about the code itself, which every handler extends by whole
  instructions (`Grows`):
  - `GeneratedCodeReadable`: what is generated is read in step by the
    disassembler and has only opcodes that it lists.
  - `IfsPairUp` (`LabelsPaired`): gotos and labels pair up. The invariant,
    `Paired`, says that labels below `id` are used once by a goto, and that
    those which no label instruction has are exactly the ones on `id_stack`.
    At the end the stack is empty, since the pending calls still have to close
    as many `if`s as it holds (`Levelled`). The theorem needs `LabelsFit`, at
    most 65536 labels, as the 65537th is written like the first.
  - `FewFitTheTable`: when constants, labels and variables are few (at most
    49 each, `FewOperands`), every byte of the code is in the table.

  Assumptions: `CODE_ALLOC_SIZE >= 3`, a label array of some length, trees
  whose children are trees (`NodesAssumption`), and the shape that the grammar
  gives a list of statements: expressions have no statements in them, and each
  `if` that begins also ends (`StatementsAssumption`).
- **`CsuaProofs`**, first about the machine by itself: `MachineTyped`,
  `FetchesStayInFooter`, `MachineGoesForward`, for every image whatever. The invariant is types and
  `pc < code_size + MARK_SIZE`. An instruction starts inside the code and is
  at most three bytes long; the skip loop may step over the end once. The
  exception is a machine with no code, which fetches a footer byte first:
  205 is neither an opcode nor a label, so it stops.
- **`CsuaProofs`**, then about the two programs together:
  - `CsuaInvariant`: the invariants of generator and machine hold of their
    composition, and once the machine runs, its image is what was generated
    (`Loaded`). For this the executable must be an image at all, that is, both
    sizes that `serialize` counts must be numbers, although one is defined by
    a recursion that jumps: it is shown to have a solution and every solution
    to have numbers as values. `CsuaTyped`, `CsuaInBounds`, `CsuaCode` and
    `CsuaGoesForward` follow for compiled programs from the theorems above.
  - `CsuaStaysInStep`: if no byte of an operand looks like a label
    (`LabelsInStep`), the machine executes only at the starts of instructions
    and a skip ends only behind the label it sought. The proof is that a
    skip may go astray on its way but the label it stops at must be one, and
    is followed by a start. `FewRunInStep`: with few operands this holds from
    beginning to end without that hypothesis, and the machine never meets
    a byte that it does not know.
  - `ModesAreReset` (`ModesReset`): no statement leaves a mode to the next.
    Each pending call moves a mark that counts open calls and assignments and
    says, where it is certain, what the last mode was (`Marks`, `ModeStep`);
    the pending calls lead from the present mark to the one at rest, and the
    mode conforms with the mark. The theorem is about programs in which
    targets, initializers and conditions assign nothing (`Quiet`). Every program of
    the run `programs` is such; the grammar allows others, and for them the
    property is false (`codegenvisitor.c:706`, see the hazards).
  - `ShapedCodeRunsWell` (`NeverUndefined`, `StacksEmptyAtEnd`,
    `GlobalsTyped`, `TagsMatchValues`, `ExitsOnlySkipping`): what a verifier
    of code would be good for. A shape is the number of blocks, each with a
    slot reserved, and the member written to each slot above them, with the
    number of the function where `push_function` wrote it. Code is `Shaped`
    if each instruction finds what it takes in the shape of its place and
    leads to the shape of the next, a label has the shape of every `goto` that
    leads to it, no shape is larger than the two sizes in the file, and the
    end is bare. Then the machine, which checks nothing, does nothing wrong,
    although the skip loop reads operands as opcodes on its way. The invariant
    (`ShapedInv`, with `Held`): the stack fits the shape of `pc` while the
    machine runs, and the shape behind the `goto` it came from while it skips;
    slots agree with their tags and variables with their types. There is one
    lemma for each family of instructions. Hypotheses: few operands, as in
    `FewRunInStep`; the program does not divide by zero (`ZeroDivision`); and
    for the exit, some code, as a machine without code gives up at once.
    `Shaped` itself is what `GeneratedCodeShaped` checks on all programs of
    the run, and what `WellMadeProofs` proves of a class of them. The programs
    of the findings 1 and 2 are shaped; those of 3 and 4 are not, and they are
    undefined.
- **`WellMadeProofs`**: the code generator delivers what `ShapedCodeRunsWell`
  asks for. `WellMadeIsShaped` (`GeneratedCodeShaped`): every program that
  `WellMade` describes compiles to shaped code. `WellMadeRunsWell` puts the
  two together, from trees to the run: with few operands and no division by
  zero, `NeverUndefined`, `StacksEmptyAtEnd`, `GlobalsTyped`,
  `TagsMatchValues` and `ExitsOnlySkipping` hold whichever branches are taken,
  and nothing is assumed of the code except `Countable`. See "From trees to
  shapes" below.
- **`MemoryProofs`**: `ChainStaysLinked`, `ChainStaysOrdered`, for any set of
  addresses. `DoublyLinked` by itself is not inductive: it also holds of a
  chain with a ring of blocks beside it, and unchaining and rechaining in such
  a state breaks it. The invariant adds an order of age that decreases along
  `next`; a block that moves inherits the age of its old address.
  `DumpIsComplete`: the walk of `MEM_dump_memory` ends and shows each live
  block once, whatever was allocated, moved and freed. `ChainImplementsList`
  is the refinement: every call changes the list of live blocks as
  `BlockList` says. The walk is a sequence that starts at the head and follows
  `next`; that there is one, and only one, follows from the order of age.
- **`ScopeProofs`**: `ScopeTypes`, `SearchIsExactWhenFlat`,
  `OwnBlocksUnique`, `FunctionSearchCrashes`, `SearchesDescend`, for any names, types, functions
  and sequence of declarations, uses and blocks. The invariant: checkpoints
  are ordered by the declarations they have seen; blocks that are open began
  after the last end, if the checkpoints are flat; then what is hidden is what
  was declared between the two checkpoints of a pair (`ClosedHidden`), and a
  search has passed only such declarations and those of other names
  (`DeclWalk`). All functions are chained before the first checkpoint, so the
  search for one stays at the tail until the checkpoints run out in pairs,
  which they do if the last end is at an even place (`FuncWalk`). That no block
  has two variables of one name holds for blocks nested in any way (`OwnInv`):
  the checkpoint behind a declaration of the i-th open block has the other
  parity than i (`LevelPlaces`), and a search skips, inside the innermost
  block, at checkpoints of that block's parity only (`InnerWalk`), so it never
  skips one of the block's own declarations.
- **`CheckProofs`**: `CheckImplementsScope`, each step of the mean check is a
  step of `Scope` or leaves its lists alone; `BracesMatchBlocks`, that the ends
  of blocks meet the beginnings the parser chained for them. The invariant says
  what the traversal has yet to call: nodes of trees, and at most one mark of a
  block, whose place tells by how much blocks and braces differ. Assumption
  (`Grammar`): the trees are those of a grammar of expressions and statements,
  each kind with its number of children, and a declaration has a type.
  `AcceptedTyped` and `CrashesAreLogged` say that the rules and casts type
  every accepted program. `AcceptedIsTyped` is not inductive: that a rule is
  given typed operands depends on which handlers ran before. The invariant
  reads the pending calls as moves of a stack of trees (`Stacks`): entering a
  node will have put its tree on it, leaving it takes its children away, and
  what is in `vals` matches, value by value, the trees on the stack now. A call
  is typed only where functions have one name each, as the arguments are
  checked against the first function of the name (`UniqueFunctions`).
  `ProgramImplementsCheck` carries these over to the whole compiler: each step
  of `Cgent` is a step of the check or leaves its state alone
  (`ProgramScopes`, `ProgramTyped`). `MainFreesAll` and `OnlyCheckedGenerated`
  follow from an invariant that says for each phase what can be live.
- **`ScannerProofs`**: `ScannerTypes`, `TextAlwaysFits`, `LinesAreCounted`,
  and the refinement `TokensImplemented`, for any files, keywords and size of
  the buffer. The invariant: the buffer is a window on the file (`Window`),
  what has been read and not pushed back is a prefix of it, and in each loop
  the text is the piece of the file since the lexeme began (`Spot`), so that
  the character which ends the loop makes it the longest. Assumption: files
  are sequences of characters.
- **`StorageProofs`**: `StoragePiecesInside`, `StoragePiecesApart`. The
  invariant is stated in cells: pages are at least as large as the default,
  pieces lie in the used cells, pieces on one page are apart, and pages before
  the last do not change. Bytes follow by multiplication with `CELL_SIZE`.

Statements about every length of a sequence (the walk of the chain, the starts
of instructions, the two counts) are proved without the library's induction
theorems, which take an operator as a parameter and are out of the prover's
reach: from a least counterexample, which exists since `<` on the naturals is
well-founded (`Least` in `CodegenProofs`).

### From trees to shapes

The generator remembers of nested assignments and calls no more than two flags
and a depth, so whether its code is right depends on where they stand.
`WellMade` says where, by sorting the expressions of a program: *plain* ones
neither call nor assign, *calling* ones call, a *chain* is `x = y = e` to a
depth below 65536 (`assign_depth` has 16 bits), an *arg* is an assignment as an
argument, a *busy* call has such arguments and then some that assign nothing.
A statement may be an expression that does not assign, a busy call, or an
assignment of either or of a chain; initializers and conditions assign nothing.
Besides, nodes have children of the types their handlers take, targets are
variables, compound ones ints, calls have the arguments of their functions,
blocks and `if`s nest. An assignment as an operand, a chain with a busy call at
its end (finding 3) and a call with too few arguments (finding 4) are outside.
Every program of `programs` is inside: `MCCsua` computes its sorting, and TLC
checks the assumption `ProgramsWellMade` at each run.

The inductive invariant is `Going`, about every sorting of the program at once.
A *stage* is a shape of the stack, the two flags and the depth, and for each
open `if` the number of blocks when it was entered. `Course` gives each call
that the visitor can have pending the stages it goes between: what entering a
node, its children, notifying an assignment and leaving the node do. It is a
relation, as what an assignment does depends on what surrounds it. `Going` says
that there is a stage `s` such that the pending calls lead, one by one, from
`s` to rest with nothing open (`Onwards`), and that the visitor is at `s`: its
modes are those of `s`, and shapes can be laid along the code generated so far
which end in the shape of `s`, and which for each open `if` give the stack
that its label will have to find (`Matches`, `Fitted`). A handler takes the
first call away and extends the code by instructions that go from its first
stage to its second; entering a node replaces a call by those of its children,
for which `WellMade` is what finds the stages between them (`Passed`).
That a stage is always there is why the invariant is needed: the shape at the
end of the code says nothing of what the calls that are pending will take from it.

At the end nothing is pending, the shapes reach from start to end, and
`LaidShaped` shows three things more: the walk that `Shaped` is defined by
finds these shapes and no others, although it is a set defined by recursion
over code; gotos meet their labels (`IfsPairUp`); and both sizes that
`serialize` counts are at least what the shapes need.

What the two theorems assume, and why:

- `OperandsFit` (at most 65536 constants, labels, variables and natives):
  larger indexes are cut to two bytes. `FewOperands` implies it but for the
  natives.
- `Countable(code)`: the two counts of `serialize` are approximate.
  `count_stack_size` adds up what instructions push, but nothing for
  `push_function`, so before the first call some slot must have been given
  back. A program that consists of `print(1);` gets a stack too small by one.
  `count_pointer_stack_size` reads operands as instructions: where there are
  blocks, no byte of an operand may be 8, `pop_stack_pointer`. This is said of
  the code and not of the trees, as operands are numbered in the order in
  which they occur.
- No division by zero, and few operands, for the run only, as above.

Not proved, only model-checked or out of scope:

- Liveness (`Terminates`, `RunTerminates`, `MainEnds`, `CallsReturn`): TLAPS
  does not handle fairness.
- `ResultIsMeaning`: `Source` is made of RECURSIVE operators, which the prover
  does not accept in any module that a proof uses.
- Nothing is proved of the shapes of programs outside `WellMade`: `codegen`
  generates code for them, and the repository does not say what they mean.

## Not modelled

- The expression grammar of `csua.y`: Bison's tables. Trees in the runs have
  shapes the grammar derives. Its productions for statements, `if` statements
  and blocks are in `MeanCheck`.
- The values of literals: `sscanf` of a number too large for an int is left
  out, as ints are unbounded in the models.
- Characters above 127 are one class, with those no case of `yylex` is for;
  byte 255, which `read` returns as `EOF`, is a class of its own.
- The generated keyword hash: a set of words.
- What the tree printer, the disassembler and the test programs print. The
  tree printer's life is in `Cgent`, what the disassembler accepts in `Csua`;
  the test programs have no state of their own. The mode of `svm` that
  disassembles instead of running only prints.
- What no checked program reaches: the step from an empty list of checkpoints
  (codegenvisitor.c:809; the check has recorded one for each block) and the
  exit for an unknown cast (codegenvisitor.c:74).
- Messages, and the order of check logs.
- The bytes of the executable file: `serialize` and `parse` are mirror images,
  and the model passes the image they agree on.
- Two compilers in one process: `create.c` sets its storage pointer once
  (create.c:14), which is enough for the programs of the repository.
- A condition outside 16 bits: `Svm` cuts it (svm.c:781), but no program of
  the runs has one.

## Plan

1. *(done)* code generator, machine, their composition and meaning; the
   allocator and its list; the storage; invariants of each proved.
2. *(done)* the scanner and its token stream; scopes, the mean check, the
   statements of the parser and the life of `cgent`; the disassembler; the
   search of names and the refinement of the scanner proved.
3. *(done)* `Executable` is always an image, so that the theorems of
   the machine by itself apply to compiled code; the machine stays in step;
   `ModesReset` for quiet trees; the gotos pair up; `Memory` implements
   `BlockList`.
4. *(done)* own-block uniqueness for any nesting, and the braces of the parser.
5. *(done)* the types of accepted programs, and that null types are logged.
6. *(done)* the shape of the stack at each place of the code: a certificate
   that the code's own bytes determine, and that keeps the machine right.
7. *(done)* the generator extends the certificate: `GeneratedCodeShaped` for
   programs whose assignments stand where the mode is known (`WellMade`).
8. What is left: `Countable` from the trees, by a count of the operands in the
   order of the program; and a condition outside 16 bits (svm.c:781).
