# Models and proofs of qa-c

qa-c (`src/`) is a toy C compiler: one process, one thread, one source file in, one assembly file
out. There is nothing concurrent in it, nothing is persisted and no message is sent. What is hard
is that a program passes through seven representations, and that each pass relies on what the one
before it leaves behind without saying so: temporaries that are read once, slots that do not
overlap, registers that are free when they are handed out, labels that are unique. A wrong pass
still produces assembly, and the fifteen programs under `src/tests/sources` see only an exit status.
These modules state what each pass promises and check it against a meaning given independently.

Paths below are relative to `src/` of the repository's root, so `src/allocator.cpp` is the file
`src/src/allocator.cpp` of `PROJECT.json`.

## 1. Inventory

`runfile` (`src/driver.cpp:73`) calls the passes one after the other. No exception is caught: a
`throw` in any pass aborts the compiler and no file is written.

| part | state it keeps | operations | what makes it correct |
|---|---|---|---|
| lexer, `src/lexer.cpp` | static `current`, `start`, `line`, `source` | `lex`, `scanToken` | the longest lexemes, from left to right, with nothing left out |
| parser, `src/parser.cpp`, `src/syntax_utils.cpp` | static `current`, `g_tokens` | `parse*`, `__EqualsSignLookahead` | what is C is accepted with the tree of C's grammar; no operand is lost; it ends on every input |
| parse tree, `include/st.hpp` | - | data | - |
| translation, `src/translate.cpp`, `include/asttraits.hpp` | `Ctx`: `local_variables`, lvalue flag | one `translate` per node | same meaning; reads and writes told apart; a name means the variable of its function |
| syntax tree, `src/ast.cpp` | - | `makeNew*` | nested reads become one read of a depth |
| IR generation, `src/assem.cpp`, `include/assem.hpp` | `Ctx`: temp counter, label counter, variables | `Produce_IR`, `MunchStmt`, `GenerateIRFor*` | the operations return what the tree means; temporaries are set once and read once; jumps have one target |
| IR, `src/qa_ir.cpp` | - | `SizeOf` | - |
| instruction selection, `src/lower_ir.cpp` | `Ctx`: slots, virtual registers, offsets | `LowerIR`, a `LowerInstruction` per operation | the instructions do what the operations do, inside the frame; arguments arrive; code is linear |
| register allocation, `src/allocator.cpp` | `AllocatorContext`: used registers, mapping; intervals, coalescing | `rewrite`, `remap`, `getFirstUse`, `getReg`, `freeReg` | live values have different registers and keep them; none is lost; the rewritten code reads the same values |
| code generation, `src/codegen.cpp` | the text | `Generate` | what the text does is what the instruction says |
| driver, tests | - | `runfile`; fifteen programs | - |

The passes interact only through the data they hand on. The contracts between them, which no type
or comment states, are definitions of this project:

- tree to IR generation: conditions are `==` or `>` (`if`), `<` or `>` (`for`), and what is read through
  is a variable; else it throws. `ProgramsCompile` checks it of the trees the front end makes;
- IR generation to selection: `LinearOperations` (module `QaIR`), checked of the operations
  Produce_IR makes by `TemporariesLinear`, assumed of the selection's input by
  `IRProgramsAssumption`; that the operations never read what nothing has set and that sizes agree
  (`RightFrame` of `LowerIRValues`), checked of what Produce_IR makes by `FramesGoRight`, the premise of
  the theorems on what lowered code computes; and `JumpsResolve` (module `IRMachine`);
- selection to allocation: `WellFormed` and `Linear` (module `QaX86`), proved of the selection's
  output as `CodeIsLinear`, assumed of the allocator's input by `ProgramsAssumption` and, for
  `ValuesKept`, by its premise.

So the contracts make a chain. TLC checks the first link on programs (trees are out of the prover's
reach), and evaluates the whole of `IRProgramsAssumption`, types included, on what Produce_IR makes in
`produced_code`; from there on the links are theorems: whatever linear operations come in, the selection
emits linear code that does what they do, and whatever linear code comes in, the allocator keeps its
values.

Every hazard found, with its line and the property that would catch it, is listed in
`PROJECT.json`. The main ones: registers changing hands between the source and the destination of
one instruction, coalescing with representatives that change, the empty pool, the boundary between
register and stack arguments, the layout of the frame, the size of a temporary, the layout of
branches and loops, freed nodes that are read, temporaries alive across a call, and in the front end
a lookahead that decides what a statement is, brackets that may be missing, and a translation whose
context outlives the function.

## 2. Modules

| module | models |
|---|---|
| `Tokens` | characters and tokens, `include/token.hpp` |
| `Lexer` | `src/lexer.cpp`, a character a step |
| `Tokenizer` | what a lexer promises: the abstract specification `Lexer` implements |
| `LexerProofs` | theorems about `Lexer` |
| `St` | the parse tree, `include/st.hpp`, `src/st.cpp` |
| `Parser` | `src/parser.cpp`, `src/syntax_utils.cpp`, an external declaration a step |
| `Translate` | `src/translate.cpp`, `include/asttraits.hpp`, an external declaration a step |
| `FrontEnd` | `runfile` of `src/driver.cpp` from the text to the syntax tree |
| `QaX86` | `include/qa_x86.hpp`, `src/qa_x86.cpp`: registers, operands, instructions; the contracts `WellFormed`, `Linear` |
| `Allocator` | `src/allocator.cpp`, one action per iteration of each pass |
| `RegisterFile` | what register allocation promises: the abstract specification `Allocator` implements |
| `AllocatorValues` | the allocator beside two machines, one on the lowered and one on the rewritten frame |
| `AllocatorProofs` | theorems about `Allocator` |
| `AllocatorValuesProofs` | theorems about `AllocatorValues` |
| `QaIR` | `include/qa_ir.hpp`: values and operations; the contract `LinearOperations` |
| `LowerIR` | `src/lower_ir.cpp`: an operation a step, a call an argument a step |
| `LowerIRProofs` | theorems about `LowerIR`: types, registers and slots |
| `LowerIRLinearProofs` | the theorem that lowered code is linear |
| `LowerIRValues` | the lowering beside two machines, one on the operations and one on the instructions |
| `MachineProofs` | lemmas about the machine of `LowerIRValues`: running code, loads and stores, following pointers |
| `LoweredCodeProofs` | lemmas about what each sequence the lowering emits does to that machine |
| `LowerIRValuesProofs` | theorems about `LowerIRValues`: lowered code simulates the operations |
| `Ast` | `src/ast.cpp`: the constructors the syntax tree is made with |
| `ProduceIR` | `src/assem.cpp` as operators on its `Ctx` |
| `CSemantics` | what a syntax tree means in C: the reference, no code of the repository |
| `IRMachine` | executes the operations of `ProduceIR` step by step |
| `Codegen` | `src/codegen.cpp`: the lines of the text |
| `Processor` | the x86-64 that runs the text, no code of the repository |
| `Compiler` | `runfile` of `src/driver.cpp` from `Produce_IR` to `Generate`, then the processor |
| `MC*` | inputs for TLC: `MCFrames` (frames), `MCPrograms` (C programs), `MCAllocator`, `MCLowerIR`, `MCProduceIR`, `MCProducedCode`, `MCCompiler`, `MCFrontEnd` |

### Lexer, Parser, Translate and FrontEnd

`Lexer` has the code's `source`, `start`, `current` and `tokens`; `scanning` is the loop of
`scanToken` that runs. Each case of the `switch` is an action and so is an iteration of each loop.
A lexeme is a part of the text, so TLC runs it on real C. `Tokenizer` knows no loops: it takes the
longest lexeme that begins at `position`, and `LexesByLongestMatch` says that this is what the loops
do.

In `Parser` the functions `parse*` are operators from the place of the next token to a tree and the
place after it; place 0 is an exception. `nodes` grows by an external declaration a step. `Consume`
and `Match` keep the code's difference: the closing bracket of a call, a parameter list may be
missing, and after an empty one a second is taken (`src/parser.cpp:108, 166`). `stoi` throws beyond
`MaxInt` and stops at a dot.

In `Translate` the operators take the `Ctx` and return it, as in `ProduceIR`. `ctx` is one for the whole
program: `local_variables` keeps the names of the functions before, `lvalue` is what the last
statement has left. The context points to the `Var` node of a parameter, which is destroyed before
the body is translated (`src/translate.cpp:249-250`): each of `AnyType` may be read there, one type
for each parameter of a function.

`FrontEnd` instantiates `Parser` and `Translate` on the variables of the lexer and of each other. Beside
a text stands the `program` it was written from, a syntax tree as a reader of C would have made it;
`MeaningKept` compares the two by what they return (`CSemantics`), so a tree may differ in
shape, as it does where a condition is turned round. `CSemantics` reads through the node of a write where
a value is asked for, so `MeaningKept` does not tell a read from a write there; `ProgramsCompile` asks
Produce_IR, which takes such a node if it stands alone and throws if it is nested. That the code made
of one that stands alone reads once is part of `ReturnsWhatCReturns` and `ExitsWithMeaning`
(`ReadsTaken` of `MCPrograms`).

### Allocator

`frames`, `fi`, `idx` are the argument and the two loop positions; `pass` names the loop that runs
("getFirstUse", "remap", "merge", "rewrite"), or "done" or "throw". `firstUse`, `lastUse`,
`newFirstUsed`, `remapped`, `usedRegs`, `mapping`, `newInstructions`, `newFrames` are the variables
of the code. A map is a function with a value for "not in it" (`NotFound`, `NoReg`, `NoOperand`);
positions count from 1 where the code counts from 0. The keys of `remapped` and `mapping` are ids,
as `operator<` of the code compares ids only. Rewriting an instruction is two actions, `RewriteSrc`
and `RewriteDst`, because `process_register` is called twice and a register may be given back in
the first call and handed out in the second. `Throw` is `getReg` with nothing free. `getFirstUse`'s
order of source and destination is not modelled: both get one position.

`AllocatorValues` runs `Execute` on each instruction as it is finished: a value is the position of
the instruction that computed it. A call destroys the general registers and a setcc rax
(`src/codegen.cpp:93-112`); `clobbered` records when that hits a live value.

### LowerIR

`ctx` is the code's `Ctx` with the instructions emitted so far; `lf`, `op` are the loop positions,
`passed` the arguments of the current call already passed. `Lower` has one operator per overload of
`LowerInstruction`; `toLocation`, `ensureRegister`, `Register_To_Location`, `AllocateNew`,
`NewRegister` keep their names. `std::variant` is the `kind` of a record, `std::get` on the wrong
alternative and `at` on a missing key set `thrown`. The templates over the alternatives of a value
are the case distinctions of `LowerArth`; the sequences it ends in are `Create_Arth_Instruction`.
The loop of a read through several pointers, which emits one instruction an iteration, is
`FollowPointer`: the registers it numbers and the instructions it appends, all at once.
`Instruction` and `Operation` are typed like the structs: which kind of operand each field may hold.

`LowerIRValues` evaluates the operations (`ir`) beside the code emitted so far: `x86` is the machine
after that code. Values are symbolic. The stack frame is bytes: a store writes each of its bytes and
a load of bytes that are not those of one store, in order, is undefined, so overlapping slots and wrong
widths show. The caller has pushed `PushedOnEntry` parameters. Both machines record a trace of calls,
labels, jumps and returns. The text is executed from top to bottom: which way a jump goes is
`Compiler`'s, here the jumps are events that must be the same.

Operations can go wrong (`GoesRight` fails): read a temporary or a variable nothing has set, follow a
pointer to where no variable of that size is, compare or move between sizes, jump without a comparison
before. Then `ir.defined` is FALSE for the rest of the frame and nothing is promised of the code.

### ProduceIR and IRMachine

The operators take the `Ctx` and return it with the operations appended. What throws, fails an
assertion or follows a null pointer sets `thrown`. The `Ctx` keeps pointers to the `Var` nodes of
parameters after they are destroyed (`src/assem.cpp:287, 295`), which is undefined behaviour: the
machine's initial state chooses between the two readings a build gives, the old contents ("own")
and the node made last ("last"). The version of a variable, which nothing reads, is left out.

`IRMachine` has an activation per call with its own temporaries and variables, and executes one
operation a step. It passes arguments by position: how the target passes them is `LowerIR`'s.

### Codegen, Processor and Compiler

`generateASMForInstruction` turns an instruction into lines with the operands and widths of the
code; a `Mov` between two names of one register gives none. Local labels belong to their function,
as in the assembler. `Compiler` instantiates `LowerIR` and `Allocator` on its own variables and
starts each pass on what the one before has made, the allocator with the real `general_regs`.

In `Processor` a register is a pair of 32-bit halves and memory is made of dwords. Stack addresses
have an upper half that is not zero, so a pointer cut to 32 bits cannot be used; an access outside
the stack, a base register of four bytes or a `ret` to what is no line stops the machine, and
`CompiledProgramExits` shows it. `calls` is a ghost: what each caller must find again.

## 3. Runs

All runs finish in about a minute. The system stops when the input is compiled, so deadlock is not
an error in any of them.

| run | input | states | shows |
|---|---|---|---|
| `allocator` | every frame of 4 instructions and every pair of frames of 2, over 3 virtual and 2 general registers | 833 000 | `TypeOK`, `NoInterference`, `UsedExact`, `ThrowsOnlyWhenFull`, `StableRegister`, `ImplementsRegisterFile`, `Termination`; on the linear ones `ValuesKept`: the rewritten code reads the values the lowered code reads |
| `calls_clobber` | linear frames, 3 general registers | violation | a live value sits in a register a call destroys |
| `lower_ir` | 3 parameters and every body of up to 3 operations; 8 parameters and 1 operation; 2 frames | 403 000 | `StateSimulated`, `TraceSimulated`, `ArgumentsDelivered`, `StaysInFrame`, `LocationsDistinct`, `CodeIsLinear`, `LowerTypeOK` |
| `system_v_order` | bodies of up to 2 operations | violation | arguments are passed in the reverse order of the parameters |
| `produce_ir` | 4602 programs of 4 functions | 52 000 | `ReturnsWhatCReturns`, `CodeReturns`, `TemporariesLinear`, `JumpsResolve` |
| `converted_if` | flipped conditions | violation | the first branch runs on into the second |
| `produced_code` | the frames of 1046 of those programs | 17 000 | `FramesGoRight`: what Produce_IR really makes never goes wrong; and for it `StateSimulated`, `TraceSimulated`, `CodeIsLinear`, `LowerTermination` |
| `nested_deref` | `y = **q` | violation | eight bytes are stored into an int |
| `compiled_programs` | 679 programs | 93 000 | `ExitsWithMeaning`, `CompiledProgramExits`, `ReturnsToCaller`, `StoresAboveStackPointer`, `OperandSizesAgree`: the text of the whole compiler exits with what main returns |
| `pushed_arguments` | `return sum7(1, .., 7);` as main | violation | `pop rbp` takes a pushed argument |
| `front_end` | 12 334 texts, 986 of them programs written down | 195 000 | `LexesByLongestMatch`, `TokensKept`, `AcceptsWritten`, `MeaningKept`, `VariablesTyped`, `FrontEndEnds`, `LexTypeOK`; of 770 programs whose comparisons Produce_IR implements, `ProgramsCompile` |
| `nested_reads` | `y = **q`, `y = *&x`, `y = *&*p` | violation | Produce_IR throws on what `*&*p` has become |

### Bounds and restrictions of the inputs

- *Allocator.* Three values and two registers are the least with which a value waits for a
  register, is denied one, shares a class with another, and takes over a register another gives back in
  the same instruction. Four instructions hold two coalesced moves with a use on each side. The
  opcodes are one for each way of naming registers; the theorems need no bound.
- *`Linear` inputs* for `ValuesKept`: coalescing is wrong for a source that is used after the move;
  the lowering never emits one (`CodeIsLinearCorrect`).
- *ValuesKept* says nothing once a call or a setcc has hit a live value: the first is the finding of
  `calls_clobber`, the second is described below.
- *Lowering.* Bodies of three operations hold an address, a store through it and a read; two
  temporaries alive at once; seven arguments and eight parameters cross the boundary at six, so
  `PushedOnEntry` is 2. Every
  variable has one size, as in a program without a second declaration of a name. Nothing but an
  address goes into a pointer. Two pointer hops are taken only from what the caller has passed. The
  theorems need none of this but that the frame does not go wrong (`RightFrame`).
- *Programs.* `MCPrograms` declares two variables, runs one or two statements out of assignments,
  calls of three functions, conditionals, loops with nested conditionals, and writes through
  pointers, and reads through pointers that were taken for writes. Conditionals return in the first branch or have no second, the shape in which the code is
  right; the others are `converted_if`. Reads through two pointers are in `produce_ir`, whose values
  have no width, and in `nested_deref`. Parameters of a function have one type, so that the two
  readings of freed nodes agree. Loops run at most three times; `MaxLoops` bounds the reference, not
  the machine.
- *Compiled programs* (`MCCompiler`) are three of `tests/sources` that push arguments or branch, with
  recursion, writes through a pointer of the caller, pushes inside a loop, and the assignments,
  conditionals and loops of `MCPrograms` without calls. They keep clear of the findings: functions in
  which the order of the arguments does not matter, no value kept across a call, first branches that
  return, variables where arguments are pushed. They also keep clear of a value that waits in rax
  while a setcc writes al, as in `(x + y) - (x == 2)`. Numbers stay below 2^31; `StackTop` and
  `StackSize` make room for the deepest recursion. `TempIds` and `VirtIds` are larger than what any
  of the programs uses.

- *Written programs* (`MCFrontEnd`) have every expression of two operators over a variable and a
  number with all signs and comparisons, conditions of every kind after statements that leave the
  lvalue flag either way, reads and writes through one and two pointers, functions that reuse each
  other's names with other types, and loops without a condition or an update. Brackets stand where C
  asks for them and nowhere else, so precedence shows; each is written without blanks, and some with
  blanks and comments between any two lexemes. They keep clear of what the compiler's C does not
  have: calls without arguments inside an expression, brackets to the left of `=`, chained
  comparisons, assignments inside expressions, statements that begin with neither a name nor `*`, a name
  declared twice in a function and nested reads in a condition behind a declaration (the end of
  section 5), and reads through the address of a read (`nested_reads`). `ProgramsCompile` asks
  nothing of a program with `<` outside the condition of a loop, which Produce_IR does not implement.
- *Other texts* are every sequence of `PieceCount` pieces of an expression or of a body and of
  `CharacterCount` characters. The pieces of an expression stand apart where two words would grow
  together; the characters are joined as they are, so names that begin with `if`, numbers of several digits and dots
  in and behind them occur, and a character that belongs to no lexeme. Three pieces make a
  call with a missing bracket, a chain of signs and an `=` without a left side; one more is allowed of the
  pieces that nest. A number or a bracket directly before an opening one is left out (`NoCall`): the
  parser takes `5(1)` for a call of a function without a name, and the 5 is lost. No piece is a number with
  a dot, which the parser reads up to the dot; the texts of characters have such numbers for the lexer, and
  the parser refuses them before it comes to one. `MaxInt` is 99, and the piece `100` is one too many.

### Fairness

One thread runs the compiler and nothing it waits for can fail to come: `WF` of the whole next-state
relation in `Spec`, `SpecValues`, `LowerSpec`, `LowerSpecValues` and `CompilerSpec`. `MachineSpec` has the same for the processor
that runs the compiled operations. No action is preferred. `FrontSpec` has `WF` of the lexer's and of
the parser's steps, one after the other, for `FrontEndEnds`; the translation is a recursion over a
finite tree, and fairness would say nothing of it.

## 4. Proofs

### Register allocation

`AllocatorProofs` proves, for every finite or infinite set of ids, every list of distinct general
registers (also the empty one) and every set of programs of well-formed frames:

- `TypeCorrect`, `NoInterferenceCorrect`, `UsedExactCorrect`, `ThrowsOnlyWhenFullCorrect`,
  `StableRegisterCorrect`: the safety properties of `allocator`;
- `Refinement`: `Spec => ImplementsRegisterFile`, every step of the allocator is a step of the
  abstract register file or leaves it alone.

They rest on `ProgramsAssumption` (a virtual register is a destination before it is a source, a part
of `CodeIsLinear`), `GeneralRegsAssumption` and `VirtIdAssumption`.

None of the properties is inductive: that two live values differ while rewriting depends on the
intervals the first pass found and the coalescing the second did. `Invariant` proves the inductive
one, `IInv`, with a part for each pass:

1. `UsesFound`: the interval of a register covers its uses so far and begins and ends at one;
2. `Coalescing`: a representative was seen as a source and is never coalesced itself, so a class is
   one step deep, which is why looking a representative up once is enough;
3. `Widened`: when the merge is done the interval of a representative covers every use of its class.
   It must also *begin* and *end* at a use of the class: a register is given back only where the
   rewriting comes past one;
4. `Allocated`: a value has a register from its first use on, live values have different ones,
   `usedRegs` is exactly theirs, and after the source of an instruction was rewritten its register is
   not another live value's.

The lemmas have one step for each action; `LiveStep` says what a step does to the set of live
values, and the action property and the refinement follow from it.

`AllocatorValuesProofs` proves what all this is for:

- `ValuesKeptCorrect`: `SpecValues => []ValuesKept`, for every program, every set of ids and every
  list of general registers that carry no parameter (`DisjointRegsAssumption`, the comment at
  `include/qa_x86.hpp:40`);
- `NoVirtualRegisterLeft`: rewritten frames name base registers only, and every instruction still
  has the operands its struct takes.

That live values have different registers is half of the first: the registers of one class share
theirs, although each has a value of its own. `ValuesInv` strengthens `IInv` by the other half.
`ClassesOrdered` says that in a linear frame the uses of two registers of a class do not overlap;
when `remap` puts the destination of a move behind its source, nothing of the class is used after
the source (the move is the last to name it) and nothing of it before the destination (the move is
the first), and `SeenBefore` gives the case of registers the pass has not come to. `Rewritten` says
what `process_register` has made of the source while the destination waits. `ValuesAgree` relates
the two machines between instructions: a register that will still be read (`Wanted`) is in the
register of its representative with its value, parameter registers are what they were, and after a
call its result is where the next instruction reads it. Both conditions of `ValuesKept` are needed:
with a frame that is not linear coalescing is wrong, and with a call or a setcc over a live value
(`clobbered`) the value is gone.

### Instruction selection

`LowerIRProofs` proves, for every set of temporaries and of names and every set of programs of linear
operations (`IRProgramsAssumption`):

- `LowerTypeCorrect`: the positions stay in the program, every instruction has the operands its
  struct takes, and no instruction names a virtual register the `Ctx` has not numbered;
- `LocationsDistinctCorrect`: two temporaries never share a virtual register and two variables never
  a byte; locals are inside the frame and pushed parameters above the return address. A frame in
  which a name has two sizes (`OneSize`) is left out: there the slot of the first is too small for the
  second (`src/lower_ir.cpp:104`), as section 3 says.

`LocationsDistinct` is not inductive. `SlotsOK` says where the free space begins: every local has its
slot between rbp and `stackOffset`, every pushed parameter between 16 and
`stackPassedParameterOffset` bytes above rbp, whether or not a name has one size, and no two slots
overlap if it has. `ContextOK` says that no number is used twice, in the map
of temporaries or in the code. The operators of `LowerIR` are compositions of a few that append,
number or place; each has a lemma that its result `Follows` its argument (is a context, and keeps
what was there), and the lemmas of the operations only compose them. The loop of a read through
several pointers needs no induction, because `FollowPointer` gives instruction `i` directly.

`LowerIRLinearProofs` proves `CodeIsLinearCorrect`: every finished frame is `WellFormed` and
`Linear`. `LinearInv` says the same of the code so far and, in `TempsOK`, where each temporary of the
frame stands: its register is `Fresh` (named nowhere) until the operation that sets it is lowered,
`Ready` (set, and not yet the source of a move the allocator may coalesce) until its one reader is
lowered, and after that nothing is promised of it or needed. Inside a call this holds after each
argument, counted from the last, because the pass takes them in that order. A lemma for each operator says that linear
code stays linear and which registers it touches (`Grows`); the registers of other temporaries are
left alone because their numbers differ (`ContextOK`). That a base register which carries no
parameter is read only behind the call that set it is the third part of `Linear`, and `FinishCall`
is the one place that reads one.

`LowerIRValuesProofs` proves what the emitted code does, for every program of linear operations, any
number of locals, arguments and parameters (`PushedOnEntry`, of which `PushedAssumption` only says that it
is a number) and any depth of a read through pointers:

- `StateSimulatedCorrect`: after every operation the registers and the bytes the `Ctx` has given out
  hold what the temporaries and the variables hold;
- `TraceSimulatedCorrect`: the code calls, jumps, compares and returns as the operations do;
- `ArgumentsDeliveredCorrect`: a callee finds every argument as often as the call has it, and nothing else;
- `StaysInFrameCorrect`: no store reaches the saved rbp, the return address, what is above the
  parameters, or what is below the frame.

The premise of all four is `RightFrame`: the operations have not gone wrong and a name has one size.
`FramesGoRight` checks that what Produce_IR makes meets it, so it is not empty; `y = **q` does not
(`nested_deref`), and neither would a compiler that gave a temporary another size than its source.

None of the four is inductive. The proof is a forward simulation, and `SimInv` its invariant: `LinearInv`,
and for a frame that has not gone wrong

1. `SizesOK`: the register of a temporary has its size, or a store would write too few bytes of it;
2. `State`: temporaries and variables are held, memory outside is the same, the caller's bytes are
   kept, and of the parameters the caller has pushed those not yet defined are where
   `stackPassedParameterOffset` will look for them (`FrameKept`);
3. `TracesAgree`: the events are the same, and of each call `Delivered` says *where* each argument is,
   which counts of occurrences alone would not let the next argument keep;
4. between operations (`Between`): the parameter registers hold the parameters until an addition or a
   call takes them, the flags are those of the last comparison, and nothing is pushed. A conditional
   jump relies on the flags an operation earlier;
5. inside a call (`Passing`): the arguments passed so far are in their registers or pushed. An argument
   that is itself a parameter register throws (`HardNotPassed`), so none is overwritten before it is read.

`MachineProofs` reasons about the machine: `Run` of appended code is `Run` of the code and then of what is
appended, one instruction at a time. `LoweredCodeProofs` has a lemma for each sequence an operator of
`LowerIR` emits, saying what it leaves in which register or byte and what it does not touch;
`LowerIRValuesProofs` then has a lemma for each operation, that it keeps `Sim`. That scratch registers are
nobody's rests on `ContextOK`, and that a store to one variable leaves the others alone on `SlotsOK`, so
the invariants of the two modules before are needed here as well. `ArgumentsDelivered` follows from
`Delivered` because the places are a bijection between parameters and arguments, so the positions of
one value are as many on both sides.

`Run` and `Followed` are recursive functions on `0..n`. The library's induction theorems cannot be used, since
they take an operator; induction on a *set* of numbers can: `SetInduction`, proved from the
library's fact that `<` is well-founded, says that a set with 0 and closed under successor is `Nat`. So
these functions can be reasoned about.

Nothing is promised after an exception: `thrown` ends the pass, no frame is finished.

### Lexer

`LexerProofs` proves, for every set of texts and every choice of letters and digits:

- `LexTypeCorrect`: the positions stay in the text, also where the code looks two characters ahead;
- `LexerRefinement`: `LexSpec => LexesByLongestMatch`, the lexer implements `Tokenizer`.

They rest on `CharacterAssumption` (the classes of characters have nothing in common) and
`TextsAssumption` (a part of a text is a string and its length a number, which the prover knows of
sequences only). Inside a loop nothing says yet what the lexeme will be; `ReadSoFar`, proved with the types in
`LexInvariant`, says what the loop has read since `start`: a beginning of a comment, of a word, of a number
or of a fraction. The dot of a fraction is read before the digit behind it, so `InFraction_Read` has
to remember that this digit is there: without it `1.` could be returned as a number. `FirstCharacter`
says which lexemes can begin with a character, and the lemmas `OperatorEnds`, `CommentEnds`,
`WordEnds`, `NumberEnds`, `IntegerEnds`, `FractionEnds` that where a loop stops no longer lexeme
exists. A step of a loop that goes on is a step the tokenizer does not see, one that returns is its `Take`.

### Checked only

- Liveness (`Termination`, `LowerTermination`, `CodeReturns`, `CompiledProgramExits`, `FrontEndEnds`),
  which is beyond the prover.
- `Parser`, `Translate`, `ProduceIR`, `CSemantics`, `IRMachine`, and with them `FrontEnd` and `Compiler`:
  they visit trees with RECURSIVE operators, about which the prover cannot reason. So
  `TemporariesLinear` and `FramesGoRight`, the first link of the chain, are checked only, and so are
  `ReturnsWhatCReturns` and `JumpsResolve`; `ExitsWithMeaning`, `ReturnsToCaller`,
  `StoresAboveStackPointer` and `OperandSizesAgree` of the whole compiler; and `TokensKept`,
  `AcceptsWritten`, `MeaningKept`, `ProgramsCompile` and `VariablesTyped` of the front end.

## 5. Findings

1. **Calls destroy live temporaries** (`calls_clobber`). `include/qa_x86.hpp:40` says the general
   registers are disjoint from the parameter registers "so that calls don't clobber them"; the
   callee uses the same general registers and nobody saves them.
2. **Arguments are reversed** (`system_v_order`). `include/qa_x86.hpp:35` names the System V order;
   `src/lower_ir.cpp:429` passes the last argument first, the callee reads its first parameter there.
   The functions of the tests are symmetric in the parameters they use, so no test shows it.
3. **Branches run into each other** (`converted_if`). After the first branch of an `if` there is no
   jump past the second (`src/assem.cpp:229-237`); with a condition that was flipped the branch
   for "else" is first.
4. **Reads through two pointers** (`nested_deref`). The temporary has the size of one level of the
   type (`src/assem.cpp:84`), and the eight bytes it stores overwrite a neighbour.
5. **Pushed arguments stay** (`pushed_arguments`). Nothing pops them; `leave` makes up for it, but a
   function without variables ends with `pop rbp` (`src/codegen.cpp:198`) and does not return.
6. **A read through an address** (`nested_reads`). `src/ast.cpp:96-97` says that the copy
   `makeNewMemRead` makes "works now for nested stuff"; of `*&*p` it copies the type of the read and
   not what is read, and Produce_IR throws.

Two more disagreements with C are kept out of the inputs of the passing runs, and have inputs of their own
that can be put into a `.cfg` in place of those it names:

- *Conditions behind a declaration.* A declaration leaves the lvalue flag up (`src/translate.cpp:194`) and
  a condition does not take it down: the stars of `if (**q == 3)` become writes, one inside the other,
  and so does the star of `if (*&x)`; Produce_IR throws on what it compiles behind an assignment. With
  `ConditionInputs` and `ConditionTexts` in `nested_reads.cfg`, `NestedReadsCompile` is violated.
- *A name declared twice.* A slot is found by the name (`src/lower_ir.cpp:104`), so a pointer declared in
  a block under the name of an int is stored into the four bytes of the int and over the saved rbp. With
  `ShadowedName` in `pushed_arguments.cfg`, `ReturnsToCaller` is violated.

## 6. Not modelled, and why

- The printing of every representation, the messages with their line numbers, reading and writing
  files, the options: nothing depends on them.
- A second call of `lex` or `parse` in one process, which would begin where the first has ended: the
  cursors are static and nothing resets them, but `runfile` calls each once.
- NUL characters inside a text, which the lexer takes for blanks.
- The operand and node kinds that no pass makes (`AddMI`, `SubMI`, `Seq`, `Jump`, `Temp`).
- The test runner and its scripts: they compile, link and run programs and compare the exit status.
- A freed node that reads differently each time within one function; `Translate` reads it once.
- The whole compiler in one behaviour, from the text to the processor: `FrontEnd` ends with a
  syntax tree that means what the text means, `Compiler` begins with one.

Worth proving next: lemmas about the lines of `Codegen`, whose operators are not recursive, and with
them that the processor does what the machine of `LowerIRValues` does; and that selection and
allocation compose: that a rewritten frame simulates the operations it came from.
