# A verification of the MiniJava compiler and its virtual machine

The repository is a compiler from MiniJava to bytecode (`src/src/main.cpp` and the
directories beside it) and a virtual machine that runs the bytecode
(`src/src/vm/vm.cpp`). This directory holds TLA+ models of both, the TLC
configurations that check them on small instances, and proofs for TLAPS of what
holds for every program. `PROJECT.json` lists the components, the runs, the
mutants, the findings, the hazards, the theorems, and for every definition the
lines it models.

1. [The system](#the-system)
2. [The modules](#the-modules)
3. [What the runs check](#what-the-runs-check)
4. [What is proved](#what-is-proved)
5. [Findings](#findings)
6. [What is not modelled](#what-is-not-modelled)
7. [Plan](#plan)

## The system

Compiler and machine are two sequential programs: no threads, no callbacks, no
messages. What is hard in them is **agreement between parts written apart** (the
generator links blocks, the passes rewrite them, the code generator follows the
links and the machine follows the jumps; one program writes a file that the other
reads), **order** (of evaluation, of pushes and stores, of declarations and uses,
of messages), **state that is stale when used** (the tokens looked ahead, the
current block, known constants, the current scope, the output of an earlier
compile), **failure half-way** (an operand with an error, a file that is not
written to its end, an exception that nothing catches), and **long legal
sequences** (recursion on one shared stack). A wrong link is silent until a program
takes the path that uses it.

```
 text -> lexer -> parser -> syntax tree
                              |
   symbol table <- declare ---+        SymbolTableVisitor   (gate: errors)
        ^    ^---- check -----+        TypeCheckVisitor     (gate: errors)
        |    ^---- generate --+        IRGenerationVisitor -> control flow graph
        |                                  constant folding, jump folding
        +--------- emit -------------- CFG::generateBytecode -> bytecode file
                                                                    |
                                                       virtual machine
```

| Component | State | Operations | Hard | Correct when |
|---|---|---|---|---|
| Driver (`main.cpp`) | output directory, streams, exit code | load, lex, parse, table, types, generate, write | streams that are not checked, exits between two files | the exit status is the one due to the source; what is refused leaves the earlier program alone |
| Lexer (`lexing/`) | position, line, tokens looked at | next, peek, eof, iterate, reset | several clients of one stream, lines inside comments | tokens are the longest matches; every unrecognized character is reported once |
| Parser (`parsing/`) | lookahead buffer, "error reported" | one function per production | precedence, lookahead over invalid tokens, one report | it accepts the grammar, and the tree is the one the text stands for |
| Symbol table (`semantic/SymbolTable`, `Scope`, `Class`, `Method`) | tree of scopes, current scope, records | enter, exit, add, look up, resolve | four passes share its position; scopes are found again by name | it equals the program's declarations in every pass, and the position is restored |
| Type checker (`semantic/TypeCheckVisitor`) | type of every node, error count | visit of every kind of node | errors that hide others; names with several roles | accepted programs do not go wrong |
| IR generation (`ir/IRGenerationVisitor`, `CFG`) | blocks, current block, counters, values | visit of every kind of node | blocks move while operands are evaluated | exits are jumps; temporaries are written before they are read |
| Constant folding | work list, known constants | visit a block, fold an instruction | what to forget, and when | the program prints the same |
| Jump folding | blocks left, names | fold or keep an instruction | label and exit are two sources of one truth | exits still are the jumps |
| Code generator (`CFG::generateBytecode`, `BBlock`) | blocks generated | prologue, code, STOP | the calling convention | what it emits is well-formed and balanced |
| Serializer (`util/serialize`) | a stream | write and read | short files | what is read is what was written |
| Virtual machine (`vm/vm.cpp`) | activations, data stack, heap | one per opcode | one stack for all activations; faults half-way | no control fault, no underflow; the operands of a caller survive its calls |

Two representations of control flow coexist. The *labels* in the code (`JMP`,
`CJMP`) are what the machine follows; the *exits* of a block (`trueExit`,
`falseExit`) are what the passes and the code generator follow to find the blocks
that exist. Nothing in the code compares them: `ExitsAgree` and `PassesCoherent`
do.

The other contract that no code states is the data stack. A call pushes arguments
and receiver in the caller's code, the callee's prologue stores them in its own,
and a bytecode file says nowhere how many there are. `StackDiscipline` is that
contract: a *certificate* that gives the height of the stack before every
instruction, and local rules that make it right.

## The modules

Names are sequences: an identifier is `<<"x">>`, a method `<<"C", "m">>`, a
temporary `<<"_t", n>>`, a generated label `<<"block", n>>`, so a formatted name
and its parts stay apart and equal names are equal sequences. Definitions whose
comment begins "A slip" are not part of the model: they are the wrong versions
that show the properties can fail.

**The machine.**

- `BytecodeFile` and `Delivery`: the file between compiler and machine.
  `BytecodeFile` writes a program to bytes and reads it back; a number is `IntBytes`
  digits of base `Base` (8 and 256 in the code), each worth its `Place`, and what is read past the end is
  what a C++ stream gives there: the old value, zero, an empty text. `Delivery` runs
  the program as it was generated, then the machine on the first bytes of its file.
- `Bytecode`: opcodes, the number of values each takes, instructions.
- `Arithmetic`: machine integers in two's complement of any width (`HalfWord` is
  2^63 in the code; the build passes no optimisation flags, so overflow wraps),
  division toward zero, and the two divisions that end the process with a signal
  (`Traps`).
- `VM`: the virtual machine. `current` is the activation that runs (method, block,
  program counter, `this`, locals), `activations` the suspended ones, `dataStack`
  the stack they share, `objects` and `arrays` the heap, `output` what was
  printed. There is one action per opcode, which models the whole case of
  `VM::run`: the fetch with its exceptions, the pops in their order, every throw.
  `status` says how a run ended; an exception, a signal and `STOP` are different
  outcomes. `WellFormed` and `NoControlFault` are there.
- `StackDiscipline`: certificates (the constant `Heights`), `Verified`, and
  `NoUnderflow`. `Certificates` computes a certificate; it is not trusted, since
  `Certified` checks what it returns.
- `OwnStacks`: a machine that gives every activation a stack of its own, which is
  what a compiler counts on; it models no code. `SharedStack` adds to the machine a
  history variable, `bottoms`, that notes how much of `dataStack` lies below each
  activation, and states that `VM` implements `OwnStacks` on verified programs
  (`OwnStackEach`).

**The compiler's back end.**

- `FlowGraph`: instructions of the intermediate code, what they read and define,
  the bytecode they become; blocks, exits, targets, reachability, the blocks that are
  emitted; the code generator, a function from graphs to programs
  (`GenerateBytecode`); and, at its end, properties of graphs, which model no code.
- `Ast` and `IRGen`: syntax trees, and the visitor that turns them into a graph.
  The visitor's C++ call stack is `agenda`, the visits and continuations still to
  come; the operands held in C++ locals are `values`. An action is the code
  between two calls of `eval`: all it does to the graph, the current block and
  the counters. A continuation carries what the C++ frame remembers, such as the
  block in which a right operand *started*.
- `Folding` (what constant folding does to one instruction), `ConstantFolding` and
  `JumpFolding` (the two passes, one action per block taken, instruction handled,
  block left). Variables known to the pass are `env`; `HalfInt` is 2^31 in the
  code, `HalfWord` is large enough for the pass not to overflow.
- `Toolchain`: all of these in the order of `main.cpp`, ending with `VM` on the
  program that was emitted. `phase` says which part runs.
- `Meaning`: an interpreter for MiniJava written from the language and used by
  nothing but the property `PrintsItsMeaning`, as the reference for what a program
  prints.

**The front end.**

- `Lexer`: the operations a client has (`Next`, `Peek`, `Eof`, the iterator's steps,
  `Reset`), each an action, over a source that is a sequence of characters of
  classes (letters, digits, each operator character, line ends, characters that
  start nothing). `la` is the vector of tokens looked at. `LexerProperties` states
  the rules of `docs/lexer_legacy_behavior.md` as longest matches.
- `Parser`: one action per function, or per part of a function between two looks at
  the next token. The C++ call stack is `agenda`: what a function has still to do,
  as tasks (call, expect a token, make a node); the nodes in C++ locals are `values`.
  Tokens are delivered by `Peek`, never before a function asks: which lexical errors
  the lexer has reported when a syntax error is reported depends on it. A text is a
  sequence of choices that are made as the lexer gets there, so a run over a few
  texts with choices stands for their product.
- `Grammar` is `docs/grammar.g` with Earley's recognizer, `Reading` a second way to
  find the tree of a text, by cutting it at brackets and operators;
  `ParserProperties` runs the recognizer beside the parser. Both are references and
  model no code.
- `TypeCheck`: the visits of `TypeCheckVisitor` over the trees that `Parser` builds
  and a table filled as `Semantics` fills it; every error path is an alternative.
  The visitor rewrites what it learns into the tree (the class of a receiver), which
  the results carry. `TypeProperties` has typing rules written per node instead of
  per visit, and the values that an accepted program's variables can come to hold.
- `Driver`: `main`, from the creation of the output directory to the return, with the
  five files on the disk and the stream buffers in front of them. A source is known
  by what the phases say of it. The output directory may be refused (the exception of
  `create_directory` leaves `main`) or be made by somebody else between the two calls
  that look for it and make it; files may be impossible to open or to write, the
  process may be killed while streams hold text, an exception may leave `main`; and a
  session has several compiles, which share the directory.

**The symbol table.**

- `Scopes`: the tree of scopes. A scope is named by its path from the root; a C++
  pointer to a record is the scope, map and name that own the record. `Enter`
  makes a child when there is none of that name, as `Scope::nextChild` does.
- `Semantics`: the four passes that share the table. `agenda` is again the
  visitor's call stack; the task "leave" is the destructor of a `ScopeExit`. A
  body is reduced to its local declarations and the statements that use a name.
  `errors` holds every diagnostic with its line.
- `SemanticProperties`: what the passes owe a program, computed from its text.

In the back end's modules a method comes with its variables and the fields of its
class; these are `emitted` of `Semantics`, and `EmittedAsDeclared` is what
justifies it.

**Runs and proofs.** The `MC_` modules give the constants values. `VM_proofs`,
`IRGen_proofs`, `Toolchain_proofs`, `Lexer_proofs`, `Parser_proofs`,
`Semantics_proofs` and `Driver_proofs` hold the proofs, `VM_proofs` those about the
program file as well; `SequenceLemmas` has what several of them need about
induction and about sequences.

## What the runs check

| Run | States | Shows |
|---|---|---|
| `vm` | 85 000 | the machine on every short program, well-formed or not, and on recursive ones |
| `irgen` | 129 000 | graphs of nested conditions, loops, calls and short circuits |
| `toolchain` | 234 000 | compiled programs do what their source means, and end |
| `semantics` | 35 000 | the table in four passes |
| `lexer` | 440 000 | every call in every order, on all short texts |
| `parser` | 92 000 | texts with every production, edited at every place |
| `typecheck` | 149 000 | every kind of node with operands of every type |
| `delivery` | 9 300 | files cut at every byte |
| `driver` | 459 000 | sessions of compiles with faults |
| `test_e`, `test_duplicates`, `test_definitions` | – | the [findings](#findings) |

**vm.** Main is a prologue that leaves something on the stack, in the heap or
nothing, followed by every sequence of one or two instructions of an instruction
set with every opcode; it can jump to existing and missing blocks and call a
method with one of three bodies, a missing method, or main, which the machine's
method map does not hold (`Callable`) and so counts as missing. Two instructions
after a prologue reach every outcome of every opcode (every value of `status`),
and words of three bits (`HalfWord = 4`) wrap, trap and overflow with the
constants used. To these come eight programs with a method that calls itself, with
operands left below the call or with a call in the argument of another; they recurse
up to three times on the way down, enough for three activations to have operands of
theirs under the fourth's. No program jumps backward and the recursions count down to
zero, so every run ends. `OwnStackEach` is checked as the property of a refinement.
The programs include ill-formed and unverified ones: `NoControlFault` and
`NoUnderflow` say, read backward, that such a fault convicts the program that
met it.

**irgen.** 1590 programs: every condition (comparisons, variables, short circuits
nested in the left operand, in the right one, under negation, in arguments)
under every statement that takes one, around every inner statement. Depth 8 holds
all of them. `ExitsAgree` is stated for methods without a short circuit inside the
right operand of another; those violate it, which is the first finding.
`TempsDefined` and `ClosedStaysClosed` hold for all.

**toolchain.** 646 programs: all pairs of a statement that sets something and one
that depends on it, in a method that has a local, a boolean, an array and a
field, with calls that change the field, calls of a method of another class that
is given the caller and calls it back, recursion, short circuits as conditions
and as arguments, constant and dead branches, division by values that may be
zero, and indices out of range. `HalfInt = 4` makes 3*3 and sums exceed an
immediate, so the pass must decline to fold them; `HalfWord = 32` is a word that
their arithmetic fits. The programs are type-correct. Each runs through
generation, both passes, code generation and execution; the machine's output and
final status are those of `Meaning` (`PrintsItsMeaning`), the emitted program is
verified (`EmitsVerified`), and the method that executes and those that wait for it
run on objects of their own class (`ReceiverTyped`): with two classes, and objects
among the arguments, a receiver taken for an argument is an object of the wrong one.

**Fairness.** `FairSpecAll` assumes `WF_allVars(Step)`: the process is sequential
and nothing preempts it, so as long as a step is possible one is taken. That is
all `EventuallyEnds` uses; the programs of the run terminate by their meaning.
The other runs with liveness are `parser` and `delivery`, below.

**semantics.** 1764 programs that use `x`, `y`, `m`, `n`, `A` and `B` as fields,
parameters, locals, methods and classes, with and without duplicates, unknown
types and undeclared names. A class with one method of two parameters and two
items, and a second class that may redeclare its names, are the smallest in which
a declaration can be refused in the middle and something follows it, in each kind
of scope. `UsesReachVariables` speaks of programs whose tables are emitted, and
excepts identifiers that name a class or a method of the class at hand: the checker
accepts these as expressions and the machine has no such variable.

**lexer.** All texts of up to four characters over two alphabets, one for words,
numbers, comments and lines, one for operators, spaces and the keyword with dots
(`S.p` stands for `System.out.println`); three more texts to which a client may
reset. Four characters hold every pair of neighbouring tokens, which is what a
longest match depends on, a comment that ends in the middle, and a keyword that is
the beginning of an identifier. A client looks one token further than the next and
takes up to five; it iterates, looks ahead and starts over in any order.

**parser.** One program with every kind of declaration and statement, in which at
each place a token is missing, is another one, or is one too many, with an
unrecognized character before or after it; expressions of four operands over
operators of every strength, with prefixes on the first two; chains of indices,
members and calls; nested ifs and loops; members in every order; any five tokens in
place of an expression. Four operands are enough for any two neighbouring operators to meet on
both sides of a third. `MaxInt = 8`, so that the literal 9 is the one that
`std::stoi` refuses; `MaxDepth = 12` is larger than the depth of any tree.
`AgreesWithGrammar` compares with the recognizer after every token, so it also says
*where* a text is refused. `Terminates` assumes `WF_vars(CNext)`: the parser is a
sequential process that nothing blocks.

**typecheck.** 1865 programs of a main class and a class with fields, two methods,
parameters and locals: an expression or a statement of every kind with operands of
every type and with erroneous ones, names with every meaning, and declarations of
every type. Operands are leaves or one operator deep, which is where an error is
reported or passed on. `NeverGoesWrong` computes, to a fixed point, the types of the
values every variable may hold; it is the soundness of the checker for these
programs, and the one exception is the name of a class or a method used as a value.

**delivery.** 11 programs, with loops, branches, objects, calls and blocks in any
order, cut at every byte, and a file that is empty or cannot be opened, which the
machine reads alike. Words of two bytes of two bits make cuts fall inside counts,
lengths, names and operands. `DSpec` assumes weak fairness of the machine's loop and
of loading: the machine goes on by itself, and the user runs it on the file. That a
cut file is harmless is not by design: what is missing is read as additions and
empty names, which end the run before anything is printed.

**driver.** Sessions of two compiles over a source for each phase that refuses,
combinations of lexical errors with others, a literal that aborts, and two sources
that are accepted. Two compiles are enough for one to find what another left, in
every state in which that can be left. `ExitIsVerdict` says which status is due when several
phases have something to say; only what the environment refuses `main` changes it.
`RefusedLeavesProgram` is an action property:
no step of a compile that does not accept its source touches the program, the
listing or the drawing of the table. A session may stop after its compiles, so this
run does not check deadlock.

Deadlock is checked in every other run; the end of a compilation or of an execution
is a stuttering step, so a deadlock would be a visitor or a pass that is stuck.

Every property has a mutant: a version of one definition with a plausible slip
(a scope left once too few, an exit kept, `this` stored last) under which the same
run finds the property violated.

## What is proved

All for every set of programs, texts and sources, every word size, every certificate,
every depth of nesting, every sequence of calls of a client, every number of
compiles and every place where a file is cut.

| Theorem | Statement |
|---|---|
| `TypeCorrect` (`VM_proofs`) | `Spec => []TypeOK` |
| `ControlSafe` (`VM_proofs`) | `Spec => []NoControlFault` |
| `StackSafe` (`VM_proofs`) | `Spec => []NoUnderflow` |
| `SharedStackSeparates` (`VM_proofs`) | `SharedSpec => OwnStackEach` |
| `WholeFileIsLoaded` (`VM_proofs`) | `DSpec => []WholeFileIsProgram` |
| `DeliveryTypeCorrect` (`VM_proofs`) | `DSpec => []DeliveryTypeOK` |
| `TypeCorrect` (`IRGen_proofs`) | `Spec => []TypeOK` |
| `ClosedStays` (`IRGen_proofs`) | `Spec => ClosedStaysClosed` |
| `ExitsFollow` (`IRGen_proofs`) | `Spec => []ExitsAgree` |
| `TemporariesWritten` (`Toolchain_proofs`) | `Spec => []TempsDefined` |
| `PassesKeepCoherence` (`Toolchain_proofs`) | `SpecAll => []PassesCoherent` |
| `TypeCorrect` (`Lexer_proofs`) | `Spec => []TypeOK` |
| `LongestMatches` (`Lexer_proofs`) | `Spec => []TokensAreLongestMatches` |
| `Reported` (`Lexer_proofs`) | `Spec => []ReportedOnce` |
| `TypeCorrect` (`Semantics_proofs`) | `Spec => []TypeOK` |
| `Balanced` (`Semantics_proofs`) | `Spec => []ScopesBalanced` |
| `Duplicates` (`Semantics_proofs`) | `Spec => []DuplicatesRejected` |
| `TextKept` (`Semantics_proofs`) | `Spec => []TableIsProgram` |
| `TablesAsDeclared` (`Semantics_proofs`) | `Spec => []EmittedAsDeclared` |
| `UsesAreKnown` (`Semantics_proofs`) | `Spec => []UsesReachVariables`: variables in reach, or names of classes and methods |
| `FirstFault` (`Parser_proofs`) | `ParserSpec => []FirstFaultPrinted` |
| `DriverInvariant` (`Driver_proofs`) | `Spec => []DriverInv`, which has the next three |
| `TypeCorrect` (`Driver_proofs`) | `Spec => []TypeOK` |
| `ExitStatus` (`Driver_proofs`) | `Spec => []ExitIsVerdict` |
| `Completeness` (`Driver_proofs`) | `Spec => []SuccessIsComplete` |
| `ProgramKept` (`Driver_proofs`) | `Spec => RefusedLeavesProgram` |

Assumptions: `HalfWordAssumption` (a word has at least one value on each side of
zero, and room for the booleans), `TextAssumption` (the name `this`, which the
machine itself uses, is a text), `ProgramsAssumption` (programs have the shape the reader
produces: a main method, methods with blocks of instructions). Each is an
`ASSUME` in the module that declares the constant, and TLC evaluates them in the
`vm` run; that of `Folding` is evaluated in the `toolchain` run. The driver's are
`SourcesAssumption` (a parser that reaches the end has read all of the source, so
what it met is what is there; sources with one name are one source) and
`RunsAssumption`, evaluated in the `driver` run. The generator's are
`SourceAssumption`, `DepthAssumption` and `NameAssumption`, evaluated in `irgen` and `toolchain`: its trees are such as the
parser builds and the checker accepts (every node has the kind and the number of
operands its visit counts on, a return is the last item of a body, the methods of a
program have different names), no method's name is a generated label, since the
name in the code has a dot in it, and no tree is deeper than `MaxDepth`, so that
`AllNodes`, by which `RightNested` looks for a short circuit, finds all nodes; trees
are finite, so there is such a number for any set of programs that is; and no name in a
program is that of a temporary, which begins with an underscore (`Lexer.cpp:26`). The lexer's is `LexerAssumption`, evaluated in
`lexer`: a text is a sequence of characters, a keyword is a word, and
`System.out.println` begins like a word and goes on with what no word has.
The symbol table's is `ProgramAssumption`, evaluated in `semantics`: a program is a
sequence of classes, the main class first; what the parser gives a name to has a name
that starts with a letter (so it is no temporary) and is not `this`, which the lexer
takes for a keyword (`Lexer.cpp:26`); a body is made of declarations and uses, and
that of main of uses only.
The file's are evaluated in `delivery`: a word has digits of some base and holds just the numbers of the
machine (`WordAssumption`: `WordLimit = 2 * HalfWord`, 2^64 in the code, where both are
64 bits wide), a text is a tuple of characters (`CharactersAssumption`), and the programs of the compiler
are lists of methods that begin with the main method, with no list or text longer
than a word can count (`SourcesAssumption`). `CutTextAssumption` restricts no
program: it says that the set `Text` has room for what is
read of a text that is not all there, the text with NULs from some place on.
`FirstFault` needs none.

*TypeCorrect.* `TypeInv` says what `TypeOK` says in the form the provers use:
sets of frames, instances and sequences in place of predicates on records.
There is one lemma per action, and lemmas that the arithmetic stays within a word
and that popping and pushing keep the stack a sequence of words.

*ControlSafe.* `ControlInv` says, for well-formed programs that are still running:
the current activation has a next instruction, every suspended one has one to
resume at, and the outermost activation is main's. The first needs that blocks
end in a transfer of control and that a jump restarts the counter; the second is
what `RET` relies on without checking; the third, with the rule that main never
returns, is why `RET` finds a caller.

*StackSafe.* `NoUnderflow` is far from inductive: it says nothing about whose
values are on the stack. `StackInv` divides the stack. `base[i]` values lie below
those of the i-th activation; a suspended caller owns what its certificate
promises when it resumes, less the result it waits for; the current activation
owns the height of its next instruction. A call turns the arguments into the
callee's share, a return turns a share of one into the caller's result.
`MainOnce`, that main is never called, is needed for `STOP` to find the stack
empty. So a local check, instruction by instruction, is enough at any depth of
recursion; `EmitsVerified` says that compiled programs pass it.

*SharedStackSeparates.* The division that `StackInv` only claims to exist is what
`bottoms` holds (`AccountInv`), and a part of the stack lies between two bottoms.
What is added is that a step other than a call or a return pops no more than the
activation owns (`WorkPops`), so nothing below its bottom changes (`WorkKeeps`);
a call cuts the caller's part in two where the arguments begin, and a return joins
the last two parts, the last of which has length one (`JoinParts`). The theorem is a
refinement: the parts begin as those of `OwnStacks`, and every step is one of its
steps or leaves all parts alone.

*WholeFileIsLoaded.* The writer and the reader agree on the format only by being
written alike, in two programs. `Lies(w, file, k)` says that what was written, `w`, is
in the file from byte `k` on; a lemma for each kind of thing says that it then is what is
read at `k`, and that the reader stands behind it afterwards (`IntegerRead`, `StringRead`,
`InstructionRead`, `BlockRead`, `MethodRead`). `LiesBoth` takes two things written one
after the other apart. A number is the sum of its digits (`NumberIs`, by induction
over the digits with `NextDigit`), and a negative one comes back from the upper half
of a word (`SignedIntegerRead`). For a list, `PartsThere` says where each part begins, and
the recursive function of the reader is shown equal to the explicit one that gives the
first `i` parts and their end (`StringVectorRead`, `CodeRead`, `BlocksRead`,
`MethodsRead`). The invariant `RunsWhatItWasGiven` says that the machine has the
program as it was generated or as it was loaded, which no step of the machine changes.

*DeliveryTypeCorrect.* Of a file that was cut `Starts(w, file, k)` holds instead: what is
there from `k` on is the beginning of `w`. What is read then is
no more the thing written, but still one of its kind: a number the lower digits of which
are there and the others 0, so no larger than the one written (`IntegerFound`) and thus never a length
that leads beyond the list that was written; a text that ends in NULs (`StringFound`); an addition for a missing opcode
(`InstructionFound`); and the reader stands behind the thing or at the end of the file, where
everything read is empty (`NothingLeft`). So it is a program, with a main method and texts and numbers
of the machine (`CutFileFound`), and `TypeInv` of the machine does the rest.

*The generator.* `ClosedStaysClosed` says that no step adds an instruction to a block
that ends in a jump or changes its exits. Nothing in `TypeOK` prevents it: a visitor
leaves a block unfinished, visits a subtree that moves `currentBlock` as it likes, and
comes back to fill the block by the label it kept in a C++ local. The inductive
invariant `IInv` says who may fill which block. Each task on the agenda *owns* the
labels it will still fill (`Owned`), owned blocks and the current one are not closed,
no task owns the current block (`Ready`), and no two tasks own the same (`Before`,
`Ordered`); the block of a method not yet begun does not exist. A step fills the
current block, or one its task owns, and hands on what it leaves unfilled to the
tasks it pushes. That a return closes the current block while nothing looks at it is
why `Ordered` also says that whatever a return stands before begins a method
(`t.node \in Inner \/ IsMethod(u)`). `Linked` says that exits and targets name blocks
that exist, and `Runs` that no task finds fewer operands on `values` than it takes:
there is a sequence of numbers, one before each task, of which each follows from the
one before. The lemmas follow the code: what `WithCode`, `WithExits` and the fresh
labels do to a graph (`WithCodeIs`, `WithExitsIs`, `LabelsAre`), a task replaced by
others (`Onward`, `RunsConcat`), a step that fills only the current block (`Calmly`),
one that goes on in a new block (`Advance`, `VisitThen`, `NodeDone`), and one lemma per
action.

*ExitsAgree.* The code and the exits of a block are set by different statements,
often with the visit of a subtree between them, and the property speaks of the end of
the generation and of what can be reached then. The invariant `Partition` says what holds before.
Every method that is not `RightNested` has a set of blocks (`Region`) that no jump
leaves and that nothing else on the agenda names. While the method is visited
(`Visited`) each of its blocks is `Coherent`: its exits are its jumps, or it is the end
of the condition of a loop that has still to end (`Awaited`), or it is not ended, has no
jumps, and no true exit unless it begins the body of a loop (`Looping`), whose exit is set
before its code. Once the next method has begun (`Left`) only the first remains, and no
later step reaches the set. The part that fails for nested right operands is `Straight`: until
the right operand is merged only tasks without short circuits are before the
merge, so the current block is still the one whose label `Merge` has kept. A step
replaces the first task, adds blocks and touches the current block and those its task
names (`Confined`); `MovesOn` shows that such a step keeps the invariant if it keeps it
for what it touches (`Keeps`), and one lemma per action shows the latter
(`BranchMoves`, `MergeMoves`, `LoopEndMoves`, ...). `ReachedWithin` shows by induction
over the rounds of `Reachable` that what is reached from a method's first block lies in its set.

*TempsDefined.* The result of a `&&`, a condition that is evaluated in one block and
tested in another, the arguments of a call kept on `values` while a later one makes new
blocks: a temporary is read far from where it was written, and only the paths
between say whether it was. The property is about paths; the invariant `Assigned` is not.
It says that there is a map `D` from blocks to sets of temporaries such that each
instruction reads only what `D` grants its block and what the block has written before
(`Allowed`, `Assured`), that no jump leads to a block which is granted more than is
written where the jump is, and that a method's first block is granted nothing. A
jump to a block may be written before the block or after it, so `D` has to be chosen when
the label is made: a fresh block is granted what is written where the
current block ends so far, and the join of a short circuit its result as well, which
both of its branches write. `Guards` says why this is right when the blocks are
reached at last: a task that goes on in other blocks (`Binding`) was promised the same
for all of them (`Promised`), what it is based on is written in the current block, and what the
values below its own operands hold is in its base (`Bound`); what is pushed later is based
on no less (`Above`). `GuardsStep` shows that replacing the
first task keeps this, `StillKept` that it survives new blocks, and there is one lemma
per action. At the end the blocks to which `D` does not grant a temporary are closed
under jumps that do not pass a write of it, and the first is one of them:
`UnwrittenWithin` shows that all that is reached unwritten is there, where `Assured`
says that it is not read. `test_e`'s programs are not excepted: what nested right
operands get wrong is the exits, not the jumps.

*PassesCoherent.* The passes rewrite blocks one instruction at a time, and jump folding
takes the label of the new jump from the code and its exit from the block: it is right only
for a graph in which the two agree, and only if nothing else stands between a
conditional jump and the end of its block. So the proof needs all that is known of the generator
(`IInv`, `Assigned`, `Partition`) and one invariant more, `AllTailed`: a jump or a return is the last
instruction of its block, and a conditional jump stands before a jump to somewhere else.
`GeneratedWhole` collects this in a predicate of a graph alone (`Whole`), for the set
`U` of the blocks of the methods' regions, and `Roots` says that methods start in it.
Constant folding keeps `Whole` because an instruction that it rewrites (`Refolds`,
`RewrittenIs`) jumps where it jumped, writes what it wrote and reads no more than before.
For jump folding `JumpsInv` adds how far the pass is: no block behind it has
a conditional jump on a constant, the block in work none before the instruction in
work, and all that can be reached from the methods is among the blocks collected at the
start. In `Whole` every such jump can be decided, for one of the block's own
exits (`Divided`, `ConstantDecided`); what is cut is the last two instructions, and the
block that is left reads and promises no more (`CutBlock`). Folding takes
exits away, so less can be reached than before (`ReachShrinks`). At the end nothing is
left unprocessed, and `Whole` gives the rest.

*The lexer.* `TokensAreLongestMatches` compares two definitions of the same text: the
scanner looks at the next character and decides, the rules take the longest of all
matches. `LexerAgrees` proves them equal at every position of every text, one lemma per
branch of the scanner (`AgreeWord`, `AgreeNumber`, `AgreeDoubled`, ...), since a branch
is right only if no other rule matches more; `SkipEquation` and `RulesEquation` prove
the equations of the recursive functions by which both walk a text. The invariant is
`ChainInv` (what was handed out and what is looked ahead are the rules' tokens one
after the other from the beginning of the source, and `index` is behind the last),
`MessageInv` (the messages sent since the last reset are those of these tokens) and
`LookaheadInv` (no more is looked ahead than a client may ask for).
`ReportedOnce` follows: a chain has no gap and no overlap, so each unrecognized
character in it is in one token and in one message (`SentIsDue`).

*The symbol table.* The table is filled by one walk over the tree and read by three
more, which enter its scopes by name; whether they come to the scopes that the first
made depends on every visit having left what it entered, the refused ones included. The
invariant `Kept` says three things. `Tree`: every scope but the root has a record in
the scope around it, so a pointer that is a path leads somewhere. `Walking`: the
traversal stands somewhere in the program (`Situated`): between two classes
(`Outside`), between two members of the k-th (`Inside`), or between two items of
the body of a member (`Within`); the place determines the current scope and the whole
agenda, and tells how far the table is filled (`Known`, with `Content` for the table
that the declarations before the place describe, the parameters listed so far included, and
`Complete` for all of it, in the later passes). `Rooted` and `Settled`: the roots kept
for the code generator are scopes of the table. There is one lemma per action: it leads
from a place to the next (`DeclareClassWalks`, `LeaveMethodWalks`, `CheckWalks`, ...),
after lemmas that say what each operation of the table changes and what it leaves
(`ClassOpened`, `MethodOpened`, `VariableDeclared`, `ParameterDeclared`,
`ClassEntered`), and that what is later filled in leaves alone what is there
(`AgreeOn`, `AgreeBut`). A temporary is no name of the program, so adding one keeps
`Complete` (`TemporaryAdded`). `TypeOK` is read off `Tree` and `Situated`.
`ScopesBalanced` follows from the place: the agenda there has as many leaves as the
place is deep (`LeaveBetween`). For `DuplicatesRejected` the invariant `Judged`
adds that a diagnostic of the declarations means that the text repeats a name (what a visit finds
in its scope was put there by an earlier node of the same list, `NameTaken`); that a text
without such diagnostic repeats none follows from `Complete` (`CompleteDiffers`). `TableIsProgram`
is `Complete`, read as sets and functions of the text. `EmittedAsDeclared` needs to know
in addition what the later passes have done, because the code generator reads its
tables off the scopes at the end, when the generator's temporaries are among the
variables. The invariant `Compiled` says it: `Fresh` and `Numbered` (a
temporary has a number below `nextTemp`, is in one scope, and a method's scope has as many as the
items of its body asked for), `Distinct` (no two methods keep the same root),
`OnTheWay` (for each member behind the traversal: its uses are in reach, `UsesMeant`,
or its root is kept and its temporaries are counted, `Progressed`), and `Finished`
(the code generator begins when every method is generated, and the j-th table
emitted is that of the scope of the j-th root). `UsesReachVariables` follows from
`UsesMeant`, which the check establishes because a lookup goes from the method's scope
outwards in a table that is `Complete`, and which the later passes keep: a name it
speaks of is in the tables emitted for the method, or names a class or a method.

*FirstFault.* The report is printed when the lexer has met no unrecognized character
so far, and ought to be when there is none before the offending token. The two agree
if the offending token is the last one read. `BufferInv` says that the last token
buffered is the last one read, except in a method body between its two looks; and
that two tokens are buffered only while the first is an identifier and one of four
functions runs (`Deciders`: the item, the declaration, the type, the statement).
None of these fails on an identifier, and the first token is consumed before any
other function runs, so whatever fails has one token buffered. There is one lemma
per way to go on (`GoStep`, `TakeStep`, `FailStep`, `PeekStep`, `MakeStep`) and one
per group of functions.

*The driver.* `DriverInv` adds to the type invariant what each place in `main` knows:
`Decided` (which phases have accepted the source), `Opened` (a stream holds text only
in the last phase, so an exit before it has nothing to flush), and `Done` (the files
written so far are complete or a fault says why not). `ProgramKept` follows from
`Decided` and `Opened`, step by step: the only steps that change a file are those
that open it and the end of the process, and they are past every refusal.

**Model-checked only.** Liveness (`EventuallyEnds`, `Terminates`, `CutFileEnds`),
since the provers have no rule for fairness and `ENABLED`. What RECURSIVE operators
compute (`Meaning`, `Reading`, the recognizer, the typing rules' fixed point,
certificates): the provers do not see into them, so a property that compares with one
of these (`PrintsItsMeaning`, `EmitsVerified`, `TreeIsReading`, `AgreesWithGrammar`,
`NeverGoesWrong`) stays with TLC. Recursive functions and `FlattenSeq` are within reach,
where the induction is stated with a set of numbers instead of a predicate
(`Induction`, `InductionFromEnd`); `SelectSeq` is not, since the provers know no
facts about it. And, so far, the properties of the type checker, the parser's `TypeOK`,
`ReceiverTyped`, which holds only of programs that are type-correct, and
`CutFilePrintsPrefix`: it compares two runs of the machine, on a program and on what is left of
it, of which the first has to be told from its beginning.

## Findings

- **Right operands of && and || that contain another** (`code_bug`, run `test_e`).
  After evaluating the right operand the generator sets the exits of the block the
  evaluation *started* in (`IRGenerationVisitor.cpp:397` and `:444`). A nested
  short circuit has set those exits already and moved on; its blocks are no longer
  reachable through exits, and are not emitted, although the code jumps to them.
  `src/test_files/assignment3_valid/E.java` ends with "block block_8 not found".
  The properties about graphs are therefore stated for methods that are not
  `RightNested`, and hold for all others.
- **Duplicates inside a duplicate class** (run `test_duplicates`) are marked as
  errors in `DuplicateIdentifiers.java` and not reported: the visitor returns
  before it visits the body.
- **Use before declaration** (run `test_definitions`) is marked as an error in
  `InvalidDefinitions.java:89` and accepted: the table holds all declarations
  before the first statement is checked.

Four more disagreements are recorded where a passing run states what the code does:

- **Unary minus.** `docs/grammar.g:16-28` has no prefix minus; the parser accepts it
  (`Parser.cpp`, and `parser_exact_test.cpp:77` expects it). `Grammar` has it among the `Prefixes`, and
  with that `AgreesWithGrammar` holds.
- **Literals that do not fit an int** end the compiler with `SIGABRT`: `std::stoi` in
  `IntegerNode.hpp:14` throws and nothing catches it. The outcome is "aborted" in
  `Parser` and `ABORTED` in `Driver`; `AgreesWithGrammar` says it is the only program
  text that gets no answer, `ExitIsVerdict` what the status then is.
- **Success with missing output.** `README.md:14` says that the program "will be placed
  in `output/prog.bc`"; `main` asks none of the streams for `prog.bc`, `bytecode.txt`,
  `st.dot` and `tree.dot` whether it could be opened or written, and returns `SUCCESS`.
  `SuccessIsComplete` therefore speaks of compiles that met no such fault.
- **A directory that cannot be made.** `main.cpp:217-221` prints "Failed to create
  directory" and returns 1 when `fs::create_directory` returns false; on a real
  failure this overload throws instead, nothing catches it, and the process aborts.
  It returns false when the directory has come to exist in the meantime, so the branch
  runs only when there is nothing wrong. `MakeDirectory` has both outcomes.

## What is not modelled

- The composition of the front end with the back end on one program text: the parser
  and the checker share trees (`Ast`), the checker and the symbol table share the
  table's operations, the back end starts from trees of the same kind, but no single
  run takes a text to its output.
- When an operand is a variable it is read by the instruction that uses it, after
  a call in a later operand has run (`x + this.set()`). No document fixes
  MiniJava's order, so the programs of `toolchain` are those where both agree.
- Printing and Graphviz output, diagnostics' wording; the exhaustion of memory
  (`NEW_ARRAY` of a huge length, unbounded recursion).
- Programs that never end: their graphs are generated in `irgen`, but running them
  has nothing to be compared with.
- Two compilers at once in one directory: nothing in the repository runs them so. (That
  somebody else makes the directory is in `Driver`.)

## Plan

Done: the machine with its proofs and the refinement of its stack, the back end and
its composition, the symbol table, the lexer, the parser, the type checker, the file
and the driver; the proofs of the generator's blocks, exits and temporaries, of what the passes keep of them, of the lexer's invariants, of the
parser's report, of the symbol table, of the driver and of the program file. What would come next:

1. Proofs: `CutFilePrintsPrefix`; soundness of `KnownAfter` and `Rewritten` (a folded
   instruction computes what the original does in every store that agrees with the
   environment); the balance of the bytecode of each TAC.
2. An abstract symbol table of nested declarations, which `Semantics` implements.
3. One run from text to output, once the states of the front end's part can be kept
   small enough beside those of the back end's.
