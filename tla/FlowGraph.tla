----------------------------- MODULE FlowGraph ------------------------------
(***************************************************************************)
(* The intermediate representation: three-address code                     *)
(* (src/ir/Tac.hpp), the control flow graph that holds it                  *)
(* (src/ir/BBlock.hpp, src/ir/CFG.cpp), the code generator, and what a     *)
(* graph owes to those who use it.                                         *)
(*                                                                         *)
(* An operand is an immediate int or a name.  A TAC takes the name of the  *)
(* opcode it is built on; COPY and PARAM have none.  A call's target is    *)
(* kept in rhs.name.                                                       *)
(*                                                                         *)
(* A block holds its code twice linked: the labels its jumps name, which   *)
(* is what the machine follows, and its true and false exits, which is     *)
(* what the passes and the code generator follow.                          *)
(*                                                                         *)
(* A graph is a record of                                                  *)
(*   methods  the sequence of the methods, the main method first; a method *)
(*            is known by its name, params, variables (its local variables *)
(*            and parameters) and fields (the variables of its class)      *)
(*   temps    for every method name, the temporaries in the method's scope *)
(*   blocks   the blocks by label                                          *)
(***************************************************************************)
EXTENDS Bytecode, SequencesExt, FiniteSets

Imm(n)  == [imm |-> TRUE,  num |-> n, name |-> <<>>]
Name(x) == [imm |-> FALSE, num |-> 0, name |-> x]
None    == Name(<<>>)

Tac3(op, res, lhs, rhs) == [op |-> op, res |-> res, lhs |-> lhs, rhs |-> rhs]

Copy(operand, res)     == Tac3("COPY", res, None, operand)
Jump(label)            == Tac3("JMP", label, None, None)
CondJump(label, cond)  == Tac3("CJMP", <<>>, cond, Name(label))
MethodCall(res, receiver, target) == Tac3("CALL", res, receiver, Name(target))

\* Which of its fields a TAC reads as values, and whether it sets its result.
ReadsLhs == TwoOperands \cup {"ARRAY_STORE", "CJMP", "CALL"}
ReadsRhs == TwoOperands \cup {"ARRAY_STORE", "NOT", "COPY", "ARRAY_LENGTH",
                              "NEW_ARRAY", "PARAM", "RET", "PRINT"}
Defines  == TwoOperands \cup {"NOT", "COPY", "ARRAY_LENGTH", "NEW_ARRAY",
                              "NEW", "CALL"}
TacOps   == ReadsLhs \cup ReadsRhs \cup Defines \cup {"JMP"}

(***************************************************************************)
(* Tac::generateBytecode: push the operands, perform the operation, store  *)
(* the result.                                                             *)
(***************************************************************************)
If(condition, item) == IF condition THEN <<item>> ELSE <<>>

Push(operand) == IF operand.imm THEN Const(operand.num)
                                ELSE WithText("LOAD", operand.name)

Operation(t) ==
  IF t.op \in {"CJMP", "CALL", "NEW"} THEN <<WithText(t.op, t.rhs.name)>>
  ELSE IF t.op = "JMP" THEN <<WithText("JMP", t.res)>>
  ELSE If(t.op \in NoArgOps, Plain(t.op))

BytecodeOf(t) ==
  If(t.op = "ARRAY_STORE", Push(Name(t.res)))
    \o If(t.op \in ReadsLhs, Push(t.lhs))
    \o If(t.op \in ReadsRhs, Push(t.rhs))
    \o Operation(t)
    \o If(t.op \in Defines, WithText("STORE", t.res))

\* The code of a block's TACs.
CodeOf(tacs) == FlattenSeq([i \in DOMAIN tacs |-> BytecodeOf(tacs[i])])

-----------------------------------------------------------------------------
(***************************************************************************)
(* Blocks, and the blocks that follow a block.                             *)
(***************************************************************************)
NoBlock == <<>>   \* a null exit

Block(code, trueExit, falseExit) ==
  [code |-> code, trueExit |-> trueExit, falseExit |-> falseExit]

EmptyBlock == Block(<<>>, NoBlock, NoBlock)

\* The blocks the passes visit next.
Exits(block) == {block.trueExit, block.falseExit} \ {NoBlock}

\* The blocks the code generator visits next: a false exit only beside a
\* true one.
EmitExits(block) == IF block.trueExit = NoBlock THEN {} ELSE Exits(block)

\* The blocks the machine can continue with.
Targets(block) ==
  {t.res : t \in {t \in ToSet(block.code) : t.op = "JMP"}}
    \cup {t.rhs.name : t \in {t \in ToSet(block.code) : t.op = "CJMP"}}

\* The labels reached from a root by following next(_) of each block.
Reachable(blocks, root, next(_)) ==
  LET round[n \in 0 .. Cardinality(DOMAIN blocks)] ==
        IF n = 0 THEN {root}
        ELSE UNION {{b} \cup next(blocks[b]) : b \in round[n - 1]}
  IN  round[Cardinality(DOMAIN blocks)]

ReachableBlocks(blocks, root) == Reachable(blocks, root, Exits)

Emitted(blocks, root) == Reachable(blocks, root, EmitExits)

-----------------------------------------------------------------------------
(***************************************************************************)
(* The code generator (CFG::generateBytecode, BBlock::generateBytecode):   *)
(* from a control flow graph to a program of the virtual machine.          *)
(***************************************************************************)
\* Two slips: the receiver stays on the stack; the receiver is taken last.
PrologueWithoutThis(method, isMain) ==
  [i \in DOMAIN method.params |-> WithText("STORE", Reverse(method.params)[i])]

PrologueThisLast(method, isMain) ==
  [i \in DOMAIN method.params |-> WithText("STORE", Reverse(method.params)[i])]
    \o If(~isMain, WithText("STORE", This))

\* A method takes its receiver and then its arguments off the stack, the last
\* argument first; the main method has no receiver.
Prologue(method, isMain) ==
  If(~isMain, WithText("STORE", This))
    \o [i \in DOMAIN method.params |-> WithText("STORE", Reverse(method.params)[i])]

\* STOP is appended to the blocks of main that end nowhere.
Epilogue(block, isMain) == If(isMain /\ Exits(block) = {}, Plain("STOP"))

EmittedBlock(graph, method, isMain, label) ==
  LET block == graph.blocks[label] IN
  (IF label = method.name THEN Prologue(method, isMain) ELSE <<>>)
    \o CodeOf(block.code)
    \o Epilogue(block, isMain)

EmittedMethod(graph, method, isMain) ==
  [locals |-> method.variables \cup graph.temps[method.name],
   fields |-> method.fields,
   blocks |-> [label \in Emitted(graph.blocks, method.name) |->
                 EmittedBlock(graph, method, isMain, label)]]

GenerateBytecode(graph) ==
  LET main       == graph.methods[1].name
      Named(n)   == CHOOSE m \in ToSet(graph.methods) : m.name = n
  IN  [main    |-> main,
       methods |-> [n \in {m.name : m \in ToSet(graph.methods)} |->
                      EmittedMethod(graph, Named(n), n = main)]]

-----------------------------------------------------------------------------
(***************************************************************************)
(* What a graph owes.  Nothing from here on is code of the compiler.       *)
(***************************************************************************)
Ends == {"JMP", "RET"}

EndsInJump(block) == block.code # <<>> /\ Last(block.code).op \in Ends

\* A block's exits are the blocks its code jumps to, the false exit where the
\* conditional jump goes.
ExitsFollowCode(block) ==
  /\ Exits(block) = Targets(block)
  /\ \A t \in ToSet(block.code) : t.op = "CJMP" => block.falseExit = t.rhs.name

\* Every label named by the code of a method that is emitted is emitted.
LabelsEmitted(graph, method) ==
  LET emitted == Emitted(graph.blocks, method.name)
  IN  \A b \in emitted : Targets(graph.blocks[b]) \subseteq emitted

-----------------------------------------------------------------------------
(***************************************************************************)
(* Definite assignment of the temporaries, along the paths the machine can *)
(* take.                                                                   *)
(***************************************************************************)
Written(code) == {t.res : t \in {t \in ToSet(code) : t.op \in Defines}}

ReadBy(t) ==
  {o.name : o \in {o \in (IF t.op \in ReadsLhs THEN {t.lhs} ELSE {})
                         \cup (IF t.op \in ReadsRhs THEN {t.rhs} ELSE {}) : ~o.imm}}
  \cup (IF t.op = "ARRAY_STORE" THEN {t.res} ELSE {})

\* The blocks the machine can reach without having written x.
ReachedUnwritten(graph, method, x) ==
  LET onward(block) == IF x \in Written(block.code) THEN {} ELSE Targets(block)
  IN  Reachable(graph.blocks, method.name, onward)

TemporariesDefined(graph, method) ==
  \A x \in graph.temps[method.name] : \A b \in ReachedUnwritten(graph, method, x) :
    LET code == graph.blocks[b].code IN
    \A i \in DOMAIN code : x \in ReadBy(code[i]) => x \in Written(SubSeq(code, 1, i - 1))
=============================================================================
