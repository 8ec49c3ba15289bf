------------------------------- MODULE IRGen --------------------------------
(***************************************************************************)
(* The generation of intermediate code                                     *)
(* (src/ir/IRGenerationVisitor.cpp): a visitor that walks the syntax trees *)
(* of the methods, the main method first, and appends TACs to the current  *)
(* block.  The visitor's call stack is the agenda: what is left to do,     *)
(* next first; the operands it holds in local variables are values.        *)
(***************************************************************************)
EXTENDS Ast, FlowGraph

CONSTANT Sources
  \* Sequences of methods [name, params, variables, fields, body], main first.

VARIABLES
  source,        \* the program being compiled, never changed
  agenda,        \* the visits and continuations to come, next first
  values,        \* operands computed and not yet used, latest last
  blocks,        \* every block of the graph, by label (CFG::allBlocks)
  currentBlock,  \* the label of CFG::currentBlock
  scope,         \* the method whose scope the symbol table is in
  temps,         \* the temporaries added to every method's scope
  nextTemp,      \* CFG::temporaryIndex
  nextBlock      \* CFG::blockIndex

irVars == <<source, agenda, values, blocks, currentBlock, scope, temps,
            nextTemp, nextBlock>>

-----------------------------------------------------------------------------
\* Kinds whose operands are all evaluated before anything is emitted.
Strict     == (TwoOperands \ ShortCircuit) \cup {"NOT"}
Statements == {"Assign", "ArrayAssign", "PRINT", "RET"}
\* Kinds that take their temporary before they evaluate their operand.
Sized      == {"NEW_ARRAY", "ARRAY_LENGTH"}

(***************************************************************************)
(* What the parser and the type checker hand over: methods of different    *)
(* names, whose bodies are lists of statements that may end in a return,   *)
(* and trees of expressions and statements below.                          *)
(***************************************************************************)
Expressions == ExpressionLeaves \cup ShortCircuit \cup Strict \cup Sized \cup {"NEW", "CALL"}
Commands    == (Statements \ {"RET"}) \cup {"List", "If", "IfElse", "While"}

WellFormed(n) ==
  LET Kid(k, kinds) == n.kids[k].kind \in kinds IN
  /\ n.num \in Int
  /\ n.kind \in Expressions \cup Commands
  /\ n.kind \in TwoOperands \cup {"ArrayAssign", "If", "While"} => Len(n.kids) = 2
  /\ n.kind \in Sized \cup {"NOT", "Assign", "PRINT"} => Len(n.kids) = 1
  /\ n.kind = "CALL" => n.kids # <<>>
  /\ n.kind = "IfElse" => Len(n.kids) = 3
  /\ n.kind \in Expressions \cup Statements => \A k \in DOMAIN n.kids : Kid(k, Expressions)
  /\ n.kind = "List" => \A k \in DOMAIN n.kids : Kid(k, Commands)
  /\ n.kind \in {"If", "IfElse", "While"} =>
       Kid(1, Expressions) /\ \A k \in DOMAIN n.kids : k # 1 => Kid(k, Commands)

Methods == UNION {ToSet(methods) : methods \in Sources}
Bodies  == {m.body : m \in Methods}
Returns == {n \in UNION {ToSet(body.kids) : body \in Bodies} : n.kind = "RET"}

\* The trees below the bodies and the returns, and their nodes.
Trees == ((UNION {ToSet(body.kids) : body \in Bodies}) \ Returns)
           \cup UNION {ToSet(n.kids) : n \in Returns}
Inner == UNION {AllNodes(tree) : tree \in Trees}

\* A label is not the name of a method: in the compiler it has no dot, here no
\* class is called "block".
ASSUME SourceAssumption ==
  /\ \A methods \in Sources :
       /\ methods \in Seq(Methods)
       /\ \A i, j \in DOMAIN methods : methods[i].name = methods[j].name => i = j
  /\ \A m \in Methods : m.name # NoBlock /\ m.name[1] # "block"
  /\ \A body \in Bodies :
       /\ body.kind = "List" /\ body.kids \in Seq(Inner \cup Returns)
       /\ \A k \in DOMAIN body.kids :
            IF body.kids[k] \in Returns THEN k = Len(body.kids)
                                       ELSE body.kids[k].kind \in Commands
  /\ \A n \in Returns :
       /\ n.num \in Int
       /\ n.kids \in Seq(Inner) /\ Len(n.kids) = 1 /\ n.kids[1].kind \in Expressions
  /\ \A n \in Inner : WellFormed(n) /\ n.kids \in Seq(Inner)

\* No tree is deeper than MaxDepth: AllNodes finds all of its nodes.
ASSUME DepthAssumption ==
  /\ MaxDepth \in Nat
  /\ \A root \in Inner \cup Returns \cup Bodies :
       \A n \in AllNodes(root) : Children(n) \subseteq AllNodes(root)

\* Names in a program begin with a letter (is_ident_start in Lexer.cpp), those
\* of temporaries do not.
ASSUME NameAssumption == \A n \in Inner : n.text # <<>> => n.text[1] # "_t"

-----------------------------------------------------------------------------
(***************************************************************************)
(* The agenda.  A continuation belongs to a node and carries the labels    *)
(* and the temporary its visit has taken.                                  *)
(***************************************************************************)
Task(do, node, labels, name) == [do |-> do, node |-> node, labels |-> labels, name |-> name]

Visit(node)     == Task("visit", node, <<>>, <<>>)
VisitAll(nodes) == [i \in DOMAIN nodes |-> Visit(nodes[i])]

task == Head(agenda)

Doing(do)       == agenda # <<>> /\ task.do = do
Visiting(kinds) == Doing("visit") /\ task.node.kind \in kinds

\* The rest of a step: these tasks take the place of the one done.
Proceed(tasks) == agenda' = tasks \o Tail(agenda)

(***************************************************************************)
(* Values, temporaries and labels.                                         *)
(***************************************************************************)
Operand(k) == values[Len(values) - k]               \* Operand(0) is the latest
Without(k) == SubSeq(values, 1, Len(values) - k)

Temp     == <<"_t", nextTemp>>
Label(i) == <<"block", nextBlock + i>>
Labels(n) == [i \in 1 .. n |-> Label(i - 1)]

\* CFG::getTemporaryName, followed by adding the name to the current scope.
TakeTemp ==
  /\ nextTemp' = nextTemp + 1
  /\ temps' = [temps EXCEPT ![scope] = @ \cup {Temp}]

NoTemp == UNCHANGED <<nextTemp, temps>>

(***************************************************************************)
(* Changes to the graph, as functions from blocks to blocks.               *)
(***************************************************************************)
WithNew(bs, labels) ==
  [l \in DOMAIN bs \cup labels |-> IF l \in labels THEN EmptyBlock ELSE bs[l]]

WithCode(bs, label, code) == [bs EXCEPT ![label].code = @ \o code]
WithTrueExit(bs, label, exit) == [bs EXCEPT ![label].trueExit = exit]
WithExits(bs, label, trueExit, falseExit) ==
  [bs EXCEPT ![label].trueExit = trueExit, ![label].falseExit = falseExit]

\* A block that ends by jumping to a label, with that exit.
Closed(bs, label, target) ==
  WithTrueExit(WithCode(bs, label, <<Jump(target)>>), label, target)

\* A slip: the last label is used again.
NewBlocksReusing(n) == nextBlock' = nextBlock + n - 1

\* CFG::newBlock, n times.
NewBlocks(n) == nextBlock' = nextBlock + n

\* CFG::addInstruction.
Emit(code) == blocks' = WithCode(blocks, currentBlock, code)

\* What most steps leave alone.
SamePlace  == UNCHANGED <<source, currentBlock, scope>>
SameBlocks == UNCHANGED <<blocks, nextBlock>>

-----------------------------------------------------------------------------
MethodNode(m) == Node("Method", m.name, 0, <<m.body>>)

NothingBuilt == [label \in {} |-> EmptyBlock]

Init ==
  /\ source \in Sources
  /\ agenda = [i \in DOMAIN source |-> Visit(MethodNode(source[i]))]
  /\ values = <<>>
  /\ blocks = NothingBuilt
  /\ currentBlock = NoBlock
  /\ scope = NoBlock
  /\ temps = [n \in {source[i].name : i \in DOMAIN source} |-> {}]
  /\ nextTemp = 0
  /\ nextBlock = 0

\* A method's body starts in the method's root block.
BeginMethod ==
  /\ Visiting({"Method"})
  /\ blocks' = WithNew(blocks, {task.node.text})
  /\ currentBlock' = task.node.text
  /\ scope' = task.node.text
  /\ Proceed(VisitAll(task.node.kids))
  /\ UNCHANGED <<source, values, nextBlock>> /\ NoTemp

(***************************************************************************)
(* Expressions and simple statements.                                      *)
(***************************************************************************)
LeafOperand(node) ==
  CASE node.kind = "Integer"    -> Imm(node.num)
    [] node.kind = "True"       -> Imm(1)
    [] node.kind = "False"      -> Imm(0)
    [] node.kind = "This"       -> Name(This)
    [] node.kind = "Identifier" -> Name(node.text)

Leaf ==
  /\ Visiting(ExpressionLeaves)
  /\ values' = Append(values, LeafOperand(task.node))
  /\ Proceed(<<>>)
  /\ SamePlace /\ SameBlocks /\ NoTemp

New ==
  /\ Visiting({"NEW"})
  /\ TakeTemp
  /\ Emit(<<Tac3("NEW", Temp, None, Name(task.node.text))>>)
  /\ values' = Append(values, Name(Temp))
  /\ Proceed(<<>>)
  /\ SamePlace /\ UNCHANGED nextBlock

EvalOperands ==
  /\ Visiting(Strict \cup Statements)
  /\ Proceed(VisitAll(task.node.kids) \o <<Task("finish", task.node, <<>>, <<>>)>>)
  /\ UNCHANGED values /\ SamePlace /\ SameBlocks /\ NoTemp

EvalSize ==
  /\ Visiting(Sized)
  /\ TakeTemp
  /\ Proceed(VisitAll(task.node.kids) \o <<Task("finish", task.node, <<>>, Temp)>>)
  /\ UNCHANGED values /\ SamePlace /\ SameBlocks

\* The TAC of a node whose operands are the latest values.
TacFor(node, res) ==
  CASE node.kind \in TwoOperands  -> Tac3(node.kind, res, Operand(1), Operand(0))
    [] node.kind = "ArrayAssign"  -> Tac3("ARRAY_STORE", node.text, Operand(1), Operand(0))
    [] node.kind = "Assign"       -> Copy(Operand(0), node.text)
    [] OTHER                      -> Tac3(node.kind, res, None, Operand(0))

FinishStrict ==
  /\ Doing("finish") /\ task.node.kind \in Strict
  /\ TakeTemp
  /\ Emit(<<TacFor(task.node, Temp)>>)
  /\ values' = Append(Without(Len(task.node.kids)), Name(Temp))
  /\ Proceed(<<>>)
  /\ SamePlace /\ UNCHANGED nextBlock

FinishSized ==
  /\ Doing("finish") /\ task.node.kind \in Sized
  /\ Emit(<<TacFor(task.node, task.name)>>)
  /\ values' = Append(Without(1), Name(task.name))
  /\ Proceed(<<>>)
  /\ SamePlace /\ UNCHANGED nextBlock /\ NoTemp

FinishStatement ==
  /\ Doing("finish") /\ task.node.kind \in Statements
  /\ Emit(<<TacFor(task.node, <<>>)>>)
  /\ values' = Without(Len(task.node.kids))
  /\ Proceed(<<>>)
  /\ SamePlace /\ UNCHANGED nextBlock /\ NoTemp

Statement ==
  /\ Visiting({"List"})
  /\ Proceed(VisitAll(task.node.kids))
  /\ UNCHANGED values /\ SamePlace /\ SameBlocks /\ NoTemp

(***************************************************************************)
(* A call evaluates its receiver, then evaluates and pushes one argument   *)
(* after the other, and pushes the receiver last.                          *)
(***************************************************************************)
EvalCall ==
  /\ Visiting({"CALL"})
  /\ LET node == task.node
         argument(k) == <<Visit(k), Task("param", node, <<>>, <<>>)>>
     IN Proceed(<<Visit(Head(node.kids))>>
                  \o FlattenSeq([i \in 1 .. Len(node.kids) - 1 |-> argument(node.kids[i + 1])])
                  \o <<Task("call", node, <<>>, <<>>)>>)
  /\ UNCHANGED values /\ SamePlace /\ SameBlocks /\ NoTemp

Param ==
  /\ Doing("param")
  /\ Emit(<<Tac3("PARAM", <<>>, None, Operand(0))>>)
  /\ values' = Without(1)
  /\ Proceed(<<>>)
  /\ SamePlace /\ UNCHANGED nextBlock /\ NoTemp

FinishCall ==
  /\ Doing("call")
  /\ TakeTemp
  /\ Emit(<<MethodCall(Temp, Operand(0), task.node.text)>>)
  /\ values' = Append(Without(1), Name(Temp))
  /\ Proceed(<<>>)
  /\ SamePlace /\ UNCHANGED nextBlock

(***************************************************************************)
(* && and ||.  The right operand is evaluated in a block of its own, after *)
(* the left one, and only if it matters.  The exits set after it are those *)
(* of the block its evaluation STARTED in.                                 *)
(***************************************************************************)
EvalLeft ==
  /\ Visiting(ShortCircuit)
  /\ Proceed(<<Visit(task.node.kids[1]), Task("branch", task.node, <<>>, <<>>)>>)
  /\ UNCHANGED values /\ SamePlace /\ SameBlocks /\ NoTemp

\* Where the left operand decides: the exits of the block it ends in, the
\* true one first.
BranchExits(kind, rhs, true, false) ==
  IF kind = "AND" THEN <<rhs, false>> ELSE <<true, rhs>>

Branch ==
  /\ Doing("branch")
  /\ LET rhs    == Label(0)
         exits  == BranchExits(task.node.kind, rhs, Label(1), Label(2))
         jumps  == <<CondJump(exits[2], Operand(0)), Jump(exits[1])>>
         built  == WithNew(blocks, ToSet(Labels(4)))
     IN /\ blocks' = WithExits(WithCode(built, currentBlock, jumps),
                               currentBlock, exits[1], exits[2])
        /\ currentBlock' = rhs
        /\ Proceed(<<Visit(task.node.kids[2]),
                     Task("merge", task.node, Labels(4), Temp)>>)
  /\ TakeTemp /\ NewBlocks(4)
  /\ values' = Without(1)
  /\ UNCHANGED <<source, scope>>

\* A slip: the result is set on one side only.
DecidedOnTrue(bs, label, n, join) ==
  Closed(IF n = 1 THEN WithCode(bs, label, <<Copy(Imm(n), task.name)>>) ELSE bs, label, join)

\* A block that sets the result and goes to the join.
Decided(bs, label, n, join) ==
  Closed(WithCode(bs, label, <<Copy(Imm(n), task.name)>>), label, join)

Merge ==
  /\ Doing("merge")
  /\ LET rhs   == task.labels[1]
         true  == task.labels[2]
         false == task.labels[3]
         join  == task.labels[4]
         jumps == <<CondJump(false, Operand(0)), Jump(true)>>
         built == WithExits(WithCode(blocks, currentBlock, jumps), rhs, true, false)
     IN /\ blocks' = Decided(Decided(built, true, 1, join), false, 0, join)
        /\ currentBlock' = join
  /\ values' = Append(Without(1), Name(task.name))
  /\ Proceed(<<>>)
  /\ UNCHANGED <<source, scope, nextBlock>> /\ NoTemp

(***************************************************************************)
(* Control statements.                                                     *)
(***************************************************************************)
\* The labels of an if are then, otherwise, join; without an else part
\* otherwise and join are one.
EvalCondition ==
  /\ Visiting({"If", "IfElse"})
  /\ LET n      == Len(task.node.kids)
         labels == Labels(n)
     IN /\ blocks' = WithNew(blocks, ToSet(labels))
        /\ Proceed(<<Visit(task.node.kids[1]), Task("then", task.node, labels, <<>>)>>)
        /\ NewBlocks(n)
  /\ UNCHANGED values /\ SamePlace /\ NoTemp

Then ==
  /\ Doing("then")
  /\ LET then      == task.labels[1]
         otherwise == task.labels[2]
         join      == Last(task.labels)
         jumps     == <<CondJump(otherwise, Operand(0)), Jump(then)>>
         part(k, next) == <<Visit(k), Task("end", task.node, <<join, next>>, <<>>)>>
     IN /\ blocks' = WithExits(WithCode(blocks, currentBlock, jumps),
                               currentBlock, then, otherwise)
        /\ currentBlock' = then
        /\ Proceed(part(task.node.kids[2], otherwise)
                     \o (IF task.node.kind = "If" THEN <<>>
                         ELSE part(task.node.kids[3], join)))
  /\ values' = Without(1)
  /\ UNCHANGED <<source, scope, nextBlock>> /\ NoTemp

\* A slip: the visitor goes on in the block it has just ended.
EndBranchStaying ==
  /\ Doing("end")
  /\ blocks' = Closed(blocks, currentBlock, task.labels[1])
  /\ currentBlock' = currentBlock
  /\ Proceed(<<>>)
  /\ UNCHANGED <<source, values, scope, nextBlock>> /\ NoTemp

EndBranch ==
  /\ Doing("end")
  /\ blocks' = Closed(blocks, currentBlock, task.labels[1])
  /\ currentBlock' = task.labels[2]
  /\ Proceed(<<>>)
  /\ UNCHANGED <<source, values, scope, nextBlock>> /\ NoTemp

\* The labels of a while are header, body, join, and later the block its
\* condition ends in.
BeginWhile ==
  /\ Visiting({"While"})
  /\ LET header == Label(0)
         body   == Label(1)
         built  == WithTrueExit(WithNew(blocks, ToSet(Labels(3))), body, header)
     IN /\ blocks' = Closed(built, currentBlock, header)
        /\ currentBlock' = header
        /\ Proceed(<<Visit(task.node.kids[1]),
                     Task("loop body", task.node, Labels(3), <<>>)>>)
  /\ NewBlocks(3)
  /\ UNCHANGED <<source, values, scope>> /\ NoTemp

\* A slip: the block the condition started in.
ConditionBlockStale == task.labels[1]

\* The block the condition ended in; its exits are set after the body.
ConditionBlock == currentBlock

\* A slip: the loop goes on when the condition fails.
LoopJumpsSwapped(body, join) == <<CondJump(body, Operand(0)), Jump(join)>>

LoopJumps(body, join) == <<CondJump(join, Operand(0)), Jump(body)>>

LoopBody ==
  /\ Doing("loop body")
  /\ Emit(LoopJumps(task.labels[2], task.labels[3]))
  /\ currentBlock' = task.labels[2]
  /\ Proceed(<<Visit(task.node.kids[2]),
               Task("loop end", task.node, Append(task.labels, ConditionBlock), <<>>)>>)
  /\ values' = Without(1)
  /\ UNCHANGED <<source, scope, nextBlock>> /\ NoTemp

LoopEnd ==
  /\ Doing("loop end")
  /\ LET header    == task.labels[1]
         body      == task.labels[2]
         join      == task.labels[3]
         condition == task.labels[4]
     IN /\ blocks' = WithExits(Closed(blocks, currentBlock, header), condition, body, join)
        /\ currentBlock' = join
  /\ Proceed(<<>>)
  /\ UNCHANGED <<source, values, scope, nextBlock>> /\ NoTemp

-----------------------------------------------------------------------------
Generate ==
  \/ BeginMethod
  \/ Leaf \/ New \/ EvalOperands \/ EvalSize
  \/ FinishStrict \/ FinishSized \/ FinishStatement \/ Statement
  \/ EvalCall \/ Param \/ FinishCall
  \/ EvalLeft \/ Branch \/ Merge
  \/ EvalCondition \/ Then \/ EndBranch
  \/ BeginWhile \/ LoopBody \/ LoopEnd

Generated == agenda = <<>>

Next == Generate \/ (Generated /\ UNCHANGED irVars)

Spec == Init /\ [][Next]_irVars

\* The graph that goes to the passes and to the code generator.
Graph == [methods |-> source, temps |-> temps, blocks |-> blocks]
-----------------------------------------------------------------------------
MadeLabels == {<<"block", n>> : n \in 0 .. nextBlock - 1} \cup DOMAIN temps
MadeTemps  == {<<"_t", n>> : n \in 0 .. nextTemp - 1}

IsOperand(o) == o.imm \in BOOLEAN /\ o.num \in Int /\ (o.imm => o.name = <<>>)

\* Every part of the generator's state has its type: labels and temporaries
\* come from the counters, and every exit and every jump names a made block.
TypeOK ==
  /\ \A v \in ToSet(values) : IsOperand(v)
  /\ DOMAIN blocks \subseteq MadeLabels
  /\ currentBlock \in DOMAIN blocks \cup {NoBlock}
  /\ \A b \in DOMAIN blocks :
       /\ Exits(blocks[b]) \cup Targets(blocks[b]) \subseteq DOMAIN blocks
       /\ \A t \in ToSet(blocks[b].code) :
            t.op \in TacOps /\ IsOperand(t.lhs) /\ IsOperand(t.rhs)
  /\ scope \in DOMAIN temps \cup {NoBlock}
  /\ UNION {temps[n] : n \in DOMAIN temps} = MadeTemps

\* Whatever the sources nest in whatever else, the exits that the passes and
\* the code generator follow are the jumps that the machine follows, in every
\* method without a && or || in the right operand of another (Merge links the
\* exits of a block that is no longer the current one).
ExitsAgree ==
  Generated => \A i \in DOMAIN source : ~RightNested(source[i].body) =>
    \A b \in Reachable(blocks, source[i].name, Targets) : ExitsFollowCode(blocks[b])

\* What README.md and the programs of test_files/assignment3_valid promise: a
\* program that compiles can be run; no emitted code jumps to a block that is not
\* emitted ("block ... not found" in Activation::step).
JumpsLand ==
  Generated => \A i \in DOMAIN source : LabelsEmitted(Graph, source[i])

\* On no path does the code of a method read a temporary that was not written
\* before: the result of a && or || is set whichever way its operands decide,
\* and no value is used outside the branch that computed it.
TempsDefined ==
  Generated => \A i \in DOMAIN source : TemporariesDefined(Graph, source[i])

\* Once the visitor has ended a block with a jump or a return it appends
\* nothing more to it: code after a transfer of control would be lost.
ClosedStaysClosed ==
  [][\A b \in DOMAIN blocks :
       EndsInJump(blocks[b]) => blocks'[b].code = blocks[b].code]_irVars
=============================================================================
