----------------------------- MODULE Toolchain ------------------------------
(***************************************************************************)
(* A program compiled and run (src/main.cpp, the back end, then            *)
(* src/vm/vm.cpp): the generator builds the graph, the passes of the       *)
(* IRPassManager rewrite it, one after the other, the code generator emits *)
(* it, and the machine loads and runs what was emitted.                    *)
(***************************************************************************)
EXTENDS IRGen, Folding

CONSTANT Heights(_)   \* see StackDiscipline

VARIABLES
  phase,   \* "generate", "fold constants", "fold jumps", "load", "run"
  pending, visited, place, env,  \* the constant folding pass
  names, left,                   \* the jump folding pass, with place
  program, current, activations, dataStack, objects, arrays, output, status

passVars == <<pending, visited, place, env, names, left>>
machineVars == <<program, current, activations, dataStack, objects, arrays,
                 output, status>>
allVars == <<irVars, phase, passVars, machineVars>>

MachineTexts == Seq(STRING \cup Nat)

ConstantFoldingPass        == INSTANCE ConstantFolding
ConditionalJumpFoldingPass == INSTANCE JumpFolding
Machine == INSTANCE Certificates WITH Text <- MachineTexts, Programs <- {}

NotBegun == /\ pending = <<>> /\ visited = {} /\ env = <<>>
            /\ place = ConstantFoldingPass!Nowhere
            /\ names = {} /\ left = {}

NotLoaded ==
  /\ program = <<>> /\ current = <<>> /\ activations = <<>> /\ dataStack = <<>>
  /\ objects = <<>> /\ arrays = <<>> /\ output = <<>> /\ status = "not loaded"

InitAll ==
  /\ Init
  /\ phase = "generate"
  /\ NotBegun /\ NotLoaded

Enter(next) == phase' = next
SameGraph == UNCHANGED <<source, agenda, values, currentBlock, scope, temps,
                         nextTemp, nextBlock>>

\* The visitor takes a step.
GenerateIR ==
  /\ phase = "generate" /\ Generate
  /\ UNCHANGED <<phase, passVars, machineVars>>

\* IRPassManager::run: one pass after the other, each to its end.
BeginConstantFolding ==
  /\ phase = "generate" /\ Generated
  /\ Enter("fold constants")
  /\ ConstantFoldingPass!Start(source)
  /\ UNCHANGED <<irVars, names, left, machineVars>>

FoldConstants ==
  /\ phase = "fold constants" /\ ConstantFoldingPass!Pass
  /\ SameGraph /\ UNCHANGED <<phase, names, left, machineVars>>

BeginJumpFolding ==
  /\ phase = "fold constants" /\ ConstantFoldingPass!PassDone
  /\ Enter("fold jumps")
  /\ ConditionalJumpFoldingPass!Start(source)
  /\ UNCHANGED <<irVars, pending, visited, env, machineVars>>

FoldJumps ==
  /\ phase = "fold jumps" /\ ConditionalJumpFoldingPass!Pass
  /\ SameGraph /\ UNCHANGED <<phase, pending, visited, env, machineVars>>

\* The compiler writes the program.
EmitBytecode ==
  /\ phase = "fold jumps" /\ ConditionalJumpFoldingPass!PassDone
  /\ Enter("load")
  /\ program' = GenerateBytecode(Graph)
  /\ UNCHANGED <<irVars, passVars, current, activations, dataStack, objects, arrays, output, status>>

\* The machine reads it and starts on its main method.
LoadProgram ==
  /\ phase = "load"
  /\ Enter("run")
  /\ current' = Machine!NewActivation(program, program.main)
  /\ status' = "running"
  /\ UNCHANGED <<irVars, passVars, program, activations, dataStack, objects, arrays, output>>

Execute ==
  /\ phase = "run"
  /\ Machine!Step
  /\ UNCHANGED <<irVars, phase, passVars>>

Ended == phase = "run" /\ status # "running" /\ UNCHANGED allVars

Step == GenerateIR \/ BeginConstantFolding \/ FoldConstants \/ BeginJumpFolding
          \/ FoldJumps \/ EmitBytecode \/ LoadProgram \/ Execute

NextAll == Step \/ Ended

SpecAll == InitAll /\ [][NextAll]_allVars

\* Compiler and machine are sequential programs that nothing preempts.
FairSpecAll == SpecAll /\ WF_allVars(Step)
-----------------------------------------------------------------------------
OutsideShortCircuits == \A m \in ToSet(source) : ~RightNested(m.body)

\* What the passes leave behind is still coherent: in every method the exits
\* are the jumps, the temporaries are written before they are read, and no
\* conditional jump has a constant condition any more.
PassesCoherent ==
  phase = "load" /\ OutsideShortCircuits =>
    \A i \in DOMAIN source :
      /\ TemporariesDefined(Graph, source[i])
      /\ \A b \in ReachableBlocks(blocks, source[i].name) :
           /\ ExitsFollowCode(blocks[b])
           /\ \A t \in ToSet(blocks[b].code) : t.op = "CJMP" => ~t.lhs.imm

\* The program the machine loads meets the contract of StackDiscipline:
\* labels, methods and variables resolve, every block ends in a transfer of
\* control, and receivers, arguments and results balance on the data stack
\* whatever calls and short circuits the arguments contain.
EmitsVerified ==
  phase = "load" /\ OutsideShortCircuits => Machine!Verified(program)

\* Every method at work, the one that executes and those that wait for a call to
\* return, runs on an object of its own class, however calls between objects of
\* different classes are nested: a receiver reaches its method over the data stack,
\* where it lies among arguments, which may be objects as well.
RunsOnOwnClass(frame) ==
  /\ frame.this \in DOMAIN objects
  /\ objects[frame.this].class = ClassOf(frame.method)

ReceiverTyped ==
  /\ \A frame \in ToSet(activations) : frame.method # program.main => RunsOnOwnClass(frame)
  /\ phase = "run" /\ current.this # 0 => RunsOnOwnClass(current)
=============================================================================
