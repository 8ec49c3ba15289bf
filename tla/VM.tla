--------------------------------- MODULE VM ---------------------------------
(***************************************************************************)
(* The stack machine that executes a compiled MiniJava program             *)
(* (src/vm/vm.cpp).  One action per opcode of VM::run; an exception, an    *)
(* early return or a fatal signal ends the run and is recorded in status.  *)
(***************************************************************************)
EXTENDS Bytecode, Arithmetic

CONSTANTS
  Text,      \* every string that may occur in a bytecode file
  Programs   \* the programs the machine may be started on

Instruction == [op : Opcodes, num : Value, str : Text]

ASSUME TextAssumption     == This \in Text

(***************************************************************************)
(* A method lists its local variables, the variables of its class, and its *)
(* blocks by label.  A program maps the names of all its methods, the main *)
(* method included, to methods.                                            *)
(***************************************************************************)
IsMethod(m) ==
  /\ m.locals \subseteq Text
  /\ m.fields \subseteq Text
  /\ DOMAIN m.blocks \subseteq Text
  /\ \A b \in DOMAIN m.blocks : m.blocks[b] \in Seq(Instruction)

IsProgram(p) ==
  /\ p.main \in DOMAIN p.methods
  /\ DOMAIN p.methods \subseteq Text
  /\ \A m \in DOMAIN p.methods : IsMethod(p.methods[m])

ASSUME ProgramsAssumption == \A p \in Programs : IsProgram(p)

VARIABLES
  program,      \* the program loaded, never changed
  current,      \* currentActivation: the executing method's activation
  activations,  \* the suspended callers, innermost last
  dataStack,    \* the operand stack shared by all activations
  objects,      \* heap of objects; object i has reference i
  arrays,       \* heap of arrays; array i has reference i
  output,       \* the values printed
  status        \* "running", "stopped", or why the run ended

vars == <<program, current, activations, dataStack, objects, arrays, output,
          status>>

heap == <<objects, arrays>>

(***************************************************************************)
(* How a run can end.  "trap" is SIGFPE; "no caller" stands for RET with   *)
(* no suspended activation, where the code reads the top of an empty       *)
(* std::stack.                                                             *)
(***************************************************************************)
ControlFaults == {"no block", "pc out of bounds", "no method", "no caller"}
LookupFaults  == {"no variable"}
ObjectFaults  == {"no this", "bad object", "no field"}
ArrayFaults   == {"bad array", "bad index", "negative length"}
Status == {"running", "stopped", "empty stack", "trap"}
            \cup ControlFaults \cup LookupFaults \cup ObjectFaults
            \cup ArrayFaults

-----------------------------------------------------------------------------
(***************************************************************************)
(* Reading the machine's state.                                            *)
(***************************************************************************)
MethodOf(frame) == program.methods[frame.method]

\* A slip: the activation of the caller's method, not of the callee's.
NewActivationOfMain(p, method) ==
  [method |-> method, block |-> method, pc |-> 0,
   locals |-> [n \in p.methods[p.main].locals |-> 0], this |-> 0]

NewActivation(p, method) ==
  [method |-> method, block |-> method, pc |-> 0,
   locals |-> [n \in p.methods[method].locals |-> 0], this |-> 0]

HasBlock(frame) == frame.block \in DOMAIN MethodOf(frame).blocks
BlockOf(frame)  == MethodOf(frame).blocks[frame.block]
InBlock(frame)  == HasBlock(frame) /\ frame.pc < Len(BlockOf(frame))

Instr == BlockOf(current)[current.pc + 1]
Arg(k) == dataStack[Len(dataStack) - k]          \* Arg(0) is the top
Dropped(k) == SubSeq(dataStack, 1, Len(dataStack) - k)
Advanced == [current EXCEPT !.pc = @ + 1]

Running == status = "running"

\* step() delivers an instruction, and its pops all succeed.
Executing(ops) ==
  /\ Running
  /\ InBlock(current)
  /\ Instr.op \in ops
  /\ Len(dataStack) >= Pops(Instr.op)

IsObject(v) == v \in 1 .. Len(objects)
IsArray(v)  == v \in 1 .. Len(arrays)

\* A class's variables are those of its methods, whichever they are.
ClassFields(p, class) ==
  UNION {p.methods[m].fields : m \in {m \in DOMAIN p.methods : ClassOf(m) = class}}

-----------------------------------------------------------------------------
(***************************************************************************)
(* Starting and ending a run.                                              *)
(***************************************************************************)
Init ==
  /\ program \in Programs
  /\ current = NewActivation(program, program.main)
  /\ activations = <<>>
  /\ dataStack = <<>>
  /\ objects = <<>>
  /\ arrays = <<>>
  /\ output = <<>>
  /\ status = "running"

\* The run ends with this status after n values were popped.
Halt(reason, n) ==
  /\ status' = reason
  /\ dataStack' = Dropped(n)
  /\ current' = Advanced
  /\ UNCHANGED <<program, activations, heap, output>>

\* The rest of a step that pops n values and pushes the values of pushed.
Continue(n, pushed) ==
  /\ dataStack' = Dropped(n) \o pushed
  /\ current' = Advanced
  /\ UNCHANGED <<program, activations, status>>

\* A slip: step() does nothing when there is no block of the current name.
FetchFaultQuiet ==
  /\ Running
  /\ ~InBlock(current)
  /\ status' = IF HasBlock(current) THEN "pc out of bounds" ELSE "running"
  /\ UNCHANGED <<program, current, activations, dataStack, heap, output>>

\* step() finds no block of the current name, or no instruction left in it.
FetchFault ==
  /\ Running
  /\ ~InBlock(current)
  /\ status' = IF HasBlock(current) THEN "pc out of bounds" ELSE "no block"
  /\ UNCHANGED <<program, current, activations, dataStack, heap, output>>

\* pop() on an empty data stack, at the first, second or third pop.
StackUnderflow ==
  /\ Running
  /\ InBlock(current)
  /\ Len(dataStack) < Pops(Instr.op)
  /\ Halt("empty stack", Len(dataStack))

Stop ==
  /\ Executing({"STOP"})
  /\ Halt("stopped", 0)

-----------------------------------------------------------------------------
(***************************************************************************)
(* Control transfer.                                                       *)
(***************************************************************************)
Ret ==
  /\ Executing({"RET"})
  /\ \/ /\ activations = <<>>
        /\ Halt("no caller", 0)
     \/ /\ activations # <<>>
        /\ current' = activations[Len(activations)]
        /\ activations' = SubSeq(activations, 1, Len(activations) - 1)
        /\ UNCHANGED <<program, dataStack, heap, output, status>>

\* The map of methods does not hold the main method.  When the lookup fails
\* the run ends with currentActivation null and the caller already pushed.
Callable == DOMAIN program.methods \ {program.main}

Call ==
  /\ Executing({"CALL"})
  /\ activations' = Append(activations, Advanced)
  /\ \/ /\ Instr.str \in Callable
        /\ current' = NewActivation(program, Instr.str)
        /\ status' = status
     \/ /\ Instr.str \notin Callable
        /\ status' = "no method"
        /\ current' = current
  /\ UNCHANGED <<program, dataStack, heap, output>>

\* A slip: the instruction counter survives the jump.
JumpKeepingCounter(label) == [current EXCEPT !.block = label]

\* setCurrentBlock also restarts the block's instruction counter.
JumpTo(label) == [current EXCEPT !.block = label, !.pc = 0]

Jmp ==
  /\ Executing({"JMP"})
  /\ current' = JumpTo(Instr.str)
  /\ UNCHANGED <<program, activations, dataStack, heap, output, status>>

\* A slip: the condition stays on the stack.
CjmpPeeking ==
  /\ Executing({"CJMP"})
  /\ dataStack' = dataStack
  /\ \/ Arg(0) = 0 /\ current' = JumpTo(Instr.str)
     \/ Arg(0) # 0 /\ current' = Advanced
  /\ UNCHANGED <<program, activations, heap, output, status>>

Cjmp ==
  /\ Executing({"CJMP"})
  /\ dataStack' = Dropped(1)
  /\ \/ Arg(0) = 0 /\ current' = JumpTo(Instr.str)
     \/ Arg(0) # 0 /\ current' = Advanced
  /\ UNCHANGED <<program, activations, heap, output, status>>

(***************************************************************************)
(* Operators, constants, output.                                           *)
(***************************************************************************)
Binary ==
  /\ Executing(BinaryOps)
  /\ LET y == Arg(1)
         x == Arg(0)
     IN \/ /\ Instr.op = "DIV" /\ Traps(y, x)
           /\ Halt("trap", 2)
        \/ /\ ~(Instr.op = "DIV" /\ Traps(y, x))
           /\ Continue(2, <<Compute(Instr.op, y, x)>>)
           /\ UNCHANGED <<heap, output>>

Not ==
  /\ Executing({"NOT"})
  /\ Continue(1, <<Bool(Arg(0) = 0)>>)
  /\ UNCHANGED <<heap, output>>

PushConst ==
  /\ Executing({"CONST"})
  /\ Continue(0, <<Instr.num>>)
  /\ UNCHANGED <<heap, output>>

PrintTop ==
  /\ Executing({"PRINT"})
  /\ output' = Append(output, Arg(0))
  /\ Continue(1, <<>>)
  /\ UNCHANGED heap

(***************************************************************************)
(* Variables.  A name is a local variable if the activation has one, then  *)
(* a variable of the class: "this" itself, or a field of the object that   *)
(* "this" refers to.                                                       *)
(***************************************************************************)
IsLocal(name) == name \in DOMAIN current.locals
IsThis(name)  == ~IsLocal(name) /\ name \in MethodOf(current).fields /\ name = This
IsField(name) == ~IsLocal(name) /\ name \in MethodOf(current).fields /\ name # This

\* Why a variable cannot be reached; "running" when it can.
AccessFault(name) ==
  IF IsLocal(name) \/ IsThis(name) THEN "running"
  ELSE IF ~IsField(name)           THEN "no variable"
  ELSE IF current.this = 0         THEN "no this"
  ELSE IF IsObject(current.this)   THEN "running" ELSE "bad object"

HasField(name) == name \in DOMAIN objects[current.this].fields

Load ==
  /\ Executing({"LOAD"})
  /\ LET name == Instr.str IN
     \/ /\ IsLocal(name)
        /\ Continue(0, <<current.locals[name]>>)
        /\ UNCHANGED <<heap, output>>
     \/ /\ IsThis(name)
        /\ Continue(0, <<current.this>>)
        /\ UNCHANGED <<heap, output>>
     \/ /\ IsField(name)
        /\ AccessFault(name) = "running"
        /\ HasField(name)
        /\ Continue(0, <<objects[current.this].fields[name]>>)
        /\ UNCHANGED <<heap, output>>
     \/ /\ IsField(name)
        /\ AccessFault(name) = "running"
        /\ ~HasField(name)
        /\ Halt("no field", 0)
     \/ /\ AccessFault(name) # "running"
        /\ Halt(AccessFault(name), 0)

\* f with f[x] = v, whether or not x was in f's domain.
With(f, x, v) == [y \in DOMAIN f \cup {x} |-> IF y = x THEN v ELSE f[y]]

Store ==
  /\ Executing({"STORE"})
  /\ LET name == Instr.str
         popped == UNCHANGED <<program, activations, output, status>>
                   /\ dataStack' = Dropped(1)
     IN
     \/ /\ IsLocal(name)
        /\ current' = [Advanced EXCEPT !.locals[name] = Arg(0)]
        /\ popped
        /\ UNCHANGED heap
     \/ /\ IsThis(name)
        /\ current' = [Advanced EXCEPT !.this = Arg(0)]
        /\ popped
        /\ UNCHANGED heap
     \/ /\ IsField(name)
        /\ AccessFault(name) = "running"
        /\ objects' = [objects EXCEPT ![current.this].fields = With(@, name, Arg(0))]
        /\ current' = Advanced
        /\ popped
        /\ UNCHANGED arrays
     \/ /\ AccessFault(name) # "running"
        /\ Halt(AccessFault(name), 1)

(***************************************************************************)
(* The heap.                                                               *)
(***************************************************************************)
FreshObject(class) ==
  [class |-> class,
   fields |-> [n \in ClassFields(program, class) \ {This} |-> 0]]

New ==
  /\ Executing({"NEW"})
  /\ objects' = Append(objects, FreshObject(Instr.str))
  /\ Continue(0, <<Wrap(Len(objects) + 1)>>)
  /\ UNCHANGED <<arrays, output>>

NewArray ==
  /\ Executing({"NEW_ARRAY"})
  /\ \/ /\ Arg(0) < 0
        /\ Halt("negative length", 1)
     \/ /\ Arg(0) >= 0
        /\ arrays' = Append(arrays, [i \in 1 .. Arg(0) |-> 0])
        /\ Continue(1, <<Wrap(Len(arrays) + 1)>>)
        /\ UNCHANGED <<objects, output>>

\* Why element index of array ref cannot be reached; "running" when it can.
ElementFault(ref, index) ==
  IF ~IsArray(ref) THEN "bad array"
  ELSE IF index \in 0 .. Len(arrays[ref]) - 1 THEN "running" ELSE "bad index"

ArrayLoad ==
  /\ Executing({"ARRAY_LOAD"})
  /\ LET fault == ElementFault(Arg(1), Arg(0)) IN
     \/ /\ fault # "running"
        /\ Halt(fault, 2)
     \/ /\ fault = "running"
        /\ Continue(2, <<arrays[Arg(1)][Arg(0) + 1]>>)
        /\ UNCHANGED <<heap, output>>

ArrayStore ==
  /\ Executing({"ARRAY_STORE"})
  /\ LET fault == ElementFault(Arg(2), Arg(1)) IN
     \/ /\ fault # "running"
        /\ Halt(fault, 3)
     \/ /\ fault = "running"
        /\ arrays' = [arrays EXCEPT ![Arg(2)][Arg(1) + 1] = Arg(0)]
        /\ Continue(3, <<>>)
        /\ UNCHANGED <<objects, output>>

ArrayLength ==
  /\ Executing({"ARRAY_LENGTH"})
  /\ \/ /\ ~IsArray(Arg(0))
        /\ Halt("bad array", 1)
     \/ /\ IsArray(Arg(0))
        /\ Continue(1, <<Wrap(Len(arrays[Arg(0)]))>>)
        /\ UNCHANGED <<heap, output>>

-----------------------------------------------------------------------------
Step ==
  \/ FetchFault \/ StackUnderflow \/ Stop
  \/ Ret \/ Call \/ Jmp \/ Cjmp
  \/ Binary \/ Not \/ PushConst \/ PrintTop
  \/ Load \/ Store
  \/ New \/ NewArray \/ ArrayLoad \/ ArrayStore \/ ArrayLength

\* The process has ended.
Ended == ~Running /\ UNCHANGED vars

Next == Step \/ Ended

Spec == Init /\ [][Next]_vars

\* run() is a loop that nothing preempts: while a step is possible it is taken.
FairSpec == Spec /\ WF_vars(Step)

-----------------------------------------------------------------------------
(***************************************************************************)
(* Type correctness.                                                       *)
(***************************************************************************)
IsFrame(f) ==
  \E m \in DOMAIN program.methods :
    f \in [method : {m}, block : Text, pc : Nat,
          locals : [program.methods[m].locals -> Value], this : Value]

IsInstance(o) ==
  /\ DOMAIN o = {"class", "fields"}
  /\ o.class \in Text
  /\ DOMAIN o.fields \subseteq Text
  /\ \A n \in DOMAIN o.fields : o.fields[n] \in Value

\* Every part of the machine's state has its type; in particular an
\* activation holds exactly the local variables its method declares.
TypeOK ==
  /\ IsProgram(program)
  /\ IsFrame(current)
  /\ \A i \in DOMAIN activations : IsFrame(activations[i])
  /\ dataStack \in Seq(Value)
  /\ \A i \in DOMAIN objects : IsInstance(objects[i])
  /\ arrays \in Seq(Seq(Value))
  /\ output \in Seq(Value)
  /\ status \in Status

(***************************************************************************)
(* What the code generator owes the machine.  Every method has the block   *)
(* of its own name; every block ends in a transfer of control; jumps stay  *)
(* inside the method; calls and variables resolve; main never returns.     *)
(***************************************************************************)
InstructionsOf(m) == UNION {{m.blocks[b][i] : i \in 1 .. Len(m.blocks[b])} :
                            b \in DOMAIN m.blocks}

EndsInTransfer(code) ==
  code # <<>> /\ code[Len(code)].op \in {"JMP", "RET", "STOP"}

Resolves(p, name, instr) ==
  LET m == p.methods[name] IN
  /\ instr.op \in {"JMP", "CJMP"}   => instr.str \in DOMAIN m.blocks
  /\ instr.op = "CALL"              => instr.str \in DOMAIN p.methods \ {p.main}
  /\ instr.op \in {"LOAD", "STORE"} => instr.str \in m.locals \cup m.fields
  /\ instr.op = "RET"               => name # p.main

WellFormed(p) ==
  \A name \in DOMAIN p.methods :
    LET m == p.methods[name] IN
    /\ name \in DOMAIN m.blocks
    /\ \A b \in DOMAIN m.blocks : EndsInTransfer(m.blocks[b])
    /\ \A instr \in InstructionsOf(m) : Resolves(p, name, instr)

\* A well-formed program never runs into a missing block, method or variable,
\* past the end of a block, or into a return with nobody to return to
\* (the checks of Activation::step, getMethodActivation, RET and the last
\* throw of getVariableValue and setVariableValue).
NoControlFault == WellFormed(program) => status \notin ControlFaults \cup LookupFaults
=============================================================================
