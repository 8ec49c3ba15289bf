----------------------------- MODULE VM_proofs ------------------------------
(***************************************************************************)
(* Proofs about the virtual machine: every part of its state keeps its     *)
(* type, a well-formed program never meets a control fault, a verified one *)
(* never pops an empty data stack (StackDiscipline), and the machine with  *)
(* its one stack implements the one where every activation has a stack of  *)
(* its own (OwnStacks).  And about the file that brings it its program:    *)
(* read whole it is the program that was written, and read in part it is   *)
(* still a program.                                                        *)
(***************************************************************************)
EXTENDS SharedStack, Delivery, SequenceLemmas

(***************************************************************************)
(* The type invariant in the form the proofs use, with sets in place of    *)
(* the predicates of TypeOK.                                               *)
(***************************************************************************)
FramesOf(m) == [method : {m}, block : Text, pc : Nat,
                locals : [program.methods[m].locals -> Value], this : Value]
Frames      == UNION {FramesOf(m) : m \in DOMAIN program.methods}
FieldMaps   == UNION {[names -> Value] : names \in SUBSET Text}
Instances   == [class : Text, fields : FieldMaps]

TypeInv ==
  /\ IsProgram(program)
  /\ current \in Frames
  /\ activations \in Seq(Frames)
  /\ dataStack \in Seq(Value)
  /\ objects \in Seq(Instances)
  /\ arrays \in Seq(Seq(Value))
  /\ output \in Seq(Value)
  /\ status \in Status

-----------------------------------------------------------------------------
(***************************************************************************)
(* Values.                                                                 *)
(***************************************************************************)
LEMMA WrapInValue ==
  ASSUME NEW v \in Int
  PROVE  Wrap(v) \in Value
<1>1. HalfWord \in Nat \ {0}
  BY HalfWordAssumption
<1>2. 2 * HalfWord \in Nat \ {0}
  BY <1>1
<1>3. \A a \in Int, b \in Nat \ {0} : a % b \in 0 .. b - 1
  OBVIOUS
<1>4. (v + HalfWord) % (2 * HalfWord) \in 0 .. 2 * HalfWord - 1
  BY <1>1, <1>2, <1>3
<1> DEFINE r == (v + HalfWord) % (2 * HalfWord)
<1>5. r \in Int /\ 0 <= r /\ r <= 2 * HalfWord - 1
  BY <1>1, <1>4
<1> HIDE DEF r
<1>6. r - HalfWord \in -HalfWord .. HalfWord - 1
  BY <1>1, <1>5
<1>7. QED
  BY <1>6 DEF r, Wrap, Value

LEMMA SmallValues == 0 \in Value /\ 1 \in Value /\ Value \subseteq Int
  BY HalfWordAssumption DEF Value

LEMMA QuotientInt ==
  ASSUME NEW y \in Int, NEW x \in Int, x # 0
  PROVE  Quotient(y, x) \in Int
<1>1. Abs(y) \in Nat /\ Abs(x) \in Nat \ {0}
  BY DEF Abs
<1>2. \A a \in Nat, b \in Nat \ {0} : a \div b \in Int
  OBVIOUS
<1>3. Abs(y) \div Abs(x) \in Int
  BY <1>1, <1>2
<1> DEFINE q == Abs(y) \div Abs(x)
<1>4. q \in Int
  BY <1>3
<1> HIDE DEF q
<1>5. (IF (y < 0) = (x < 0) THEN q ELSE -q) \in Int
  BY <1>4
<1>6. QED
  BY <1>5 DEF q, Quotient

LEMMA ComputeInValue ==
  ASSUME NEW y \in Value, NEW x \in Value, NEW op \in BinaryOps,
         ~(op = "DIV" /\ Traps(y, x))
  PROVE  Compute(op, y, x) \in Value
<1>1. y \in Int /\ x \in Int
  BY SmallValues
<1>2. /\ Bool(y < x) \in Value
      /\ Bool(y > x) \in Value
      /\ Bool(y = x) \in Value
      /\ Bool(Wrap(y * x) # 0) \in Value
      /\ Bool(Wrap(y + x) # 0) \in Value
  BY SmallValues DEF Bool
<1>3. y + x \in Int /\ y - x \in Int /\ y * x \in Int
  BY <1>1
<1>4. CASE op = "DIV"
  <2>1. Quotient(y, x) \in Int
    BY <1>1, <1>4, QuotientInt DEF Traps
  <2>2. QED
    BY <2>1, <1>4, WrapInValue DEF Compute
<1>5. CASE op = "ADD"
  BY <1>3, <1>5, WrapInValue DEF Compute
<1>6. CASE op = "SUB"
  BY <1>3, <1>6, WrapInValue DEF Compute
<1>7. CASE op = "MUL"
  BY <1>3, <1>7, WrapInValue DEF Compute
<1>8. CASE op \in {"LT", "GT", "EQ", "AND", "OR"}
  BY <1>2, <1>8, Zenon DEF Compute
<1>9. QED
  BY <1>4, <1>5, <1>6, <1>7, <1>8 DEF BinaryOps

LEMMA PrefixProperties ==
  ASSUME NEW S, NEW seq \in Seq(S), NEW k \in 0 .. Len(seq)
  PROVE  /\ SubSeq(seq, 1, k) \in Seq(S)
         /\ Len(SubSeq(seq, 1, k)) = k
         /\ \A i \in 1 .. k : SubSeq(seq, 1, k)[i] = seq[i]
<1>1. \A i \in 1 .. k : seq[i] \in S
  BY LenProperties, ElementOfSeq
<1>2. k \in Nat
  BY LenProperties
<1>3. QED
  BY <1>1, <1>2, SubSeqProperties

LEMMA PopsValues ==
  /\ Pops("ARRAY_STORE") = 3
  /\ \A op \in TwoOperands : Pops(op) = 2
  /\ \A op \in OneOperand : Pops(op) = 1
  /\ \A op \in {"RET", "STOP", "CALL", "JMP", "CONST", "LOAD", "NEW"} : Pops(op) = 0
BY DEF Pops, TwoOperands, OneOperand, BinaryOps

-----------------------------------------------------------------------------
(***************************************************************************)
(* Parts of the state, and what a step builds from them.                   *)
(***************************************************************************)
LEMMA StatusValues ==
  Status = {"running", "stopped", "empty stack", "trap", "no block",
            "pc out of bounds", "no method", "no caller", "no variable",
            "no this", "bad object", "no field", "bad array", "bad index",
            "negative length"}
BY DEF Status, ControlFaults, LookupFaults, ObjectFaults, ArrayFaults

LEMMA FrameParts ==
  ASSUME NEW f \in Frames
  PROVE  /\ f.method \in DOMAIN program.methods
         /\ f \in FramesOf(f.method)
BY DEF Frames, FramesOf

LEMMA NewActivationFrame ==
  ASSUME IsProgram(program), NEW m \in DOMAIN program.methods
  PROVE  NewActivation(program, m) \in Frames
<1>1. m \in Text
  BY DEF IsProgram
<1>2. NewActivation(program, m) \in FramesOf(m)
  BY <1>1, SmallValues DEF NewActivation, FramesOf
<1>3. QED
  BY <1>2 DEF Frames

LEMMA AdvancedFrame ==
  ASSUME current \in Frames
  PROVE  Advanced \in Frames
<1>1. PICK m \in DOMAIN program.methods : current \in FramesOf(m)
  BY DEF Frames
<1>2. Advanced \in FramesOf(m)
  BY <1>1 DEF Advanced, FramesOf
<1>3. QED
  BY <1>2 DEF Frames

LEMMA JumpFrame ==
  ASSUME current \in Frames, NEW label \in Text
  PROVE  JumpTo(label) \in Frames
<1>1. PICK m \in DOMAIN program.methods : current \in FramesOf(m)
  BY DEF Frames
<1>2. JumpTo(label) \in FramesOf(m)
  BY <1>1 DEF JumpTo, FramesOf
<1>3. QED
  BY <1>2 DEF Frames

LEMMA InstrType ==
  ASSUME TypeInv, InBlock(current)
  PROVE  Instr \in Instruction
<1> DEFINE code == BlockOf(current)
<1>1. code \in Seq(Instruction)
  <2>1. IsMethod(MethodOf(current))
    BY FrameParts DEF TypeInv, IsProgram, MethodOf
  <2>2. QED
    BY <2>1 DEF InBlock, HasBlock, BlockOf, IsMethod
<1>2. current.pc \in Nat /\ current.pc < Len(code)
  BY FrameParts DEF TypeInv, FramesOf, InBlock
<1>3. current.pc + 1 \in 1 .. Len(code)
  BY <1>1, <1>2, LenProperties
<1>4. QED
  BY <1>1, <1>3, ElementOfSeq DEF Instr

LEMMA StackParts ==
  ASSUME TypeInv, NEW n \in Nat, n <= Len(dataStack)
  PROVE  /\ Dropped(n) \in Seq(Value)
         /\ Len(Dropped(n)) = Len(dataStack) - n
         /\ \A k \in 0 .. n - 1 : Arg(k) \in Value
<1>1. Len(dataStack) \in Nat
  BY LenProperties DEF TypeInv
<1>2. Dropped(n) \in Seq(Value) /\ Len(Dropped(n)) = Len(dataStack) - n
  <2>1. Len(dataStack) - n + 1 >= 1 /\ Len(dataStack) - n <= Len(dataStack)
    BY <1>1
  <2>2. QED
    BY <1>1, SubSeqProperties DEF Dropped, TypeInv
<1>3. ASSUME NEW k \in 0 .. n - 1
      PROVE  Arg(k) \in Value
  <2>1. Len(dataStack) - k \in 1 .. Len(dataStack)
    BY <1>1
  <2>2. QED
    BY <2>1, ElementOfSeq DEF Arg, TypeInv
<1>4. QED
  BY <1>2, <1>3

LEMMA Pushed ==
  ASSUME TypeInv, NEW n \in Nat, n <= Len(dataStack), NEW v \in Value
  PROVE  /\ Dropped(n) \o <<v>> \in Seq(Value)
         /\ Dropped(n) \o << >> \in Seq(Value)
<1>1. Dropped(n) \in Seq(Value)
  BY StackParts
<1>2. <<v>> \in Seq(Value) /\ << >> \in Seq(Value)
  OBVIOUS
<1>3. QED
  BY <1>1, <1>2, ConcatProperties

-----------------------------------------------------------------------------
(***************************************************************************)
(* Type correctness, step by step.                                         *)
(***************************************************************************)
LEMMA SameFrames ==
  ASSUME program' = program
  PROVE  Frames' = Frames
BY DEF Frames, FramesOf

LEMMA HaltType ==
  ASSUME TypeInv, NEW n \in Nat, n <= Len(dataStack),
         NEW reason \in Status, Halt(reason, n)
  PROVE  TypeInv'
<1>1. dataStack' \in Seq(Value) /\ current' \in Frames
  BY StackParts, AdvancedFrame DEF Halt, TypeInv
<1>2. QED
  BY <1>1, SameFrames DEF Halt, TypeInv, heap

LEMMA ContinueType ==
  ASSUME TypeInv, NEW n \in Nat, n <= Len(dataStack), NEW v \in Value,
         Continue(n, <<v>>) \/ Continue(n, << >>),
         objects' \in Seq(Instances), arrays' \in Seq(Seq(Value)),
         output' \in Seq(Value)
  PROVE  TypeInv'
<1>1. dataStack' \in Seq(Value) /\ current' \in Frames
  BY Pushed, AdvancedFrame DEF Continue, TypeInv
<1>2. QED
  BY <1>1, SameFrames DEF Continue, TypeInv

\* What an action may assume once its instruction is executing.
LEMMA ExecutingParts ==
  ASSUME TypeInv, NEW ops, Executing(ops)
  PROVE  /\ Instr \in Instruction
         /\ Instr.op \in ops
         /\ Pops(Instr.op) <= Len(dataStack)
         /\ Len(dataStack) \in Nat
         /\ current \in Frames
         /\ program' = program => Frames' = Frames
         /\ status = "running"
<1>1. Instr \in Instruction
  BY InstrType DEF Executing
<1>2. Len(dataStack) \in Nat
  BY LenProperties DEF TypeInv
<1>3. QED
  BY <1>1, <1>2, SameFrames DEF Executing, Running, TypeInv

LEMMA FaultsTyped ==
  /\ \A name : AccessFault(name) \in Status
  /\ \A ref, index : ElementFault(ref, index) \in Status
BY StatusValues DEF AccessFault, ElementFault

LEMMA FetchFaultType ==
  ASSUME TypeInv, FetchFault
  PROVE  TypeInv'
BY SameFrames, StatusValues DEF FetchFault, TypeInv, heap

LEMMA StackUnderflowType ==
  ASSUME TypeInv, StackUnderflow
  PROVE  TypeInv'
<1>1. Halt("empty stack", Len(dataStack))
  BY DEF StackUnderflow
<1>2. Len(dataStack) \in Nat /\ Len(dataStack) <= Len(dataStack)
  BY LenProperties DEF TypeInv
<1>3. "empty stack" \in Status
  BY StatusValues
<1>4. QED
  BY <1>1, <1>2, <1>3, HaltType

LEMMA StopType ==
  ASSUME TypeInv, Stop
  PROVE  TypeInv'
<1>1. Halt("stopped", 0)
  BY DEF Stop
<1>2. 0 <= Len(dataStack)
  BY ExecutingParts DEF Stop
<1>3. "stopped" \in Status
  BY StatusValues
<1>4. QED
  BY <1>1, <1>2, <1>3, HaltType

LEMMA RetType ==
  ASSUME TypeInv, Ret
  PROVE  TypeInv'
<1>1. Len(dataStack) \in Nat /\ 0 <= Len(dataStack)
  BY LenProperties DEF TypeInv
<1>2. CASE activations = << >>
  <2>1. Halt("no caller", 0)
    BY <1>2 DEF Ret
  <2>2. "no caller" \in Status
    BY StatusValues
  <2>3. QED
    BY <1>1, <2>1, <2>2, HaltType
<1>3. CASE activations # << >>
  <2>1. Len(activations) \in Nat \ {0}
    BY <1>3, EmptySeq DEF TypeInv
  <2>2. activations[Len(activations)] \in Frames
    BY <2>1, ElementOfSeq DEF TypeInv
  <2>3. SubSeq(activations, 1, Len(activations) - 1) \in Seq(Frames)
    BY <2>1, SubSeqProperties DEF TypeInv
  <2>4. /\ current' = activations[Len(activations)]
        /\ activations' = SubSeq(activations, 1, Len(activations) - 1)
        /\ UNCHANGED <<program, dataStack, heap, output, status>>
    BY <1>3 DEF Ret
  <2>5. QED
    BY <2>2, <2>3, <2>4, SameFrames DEF TypeInv, heap
<1>4. QED
  BY <1>2, <1>3

LEMMA CallType ==
  ASSUME TypeInv, Call
  PROVE  TypeInv'
<1>1. program' = program /\ Frames' = Frames
  BY SameFrames DEF Call
<1>2. activations' \in Seq(Frames)
  BY AdvancedFrame, AppendProperties DEF Call, TypeInv
<1>3. current' \in Frames
  BY NewActivationFrame DEF Call, Callable, TypeInv
<1>4. status' \in Status
  BY StatusValues DEF Call, TypeInv
<1>5. QED
  BY <1>1, <1>2, <1>3, <1>4 DEF Call, TypeInv, heap

LEMMA JmpType ==
  ASSUME TypeInv, Jmp
  PROVE  TypeInv'
<1>1. Instr.str \in Text
  BY ExecutingParts DEF Jmp, Instruction
<1>2. current' \in Frames
  BY <1>1, JumpFrame DEF Jmp, TypeInv
<1>3. QED
  BY <1>2, SameFrames DEF Jmp, TypeInv, heap

LEMMA CjmpType ==
  ASSUME TypeInv, Cjmp
  PROVE  TypeInv'
<1>1. Instr.str \in Text /\ Len(dataStack) >= 1
  BY ExecutingParts, PopsValues DEF Cjmp, Instruction, OneOperand
<1>2. current' \in Frames
  BY <1>1, JumpFrame, AdvancedFrame DEF Cjmp, TypeInv
<1>3. dataStack' \in Seq(Value)
  BY <1>1, StackParts DEF Cjmp
<1>4. QED
  BY <1>2, <1>3, SameFrames DEF Cjmp, TypeInv, heap

LEMMA BinaryType ==
  ASSUME TypeInv, Binary
  PROVE  TypeInv'
<1> DEFINE y == Arg(1)
           x == Arg(0)
<1>1. Instr.op \in BinaryOps /\ Len(dataStack) >= 2 /\ Len(dataStack) \in Nat
  BY ExecutingParts, PopsValues DEF Binary, TwoOperands
<1>2. y \in Value /\ x \in Value
  BY <1>1, StackParts
<1>3. CASE Instr.op = "DIV" /\ Traps(y, x)
  <2>1. Halt("trap", 2)
    BY <1>3 DEF Binary
  <2>2. "trap" \in Status
    BY StatusValues
  <2>3. QED
    BY <1>1, <2>1, <2>2, HaltType
<1>4. CASE ~(Instr.op = "DIV" /\ Traps(y, x))
  <2>1. /\ Continue(2, <<Compute(Instr.op, y, x)>>)
        /\ UNCHANGED <<heap, output>>
    BY <1>4 DEF Binary
  <2>2. Compute(Instr.op, y, x) \in Value
    BY <1>1, <1>2, <1>4, ComputeInValue
  <2>3. QED
    BY <1>1, <2>1, <2>2, ContinueType DEF TypeInv, heap
<1>5. QED
  BY <1>3, <1>4

LEMMA NotType ==
  ASSUME TypeInv, Not
  PROVE  TypeInv'
<1>1. Len(dataStack) >= 1
  BY ExecutingParts, PopsValues DEF Not, OneOperand
<1>2. Bool(Arg(0) = 0) \in Value
  BY SmallValues DEF Bool
<1>3. QED
  BY <1>1, <1>2, ContinueType DEF Not, TypeInv, heap

LEMMA PushConstType ==
  ASSUME TypeInv, PushConst
  PROVE  TypeInv'
<1>1. Instr.num \in Value /\ 0 <= Len(dataStack)
  BY ExecutingParts DEF PushConst, Instruction
<1>2. QED
  BY <1>1, ContinueType DEF PushConst, TypeInv, heap

LEMMA PrintTopType ==
  ASSUME TypeInv, PrintTop
  PROVE  TypeInv'
<1>1. Len(dataStack) >= 1
  BY ExecutingParts, PopsValues DEF PrintTop, OneOperand
<1>2. Arg(0) \in Value
  BY <1>1, StackParts
<1>3. output' \in Seq(Value)
  BY <1>2, AppendProperties DEF PrintTop, TypeInv
<1>4. QED
  BY <1>1, <1>2, <1>3, ContinueType DEF PrintTop, TypeInv, heap

\* A field of an existing object holds a value.
LEMMA FieldValue ==
  ASSUME TypeInv, NEW r \in 1 .. Len(objects),
         NEW name \in DOMAIN objects[r].fields
  PROVE  objects[r].fields[name] \in Value
<1>1. objects[r] \in Instances
  BY ElementOfSeq DEF TypeInv
<1>2. PICK names \in SUBSET Text : objects[r].fields \in [names -> Value]
  BY <1>1 DEF Instances, FieldMaps
<1>3. QED
  BY <1>2

LEMMA LoadType ==
  ASSUME TypeInv, Load
  PROVE  TypeInv'
<1> DEFINE name == Instr.str
<1>1. Len(dataStack) \in Nat
  BY ExecutingParts DEF Load
<1>2. PICK m \in DOMAIN program.methods : current \in FramesOf(m)
  BY DEF TypeInv, Frames
<1>3. ASSUME NEW v \in Value, Continue(0, <<v>>), UNCHANGED <<heap, output>>
      PROVE  TypeInv'
  BY <1>1, <1>3, ContinueType DEF TypeInv, heap
<1>4. ASSUME NEW reason \in Status, Halt(reason, 0)
      PROVE  TypeInv'
  BY <1>1, <1>4, HaltType
<1>5. CASE IsLocal(name) /\ Continue(0, <<current.locals[name]>>)
           /\ UNCHANGED <<heap, output>>
  <2>1. current.locals[name] \in Value
    BY <1>2, <1>5 DEF FramesOf, IsLocal
  <2>2. QED
    BY <1>3, <1>5, <2>1
<1>6. CASE Continue(0, <<current.this>>) /\ UNCHANGED <<heap, output>>
  <2>1. current.this \in Value
    BY <1>2 DEF FramesOf
  <2>2. QED
    BY <1>3, <1>6, <2>1
<1>7. CASE /\ IsField(name) /\ AccessFault(name) = "running" /\ HasField(name)
           /\ Continue(0, <<objects[current.this].fields[name]>>)
           /\ UNCHANGED <<heap, output>>
  <2>1. IsObject(current.this)
    BY <1>7 DEF AccessFault, IsField, IsThis, IsLocal
  <2>2. objects[current.this].fields[name] \in Value
    BY <1>7, <2>1, FieldValue DEF IsObject, HasField
  <2>3. QED
    BY <1>3, <1>7, <2>2
<1>8. CASE Halt("no field", 0)
  BY <1>4, <1>8, StatusValues
<1>9. CASE Halt(AccessFault(name), 0)
  BY <1>4, <1>9, FaultsTyped
<1>10. QED
  BY <1>5, <1>6, <1>7, <1>8, <1>9 DEF Load

LEMMA WithFieldMap ==
  ASSUME NEW f \in FieldMaps, NEW name \in Text, NEW v \in Value
  PROVE  With(f, name, v) \in FieldMaps
<1>1. PICK names \in SUBSET Text : f \in [names -> Value]
  BY DEF FieldMaps
<1>2. With(f, name, v) \in [names \cup {name} -> Value]
  BY <1>1 DEF With
<1>3. names \cup {name} \in SUBSET Text
  OBVIOUS
<1>4. QED
  BY <1>2, <1>3 DEF FieldMaps

LEMMA StoreType ==
  ASSUME TypeInv, Store
  PROVE  TypeInv'
<1> DEFINE name == Instr.str
           v    == Arg(0)
           popped == UNCHANGED <<program, activations, output, status>>
                     /\ dataStack' = Dropped(1)
<1>1. Len(dataStack) >= 1 /\ name \in Text
  BY ExecutingParts, PopsValues DEF Store, OneOperand, Instruction
<1>2. v \in Value /\ Dropped(1) \in Seq(Value)
  BY <1>1, StackParts
<1>3. PICK m \in DOMAIN program.methods : current \in FramesOf(m)
  BY DEF TypeInv, Frames
<1>4. Advanced \in FramesOf(m)
  BY <1>3 DEF Advanced, FramesOf
<1>5. ASSUME popped, current' \in FramesOf(m), objects' \in Seq(Instances),
             arrays' = arrays
      PROVE  TypeInv'
  BY <1>2, <1>5, SameFrames DEF TypeInv, Frames
<1>6. CASE /\ IsLocal(name)
           /\ current' = [Advanced EXCEPT !.locals[name] = v]
           /\ popped /\ UNCHANGED heap
  <2>1. current' \in FramesOf(m)
    BY <1>2, <1>4, <1>6 DEF FramesOf
  <2>2. QED
    BY <1>5, <1>6, <2>1 DEF heap, TypeInv
<1>7. CASE /\ current' = [Advanced EXCEPT !.this = v]
           /\ popped /\ UNCHANGED heap
  <2>1. current' \in FramesOf(m)
    BY <1>2, <1>4, <1>7 DEF FramesOf
  <2>2. QED
    BY <1>5, <1>7, <2>1 DEF heap, TypeInv
<1>8. CASE /\ IsField(name) /\ AccessFault(name) = "running"
           /\ objects' = [objects EXCEPT ![current.this].fields = With(@, name, v)]
           /\ current' = Advanced
           /\ popped /\ UNCHANGED arrays
  <2> DEFINE r == current.this
             o == objects[r]
             changed == [o EXCEPT !.fields = With(o.fields, name, v)]
  <2>1. r \in 1 .. Len(objects)
    BY <1>8 DEF AccessFault, IsField, IsThis, IsLocal, IsObject
  <2>2. o \in Instances
    BY <2>1, ElementOfSeq DEF TypeInv
  <2>3. changed \in Instances
    BY <1>1, <1>2, <2>2, WithFieldMap DEF Instances
  <2>4. objects' = [objects EXCEPT ![r] = changed]
    BY <1>8
  <2>5. objects' \in Seq(Instances)
    BY <2>1, <2>3, <2>4, ExceptSeq DEF TypeInv
  <2>6. QED
    BY <1>4, <1>5, <1>8, <2>5
<1>9. CASE Halt(AccessFault(name), 1)
  BY <1>1, <1>9, FaultsTyped, HaltType
<1>10. QED
  BY <1>6, <1>7, <1>8, <1>9 DEF Store

LEMMA NewType ==
  ASSUME TypeInv, New
  PROVE  TypeInv'
<1>1. Instr.str \in Text /\ 0 <= Len(dataStack)
  BY ExecutingParts DEF New, Instruction
<1>2. ClassFields(program, Instr.str) \subseteq Text
  BY DEF ClassFields, TypeInv, IsProgram, IsMethod
<1>3. FreshObject(Instr.str) \in Instances
  <2> DEFINE names == ClassFields(program, Instr.str) \ {This}
  <2>1. names \in SUBSET Text
    BY <1>2
  <2>2. [n \in names |-> 0] \in [names -> Value]
    BY SmallValues
  <2>3. [n \in names |-> 0] \in FieldMaps
    BY <2>1, <2>2 DEF FieldMaps
  <2>4. QED
    BY <1>1, <2>3 DEF FreshObject, Instances
<1>4. objects' \in Seq(Instances)
  BY <1>3, AppendProperties DEF New, TypeInv
<1>5. Wrap(Len(objects) + 1) \in Value
  BY WrapInValue, LenProperties DEF TypeInv
<1>6. QED
  BY <1>1, <1>4, <1>5, ContinueType DEF New, TypeInv

LEMMA NewArrayType ==
  ASSUME TypeInv, NewArray
  PROVE  TypeInv'
<1>0. Executing({"NEW_ARRAY"})
  BY DEF NewArray
<1>1. Len(dataStack) >= 1
  BY <1>0, ExecutingParts, PopsValues DEF OneOperand
<1>2. Arg(0) \in Value
  BY <1>1, StackParts
<1>3. CASE Halt("negative length", 1)
  <2>1. "negative length" \in Status
    BY StatusValues
  <2>2. QED
    BY <1>1, <1>3, <2>1, HaltType
<1>4. CASE /\ Arg(0) >= 0
           /\ arrays' = Append(arrays, [i \in 1 .. Arg(0) |-> 0])
           /\ Continue(1, <<Wrap(Len(arrays) + 1)>>)
           /\ UNCHANGED <<objects, output>>
  <2>1. Arg(0) \in Nat
    BY <1>2, <1>4, HalfWordAssumption DEF Value
  <2>2. [i \in 1 .. Arg(0) |-> 0] \in Seq(Value)
    BY <2>1, SmallValues, IsASeq
  <2>3. arrays' \in Seq(Seq(Value))
    BY <1>4, <2>2, AppendProperties DEF TypeInv
  <2>4. Wrap(Len(arrays) + 1) \in Value
    BY WrapInValue, LenProperties DEF TypeInv
  <2>5. QED
    BY <1>1, <1>4, <2>3, <2>4, ContinueType DEF TypeInv
<1>5. QED
  BY <1>3, <1>4 DEF NewArray

LEMMA ArrayLoadType ==
  ASSUME TypeInv, ArrayLoad
  PROVE  TypeInv'
<1> DEFINE fault == ElementFault(Arg(1), Arg(0))
<1>0. Executing({"ARRAY_LOAD"})
  BY DEF ArrayLoad
<1>1. Len(dataStack) >= 2
  BY <1>0, ExecutingParts, PopsValues DEF TwoOperands
<1>2. CASE Halt(fault, 2)
  BY <1>1, <1>2, FaultsTyped, HaltType
<1>3. CASE /\ fault = "running"
           /\ Continue(2, <<arrays[Arg(1)][Arg(0) + 1]>>)
           /\ UNCHANGED <<heap, output>>
  <2>1. /\ Arg(1) \in 1 .. Len(arrays)
        /\ Arg(0) + 1 \in 1 .. Len(arrays[Arg(1)])
    <3>1. Arg(1) \in 1 .. Len(arrays) /\ Arg(0) \in 0 .. Len(arrays[Arg(1)]) - 1
      BY <1>3 DEF ElementFault, IsArray
    <3>2. arrays[Arg(1)] \in Seq(Value)
      BY <3>1, ElementOfSeq DEF TypeInv
    <3>3. Len(arrays[Arg(1)]) \in Nat
      BY <3>2, LenProperties
    <3>4. QED
      BY <3>1, <3>3
  <2>2. arrays[Arg(1)] \in Seq(Value)
    BY <2>1, ElementOfSeq DEF TypeInv
  <2>3. arrays[Arg(1)][Arg(0) + 1] \in Value
    BY <2>1, <2>2, ElementOfSeq
  <2>4. QED
    BY <1>1, <1>3, <2>3, ContinueType DEF TypeInv, heap
<1>4. QED
  BY <1>2, <1>3 DEF ArrayLoad

LEMMA ArrayStoreType ==
  ASSUME TypeInv, ArrayStore
  PROVE  TypeInv'
<1> DEFINE ref   == Arg(2)
           index == Arg(1)
           fault == ElementFault(ref, index)
<1>0. Executing({"ARRAY_STORE"})
  BY DEF ArrayStore
<1>1. Len(dataStack) >= 3
  BY <1>0, ExecutingParts, PopsValues
<1>2. CASE Halt(fault, 3)
  BY <1>1, <1>2, FaultsTyped, HaltType
<1>3. CASE /\ fault = "running"
           /\ arrays' = [arrays EXCEPT ![ref][index + 1] = Arg(0)]
           /\ Continue(3, << >>)
           /\ UNCHANGED <<objects, output>>
  <2>1. ref \in 1 .. Len(arrays) /\ index \in 0 .. Len(arrays[ref]) - 1
    BY <1>3 DEF ElementFault, IsArray
  <2>2. arrays[ref] \in Seq(Value)
    BY <2>1, ElementOfSeq DEF TypeInv
  <2>3. index + 1 \in 1 .. Len(arrays[ref]) /\ Arg(0) \in Value
    BY <1>1, <2>1, <2>2, LenProperties, StackParts
  <2> DEFINE changed == [arrays[ref] EXCEPT ![index + 1] = Arg(0)]
  <2>4. changed \in Seq(Value)
    BY <2>2, <2>3, ExceptSeq
  <2>5. arrays' = [arrays EXCEPT ![ref] = changed]
    BY <1>3
  <2>6. arrays' \in Seq(Seq(Value))
    BY <2>1, <2>4, <2>5, ExceptSeq DEF TypeInv
  <2>7. QED
    BY <1>1, <1>3, <2>6, SmallValues, ContinueType DEF TypeInv
<1>4. QED
  BY <1>2, <1>3 DEF ArrayStore

LEMMA ArrayLengthType ==
  ASSUME TypeInv, ArrayLength
  PROVE  TypeInv'
<1>0. Executing({"ARRAY_LENGTH"})
  BY DEF ArrayLength
<1>1. Len(dataStack) >= 1
  BY <1>0, ExecutingParts, PopsValues DEF OneOperand
<1>2. CASE Halt("bad array", 1)
  <2>1. "bad array" \in Status
    BY StatusValues
  <2>2. QED
    BY <1>1, <1>2, <2>1, HaltType
<1>3. CASE /\ IsArray(Arg(0))
           /\ Continue(1, <<Wrap(Len(arrays[Arg(0)]))>>)
           /\ UNCHANGED <<heap, output>>
  <2>1. arrays[Arg(0)] \in Seq(Value)
    BY <1>3, ElementOfSeq DEF IsArray, TypeInv
  <2>2. Wrap(Len(arrays[Arg(0)])) \in Value
    BY <2>1, WrapInValue, LenProperties
  <2>3. QED
    BY <1>1, <1>3, <2>2, ContinueType DEF TypeInv, heap
<1>4. QED
  BY <1>2, <1>3 DEF ArrayLength

LEMMA TypeInvInit == Init => TypeInv
<1> SUFFICES ASSUME Init PROVE TypeInv
  OBVIOUS
<1>1. IsProgram(program)
  BY ProgramsAssumption DEF Init
<1>2. current \in Frames
  BY <1>1, NewActivationFrame DEF Init, IsProgram
<1>3. QED
  BY <1>1, <1>2, EmptySeq, StatusValues DEF Init, TypeInv

LEMMA TypeInvStep == TypeInv /\ [Next]_vars => TypeInv'
<1> SUFFICES ASSUME TypeInv, [Next]_vars PROVE TypeInv'
  OBVIOUS
<1>1. CASE UNCHANGED vars
  BY <1>1, SameFrames DEF vars, TypeInv
<1>2. CASE Step
  BY <1>2, FetchFaultType, StackUnderflowType, StopType, RetType, CallType,
     JmpType, CjmpType, BinaryType, NotType, PushConstType, PrintTopType,
     LoadType, StoreType, NewType, NewArrayType, ArrayLoadType,
     ArrayStoreType, ArrayLengthType DEF Step
<1>3. QED
  BY <1>1, <1>2 DEF Next, Ended

LEMMA TypeInvAlways == Spec => []TypeInv
BY TypeInvInit, TypeInvStep, PTL DEF Spec

LEMMA TypeInvSuffices == TypeInv => TypeOK
<1> SUFFICES ASSUME TypeInv PROVE TypeOK
  OBVIOUS
<1>1. \A f \in Frames : IsFrame(f)
  BY DEF Frames, FramesOf, IsFrame
<1>2. \A o \in Instances : IsInstance(o)
  <2> SUFFICES ASSUME NEW o \in Instances PROVE IsInstance(o)
    OBVIOUS
  <2>1. PICK names \in SUBSET Text : o.fields \in [names -> Value]
    BY DEF Instances, FieldMaps
  <2>2. QED
    BY <2>1 DEF Instances, IsInstance
<1>3. \A i \in DOMAIN activations : activations[i] \in Frames
  BY LenProperties, ElementOfSeq DEF TypeInv
<1>4. \A i \in DOMAIN objects : objects[i] \in Instances
  BY LenProperties, ElementOfSeq DEF TypeInv
<1>5. QED
  BY <1>1, <1>2, <1>3, <1>4 DEF TypeInv, TypeOK

\* The machine's state is well typed in every reachable state, whatever
\* program it was started on and however wide its values are.
THEOREM TypeCorrect == Spec => []TypeOK
BY TypeInvSuffices, TypeInvAlways, PTL

-----------------------------------------------------------------------------
(***************************************************************************)
(* No control fault.  The inductive invariant: while the machine runs a    *)
(* well-formed program, the current activation has an instruction to       *)
(* fetch, every suspended caller has one to resume at, and the main        *)
(* method's activation is the outermost one, so that the method that       *)
(* executes RET, which is not main, has a caller.                          *)
(***************************************************************************)
CallersResume == \A i \in 1 .. Len(activations) : InBlock(activations[i])

MainOutermost ==
  IF activations = << >> THEN current.method = program.main
                         ELSE activations[1].method = program.main

ControlInv ==
  WellFormed(program) =>
    /\ status \notin ControlFaults \cup LookupFaults
    /\ status = "running" => InBlock(current) /\ CallersResume /\ MainOutermost

LEMMA FrameCode ==
  ASSUME TypeInv, NEW f \in Frames, HasBlock(f)
  PROVE  /\ BlockOf(f) \in Seq(Instruction)
         /\ f.pc \in Nat
<1>1. IsMethod(MethodOf(f))
  BY FrameParts DEF TypeInv, IsProgram, MethodOf
<1>2. QED
  BY <1>1, FrameParts DEF HasBlock, BlockOf, IsMethod, FramesOf

LEMMA BlockEnd ==
  ASSUME TypeInv, WellFormed(program), NEW f \in Frames, HasBlock(f)
  PROVE  /\ Len(BlockOf(f)) \in Nat \ {0}
         /\ BlockOf(f)[Len(BlockOf(f))].op \in {"JMP", "RET", "STOP"}
<1>1. EndsInTransfer(BlockOf(f))
  BY FrameParts DEF WellFormed, HasBlock, BlockOf, MethodOf
<1>2. QED
  BY <1>1, FrameCode, EmptySeq DEF EndsInTransfer

LEMMA InstrResolves ==
  ASSUME TypeInv, WellFormed(program), InBlock(current)
  PROVE  Resolves(program, current.method, Instr)
<1>1. current \in Frames
  BY DEF TypeInv
<1>2. current.block \in DOMAIN MethodOf(current).blocks
  BY DEF InBlock, HasBlock
<1>3. current.pc + 1 \in 1 .. Len(MethodOf(current).blocks[current.block])
  BY <1>1, FrameCode, LenProperties DEF InBlock, BlockOf
<1>4. Instr \in InstructionsOf(MethodOf(current))
  BY <1>2, <1>3 DEF Instr, BlockOf, InstructionsOf
<1>5. QED
  BY <1>1, <1>4, FrameParts DEF WellFormed, MethodOf

\* Two activations at the same place agree on whether there is code.
LEMMA SamePlace ==
  ASSUME NEW f, NEW g, f.method = g.method, f.block = g.block, f.pc = g.pc
  PROVE  InBlock(f) = InBlock(g)
BY DEF InBlock, HasBlock, BlockOf, MethodOf

LEMMA AdvancedPlace ==
  ASSUME current \in Frames
  PROVE  /\ Advanced.method = current.method
         /\ Advanced.block = current.block
         /\ Advanced.pc = current.pc + 1
<1>1. PICK m \in DOMAIN program.methods : current \in FramesOf(m)
  BY DEF Frames
<1>2. QED
  BY <1>1 DEF Advanced, FramesOf

\* What does not transfer control is not the last instruction of its block.
LEMMA AdvancedInBlock ==
  ASSUME TypeInv, WellFormed(program), InBlock(current),
         Instr.op \notin {"JMP", "RET", "STOP"}
  PROVE  InBlock(Advanced)
<1>1. current \in Frames /\ HasBlock(current)
  BY DEF TypeInv, InBlock
<1> DEFINE n == Len(BlockOf(current))
<1>2. n \in Nat \ {0} /\ BlockOf(current)[n].op \in {"JMP", "RET", "STOP"}
  BY <1>1, BlockEnd
<1>3. current.pc \in Nat /\ current.pc < n
  BY <1>1, FrameCode DEF InBlock
<1>4. current.pc + 1 # n
  BY <1>2 DEF Instr
<1>5. current.pc + 1 < n
  BY <1>2, <1>3, <1>4
<1>6. QED
  BY <1>1, <1>5, AdvancedPlace DEF InBlock, HasBlock, BlockOf, MethodOf

LEMMA JumpInBlock ==
  ASSUME TypeInv, WellFormed(program), NEW label \in Text,
         label \in DOMAIN MethodOf(current).blocks
  PROVE  InBlock(JumpTo(label)) /\ JumpTo(label).method = current.method
<1>1. PICK m \in DOMAIN program.methods : current \in FramesOf(m)
  BY DEF TypeInv, Frames
<1>2. /\ JumpTo(label).method = current.method
      /\ JumpTo(label).block = label
      /\ JumpTo(label).pc = 0
  BY <1>1 DEF JumpTo, FramesOf
<1>3. JumpTo(label) \in Frames
  BY JumpFrame DEF TypeInv
<1>4. HasBlock(JumpTo(label))
  BY <1>2 DEF HasBlock, MethodOf
<1>5. Len(BlockOf(JumpTo(label))) \in Nat \ {0}
  BY <1>3, <1>4, BlockEnd
<1>6. QED
  BY <1>2, <1>4, <1>5 DEF InBlock

LEMMA CalleeInBlock ==
  ASSUME TypeInv, WellFormed(program), NEW m \in DOMAIN program.methods
  PROVE  InBlock(NewActivation(program, m))
<1> DEFINE f == NewActivation(program, m)
<1>1. f \in Frames
  BY NewActivationFrame DEF TypeInv
<1>2. HasBlock(f)
  BY DEF WellFormed, NewActivation, HasBlock, MethodOf
<1>3. Len(BlockOf(f)) \in Nat \ {0}
  BY <1>1, <1>2, BlockEnd
<1>4. f.pc = 0
  BY DEF NewActivation
<1>5. QED
  BY <1>2, <1>3, <1>4 DEF InBlock

\* The state from which a step of a running, well-formed program is taken.
Sound == TypeInv /\ ControlInv /\ WellFormed(program) /\ Running

LEMMA SoundParts ==
  ASSUME Sound
  PROVE  /\ InBlock(current) /\ CallersResume /\ MainOutermost
         /\ Resolves(program, current.method, Instr)
         /\ current \in Frames
         /\ status \notin ControlFaults \cup LookupFaults
<1>1. InBlock(current) /\ CallersResume /\ MainOutermost
  BY DEF Sound, Running, ControlInv
<1>2. QED
  BY <1>1, InstrResolves DEF Sound, TypeInv, ControlInv

LEMMA HaltControl ==
  ASSUME Sound, NEW n, NEW reason, Halt(reason, n),
         reason \notin ControlFaults \cup LookupFaults, reason # "running"
  PROVE  ControlInv'
BY DEF Halt, ControlInv

LEMMA AdvanceControl ==
  ASSUME Sound, Instr.op \notin {"JMP", "RET", "STOP"},
         current'.method = Advanced.method, current'.block = Advanced.block,
         current'.pc = Advanced.pc,
         UNCHANGED <<program, activations, status>>
  PROVE  ControlInv'
<1>1. InBlock(Advanced)
  BY SoundParts, AdvancedInBlock DEF Sound
<1>2. InBlock(current)'
  BY <1>1 DEF InBlock, HasBlock, BlockOf, MethodOf
<1>3. CallersResume'
  BY SoundParts DEF CallersResume, InBlock, HasBlock, BlockOf, MethodOf
<1>4. MainOutermost'
  BY SoundParts, AdvancedPlace DEF MainOutermost
<1>5. QED
  BY <1>2, <1>3, <1>4 DEF ControlInv, Sound, Running

LEMMA ContinueControl ==
  ASSUME Sound, NEW n, NEW pushed, Continue(n, pushed),
         Instr.op \notin {"JMP", "RET", "STOP"}
  PROVE  ControlInv'
BY AdvanceControl DEF Continue

LEMMA RetControl ==
  ASSUME Sound, Ret
  PROVE  ControlInv'
<1>1. current.method # program.main
  BY SoundParts DEF Ret, Executing, Resolves
<1>2. activations # << >>
  BY <1>1, SoundParts DEF MainOutermost
<1>3. /\ current' = activations[Len(activations)]
      /\ activations' = SubSeq(activations, 1, Len(activations) - 1)
      /\ UNCHANGED <<program, status>>
  BY <1>2 DEF Ret
<1> DEFINE n == Len(activations)
<1>4. n \in Nat \ {0}
  BY <1>2, EmptySeq DEF Sound, TypeInv
<1>5. /\ Len(activations') = n - 1
      /\ \A i \in 1 .. n - 1 : activations'[i] = activations[i]
  <2>1. activations \in Seq(Frames) /\ n - 1 \in 0 .. n
    BY <1>4 DEF Sound, TypeInv
  <2>2. QED
    BY <1>3, <2>1, PrefixProperties
<1>6. InBlock(current)'
  BY <1>3, <1>4, SoundParts DEF CallersResume, InBlock, HasBlock, BlockOf, MethodOf
<1>7. CallersResume'
  <2>1. \A i \in 1 .. Len(activations') : InBlock(activations'[i])
    BY <1>4, <1>5, SoundParts DEF CallersResume
  <2>2. QED
    BY <1>3, <2>1 DEF CallersResume, InBlock, HasBlock, BlockOf, MethodOf
<1>8. MainOutermost'
  <2>1. activations[1].method = program.main
    BY <1>2, SoundParts DEF MainOutermost
  <2>2. CASE n = 1
    <3>1. activations' = << >>
      BY <1>3, <2>2, SubSeqEmpty DEF Sound, TypeInv
    <3>2. QED
      BY <1>3, <2>1, <2>2, <3>1 DEF MainOutermost
  <2>3. CASE n # 1
    <3>1. activations'[1] = activations[1] /\ Len(activations') # 0
      BY <1>4, <1>5, <2>3
    <3>2. activations' # << >>
      BY <3>1
    <3>3. QED
      BY <1>3, <2>1, <3>1, <3>2 DEF MainOutermost
  <2>4. QED
    BY <2>2, <2>3
<1>9. QED
  BY <1>3, <1>6, <1>7, <1>8, SoundParts DEF ControlInv

LEMMA CallControl ==
  ASSUME Sound, Call
  PROVE  ControlInv'
<1>1. Instr.op = "CALL" /\ Instr.str \in Callable
  BY SoundParts DEF Call, Executing, Resolves, Callable
<1>2. /\ activations' = Append(activations, Advanced)
      /\ current' = NewActivation(program, Instr.str)
      /\ UNCHANGED <<program, status>>
  BY <1>1 DEF Call
<1> DEFINE n == Len(activations)
<1>3. /\ n \in Nat
      /\ Len(activations') = n + 1
      /\ \A i \in 1 .. n : activations'[i] = activations[i]
      /\ activations'[n + 1] = Advanced
  BY <1>2, AdvancedFrame, SoundParts, LenProperties, AppendProperties
     DEF Sound, TypeInv
<1>4. InBlock(current)'
  <2>1. InBlock(NewActivation(program, Instr.str))
    BY <1>1, CalleeInBlock DEF Callable, Sound
  <2>2. QED
    BY <1>2, <2>1 DEF InBlock, HasBlock, BlockOf, MethodOf
<1>5. CallersResume'
  <2>1. InBlock(Advanced)
    BY <1>1, SoundParts, AdvancedInBlock DEF Sound
  <2>2. ASSUME NEW i \in 1 .. n + 1
        PROVE  InBlock(activations'[i])
    <3>1. CASE i \in 1 .. n
      BY <1>3, <3>1, SoundParts DEF CallersResume
    <3>2. CASE i = n + 1
      BY <1>3, <2>1, <3>2
    <3>3. QED
      BY <1>3, <3>1, <3>2
  <2>3. QED
    BY <1>2, <1>3, <2>2 DEF CallersResume, InBlock, HasBlock, BlockOf, MethodOf
<1>6. MainOutermost'
  <2>1. activations' # << >>
    BY <1>3, EmptySeq
  <2>2. CASE activations = << >>
    BY <1>2, <1>3, <2>1, <2>2, SoundParts, AdvancedPlace DEF MainOutermost
  <2>3. CASE activations # << >>
    <3>1. 1 \in 1 .. n
      BY <1>3, <2>3, EmptySeq DEF Sound, TypeInv
    <3>2. QED
      BY <1>2, <1>3, <2>1, <2>3, <3>1, SoundParts DEF MainOutermost
  <2>4. QED
    BY <2>2, <2>3
<1>7. QED
  BY <1>2, <1>4, <1>5, <1>6, SoundParts DEF ControlInv

LEMMA JumpControl ==
  ASSUME Sound, Instr.str \in Text, Instr.op \in {"JMP", "CJMP"},
         current' = JumpTo(Instr.str), UNCHANGED <<program, activations, status>>
  PROVE  ControlInv'
<1>1. Instr.str \in DOMAIN MethodOf(current).blocks
  BY SoundParts DEF Resolves, MethodOf
<1>2. InBlock(JumpTo(Instr.str)) /\ JumpTo(Instr.str).method = current.method
  BY <1>1, JumpInBlock DEF Sound
<1>3. InBlock(current)'
  BY <1>2 DEF InBlock, HasBlock, BlockOf, MethodOf
<1>4. CallersResume'
  BY SoundParts DEF CallersResume, InBlock, HasBlock, BlockOf, MethodOf
<1>5. MainOutermost'
  BY <1>2, SoundParts DEF MainOutermost
<1>6. QED
  BY <1>3, <1>4, <1>5, SoundParts DEF ControlInv

\* Loading and storing resolve, so only "this" or the heap can stop them.
LEMMA VariableResolves ==
  ASSUME Sound, Instr.op \in {"LOAD", "STORE"}
  PROVE  AccessFault(Instr.str) # "no variable"
<1>1. Instr.str \in MethodOf(current).locals \cup MethodOf(current).fields
  BY SoundParts DEF Resolves, MethodOf
<1>2. DOMAIN current.locals = MethodOf(current).locals
  BY SoundParts, FrameParts DEF FramesOf, MethodOf
<1>3. QED
  BY <1>1, <1>2 DEF AccessFault, IsLocal, IsThis, IsField

LEMMA OtherFaults ==
  /\ {"stopped", "empty stack", "trap", "no this", "bad object", "no field",
      "bad array", "bad index", "negative length"}
       \cap (ControlFaults \cup LookupFaults) = {}
  /\ \A name : AccessFault(name) \in
       {"running", "no variable", "no this", "bad object"}
  /\ \A ref, index : ElementFault(ref, index) \in {"running", "bad array", "bad index"}
BY DEF ControlFaults, LookupFaults, AccessFault, ElementFault

LEMMA LoadControl ==
  ASSUME Sound, Load
  PROVE  ControlInv'
<1> DEFINE name == Instr.str
<1>1. Instr.op = "LOAD"
  BY DEF Load, Executing
<1>2. ASSUME NEW pushed, Continue(0, pushed)
      PROVE  ControlInv'
  BY <1>1, <1>2, ContinueControl
<1>3. CASE Halt("no field", 0)
  BY <1>3, OtherFaults, HaltControl
<1>4. CASE AccessFault(name) # "running" /\ Halt(AccessFault(name), 0)
  BY <1>1, <1>4, OtherFaults, VariableResolves, HaltControl
<1>5. QED
  BY <1>2, <1>3, <1>4 DEF Load

LEMMA StoreControl ==
  ASSUME Sound, Store
  PROVE  ControlInv'
<1> DEFINE name == Instr.str
<1>1. Instr.op = "STORE"
  BY DEF Store, Executing
<1>2. PICK m \in DOMAIN program.methods : current \in FramesOf(m)
  BY DEF Sound, TypeInv, Frames
<1>3. CASE AccessFault(name) # "running" /\ Halt(AccessFault(name), 1)
  BY <1>1, <1>3, OtherFaults, VariableResolves, HaltControl
<1>4. CASE /\ \/ current' = [Advanced EXCEPT !.locals[name] = Arg(0)]
              \/ current' = [Advanced EXCEPT !.this = Arg(0)]
              \/ current' = Advanced
           /\ UNCHANGED <<program, activations, status>>
  <2>1. /\ current'.method = Advanced.method
        /\ current'.block = Advanced.block
        /\ current'.pc = Advanced.pc
    BY <1>2, <1>4 DEF Advanced, FramesOf
  <2>2. QED
    BY <1>1, <1>4, <2>1, AdvanceControl
<1>5. QED
  BY <1>3, <1>4 DEF Store

LEMMA ControlInvInit == Init => ControlInv
<1> SUFFICES ASSUME Init, WellFormed(program) PROVE ControlInv
  BY DEF ControlInv
<1>1. TypeInv
  BY TypeInvInit
<1>2. InBlock(current)
  BY <1>1, CalleeInBlock DEF Init, TypeInv, IsProgram
<1>3. CallersResume
  BY EmptySeq DEF Init, CallersResume
<1>4. MainOutermost
  BY DEF Init, MainOutermost, NewActivation
<1>5. status \notin ControlFaults \cup LookupFaults
  BY DEF Init, ControlFaults, LookupFaults
<1>6. QED
  BY <1>2, <1>3, <1>4, <1>5 DEF ControlInv

LEMMA ControlInvStep == TypeInv /\ ControlInv /\ [Next]_vars => ControlInv'
<1> SUFFICES ASSUME TypeInv, ControlInv, [Next]_vars
             PROVE  ControlInv'
  OBVIOUS
<1>1. CASE UNCHANGED vars
  BY <1>1 DEF vars, ControlInv, CallersResume, MainOutermost, InBlock, HasBlock,
              BlockOf, MethodOf
<1>2. ASSUME Step
      PROVE  program' = program /\ Running
  BY <1>2 DEF Step, FetchFault, StackUnderflow, Stop, Ret, Call, Jmp, Cjmp,
     Binary, Not, PushConst, PrintTop, Load, Store, New, NewArray, ArrayLoad,
     ArrayStore, ArrayLength, Executing, Halt, Continue
<1>3. CASE Step /\ ~WellFormed(program)
  BY <1>2, <1>3 DEF ControlInv
<1>4. CASE Step /\ WellFormed(program)
  <2>1. Sound
    BY <1>2, <1>4 DEF Sound
  <2>2. ASSUME NEW ops, Executing(ops)
        PROVE  Instr.op \in ops
    BY <2>2 DEF Executing
  <2>3. CASE FetchFault
    BY <2>1, <2>3, SoundParts DEF FetchFault
  <2>4. CASE StackUnderflow
    BY <2>1, <2>4, OtherFaults, HaltControl DEF StackUnderflow
  <2>5. CASE Stop
    BY <2>1, <2>5, OtherFaults, HaltControl DEF Stop
  <2>6. CASE Ret
    BY <2>1, <2>6, RetControl
  <2>7. CASE Call
    BY <2>1, <2>7, CallControl
  <2>8. CASE Jmp
    <3>1. Instr.op = "JMP" /\ Instr.str \in Text
      BY <2>8, ExecutingParts DEF Jmp, Instruction
    <3>2. QED
      BY <2>1, <2>8, <3>1, JumpControl DEF Jmp
  <2>9. CASE Cjmp
    <3>1. Instr.op = "CJMP" /\ Instr.str \in Text
      BY <2>9, ExecutingParts DEF Cjmp, Instruction
    <3>2. CASE current' = JumpTo(Instr.str)
      BY <2>1, <2>9, <3>1, <3>2, JumpControl DEF Cjmp
    <3>3. CASE current' = Advanced
      BY <2>1, <2>9, <3>1, <3>3, AdvanceControl DEF Cjmp
    <3>4. QED
      BY <2>9, <3>2, <3>3 DEF Cjmp
  <2>10. CASE Binary
    <3>1. Instr.op \in BinaryOps
      BY <2>2, <2>10 DEF Binary
    <3>2. CASE Halt("trap", 2)
      BY <2>1, <3>2, OtherFaults, HaltControl
    <3>3. ASSUME NEW pushed, Continue(2, pushed)
          PROVE  ControlInv'
      BY <2>1, <3>1, <3>3, ContinueControl DEF BinaryOps
    <3>4. QED
      BY <2>10, <3>2, <3>3 DEF Binary
  <2>11. CASE Not
    BY <2>1, <2>2, <2>11, ContinueControl DEF Not
  <2>12. CASE PushConst
    BY <2>1, <2>2, <2>12, ContinueControl DEF PushConst
  <2>13. CASE PrintTop
    BY <2>1, <2>2, <2>13, ContinueControl DEF PrintTop
  <2>14. CASE Load
    BY <2>1, <2>14, LoadControl
  <2>15. CASE Store
    BY <2>1, <2>15, StoreControl
  <2>16. CASE New
    BY <2>1, <2>2, <2>16, ContinueControl DEF New
  <2>17. CASE NewArray
    BY <2>1, <2>2, <2>17, OtherFaults, ContinueControl, HaltControl DEF NewArray
  <2>18. CASE ArrayLoad
    BY <2>1, <2>2, <2>18, OtherFaults, ContinueControl, HaltControl DEF ArrayLoad
  <2>19. CASE ArrayStore
    BY <2>1, <2>2, <2>19, OtherFaults, ContinueControl, HaltControl DEF ArrayStore
  <2>20. CASE ArrayLength
    BY <2>1, <2>2, <2>20, OtherFaults, ContinueControl, HaltControl DEF ArrayLength
  <2>21. QED
    BY <1>4, <2>3, <2>4, <2>5, <2>6, <2>7, <2>8, <2>9, <2>10, <2>11, <2>12,
       <2>13, <2>14, <2>15, <2>16, <2>17, <2>18, <2>19, <2>20 DEF Step
<1>5. QED
  BY <1>1, <1>3, <1>4 DEF Next, Ended

LEMMA ControlInvAlways == Spec => []ControlInv
BY TypeInvAlways, ControlInvInit, ControlInvStep, PTL DEF Spec

\* A well-formed program never runs off its code: no missing block, method or
\* variable, no fetch past the end of a block, no return without a caller.
THEOREM ControlSafe == Spec => []NoControlFault
<1>1. ControlInv => NoControlFault
  BY DEF ControlInv, NoControlFault
<1>2. QED
  BY <1>1, ControlInvAlways, PTL

-----------------------------------------------------------------------------
(***************************************************************************)
(* The stack is never popped empty.  The inductive invariant divides the   *)
(* shared stack among the activations: base[i] values lie below those of   *)
(* the i-th activation from the bottom, a suspended caller owns what its   *)
(* certificate says it will own when it resumes, less the result it still  *)
(* waits for, and the current activation owns the height of its next       *)
(* instruction.                                                            *)
(***************************************************************************)
IsBase(base) ==
  /\ base \in [1 .. Len(activations) + 1 -> Nat]
  /\ base[1] = 0
  /\ \A i \in 1 .. Len(activations) :
       /\ Own(activations[i]) \in Nat \ {0}
       /\ base[i + 1] = base[i] + Own(activations[i]) - 1

Divided ==
  \E base : /\ IsBase(base)
            /\ Len(dataStack) = base[Len(activations) + 1] + Own(current)

\* No activation but the outermost one belongs to the main method.
MainOnce ==
  /\ activations # << >> => current.method # program.main
  /\ \A i \in 2 .. Len(activations) : activations[i].method # program.main

StackInv ==
  Verified(program) =>
    /\ status # "empty stack"
    /\ status = "stopped" => dataStack = << >>
    /\ status = "running" => Divided /\ MainOnce

-----------------------------------------------------------------------------
(***************************************************************************)
(* What the certificate says about the next instruction.                   *)
(***************************************************************************)
Ready == Sound /\ StackInv /\ Verified(program)

LEMMA ReadyParts ==
  ASSUME Ready
  PROVE  /\ Balanced(program, current.method, current.block, current.pc + 1)
         /\ Own(current) \in Nat
         /\ Divided /\ MainOnce
         /\ TypeInv /\ status = "running"
         /\ Len(activations) \in Nat /\ Len(dataStack) \in Nat
<1>1. current \in Frames /\ HasBlock(current) /\ InBlock(current)
  BY SoundParts DEF Ready, InBlock
<1>2. /\ current.method \in DOMAIN program.methods
      /\ current.block \in DOMAIN program.methods[current.method].blocks
  BY <1>1, FrameParts DEF HasBlock, MethodOf
<1>3. current.pc + 1 \in 1 .. Len(program.methods[current.method].blocks[current.block])
  <2>1. Len(BlockOf(current)) \in Nat /\ current.pc \in Nat
    BY <1>1, FrameCode, LenProperties DEF Ready, Sound
  <2>2. current.pc < Len(BlockOf(current))
    BY <1>1 DEF InBlock
  <2>3. QED
    BY <2>1, <2>2, SMTT(30) DEF BlockOf, MethodOf
<1>4. Balanced(program, current.method, current.block, current.pc + 1)
  BY <1>2, <1>3 DEF Ready, Verified, Certified
<1>5. Own(current) \in Nat
  BY <1>4 DEF Balanced, Own
<1>6. Len(activations) \in Nat /\ Len(dataStack) \in Nat
  BY LenProperties DEF Ready, Sound, TypeInv
<1>7. QED
  BY <1>4, <1>5, <1>6 DEF Ready, Sound, Running, StackInv

\* Balanced, read at the current instruction.
LEMMA NextInstr ==
  ASSUME Ready
  PROVE  /\ Own(current) >= Needed(program, Instr)
         /\ Instr.op = "RET"  => Own(current) = 1
         /\ Instr.op = "STOP" => Own(current) = 0 /\ current.method = program.main
         /\ Instr.op \in {"JMP", "CJMP"}
              => EntryHeight(program, current.method, Instr.str)
                   = Own(current) - Pops(Instr.op)
         /\ Instr.op \notin {"JMP", "RET", "STOP"}
              => Own(Advanced) = After(program, Instr, Own(current))
<1>1. Advanced.method = current.method /\ Advanced.block = current.block
      /\ Advanced.pc = current.pc + 1
  BY SoundParts, AdvancedPlace DEF Ready
<1>2. Instr = program.methods[current.method].blocks[current.block][current.pc + 1]
  BY DEF Instr, BlockOf, MethodOf
<1>3. QED
  BY <1>1, <1>2, ReadyParts DEF Balanced, Own

\* The stack holds at least what the current activation owns.
LEMMA OwnedOnStack ==
  ASSUME Ready
  PROVE  Len(dataStack) >= Own(current)
<1>1. PICK base : IsBase(base) /\ Len(dataStack) = base[Len(activations) + 1] + Own(current)
  BY ReadyParts DEF Divided
<1>2. base[Len(activations) + 1] \in Nat
  BY <1>1, ReadyParts DEF IsBase
<1>3. QED
  BY <1>1, <1>2, ReadyParts

\* A program that was verified stays so: it never changes.
LEMMA StillVerified ==
  ASSUME program' = program
  PROVE  Verified(program)' = Verified(program)
OBVIOUS

-----------------------------------------------------------------------------
(***************************************************************************)
(* The steps.                                                              *)
(***************************************************************************)
\* The current activation goes on, and what it owns is what the stack gains.
Moved ==
  /\ UNCHANGED <<program, activations, status>>
  /\ current'.method = current.method
  /\ Own(current)' \in Int
  /\ Len(dataStack') = Len(dataStack) - Own(current) + Own(current)'

\* The run ends, neither by STOP nor on an empty stack.
Faulted ==
  /\ UNCHANGED <<program, activations>>
  /\ status' \notin {"running", "stopped", "empty stack"}

LEMMA MoveDivided ==
  ASSUME Ready, Moved
  PROVE  StackInv'
<1> USE DEF Moved
<1>1. PICK base : IsBase(base) /\ Len(dataStack) = base[Len(activations) + 1] + Own(current)
  BY ReadyParts DEF Divided
<1>2. IsBase(base)'
  BY <1>1 DEF IsBase, Own
<1>3. base[Len(activations) + 1] \in Nat
  BY <1>1, ReadyParts DEF IsBase
<1>4. Len(dataStack') = base[Len(activations') + 1] + Own(current)'
  BY <1>1, <1>3, ReadyParts
<1>5. Divided'
  BY <1>2, <1>4 DEF Divided
<1>6. MainOnce'
  BY ReadyParts DEF MainOnce
<1>7. QED
  BY <1>5, <1>6, ReadyParts DEF StackInv

LEMMA StackHalt ==
  ASSUME NEW n, NEW reason, Halt(reason, n),
         reason \notin {"running", "stopped", "empty stack"}
  PROVE  Faulted
BY DEF Halt, Faulted

\* An instruction that falls through and leaves what the certificate says.
LEMMA StackAdvance ==
  ASSUME Ready, Instr.op \notin {"JMP", "RET", "STOP", "CALL"},
         current'.method = Advanced.method, current'.block = Advanced.block,
         current'.pc = Advanced.pc,
         UNCHANGED <<program, activations, status>>,
         Len(dataStack') = Len(dataStack) - Pops(Instr.op) + Pushes(Instr.op)
  PROVE  Moved
<1>1. Own(Advanced) = Own(current) - Pops(Instr.op) + Pushes(Instr.op)
  BY NextInstr DEF After
<1>2. Own(current)' = Own(Advanced)
  BY DEF Own
<1>3. current'.method = current.method
  BY SoundParts, AdvancedPlace DEF Ready
<1>4. Pops(Instr.op) \in Nat /\ Pushes(Instr.op) \in Nat
  BY DEF Pops, Pushes
<1>5. Own(current) \in Nat /\ Len(dataStack) \in Nat
  BY ReadyParts
<1>6. Own(current)' \in Int
  BY <1>1, <1>2, <1>4, <1>5
<1>7. Len(dataStack') = Len(dataStack) - Own(current) + Own(current)'
  BY <1>1, <1>2, <1>4, <1>5
<1>8. QED
  BY <1>3, <1>6, <1>7 DEF Moved

LEMMA StackContinue ==
  ASSUME Ready, NEW n, NEW v, Instr.op \notin {"JMP", "RET", "STOP", "CALL"},
         n = Pops(Instr.op), n <= Len(dataStack),
         \/ Continue(n, <<v>>) /\ Pushes(Instr.op) = 1
         \/ Continue(n, << >>) /\ Pushes(Instr.op) = 0
  PROVE  Moved
<1>1. n \in Nat
  BY DEF Pops
<1>2. Dropped(n) \in Seq(Value) /\ Len(Dropped(n)) = Len(dataStack) - n
  BY <1>1, ReadyParts, StackParts
<1> DEFINE S == Value \cup {v}
<1>3. /\ Dropped(n) \in Seq(S)
      /\ <<v>> \in Seq(S) /\ Len(<<v>>) = 1
      /\ << >> \in Seq(S) /\ Len(<< >>) = 0
  BY <1>2, SeqMonotonic
<1>4. Len(dataStack') = Len(dataStack) - n + Pushes(Instr.op)
  BY <1>1, <1>2, <1>3, ReadyParts, ConcatProperties DEF Continue
<1>5. QED
  BY <1>4, StackAdvance DEF Continue

LEMMA PushesValues ==
  /\ \A op \in TwoOperands \cup {"NOT", "NEW_ARRAY", "ARRAY_LENGTH", "CONST",
                                 "LOAD", "NEW"} : Pushes(op) = 1
  /\ \A op \in {"ARRAY_STORE", "CJMP", "PRINT", "STORE", "RET", "STOP", "CALL", "JMP"} :
       Pushes(op) = 0
BY DEF Pushes, TwoOperands, BinaryOps

LEMMA StackJump ==
  ASSUME Ready, Instr.op \in {"JMP", "CJMP"}, current' = JumpTo(Instr.str),
         UNCHANGED <<program, activations, status>>,
         Len(dataStack') = Len(dataStack) - Pops(Instr.op)
  PROVE  Moved
<1>1. PICK m \in DOMAIN program.methods : current \in FramesOf(m)
  BY SoundParts DEF Ready, Frames
<1>2. /\ current'.method = current.method
      /\ current'.block = Instr.str
      /\ current'.pc = 0
  BY <1>1 DEF JumpTo, FramesOf
<1>3. Own(current)' = EntryHeight(program, current.method, Instr.str)
  BY <1>2 DEF Own, EntryHeight
<1>4. Own(current)' = Own(current) - Pops(Instr.op)
  BY <1>3, NextInstr
<1>5. Own(current)' \in Int
  BY <1>4, ReadyParts DEF Pops
<1>6. Len(dataStack') = Len(dataStack) - Own(current) + Own(current)'
  BY <1>4, ReadyParts DEF Pops
<1>7. QED
  BY <1>2, <1>5, <1>6 DEF Moved

LEMMA NoStackUnderflow ==
  ASSUME Ready
  PROVE  ~StackUnderflow
<1> SUFFICES ASSUME StackUnderflow PROVE FALSE
  OBVIOUS
<1>1. Len(dataStack) < Pops(Instr.op)
  BY DEF StackUnderflow
<1>2. Pops(Instr.op) \in Nat
  BY DEF Pops
<1>3. Own(current) < Pops(Instr.op)
  BY <1>1, <1>2, OwnedOnStack, ReadyParts
<1>4. Pops(Instr.op) # 0
  BY <1>2, <1>3, ReadyParts
<1>5. Instr.op # "CALL"
  BY <1>4, PopsValues
<1>6. Own(current) >= Pops(Instr.op)
  BY <1>5, NextInstr DEF Needed
<1>7. QED
  BY <1>2, <1>3, <1>6, ReadyParts

LEMMA StackStop ==
  ASSUME Ready, Stop
  PROVE  StackInv'
<1>1. Own(current) = 0 /\ current.method = program.main
  BY NextInstr DEF Stop, Executing
<1>2. activations = << >>
  BY <1>1, ReadyParts DEF MainOnce
<1>3. PICK base : IsBase(base) /\ Len(dataStack) = base[Len(activations) + 1] + Own(current)
  BY ReadyParts DEF Divided
<1>4. Len(dataStack) = 0
  BY <1>1, <1>2, <1>3 DEF IsBase
<1>5. dataStack' = Dropped(0) /\ status' = "stopped"
  BY DEF Stop, Halt
<1>6. dataStack' = << >>
  BY <1>4, <1>5, SubSeqEmpty DEF Dropped
<1>7. QED
  BY <1>5, <1>6 DEF StackInv

\* What a call does to the activations, and what the certificate says of it.
LEMMA CallParts ==
  ASSUME Ready, Call
  PROVE  LET n == Len(activations)
             callee == Instr.str
             arity == Arity(program, callee)
         IN  /\ Instr.op = "CALL" /\ callee \in Callable
             /\ activations' = Append(activations, Advanced)
             /\ current' = NewActivation(program, callee)
             /\ UNCHANGED <<program, dataStack, status>>
             /\ n \in Nat
             /\ Len(activations') = n + 1
             /\ \A i \in 1 .. n : activations'[i] = activations[i]
             /\ activations'[n + 1] = Advanced
             /\ Own(current)' = arity /\ arity \in Nat
             /\ Own(current) >= arity /\ Own(Advanced) = Own(current) - arity + 1
             /\ Own(Advanced) \in Nat \ {0}
<1> DEFINE n == Len(activations)
           callee == Instr.str
           arity == Arity(program, callee)
<1>1. Instr.op = "CALL" /\ callee \in Callable
  BY SoundParts DEF Ready, Call, Executing, Resolves, Callable
<1>2. /\ activations' = Append(activations, Advanced)
      /\ current' = NewActivation(program, callee)
      /\ UNCHANGED <<program, dataStack, status>>
  BY <1>1 DEF Call
<1>3. /\ n \in Nat
      /\ Len(activations') = n + 1
      /\ \A i \in 1 .. n : activations'[i] = activations[i]
      /\ activations'[n + 1] = Advanced
  BY <1>2, AdvancedFrame, ReadyParts, AppendProperties DEF TypeInv
<1>4. Own(current)' = arity
  BY <1>2 DEF Own, NewActivation, Arity, EntryHeight
<1>5. arity \in Nat
  <2>1. callee \in DOMAIN program.methods[callee].blocks
    BY <1>1 DEF Ready, Verified, WellFormed, Callable
  <2>2. program.methods[callee].blocks[callee] # << >>
    BY <1>1, <2>1 DEF Ready, Verified, WellFormed, Callable, EndsInTransfer
  <2>3. 1 \in 1 .. Len(program.methods[callee].blocks[callee])
    BY <1>1, <2>1, <2>2, ReadyParts, EmptySeq DEF TypeInv, IsProgram, IsMethod, Callable
  <2>4. Balanced(program, callee, callee, 1)
    BY <1>1, <2>1, <2>3 DEF Ready, Verified, Certified, Callable
  <2>5. QED
    BY <2>4 DEF Balanced, Arity, EntryHeight
<1>6. Own(current) >= arity /\ Own(Advanced) = Own(current) - arity + 1
  BY <1>1, NextInstr DEF Needed, After
<1>7. Own(Advanced) \in Nat \ {0}
  BY <1>5, <1>6, ReadyParts
<1>8. QED
  BY <1>1, <1>2, <1>3, <1>4, <1>5, <1>6, <1>7

LEMMA StackCall ==
  ASSUME Ready, Call
  PROVE  StackInv'
<1> DEFINE n == Len(activations)
           callee == Instr.str
           arity == Arity(program, callee)
<1>1. Instr.op = "CALL" /\ callee \in Callable
  BY CallParts
<1>2. /\ activations' = Append(activations, Advanced)
      /\ current' = NewActivation(program, callee)
      /\ UNCHANGED <<program, dataStack, status>>
  BY CallParts
<1>3. /\ n \in Nat
      /\ Len(activations') = n + 1
      /\ \A i \in 1 .. n : activations'[i] = activations[i]
      /\ activations'[n + 1] = Advanced
  BY CallParts
<1>4. Own(current)' = arity
  BY CallParts
<1>5. arity \in Nat
  BY CallParts
<1>6. Own(current) >= arity /\ Own(Advanced) = Own(current) - arity + 1
  BY CallParts
<1>7. Own(Advanced) \in Nat \ {0}
  BY CallParts
<1>8. PICK base : IsBase(base) /\ Len(dataStack) = base[n + 1] + Own(current)
  BY ReadyParts DEF Divided
<1>9. base[n + 1] \in Nat
  BY <1>3, <1>8 DEF IsBase
<1> DEFINE top  == base[n + 1] + Own(Advanced) - 1
           next == [i \in 1 .. n + 2 |-> IF i = n + 2 THEN top ELSE base[i]]
<1>10. top \in Nat
  BY <1>7, <1>9
\* The same function as a constant: what is primed below is the state only.
<1>11. PICK grown : grown = next
  OBVIOUS
<1>12. IsBase(grown)'
  <2>1. grown \in [1 .. Len(activations') + 1 -> Nat]
    BY <1>3, <1>8, <1>10, <1>11 DEF IsBase
  <2>2. grown[1] = 0
    BY <1>3, <1>8, <1>11 DEF IsBase
  <2>3. ASSUME NEW i \in 1 .. n + 1
        PROVE  /\ Own(activations'[i]) \in Nat \ {0}
               /\ grown[i + 1] = grown[i] + Own(activations'[i]) - 1
    <3>1. CASE i = n + 1
      BY <1>3, <1>7, <1>11, <3>1
    <3>2. CASE i # n + 1
      BY <1>3, <1>8, <1>11, <3>2 DEF IsBase
    <3>3. QED
      BY <3>1, <3>2
  <2>4. QED
    BY <1>2, <1>3, <2>1, <2>2, <2>3 DEF IsBase, Own
<1>13. Len(dataStack') = grown[Len(activations') + 1] + Own(current)'
  BY <1>2, <1>3, <1>4, <1>5, <1>6, <1>8, <1>9, <1>11, ReadyParts
<1>14. Divided'
  BY <1>12, <1>13 DEF Divided
<1>15. MainOnce'
  <2>1. current'.method # program.main
    BY <1>1, <1>2 DEF NewActivation, Callable
  <2>2. ASSUME NEW i \in 2 .. n + 1
        PROVE  activations'[i].method # program.main
    <3>1. CASE i = n + 1
      <4>1. activations # << >>
        BY <1>3, <3>1, <2>2, EmptySeq
      <4>2. QED
        BY <1>3, <3>1, <4>1, ReadyParts, SoundParts, AdvancedPlace DEF MainOnce, Ready
    <3>2. CASE i # n + 1
      BY <1>3, <3>2, ReadyParts DEF MainOnce
    <3>3. QED
      BY <3>1, <3>2
  <2>3. QED
    BY <1>2, <1>3, <2>1, <2>2 DEF MainOnce
<1>16. QED
  BY <1>2, <1>14, <1>15, ReadyParts DEF StackInv

\* The same of a return.
LEMMA RetParts ==
  ASSUME Ready, Ret
  PROVE  LET n == Len(activations)
         IN  /\ current.method # program.main /\ Instr.op = "RET"
             /\ activations # << >>
             /\ current' = activations[n]
             /\ activations' = SubSeq(activations, 1, n - 1)
             /\ UNCHANGED <<program, dataStack, status>>
             /\ n \in Nat \ {0}
             /\ Len(activations') = n - 1
             /\ \A i \in 1 .. n - 1 : activations'[i] = activations[i]
             /\ Own(current) = 1
<1> DEFINE n == Len(activations)
<1>1. current.method # program.main /\ Instr.op = "RET"
  BY SoundParts DEF Ready, Ret, Executing, Resolves
<1>2. activations # << >>
  BY <1>1, SoundParts DEF Ready, MainOutermost
<1>3. /\ current' = activations[n]
      /\ activations' = SubSeq(activations, 1, n - 1)
      /\ UNCHANGED <<program, dataStack, status>>
  BY <1>2 DEF Ret
<1>4. n \in Nat \ {0}
  BY <1>2, ReadyParts, EmptySeq DEF TypeInv
<1>5. /\ Len(activations') = n - 1
      /\ \A i \in 1 .. n - 1 : activations'[i] = activations[i]
  <2>1. activations \in Seq(Frames) /\ n - 1 \in 0 .. n
    BY <1>4, ReadyParts DEF TypeInv
  <2>2. QED
    BY <1>3, <2>1, PrefixProperties
<1>6. Own(current) = 1
  BY <1>1, NextInstr
<1>7. QED
  BY <1>1, <1>2, <1>3, <1>4, <1>5, <1>6

LEMMA StackRet ==
  ASSUME Ready, Ret
  PROVE  StackInv'
<1> DEFINE n == Len(activations)
<1>1. current.method # program.main /\ Instr.op = "RET"
  BY RetParts
<1>2. activations # << >>
  BY RetParts
<1>3. /\ current' = activations[n]
      /\ activations' = SubSeq(activations, 1, n - 1)
      /\ UNCHANGED <<program, dataStack, status>>
  BY RetParts
<1>4. n \in Nat \ {0}
  BY RetParts
<1>5. /\ Len(activations') = n - 1
      /\ \A i \in 1 .. n - 1 : activations'[i] = activations[i]
  BY RetParts
<1>6. Own(current) = 1
  BY RetParts
<1>7. PICK base : IsBase(base) /\ Len(dataStack) = base[n + 1] + Own(current)
  BY ReadyParts DEF Divided
<1>8. PICK cut : cut = [i \in 1 .. n |-> base[i]]
  OBVIOUS
<1>9. /\ Own(activations[n]) \in Nat \ {0}
      /\ base[n + 1] = base[n] + Own(activations[n]) - 1
      /\ base[n] \in Nat
  BY <1>4, <1>7 DEF IsBase
<1>10. IsBase(cut)'
  <2>1. cut \in [1 .. Len(activations') + 1 -> Nat] /\ cut[1] = 0
    BY <1>4, <1>5, <1>7, <1>8 DEF IsBase
  <2>2. ASSUME NEW i \in 1 .. n - 1
        PROVE  /\ Own(activations'[i]) \in Nat \ {0}
               /\ cut[i + 1] = cut[i] + Own(activations'[i]) - 1
    <3>1. i \in 1 .. n /\ i + 1 \in 1 .. n
      BY <1>4
    <3>2. cut[i] = base[i] /\ cut[i + 1] = base[i + 1]
      BY <1>8, <3>1
    <3>3. /\ Own(activations[i]) \in Nat \ {0}
          /\ base[i + 1] = base[i] + Own(activations[i]) - 1
      BY <1>7, <3>1 DEF IsBase
    <3>4. activations'[i] = activations[i]
      BY <1>5
    <3>5. QED
      BY <3>2, <3>3, <3>4
  <2>3. QED
    BY <1>3, <1>5, <2>1, <2>2 DEF IsBase, Own
<1>11. Own(current)' = Own(activations[n])
  BY <1>3 DEF Own
<1>12. Len(dataStack') = cut[Len(activations') + 1] + Own(current)'
  BY <1>3, <1>4, <1>5, <1>6, <1>7, <1>8, <1>9, <1>11, ReadyParts
<1>13. Divided'
  BY <1>10, <1>12 DEF Divided
<1>14. MainOnce'
  <2>1. ASSUME activations' # << >>
        PROVE  activations[n].method # program.main
    <3>1. n # 1
      BY <1>3, <2>1, SubSeqEmpty
    <3>2. \A k \in Nat \ {0} : k # 1 => k \in 2 .. k
      OBVIOUS
    <3>3. n \in 2 .. n
      BY <1>4, <3>1, <3>2
    <3>4. QED
      BY <3>3, ReadyParts DEF MainOnce
  <2>2. QED
    BY <1>3, <1>4, <1>5, <2>1, ReadyParts DEF MainOnce
<1>15. QED
  BY <1>3, <1>13, <1>14, ReadyParts DEF StackInv

\* The steps that are no transfer between activations.
Work ==
  \/ Jmp \/ Cjmp \/ Binary \/ Not \/ PushConst \/ PrintTop \/ Load \/ Store
  \/ New \/ NewArray \/ ArrayLoad \/ ArrayStore \/ ArrayLength

LEMMA WorkStep ==
  ASSUME Ready, Work
  PROVE  Moved \/ Faulted
<1>1. ASSUME NEW ops, Executing(ops)
      PROVE  Instr.op \in ops /\ Pops(Instr.op) <= Len(dataStack)
  BY <1>1, ReadyParts, ExecutingParts DEF Executing
<1>2. CASE Jmp
  <2>1. Instr.op = "JMP" /\ Pops(Instr.op) = 0
    BY <1>1, <1>2, PopsValues DEF Jmp
  <2>2. QED
    BY <1>2, <2>1, StackJump, ReadyParts DEF Jmp
<1>3. CASE Cjmp
  <2>1. Instr.op = "CJMP" /\ Pops(Instr.op) = 1 /\ Pushes(Instr.op) = 0
    BY <1>1, <1>3, PopsValues, PushesValues DEF Cjmp, OneOperand
  <2>2. Len(dataStack') = Len(dataStack) - 1
    BY <1>1, <1>3, <2>1, StackParts, ReadyParts DEF Cjmp
  <2>3. CASE current' = JumpTo(Instr.str)
    BY <1>3, <2>1, <2>2, <2>3, StackJump DEF Cjmp
  <2>4. CASE current' = Advanced
    BY <1>3, <2>1, <2>2, <2>4, StackAdvance, ReadyParts DEF Cjmp
  <2>5. QED
    BY <1>3, <2>3, <2>4 DEF Cjmp
<1>4. CASE Binary
  <2>1. Instr.op \in BinaryOps /\ Pops(Instr.op) = 2 /\ Pushes(Instr.op) = 1
    BY <1>1, <1>4, PopsValues, PushesValues DEF Binary, TwoOperands
  <2>2. CASE Halt("trap", 2)
    BY <2>2, StackHalt
  <2>3. ASSUME NEW v, Continue(2, <<v>>)
        PROVE  Moved
    <3>1. 2 <= Len(dataStack)
      BY <1>1, <1>4, <2>1 DEF Binary
    <3>2. QED
      BY <2>1, <2>3, <3>1, StackContinue DEF BinaryOps
  <2>4. QED
    BY <1>4, <2>2, <2>3 DEF Binary
<1>5. ASSUME NEW v, Instr.op \in {"NOT", "NEW_ARRAY", "ARRAY_LENGTH"},
              1 <= Len(dataStack), Continue(1, <<v>>)
       PROVE  Moved
  <2>1. Pops(Instr.op) = 1 /\ Pushes(Instr.op) = 1
    BY <1>5, PopsValues, PushesValues DEF OneOperand
  <2>2. QED
    BY <1>5, <2>1, StackContinue
<1>6. ASSUME NEW v, Instr.op \in {"CONST", "LOAD", "NEW"}, Continue(0, <<v>>)
       PROVE  Moved
  <2>1. Pops(Instr.op) = 0 /\ Pushes(Instr.op) = 1 /\ 0 <= Len(dataStack)
    BY <1>6, PopsValues, PushesValues, ReadyParts
  <2>2. QED
    BY <1>6, <2>1, StackContinue
<1>7. ASSUME NEW op \in OneOperand, Executing({op})
       PROVE  Instr.op = op /\ 1 <= Len(dataStack)
  BY <1>1, <1>7, PopsValues
<1>8. CASE Not
  BY <1>5, <1>7, <1>8 DEF Not, OneOperand
<1>9. CASE PushConst
  BY <1>1, <1>6, <1>9 DEF PushConst
<1>10. CASE PrintTop
  <2>1. Instr.op = "PRINT" /\ 1 <= Len(dataStack)
    BY <1>7, <1>10 DEF PrintTop, OneOperand
  <2>2. Pops(Instr.op) = 1 /\ Pushes(Instr.op) = 0
    BY <2>1, PopsValues, PushesValues DEF OneOperand
  <2>3. QED
    BY <1>10, <2>1, <2>2, StackContinue DEF PrintTop
<1>11. CASE Load
  <2>0. Executing({"LOAD"})
    BY <1>11 DEF Load
  <2>1. Instr.op = "LOAD"
    BY <1>1, <2>0
  <2>2. ASSUME NEW v, Continue(0, <<v>>)
        PROVE  Moved
    BY <1>6, <2>1, <2>2
  <2>3. CASE AccessFault(Instr.str) # "running" /\ Halt(AccessFault(Instr.str), 0)
    BY <2>3, StackHalt, OtherFaults
  <2>4. CASE Halt("no field", 0)
    BY <2>4, StackHalt
  <2>5. QED
    BY <1>11, <2>2, <2>3, <2>4 DEF Load
<1>12. CASE Store
  <2>1. Instr.op = "STORE" /\ 1 <= Len(dataStack)
    BY <1>7, <1>12 DEF Store, OneOperand
  <2>2. Pops(Instr.op) = 1 /\ Pushes(Instr.op) = 0
    BY <2>1, PopsValues, PushesValues DEF OneOperand
  <2>3. PICK m \in DOMAIN program.methods : current \in FramesOf(m)
    BY ReadyParts DEF TypeInv, Frames
  <2>4. CASE \E reason : Halt(reason, 1) /\ reason \notin {"running", "stopped", "empty stack"}
    BY <2>4, StackHalt
  <2>5. CASE /\ \/ current' = [Advanced EXCEPT !.locals[Instr.str] = Arg(0)]
                \/ current' = [Advanced EXCEPT !.this = Arg(0)]
                \/ current' = Advanced
             /\ UNCHANGED <<program, activations, status>>
             /\ dataStack' = Dropped(1)
    <3>1. /\ current'.method = Advanced.method
          /\ current'.block = Advanced.block
          /\ current'.pc = Advanced.pc
      BY <2>3, <2>5 DEF Advanced, FramesOf
    <3>2. Len(dataStack') = Len(dataStack) - 1
      BY <2>1, <2>5, ReadyParts, StackParts
    <3>3. QED
      BY <2>1, <2>2, <2>5, <3>1, <3>2, ReadyParts, StackAdvance
  <2>6. QED
    BY <1>12, <2>4, <2>5, OtherFaults DEF Store
<1>13. CASE New
  BY <1>1, <1>6, <1>13 DEF New
<1>14. CASE NewArray
  <2>1. Executing({"NEW_ARRAY"})
    BY <1>14 DEF NewArray
  <2>2. Instr.op = "NEW_ARRAY" /\ 1 <= Len(dataStack)
    BY <1>7, <2>1 DEF OneOperand
  <2>3. CASE Halt("negative length", 1)
    BY <2>3, StackHalt
  <2>4. CASE \E v : Continue(1, <<v>>)
    BY <1>5, <2>2, <2>4
  <2>5. QED
    BY <1>14, <2>3, <2>4 DEF NewArray
<1>15. CASE ArrayLoad
  <2>1. Instr.op = "ARRAY_LOAD" /\ Pops(Instr.op) = 2 /\ Pushes(Instr.op) = 1
        /\ 2 <= Len(dataStack)
    BY <1>1, <1>15, PopsValues, PushesValues DEF ArrayLoad, TwoOperands
  <2>2. QED
    BY <1>15, <2>1, StackContinue, StackHalt, OtherFaults DEF ArrayLoad
<1>16. CASE ArrayStore
  <2>1. Instr.op = "ARRAY_STORE" /\ Pops(Instr.op) = 3 /\ Pushes(Instr.op) = 0
        /\ 3 <= Len(dataStack)
    BY <1>1, <1>16, PopsValues, PushesValues DEF ArrayStore
  <2>2. QED
    BY <1>16, <2>1, StackContinue, StackHalt, OtherFaults DEF ArrayStore
<1>17. CASE ArrayLength
  <2>1. Executing({"ARRAY_LENGTH"})
    BY <1>17 DEF ArrayLength
  <2>2. Instr.op = "ARRAY_LENGTH" /\ 1 <= Len(dataStack)
    BY <1>7, <2>1 DEF OneOperand
  <2>3. CASE Halt("bad array", 1)
    BY <2>3, StackHalt
  <2>4. CASE \E v : Continue(1, <<v>>)
    BY <1>5, <2>2, <2>4
  <2>5. QED
    BY <1>17, <2>3, <2>4 DEF ArrayLength
<1>18. QED
  BY <1>2, <1>3, <1>4, <1>8, <1>9, <1>10, <1>11, <1>12, <1>13, <1>14, <1>15, <1>16, <1>17
  DEF Work

LEMMA StackInvInit == Init => StackInv
<1> SUFFICES ASSUME Init, Verified(program) PROVE StackInv
  BY DEF StackInv
<1>1. activations = << >> /\ dataStack = << >> /\ status = "running"
  BY DEF Init
<1>2. Own(current) = 0
  BY DEF Init, Own, NewActivation, Verified, Certified, Arity, EntryHeight
<1> DEFINE base == [i \in 1 .. 1 |-> 0]
<1>3. IsBase(base)
  BY <1>1 DEF IsBase
<1>4. Len(dataStack) = base[Len(activations) + 1] + Own(current)
  BY <1>1, <1>2
<1>5. Divided
  BY <1>3, <1>4 DEF Divided
<1>6. QED
  BY <1>1, <1>5 DEF StackInv, MainOnce

LEMMA StackInvStep ==
  TypeInv /\ ControlInv /\ StackInv /\ [Next]_vars => StackInv'
<1> SUFFICES ASSUME TypeInv, ControlInv, StackInv, [Next]_vars
             PROVE  StackInv'
  OBVIOUS
<1>1. CASE UNCHANGED vars
  BY <1>1 DEF vars, StackInv, Divided, IsBase, Own, MainOnce
<1>2. ASSUME Step
      PROVE  program' = program /\ Running
  BY <1>2 DEF Step, FetchFault, StackUnderflow, Stop, Ret, Call, Jmp, Cjmp,
     Binary, Not, PushConst, PrintTop, Load, Store, New, NewArray, ArrayLoad,
     ArrayStore, ArrayLength, Executing, Halt, Continue
<1>3. CASE Step /\ ~Verified(program)
  BY <1>2, <1>3 DEF StackInv
<1>4. CASE Step /\ Verified(program)
  <2>1. Ready
    BY <1>2, <1>4 DEF Ready, Sound, Verified
  <2>3. CASE FetchFault
    BY <2>1, <2>3, SoundParts DEF Ready, FetchFault
  <2>4. CASE StackUnderflow
    BY <2>1, <2>4, NoStackUnderflow
  <2>5. CASE Stop
    BY <2>1, <2>5, StackStop
  <2>6. CASE Ret
    BY <2>1, <2>6, StackRet
  <2>7. CASE Call
    BY <2>1, <2>7, StackCall
  <2>8. CASE Work
    <3>1. CASE Faulted
      BY <3>1 DEF Faulted, StackInv
    <3>2. QED
      BY <2>1, <2>8, <3>1, WorkStep, MoveDivided
  <2>9. QED
    BY <1>4, <2>3, <2>4, <2>5, <2>6, <2>7, <2>8 DEF Step, Work
<1>5. QED
  BY <1>1, <1>3, <1>4 DEF Next, Ended

\* The contract on the shared data stack, for every program with a
\* certificate: no pop ever finds it empty, and STOP finds it empty.
THEOREM StackSafe == Spec => []NoUnderflow
<1>1. StackInv => NoUnderflow
  BY DEF StackInv, NoUnderflow
<1>2. Spec => []StackInv
  BY TypeInvAlways, ControlInvAlways, StackInvInit, StackInvStep, PTL DEF Spec
<1>3. QED
  BY <1>1, <1>2, PTL

-----------------------------------------------------------------------------
(***************************************************************************)
(* The refinement.  The accounts of SharedStack are the division of the    *)
(* stack that was shown to exist; what is added is that a step changes     *)
(* nothing below the account of the activation that runs.                  *)
(***************************************************************************)
AccountInv ==
  bottoms # << >> =>
    /\ Verified(program)
    /\ bottoms \in Seq(Nat) /\ Accounts = Len(activations) + 1
    /\ IsBase(bottoms)
    /\ \A i, j \in 1 .. Accounts : i <= j => bottoms[i] <= bottoms[j]
    /\ bottoms[Accounts] <= Len(dataStack)
    /\ status = "running" => Len(dataStack) = bottoms[Accounts] + Own(current)

-----------------------------------------------------------------------------
(***************************************************************************)
(* The parts of the stack.                                                 *)
(***************************************************************************)
LEMMA SamePart ==
  ASSUME NEW S, NEW s \in Seq(S), NEW t \in Seq(S), NEW m \in Nat \ {0}, NEW b \in Nat,
         b <= Len(s), b <= Len(t), \A k \in 1 .. b : t[k] = s[k]
  PROVE  SubSeq(t, m, b) = SubSeq(s, m, b)
<1>1. Len(s) \in Nat /\ Len(t) \in Nat
  BY LenProperties
<1>2. \A i \in m .. b : s[i] \in S /\ t[i] \in S /\ t[i] = s[i]
  BY <1>1, ElementOfSeq
<1>3. /\ SubSeq(s, m, b) \in Seq(S)
      /\ Len(SubSeq(s, m, b)) = IF m <= b THEN b - m + 1 ELSE 0
      /\ \A i \in 1 .. b - m + 1 : SubSeq(s, m, b)[i] = s[m + i - 1]
  BY <1>2, SubSeqProperties
<1>4. /\ SubSeq(t, m, b) \in Seq(S)
      /\ Len(SubSeq(t, m, b)) = IF m <= b THEN b - m + 1 ELSE 0
      /\ \A i \in 1 .. b - m + 1 : SubSeq(t, m, b)[i] = t[m + i - 1]
  BY <1>2, SubSeqProperties
<1>5. \A i \in 1 .. b - m + 1 : m + i - 1 \in m .. b
  OBVIOUS
<1>6. Len(SubSeq(t, m, b)) = Len(SubSeq(s, m, b))
  BY <1>3, <1>4
<1>7. ASSUME NEW i \in 1 .. Len(SubSeq(t, m, b))
      PROVE  SubSeq(t, m, b)[i] = SubSeq(s, m, b)[i]
  <2>1. i \in 1 .. b - m + 1
    BY <1>4
  <2> QED
    BY <1>2, <1>3, <1>4, <1>5, <2>1
<1> QED
  BY <1>3, <1>4, <1>6, <1>7, SeqEqual

\* A part of a stack can be divided again.
LEMMA JoinParts ==
  ASSUME NEW S, NEW s \in Seq(S), NEW a \in Nat, NEW b \in Nat, a <= b, b <= Len(s)
  PROVE  SubSeq(s, a + 1, Len(s)) = SubSeq(s, a + 1, b) \o SubSeq(s, b + 1, Len(s))
<1>1. Len(s) \in Nat
  BY LenProperties
<1>2. a + 1 \in 1 .. Len(s) + 1 /\ b \in (a + 1) - 1 .. Len(s) /\ Len(s) \in b .. Len(s)
  BY <1>1
<1> QED
  BY <1>2, ConcatAdjacentSubSeq

PartsShape ==
  bottoms # << >> /\ bottoms \in Seq(Nat) =>
    /\ Len(Parts) = Accounts /\ Accounts \in Nat \ {0}
    /\ \A i \in 1 .. Accounts : Parts[i] = PartOf(i)

LEMMA PartsAre == PartsShape
<1> SUFFICES ASSUME bottoms # << >>, bottoms \in Seq(Nat)
             PROVE  /\ Len(Parts) = Accounts /\ Accounts \in Nat \ {0}
                    /\ \A i \in 1 .. Accounts : Parts[i] = PartOf(i)
  BY DEF PartsShape
<1>1. Accounts \in Nat \ {0}
  BY EmptySeq, LenProperties DEF Accounts
<1>2. Parts = [i \in 1 .. Accounts |-> PartOf(i)]
  BY DEF Parts
<1>3. Len(Parts) = Accounts
  BY <1>1, <1>2
<1> QED
  BY <1>1, <1>2, <1>3

LEMMA PartsAreNext == PartsShape'
BY PartsAre, PTL

-----------------------------------------------------------------------------
(***************************************************************************)
(* Work: the current activation changes the values it owns, and no others. *)
(***************************************************************************)
Kept(k) == Len(dataStack') >= k /\ \A i \in 1 .. k : dataStack'[i] = dataStack[i]

\* The top n values are replaced by none or one.
Replaced(n) ==
  \/ dataStack' = Dropped(n) \/ dataStack' = Dropped(n) \o << >>
  \/ \E v : dataStack' = Dropped(n) \o <<v>>

LEMMA WorkPops ==
  ASSUME Ready, Work \/ Stop
  PROVE  /\ Instr.op # "CALL"
         /\ dataStack' = dataStack \/ \E n \in 0 .. Pops(Instr.op) : Replaced(n)
<1> DEFINE Popped == \E n \in 0 .. Pops(Instr.op) : Replaced(n)
<1>0. ASSUME NEW n
      PROVE  /\ dataStack' = Dropped(n) => Replaced(n)
             /\ \A reason : Halt(reason, n) => Replaced(n)
             /\ Continue(n, << >>) => Replaced(n)
             /\ \A v : Continue(n, <<v>>) => Replaced(n)
  BY DEF Replaced, Halt, Continue
<1>1. CASE Jmp
  BY <1>1 DEF Jmp, Executing
<1>2. CASE Cjmp
  <2>1. Instr.op = "CJMP" /\ Pops(Instr.op) = 1 /\ dataStack' = Dropped(1)
    BY <1>2, PopsValues DEF Cjmp, Executing, OneOperand
  <2> QED
    BY <1>0, <2>1
<1>3. CASE Binary
  <2>1. Instr.op \in BinaryOps
    BY <1>3 DEF Binary, Executing
  <2>2. Pops(Instr.op) = 2 /\ Instr.op # "CALL"
    BY <2>1, PopsValues DEF TwoOperands, BinaryOps
  <2>3. Replaced(2)
    BY <1>0, <1>3 DEF Binary
  <2> QED
    BY <2>2, <2>3
<1>4. CASE Not \/ PrintTop \/ Store \/ NewArray \/ ArrayLength
  <2>1. Instr.op \in OneOperand
    BY <1>4 DEF Not, PrintTop, Store, NewArray, ArrayLength, Executing, OneOperand
  <2>2. Pops(Instr.op) = 1 /\ Instr.op # "CALL"
    BY <2>1, PopsValues DEF OneOperand
  <2>3. Replaced(1)
    <3>1. CASE Not \/ PrintTop
      BY <1>0, <3>1 DEF Not, PrintTop
    <3>2. CASE Store
      BY <1>0, <3>2 DEF Store
    <3>3. CASE NewArray \/ ArrayLength
      BY <1>0, <3>3 DEF NewArray, ArrayLength
    <3> QED
      BY <1>4, <3>1, <3>2, <3>3
  <2> QED
    BY <2>2, <2>3
<1>5. CASE PushConst \/ Load \/ New \/ Stop
  <2>1. Instr.op \in {"CONST", "LOAD", "NEW", "STOP"}
    BY <1>5 DEF PushConst, Load, New, Stop, Executing
  <2>2. Pops(Instr.op) = 0 /\ Instr.op # "CALL"
    BY <2>1, PopsValues
  <2>3. Replaced(0)
    <3>1. CASE PushConst \/ New \/ Stop
      BY <1>0, <3>1 DEF PushConst, New, Stop
    <3>2. CASE Load
      BY <1>0, <3>2 DEF Load
    <3> QED
      BY <1>5, <3>1, <3>2
  <2> QED
    BY <2>2, <2>3
<1>6. CASE ArrayLoad
  <2>1. Instr.op = "ARRAY_LOAD" /\ Pops(Instr.op) = 2
    BY <1>6, PopsValues DEF ArrayLoad, Executing, TwoOperands
  <2>2. Replaced(2)
    BY <1>0, <1>6 DEF ArrayLoad
  <2> QED
    BY <2>1, <2>2
<1>7. CASE ArrayStore
  <2>1. Instr.op = "ARRAY_STORE" /\ Pops(Instr.op) = 3
    BY <1>7, PopsValues DEF ArrayStore, Executing
  <2>2. Replaced(3)
    BY <1>0, <1>7 DEF ArrayStore
  <2> QED
    BY <2>1, <2>2
<1> QED
  BY <1>1, <1>2, <1>3, <1>4, <1>5, <1>6, <1>7 DEF Work

LEMMA WorkKeeps ==
  ASSUME Ready, Work \/ Stop
  PROVE  Kept(Len(dataStack) - Own(current))
<1> DEFINE below == Len(dataStack) - Own(current)
<1>1. /\ Own(current) \in Nat /\ Len(dataStack) \in Nat /\ Len(dataStack) >= Own(current)
      /\ dataStack \in Seq(Value) /\ Pops(Instr.op) \in Nat
  BY ReadyParts, OwnedOnStack DEF TypeInv, Pops
<1>2. Own(current) >= Pops(Instr.op)
  BY WorkPops, NextInstr DEF Needed
<1>3. CASE dataStack' = dataStack
  BY <1>1, <1>3 DEF Kept
<1>4. ASSUME NEW n \in 0 .. Pops(Instr.op)
      PROVE  /\ Dropped(n) \in Seq(Value) /\ Len(Dropped(n)) >= below
             /\ \A i \in 1 .. below : Dropped(n)[i] = dataStack[i]
  <2>1. Len(dataStack) - n \in 0 .. Len(dataStack)
    BY <1>1, <1>2
  <2>2. /\ Dropped(n) \in Seq(Value) /\ Len(Dropped(n)) = Len(dataStack) - n
        /\ \A i \in 1 .. Len(dataStack) - n : Dropped(n)[i] = dataStack[i]
    BY <1>1, <2>1, PrefixProperties DEF Dropped
  <2> QED
    BY <1>1, <1>2, <2>2
<1>5. ASSUME NEW n \in 0 .. Pops(Instr.op), Replaced(n)
      PROVE  Kept(below)
  <2>1. CASE dataStack' = Dropped(n)
    BY <1>4, <2>1 DEF Kept
  <2>2. ASSUME NEW S, NEW more \in Seq(S), dataStack' = Dropped(n) \o more
        PROVE  Kept(below)
    <3> DEFINE T == Value \cup S
    <3>1. Dropped(n) \in Seq(T) /\ more \in Seq(T)
      BY <1>4, SeqMonotonic
    <3> HIDE DEF T
    <3>2. /\ Len(dataStack') = Len(Dropped(n)) + Len(more)
          /\ \A i \in 1 .. Len(Dropped(n)) + Len(more) :
               dataStack'[i] = IF i <= Len(Dropped(n)) THEN Dropped(n)[i] ELSE more[i - Len(Dropped(n))]
      BY <2>2, <3>1, ConcatProperties
    <3>3. Len(Dropped(n)) \in Nat /\ Len(more) \in Nat
      BY <1>4, <2>2, LenProperties
    <3> QED
      BY <1>1, <1>4, <3>2, <3>3 DEF Kept
  <2>3. << >> \in Seq(Value)
    OBVIOUS
  <2>4. \A v : <<v>> \in Seq({v})
    OBVIOUS
  <2> QED
    BY <1>5, <2>1, <2>2, <2>3, <2>4 DEF Replaced
<1> QED
  BY <1>3, <1>5, WorkPops

-----------------------------------------------------------------------------
(***************************************************************************)
(* The steps of the accounts.                                              *)
(***************************************************************************)
Accounted == Ready /\ TypeInv' /\ AccountInv /\ bottoms # << >> /\ Account

LEMMA AccountParts ==
  ASSUME Accounted
  PROVE  /\ Ready /\ Verified(program)
         /\ bottoms \in Seq(Nat) /\ Accounts = Len(activations) + 1
         /\ Len(activations) \in Nat /\ Accounts \in Nat \ {0}
         /\ bottoms \in [1 .. Accounts -> Nat]
         /\ IsBase(bottoms)
         /\ \A i, j \in 1 .. Accounts : i <= j => bottoms[i] <= bottoms[j]
         /\ bottoms[Accounts] \in Nat
         /\ Len(dataStack) = bottoms[Accounts] + Own(current)
         /\ Own(current) \in Nat /\ Len(dataStack) \in Nat
         /\ dataStack \in Seq(Value) /\ dataStack' \in Seq(Value)
         /\ Len(dataStack') \in Nat
<1>1. /\ Ready /\ Verified(program)
      /\ bottoms \in Seq(Nat) /\ Accounts = Len(activations) + 1
      /\ IsBase(bottoms)
      /\ \A i, j \in 1 .. Accounts : i <= j => bottoms[i] <= bottoms[j]
  BY DEF Accounted, AccountInv
<1>2. Len(activations) \in Nat /\ Len(dataStack) \in Nat /\ Own(current) \in Nat
      /\ status = "running"
  BY <1>1, ReadyParts
<1>3. Accounts \in Nat \ {0} /\ Accounts \in 1 .. Accounts
  BY <1>1, <1>2
<1>4. bottoms \in [1 .. Accounts -> Nat]
  BY <1>1, LenProperties DEF Accounts
<1>5. bottoms[Accounts] \in Nat
  BY <1>3, <1>4
<1>6. Len(dataStack) = bottoms[Accounts] + Own(current)
  BY <1>2 DEF Accounted, AccountInv
<1>7. dataStack \in Seq(Value) /\ dataStack' \in Seq(Value)
  BY ReadyParts DEF Accounted, TypeInv
<1>8. Len(dataStack') \in Nat
  BY <1>7, LenProperties
<1> QED
  BY <1>1, <1>2, <1>3, <1>4, <1>5, <1>6, <1>7, <1>8

LEMMA SameAccounts ==
  ASSUME bottoms \in Seq(Nat), Accounts = Len(activations) + 1, bottoms # << >>,
         Account, activations' = activations
  PROVE  bottoms' = bottoms
<1>1. Len(activations) + 1 = Len(bottoms) /\ Len(bottoms) \in Nat
  BY LenProperties DEF Accounts
<1>2. bottoms' = SubSeq(bottoms, 1, Len(bottoms))
  BY <1>1 DEF Account
<1> QED
  BY <1>2, SubSeqFull

LEMMA AccountWork ==
  ASSUME Accounted, Work \/ Stop
  PROVE  AccountInv' /\ Separate!Work
<1> USE AccountParts
<1> DEFINE top == bottoms[Accounts]
<1>1. /\ Ready
      /\ UNCHANGED <<program, activations>>
      /\ status' = "running" => Moved
  <2>1. Ready
    OBVIOUS
  <2>2. CASE Stop
    BY <2>1, <2>2 DEF Stop, Halt
  <2>3. CASE Work
    BY <2>1, <2>3, WorkStep DEF Moved, Faulted
  <2> QED
    BY <2>1, <2>2, <2>3
<1>2. bottoms' = bottoms
  BY <1>1, SameAccounts DEF Accounted
<1>3. Accounts' = Accounts
  BY <1>2 DEF Accounts
<1>4. /\ Len(dataStack') >= top /\ Len(dataStack) >= top
      /\ \A i \in 1 .. top : dataStack'[i] = dataStack[i]
  <2>1. Len(dataStack) - Own(current) = top
    OBVIOUS
  <2> QED
    BY <1>1, <2>1, WorkKeeps DEF Kept
<1>5. AccountInv'
  <2>1. Verified(program)'
    BY <1>1, StillVerified
  <2>2. IsBase(bottoms)'
    BY <1>1, <1>2 DEF IsBase, Own
  <2>3. ASSUME status' = "running"
        PROVE  Len(dataStack') = top + Own(current)'
    BY <1>1, <2>3 DEF Moved
  <2> QED
    BY <1>1, <1>2, <1>3, <1>4, <2>1, <2>2, <2>3 DEF AccountInv
<1>6. ASSUME NEW k \in 1 .. Accounts - 1
      PROVE  PartOf(k)' = PartOf(k)
  <2>1. k \in 1 .. Accounts /\ k + 1 \in 1 .. Accounts /\ k # Accounts
        /\ Accounts \in 1 .. Accounts /\ k + 1 <= Accounts
    OBVIOUS
  <2>2. bottoms[k] \in Nat /\ bottoms[k + 1] \in Nat /\ bottoms[k + 1] <= top
    BY <2>1
  <2>3. PICK low \in Nat, b \in Nat : low = bottoms[k] + 1 /\ b = bottoms[k + 1]
    BY <2>2, SMTT(30)
  <2>4. top \in Nat /\ b <= top /\ low \in Nat \ {0}
    BY <2>2, <2>3
  <2>5. b <= Len(dataStack) /\ b <= Len(dataStack')
    BY <1>4, <2>4, SMTT(30)
  <2>6. ASSUME NEW i \in 1 .. b
        PROVE  dataStack'[i] = dataStack[i]
    <3>1. i \in 1 .. top
      BY <2>4
    <3> QED
      BY <1>4, <3>1
  <2>7. SubSeq(dataStack', low, b) = SubSeq(dataStack, low, b)
    <3>1. dataStack \in Seq(Value) /\ dataStack' \in Seq(Value)
      OBVIOUS
    <3> HIDE AccountParts
    <3> QED
      BY <2>4, <2>5, <2>6, <3>1, SamePart
  <2> QED
    BY <1>2, <1>3, <2>1, <2>3, <2>7 DEF PartOf
<1>7. /\ Len(Parts) = Accounts /\ Len(Parts') = Accounts
      /\ \A k \in 1 .. Accounts : Parts[k] = PartOf(k) /\ Parts'[k] = PartOf(k)'
  BY <1>2, <1>3, PartsAre, PartsAreNext DEF PartsShape, Accounted
<1>8. ASSUME NEW k \in 1 .. Accounts - 1
      PROVE  Parts'[k] = Parts[k]
  <2>1. k \in 1 .. Accounts
    OBVIOUS
  <2> QED
    BY <1>6, <1>7, <2>1
<1> QED
  BY <1>5, <1>7, <1>8 DEF Separate!Work, Separate!Running, Separate!Undisturbed

\* A call divides the part of the caller: the arguments are the callee's.
LEMMA AccountCall ==
  ASSUME Accounted, Call
  PROVE  AccountInv' /\ Separate!Call
<1> DEFINE n == Len(activations)
           arity == Arity(program, Instr.str)
           under == Len(dataStack) - arity
<1>1. /\ Ready /\ Verified(program)
      /\ bottoms \in Seq(Nat) /\ Accounts = n + 1 /\ n \in Nat
      /\ bottoms \in [1 .. n + 1 -> Nat] /\ bottoms # << >>
      /\ IsBase(bottoms)
      /\ \A i, j \in 1 .. n + 1 : i <= j => bottoms[i] <= bottoms[j]
      /\ bottoms[n + 1] \in Nat
      /\ Len(dataStack) = bottoms[n + 1] + Own(current)
      /\ Own(current) \in Nat /\ Len(dataStack) \in Nat
      /\ dataStack \in Seq(Value)
  BY AccountParts DEF Accounted
<1>2. /\ UNCHANGED <<program, dataStack, status>>
      /\ Len(activations') = n + 1
      /\ \A i \in 1 .. n : activations'[i] = activations[i]
      /\ activations'[n + 1] = Advanced
      /\ Own(current)' = arity /\ arity \in Nat
      /\ Own(current) >= arity /\ Own(Advanced) = Own(current) - arity + 1
      /\ Own(Advanced) \in Nat \ {0}
  BY <1>1, CallParts
<1>3. /\ under \in Nat /\ under <= Len(dataStack) /\ bottoms[n + 1] <= under
      /\ under = bottoms[n + 1] + Own(Advanced) - 1
      /\ Len(dataStack) = under + arity
  <2>1. PICK d, a, o, f, b : d = Len(dataStack) /\ a = arity /\ o = Own(current)
                              /\ f = Own(Advanced) /\ b = bottoms[n + 1]
    OBVIOUS
  <2>2. d \in Nat /\ a \in Nat /\ o \in Nat /\ b \in Nat /\ d = b + o
        /\ o >= a /\ f = o - a + 1
    BY <1>1, <1>2, <2>1
  <2>3. d - a \in Nat /\ d - a <= d /\ b <= d - a /\ d - a = b + f - 1 /\ d = (d - a) + a
    BY <2>2
  <2> QED
    BY <2>1, <2>3
<1>4. bottoms' = Append(bottoms, under)
  <2>1. bottoms # <<>> /\ Account
    BY <1>1 DEF Accounted
  <2>2. Len(activations') > n
    BY <1>1, <1>2
  <2> QED
    BY <2>1, <2>2 DEF Account
<1>5. /\ bottoms' \in Seq(Nat) /\ Len(bottoms') = n + 2 /\ bottoms' # << >>
      /\ \A i \in 1 .. n + 1 : bottoms'[i] = bottoms[i]
      /\ bottoms'[n + 2] = under
  BY <1>1, <1>3, <1>4, AppendProperties, SMTT(30) DEF Accounts
<1>6. Accounts' = n + 2
  BY <1>5 DEF Accounts
<1>7. bottoms' \in [1 .. n + 2 -> Nat]
  BY <1>5, LenProperties
<1>8. IsBase(bottoms)'
  <2>1. bottoms'[1] = 0
    BY <1>1, <1>5 DEF IsBase
  <2>2. ASSUME NEW i \in 1 .. n + 1
        PROVE  /\ Own(activations'[i]) \in Nat \ {0}
               /\ bottoms'[i + 1] = bottoms'[i] + Own(activations'[i]) - 1
    <3>1. CASE i = n + 1
      <4>1. bottoms'[n + 1] = bottoms[n + 1] /\ bottoms'[(n + 1) + 1] = under
        <5>1. n + 1 \in 1 .. n + 1 /\ (n + 1) + 1 = n + 2
          BY <1>1
        <5> QED
          BY <1>5, <5>1
      <4>2. /\ Own(activations'[n + 1]) \in Nat \ {0}
            /\ under = bottoms[n + 1] + Own(activations'[n + 1]) - 1
        BY <1>2, <1>3
      <4> HIDE DEF under, n
      <4> QED
        BY <3>1, <4>1, <4>2
    <3>2. CASE i # n + 1
      <4>1. i \in 1 .. n /\ i + 1 \in 1 .. n + 1
        BY <1>1, <3>2
      <4> QED
        BY <1>1, <1>2, <1>5, <4>1 DEF IsBase
    <3> QED
      BY <3>1, <3>2
  <2>3. program' = program /\ Len(activations') = n + 1 /\ (n + 1) + 1 = n + 2
    BY <1>1, <1>2
  <2> HIDE DEF n
  <2> QED
    BY <1>7, <2>1, <2>2, <2>3 DEF IsBase, Own
<1>9. ASSUME NEW i \in 1 .. n + 2, NEW j \in 1 .. n + 2, i <= j
      PROVE  bottoms'[i] <= bottoms'[j]
  <2>1. CASE j # n + 2
    <3>1. i \in 1 .. n + 1 /\ j \in 1 .. n + 1
      BY <1>1, <1>9, <2>1
    <3> QED
      BY <1>1, <1>5, <1>9, <3>1
  <2>2. CASE i = n + 2
    <3>1. j = n + 2
      BY <1>1, <1>9, <2>2
    <3> QED
      BY <1>3, <1>5, <2>2, <3>1
  <2>3. CASE i # n + 2 /\ j = n + 2
    <3>1. i \in 1 .. n + 1 /\ n + 1 \in 1 .. n + 1 /\ i <= n + 1
      BY <1>1, <2>3
    <3>2. bottoms[i] \in Nat /\ bottoms[i] <= bottoms[n + 1]
      BY <1>1, <3>1
    <3>3. bottoms[i] <= under
      BY <1>1, <1>3, <3>2
    <3> QED
      BY <1>5, <2>3, <3>1, <3>3
  <2> QED
    BY <2>1, <2>2, <2>3
<1>10. AccountInv'
  <2>1. Verified(program)'
    BY <1>1, <1>2, StillVerified
  <2>2. Len(dataStack') = bottoms'[n + 2] + Own(current)' /\ bottoms'[n + 2] <= Len(dataStack')
    BY <1>2, <1>3, <1>5
  <2> QED
    BY <1>1, <1>2, <1>5, <1>6, <1>8, <1>9, <2>1, <2>2 DEF AccountInv
<1>11. /\ Len(Parts) = n + 1 /\ Len(Parts') = n + 2
       /\ \A k \in 1 .. n + 1 : Parts[k] = PartOf(k)
       /\ \A k \in 1 .. n + 2 : Parts'[k] = PartOf(k)'
  BY <1>1, <1>5, <1>6, PartsAre, PartsAreNext DEF PartsShape
<1>12. ASSUME NEW k \in 1 .. n
       PROVE  Parts'[k] = Parts[k]
  <2>1. k \in 1 .. n + 1 /\ k + 1 \in 1 .. n + 1 /\ k \in 1 .. n + 2
        /\ k # n + 1 /\ k # n + 2
    BY <1>1
  <2>2. PartOf(k)' = PartOf(k)
    BY <1>1, <1>2, <1>5, <1>6, <2>1 DEF PartOf
  <2> QED
    BY <1>11, <2>1, <2>2
<1>13. Parts[n + 1] = Parts'[n + 1] \o Parts'[n + 2]
  <2>1. Parts[n + 1] = SubSeq(dataStack, bottoms[n + 1] + 1, Len(dataStack))
    <3>1. n + 1 \in 1 .. n + 1
      BY <1>1
    <3> QED
      BY <1>1, <1>11, <3>1 DEF PartOf
  <2>2. Parts'[n + 1] = SubSeq(dataStack, bottoms[n + 1] + 1, under)
    <3>1. PICK k : k = n + 1
      OBVIOUS
    <3>2. k \in 1 .. n + 2 /\ k \in 1 .. n + 1 /\ k # n + 2 /\ k + 1 = n + 2
      BY <1>1, <3>1
    <3>3. /\ Parts'[k] = PartOf(k)' /\ k # Accounts'
          /\ bottoms'[k] = bottoms[k] /\ bottoms'[k + 1] = under
          /\ dataStack' = dataStack
      BY <1>2, <1>5, <1>6, <1>11, <3>2
    <3>4. Parts'[k] = SubSeq(dataStack, bottoms[k] + 1, under)
      BY <3>3 DEF PartOf
    <3> QED
      BY <3>1, <3>4
  <2>3. Parts'[n + 2] = SubSeq(dataStack, under + 1, Len(dataStack))
    <3>1. PICK k : k = n + 2
      OBVIOUS
    <3>2. k \in 1 .. n + 2
      BY <1>1, <3>1
    <3>3. Parts'[k] = PartOf(k)' /\ k = Accounts' /\ bottoms'[k] = under /\ dataStack' = dataStack
      BY <1>2, <1>5, <1>6, <1>11, <3>1, <3>2
    <3>4. Parts'[k] = SubSeq(dataStack, under + 1, Len(dataStack))
      BY <3>3 DEF PartOf
    <3> QED
      BY <3>1, <3>4
  <2>4. PICK b : b = bottoms[n + 1]
    OBVIOUS
  <2>5. b \in Nat /\ under \in Nat /\ b <= under /\ under <= Len(dataStack) /\ dataStack \in Seq(Value)
    BY <1>1, <1>3, <2>4
  <2> HIDE DEF under
  <2>6. SubSeq(dataStack, b + 1, Len(dataStack))
          = SubSeq(dataStack, b + 1, under) \o SubSeq(dataStack, under + 1, Len(dataStack))
    BY <2>5, JoinParts
  <2> QED
    BY <2>1, <2>2, <2>3, <2>4, <2>6
<1>14. Separate!Call
  <2>1. Len(Parts') = Len(Parts) + 1 /\ Len(Parts) - 1 = n
    BY <1>1, <1>11
  <2>2. Parts[Len(Parts)] = Parts'[Len(Parts)] \o Parts'[Len(Parts) + 1]
    <3>1. (n + 1) + 1 = n + 2
      BY <1>1
    <3> QED
      BY <1>11, <1>13, <3>1
  <2> QED
    BY <1>12, <2>1, <2>2 DEF Separate!Call, Separate!Running, Separate!Undisturbed
<1> QED
  BY <1>10, <1>14

\* A return joins the part of the callee, its result, to the caller's.
LEMMA AccountRet ==
  ASSUME Accounted, Ret
  PROVE  AccountInv' /\ Separate!Return
<1> DEFINE n == Len(activations)
<1>1. /\ Ready /\ Verified(program)
      /\ bottoms \in Seq(Nat) /\ Accounts = n + 1
      /\ bottoms \in [1 .. n + 1 -> Nat] /\ bottoms # << >>
      /\ IsBase(bottoms)
      /\ \A i, j \in 1 .. n + 1 : i <= j => bottoms[i] <= bottoms[j]
      /\ Len(dataStack) = bottoms[n + 1] + Own(current)
      /\ dataStack \in Seq(Value)
  BY AccountParts DEF Accounted
<1>2. /\ UNCHANGED <<program, dataStack, status>>
      /\ current' = activations[n]
      /\ n \in Nat \ {0} /\ Len(activations') = n - 1
      /\ \A i \in 1 .. n - 1 : activations'[i] = activations[i]
      /\ Own(current) = 1
  BY <1>1, RetParts
<1>3. n \in 1 .. n + 1 /\ n + 1 \in 1 .. n + 1 /\ n \in 1 .. n /\ n <= n + 1
  BY <1>2
<1>4. /\ bottoms[n] \in Nat /\ bottoms[n + 1] \in Nat /\ bottoms[n] <= bottoms[n + 1]
      /\ Own(activations[n]) \in Nat \ {0}
      /\ bottoms[n + 1] = bottoms[n] + Own(activations[n]) - 1
  BY <1>1, <1>3 DEF IsBase
<1>5. /\ Len(dataStack) = bottoms[n + 1] + 1 /\ bottoms[n + 1] <= Len(dataStack)
      /\ bottoms[n] <= Len(dataStack)
      /\ Len(dataStack) = bottoms[n] + Own(activations[n])
  <2>1. Len(dataStack) = bottoms[n + 1] + 1
    BY <1>1, <1>2
  <2> QED
    BY <1>4, <2>1
<1>6. bottoms' = SubSeq(bottoms, 1, n)
  <2>1. ~(Len(activations') > n) /\ Len(activations') + 1 = n
    BY <1>2
  <2> QED
    BY <2>1 DEF Account, Accounted
<1>7. /\ bottoms' \in Seq(Nat) /\ Len(bottoms') = n /\ bottoms' # << >>
      /\ \A i \in 1 .. n : bottoms'[i] = bottoms[i]
  <2>1. n \in 0 .. Len(bottoms)
    BY <1>1, <1>2 DEF Accounts
  <2>2. /\ bottoms' \in Seq(Nat) /\ Len(bottoms') = n
        /\ \A i \in 1 .. n : bottoms'[i] = bottoms[i]
    BY <1>1, <1>6, <2>1, PrefixProperties
  <2> QED
    BY <1>2, <2>2, EmptySeq
<1>8. Accounts' = n /\ bottoms' \in [1 .. n -> Nat]
  BY <1>7, LenProperties DEF Accounts
<1>9. IsBase(bottoms)'
  <2>1. bottoms'[1] = 0
    <3>1. 1 \in 1 .. n /\ bottoms[1] = 0
      BY <1>1, <1>2 DEF IsBase
    <3> QED
      BY <1>7, <3>1
  <2>2. ASSUME NEW i \in 1 .. n - 1
        PROVE  /\ Own(activations'[i]) \in Nat \ {0}
               /\ bottoms'[i + 1] = bottoms'[i] + Own(activations'[i]) - 1
    <3>1. i \in 1 .. n /\ i + 1 \in 1 .. n
      BY <1>2
    <3>2. /\ Own(activations[i]) \in Nat \ {0}
          /\ bottoms[i + 1] = bottoms[i] + Own(activations[i]) - 1
      BY <1>1, <3>1 DEF IsBase
    <3> QED
      BY <1>2, <1>7, <3>1, <3>2
  <2>3. program' = program /\ Len(activations') = n - 1 /\ (n - 1) + 1 = n
    BY <1>2
  <2> HIDE DEF n
  <2> QED
    BY <1>8, <2>1, <2>2, <2>3 DEF IsBase, Own
<1>10. AccountInv'
  <2>1. Verified(program)'
    BY <1>1, <1>2, StillVerified
  <2>2. Own(current)' = Own(activations[n])
    BY <1>2 DEF Own
  <2>3. Len(dataStack') = bottoms'[n] + Own(current)' /\ bottoms'[n] <= Len(dataStack')
    BY <1>2, <1>3, <1>5, <1>7, <2>2
  <2>4. Accounts' = Len(activations') + 1
    BY <1>2, <1>8
  <2>5. ASSUME NEW i \in 1 .. n, NEW j \in 1 .. n, i <= j
        PROVE  bottoms'[i] <= bottoms'[j]
    <3>1. i \in 1 .. n + 1 /\ j \in 1 .. n + 1
      BY <1>2
    <3> QED
      BY <1>1, <1>7, <2>5, <3>1
  <2> HIDE DEF n
  <2> QED
    BY <1>7, <1>8, <1>9, <2>1, <2>3, <2>4, <2>5 DEF AccountInv
<1>11. /\ Len(Parts) = n + 1 /\ Len(Parts') = n
       /\ \A k \in 1 .. n + 1 : Parts[k] = PartOf(k)
       /\ \A k \in 1 .. n : Parts'[k] = PartOf(k)'
  BY <1>1, <1>7, <1>8, PartsAre, PartsAreNext DEF PartsShape
<1>12. ASSUME NEW k \in 1 .. n - 1
       PROVE  Parts'[k] = Parts[k]
  <2>1. k \in 1 .. n /\ k \in 1 .. n + 1 /\ k + 1 \in 1 .. n /\ k # n /\ k # n + 1
    BY <1>2
  <2>2. PartOf(k)' = PartOf(k)
    BY <1>1, <1>2, <1>7, <1>8, <2>1 DEF PartOf
  <2> QED
    BY <1>11, <2>1, <2>2
<1>13. Parts[n + 1] = SubSeq(dataStack, bottoms[n + 1] + 1, Len(dataStack))
  BY <1>1, <1>3, <1>11 DEF PartOf
<1>14. Parts[n] = SubSeq(dataStack, bottoms[n] + 1, bottoms[n + 1])
  <2>1. n # n + 1
    BY <1>2
  <2> QED
    BY <1>1, <1>3, <1>11, <2>1 DEF PartOf
<1>15. Parts'[n] = SubSeq(dataStack, bottoms[n] + 1, Len(dataStack))
  <2>1. PICK k : k = n
    OBVIOUS
  <2>2. Parts'[k] = PartOf(k)' /\ k = Accounts' /\ bottoms'[k] = bottoms[k] /\ dataStack' = dataStack
    BY <1>2, <1>3, <1>7, <1>8, <1>11, <2>1
  <2>3. Parts'[k] = SubSeq(dataStack, bottoms[k] + 1, Len(dataStack))
    BY <2>2 DEF PartOf
  <2> QED
    BY <2>1, <2>3
<1>16. Parts'[n] = Parts[n] \o Parts[n + 1]
  BY <1>1, <1>4, <1>5, <1>13, <1>14, <1>15, JoinParts
<1>17. Len(Parts[n + 1]) = 1
  <2>1. PICK m : m = Len(dataStack)
    OBVIOUS
  <2>2. m \in Nat /\ bottoms[n + 1] + 1 = m /\ m \in 1 .. m
    BY <1>4, <1>5, <2>1
  <2>3. Parts[n + 1] = SubSeq(dataStack, m, m)
    BY <1>13, <2>1, <2>2
  <2>4. \A i \in m .. m : dataStack[i] \in Value
    BY <1>1, <2>1, <2>2, ElementOfSeq
  <2>5. Len(SubSeq(dataStack, m, m)) = IF m <= m THEN m - m + 1 ELSE 0
    BY <2>2, <2>4, SubSeqProperties
  <2> QED
    BY <2>2, <2>3, <2>5
<1>18. Separate!Return
  <2>1. /\ Len(Parts) = n + 1 /\ n + 1 > 1 /\ (n + 1) - 1 = n
        /\ Len(Parts') = n
    BY <1>2, <1>11
  <2> HIDE DEF n
  <2> QED
    BY <1>12, <1>16, <1>17, <2>1 DEF Separate!Return, Separate!Running, Separate!Undisturbed
<1> QED
  BY <1>10, <1>18

LEMMA AccountInit ==
  ASSUME SharedInit
  PROVE  AccountInv /\ Separate!Begin
<1>1. CASE bottoms = << >>
  <2>1. Parts = << << >> >>
    BY <1>1 DEF Parts
  <2> QED
    BY <1>1, <2>1 DEF AccountInv, Separate!Begin
<1>2. CASE bottoms # << >>
  <2>1. Verified(program) /\ bottoms = <<0>>
    BY <1>2 DEF SharedInit
  <2>2. activations = << >> /\ dataStack = << >> /\ Len(activations) = 0 /\ Len(dataStack) = 0
    BY DEF SharedInit, Init
  <2>3. Own(current) = 0
    BY <2>1 DEF SharedInit, Init, Own, NewActivation, Verified, Certified, Arity, EntryHeight
  <2>4. bottoms \in Seq(Nat) /\ Accounts = 1 /\ bottoms[1] = 0 /\ bottoms \in [1 .. 1 -> Nat]
    BY <2>1 DEF Accounts
  <2>5. IsBase(bottoms)
    BY <2>2, <2>4 DEF IsBase
  <2>6. AccountInv
    BY <2>1, <2>2, <2>3, <2>4, <2>5 DEF AccountInv
  <2>7. Parts = [k \in 1 .. 1 |-> PartOf(k)]
    BY <1>2, <2>4 DEF Parts
  <2>8. PartOf(1) = << >>
    <3>1. PartOf(1) = SubSeq(dataStack, 1, 0)
      BY <2>2, <2>4 DEF PartOf
    <3> QED
      BY <3>1, SubSeqEmpty
  <2>9. Parts = << << >> >>
    BY <2>7, <2>8
  <2> QED
    BY <2>6, <2>9 DEF Separate!Begin
<1> QED
  BY <1>1, <1>2

LEMMA AccountStep ==
  TypeInv /\ TypeInv' /\ ControlInv /\ StackInv /\ AccountInv /\ [SharedNext]_sharedVars
    => AccountInv' /\ [Separate!Next]_Parts
<1> SUFFICES ASSUME TypeInv, TypeInv', ControlInv, StackInv, AccountInv,
                    [SharedNext]_sharedVars
             PROVE  AccountInv' /\ [Separate!Next]_Parts
  OBVIOUS
<1>1. ASSUME UNCHANGED vars, UNCHANGED bottoms
      PROVE  AccountInv' /\ UNCHANGED Parts
  BY <1>1 DEF vars, AccountInv, IsBase, Own, Accounts, Parts, PartOf, Verified
<1>2. CASE UNCHANGED sharedVars
  BY <1>1, <1>2 DEF sharedVars
<1>3. CASE SharedNext /\ bottoms = << >>
  <2>1. bottoms' = << >>
    BY <1>3 DEF SharedNext, Account
  <2>2. UNCHANGED Parts
    BY <1>3, <2>1 DEF Parts
  <2> QED
    BY <2>1, <2>2 DEF AccountInv
<1>4. CASE Ended /\ Account /\ bottoms # << >>
  <2>1. bottoms' = bottoms
    BY <1>4, SameAccounts DEF AccountInv, Ended, vars
  <2> QED
    BY <1>1, <1>4, <2>1 DEF Ended
<1>5. CASE Step /\ Account /\ bottoms # << >>
  <2>1. Running
    BY <1>5 DEF Step, FetchFault, StackUnderflow, Stop, Ret, Call, Jmp, Cjmp,
       Binary, Not, PushConst, PrintTop, Load, Store, New, NewArray, ArrayLoad,
       ArrayStore, ArrayLength, Executing
  <2>2. Ready
    BY <1>5, <2>1 DEF Ready, Sound, AccountInv, Verified
  <2>3. Accounted
    BY <1>5, <2>2 DEF Accounted
  <2>4. CASE FetchFault
    BY <2>2, <2>4, SoundParts DEF Ready, FetchFault
  <2>5. CASE StackUnderflow
    BY <2>2, <2>5, NoStackUnderflow
  <2>6. CASE Stop \/ Work
    BY <2>3, <2>6, AccountWork DEF Separate!Next
  <2>7. CASE Call
    BY <2>3, <2>7, AccountCall DEF Separate!Next
  <2>8. CASE Ret
    BY <2>3, <2>8, AccountRet DEF Separate!Next
  <2> QED
    BY <1>5, <2>4, <2>5, <2>6, <2>7, <2>8 DEF Step, Work
<1> QED
  BY <1>2, <1>3, <1>4, <1>5 DEF SharedNext, Next

\* A verified program, whatever it computes and however deep it recurses, runs
\* on the one stack of the machine (VM::dataStack) as on a machine that gives
\* every activation a stack of its own.
THEOREM SharedStackSeparates == SharedSpec => OwnStackEach
<1>1. SharedSpec => Spec
  <2>1. SharedInit => Init
    BY DEF SharedInit
  <2>2. [SharedNext]_sharedVars => [Next]_vars
    BY DEF SharedNext, sharedVars
  <2> QED
    BY <2>1, <2>2, PTL DEF SharedSpec, Spec
<1>2. SharedSpec => [](TypeInv /\ ControlInv /\ StackInv)
  BY <1>1, TypeInvAlways, ControlInvAlways, StackInvInit, StackInvStep, PTL DEF Spec
<1>3. SharedInit => AccountInv /\ Separate!Begin
  BY AccountInit
<1>4. SharedSpec => Separate!Begin /\ [][Separate!Next]_Parts
  BY <1>2, <1>3, AccountStep, PTL DEF SharedSpec
<1> QED
  BY <1>4 DEF OwnStackEach, Separate!Spec

-----------------------------------------------------------------------------
(***************************************************************************)
(* The program file.  Places and digits: a word holds a number.            *)
(***************************************************************************)
IsPlace(place, n) == place = [d \in 0 .. n |-> IF d = 0 THEN 1 ELSE Base * place[d - 1]]

LEMMA PlaceExists == \A n \in Nat : \E place : IsPlace(place, n)
<1> DEFINE S == {n \in Nat : \E place : IsPlace(place, n)}
<1>1. 0 \in S
  <2>1. IsPlace([d \in 0 .. 0 |-> 1], 0)
    BY DEF IsPlace
  <2> QED  BY <2>1
<1>2. ASSUME NEW n \in Nat, n \in S
      PROVE  n + 1 \in S
  <2>1. PICK f : IsPlace(f, n)
    BY <1>2
  <2> DEFINE g == [d \in 0 .. n + 1 |-> IF d = 0 THEN 1 ELSE Base * f[d - 1]]
  <2>2. \A d \in 0 .. n : g[d] = f[d]
    BY <2>1 DEF IsPlace
  <2>3. g = [d \in 0 .. n + 1 |-> IF d = 0 THEN 1 ELSE Base * f[d - 1]]
    OBVIOUS
  <2> HIDE DEF g
  <2>4. ASSUME NEW d \in 0 .. n + 1, d # 0
        PROVE  g[d - 1] = f[d - 1]
    <3>1. d - 1 \in 0 .. n
      BY <2>4
    <3> QED  BY <2>2, <3>1
  <2>5. IsPlace(g, n + 1)
    BY <2>3, <2>4 DEF IsPlace
  <2> QED  BY <2>5
<1> HIDE DEF S
<1>3. Nat \subseteq S
  BY <1>1, <1>2, Induction
<1> QED  BY <1>3 DEF S

\* The worth of the digits of a word.
LEMMA Places ==
  /\ Place[0] = 1
  /\ \A d \in 1 .. IntBytes : Place[d] = Base * Place[d - 1]
  /\ \A d \in 0 .. IntBytes : Place[d] \in Nat \ {0}
<1>1. IntBytes \in Nat /\ Base \in Nat \ {0}
  BY WordAssumption
<1>2. IsPlace(Place, IntBytes)
  <2>1. PICK f : IsPlace(f, IntBytes)
    BY <1>1, PlaceExists
  <2> QED  BY <2>1 DEF IsPlace, Place
<1>3. Place[0] = 1
  BY <1>1, <1>2 DEF IsPlace
<1>4. ASSUME NEW d \in 1 .. IntBytes
      PROVE  Place[d] = Base * Place[d - 1]
  BY <1>1, <1>2 DEF IsPlace
<1> DEFINE T == {d \in Nat : d <= IntBytes => Place[d] \in Nat \ {0}}
<1>5. 0 \in T
  BY <1>3
<1>6. ASSUME NEW d \in Nat, d \in T
      PROVE  d + 1 \in T
  <2> SUFFICES ASSUME d + 1 <= IntBytes
               PROVE  Place[d + 1] \in Nat \ {0}
    OBVIOUS
  <2>1. d + 1 \in 1 .. IntBytes /\ (d + 1) - 1 = d
    BY <1>1
  <2>2. Place[d] \in Nat \ {0}
    BY <1>1, <1>6
  <2>3. Place[d + 1] = Base * Place[d]
    BY <1>4, <2>1
  <2>4. \A a, b \in Nat \ {0} : a * b \in Nat \ {0}
    OBVIOUS
  <2> QED  BY <1>1, <2>2, <2>3, <2>4
<1> HIDE DEF T
<1>7. Nat \subseteq T
  BY <1>5, <1>6, Induction
<1> QED  BY <1>1, <1>3, <1>4, <1>7 DEF T

LEMMA Remainder ==
  ASSUME NEW d \in Nat \ {0}, NEW t \in Int, NEW m \in 0 .. d - 1
  PROVE  (d * t + m) % d = m
  OBVIOUS

LEMMA Division ==
  ASSUME NEW d \in Nat \ {0}, NEW n \in Int
  PROVE  n % d = n - d * (n \div d) /\ n % d \in 0 .. d - 1 /\ n \div d \in Int
<1>1. n \div d \in Int
  OBVIOUS
<1>2. n % d \in 0 .. d - 1
  OBVIOUS
<1>3. n % d = n - d * (n \div d)
  OBVIOUS
<1> QED  BY <1>1, <1>2, <1>3

\* One digit more of a number.
LEMMA NextDigit ==
  ASSUME NEW n \in Int, NEW p \in Nat \ {0}, NEW b \in Nat \ {0}
  PROVE  n % (b * p) = (n % p) + ((n \div p) % b) * p
<1> DEFINE q == n \div p
           r == n % p
           t == q \div b
           s == q % b
<1>1. r = n - p * q /\ r \in 0 .. p - 1 /\ q \in Int
  BY Division
<1>2. s = q - b * t /\ s \in 0 .. b - 1 /\ t \in Int
  BY <1>1, Division
<1> HIDE DEF q, r, t, s
<1>3. n = (b * p) * t + (r + s * p)
  <2>1. n = p * q + r /\ q = b * t + s
    BY <1>1, <1>2
  <2>2. p * (b * t + s) = (b * p) * t + s * p
    BY <1>2
  <2> QED  BY <1>1, <1>2, <2>1, <2>2
<1>4. r + s * p \in 0 .. b * p - 1
  <2>1. s * p <= (b - 1) * p
    BY <1>2
  <2>2. 0 <= s * p
    BY <1>2
  <2>3. (b - 1) * p = b * p - p
    OBVIOUS
  <2> QED  BY <1>1, <1>2, <2>1, <2>2, <2>3
<1>5. b * p \in Nat \ {0}
  OBVIOUS
<1>6. ((b * p) * t + (r + s * p)) % (b * p) = r + s * p
  BY <1>2, <1>4, <1>5, Remainder
<1>7. n % (b * p) = r + s * p
  BY <1>3, <1>6
<1> QED  BY <1>7 DEF q, r, t, s

-----------------------------------------------------------------------------
(***************************************************************************)
(* Bytes, and what lies where in a file.                                   *)
(***************************************************************************)
Byte == (0 .. Base - 1) \cup Opcodes \cup UNION {ToSet(t) : t \in Text}

At(file, k) == [file |-> file, at |-> k]

Lies(w, file, k) ==
  /\ k + Len(w) <= Len(file)
  /\ \A i \in 1 .. Len(w) : file[k + i] = w[i]

LEMMA LiesBoth ==
  ASSUME NEW u \in Seq(Byte), NEW v \in Seq(Byte), NEW file \in Seq(Byte), NEW k \in Nat,
         Lies(u \o v, file, k)
  PROVE  Lies(u, file, k) /\ Lies(v, file, k + Len(u))
<1>1. /\ Len(u) \in Nat /\ Len(v) \in Nat /\ Len(u \o v) = Len(u) + Len(v) /\ Len(file) \in Nat
      /\ \A i \in 1 .. Len(u) + Len(v) : (u \o v)[i] = IF i <= Len(u) THEN u[i] ELSE v[i - Len(u)]
  BY ConcatProperties, LenProperties
<1>2. ASSUME NEW i \in 1 .. Len(u)
      PROVE  file[k + i] = u[i]
  <2>1. i \in 1 .. Len(u) + Len(v) /\ i <= Len(u)
    BY <1>1
  <2> QED  BY <1>1, <2>1 DEF Lies
<1>3. ASSUME NEW i \in 1 .. Len(v)
      PROVE  file[(k + Len(u)) + i] = v[i]
  <2> DEFINE j == Len(u) + i
  <2>1. j \in 1 .. Len(u) + Len(v) /\ ~ (j <= Len(u)) /\ j - Len(u) = i
    BY <1>1
  <2>2. (u \o v)[j] = v[i]
    BY <1>1, <2>1
  <2>3. file[k + j] = v[i]
    BY <1>1, <2>1, <2>2 DEF Lies
  <2>4. k + j = (k + Len(u)) + i
    BY <1>1
  <2> QED  BY <2>3, <2>4
<1> QED  BY <1>1, <1>2, <1>3 DEF Lies

LEMMA BytesThere ==
  ASSUME NEW w \in Seq(Byte), NEW file \in Seq(Byte), NEW k \in Nat, Lies(w, file, k)
  PROVE  Bytes(At(file, k), Len(w)) = w /\ Past(At(file, k), Len(w)) = At(file, k + Len(w))
<1>1. /\ Len(w) \in Nat /\ Len(file) \in Nat /\ k + Len(w) <= Len(file)
      /\ DOMAIN w = 1 .. Len(w) /\ DOMAIN file = 1 .. Len(file)
  BY LenProperties DEF Lies
<1> DEFINE n == k + IF Len(file) - k < Len(w) THEN Len(file) - k ELSE Len(w)
           s == SubSeq(file, k + 1, n)
<1>2. n = k + Len(w) /\ n \in Nat
  BY <1>1
<1>3. Bytes(At(file, k), Len(w)) = s
  BY DEF Bytes, At
<1>4. Past(At(file, k), Len(w)) = At(file, k + Len(w))
  BY <1>1 DEF Past, At
<1> HIDE DEF n
<1>5. \A i \in k + 1 .. n : file[i] \in Byte
  BY <1>1, <1>2
<1>6. /\ s \in Seq(Byte)
      /\ Len(s) = IF k + 1 <= n THEN n - (k + 1) + 1 ELSE 0
      /\ \A i \in 1 .. n - (k + 1) + 1 : s[i] = file[(k + 1) + i - 1]
  BY <1>2, <1>5, SubSeqProperties
<1>7. Len(s) = Len(w)
  BY <1>1, <1>2, <1>6
<1>8. ASSUME NEW i \in 1 .. Len(s)
      PROVE  s[i] = w[i]
  <2>1. i \in 1 .. n - (k + 1) + 1 /\ (k + 1) + i - 1 = k + i /\ i \in 1 .. Len(w)
    BY <1>1, <1>2, <1>7
  <2> QED  BY <1>6, <2>1 DEF Lies
<1> HIDE DEF s
<1>9. s = w
  BY <1>6, <1>7, <1>8, SeqEqual
<1> QED  BY <1>3, <1>4, <1>9

-----------------------------------------------------------------------------
(***************************************************************************)
(* Numbers.                                                                *)
(***************************************************************************)
LEMMA IntegerWritten ==
  ASSUME NEW n \in Int
  PROVE  /\ WriteInteger(n) \in Seq(Byte) /\ Len(WriteInteger(n)) = IntBytes
         /\ \A d \in 1 .. IntBytes : WriteInteger(n)[d] = (n \div Place[d - 1]) % Base
<1>1. IntBytes \in Nat /\ Base \in Nat \ {0}
  BY WordAssumption
<1>2. ASSUME NEW d \in 1 .. IntBytes
      PROVE  (n \div Place[d - 1]) % Base \in Byte
  <2>1. Place[d - 1] \in Nat \ {0}
    <3>1. d - 1 \in 0 .. IntBytes
      BY <1>1
    <3> QED  BY <3>1, Places
  <2>2. n \div Place[d - 1] \in Int
    BY <2>1, Division
  <2>3. (n \div Place[d - 1]) % Base \in 0 .. Base - 1
    BY <1>1, <2>2, Division
  <2> QED  BY <2>3 DEF Byte
<1> QED  BY <1>1, <1>2 DEF WriteInteger

\* The number that the lower digits of a number make.
LEMMA NumberIs ==
  ASSUME NEW n \in Int, NEW digits, NEW m \in Nat, Len(digits) = m, m <= IntBytes,
         \A d \in 1 .. m : digits[d] = (n \div Place[d - 1]) % Base
  PROVE  NumberOf(digits) = n % Place[m]
<1>1. IntBytes \in Nat /\ Base \in Nat \ {0}
  BY WordAssumption
<1> DEFINE Is(sum) == sum = [d \in 0 .. m |-> IF d = 0 THEN 0 ELSE sum[d - 1] + digits[d] * Place[d - 1]]
           sum == CHOOSE s : Is(s)
           low == [d \in 0 .. m |-> n % Place[d]]
<1>2. ASSUME NEW d \in 1 .. m
      PROVE  n % Place[d] = (n % Place[d - 1]) + digits[d] * Place[d - 1]
  <2>1. d \in 1 .. IntBytes /\ d - 1 \in 0 .. IntBytes
    BY <1>1
  <2>2. Place[d] = Base * Place[d - 1] /\ Place[d - 1] \in Nat \ {0}
    BY <2>1, Places
  <2>3. n % (Base * Place[d - 1])
          = (n % Place[d - 1]) + ((n \div Place[d - 1]) % Base) * Place[d - 1]
    BY <1>1, <2>2, NextDigit
  <2> QED  BY <2>2, <2>3
<1>3. n % Place[0] = 0
  <2>1. n % 1 = 0
    OBVIOUS
  <2> QED  BY <2>1, Places
<1>4. Is(low)
  <2>1. \A d \in 0 .. m : low[d] = n % Place[d]
    OBVIOUS
  <2>2. low = [d \in 0 .. m |-> n % Place[d]]
    OBVIOUS
  <2> HIDE DEF low
  <2>3. ASSUME NEW d \in 0 .. m
        PROVE  n % Place[d] = IF d = 0 THEN 0 ELSE low[d - 1] + digits[d] * Place[d - 1]
    <3>1. CASE d = 0
      BY <1>3, <3>1
    <3>2. CASE d # 0
      <4>1. d \in 1 .. m /\ d - 1 \in 0 .. m
        BY <3>2
      <4> QED  BY <1>2, <2>1, <3>2, <4>1
    <3> QED  BY <3>1, <3>2
  <2> QED  BY <2>2, <2>3
<1>5. Is(sum)
  BY <1>4
<1>6. NumberOf(digits) = sum[m]
  BY DEF NumberOf
<1> HIDE DEF sum
<1> DEFINE T == {d \in Nat : d <= m => sum[d] = n % Place[d]}
<1>7. 0 \in T
  BY <1>3, <1>5
<1>8. ASSUME NEW d \in Nat, d \in T
      PROVE  d + 1 \in T
  <2> SUFFICES ASSUME d + 1 <= m
               PROVE  sum[d + 1] = n % Place[d + 1]
    OBVIOUS
  <2>1. d + 1 \in 1 .. m /\ d + 1 \in 0 .. m /\ (d + 1) - 1 = d /\ d + 1 # 0
    OBVIOUS
  <2>2. sum[d] = n % Place[d]
    BY <1>8
  <2>3. sum[d + 1] = sum[(d + 1) - 1] + digits[d + 1] * Place[(d + 1) - 1]
    BY <1>5, <2>1
  <2>4. n % Place[d + 1] = (n % Place[(d + 1) - 1]) + digits[d + 1] * Place[(d + 1) - 1]
    BY <1>2, <2>1
  <2> QED  BY <2>1, <2>2, <2>3, <2>4
<1> HIDE DEF T
<1>9. Nat \subseteq T
  BY <1>7, <1>8, Induction
<1> QED  BY <1>6, <1>9 DEF T

LEMMA IntegerRead ==
  ASSUME NEW n \in 0 .. WordLimit - 1, NEW file \in Seq(Byte), NEW k \in Nat,
         Lies(WriteInteger(n), file, k)
  PROVE  ReadInteger(At(file, k)) = Got(n, At(file, k + IntBytes))
<1>1. n \in Int /\ WordLimit \in Nat \ {0} /\ IntBytes \in Nat
  BY WordAssumption, Places DEF WordLimit
<1>2. /\ WriteInteger(n) \in Seq(Byte) /\ Len(WriteInteger(n)) = IntBytes
      /\ \A d \in 1 .. IntBytes : WriteInteger(n)[d] = (n \div Place[d - 1]) % Base
  BY <1>1, IntegerWritten
<1>3. /\ Bytes(At(file, k), IntBytes) = WriteInteger(n)
      /\ Past(At(file, k), IntBytes) = At(file, k + IntBytes)
  BY <1>2, BytesThere
<1>4. NumberOf(WriteInteger(n)) = n % WordLimit
  BY <1>1, <1>2, NumberIs DEF WordLimit
<1>5. n % WordLimit = n
  BY <1>1
<1> QED  BY <1>3, <1>4, <1>5 DEF ReadInteger

LEMMA SignedIntegerRead ==
  ASSUME NEW n \in Value, NEW file \in Seq(Byte), NEW k \in Nat,
         Lies(WriteInteger(n), file, k)
  PROVE  ReadSignedInteger(At(file, k)) = Got(n, At(file, k + IntBytes))
<1>1. /\ n \in Int /\ HalfWord \in Nat \ {0} /\ WordLimit = 2 * HalfWord /\ IntBytes \in Nat
      /\ -HalfWord <= n /\ n < HalfWord
  BY WordAssumption, HalfWordAssumption DEF Value
<1>2. /\ WriteInteger(n) \in Seq(Byte) /\ Len(WriteInteger(n)) = IntBytes
      /\ \A d \in 1 .. IntBytes : WriteInteger(n)[d] = (n \div Place[d - 1]) % Base
  BY <1>1, IntegerWritten
<1>3. /\ Bytes(At(file, k), IntBytes) = WriteInteger(n)
      /\ Past(At(file, k), IntBytes) = At(file, k + IntBytes)
  BY <1>2, BytesThere
<1>4. NumberOf(WriteInteger(n)) = n % WordLimit
  BY <1>1, <1>2, NumberIs DEF WordLimit
<1>5. n % WordLimit = IF n < 0 THEN n + WordLimit ELSE n
  <2>1. CASE n >= 0
    <3>1. n \in 0 .. WordLimit - 1
      BY <1>1, <2>1
    <3> QED  BY <1>1, <2>1, <3>1
  <2>2. CASE n < 0
    <3>1. n + WordLimit \in 0 .. WordLimit - 1 /\ n = WordLimit * (-1) + (n + WordLimit)
      BY <1>1, <2>2
    <3>2. WordLimit \in Nat \ {0} /\ -1 \in Int
      BY <1>1
    <3>3. (WordLimit * (-1) + (n + WordLimit)) % WordLimit = n + WordLimit
      BY <3>1, <3>2, Remainder
    <3> QED  BY <2>2, <3>1, <3>3
  <2> QED  BY <1>1, <2>1, <2>2
<1> DEFINE word == n % WordLimit
<1>6. ReadInteger(At(file, k)) = Got(word, At(file, k + IntBytes))
  BY <1>3, <1>4 DEF ReadInteger
<1>7. ReadSignedInteger(At(file, k))
        = IF 2 * word < WordLimit THEN Got(word, At(file, k + IntBytes))
          ELSE Got(word - WordLimit, At(file, k + IntBytes))
  BY <1>6 DEF ReadSignedInteger, Got
<1>8. word = IF n < 0 THEN n + WordLimit ELSE n
  BY <1>5
<1> HIDE DEF word
<1>9. CASE n < 0
  <2>1. ~ (2 * word < WordLimit) /\ word - WordLimit = n
    BY <1>1, <1>8, <1>9
  <2> QED  BY <1>7, <2>1
<1>10. CASE ~ (n < 0)
  <2>1. 2 * word < WordLimit /\ word = n
    BY <1>1, <1>8, <1>10
  <2> QED  BY <1>7, <2>1
<1> QED  BY <1>9, <1>10

-----------------------------------------------------------------------------
(***************************************************************************)
(* Texts, instructions, and what lists have in common.                     *)
(***************************************************************************)
LEMMA TextIsList == \A t \in Text : t \in Seq(Byte) /\ Len(t) \in 0 .. WordLimit - 1
<1> SUFFICES ASSUME NEW t \in Text
             PROVE  t \in Seq(Byte) /\ Len(t) \in 0 .. WordLimit - 1
  OBVIOUS
<1>1. t \in Seq(ToSet(t)) /\ Len(t) < WordLimit
  BY CharactersAssumption DEF Lists
<1>2. ToSet(t) \subseteq Byte
  BY DEF Byte
<1>3. t \in Seq(Byte)
  BY <1>1, <1>2, SeqMonotonic
<1>4. WordLimit \in Nat /\ Len(t) \in Nat
  BY <1>1, WordAssumption, Places, LenProperties DEF WordLimit
<1> QED  BY <1>1, <1>3, <1>4

LEMMA StringWritten ==
  ASSUME NEW t \in Text
  PROVE  WriteString(t) \in Seq(Byte) /\ Len(WriteString(t)) = IntBytes + Len(t)
<1>1. t \in Seq(Byte) /\ Len(t) \in Int
  BY TextIsList
<1>2. WriteInteger(Len(t)) \in Seq(Byte) /\ Len(WriteInteger(Len(t))) = IntBytes
  BY <1>1, IntegerWritten
<1> QED  BY <1>1, <1>2, ConcatProperties DEF WriteString

LEMMA StringRead ==
  ASSUME NEW t \in Text, NEW file \in Seq(Byte), NEW k \in Nat, Lies(WriteString(t), file, k)
  PROVE  ReadString(At(file, k)) = Got(t, At(file, k + Len(WriteString(t))))
<1> DEFINE n == Len(t)
           j == k + IntBytes
<1>1. t \in Seq(Byte) /\ n \in 0 .. WordLimit - 1 /\ IntBytes \in Nat /\ j \in Nat /\ n \in Int
      /\ DOMAIN t = 1 .. n
  BY TextIsList, WordAssumption, LenProperties
<1>2. WriteInteger(n) \in Seq(Byte) /\ Len(WriteInteger(n)) = IntBytes
  BY <1>1, IntegerWritten
<1>3. Lies(WriteInteger(n), file, k) /\ Lies(t, file, j)
  BY <1>1, <1>2, LiesBoth DEF WriteString
<1>4. ReadInteger(At(file, k)) = Got(n, At(file, j))
  BY <1>1, <1>3, IntegerRead
<1>5. Bytes(At(file, j), n) = t /\ Past(At(file, j), n) = At(file, j + n)
  BY <1>1, <1>3, BytesThere
<1>6. j + n = k + Len(WriteString(t))
  BY <1>1, StringWritten
<1> HIDE DEF j, n
<1>7. ReadString(At(file, k))
        = Got([i \in 1 .. n |-> IF i <= Len(t) THEN t[i] ELSE Nul], At(file, j + n))
  BY <1>4, <1>5 DEF ReadString, Got
<1>8. [i \in 1 .. n |-> IF i <= Len(t) THEN t[i] ELSE Nul] = t
  <2>1. n = Len(t)
    BY DEF n
  <2>2. [i \in 1 .. n |-> IF i <= Len(t) THEN t[i] ELSE Nul] = [i \in 1 .. n |-> t[i]]
    BY <2>1
  <2>3. t = [i \in 1 .. n |-> t[i]]
    BY <1>1, LenProperties
  <2> QED  BY <2>2, <2>3
<1> QED  BY <1>6, <1>7, <1>8

LEMMA InstructionWritten ==
  ASSUME NEW instr \in SourceCode
  PROVE  WriteInstruction(instr) \in Seq(Byte)
<1>1. instr.op \in Byte
  <2>1. instr.op \in Opcodes
    BY DEF SourceCode, Opcodes, Plain, WithText, Const
  <2> QED  BY <2>1 DEF Byte
<1>2. <<instr.op>> \in Seq(Byte)
  BY <1>1
<1>3. CASE instr.op \in StringOps
  <2>1. instr.str \in Text
    BY <1>3 DEF SourceCode, NoArgOps, BinaryOps, StringOps, Plain, WithText, Const
  <2>2. WriteString(instr.str) \in Seq(Byte)
    BY <2>1, StringWritten
  <2>3. WriteInstruction(instr) = <<instr.op>> \o WriteString(instr.str)
    BY <1>3 DEF WriteInstruction
  <2> QED  BY <1>2, <2>2, <2>3, ConcatProperties
<1>4. CASE instr.op \notin StringOps /\ instr.op = "CONST"
  <2>1. instr.num \in Value
    BY <1>4 DEF SourceCode, NoArgOps, BinaryOps, StringOps, Plain, WithText, Const
  <2>2. instr.num \in Int
    BY <2>1, HalfWordAssumption DEF Value
  <2>3. WriteInteger(instr.num) \in Seq(Byte)
    BY <2>2, IntegerWritten
  <2>4. WriteInstruction(instr) = <<instr.op>> \o WriteInteger(instr.num)
    BY <1>4 DEF WriteInstruction
  <2> QED  BY <1>2, <2>3, <2>4, ConcatProperties
<1>5. CASE instr.op \notin StringOps /\ instr.op # "CONST"
  <2>1. WriteInstruction(instr) = <<instr.op>> \o <<>>
    BY <1>5 DEF WriteInstruction
  <2>2. <<>> \in Seq(Byte)
    BY EmptySeq
  <2> QED  BY <1>2, <2>1, <2>2, ConcatProperties
<1> QED  BY <1>3, <1>4, <1>5

LEMMA OpcodeRead ==
  ASSUME NEW op \in Opcodes, NEW file \in Seq(Byte), NEW k \in Nat, Lies(<<op>>, file, k)
  PROVE  ReadOpcode(At(file, k)) = Got(op, At(file, k + 1))
<1>1. <<op>> \in Seq(Byte) /\ Len(<<op>>) = 1 /\ <<op>> # <<>> /\ <<op>>[1] = op
  BY DEF Byte
<1>2. Bytes(At(file, k), 1) = <<op>> /\ Past(At(file, k), 1) = At(file, k + 1)
  BY <1>1, BytesThere
<1> QED  BY <1>1, <1>2 DEF ReadOpcode

LEMMA InstructionRead ==
  ASSUME NEW instr \in SourceCode, NEW file \in Seq(Byte), NEW k \in Nat,
         Lies(WriteInstruction(instr), file, k)
  PROVE  ReadInstruction(At(file, k)) = Got(instr, At(file, k + Len(WriteInstruction(instr))))
<1> DEFINE op == instr.op
           rest == IF op \in StringOps THEN WriteString(instr.str)
                   ELSE IF op = "CONST" THEN WriteInteger(instr.num) ELSE <<>>
<1>1. op \in Opcodes
  BY DEF SourceCode, Opcodes, Plain, WithText, Const
<1>2. op \in StringOps => instr.str \in Text /\ instr = WithText(op, instr.str)
  BY DEF SourceCode, NoArgOps, BinaryOps, StringOps, Plain, WithText, Const
<1>3. op \notin StringOps /\ op = "CONST" => instr.num \in Value /\ instr = Const(instr.num)
  BY DEF SourceCode, NoArgOps, BinaryOps, StringOps, Plain, WithText, Const
<1>4. op \notin StringOps /\ op # "CONST" => instr = Plain(op)
  BY DEF SourceCode, NoArgOps, BinaryOps, StringOps, Plain, WithText, Const
<1>5. Value \subseteq Int
  BY HalfWordAssumption DEF Value
<1>6. rest \in Seq(Byte)
  <2>1. CASE op \in StringOps
    BY <1>2, <2>1, StringWritten
  <2>2. CASE op \notin StringOps /\ op = "CONST"
    BY <1>3, <1>5, <2>2, IntegerWritten
  <2>3. CASE op \notin StringOps /\ op # "CONST"
    BY <2>3, EmptySeq
  <2> QED  BY <2>1, <2>2, <2>3
<1>7. <<op>> \in Seq(Byte) /\ Len(<<op>>) = 1
  BY <1>1 DEF Byte
<1>8. WriteInstruction(instr) = <<op>> \o rest
  BY DEF WriteInstruction
<1> HIDE DEF rest, op
<1>9. Lies(<<op>>, file, k) /\ Lies(rest, file, k + 1)
  BY <1>6, <1>7, <1>8, LiesBoth
<1>10. ReadOpcode(At(file, k)) = Got(op, At(file, k + 1))
  BY <1>1, <1>9, OpcodeRead
<1>11. k + Len(WriteInstruction(instr)) = (k + 1) + Len(rest) /\ k + 1 \in Nat
  <2>1. Len(<<op>> \o rest) = 1 + Len(rest) /\ Len(rest) \in Nat
    BY <1>6, <1>7, ConcatProperties, LenProperties
  <2> QED  BY <1>8, <2>1
<1>12. CASE op \in StringOps
  <2>1. rest = WriteString(instr.str)
    BY <1>12 DEF rest
  <2>2. ReadString(At(file, k + 1)) = Got(instr.str, At(file, (k + 1) + Len(rest)))
    BY <1>2, <1>9, <1>11, <1>12, <2>1, StringRead
  <2>3. ReadInstruction(At(file, k)) = Got(WithText(op, instr.str), At(file, (k + 1) + Len(rest)))
    BY <1>10, <1>12, <2>2 DEF ReadInstruction, Got
  <2> QED  BY <1>2, <1>11, <1>12, <2>3
<1>13. CASE op \notin StringOps /\ op = "CONST"
  <2>1. rest = WriteInteger(instr.num)
    BY <1>13 DEF rest
  <2>2. Len(rest) = IntBytes
    BY <1>3, <1>5, <1>13, <2>1, IntegerWritten
  <2>3. ReadSignedInteger(At(file, k + 1)) = Got(instr.num, At(file, (k + 1) + Len(rest)))
    BY <1>3, <1>9, <1>11, <1>13, <2>1, <2>2, SignedIntegerRead
  <2>4. ReadInstruction(At(file, k)) = Got(Const(instr.num), At(file, (k + 1) + Len(rest)))
    BY <1>10, <1>13, <2>3 DEF ReadInstruction, Got
  <2> QED  BY <1>3, <1>11, <1>13, <2>4
<1>14. CASE op \notin StringOps /\ op # "CONST"
  <2>1. rest = <<>>
    BY <1>14 DEF rest
  <2>2. (k + 1) + Len(rest) = k + 1
    BY <2>1
  <2>3. ReadInstruction(At(file, k)) = Got(Plain(op), At(file, k + 1))
    BY <1>10, <1>14 DEF ReadInstruction, Got
  <2> QED  BY <1>4, <1>11, <1>14, <2>2, <2>3
<1> QED  BY <1>12, <1>13, <1>14

WriteParts(parts) == WriteInteger(Len(parts)) \o Flat(parts)

LEMMA PartsWritten ==
  ASSUME NEW parts \in Seq(Seq(Byte))
  PROVE  WriteParts(parts) \in Seq(Byte) /\ Flat(parts) \in Seq(Byte)
<1>1. Flat(parts) \in Seq(Byte)
  BY FlattenConcat DEF Flat
<1>2. Len(parts) \in Int
  BY LenProperties
<1>3. WriteInteger(Len(parts)) \in Seq(Byte)
  BY <1>2, IntegerWritten
<1> QED  BY <1>1, <1>3, ConcatProperties DEF WriteParts

\* Where the parts of a list lie: at[i] is the place behind the i-th of them.
PartsLie(at, parts, file, k) ==
  LET n == Len(parts) IN
  /\ at \in [0 .. n -> Nat]
  /\ ReadInteger(At(file, k)) = Got(n, At(file, at[0]))
  /\ \A i \in 1 .. n : Lies(parts[i], file, at[i - 1]) /\ at[i] = at[i - 1] + Len(parts[i])
  /\ at[n] = k + Len(WriteParts(parts))

LEMMA PartsThere ==
  ASSUME NEW parts \in Seq(Seq(Byte)), Len(parts) < WordLimit,
         NEW file \in Seq(Byte), NEW k \in Nat, Lies(WriteParts(parts), file, k)
  PROVE  \E at : PartsLie(at, parts, file, k)
<1> DEFINE n == Len(parts)
           j == k + IntBytes
<1>1. n \in Nat /\ n \in Int /\ IntBytes \in Nat /\ j \in Nat /\ WordLimit \in Nat
      /\ n \in 0 .. WordLimit - 1 /\ DOMAIN parts = 1 .. n
  BY LenProperties, WordAssumption, Places DEF WordLimit
<1>2. WriteInteger(n) \in Seq(Byte) /\ Len(WriteInteger(n)) = IntBytes /\ Flat(parts) \in Seq(Byte)
  BY <1>1, IntegerWritten, PartsWritten
<1>3. Lies(WriteInteger(n), file, k) /\ Lies(Flat(parts), file, j)
  BY <1>2, LiesBoth DEF WriteParts
<1>4. ReadInteger(At(file, k)) = Got(n, At(file, j))
  BY <1>1, <1>3, IntegerRead
<1>5. PICK f : IsFlat(f, parts, n)
  BY <1>1, FlatExists
<1>6. f[0] = <<>> /\ \A i \in 1 .. n : f[i] = f[i - 1] \o parts[i]
  BY <1>1, <1>5, FlatStep
<1>7. \A i \in 0 .. n : f[i] \in Seq(Byte)
  BY <1>5, FlatType
<1>8. Flat(parts) = f[n]
  BY <1>5, FlattenIs DEF Flat
<1>9. Len(WriteParts(parts)) = IntBytes + Len(f[n])
  <2>1. Len(WriteInteger(n) \o Flat(parts)) = IntBytes + Len(Flat(parts))
    BY <1>2, ConcatProperties
  <2> QED  BY <1>8, <2>1 DEF WriteParts
<1> HIDE DEF n, j
<1> DEFINE at == [i \in 0 .. n |-> j + Len(f[i])]
<1>10. \A i \in 1 .. n : i - 1 \in 0 .. n /\ i \in 0 .. n /\ parts[i] \in Seq(Byte)
  BY <1>1
<1> DEFINE T == {d \in Nat : d <= n => Lies(f[n - d], file, j)}
<1>11. 0 \in T
  BY <1>1, <1>3, <1>8
<1>12. ASSUME NEW d \in Nat, d \in T
       PROVE  d + 1 \in T
  <2> SUFFICES ASSUME d + 1 <= n
               PROVE  Lies(f[n - (d + 1)], file, j)
    OBVIOUS
  <2> DEFINE i == n - d
  <2>1. i \in 1 .. n /\ i - 1 = n - (d + 1) /\ i - 1 \in 0 .. n
    BY <1>1
  <2>2. Lies(f[i], file, j)
    BY <1>1, <1>12
  <2> HIDE DEF i
  <2>3. f[i] = f[i - 1] \o parts[i] /\ f[i - 1] \in Seq(Byte) /\ parts[i] \in Seq(Byte)
    BY <1>6, <1>7, <1>10, <2>1
  <2>4. Lies(f[i - 1], file, j)
    BY <1>1, <2>2, <2>3, LiesBoth
  <2> QED  BY <2>1, <2>4
<1> HIDE DEF T
<1>13. Nat \subseteq T
  BY <1>11, <1>12, Induction
<1>14. ASSUME NEW i \in 0 .. n
       PROVE  Lies(f[i], file, j)
  <2>1. n - i \in Nat /\ n - i <= n /\ n - (n - i) = i
    BY <1>1
  <2>2. n - i \in T
    BY <1>13, <2>1
  <2> QED  BY <2>1, <2>2 DEF T
<1>15. at \in [0 .. n -> Nat]
  <2>1. \A i \in 0 .. n : Len(f[i]) \in Nat
    BY <1>7, LenProperties
  <2> QED  BY <1>1, <2>1
<1>16. at[0] = j
  <2>1. 0 \in 0 .. n /\ Len(f[0]) = 0 /\ j \in Nat
    BY <1>1, <1>6
  <2>2. at[0] = j + Len(f[0])
    BY <2>1
  <2> HIDE DEF at
  <2> QED  BY <2>1, <2>2
<1>17. ASSUME NEW i \in 1 .. n
       PROVE  Lies(parts[i], file, at[i - 1]) /\ at[i] = at[i - 1] + Len(parts[i])
  <2>1. f[i] = f[i - 1] \o parts[i] /\ f[i - 1] \in Seq(Byte) /\ parts[i] \in Seq(Byte)
        /\ i - 1 \in 0 .. n /\ i \in 0 .. n
    BY <1>6, <1>7, <1>10
  <2>2. Lies(f[i], file, j)
    BY <1>14, <2>1
  <2>3. Lies(parts[i], file, j + Len(f[i - 1]))
    BY <1>1, <2>1, <2>2, LiesBoth, ZenonT(40)
  <2>4. Len(f[i]) = Len(f[i - 1]) + Len(parts[i]) /\ Len(f[i - 1]) \in Nat /\ Len(parts[i]) \in Nat
    BY <2>1, ConcatProperties, LenProperties
  <2>5. at[i] = j + Len(f[i]) /\ at[i - 1] = j + Len(f[i - 1])
    BY <2>1
  <2> QED  BY <1>1, <2>3, <2>4, <2>5
<1>18. at[n] = k + Len(WriteParts(parts))
  <2>1. n \in 0 .. n /\ Len(f[n]) \in Nat
    BY <1>1, <1>7, LenProperties
  <2>2. at[n] = j + Len(f[n])
    BY <2>1
  <2>3. j = k + IntBytes
    BY DEF j
  <2> DEFINE m == Len(f[n])
             l == Len(WriteParts(parts))
  <2>4. m \in Nat /\ l = IntBytes + m /\ at[n] = j + m
    BY <1>9, <2>1, <2>2
  <2> HIDE DEF at, m, l
  <2>5. at[n] = k + l
    BY <1>1, <2>3, <2>4
  <2> QED  BY <2>5 DEF l
<1> HIDE DEF at
<1>19. PartsLie(at, parts, file, k)
  BY <1>4, <1>15, <1>16, <1>17, <1>18 DEF PartsLie, n
<1> QED  BY <1>19

LEMMA SameAtEnd ==
  ASSUME NEW n \in Nat, NEW f, NEW g, f[0] = g[0],
         \A i \in 1 .. n : f[i - 1] = g[i - 1] => f[i] = g[i]
  PROVE  f[n] = g[n]
<1> DEFINE T == {i \in Nat : i <= n => f[i] = g[i]}
<1>1. 0 \in T
  OBVIOUS
<1>2. ASSUME NEW i \in Nat, i \in T
      PROVE  i + 1 \in T
  <2> SUFFICES ASSUME i + 1 <= n
               PROVE  f[i + 1] = g[i + 1]
    OBVIOUS
  <2>1. i + 1 \in 1 .. n /\ (i + 1) - 1 = i
    OBVIOUS
  <2>2. f[i] = g[i]
    BY <1>2
  <2> QED  BY <2>1, <2>2
<1> HIDE DEF T
<1>3. Nat \subseteq T
  BY <1>1, <1>2, Induction
<1> QED  BY <1>3 DEF T

LEMMA PrefixGrows ==
  ASSUME NEW S, NEW list \in Seq(S)
  PROVE  /\ SubSeq(list, 1, 0) = <<>> /\ SubSeq(list, 1, Len(list)) = list
         /\ \A i \in 1 .. Len(list) : SubSeq(list, 1, i) = Append(SubSeq(list, 1, i - 1), list[i])
<1>1. SubSeq(list, 1, 0) = <<>>
  BY SubSeqEmpty
<1>2. SubSeq(list, 1, Len(list)) = list
  BY SubSeqFull
<1>3. ASSUME NEW i \in 1 .. Len(list)
      PROVE  SubSeq(list, 1, i) = Append(SubSeq(list, 1, i - 1), list[i])
  <2>1. Len(list) \in Nat /\ DOMAIN list = 1 .. Len(list)
    BY LenProperties
  <2>2. 1 \in 1 .. Len(list) /\ i \in 1 .. Len(list)
    BY <2>1
  <2>3. SubSeq(list, 1, i) = SubSeq(list, 1, i - 1) \o <<list[i]>>
    BY <2>2, SubSeqRecursiveSecond
  <2>4. 1 \in Int /\ i - 1 \in Int /\ \A j \in 1 .. i - 1 : list[j] \in S
    BY <2>1
  <2>5. SubSeq(list, 1, i - 1) \in Seq(S)
    BY <2>4, SubSeqProperties
  <2>6. list[i] \in S
    BY <2>1
  <2> QED  BY <2>3, <2>5, <2>6, AppendIsConcat
<1> QED  BY <1>1, <1>2, <1>3

-----------------------------------------------------------------------------
(***************************************************************************)
(* Lists: reading one gives what was written if reading one element does.  *)
(***************************************************************************)
LEMMA StringVectorWritten ==
  ASSUME NEW list \in Lists(Text)
  PROVE  LET parts == [i \in DOMAIN list |-> WriteString(list[i])] IN
         /\ list \in Seq(Text) /\ Len(list) \in Nat /\ Len(list) < WordLimit
         /\ parts \in Seq(Seq(Byte)) /\ Len(parts) = Len(list)
         /\ \A i \in 1 .. Len(list) : list[i] \in Text /\ parts[i] = WriteString(list[i])
         /\ WriteParts(parts) = WriteInteger(Len(list)) \o Flat(parts)
         /\ WriteParts(parts) \in Seq(Byte)
<1> DEFINE n == Len(list)
           parts == [i \in DOMAIN list |-> WriteString(list[i])]
<1>1. list \in Seq(Text) /\ n < WordLimit
  BY DEF Lists
<1>2. n \in Nat /\ DOMAIN list = 1 .. n /\ \A i \in 1 .. n : list[i] \in Text
  BY <1>1, LenProperties
<1>3. \A i \in 1 .. n : WriteString(list[i]) \in Seq(Byte)
  BY <1>2, StringWritten
<1>4. parts = [i \in 1 .. n |-> WriteString(list[i])]
  BY <1>2
<1> HIDE DEF parts
<1>5. parts \in Seq(Seq(Byte)) /\ Len(parts) = n
  BY <1>2, <1>3, <1>4
<1>6. WriteParts(parts) \in Seq(Byte)
  BY <1>5, PartsWritten
<1> QED  BY <1>1, <1>2, <1>4, <1>5, <1>6 DEF WriteParts, parts

LEMMA StringVectorRead ==
  ASSUME NEW list \in Lists(Text), NEW file \in Seq(Byte), NEW k \in Nat,
         NEW parts, parts = [i \in DOMAIN list |-> WriteString(list[i])],
         Lies(WriteParts(parts), file, k)
  PROVE  ReadStringVector(At(file, k)) = Got(list, At(file, k + Len(WriteParts(parts))))
<1> DEFINE n == Len(list)
<1>1. /\ list \in Seq(Text) /\ n \in Nat /\ n < WordLimit
      /\ parts \in Seq(Seq(Byte)) /\ Len(parts) = n
      /\ \A i \in 1 .. n : list[i] \in Text /\ parts[i] = WriteString(list[i])
  BY StringVectorWritten
<1>2. PICK at : PartsLie(at, parts, file, k)
  BY <1>1, PartsThere
<1>3. /\ at \in [0 .. n -> Nat]
      /\ ReadInteger(At(file, k)) = Got(n, At(file, at[0]))
      /\ \A i \in 1 .. n : Lies(parts[i], file, at[i - 1]) /\ at[i] = at[i - 1] + Len(parts[i])
      /\ at[n] = k + Len(WriteParts(parts))
  BY <1>1, <1>2 DEF PartsLie
<1> DEFINE Appended(before) ==
             Got(Append(before.value, ReadString(before.reader).value), ReadString(before.reader).reader)
           Is(f) == f = [i \in 0 .. n |-> IF i = 0 THEN Got(<<>>, At(file, at[0])) ELSE Appended(f[i - 1])]
           f == CHOOSE g : Is(g)
           h == [i \in 0 .. n |-> Got(SubSeq(list, 1, i), At(file, at[i]))]
<1>4. ReadStringVector(At(file, k)) = f[n]
  BY <1>3 DEF ReadStringVector, ReadList, Got
<1>7. /\ SubSeq(list, 1, 0) = <<>> /\ SubSeq(list, 1, n) = list
      /\ \A i \in 1 .. n : SubSeq(list, 1, i) = Append(SubSeq(list, 1, i - 1), list[i])
  <2>1. list \in Seq(Text)
    BY <1>1
  <2> QED  BY <2>1, PrefixGrows
<1>5. ASSUME NEW i \in 1 .. n
      PROVE  Appended(Got(SubSeq(list, 1, i - 1), At(file, at[i - 1])))
               = Got(SubSeq(list, 1, i), At(file, at[i]))
  <2>1. i - 1 \in 0 .. n
    BY <1>1
  <2>2. at[i - 1] \in Nat
    BY <1>3, <2>1
  <2>3. list[i] \in Text /\ Lies(WriteString(list[i]), file, at[i - 1])
        /\ at[i] = at[i - 1] + Len(WriteString(list[i]))
    BY <1>1, <1>3
  <2>4. ReadString(At(file, at[i - 1])) = Got(list[i], At(file, at[i]))
    BY <2>2, <2>3, StringRead
  <2>5. SubSeq(list, 1, i) = Append(SubSeq(list, 1, i - 1), list[i])
    BY <1>7
  <2> DEFINE before == Got(SubSeq(list, 1, i - 1), At(file, at[i - 1]))
             one    == Got(list[i], At(file, at[i]))
  <2>6. /\ before.value = SubSeq(list, 1, i - 1) /\ before.reader = At(file, at[i - 1])
        /\ one.value = list[i] /\ one.reader = At(file, at[i])
    BY DEF Got
  <2> HIDE DEF before, one
  <2>7. ReadString(before.reader) = one
    BY <2>4, <2>6 DEF one
  <2>8. Appended(before) = Got(SubSeq(list, 1, i), At(file, at[i]))
    BY <2>5, <2>6, <2>7
  <2> QED  BY <2>8 DEF before
<1> HIDE DEF Appended
<1>6. \A i \in 0 .. n : h[i] = Got(SubSeq(list, 1, i), At(file, at[i]))
  OBVIOUS
<1>8. h[0] = Got(<<>>, At(file, at[0])) /\ h[n] = Got(list, At(file, at[n]))
  <2>1. 0 \in 0 .. n /\ n \in 0 .. n
    BY <1>1
  <2> HIDE DEF h
  <2> QED  BY <1>6, <1>7, <2>1
<1>9. h = [i \in 0 .. n |-> Got(SubSeq(list, 1, i), At(file, at[i]))]
  OBVIOUS
<1> HIDE DEF h
<1>10. \A i \in 1 .. n : h[i] = Appended(h[i - 1])
  <2> SUFFICES ASSUME NEW i \in 1 .. n
               PROVE  h[i] = Appended(h[i - 1])
    OBVIOUS
  <2>1. i \in 0 .. n /\ i - 1 \in 0 .. n
    BY <1>1
  <2> QED  BY <1>5, <1>6, <2>1
<1>11. Is(h)
  <2>1. ASSUME NEW i \in 0 .. n
        PROVE  Got(SubSeq(list, 1, i), At(file, at[i]))
                 = IF i = 0 THEN Got(<<>>, At(file, at[0])) ELSE Appended(h[i - 1])
    <3>1. CASE i = 0
      BY <1>7, <3>1
    <3>2. CASE i # 0
      <4>1. i \in 1 .. n
        BY <3>2
      <4> QED  BY <1>6, <1>10, <3>2, <4>1
    <3> QED  BY <3>1, <3>2
  <2> QED  BY <1>9, <2>1
<1>12. Is(f)
  BY <1>11
<1> HIDE DEF f
<1>13. f[0] = Got(<<>>, At(file, at[0])) /\ \A i \in 1 .. n : f[i] = Appended(f[i - 1])
  <2>1. 0 \in 0 .. n
    BY <1>1
  <2>2. \A i \in 1 .. n : i \in 0 .. n /\ i # 0
    OBVIOUS
  <2> QED  BY <1>12, <2>1, <2>2
<1>14. f[n] = h[n]
  <2>1. \A i \in 1 .. n : f[i - 1] = h[i - 1] => f[i] = h[i]
    BY <1>10, <1>13
  <2>2. f[0] = h[0] /\ n \in Nat
    BY <1>1, <1>8, <1>13
  <2> HIDE DEF n
  <2> QED  BY <2>1, <2>2, SameAtEnd, Zenon
<1> QED  BY <1>3, <1>4, <1>8, <1>14

LEMMA CodeWritten ==
  ASSUME NEW list \in Lists(SourceCode)
  PROVE  LET parts == [i \in DOMAIN list |-> WriteInstruction(list[i])] IN
         /\ list \in Seq(SourceCode) /\ Len(list) \in Nat /\ Len(list) < WordLimit
         /\ parts \in Seq(Seq(Byte)) /\ Len(parts) = Len(list)
         /\ \A i \in 1 .. Len(list) : list[i] \in SourceCode /\ parts[i] = WriteInstruction(list[i])
         /\ WriteParts(parts) = WriteInteger(Len(list)) \o Flat(parts)
         /\ WriteParts(parts) \in Seq(Byte)
<1> DEFINE n == Len(list)
           parts == [i \in DOMAIN list |-> WriteInstruction(list[i])]
<1>1. list \in Seq(SourceCode) /\ n < WordLimit
  BY DEF Lists
<1>2. n \in Nat /\ DOMAIN list = 1 .. n /\ \A i \in 1 .. n : list[i] \in SourceCode
  BY <1>1, LenProperties
<1>3. \A i \in 1 .. n : WriteInstruction(list[i]) \in Seq(Byte)
  BY <1>2, InstructionWritten
<1>4. parts = [i \in 1 .. n |-> WriteInstruction(list[i])]
  BY <1>2
<1> HIDE DEF parts
<1>5. parts \in Seq(Seq(Byte)) /\ Len(parts) = n
  BY <1>2, <1>3, <1>4
<1>6. WriteParts(parts) \in Seq(Byte)
  BY <1>5, PartsWritten
<1> QED  BY <1>1, <1>2, <1>4, <1>5, <1>6 DEF WriteParts, parts

LEMMA CodeRead ==
  ASSUME NEW list \in Lists(SourceCode), NEW file \in Seq(Byte), NEW k \in Nat,
         NEW parts, parts = [i \in DOMAIN list |-> WriteInstruction(list[i])],
         Lies(WriteParts(parts), file, k)
  PROVE  ReadCode(At(file, k)) = Got(list, At(file, k + Len(WriteParts(parts))))
<1> DEFINE n == Len(list)
<1>1. /\ list \in Seq(SourceCode) /\ n \in Nat /\ n < WordLimit
      /\ parts \in Seq(Seq(Byte)) /\ Len(parts) = n
      /\ \A i \in 1 .. n : list[i] \in SourceCode /\ parts[i] = WriteInstruction(list[i])
  BY CodeWritten
<1>2. PICK at : PartsLie(at, parts, file, k)
  BY <1>1, PartsThere
<1>3. /\ at \in [0 .. n -> Nat]
      /\ ReadInteger(At(file, k)) = Got(n, At(file, at[0]))
      /\ \A i \in 1 .. n : Lies(parts[i], file, at[i - 1]) /\ at[i] = at[i - 1] + Len(parts[i])
      /\ at[n] = k + Len(WriteParts(parts))
  BY <1>1, <1>2 DEF PartsLie
<1> DEFINE Appended(before) ==
             Got(Append(before.value, ReadInstruction(before.reader).value), ReadInstruction(before.reader).reader)
           Is(f) == f = [i \in 0 .. n |-> IF i = 0 THEN Got(<<>>, At(file, at[0])) ELSE Appended(f[i - 1])]
           f == CHOOSE g : Is(g)
           h == [i \in 0 .. n |-> Got(SubSeq(list, 1, i), At(file, at[i]))]
<1>4. ReadCode(At(file, k)) = f[n]
  BY <1>3 DEF ReadCode, ReadList, Got
<1>7. /\ SubSeq(list, 1, 0) = <<>> /\ SubSeq(list, 1, n) = list
      /\ \A i \in 1 .. n : SubSeq(list, 1, i) = Append(SubSeq(list, 1, i - 1), list[i])
  <2>1. list \in Seq(SourceCode)
    BY <1>1
  <2> QED  BY <2>1, PrefixGrows
<1>5. ASSUME NEW i \in 1 .. n
      PROVE  Appended(Got(SubSeq(list, 1, i - 1), At(file, at[i - 1])))
               = Got(SubSeq(list, 1, i), At(file, at[i]))
  <2>1. i - 1 \in 0 .. n
    BY <1>1
  <2>2. at[i - 1] \in Nat
    BY <1>3, <2>1
  <2>3. list[i] \in SourceCode /\ Lies(WriteInstruction(list[i]), file, at[i - 1])
        /\ at[i] = at[i - 1] + Len(WriteInstruction(list[i]))
    BY <1>1, <1>3
  <2>4. ReadInstruction(At(file, at[i - 1])) = Got(list[i], At(file, at[i]))
    BY <2>2, <2>3, InstructionRead
  <2>5. SubSeq(list, 1, i) = Append(SubSeq(list, 1, i - 1), list[i])
    BY <1>7
  <2> DEFINE before == Got(SubSeq(list, 1, i - 1), At(file, at[i - 1]))
             one    == Got(list[i], At(file, at[i]))
  <2>6. /\ before.value = SubSeq(list, 1, i - 1) /\ before.reader = At(file, at[i - 1])
        /\ one.value = list[i] /\ one.reader = At(file, at[i])
    BY DEF Got
  <2> HIDE DEF before, one
  <2>7. ReadInstruction(before.reader) = one
    BY <2>4, <2>6 DEF one
  <2>8. Appended(before) = Got(SubSeq(list, 1, i), At(file, at[i]))
    BY <2>5, <2>6, <2>7
  <2> QED  BY <2>8 DEF before
<1> HIDE DEF Appended
<1>6. \A i \in 0 .. n : h[i] = Got(SubSeq(list, 1, i), At(file, at[i]))
  OBVIOUS
<1>8. h[0] = Got(<<>>, At(file, at[0])) /\ h[n] = Got(list, At(file, at[n]))
  <2>1. 0 \in 0 .. n /\ n \in 0 .. n
    BY <1>1
  <2> HIDE DEF h
  <2> QED  BY <1>6, <1>7, <2>1
<1>9. h = [i \in 0 .. n |-> Got(SubSeq(list, 1, i), At(file, at[i]))]
  OBVIOUS
<1> HIDE DEF h
<1>10. \A i \in 1 .. n : h[i] = Appended(h[i - 1])
  <2> SUFFICES ASSUME NEW i \in 1 .. n
               PROVE  h[i] = Appended(h[i - 1])
    OBVIOUS
  <2>1. i \in 0 .. n /\ i - 1 \in 0 .. n
    BY <1>1
  <2> QED  BY <1>5, <1>6, <2>1
<1>11. Is(h)
  <2>1. ASSUME NEW i \in 0 .. n
        PROVE  Got(SubSeq(list, 1, i), At(file, at[i]))
                 = IF i = 0 THEN Got(<<>>, At(file, at[0])) ELSE Appended(h[i - 1])
    <3>1. CASE i = 0
      BY <1>7, <3>1
    <3>2. CASE i # 0
      <4>1. i \in 1 .. n
        BY <3>2
      <4> QED  BY <1>6, <1>10, <3>2, <4>1
    <3> QED  BY <3>1, <3>2
  <2> QED  BY <1>9, <2>1
<1>12. Is(f)
  BY <1>11
<1> HIDE DEF f
<1>13. f[0] = Got(<<>>, At(file, at[0])) /\ \A i \in 1 .. n : f[i] = Appended(f[i - 1])
  <2>1. 0 \in 0 .. n
    BY <1>1
  <2>2. \A i \in 1 .. n : i \in 0 .. n /\ i # 0
    OBVIOUS
  <2> QED  BY <1>12, <2>1, <2>2
<1>14. f[n] = h[n]
  <2>1. \A i \in 1 .. n : f[i - 1] = h[i - 1] => f[i] = h[i]
    BY <1>10, <1>13
  <2>2. f[0] = h[0] /\ n \in Nat
    BY <1>1, <1>8, <1>13
  <2> HIDE DEF n
  <2> QED  BY <2>1, <2>2, SameAtEnd, Zenon
<1> QED  BY <1>3, <1>4, <1>8, <1>14

LEMMA BlockParts ==
  ASSUME NEW block \in SourceBlocks
  PROVE  LET parts == [i \in DOMAIN block.code |-> WriteInstruction(block.code[i])] IN
         /\ block.name \in Text /\ block.code \in Lists(SourceCode)
         /\ block = [name |-> block.name, code |-> block.code]
         /\ WriteString(block.name) \in Seq(Byte) /\ WriteParts(parts) \in Seq(Byte)
         /\ WriteBlock(block) = WriteString(block.name) \o WriteParts(parts)
<1> DEFINE parts == [i \in DOMAIN block.code |-> WriteInstruction(block.code[i])]
           head  == WriteString(block.name)
           count == WriteInteger(Len(block.code))
<1>1. /\ block.name \in Text /\ block.code \in Lists(SourceCode)
      /\ block = [name |-> block.name, code |-> block.code]
  BY DEF SourceBlocks
<1>2. /\ Len(block.code) \in Nat /\ parts \in Seq(Seq(Byte))
      /\ WriteParts(parts) = count \o Flat(parts) /\ WriteParts(parts) \in Seq(Byte)
  BY <1>1, CodeWritten
<1>3. head \in Seq(Byte) /\ count \in Seq(Byte) /\ Flat(parts) \in Seq(Byte)
  BY <1>1, <1>2, StringWritten, IntegerWritten, PartsWritten
<1>4. WriteBlock(block) = (head \o count) \o Flat(parts)
  BY DEF WriteBlock
<1> HIDE DEF parts, head, count
<1>5. (head \o count) \o Flat(parts) = head \o (count \o Flat(parts))
  BY <1>3, ConcatAssociative
<1> QED  BY <1>1, <1>2, <1>3, <1>4, <1>5 DEF parts, head, count

LEMMA BlockWritten ==
  ASSUME NEW block \in SourceBlocks
  PROVE  WriteBlock(block) \in Seq(Byte)
<1> DEFINE head == WriteString(block.name)
           code == WriteParts([i \in DOMAIN block.code |-> WriteInstruction(block.code[i])])
<1>1. head \in Seq(Byte) /\ code \in Seq(Byte) /\ WriteBlock(block) = head \o code
  BY BlockParts
<1> HIDE DEF head, code
<1> QED  BY <1>1, ConcatProperties

LEMMA BlockRead ==
  ASSUME NEW block \in SourceBlocks, NEW file \in Seq(Byte), NEW k \in Nat,
         Lies(WriteBlock(block), file, k)
  PROVE  ReadBlock(At(file, k)) = Got(block, At(file, k + Len(WriteBlock(block))))
<1> DEFINE parts == [i \in DOMAIN block.code |-> WriteInstruction(block.code[i])]
           head  == WriteString(block.name)
           code  == WriteParts(parts)
           j == k + Len(head)
           l == j + Len(code)
<1>1. /\ block.name \in Text /\ block.code \in Lists(SourceCode)
      /\ block = [name |-> block.name, code |-> block.code]
      /\ head \in Seq(Byte) /\ code \in Seq(Byte) /\ WriteBlock(block) = head \o code
  BY BlockParts
<1>2. Lies(head, file, k) /\ Lies(code, file, j)
  BY <1>1, LiesBoth
<1>3. j \in Nat /\ l = k + Len(WriteBlock(block))
  BY <1>1, ConcatProperties, LenProperties
<1>4. ReadString(At(file, k)) = Got(block.name, At(file, j))
  BY <1>1, <1>2, StringRead
<1>5. ReadCode(At(file, j)) = Got(block.code, At(file, l))
  BY <1>1, <1>2, <1>3, CodeRead
<1> HIDE DEF parts, head, code, j, l
<1>6. ReadBlock(At(file, k)) = Got([name |-> block.name, code |-> block.code], At(file, l))
  BY <1>4, <1>5 DEF ReadBlock, Got
<1> QED  BY <1>1, <1>3, <1>6

LEMMA BlocksWritten ==
  ASSUME NEW list \in Lists(SourceBlocks)
  PROVE  LET parts == [i \in DOMAIN list |-> WriteBlock(list[i])] IN
         /\ list \in Seq(SourceBlocks) /\ Len(list) \in Nat /\ Len(list) < WordLimit
         /\ parts \in Seq(Seq(Byte)) /\ Len(parts) = Len(list)
         /\ \A i \in 1 .. Len(list) : list[i] \in SourceBlocks /\ parts[i] = WriteBlock(list[i])
         /\ WriteParts(parts) = WriteInteger(Len(list)) \o Flat(parts)
         /\ WriteParts(parts) \in Seq(Byte)
<1> DEFINE n == Len(list)
           parts == [i \in DOMAIN list |-> WriteBlock(list[i])]
<1>1. list \in Seq(SourceBlocks) /\ n < WordLimit
  BY DEF Lists
<1>2. n \in Nat /\ DOMAIN list = 1 .. n /\ \A i \in 1 .. n : list[i] \in SourceBlocks
  BY <1>1, LenProperties
<1>3. \A i \in 1 .. n : WriteBlock(list[i]) \in Seq(Byte)
  BY <1>2, BlockWritten
<1>4. parts = [i \in 1 .. n |-> WriteBlock(list[i])]
  BY <1>2
<1> HIDE DEF parts
<1>5. parts \in Seq(Seq(Byte)) /\ Len(parts) = n
  BY <1>2, <1>3, <1>4
<1>6. WriteParts(parts) \in Seq(Byte)
  BY <1>5, PartsWritten
<1> QED  BY <1>1, <1>2, <1>4, <1>5, <1>6 DEF WriteParts, parts

LEMMA BlocksRead ==
  ASSUME NEW list \in Lists(SourceBlocks), NEW file \in Seq(Byte), NEW k \in Nat,
         NEW parts, parts = [i \in DOMAIN list |-> WriteBlock(list[i])],
         Lies(WriteParts(parts), file, k)
  PROVE  ReadBlocks(At(file, k)) = Got(list, At(file, k + Len(WriteParts(parts))))
<1> DEFINE n == Len(list)
<1>1. /\ list \in Seq(SourceBlocks) /\ n \in Nat /\ n < WordLimit
      /\ parts \in Seq(Seq(Byte)) /\ Len(parts) = n
      /\ \A i \in 1 .. n : list[i] \in SourceBlocks /\ parts[i] = WriteBlock(list[i])
  BY BlocksWritten
<1>2. PICK at : PartsLie(at, parts, file, k)
  BY <1>1, PartsThere
<1>3. /\ at \in [0 .. n -> Nat]
      /\ ReadInteger(At(file, k)) = Got(n, At(file, at[0]))
      /\ \A i \in 1 .. n : Lies(parts[i], file, at[i - 1]) /\ at[i] = at[i - 1] + Len(parts[i])
      /\ at[n] = k + Len(WriteParts(parts))
  BY <1>1, <1>2 DEF PartsLie
<1> DEFINE Appended(before) ==
             Got(Append(before.value, ReadBlock(before.reader).value), ReadBlock(before.reader).reader)
           Is(f) == f = [i \in 0 .. n |-> IF i = 0 THEN Got(<<>>, At(file, at[0])) ELSE Appended(f[i - 1])]
           f == CHOOSE g : Is(g)
           h == [i \in 0 .. n |-> Got(SubSeq(list, 1, i), At(file, at[i]))]
<1>4. ReadBlocks(At(file, k)) = f[n]
  BY <1>3 DEF ReadBlocks, ReadList, Got
<1>7. /\ SubSeq(list, 1, 0) = <<>> /\ SubSeq(list, 1, n) = list
      /\ \A i \in 1 .. n : SubSeq(list, 1, i) = Append(SubSeq(list, 1, i - 1), list[i])
  <2>1. list \in Seq(SourceBlocks)
    BY <1>1
  <2> QED  BY <2>1, PrefixGrows
<1>5. ASSUME NEW i \in 1 .. n
      PROVE  Appended(Got(SubSeq(list, 1, i - 1), At(file, at[i - 1])))
               = Got(SubSeq(list, 1, i), At(file, at[i]))
  <2>1. i - 1 \in 0 .. n
    BY <1>1
  <2>2. at[i - 1] \in Nat
    BY <1>3, <2>1
  <2>3. list[i] \in SourceBlocks /\ Lies(WriteBlock(list[i]), file, at[i - 1])
        /\ at[i] = at[i - 1] + Len(WriteBlock(list[i]))
    BY <1>1, <1>3
  <2>4. ReadBlock(At(file, at[i - 1])) = Got(list[i], At(file, at[i]))
    BY <2>2, <2>3, BlockRead
  <2>5. SubSeq(list, 1, i) = Append(SubSeq(list, 1, i - 1), list[i])
    BY <1>7
  <2> DEFINE before == Got(SubSeq(list, 1, i - 1), At(file, at[i - 1]))
             one    == Got(list[i], At(file, at[i]))
  <2>6. /\ before.value = SubSeq(list, 1, i - 1) /\ before.reader = At(file, at[i - 1])
        /\ one.value = list[i] /\ one.reader = At(file, at[i])
    BY DEF Got
  <2> HIDE DEF before, one
  <2>7. ReadBlock(before.reader) = one
    BY <2>4, <2>6 DEF one
  <2>8. Appended(before) = Got(SubSeq(list, 1, i), At(file, at[i]))
    BY <2>5, <2>6, <2>7
  <2> QED  BY <2>8 DEF before
<1> HIDE DEF Appended
<1>6. \A i \in 0 .. n : h[i] = Got(SubSeq(list, 1, i), At(file, at[i]))
  OBVIOUS
<1>8. h[0] = Got(<<>>, At(file, at[0])) /\ h[n] = Got(list, At(file, at[n]))
  <2>1. 0 \in 0 .. n /\ n \in 0 .. n
    BY <1>1
  <2> HIDE DEF h
  <2> QED  BY <1>6, <1>7, <2>1
<1>9. h = [i \in 0 .. n |-> Got(SubSeq(list, 1, i), At(file, at[i]))]
  OBVIOUS
<1> HIDE DEF h
<1>10. \A i \in 1 .. n : h[i] = Appended(h[i - 1])
  <2> SUFFICES ASSUME NEW i \in 1 .. n
               PROVE  h[i] = Appended(h[i - 1])
    OBVIOUS
  <2>1. i \in 0 .. n /\ i - 1 \in 0 .. n
    BY <1>1
  <2> QED  BY <1>5, <1>6, <2>1
<1>11. Is(h)
  <2>1. ASSUME NEW i \in 0 .. n
        PROVE  Got(SubSeq(list, 1, i), At(file, at[i]))
                 = IF i = 0 THEN Got(<<>>, At(file, at[0])) ELSE Appended(h[i - 1])
    <3>1. CASE i = 0
      BY <1>7, <3>1
    <3>2. CASE i # 0
      <4>1. i \in 1 .. n
        BY <3>2
      <4> QED  BY <1>6, <1>10, <3>2, <4>1
    <3> QED  BY <3>1, <3>2
  <2> QED  BY <1>9, <2>1
<1>12. Is(f)
  BY <1>11
<1> HIDE DEF f
<1>13. f[0] = Got(<<>>, At(file, at[0])) /\ \A i \in 1 .. n : f[i] = Appended(f[i - 1])
  <2>1. 0 \in 0 .. n
    BY <1>1
  <2>2. \A i \in 1 .. n : i \in 0 .. n /\ i # 0
    OBVIOUS
  <2> QED  BY <1>12, <2>1, <2>2
<1>14. f[n] = h[n]
  <2>1. \A i \in 1 .. n : f[i - 1] = h[i - 1] => f[i] = h[i]
    BY <1>10, <1>13
  <2>2. f[0] = h[0] /\ n \in Nat
    BY <1>1, <1>8, <1>13
  <2> HIDE DEF n
  <2> QED  BY <2>1, <2>2, SameAtEnd, Zenon
<1> QED  BY <1>3, <1>4, <1>8, <1>14

LEMMA MethodParts ==
  ASSUME NEW method \in SourceMethods
  PROVE  LET variables == [i \in DOMAIN method.variables |-> WriteString(method.variables[i])]
             fields    == [i \in DOMAIN method.fields |-> WriteString(method.fields[i])]
             blocks    == [i \in DOMAIN method.blocks |-> WriteBlock(method.blocks[i])]
         IN
         /\ method.name \in Text /\ method.blocks \in Lists(SourceBlocks)
         /\ method.variables \in Lists(Text) /\ method.fields \in Lists(Text)
         /\ method = [name |-> method.name, variables |-> method.variables,
                      fields |-> method.fields, blocks |-> method.blocks]
         /\ WriteString(method.name) \in Seq(Byte) /\ WriteParts(variables) \in Seq(Byte)
         /\ WriteParts(fields) \in Seq(Byte) /\ WriteParts(blocks) \in Seq(Byte)
         /\ WriteMethod(method)
              = ((WriteString(method.name) \o WriteParts(variables)) \o WriteParts(fields))
                  \o WriteParts(blocks)
<1> DEFINE variables == [i \in DOMAIN method.variables |-> WriteString(method.variables[i])]
           fields    == [i \in DOMAIN method.fields |-> WriteString(method.fields[i])]
           blocks    == [i \in DOMAIN method.blocks |-> WriteBlock(method.blocks[i])]
           head  == (WriteString(method.name) \o WriteParts(variables)) \o WriteParts(fields)
           count == WriteInteger(Len(method.blocks))
<1>1. /\ method.name \in Text /\ method.blocks \in Lists(SourceBlocks)
      /\ method.variables \in Lists(Text) /\ method.fields \in Lists(Text)
      /\ method = [name |-> method.name, variables |-> method.variables,
                   fields |-> method.fields, blocks |-> method.blocks]
  BY DEF SourceMethods
<1>2. /\ WriteParts(variables) = WriteStringVector(method.variables)
      /\ WriteParts(variables) \in Seq(Byte)
  BY <1>1, StringVectorWritten DEF WriteStringVector
<1>3. /\ WriteParts(fields) = WriteStringVector(method.fields)
      /\ WriteParts(fields) \in Seq(Byte)
  BY <1>1, StringVectorWritten DEF WriteStringVector
<1>4. /\ Len(method.blocks) \in Nat /\ blocks \in Seq(Seq(Byte))
      /\ WriteParts(blocks) = count \o Flat(blocks) /\ WriteParts(blocks) \in Seq(Byte)
  BY <1>1, BlocksWritten
<1>5. WriteString(method.name) \in Seq(Byte) /\ count \in Seq(Byte) /\ Flat(blocks) \in Seq(Byte)
  BY <1>1, <1>4, StringWritten, IntegerWritten, PartsWritten
<1>6. WriteMethod(method) = (head \o count) \o Flat(blocks)
  BY <1>2, <1>3 DEF WriteMethod
<1>7. head \in Seq(Byte)
  BY <1>2, <1>3, <1>5, ConcatProperties
<1> HIDE DEF variables, fields, blocks, head, count
<1>8. (head \o count) \o Flat(blocks) = head \o (count \o Flat(blocks))
  <2>1. PICK flat : flat = Flat(blocks)
    OBVIOUS
  <2>2. head \in Seq(Byte) /\ count \in Seq(Byte) /\ flat \in Seq(Byte)
    BY <1>5, <1>7, <2>1
  <2>3. (head \o count) \o flat = head \o (count \o flat)
    BY <2>2, ConcatAssociative
  <2> QED  BY <2>1, <2>3
<1> QED  BY <1>1, <1>2, <1>3, <1>4, <1>5, <1>6, <1>8 DEF variables, fields, blocks, head, count

LEMMA MethodWritten ==
  ASSUME NEW method \in SourceMethods
  PROVE  WriteMethod(method) \in Seq(Byte)
<1> DEFINE a == WriteString(method.name)
           b == WriteParts([i \in DOMAIN method.variables |-> WriteString(method.variables[i])])
           c == WriteParts([i \in DOMAIN method.fields |-> WriteString(method.fields[i])])
           d == WriteParts([i \in DOMAIN method.blocks |-> WriteBlock(method.blocks[i])])
<1>1. /\ a \in Seq(Byte) /\ b \in Seq(Byte) /\ c \in Seq(Byte) /\ d \in Seq(Byte)
      /\ WriteMethod(method) = ((a \o b) \o c) \o d
  BY MethodParts
<1> HIDE DEF a, b, c, d
<1>2. a \o b \in Seq(Byte)
  BY <1>1, ConcatProperties
<1>3. (a \o b) \o c \in Seq(Byte)
  BY <1>1, <1>2, ConcatProperties
<1> QED  BY <1>1, <1>3, ConcatProperties

LEMMA MethodRead ==
  ASSUME NEW method \in SourceMethods, NEW file \in Seq(Byte), NEW k \in Nat,
         Lies(WriteMethod(method), file, k)
  PROVE  ReadMethod(At(file, k)) = Got(method, At(file, k + Len(WriteMethod(method))))
<1> DEFINE variables == [i \in DOMAIN method.variables |-> WriteString(method.variables[i])]
           fields    == [i \in DOMAIN method.fields |-> WriteString(method.fields[i])]
           blocks    == [i \in DOMAIN method.blocks |-> WriteBlock(method.blocks[i])]
           a == WriteString(method.name)
           b == WriteParts(variables)
           c == WriteParts(fields)
           d == WriteParts(blocks)
           kb == k + Len(a)
           kc == kb + Len(b)
           kd == kc + Len(c)
           end == kd + Len(d)
<1>1. /\ method.name \in Text /\ method.blocks \in Lists(SourceBlocks)
      /\ method.variables \in Lists(Text) /\ method.fields \in Lists(Text)
      /\ method = [name |-> method.name, variables |-> method.variables,
                   fields |-> method.fields, blocks |-> method.blocks]
      /\ a \in Seq(Byte) /\ b \in Seq(Byte) /\ c \in Seq(Byte) /\ d \in Seq(Byte)
      /\ WriteMethod(method) = ((a \o b) \o c) \o d
  BY MethodParts
<1>2. /\ a \o b \in Seq(Byte) /\ Len(a \o b) = Len(a) + Len(b)
      /\ (a \o b) \o c \in Seq(Byte) /\ Len((a \o b) \o c) = (Len(a) + Len(b)) + Len(c)
      /\ Len(((a \o b) \o c) \o d) = ((Len(a) + Len(b)) + Len(c)) + Len(d)
      /\ Len(a) \in Nat /\ Len(b) \in Nat /\ Len(c) \in Nat /\ Len(d) \in Nat
  <2>1. a \in Seq(Byte) /\ b \in Seq(Byte) /\ c \in Seq(Byte) /\ d \in Seq(Byte)
    BY <1>1
  <2> HIDE DEF a, b, c, d
  <2>2. a \o b \in Seq(Byte) /\ Len(a \o b) = Len(a) + Len(b)
    BY <2>1, ConcatProperties
  <2>3. (a \o b) \o c \in Seq(Byte) /\ Len((a \o b) \o c) = Len(a \o b) + Len(c)
    BY <2>1, <2>2, ConcatProperties
  <2>4. Len(((a \o b) \o c) \o d) = Len((a \o b) \o c) + Len(d)
    BY <2>1, <2>3, ConcatProperties
  <2> QED  BY <2>1, <2>2, <2>3, <2>4, LenProperties
<1>3. /\ kb \in Nat /\ kc \in Nat /\ kd \in Nat /\ kc = k + (Len(a) + Len(b))
      /\ kd = k + ((Len(a) + Len(b)) + Len(c)) /\ end = k + Len(WriteMethod(method))
  <2>1. /\ Len(a) \in Nat /\ Len(b) \in Nat /\ Len(c) \in Nat /\ Len(d) \in Nat
        /\ Len(WriteMethod(method)) = ((Len(a) + Len(b)) + Len(c)) + Len(d)
    BY <1>1, <1>2
  <2> HIDE DEF a, b, c, d
  <2> QED  BY <2>1
<1>4. Lies((a \o b) \o c, file, k) /\ Lies(d, file, kd)
  <2> HIDE DEF a, b, c, d
  <2> DEFINE u == (a \o b) \o c
  <2>1. /\ u \in Seq(Byte) /\ d \in Seq(Byte) /\ Lies(u \o d, file, k)
        /\ Len(u) = (Len(a) + Len(b)) + Len(c)
    BY <1>1, <1>2
  <2> HIDE DEF u, kd
  <2>2. Lies(u, file, k) /\ Lies(d, file, k + Len(u))
    BY <2>1, LiesBoth
  <2>3. kd = k + Len(u)
    BY <1>3, <2>1
  <2> QED  BY <2>2, <2>3 DEF u
<1>5. Lies(a \o b, file, k) /\ Lies(c, file, kc)
  <2> HIDE DEF a, b, c, d
  <2> QED  BY <1>1, <1>2, <1>3, <1>4, LiesBoth
<1>6. Lies(a, file, k) /\ Lies(b, file, kb)
  <2> HIDE DEF a, b, c, d
  <2> QED  BY <1>1, <1>5, LiesBoth
<1>7. ReadString(At(file, k)) = Got(method.name, At(file, kb))
  BY <1>1, <1>6, StringRead
<1>8. ReadStringVector(At(file, kb)) = Got(method.variables, At(file, kc))
  <2>1. kb \in Nat /\ Lies(WriteParts(variables), file, kb) /\ method.variables \in Lists(Text)
    BY <1>1, <1>3, <1>6
  <2> HIDE DEF kb
  <2>2. ReadStringVector(At(file, kb))
          = Got(method.variables, At(file, kb + Len(WriteParts(variables))))
    BY <2>1, StringVectorRead
  <2> QED  BY <2>2
<1>9. ReadStringVector(At(file, kc)) = Got(method.fields, At(file, kd))
  <2>1. kc \in Nat /\ Lies(WriteParts(fields), file, kc) /\ method.fields \in Lists(Text)
    BY <1>1, <1>3, <1>5
  <2> HIDE DEF kc
  <2>2. ReadStringVector(At(file, kc))
          = Got(method.fields, At(file, kc + Len(WriteParts(fields))))
    BY <2>1, StringVectorRead
  <2> QED  BY <2>2
<1>10. ReadBlocks(At(file, kd)) = Got(method.blocks, At(file, end))
  <2>1. kd \in Nat /\ Lies(WriteParts(blocks), file, kd) /\ method.blocks \in Lists(SourceBlocks)
    BY <1>1, <1>3, <1>4
  <2> HIDE DEF kd
  <2>2. ReadBlocks(At(file, kd)) = Got(method.blocks, At(file, kd + Len(WriteParts(blocks))))
    BY <2>1, BlocksRead
  <2> QED  BY <2>2
<1> HIDE DEF variables, fields, blocks, a, b, c, d, kb, kc, kd, end
<1>11. ReadMethod(At(file, k))
         = Got([name |-> method.name, variables |-> method.variables,
                fields |-> method.fields, blocks |-> method.blocks], At(file, end))
  BY <1>7, <1>8, <1>9, <1>10 DEF ReadMethod, Got
<1> QED  BY <1>1, <1>3, <1>11

LEMMA MethodsWritten ==
  ASSUME NEW list \in Lists(SourceMethods)
  PROVE  LET parts == [i \in DOMAIN list |-> WriteMethod(list[i])] IN
         /\ list \in Seq(SourceMethods) /\ Len(list) \in Nat /\ Len(list) < WordLimit
         /\ parts \in Seq(Seq(Byte)) /\ Len(parts) = Len(list)
         /\ \A i \in 1 .. Len(list) : list[i] \in SourceMethods /\ parts[i] = WriteMethod(list[i])
         /\ WriteParts(parts) = WriteInteger(Len(list)) \o Flat(parts)
         /\ WriteParts(parts) \in Seq(Byte)
<1> DEFINE n == Len(list)
           parts == [i \in DOMAIN list |-> WriteMethod(list[i])]
<1>1. list \in Seq(SourceMethods) /\ n < WordLimit
  BY DEF Lists
<1>2. n \in Nat /\ DOMAIN list = 1 .. n /\ \A i \in 1 .. n : list[i] \in SourceMethods
  BY <1>1, LenProperties
<1>3. \A i \in 1 .. n : WriteMethod(list[i]) \in Seq(Byte)
  BY <1>2, MethodWritten
<1>4. parts = [i \in 1 .. n |-> WriteMethod(list[i])]
  BY <1>2
<1> HIDE DEF parts
<1>5. parts \in Seq(Seq(Byte)) /\ Len(parts) = n
  BY <1>2, <1>3, <1>4
<1>6. WriteParts(parts) \in Seq(Byte)
  BY <1>5, PartsWritten
<1> QED  BY <1>1, <1>2, <1>4, <1>5, <1>6 DEF WriteParts, parts

LEMMA MethodsRead ==
  ASSUME NEW list \in Lists(SourceMethods), NEW file \in Seq(Byte), NEW k \in Nat,
         NEW parts, parts = [i \in DOMAIN list |-> WriteMethod(list[i])],
         Lies(WriteParts(parts), file, k)
  PROVE  ReadMethods(At(file, k)) = Got(list, At(file, k + Len(WriteParts(parts))))
<1> DEFINE n == Len(list)
<1>1. /\ list \in Seq(SourceMethods) /\ n \in Nat /\ n < WordLimit
      /\ parts \in Seq(Seq(Byte)) /\ Len(parts) = n
      /\ \A i \in 1 .. n : list[i] \in SourceMethods /\ parts[i] = WriteMethod(list[i])
  BY MethodsWritten
<1>2. PICK at : PartsLie(at, parts, file, k)
  BY <1>1, PartsThere
<1>3. /\ at \in [0 .. n -> Nat]
      /\ ReadInteger(At(file, k)) = Got(n, At(file, at[0]))
      /\ \A i \in 1 .. n : Lies(parts[i], file, at[i - 1]) /\ at[i] = at[i - 1] + Len(parts[i])
      /\ at[n] = k + Len(WriteParts(parts))
  BY <1>1, <1>2 DEF PartsLie
<1> DEFINE Appended(before) ==
             Got(Append(before.value, ReadMethod(before.reader).value), ReadMethod(before.reader).reader)
           Is(f) == f = [i \in 0 .. n |-> IF i = 0 THEN Got(<<>>, At(file, at[0])) ELSE Appended(f[i - 1])]
           f == CHOOSE g : Is(g)
           h == [i \in 0 .. n |-> Got(SubSeq(list, 1, i), At(file, at[i]))]
<1>4. ReadMethods(At(file, k)) = f[n]
  BY <1>3 DEF ReadMethods, ReadList, Got
<1>7. /\ SubSeq(list, 1, 0) = <<>> /\ SubSeq(list, 1, n) = list
      /\ \A i \in 1 .. n : SubSeq(list, 1, i) = Append(SubSeq(list, 1, i - 1), list[i])
  <2>1. list \in Seq(SourceMethods)
    BY <1>1
  <2> QED  BY <2>1, PrefixGrows
<1>5. ASSUME NEW i \in 1 .. n
      PROVE  Appended(Got(SubSeq(list, 1, i - 1), At(file, at[i - 1])))
               = Got(SubSeq(list, 1, i), At(file, at[i]))
  <2>1. i - 1 \in 0 .. n
    BY <1>1
  <2>2. at[i - 1] \in Nat
    BY <1>3, <2>1
  <2>3. list[i] \in SourceMethods /\ Lies(WriteMethod(list[i]), file, at[i - 1])
        /\ at[i] = at[i - 1] + Len(WriteMethod(list[i]))
    BY <1>1, <1>3
  <2>4. ReadMethod(At(file, at[i - 1])) = Got(list[i], At(file, at[i]))
    BY <2>2, <2>3, MethodRead
  <2>5. SubSeq(list, 1, i) = Append(SubSeq(list, 1, i - 1), list[i])
    BY <1>7
  <2> DEFINE before == Got(SubSeq(list, 1, i - 1), At(file, at[i - 1]))
             one    == Got(list[i], At(file, at[i]))
  <2>6. /\ before.value = SubSeq(list, 1, i - 1) /\ before.reader = At(file, at[i - 1])
        /\ one.value = list[i] /\ one.reader = At(file, at[i])
    BY DEF Got
  <2> HIDE DEF before, one
  <2>7. ReadMethod(before.reader) = one
    BY <2>4, <2>6 DEF one
  <2>8. Appended(before) = Got(SubSeq(list, 1, i), At(file, at[i]))
    BY <2>5, <2>6, <2>7
  <2> QED  BY <2>8 DEF before
<1> HIDE DEF Appended
<1>6. \A i \in 0 .. n : h[i] = Got(SubSeq(list, 1, i), At(file, at[i]))
  OBVIOUS
<1>8. h[0] = Got(<<>>, At(file, at[0])) /\ h[n] = Got(list, At(file, at[n]))
  <2>1. 0 \in 0 .. n /\ n \in 0 .. n
    BY <1>1
  <2> HIDE DEF h
  <2> QED  BY <1>6, <1>7, <2>1
<1>9. h = [i \in 0 .. n |-> Got(SubSeq(list, 1, i), At(file, at[i]))]
  OBVIOUS
<1> HIDE DEF h
<1>10. \A i \in 1 .. n : h[i] = Appended(h[i - 1])
  <2> SUFFICES ASSUME NEW i \in 1 .. n
               PROVE  h[i] = Appended(h[i - 1])
    OBVIOUS
  <2>1. i \in 0 .. n /\ i - 1 \in 0 .. n
    BY <1>1
  <2> QED  BY <1>5, <1>6, <2>1
<1>11. Is(h)
  <2>1. ASSUME NEW i \in 0 .. n
        PROVE  Got(SubSeq(list, 1, i), At(file, at[i]))
                 = IF i = 0 THEN Got(<<>>, At(file, at[0])) ELSE Appended(h[i - 1])
    <3>1. CASE i = 0
      BY <1>7, <3>1
    <3>2. CASE i # 0
      <4>1. i \in 1 .. n
        BY <3>2
      <4> QED  BY <1>6, <1>10, <3>2, <4>1
    <3> QED  BY <3>1, <3>2
  <2> QED  BY <1>9, <2>1
<1>12. Is(f)
  BY <1>11
<1> HIDE DEF f
<1>13. f[0] = Got(<<>>, At(file, at[0])) /\ \A i \in 1 .. n : f[i] = Appended(f[i - 1])
  <2>1. 0 \in 0 .. n
    BY <1>1
  <2>2. \A i \in 1 .. n : i \in 0 .. n /\ i # 0
    OBVIOUS
  <2> QED  BY <1>12, <2>1, <2>2
<1>14. f[n] = h[n]
  <2>1. \A i \in 1 .. n : f[i - 1] = h[i - 1] => f[i] = h[i]
    BY <1>10, <1>13
  <2>2. f[0] = h[0] /\ n \in Nat
    BY <1>1, <1>8, <1>13
  <2> HIDE DEF n
  <2> QED  BY <2>1, <2>2, SameAtEnd, Zenon
<1> QED  BY <1>3, <1>4, <1>8, <1>14

-----------------------------------------------------------------------------
(***************************************************************************)
(* Programs, and what the machine runs.                                    *)
(***************************************************************************)
LEMMA SourceParts ==
  ASSUME NEW s \in Sources
  PROVE  LET parts == [i \in DOMAIN Tail(s) |-> WriteMethod(Tail(s)[i])] IN
         /\ Head(s) \in SourceMethods /\ Tail(s) \in Lists(SourceMethods)
         /\ <<Head(s)>> \o Tail(s) = s
         /\ WriteMethod(Head(s)) \in Seq(Byte) /\ WriteParts(parts) \in Seq(Byte)
         /\ Serialize(s) = WriteMethod(Head(s)) \o WriteParts(parts)
<1> DEFINE tail  == Tail(s)
           parts == [i \in DOMAIN tail |-> WriteMethod(tail[i])]
           main  == WriteMethod(Head(s))
           count == WriteInteger(Len(s) - 1)
<1>1. s \in Seq(SourceMethods) /\ Len(s) < WordLimit /\ s # <<>>
  BY SourcesAssumption DEF Lists
<1>2. Len(s) \in Nat \ {0}
  BY <1>1, EmptySeq
<1>3. /\ Head(s) \in SourceMethods /\ tail \in Seq(SourceMethods) /\ Len(tail) = Len(s) - 1
      /\ \A i \in 1 .. Len(tail) : tail[i] = s[i + 1]
  BY <1>1, HeadTailProperties
<1>4. tail \in Lists(SourceMethods) /\ DOMAIN tail = 1 .. Len(tail)
  <2>1. WordLimit \in Nat
    BY WordAssumption, Places DEF WordLimit
  <2>2. Len(tail) < WordLimit
    BY <1>1, <1>2, <1>3, <2>1
  <2> QED  BY <1>3, <2>2, LenProperties DEF Lists
<1>5. <<Head(s)>> \o tail = s
  <2>1. <<Head(s)>> \in Seq(SourceMethods) /\ Len(<<Head(s)>>) = 1 /\ <<Head(s)>>[1] = Head(s)
    BY <1>3
  <2>2. Head(s) = s[1]
    BY <1>1
  <2> DEFINE u == <<Head(s)>> \o tail
  <2>3. /\ u \in Seq(SourceMethods) /\ Len(u) = 1 + Len(tail)
        /\ \A i \in 1 .. 1 + Len(tail) : u[i] = IF i <= 1 THEN <<Head(s)>>[i] ELSE tail[i - 1]
    BY <1>3, <2>1, ConcatProperties
  <2> HIDE DEF u, tail
  <2>4. Len(u) = Len(s)
    BY <1>2, <1>3, <2>3
  <2>5. ASSUME NEW i \in 1 .. Len(u)
        PROVE  u[i] = s[i]
    <3>1. CASE i = 1
      <4>1. 1 \in 1 .. 1 + Len(tail)
        BY <1>2, <1>3
      <4> QED  BY <2>1, <2>2, <2>3, <3>1, <4>1
    <3>2. CASE i # 1
      <4>1. i - 1 \in 1 .. Len(tail) /\ (i - 1) + 1 = i /\ ~ (i <= 1) /\ i \in 1 .. 1 + Len(tail)
        BY <1>2, <1>3, <2>4, <3>2
      <4> QED  BY <1>3, <2>3, <4>1
    <3> QED  BY <3>1, <3>2
  <2>6. u = s
    BY <1>1, <2>3, <2>4, <2>5, SeqEqual
  <2> QED  BY <2>6 DEF u
<1>6. main \in Seq(Byte)
  BY <1>3, MethodWritten
<1>7. /\ parts \in Seq(Seq(Byte)) /\ WriteParts(parts) = WriteInteger(Len(tail)) \o Flat(parts)
      /\ WriteParts(parts) \in Seq(Byte)
  BY <1>4, MethodsWritten
<1>8. count \in Seq(Byte) /\ Flat(parts) \in Seq(Byte)
  <2>1. Len(s) - 1 \in Int
    BY <1>2
  <2> QED  BY <1>7, <2>1, IntegerWritten, PartsWritten
<1>9. [i \in DOMAIN tail |-> WriteMethod(s[i + 1])] = parts
  BY <1>3, <1>4
<1>10. Serialize(s) = (main \o count) \o Flat(parts)
  BY <1>9 DEF Serialize, WriteMethods
<1> HIDE DEF main, count, parts
<1>11. (main \o count) \o Flat(parts) = main \o (count \o Flat(parts))
  BY <1>6, <1>8, ConcatAssociative
<1>12. Serialize(s) = main \o WriteParts(parts)
  BY <1>3, <1>7, <1>10, <1>11 DEF count
<1> QED  BY <1>3, <1>4, <1>5, <1>6, <1>7, <1>12 DEF main, parts

\* The round trip: what the loader reads from the file that the serializer writes
\* is the program.
LEMMA FileRead ==
  ASSUME NEW s \in Sources
  PROVE  Serialize(s) \in Seq(Byte) /\ ReadProgram(Serialize(s)) = AsProgram(s)
<1> DEFINE tail  == Tail(s)
           parts == [i \in DOMAIN tail |-> WriteMethod(tail[i])]
           u == WriteMethod(Head(s))
           v == WriteParts(parts)
           file == Serialize(s)
           j == 0 + Len(u)
<1>1. /\ Head(s) \in SourceMethods /\ tail \in Lists(SourceMethods) /\ <<Head(s)>> \o tail = s
      /\ u \in Seq(Byte) /\ v \in Seq(Byte) /\ file = u \o v
  BY SourceParts
<1>2. file \in Seq(Byte)
  <2> HIDE DEF u, v, file
  <2> QED  BY <1>1, ConcatProperties
<1>3. Lies(u \o v, file, 0)
  <2> HIDE DEF u, v, file
  <2>1. Len(file) \in Nat
    BY <1>2, LenProperties
  <2> QED  BY <1>1, <2>1 DEF Lies
<1>4. Lies(u, file, 0) /\ Lies(v, file, j)
  <2> HIDE DEF u, v, file
  <2> QED  BY <1>1, <1>2, <1>3, LiesBoth
<1>5. ReadMethod(At(file, 0)) = Got(Head(s), At(file, j))
  <2> HIDE DEF file
  <2> QED  BY <1>1, <1>2, <1>4, MethodRead
<1>6. ReadMethods(At(file, j)) = Got(tail, At(file, j + Len(v)))
  <2>1. j \in Nat
    BY <1>1, LenProperties
  <2> HIDE DEF file, j
  <2> QED  BY <1>1, <1>2, <1>4, <2>1, MethodsRead
<1> HIDE DEF tail, parts, u, v, file, j
<1>7. ReadProgram(file) = AsProgram(<<Head(s)>> \o tail)
  BY <1>5, <1>6 DEF ReadProgram, Got, At
<1> QED  BY <1>1, <1>2, <1>7 DEF file

\* The machine runs the program as it was generated, and then what it reads from
\* the part of the file that it is given.
RunsWhatItWasGiven ==
  /\ source \in Sources
  /\ loaded \in {-1} \cup DOMAIN Copies[source]
  /\ program = IF loaded = -1 THEN AsProgram(source) ELSE Copies[source][loaded]

LEMMA StepKeepsProgram == Step => program' = program
  BY DEF Step, FetchFault, StackUnderflow, Stop, Ret, Call, Jmp, Cjmp, Binary, Not, PushConst, PrintTop,
         Load, Store, New, NewArray, ArrayLoad, ArrayStore, ArrayLength, Halt, Continue

LEMMA CopiesAre ==
  ASSUME NEW s \in Sources
  PROVE  /\ DOMAIN Copies[s] = 0 .. Len(Serialize(s))
         /\ Copies[s][Len(Serialize(s))] = AsProgram(s)
<1> DEFINE file == Serialize(s)
<1>1. Copies[s] = [length \in 0 .. Len(file) |-> ReadProgram(SubSeq(file, 1, length))]
  BY DEF Copies
<1>2. file \in Seq(Byte) /\ Len(file) \in Nat /\ ReadProgram(file) = AsProgram(s)
  BY FileRead, LenProperties
<1>3. SubSeq(file, 1, Len(file)) = file
  BY <1>2, SubSeqFull
<1> HIDE DEF file
<1>4. Len(file) \in 0 .. Len(file)
  BY <1>2
<1>5. Copies[s][Len(file)] = ReadProgram(SubSeq(file, 1, Len(file)))
  BY <1>1, <1>4
<1>6. DOMAIN Copies[s] = 0 .. Len(file)
  BY <1>1
<1> QED  BY <1>2, <1>3, <1>5, <1>6 DEF file

LEMMA GivenStep == RunsWhatItWasGiven /\ [DNext]_deliveryVars => RunsWhatItWasGiven'
<1> SUFFICES ASSUME RunsWhatItWasGiven, [DNext]_deliveryVars
             PROVE  RunsWhatItWasGiven'
  OBVIOUS
<1>1. CASE RunStep
  BY <1>1, StepKeepsProgram DEF RunStep, RunsWhatItWasGiven
<1>2. CASE LoadFile
  <2>1. /\ source' = source /\ source \in Sources
        /\ loaded' \in DOMAIN Copies[source] /\ program' = Copies[source][loaded']
    BY <1>2 DEF LoadFile, RunsWhatItWasGiven
  <2>2. loaded' \in 0 .. Len(Serialize(source))
    BY <2>1, CopiesAre
  <2>3. loaded' # -1
    <3>1. Len(Serialize(source)) \in Nat
      BY <2>1, FileRead, LenProperties
    <3> QED  BY <2>2, <3>1
  <2> QED  BY <2>1, <2>3 DEF RunsWhatItWasGiven
<1>3. CASE DEnded \/ UNCHANGED deliveryVars
  BY <1>3 DEF DEnded, deliveryVars, vars, RunsWhatItWasGiven
<1> QED  BY <1>1, <1>2, <1>3 DEF DNext

\* A file that was written and read completely is the program that was compiled,
\* whatever the base and the length of a word, the names and the numbers
\* (Serializer and Deserializer, serialize and readProgram).
THEOREM WholeFileIsLoaded == DSpec => []WholeFileIsProgram
<1>1. DInit => RunsWhatItWasGiven
  BY DEF DInit, RunsWhatItWasGiven
<1>2. RunsWhatItWasGiven => WholeFileIsProgram
  <2> SUFFICES ASSUME RunsWhatItWasGiven, loaded = Len(Serialize(source))
               PROVE  program = AsProgram(source)
    BY DEF WholeFileIsProgram
  <2>1. source \in Sources
    BY DEF RunsWhatItWasGiven
  <2>2. Len(Serialize(source)) \in Nat
    BY <2>1, FileRead, LenProperties
  <2>3. loaded # -1
    BY <2>2
  <2> QED  BY <2>1, <2>3, CopiesAre DEF RunsWhatItWasGiven
<1> QED  BY <1>1, <1>2, GivenStep, PTL DEF DSpec

-----------------------------------------------------------------------------
(***************************************************************************)
(* A file that was cut short.  What was written begins at its place, and   *)
(* the file ends before it or in the midst of it; reading it ends where it *)
(* ends, or where the file does.                                           *)
(***************************************************************************)
Starts(w, file, k) == \A i \in 1 .. Len(w) : k + i <= Len(file) => file[k + i] = w[i]

EndOf(w, file, k) == IF k + Len(w) <= Len(file) THEN k + Len(w) ELSE Len(file)

LEMMA EndIsThere ==
  ASSUME NEW w \in Seq(Byte), NEW file \in Seq(Byte), NEW k \in 0 .. Len(file)
  PROVE  /\ EndOf(w, file, k) \in k .. Len(file) /\ EndOf(w, file, k) \in 0 .. Len(file)
         /\ Starts(w, file, Len(file)) /\ EndOf(w, file, Len(file)) = Len(file)
         /\ Len(file) \in 0 .. Len(file)
<1>1. Len(w) \in Nat /\ Len(file) \in Nat
  BY LenProperties
<1> QED  BY <1>1 DEF EndOf, Starts

LEMMA StartsBoth ==
  ASSUME NEW u \in Seq(Byte), NEW v \in Seq(Byte), NEW file \in Seq(Byte), NEW k \in 0 .. Len(file),
         Starts(u \o v, file, k)
  PROVE  /\ Starts(u, file, k) /\ Starts(v, file, EndOf(u, file, k))
         /\ EndOf(v, file, EndOf(u, file, k)) = EndOf(u \o v, file, k)
<1>1. /\ Len(u) \in Nat /\ Len(v) \in Nat /\ Len(u \o v) = Len(u) + Len(v) /\ Len(file) \in Nat
      /\ \A i \in 1 .. Len(u) + Len(v) : (u \o v)[i] = IF i <= Len(u) THEN u[i] ELSE v[i - Len(u)]
  BY ConcatProperties, LenProperties
<1>2. ASSUME NEW i \in 1 .. Len(u), k + i <= Len(file)
      PROVE  file[k + i] = u[i]
  <2>1. i \in 1 .. Len(u) + Len(v) /\ i <= Len(u)
    BY <1>1
  <2> QED  BY <1>1, <1>2, <2>1 DEF Starts
<1> DEFINE j == EndOf(u, file, k)
<1>3. CASE k + Len(u) <= Len(file)
  <2>1. j = k + Len(u)
    BY <1>3 DEF EndOf
  <2>2. ASSUME NEW i \in 1 .. Len(v), j + i <= Len(file)
        PROVE  file[j + i] = v[i]
    <3> DEFINE m == Len(u) + i
    <3>1. m \in 1 .. Len(u) + Len(v) /\ ~ (m <= Len(u)) /\ m - Len(u) = i /\ k + m = j + i
      BY <1>1, <2>1
    <3>2. (u \o v)[m] = v[i]
      BY <1>1, <3>1
    <3> HIDE DEF m, j
    <3>3. file[k + m] = v[i]
      BY <1>1, <2>2, <3>1, <3>2 DEF Starts
    <3> QED  BY <3>1, <3>3
  <2> HIDE DEF j
  <2>3. EndOf(v, file, j) = EndOf(u \o v, file, k)
    BY <1>1, <2>1 DEF EndOf
  <2> QED  BY <1>2, <2>2, <2>3 DEF Starts, j
<1>4. CASE ~ (k + Len(u) <= Len(file))
  <2>1. j = Len(file)
    BY <1>4 DEF EndOf
  <2>2. EndOf(u \o v, file, k) = Len(file)
    BY <1>1, <1>4 DEF EndOf
  <2>3. Starts(v, file, j) /\ EndOf(v, file, j) = Len(file)
    BY <2>1, EndIsThere
  <2> QED  BY <1>2, <2>2, <2>3 DEF Starts
<1> QED  BY <1>3, <1>4

\* The bytes that are found are the first of those that were written.
LEMMA BytesFound ==
  ASSUME NEW w \in Seq(Byte), NEW file \in Seq(Byte), NEW k \in 0 .. Len(file), Starts(w, file, k)
  PROVE  LET bytes == Bytes(At(file, k), Len(w)) IN
         /\ bytes \in Seq(Byte) /\ Len(bytes) = EndOf(w, file, k) - k /\ Len(bytes) \in 0 .. Len(w)
         /\ \A i \in 1 .. Len(bytes) : bytes[i] = w[i]
         /\ Past(At(file, k), Len(w)) = At(file, EndOf(w, file, k))
<1>1. Len(w) \in Nat /\ Len(file) \in Nat /\ DOMAIN file = 1 .. Len(file)
  BY LenProperties
<1> DEFINE n == k + IF Len(file) - k < Len(w) THEN Len(file) - k ELSE Len(w)
           s == SubSeq(file, k + 1, n)
<1>2. n = EndOf(w, file, k) /\ n \in k .. Len(file) /\ n - k \in 0 .. Len(w)
  BY <1>1 DEF EndOf
<1>3. Bytes(At(file, k), Len(w)) = s
  BY DEF Bytes, At
<1>4. Past(At(file, k), Len(w)) = At(file, EndOf(w, file, k))
  BY <1>1 DEF Past, At, EndOf
<1> HIDE DEF n
<1>5. k + 1 \in Int /\ n \in Int /\ \A i \in k + 1 .. n : file[i] \in Byte
  BY <1>1, <1>2
<1>6. /\ s \in Seq(Byte)
      /\ Len(s) = IF k + 1 <= n THEN n - (k + 1) + 1 ELSE 0
      /\ \A i \in 1 .. n - (k + 1) + 1 : s[i] = file[(k + 1) + i - 1]
  BY <1>5, SubSeqProperties
<1>7. Len(s) = n - k
  BY <1>2, <1>6
<1>8. ASSUME NEW i \in 1 .. Len(s)
      PROVE  s[i] = w[i]
  <2>1. /\ i \in 1 .. n - (k + 1) + 1 /\ (k + 1) + i - 1 = k + i /\ i \in 1 .. Len(w)
        /\ k + i <= Len(file)
    BY <1>1, <1>2, <1>7
  <2>2. s[i] = file[k + i]
    BY <1>6, <2>1
  <2> QED  BY <2>1, <2>2 DEF Starts
<1> HIDE DEF s
<1> QED  BY <1>2, <1>3, <1>4, <1>6, <1>7, <1>8

LEMMA NothingLeft ==
  ASSUME NEW file \in Seq(Byte), NEW n \in Nat
  PROVE  Bytes(At(file, Len(file)), n) = <<>> /\ Past(At(file, Len(file)), n) = At(file, Len(file))
<1>1. Len(file) \in Nat
  BY LenProperties
<1>2. Bytes(At(file, Len(file)), n) = SubSeq(file, Len(file) + 1, Len(file))
  BY <1>1 DEF Bytes, At
<1>3. SubSeq(file, Len(file) + 1, Len(file)) = <<>>
  BY <1>1, SubSeqEmpty
<1>4. Past(At(file, Len(file)), n) = At(file, Len(file))
  BY <1>1 DEF Past, At
<1> QED  BY <1>2, <1>3, <1>4

LEMMA PlacesGrow == \A d \in 0 .. IntBytes : Place[d] <= WordLimit
<1>1. IntBytes \in Nat /\ Base \in Nat \ {0}
  BY WordAssumption
<1>2. /\ \A d \in 1 .. IntBytes : Place[d] = Base * Place[d - 1]
      /\ \A d \in 0 .. IntBytes : Place[d] \in Nat \ {0}
  BY Places
<1> DEFINE T == {d \in Nat : d <= IntBytes => Place[IntBytes - d] <= WordLimit}
<1>3. 0 \in T
  BY <1>1, <1>2 DEF WordLimit
<1>4. ASSUME NEW d \in Nat, d \in T
      PROVE  d + 1 \in T
  <2> SUFFICES ASSUME d + 1 <= IntBytes
               PROVE  Place[IntBytes - (d + 1)] <= WordLimit
    OBVIOUS
  <2> DEFINE i == IntBytes - d
  <2>1. i \in 1 .. IntBytes /\ i - 1 = IntBytes - (d + 1) /\ i - 1 \in 0 .. IntBytes
        /\ i \in 0 .. IntBytes
    BY <1>1
  <2>2. Place[i] <= WordLimit
    BY <1>1, <1>4
  <2> HIDE DEF i
  <2>3. Place[i] = Base * Place[i - 1] /\ Place[i - 1] \in Nat \ {0} /\ Place[i] \in Nat
    BY <1>2, <2>1
  <2>4. \A a, b \in Nat \ {0} : b <= a * b
    OBVIOUS
  <2>5. Place[i - 1] <= Place[i]
    BY <1>1, <2>3, <2>4
  <2>6. WordLimit \in Nat
    BY <1>1, <1>2 DEF WordLimit
  <2>7. Place[i - 1] <= WordLimit
    BY <2>2, <2>3, <2>5, <2>6
  <2> QED  BY <2>1, <2>7
<1> HIDE DEF T
<1>5. Nat \subseteq T
  BY <1>3, <1>4, Induction
<1>6. ASSUME NEW d \in 0 .. IntBytes
      PROVE  Place[d] <= WordLimit
  <2>1. IntBytes - d \in Nat /\ IntBytes - d <= IntBytes /\ IntBytes - (IntBytes - d) = d
    BY <1>1
  <2>2. IntBytes - d \in T
    BY <1>5, <2>1
  <2> QED  BY <2>1, <2>2 DEF T
<1> QED  BY <1>6

\* What is read of a number are its lower digits.
LEMMA IntegerFound ==
  ASSUME NEW n \in Int, NEW file \in Seq(Byte), NEW k \in 0 .. Len(file),
         Starts(WriteInteger(n), file, k)
  PROVE  LET end == EndOf(WriteInteger(n), file, k) IN
         \E m \in 0 .. IntBytes :
           /\ ReadInteger(At(file, k)) = Got(n % Place[m], At(file, end))
           /\ m = IntBytes \/ end = Len(file)
           /\ Place[m] \in Nat \ {0} /\ Place[m] <= WordLimit
           /\ n % Place[m] \in 0 .. Place[m] - 1
<1> DEFINE w == WriteInteger(n)
           end == EndOf(w, file, k)
           digits == Bytes(At(file, k), IntBytes)
           m == Len(digits)
<1>1. /\ w \in Seq(Byte) /\ Len(w) = IntBytes /\ IntBytes \in Nat
      /\ \A d \in 1 .. IntBytes : w[d] = (n \div Place[d - 1]) % Base
  BY IntegerWritten, WordAssumption
<1> HIDE DEF w
<1>2. /\ digits \in Seq(Byte) /\ m = end - k /\ m \in 0 .. IntBytes
      /\ \A i \in 1 .. m : digits[i] = w[i]
      /\ Past(At(file, k), IntBytes) = At(file, end)
  <2>1. Starts(w, file, k)
    BY DEF w
  <2> QED  BY <1>1, <2>1, BytesFound
<1>3. NumberOf(digits) = n % Place[m]
  <2>1. \A d \in 1 .. m : digits[d] = (n \div Place[d - 1]) % Base
    BY <1>1, <1>2
  <2>2. m \in Nat /\ m <= IntBytes
    BY <1>1, <1>2
  <2> HIDE DEF digits
  <2> QED  BY <2>1, <2>2, NumberIs
<1>4. m = IntBytes \/ end = Len(file)
  <2>1. Len(file) \in Nat
    BY LenProperties
  <2> HIDE DEF digits
  <2> QED  BY <1>1, <1>2, <2>1 DEF EndOf
<1>5. ReadInteger(At(file, k)) = Got(n % Place[m], At(file, end))
  BY <1>2, <1>3 DEF ReadInteger
<1> HIDE DEF digits, m, end
<1>6. Place[m] \in Nat \ {0} /\ Place[m] <= WordLimit
  BY <1>2, Places, PlacesGrow
<1>7. n % Place[m] \in 0 .. Place[m] - 1
  BY <1>6, Division
<1> QED  BY <1>2, <1>4, <1>5, <1>6, <1>7 DEF end, w

LEMMA SignedIntegerFound ==
  ASSUME NEW n \in Int, NEW file \in Seq(Byte), NEW k \in 0 .. Len(file),
         Starts(WriteInteger(n), file, k)
  PROVE  \E v \in Value :
           ReadSignedInteger(At(file, k)) = Got(v, At(file, EndOf(WriteInteger(n), file, k)))
<1> DEFINE end == EndOf(WriteInteger(n), file, k)
<1>1. PICK m \in 0 .. IntBytes :
        /\ ReadInteger(At(file, k)) = Got(n % Place[m], At(file, end))
        /\ Place[m] \in Nat \ {0} /\ Place[m] <= WordLimit
        /\ n % Place[m] \in 0 .. Place[m] - 1
  BY IntegerFound
<1>2. HalfWord \in Nat \ {0} /\ WordLimit = 2 * HalfWord
  BY WordAssumption, HalfWordAssumption
<1> DEFINE word == n % Place[m]
<1>3. word \in 0 .. WordLimit - 1
  BY <1>1, <1>2
<1>4. ReadInteger(At(file, k)) = Got(word, At(file, end))
  BY <1>1
<1> HIDE DEF word, end
<1>5. ReadSignedInteger(At(file, k))
        = IF 2 * word < WordLimit THEN Got(word, At(file, end))
          ELSE Got(word - WordLimit, At(file, end))
  BY <1>4 DEF ReadSignedInteger, Got
<1>6. CASE 2 * word < WordLimit
  <2>1. word \in Value
    BY <1>2, <1>3, <1>6 DEF Value
  <2> QED  BY <1>5, <1>6, <2>1 DEF end
<1>7. CASE ~ (2 * word < WordLimit)
  <2>1. word - WordLimit \in Value
    BY <1>2, <1>3, <1>7 DEF Value
  <2> QED  BY <1>5, <1>7, <2>1 DEF end
<1> QED  BY <1>6, <1>7

LEMMA StringFound ==
  ASSUME NEW t \in Text, NEW file \in Seq(Byte), NEW k \in 0 .. Len(file),
         Starts(WriteString(t), file, k)
  PROVE  \E v \in Text : ReadString(At(file, k)) = Got(v, At(file, EndOf(WriteString(t), file, k)))
<1> DEFINE n == Len(t)
           w == WriteInteger(n)
           j == EndOf(w, file, k)
           end == EndOf(WriteString(t), file, k)
<1>1. t \in Seq(Byte) /\ n \in 0 .. WordLimit - 1 /\ n \in Int /\ n \in Nat /\ DOMAIN t = 1 .. n
  BY TextIsList, LenProperties
<1>2. w \in Seq(Byte)
  BY <1>1, IntegerWritten
<1>3. Starts(w, file, k) /\ Starts(t, file, j) /\ end = EndOf(t, file, j)
  <2>1. WriteString(t) = w \o t
    BY DEF WriteString
  <2> HIDE DEF w
  <2> QED  BY <1>1, <1>2, <2>1, StartsBoth
<1>4. PICK m \in 0 .. IntBytes :
        /\ ReadInteger(At(file, k)) = Got(n % Place[m], At(file, j))
        /\ m = IntBytes \/ j = Len(file)
        /\ Place[m] \in Nat \ {0}
        /\ n % Place[m] \in 0 .. Place[m] - 1
  <2>1. Starts(WriteInteger(n), file, k) /\ n \in Int
    BY <1>1, <1>3
  <2> HIDE DEF n
  <2> QED  BY <2>1, IntegerFound
<1>5. j \in 0 .. Len(file)
  <2> HIDE DEF w
  <2> QED  BY <1>2, EndIsThere
<1> DEFINE c == n % Place[m]
<1>6. c \in 0 .. n
  <2>1. CASE n < Place[m]
    <3>1. PICK p : p = Place[m]
      OBVIOUS
    <3>2. n \in Nat /\ p \in Nat \ {0} /\ n < p
      BY <1>1, <1>4, <2>1, <3>1
    <3> HIDE DEF n
    <3>3. n % p = n
      BY <3>2
    <3> QED  BY <3>1, <3>2, <3>3
  <2>2. CASE ~ (n < Place[m])
    <3>1. c \in 0 .. Place[m] - 1 /\ Place[m] <= n
      BY <1>1, <1>4, <2>2
    <3> HIDE DEF c, n
    <3> QED  BY <1>1, <1>4, <3>1
  <2> QED  BY <2>1, <2>2
<1>7. m = IntBytes => c = n
  <2> SUFFICES ASSUME m = IntBytes
               PROVE  n % WordLimit = n
    BY DEF WordLimit
  <2>1. WordLimit \in Nat \ {0}
    BY <1>4 DEF WordLimit
  <2> HIDE DEF n
  <2> QED  BY <1>1, <2>1
<1>8. ReadInteger(At(file, k)) = Got(c, At(file, j))
  BY <1>4
<1> DEFINE chars == Bytes(At(file, j), c)
           value == [i \in 1 .. c |-> IF i <= Len(chars) THEN chars[i] ELSE Nul]
<1> HIDE DEF c, j, w
<1>9. ReadString(At(file, k)) = Got(value, Past(At(file, j), c))
  BY <1>8 DEF ReadString, Got
<1>10. CASE m = IntBytes
  <2>1. /\ Len(chars) \in 0 .. n /\ \A i \in 1 .. Len(chars) : chars[i] = t[i]
        /\ Past(At(file, j), c) = At(file, end)
    <3>1. c = n
      BY <1>7, <1>10
    <3> QED  BY <1>1, <1>3, <1>5, <3>1, BytesFound
  <2> DEFINE q == Len(chars)
  <2>2. value = [i \in 1 .. n |-> IF i <= q THEN t[i] ELSE Nul]
    <3>1. c = n
      BY <1>7, <1>10
    <3>2. \A i \in 1 .. n : i <= q => chars[i] = t[i]
      BY <2>1
    <3> HIDE DEF chars, q, n
    <3> QED  BY <3>1, <3>2 DEF q
  <2>3. value \in Text
    <3>1. q \in 0 .. n
      BY <2>1
    <3> HIDE DEF q, value
    <3> QED  BY <2>2, <3>1, CutTextAssumption
  <2> QED  BY <1>9, <2>1, <2>3
<1>11. CASE j = Len(file)
  <2>1. c \in Nat
    BY <1>1, <1>6
  <2>2. chars = <<>> /\ Past(At(file, j), c) = At(file, Len(file))
    BY <1>11, <2>1, NothingLeft
  <2>3. value = [i \in 1 .. c |-> Nul]
    <3>1. \A i \in 1 .. c : ~ (i <= Len(chars))
      BY <2>2
    <3> HIDE DEF chars
    <3> QED  BY <3>1
  <2>4. value \in Text
    <3> HIDE DEF value
    <3> QED  BY <1>6, <2>3, CutTextAssumption
  <2>5. end = Len(file)
    <3>1. 0 \in 0 .. Len(file)
      BY LenProperties
    <3> QED  BY <1>1, <1>3, <1>11, <3>1, EndIsThere
  <2> QED  BY <1>9, <2>2, <2>4, <2>5
<1> QED  BY <1>4, <1>10, <1>11

LEMMA NoText == <<>> \in Text
<1>1. Len(This) \in Nat
  BY DEF This
<1>2. [i \in 1 .. 0 |-> Nul] \in Text
  <2>1. \A n \in 0 .. Len(This) : [i \in 1 .. n |-> Nul] \in Text
    BY TextAssumption, CutTextAssumption
  <2>2. 0 \in 0 .. Len(This)
    BY <1>1
  <2> QED  BY <2>1, <2>2
<1>3. [i \in 1 .. 0 |-> Nul] = <<>>
  OBVIOUS
<1> QED  BY <1>2, <1>3

LEMMA InstructionFound ==
  ASSUME NEW instr \in SourceCode, NEW file \in Seq(Byte), NEW k \in 0 .. Len(file),
         Starts(WriteInstruction(instr), file, k)
  PROVE  \E v \in Instruction :
           ReadInstruction(At(file, k)) = Got(v, At(file, EndOf(WriteInstruction(instr), file, k)))
<1> DEFINE op == instr.op
           rest == IF op \in StringOps THEN WriteString(instr.str)
                   ELSE IF op = "CONST" THEN WriteInteger(instr.num) ELSE <<>>
           first == <<op>>
           j == EndOf(first, file, k)
           end == EndOf(WriteInstruction(instr), file, k)
<1>1. op \in Opcodes
  BY DEF SourceCode, Opcodes, Plain, WithText, Const
<1>2. op \in StringOps => instr.str \in Text
  BY DEF SourceCode, NoArgOps, BinaryOps, StringOps, Plain, WithText, Const
<1>3. op \notin StringOps /\ op = "CONST" => instr.num \in Int
  <2>1. op \notin StringOps /\ op = "CONST" => instr.num \in Value
    BY DEF SourceCode, NoArgOps, BinaryOps, StringOps, Plain, WithText, Const
  <2> QED  BY <2>1, HalfWordAssumption DEF Value
<1>4. \A o \in Opcodes, v \in Value, t \in Text :
        Plain(o) \in Instruction /\ WithText(o, t) \in Instruction /\ Const(v) \in Instruction
  <2>1. 0 \in Value /\ "CONST" \in Opcodes
    BY SmallValues DEF Opcodes
  <2> QED  BY <2>1, NoText DEF Instruction, Plain, WithText, Const
<1>5. rest \in Seq(Byte)
  <2>1. CASE op \in StringOps
    BY <1>2, <2>1, StringWritten
  <2>2. CASE op \notin StringOps /\ op = "CONST"
    BY <1>3, <2>2, IntegerWritten
  <2>3. CASE op \notin StringOps /\ op # "CONST"
    BY <2>3, EmptySeq
  <2> QED  BY <2>1, <2>2, <2>3
<1>6. first \in Seq(Byte) /\ Len(first) = 1 /\ first[1] = op
  BY <1>1 DEF Byte
<1>7. WriteInstruction(instr) = first \o rest
  BY DEF WriteInstruction
<1> HIDE DEF rest, op, first
<1>8. Starts(first, file, k) /\ Starts(rest, file, j) /\ end = EndOf(rest, file, j)
  BY <1>5, <1>6, <1>7, StartsBoth
<1>9. j \in 0 .. Len(file)
  BY <1>6, EndIsThere
<1> DEFINE byte == Bytes(At(file, k), 1)
<1>10. /\ Len(byte) = j - k /\ Len(byte) \in 0 .. 1 /\ byte \in Seq(Byte)
       /\ \A i \in 1 .. Len(byte) : byte[i] = first[i]
       /\ Past(At(file, k), 1) = At(file, j)
  <2> DEFINE n == Len(first)
             bytes == Bytes(At(file, k), n)
  <2>1. /\ Len(bytes) = j - k /\ Len(bytes) \in 0 .. n /\ bytes \in Seq(Byte)
        /\ \A i \in 1 .. Len(bytes) : bytes[i] = first[i]
        /\ Past(At(file, k), n) = At(file, j)
    BY <1>6, <1>8, BytesFound
  <2>2. n = 1
    BY <1>6
  <2>3. bytes = byte
    BY <2>2
  <2> HIDE DEF n, bytes, byte, j
  <2> QED  BY <2>1, <2>2, <2>3
<1> HIDE DEF byte, j, end
<1>11. ReadOpcode(At(file, k)) = Got(IF byte = <<>> THEN "ADD" ELSE byte[1], At(file, j))
  BY <1>10 DEF ReadOpcode, byte
<1>12. CASE byte = <<>>
  <2>1. "ADD" \in Opcodes /\ "ADD" \notin StringOps /\ "ADD" # "CONST" /\ 0 \in Value
    BY SmallValues DEF Opcodes, NoArgOps, BinaryOps, StringOps
  <2>2. ReadInstruction(At(file, k)) = Got(Plain("ADD"), At(file, j))
    BY <1>11, <1>12, <2>1 DEF ReadInstruction, Got
  <2>3. j = Len(file)
    <3>1. Len(byte) = 0 /\ Len(file) \in Nat
      BY <1>12, LenProperties
    <3> QED  BY <1>6, <1>10, <3>1 DEF j, EndOf
  <2>4. end = Len(file)
    BY <1>5, <1>8, <1>9, <2>3, EndIsThere
  <2>5. Plain("ADD") \in Instruction
    BY <1>4, <2>1, NoText
  <2> QED  BY <2>2, <2>3, <2>4, <2>5 DEF end
<1>13. CASE byte # <<>>
  <2>1. ReadOpcode(At(file, k)) = Got(op, At(file, j))
    <3>1. Len(byte) # 0
      BY <1>10, <1>13, EmptySeq
    <3>2. 1 \in 1 .. Len(byte)
      BY <1>10, <3>1
    <3> QED  BY <1>6, <1>10, <1>11, <1>13, <3>2
  <2>2. CASE op \in StringOps
    <3>1. rest = WriteString(instr.str)
      BY <2>2 DEF rest
    <3>2. PICK t \in Text : ReadString(At(file, j)) = Got(t, At(file, end))
      BY <1>2, <1>8, <1>9, <2>2, <3>1, StringFound
    <3>3. ReadInstruction(At(file, k)) = Got(WithText(op, t), At(file, end))
      BY <2>1, <2>2, <3>2 DEF ReadInstruction, Got
    <3>4. WithText(op, t) \in Instruction
      BY <1>1, <1>4, SmallValues
    <3> QED  BY <3>3, <3>4 DEF end
  <2>3. CASE op \notin StringOps /\ op = "CONST"
    <3>1. rest = WriteInteger(instr.num)
      BY <2>3 DEF rest
    <3>2. PICK v \in Value : ReadSignedInteger(At(file, j)) = Got(v, At(file, end))
      BY <1>3, <1>8, <1>9, <2>3, <3>1, SignedIntegerFound
    <3>3. ReadInstruction(At(file, k)) = Got(Const(v), At(file, end))
      BY <2>1, <2>3, <3>2 DEF ReadInstruction, Got
    <3>4. Const(v) \in Instruction
      BY <1>1, <1>4, NoText
    <3> QED  BY <3>3, <3>4 DEF end
  <2>4. CASE op \notin StringOps /\ op # "CONST"
    <3>1. rest = <<>>
      BY <2>4 DEF rest
    <3>2. end = j
      BY <1>8, <1>9, <3>1 DEF EndOf
    <3>3. ReadInstruction(At(file, k)) = Got(Plain(op), At(file, j))
      BY <2>1, <2>4 DEF ReadInstruction, Got
    <3>4. Plain(op) \in Instruction
      BY <1>1, <1>4, NoText, SmallValues
    <3> QED  BY <3>2, <3>3, <3>4 DEF end
  <2> QED  BY <2>2, <2>3, <2>4
<1> QED  BY <1>12, <1>13

\* Where the parts of a list are looked for, one after the other.
PartsStart(at, parts, file, k) ==
  LET n == Len(parts) IN
  /\ at \in [0 .. n -> 0 .. Len(file)]
  /\ at[0] = EndOf(WriteInteger(n), file, k)
  /\ \A i \in 1 .. n : Starts(parts[i], file, at[i - 1]) /\ at[i] = EndOf(parts[i], file, at[i - 1])
  /\ at[n] = EndOf(WriteParts(parts), file, k)
  /\ at[0] = Len(file) => at[n] = Len(file)

LEMMA PartsFound ==
  ASSUME NEW parts \in Seq(Seq(Byte)),
         NEW file \in Seq(Byte), NEW k \in 0 .. Len(file), Starts(WriteParts(parts), file, k)
  PROVE  Starts(WriteInteger(Len(parts)), file, k) /\ \E at : PartsStart(at, parts, file, k)
<1> DEFINE n == Len(parts)
           w == WriteInteger(n)
           j == EndOf(w, file, k)
<1>1. n \in Nat /\ n \in Int /\ DOMAIN parts = 1 .. n
  BY LenProperties
<1>2. w \in Seq(Byte) /\ Flat(parts) \in Seq(Byte) /\ WriteParts(parts) = w \o Flat(parts)
  BY <1>1, IntegerWritten, PartsWritten DEF WriteParts
<1> HIDE DEF w
<1>3. /\ Starts(w, file, k) /\ Starts(Flat(parts), file, j) /\ j \in 0 .. Len(file)
      /\ EndOf(Flat(parts), file, j) = EndOf(WriteParts(parts), file, k)
  BY <1>2, StartsBoth, EndIsThere
<1>4. PICK f : IsFlat(f, parts, n)
  BY <1>1, FlatExists
<1>5. f[0] = <<>> /\ \A i \in 1 .. n : f[i] = f[i - 1] \o parts[i]
  BY <1>1, <1>4, FlatStep
<1>6. \A i \in 0 .. n : f[i] \in Seq(Byte)
  BY <1>4, FlatType
<1>7. Flat(parts) = f[n]
  BY <1>4, FlattenIs DEF Flat
<1> HIDE DEF n, j
<1> DEFINE at == [i \in 0 .. n |-> EndOf(f[i], file, j)]
<1>8. \A i \in 1 .. n : i - 1 \in 0 .. n /\ i \in 0 .. n /\ parts[i] \in Seq(Byte)
  BY <1>1
<1> DEFINE T == {d \in Nat : d <= n => Starts(f[n - d], file, j)}
<1>9. 0 \in T
  BY <1>1, <1>3, <1>7
<1>10. ASSUME NEW d \in Nat, d \in T
       PROVE  d + 1 \in T
  <2> SUFFICES ASSUME d + 1 <= n
               PROVE  Starts(f[n - (d + 1)], file, j)
    OBVIOUS
  <2> DEFINE i == n - d
  <2>1. i \in 1 .. n /\ i - 1 = n - (d + 1) /\ i - 1 \in 0 .. n
    BY <1>1
  <2>2. Starts(f[i], file, j)
    BY <1>1, <1>10
  <2> HIDE DEF i
  <2>3. f[i] = f[i - 1] \o parts[i] /\ f[i - 1] \in Seq(Byte) /\ parts[i] \in Seq(Byte)
    BY <1>5, <1>6, <1>8, <2>1
  <2>4. Starts(f[i - 1], file, j)
    BY <1>3, <2>2, <2>3, StartsBoth
  <2> QED  BY <2>1, <2>4
<1> HIDE DEF T
<1>11. Nat \subseteq T
  BY <1>9, <1>10, Induction
<1>12. ASSUME NEW i \in 0 .. n
       PROVE  Starts(f[i], file, j)
  <2>1. n - i \in Nat /\ n - i <= n /\ n - (n - i) = i
    BY <1>1
  <2>2. n - i \in T
    BY <1>11, <2>1
  <2> QED  BY <2>1, <2>2 DEF T
<1>13. at \in [0 .. n -> 0 .. Len(file)]
  <2>1. \A i \in 0 .. n : EndOf(f[i], file, j) \in 0 .. Len(file)
    BY <1>3, <1>6, EndIsThere
  <2> QED  BY <2>1
<1>14. at[0] = j
  <2>1. 0 \in 0 .. n /\ Len(f[0]) = 0
    BY <1>1, <1>5
  <2>2. at[0] = EndOf(f[0], file, j)
    BY <2>1
  <2> HIDE DEF at
  <2> QED  BY <1>3, <2>1, <2>2 DEF EndOf
<1>15. ASSUME NEW i \in 1 .. n
       PROVE  Starts(parts[i], file, at[i - 1]) /\ at[i] = EndOf(parts[i], file, at[i - 1])
  <2>1. f[i] = f[i - 1] \o parts[i] /\ f[i - 1] \in Seq(Byte) /\ parts[i] \in Seq(Byte)
        /\ i - 1 \in 0 .. n /\ i \in 0 .. n
    BY <1>5, <1>6, <1>8
  <2>2. Starts(f[i], file, j)
    BY <1>12, <2>1
  <2>3. at[i] = EndOf(f[i], file, j) /\ at[i - 1] = EndOf(f[i - 1], file, j)
    BY <2>1
  <2> HIDE DEF at
  <2> QED  BY <1>3, <2>1, <2>2, <2>3, StartsBoth
<1>16. at[n] = EndOf(WriteParts(parts), file, k)
  <2>1. n \in 0 .. n
    BY <1>1
  <2>2. at[n] = EndOf(f[n], file, j)
    BY <2>1
  <2> QED  BY <1>3, <1>7, <2>2
<1>17. j = Len(file) => EndOf(WriteParts(parts), file, k) = Len(file)
  BY <1>2, <1>3, EndIsThere
<1> HIDE DEF at
<1>18. PartsStart(at, parts, file, k)
  BY <1>13, <1>14, <1>15, <1>16, <1>17 DEF PartsStart, n, w, j
<1> QED  BY <1>3, <1>18 DEF w, n


-----------------------------------------------------------------------------
(***************************************************************************)
(* Lists: of a list that is cut, what is read is a list nevertheless.      *)
(***************************************************************************)
LoadedBlocks  == [name : Text, code : Seq(Instruction)]
LoadedMethods == [name : Text, variables : Seq(Text), fields : Seq(Text), blocks : Seq(LoadedBlocks)]

LEMMA SomeSources == Text # {} /\ SourceCode # {} /\ SourceBlocks # {} /\ SourceMethods # {}
<1>1. This \in Text
  BY TextAssumption
<1>2. Plain("STOP") \in SourceCode
  BY DEF SourceCode, NoArgOps
<1>3. \A S : <<>> \in Lists(S)
  <2>1. 0 < WordLimit
    BY WordAssumption, HalfWordAssumption
  <2> QED  BY <2>1, EmptySeq DEF Lists
<1>4. [name |-> This, code |-> <<>>] \in SourceBlocks
  BY <1>1, <1>3 DEF SourceBlocks
<1>5. [name |-> This, variables |-> <<>>, fields |-> <<>>, blocks |-> <<>>] \in SourceMethods
  BY <1>1, <1>3 DEF SourceMethods
<1> QED  BY <1>1, <1>2, <1>4, <1>5

LEMMA StringVectorFound ==
  ASSUME NEW list \in Lists(Text), NEW file \in Seq(Byte), NEW k \in 0 .. Len(file),
         NEW parts, parts = [i \in DOMAIN list |-> WriteString(list[i])],
         Starts(WriteParts(parts), file, k)
  PROVE  \E v \in Seq(Text) : ReadStringVector(At(file, k)) = Got(v, At(file, EndOf(WriteParts(parts), file, k)))
<1> DEFINE n == Len(list)
           end == EndOf(WriteParts(parts), file, k)
<1>1. /\ n \in Nat /\ n < WordLimit /\ parts \in Seq(Seq(Byte)) /\ Len(parts) = n
      /\ \A i \in 1 .. n : list[i] \in Text /\ parts[i] = WriteString(list[i])
  BY StringVectorWritten
<1>2. PICK at : PartsStart(at, parts, file, k)
  BY <1>1, PartsFound
<1>3. /\ at \in [0 .. n -> 0 .. Len(file)] /\ at[0] = EndOf(WriteInteger(n), file, k)
      /\ \A i \in 1 .. n : Starts(parts[i], file, at[i - 1]) /\ at[i] = EndOf(parts[i], file, at[i - 1])
      /\ at[n] = end /\ (at[0] = Len(file) => end = Len(file))
  BY <1>1, <1>2 DEF PartsStart
<1>4. PICK m \in 0 .. IntBytes :
        /\ ReadInteger(At(file, k)) = Got(n % Place[m], At(file, at[0]))
        /\ m = IntBytes \/ at[0] = Len(file)
        /\ Place[m] \in Nat \ {0}
        /\ n % Place[m] \in 0 .. Place[m] - 1
  <2>1. Starts(WriteInteger(n), file, k) /\ n \in Int
    BY <1>1, PartsFound
  <2> HIDE DEF n
  <2>2. \E m \in 0 .. IntBytes :
          /\ ReadInteger(At(file, k)) = Got(n % Place[m], At(file, EndOf(WriteInteger(n), file, k)))
          /\ m = IntBytes \/ EndOf(WriteInteger(n), file, k) = Len(file)
          /\ Place[m] \in Nat \ {0}
          /\ n % Place[m] \in 0 .. Place[m] - 1
    BY <2>1, IntegerFound
  <2> QED  BY <1>3, <2>2
<1> DEFINE c == n % Place[m]
<1>5. ReadInteger(At(file, k)) = Got(c, At(file, at[0])) /\ c \in Nat
  BY <1>4
<1>6. c = n \/ (at[0] = Len(file) /\ end = Len(file))
  <2>1. CASE m = IntBytes
    <3>1. WordLimit \in Nat \ {0}
      BY <1>4, <2>1 DEF WordLimit
    <3>2. n % WordLimit = n
      <4>1. n \in 0 .. WordLimit - 1
        BY <1>1, <3>1
      <4> HIDE DEF n
      <4> QED  BY <3>1, <4>1
    <3>3. Place[m] = WordLimit
      BY <2>1 DEF WordLimit
    <3> QED  BY <3>2, <3>3
  <2>2. CASE at[0] = Len(file)
    BY <1>3, <2>2
  <2> QED  BY <1>4, <2>1, <2>2
<1> HIDE DEF n, c, end
<1> DEFINE Appended(before) ==
             Got(Append(before.value, ReadString(before.reader).value), ReadString(before.reader).reader)
           Start == Got(<<>>, At(file, at[0]))
           Is(f, d) == f = [i \in 0 .. d |-> IF i = 0 THEN Start ELSE Appended(f[i - 1])]
           f == CHOOSE g : Is(g, c)
<1>7. ReadStringVector(At(file, k)) = f[c]
  BY <1>5 DEF ReadStringVector, ReadList, Got
<1> HIDE DEF Appended, Start
<1>8. \E g : Is(g, c)
  <2> DEFINE D == {d \in Nat : \E g : Is(g, d)}
  <2>1. 0 \in D
    <3>1. Is([i \in 0 .. 0 |-> Start], 0)
      OBVIOUS
    <3> QED  BY <3>1
  <2>2. ASSUME NEW d \in Nat, d \in D
        PROVE  d + 1 \in D
    <3>1. PICK g : Is(g, d)
      BY <2>2
    <3> DEFINE h == [i \in 0 .. d + 1 |-> IF i = 0 THEN Start ELSE Appended(g[i - 1])]
    <3>2. \A i \in 0 .. d : h[i] = g[i]
      BY <3>1
    <3>3. h = [i \in 0 .. d + 1 |-> IF i = 0 THEN Start ELSE Appended(g[i - 1])]
      OBVIOUS
    <3> HIDE DEF h
    <3>4. ASSUME NEW i \in 0 .. d + 1, i # 0
          PROVE  h[i - 1] = g[i - 1]
      <4>1. i - 1 \in 0 .. d
        BY <3>4
      <4> QED  BY <3>2, <4>1
    <3>5. Is(h, d + 1)
      BY <3>3, <3>4
    <3> QED  BY <3>5
  <2> HIDE DEF D
  <2>3. Nat \subseteq D
    BY <2>1, <2>2, Induction
  <2>4. c \in D
    BY <1>5, <2>3
  <2> QED  BY <2>4 DEF D
<1>9. Is(f, c)
  BY <1>8
<1> HIDE DEF f
<1>10. f[0] = Start /\ \A i \in 1 .. c : f[i] = Appended(f[i - 1])
  <2>1. 0 \in 0 .. c /\ \A i \in 1 .. c : i \in 0 .. c /\ i # 0
    BY <1>5
  <2> QED  BY <1>9, <2>1
<1> DEFINE Good(i) == \E v \in Seq(Text), r \in 0 .. Len(file) :
                        /\ f[i] = Got(v, At(file, r))
                        /\ (c = n /\ r = at[i]) \/ (r = Len(file) /\ end = Len(file))
           G == {i \in Nat : i <= c => Good(i)}
<1>11. 0 \in G
  <2>1. <<>> \in Seq(Text) /\ at[0] \in 0 .. Len(file)
    <3>1. 0 \in 0 .. n
      BY <1>1 DEF n
    <3> QED  BY <1>3, <3>1, EmptySeq
  <2>2. f[0] = Got(<<>>, At(file, at[0]))
    BY <1>10 DEF Start
  <2> QED  BY <1>6, <2>1, <2>2
<1>12. ASSUME NEW i \in Nat, i \in G
       PROVE  i + 1 \in G
  <2> SUFFICES ASSUME i + 1 <= c
               PROVE  Good(i + 1)
    OBVIOUS
  <2>1. i + 1 \in 1 .. c /\ (i + 1) - 1 = i /\ i <= c
    BY <1>5
  <2>2. PICK v \in Seq(Text), r \in 0 .. Len(file) :
          /\ f[i] = Got(v, At(file, r))
          /\ (c = n /\ r = at[i]) \/ (r = Len(file) /\ end = Len(file))
    BY <1>12, <2>1
  <2>3. f[i + 1] = Appended(f[i])
    BY <1>10, <2>1
  <2>4. ASSUME NEW one \in Text, NEW q, ReadString(At(file, r)) = Got(one, At(file, q))
        PROVE  f[i + 1] = Got(Append(v, one), At(file, q)) /\ Append(v, one) \in Seq(Text)
    <3> DEFINE before == Got(v, At(file, r))
               got == Got(one, At(file, q))
    <3>1. /\ before.value = v /\ before.reader = At(file, r)
          /\ got.value = one /\ got.reader = At(file, q)
      BY DEF Got
    <3>2. f[i] = before /\ ReadString(At(file, r)) = got
      BY <2>2, <2>4
    <3> HIDE DEF before, got
    <3>3. ReadString(before.reader) = got
      BY <3>1, <3>2
    <3>4. Appended(before) = Got(Append(v, one), At(file, q))
      BY <3>1, <3>3 DEF Appended
    <3> QED  BY <2>3, <3>2, <3>4, AppendProperties
  <2>5. CASE c = n /\ r = at[i]
    <3>1. /\ list[i + 1] \in Text /\ Starts(WriteString(list[i + 1]), file, r)
          /\ at[i + 1] = EndOf(WriteString(list[i + 1]), file, r)
      BY <1>1, <1>3, <2>1, <2>5 DEF n
    <3>2. PICK one \in Text : ReadString(At(file, r)) = Got(one, At(file, at[i + 1]))
      BY <3>1, StringFound
    <3>3. i + 1 \in 0 .. n /\ at[i + 1] \in 0 .. Len(file)
      BY <1>3, <2>1, <2>5
    <3>4. f[i + 1] = Got(Append(v, one), At(file, at[i + 1])) /\ Append(v, one) \in Seq(Text)
      BY <2>4, <3>2
    <3> DEFINE q == at[i + 1]
               w == Append(v, one)
    <3>5. /\ w \in Seq(Text) /\ q \in 0 .. Len(file) /\ f[i + 1] = Got(w, At(file, q))
          /\ c = n /\ q = at[i + 1]
      BY <2>5, <3>3, <3>4
    <3> HIDE DEF q, w
    <3> QED  BY <3>5
  <2>6. CASE r = Len(file) /\ end = Len(file)
    <3>1. PICK x \in Text : TRUE
      BY SomeSources
    <3>2. WriteString(x) \in Seq(Byte)
      BY StringWritten
    <3>3. Starts(WriteString(x), file, r) /\ EndOf(WriteString(x), file, r) = Len(file)
      BY <2>6, <3>2, EndIsThere
    <3>4. PICK one \in Text : ReadString(At(file, r)) = Got(one, At(file, Len(file)))
      BY <3>3, StringFound
    <3>5. f[i + 1] = Got(Append(v, one), At(file, Len(file))) /\ Append(v, one) \in Seq(Text)
      BY <2>4, <3>4
    <3>6. Len(file) \in 0 .. Len(file)
      BY <2>6
    <3> QED  BY <2>6, <3>5, <3>6
  <2> QED  BY <2>2, <2>5, <2>6
<1> HIDE DEF G
<1>13. Nat \subseteq G
  BY <1>11, <1>12, Induction
<1>14. Good(c)
  <2>1. c \in G /\ c <= c
    BY <1>5, <1>13
  <2> QED  BY <2>1 DEF G
<1>15. PICK v \in Seq(Text), r \in 0 .. Len(file) :
         /\ f[c] = Got(v, At(file, r))
         /\ (c = n /\ r = at[c]) \/ (r = Len(file) /\ end = Len(file))
  BY <1>14
<1>16. r = end
  BY <1>3, <1>15
<1> QED  BY <1>7, <1>15, <1>16 DEF end

LEMMA CodeFound ==
  ASSUME NEW list \in Lists(SourceCode), NEW file \in Seq(Byte), NEW k \in 0 .. Len(file),
         NEW parts, parts = [i \in DOMAIN list |-> WriteInstruction(list[i])],
         Starts(WriteParts(parts), file, k)
  PROVE  \E v \in Seq(Instruction) : ReadCode(At(file, k)) = Got(v, At(file, EndOf(WriteParts(parts), file, k)))
<1> DEFINE n == Len(list)
           end == EndOf(WriteParts(parts), file, k)
<1>1. /\ n \in Nat /\ n < WordLimit /\ parts \in Seq(Seq(Byte)) /\ Len(parts) = n
      /\ \A i \in 1 .. n : list[i] \in SourceCode /\ parts[i] = WriteInstruction(list[i])
  BY CodeWritten
<1>2. PICK at : PartsStart(at, parts, file, k)
  BY <1>1, PartsFound
<1>3. /\ at \in [0 .. n -> 0 .. Len(file)] /\ at[0] = EndOf(WriteInteger(n), file, k)
      /\ \A i \in 1 .. n : Starts(parts[i], file, at[i - 1]) /\ at[i] = EndOf(parts[i], file, at[i - 1])
      /\ at[n] = end /\ (at[0] = Len(file) => end = Len(file))
  BY <1>1, <1>2 DEF PartsStart
<1>4. PICK m \in 0 .. IntBytes :
        /\ ReadInteger(At(file, k)) = Got(n % Place[m], At(file, at[0]))
        /\ m = IntBytes \/ at[0] = Len(file)
        /\ Place[m] \in Nat \ {0}
        /\ n % Place[m] \in 0 .. Place[m] - 1
  <2>1. Starts(WriteInteger(n), file, k) /\ n \in Int
    BY <1>1, PartsFound
  <2> HIDE DEF n
  <2>2. \E m \in 0 .. IntBytes :
          /\ ReadInteger(At(file, k)) = Got(n % Place[m], At(file, EndOf(WriteInteger(n), file, k)))
          /\ m = IntBytes \/ EndOf(WriteInteger(n), file, k) = Len(file)
          /\ Place[m] \in Nat \ {0}
          /\ n % Place[m] \in 0 .. Place[m] - 1
    BY <2>1, IntegerFound
  <2> QED  BY <1>3, <2>2
<1> DEFINE c == n % Place[m]
<1>5. ReadInteger(At(file, k)) = Got(c, At(file, at[0])) /\ c \in Nat
  BY <1>4
<1>6. c = n \/ (at[0] = Len(file) /\ end = Len(file))
  <2>1. CASE m = IntBytes
    <3>1. WordLimit \in Nat \ {0}
      BY <1>4, <2>1 DEF WordLimit
    <3>2. n % WordLimit = n
      <4>1. n \in 0 .. WordLimit - 1
        BY <1>1, <3>1
      <4> HIDE DEF n
      <4> QED  BY <3>1, <4>1
    <3>3. Place[m] = WordLimit
      BY <2>1 DEF WordLimit
    <3> QED  BY <3>2, <3>3
  <2>2. CASE at[0] = Len(file)
    BY <1>3, <2>2
  <2> QED  BY <1>4, <2>1, <2>2
<1> HIDE DEF n, c, end
<1> DEFINE Appended(before) ==
             Got(Append(before.value, ReadInstruction(before.reader).value), ReadInstruction(before.reader).reader)
           Start == Got(<<>>, At(file, at[0]))
           Is(f, d) == f = [i \in 0 .. d |-> IF i = 0 THEN Start ELSE Appended(f[i - 1])]
           f == CHOOSE g : Is(g, c)
<1>7. ReadCode(At(file, k)) = f[c]
  BY <1>5 DEF ReadCode, ReadList, Got
<1> HIDE DEF Appended, Start
<1>8. \E g : Is(g, c)
  <2> DEFINE D == {d \in Nat : \E g : Is(g, d)}
  <2>1. 0 \in D
    <3>1. Is([i \in 0 .. 0 |-> Start], 0)
      OBVIOUS
    <3> QED  BY <3>1
  <2>2. ASSUME NEW d \in Nat, d \in D
        PROVE  d + 1 \in D
    <3>1. PICK g : Is(g, d)
      BY <2>2
    <3> DEFINE h == [i \in 0 .. d + 1 |-> IF i = 0 THEN Start ELSE Appended(g[i - 1])]
    <3>2. \A i \in 0 .. d : h[i] = g[i]
      BY <3>1
    <3>3. h = [i \in 0 .. d + 1 |-> IF i = 0 THEN Start ELSE Appended(g[i - 1])]
      OBVIOUS
    <3> HIDE DEF h
    <3>4. ASSUME NEW i \in 0 .. d + 1, i # 0
          PROVE  h[i - 1] = g[i - 1]
      <4>1. i - 1 \in 0 .. d
        BY <3>4
      <4> QED  BY <3>2, <4>1
    <3>5. Is(h, d + 1)
      BY <3>3, <3>4
    <3> QED  BY <3>5
  <2> HIDE DEF D
  <2>3. Nat \subseteq D
    BY <2>1, <2>2, Induction
  <2>4. c \in D
    BY <1>5, <2>3
  <2> QED  BY <2>4 DEF D
<1>9. Is(f, c)
  BY <1>8
<1> HIDE DEF f
<1>10. f[0] = Start /\ \A i \in 1 .. c : f[i] = Appended(f[i - 1])
  <2>1. 0 \in 0 .. c /\ \A i \in 1 .. c : i \in 0 .. c /\ i # 0
    BY <1>5
  <2> QED  BY <1>9, <2>1
<1> DEFINE Good(i) == \E v \in Seq(Instruction), r \in 0 .. Len(file) :
                        /\ f[i] = Got(v, At(file, r))
                        /\ (c = n /\ r = at[i]) \/ (r = Len(file) /\ end = Len(file))
           G == {i \in Nat : i <= c => Good(i)}
<1>11. 0 \in G
  <2>1. <<>> \in Seq(Instruction) /\ at[0] \in 0 .. Len(file)
    <3>1. 0 \in 0 .. n
      BY <1>1 DEF n
    <3> QED  BY <1>3, <3>1, EmptySeq
  <2>2. f[0] = Got(<<>>, At(file, at[0]))
    BY <1>10 DEF Start
  <2> QED  BY <1>6, <2>1, <2>2
<1>12. ASSUME NEW i \in Nat, i \in G
       PROVE  i + 1 \in G
  <2> SUFFICES ASSUME i + 1 <= c
               PROVE  Good(i + 1)
    OBVIOUS
  <2>1. i + 1 \in 1 .. c /\ (i + 1) - 1 = i /\ i <= c
    BY <1>5
  <2>2. PICK v \in Seq(Instruction), r \in 0 .. Len(file) :
          /\ f[i] = Got(v, At(file, r))
          /\ (c = n /\ r = at[i]) \/ (r = Len(file) /\ end = Len(file))
    BY <1>12, <2>1
  <2>3. f[i + 1] = Appended(f[i])
    BY <1>10, <2>1
  <2>4. ASSUME NEW one \in Instruction, NEW q, ReadInstruction(At(file, r)) = Got(one, At(file, q))
        PROVE  f[i + 1] = Got(Append(v, one), At(file, q)) /\ Append(v, one) \in Seq(Instruction)
    <3> DEFINE before == Got(v, At(file, r))
               got == Got(one, At(file, q))
    <3>1. /\ before.value = v /\ before.reader = At(file, r)
          /\ got.value = one /\ got.reader = At(file, q)
      BY DEF Got
    <3>2. f[i] = before /\ ReadInstruction(At(file, r)) = got
      BY <2>2, <2>4
    <3> HIDE DEF before, got
    <3>3. ReadInstruction(before.reader) = got
      BY <3>1, <3>2
    <3>4. Appended(before) = Got(Append(v, one), At(file, q))
      BY <3>1, <3>3 DEF Appended
    <3> QED  BY <2>3, <3>2, <3>4, AppendProperties
  <2>5. CASE c = n /\ r = at[i]
    <3>1. /\ list[i + 1] \in SourceCode /\ Starts(WriteInstruction(list[i + 1]), file, r)
          /\ at[i + 1] = EndOf(WriteInstruction(list[i + 1]), file, r)
      BY <1>1, <1>3, <2>1, <2>5 DEF n
    <3>2. PICK one \in Instruction : ReadInstruction(At(file, r)) = Got(one, At(file, at[i + 1]))
      BY <3>1, InstructionFound
    <3>3. i + 1 \in 0 .. n /\ at[i + 1] \in 0 .. Len(file)
      BY <1>3, <2>1, <2>5
    <3>4. f[i + 1] = Got(Append(v, one), At(file, at[i + 1])) /\ Append(v, one) \in Seq(Instruction)
      BY <2>4, <3>2
    <3> DEFINE q == at[i + 1]
               w == Append(v, one)
    <3>5. /\ w \in Seq(Instruction) /\ q \in 0 .. Len(file) /\ f[i + 1] = Got(w, At(file, q))
          /\ c = n /\ q = at[i + 1]
      BY <2>5, <3>3, <3>4
    <3> HIDE DEF q, w
    <3> QED  BY <3>5
  <2>6. CASE r = Len(file) /\ end = Len(file)
    <3>1. PICK x \in SourceCode : TRUE
      BY SomeSources
    <3>2. WriteInstruction(x) \in Seq(Byte)
      BY InstructionWritten
    <3>3. Starts(WriteInstruction(x), file, r) /\ EndOf(WriteInstruction(x), file, r) = Len(file)
      BY <2>6, <3>2, EndIsThere
    <3>4. PICK one \in Instruction : ReadInstruction(At(file, r)) = Got(one, At(file, Len(file)))
      BY <3>3, InstructionFound
    <3>5. f[i + 1] = Got(Append(v, one), At(file, Len(file))) /\ Append(v, one) \in Seq(Instruction)
      BY <2>4, <3>4
    <3>6. Len(file) \in 0 .. Len(file)
      BY <2>6
    <3> QED  BY <2>6, <3>5, <3>6
  <2> QED  BY <2>2, <2>5, <2>6
<1> HIDE DEF G
<1>13. Nat \subseteq G
  BY <1>11, <1>12, Induction
<1>14. Good(c)
  <2>1. c \in G /\ c <= c
    BY <1>5, <1>13
  <2> QED  BY <2>1 DEF G
<1>15. PICK v \in Seq(Instruction), r \in 0 .. Len(file) :
         /\ f[c] = Got(v, At(file, r))
         /\ (c = n /\ r = at[c]) \/ (r = Len(file) /\ end = Len(file))
  BY <1>14
<1>16. r = end
  BY <1>3, <1>15
<1> QED  BY <1>7, <1>15, <1>16 DEF end

LEMMA BlockFound ==
  ASSUME NEW block \in SourceBlocks, NEW file \in Seq(Byte), NEW k \in 0 .. Len(file),
         Starts(WriteBlock(block), file, k)
  PROVE  \E v \in LoadedBlocks :
           ReadBlock(At(file, k)) = Got(v, At(file, EndOf(WriteBlock(block), file, k)))
<1> DEFINE parts == [i \in DOMAIN block.code |-> WriteInstruction(block.code[i])]
           head  == WriteString(block.name)
           code  == WriteParts(parts)
           j == EndOf(head, file, k)
           l == EndOf(code, file, j)
<1>1. /\ block.name \in Text /\ block.code \in Lists(SourceCode)
      /\ head \in Seq(Byte) /\ code \in Seq(Byte) /\ WriteBlock(block) = head \o code
  BY BlockParts
<1>2. /\ Starts(head, file, k) /\ Starts(code, file, j) /\ j \in 0 .. Len(file)
      /\ l = EndOf(WriteBlock(block), file, k)
  <2> HIDE DEF head, code
  <2> QED  BY <1>1, StartsBoth, EndIsThere
<1>3. PICK name \in Text : ReadString(At(file, k)) = Got(name, At(file, j))
  BY <1>1, <1>2, StringFound
<1>4. PICK list \in Seq(Instruction) : ReadCode(At(file, j)) = Got(list, At(file, l))
  <2> HIDE DEF j
  <2> QED  BY <1>1, <1>2, CodeFound
<1> HIDE DEF parts, head, code, j, l
<1>5. ReadBlock(At(file, k)) = Got([name |-> name, code |-> list], At(file, l))
  BY <1>3, <1>4 DEF ReadBlock, Got
<1>6. [name |-> name, code |-> list] \in LoadedBlocks
  BY DEF LoadedBlocks
<1> QED  BY <1>2, <1>5, <1>6

LEMMA BlocksFound ==
  ASSUME NEW list \in Lists(SourceBlocks), NEW file \in Seq(Byte), NEW k \in 0 .. Len(file),
         NEW parts, parts = [i \in DOMAIN list |-> WriteBlock(list[i])],
         Starts(WriteParts(parts), file, k)
  PROVE  \E v \in Seq(LoadedBlocks) : ReadBlocks(At(file, k)) = Got(v, At(file, EndOf(WriteParts(parts), file, k)))
<1> DEFINE n == Len(list)
           end == EndOf(WriteParts(parts), file, k)
<1>1. /\ n \in Nat /\ n < WordLimit /\ parts \in Seq(Seq(Byte)) /\ Len(parts) = n
      /\ \A i \in 1 .. n : list[i] \in SourceBlocks /\ parts[i] = WriteBlock(list[i])
  BY BlocksWritten
<1>2. PICK at : PartsStart(at, parts, file, k)
  BY <1>1, PartsFound
<1>3. /\ at \in [0 .. n -> 0 .. Len(file)] /\ at[0] = EndOf(WriteInteger(n), file, k)
      /\ \A i \in 1 .. n : Starts(parts[i], file, at[i - 1]) /\ at[i] = EndOf(parts[i], file, at[i - 1])
      /\ at[n] = end /\ (at[0] = Len(file) => end = Len(file))
  BY <1>1, <1>2 DEF PartsStart
<1>4. PICK m \in 0 .. IntBytes :
        /\ ReadInteger(At(file, k)) = Got(n % Place[m], At(file, at[0]))
        /\ m = IntBytes \/ at[0] = Len(file)
        /\ Place[m] \in Nat \ {0}
        /\ n % Place[m] \in 0 .. Place[m] - 1
  <2>1. Starts(WriteInteger(n), file, k) /\ n \in Int
    BY <1>1, PartsFound
  <2> HIDE DEF n
  <2>2. \E m \in 0 .. IntBytes :
          /\ ReadInteger(At(file, k)) = Got(n % Place[m], At(file, EndOf(WriteInteger(n), file, k)))
          /\ m = IntBytes \/ EndOf(WriteInteger(n), file, k) = Len(file)
          /\ Place[m] \in Nat \ {0}
          /\ n % Place[m] \in 0 .. Place[m] - 1
    BY <2>1, IntegerFound
  <2> QED  BY <1>3, <2>2
<1> DEFINE c == n % Place[m]
<1>5. ReadInteger(At(file, k)) = Got(c, At(file, at[0])) /\ c \in Nat
  BY <1>4
<1>6. c = n \/ (at[0] = Len(file) /\ end = Len(file))
  <2>1. CASE m = IntBytes
    <3>1. WordLimit \in Nat \ {0}
      BY <1>4, <2>1 DEF WordLimit
    <3>2. n % WordLimit = n
      <4>1. n \in 0 .. WordLimit - 1
        BY <1>1, <3>1
      <4> HIDE DEF n
      <4> QED  BY <3>1, <4>1
    <3>3. Place[m] = WordLimit
      BY <2>1 DEF WordLimit
    <3> QED  BY <3>2, <3>3
  <2>2. CASE at[0] = Len(file)
    BY <1>3, <2>2
  <2> QED  BY <1>4, <2>1, <2>2
<1> HIDE DEF n, c, end
<1> DEFINE Appended(before) ==
             Got(Append(before.value, ReadBlock(before.reader).value), ReadBlock(before.reader).reader)
           Start == Got(<<>>, At(file, at[0]))
           Is(f, d) == f = [i \in 0 .. d |-> IF i = 0 THEN Start ELSE Appended(f[i - 1])]
           f == CHOOSE g : Is(g, c)
<1>7. ReadBlocks(At(file, k)) = f[c]
  BY <1>5 DEF ReadBlocks, ReadList, Got
<1> HIDE DEF Appended, Start
<1>8. \E g : Is(g, c)
  <2> DEFINE D == {d \in Nat : \E g : Is(g, d)}
  <2>1. 0 \in D
    <3>1. Is([i \in 0 .. 0 |-> Start], 0)
      OBVIOUS
    <3> QED  BY <3>1
  <2>2. ASSUME NEW d \in Nat, d \in D
        PROVE  d + 1 \in D
    <3>1. PICK g : Is(g, d)
      BY <2>2
    <3> DEFINE h == [i \in 0 .. d + 1 |-> IF i = 0 THEN Start ELSE Appended(g[i - 1])]
    <3>2. \A i \in 0 .. d : h[i] = g[i]
      BY <3>1
    <3>3. h = [i \in 0 .. d + 1 |-> IF i = 0 THEN Start ELSE Appended(g[i - 1])]
      OBVIOUS
    <3> HIDE DEF h
    <3>4. ASSUME NEW i \in 0 .. d + 1, i # 0
          PROVE  h[i - 1] = g[i - 1]
      <4>1. i - 1 \in 0 .. d
        BY <3>4
      <4> QED  BY <3>2, <4>1
    <3>5. Is(h, d + 1)
      BY <3>3, <3>4
    <3> QED  BY <3>5
  <2> HIDE DEF D
  <2>3. Nat \subseteq D
    BY <2>1, <2>2, Induction
  <2>4. c \in D
    BY <1>5, <2>3
  <2> QED  BY <2>4 DEF D
<1>9. Is(f, c)
  BY <1>8
<1> HIDE DEF f
<1>10. f[0] = Start /\ \A i \in 1 .. c : f[i] = Appended(f[i - 1])
  <2>1. 0 \in 0 .. c /\ \A i \in 1 .. c : i \in 0 .. c /\ i # 0
    BY <1>5
  <2> QED  BY <1>9, <2>1
<1> DEFINE Good(i) == \E v \in Seq(LoadedBlocks), r \in 0 .. Len(file) :
                        /\ f[i] = Got(v, At(file, r))
                        /\ (c = n /\ r = at[i]) \/ (r = Len(file) /\ end = Len(file))
           G == {i \in Nat : i <= c => Good(i)}
<1>11. 0 \in G
  <2>1. <<>> \in Seq(LoadedBlocks) /\ at[0] \in 0 .. Len(file)
    <3>1. 0 \in 0 .. n
      BY <1>1 DEF n
    <3> QED  BY <1>3, <3>1, EmptySeq
  <2>2. f[0] = Got(<<>>, At(file, at[0]))
    BY <1>10 DEF Start
  <2> QED  BY <1>6, <2>1, <2>2
<1>12. ASSUME NEW i \in Nat, i \in G
       PROVE  i + 1 \in G
  <2> SUFFICES ASSUME i + 1 <= c
               PROVE  Good(i + 1)
    OBVIOUS
  <2>1. i + 1 \in 1 .. c /\ (i + 1) - 1 = i /\ i <= c
    BY <1>5
  <2>2. PICK v \in Seq(LoadedBlocks), r \in 0 .. Len(file) :
          /\ f[i] = Got(v, At(file, r))
          /\ (c = n /\ r = at[i]) \/ (r = Len(file) /\ end = Len(file))
    BY <1>12, <2>1
  <2>3. f[i + 1] = Appended(f[i])
    BY <1>10, <2>1
  <2>4. ASSUME NEW one \in LoadedBlocks, NEW q, ReadBlock(At(file, r)) = Got(one, At(file, q))
        PROVE  f[i + 1] = Got(Append(v, one), At(file, q)) /\ Append(v, one) \in Seq(LoadedBlocks)
    <3> DEFINE before == Got(v, At(file, r))
               got == Got(one, At(file, q))
    <3>1. /\ before.value = v /\ before.reader = At(file, r)
          /\ got.value = one /\ got.reader = At(file, q)
      BY DEF Got
    <3>2. f[i] = before /\ ReadBlock(At(file, r)) = got
      BY <2>2, <2>4
    <3> HIDE DEF before, got
    <3>3. ReadBlock(before.reader) = got
      BY <3>1, <3>2
    <3>4. Appended(before) = Got(Append(v, one), At(file, q))
      BY <3>1, <3>3 DEF Appended
    <3> QED  BY <2>3, <3>2, <3>4, AppendProperties
  <2>5. CASE c = n /\ r = at[i]
    <3>1. /\ list[i + 1] \in SourceBlocks /\ Starts(WriteBlock(list[i + 1]), file, r)
          /\ at[i + 1] = EndOf(WriteBlock(list[i + 1]), file, r)
      BY <1>1, <1>3, <2>1, <2>5 DEF n
    <3>2. PICK one \in LoadedBlocks : ReadBlock(At(file, r)) = Got(one, At(file, at[i + 1]))
      BY <3>1, BlockFound
    <3>3. i + 1 \in 0 .. n /\ at[i + 1] \in 0 .. Len(file)
      BY <1>3, <2>1, <2>5
    <3>4. f[i + 1] = Got(Append(v, one), At(file, at[i + 1])) /\ Append(v, one) \in Seq(LoadedBlocks)
      BY <2>4, <3>2
    <3> DEFINE q == at[i + 1]
               w == Append(v, one)
    <3>5. /\ w \in Seq(LoadedBlocks) /\ q \in 0 .. Len(file) /\ f[i + 1] = Got(w, At(file, q))
          /\ c = n /\ q = at[i + 1]
      BY <2>5, <3>3, <3>4
    <3> HIDE DEF q, w
    <3> QED  BY <3>5
  <2>6. CASE r = Len(file) /\ end = Len(file)
    <3>1. PICK x \in SourceBlocks : TRUE
      BY SomeSources
    <3>2. WriteBlock(x) \in Seq(Byte)
      BY BlockWritten
    <3>3. Starts(WriteBlock(x), file, r) /\ EndOf(WriteBlock(x), file, r) = Len(file)
      BY <2>6, <3>2, EndIsThere
    <3>4. PICK one \in LoadedBlocks : ReadBlock(At(file, r)) = Got(one, At(file, Len(file)))
      BY <3>3, BlockFound
    <3>5. f[i + 1] = Got(Append(v, one), At(file, Len(file))) /\ Append(v, one) \in Seq(LoadedBlocks)
      BY <2>4, <3>4
    <3>6. Len(file) \in 0 .. Len(file)
      BY <2>6
    <3> QED  BY <2>6, <3>5, <3>6
  <2> QED  BY <2>2, <2>5, <2>6
<1> HIDE DEF G
<1>13. Nat \subseteq G
  BY <1>11, <1>12, Induction
<1>14. Good(c)
  <2>1. c \in G /\ c <= c
    BY <1>5, <1>13
  <2> QED  BY <2>1 DEF G
<1>15. PICK v \in Seq(LoadedBlocks), r \in 0 .. Len(file) :
         /\ f[c] = Got(v, At(file, r))
         /\ (c = n /\ r = at[c]) \/ (r = Len(file) /\ end = Len(file))
  BY <1>14
<1>16. r = end
  BY <1>3, <1>15
<1> QED  BY <1>7, <1>15, <1>16 DEF end

LEMMA MethodFound ==
  ASSUME NEW method \in SourceMethods, NEW file \in Seq(Byte), NEW k \in 0 .. Len(file),
         Starts(WriteMethod(method), file, k)
  PROVE  \E v \in LoadedMethods :
           ReadMethod(At(file, k)) = Got(v, At(file, EndOf(WriteMethod(method), file, k)))
<1> DEFINE variables == [i \in DOMAIN method.variables |-> WriteString(method.variables[i])]
           fields    == [i \in DOMAIN method.fields |-> WriteString(method.fields[i])]
           blocks    == [i \in DOMAIN method.blocks |-> WriteBlock(method.blocks[i])]
           a == WriteString(method.name)
           b == WriteParts(variables)
           c == WriteParts(fields)
           d == WriteParts(blocks)
           kb == EndOf(a, file, k)
           kc == EndOf(b, file, kb)
           kd == EndOf(c, file, kc)
           end == EndOf(d, file, kd)
<1>1. /\ method.name \in Text /\ method.blocks \in Lists(SourceBlocks)
      /\ method.variables \in Lists(Text) /\ method.fields \in Lists(Text)
      /\ a \in Seq(Byte) /\ b \in Seq(Byte) /\ c \in Seq(Byte) /\ d \in Seq(Byte)
      /\ WriteMethod(method) = ((a \o b) \o c) \o d
  BY MethodParts
<1>2. /\ Starts(a, file, k) /\ Starts(b, file, kb) /\ Starts(c, file, kc) /\ Starts(d, file, kd)
      /\ kb \in 0 .. Len(file) /\ kc \in 0 .. Len(file) /\ kd \in 0 .. Len(file)
      /\ end = EndOf(WriteMethod(method), file, k)
  <2> HIDE DEF a, b, c, d
  <2>1. a \o b \in Seq(Byte)
    BY <1>1, ConcatProperties
  <2>2. (a \o b) \o c \in Seq(Byte)
    BY <1>1, <2>1, ConcatProperties
  <2> DEFINE u == a \o b
             v == u \o c
  <2>3. u \in Seq(Byte) /\ v \in Seq(Byte) /\ Starts(v \o d, file, k)
    BY <1>1, <2>1, <2>2
  <2> HIDE DEF v
  <2>4. /\ Starts(v, file, k) /\ Starts(d, file, EndOf(v, file, k))
        /\ EndOf(d, file, EndOf(v, file, k)) = EndOf(v \o d, file, k)
    BY <1>1, <2>3, StartsBoth
  <2> HIDE DEF u
  <2>5. /\ Starts(u, file, k) /\ Starts(c, file, EndOf(u, file, k))
        /\ EndOf(c, file, EndOf(u, file, k)) = EndOf(v, file, k)
    BY <1>1, <2>3, <2>4, StartsBoth DEF v
  <2>6. /\ Starts(a, file, k) /\ Starts(b, file, EndOf(a, file, k))
        /\ EndOf(b, file, EndOf(a, file, k)) = EndOf(u, file, k)
    BY <1>1, <2>5, StartsBoth DEF u
  <2>7. kb \in 0 .. Len(file)
    BY <1>1, EndIsThere
  <2>8. kc \in 0 .. Len(file)
    <3> HIDE DEF kb
    <3> QED  BY <1>1, <2>7, EndIsThere
  <2>9. kd \in 0 .. Len(file)
    <3> HIDE DEF kc
    <3> QED  BY <1>1, <2>8, EndIsThere
  <2> QED  BY <1>1, <2>4, <2>5, <2>6, <2>7, <2>8, <2>9 DEF u, v
<1>3. PICK name \in Text : ReadString(At(file, k)) = Got(name, At(file, kb))
  BY <1>1, <1>2, StringFound
<1>4. PICK vs \in Seq(Text) : ReadStringVector(At(file, kb)) = Got(vs, At(file, kc))
  <2>1. /\ kb \in 0 .. Len(file) /\ Starts(WriteParts(variables), file, kb)
        /\ method.variables \in Lists(Text) /\ kc = EndOf(WriteParts(variables), file, kb)
    BY <1>1, <1>2
  <2> HIDE DEF kb, kc
  <2> QED  BY <2>1, StringVectorFound
<1>5. PICK fs \in Seq(Text) : ReadStringVector(At(file, kc)) = Got(fs, At(file, kd))
  <2>1. /\ kc \in 0 .. Len(file) /\ Starts(WriteParts(fields), file, kc)
        /\ method.fields \in Lists(Text) /\ kd = EndOf(WriteParts(fields), file, kc)
    BY <1>1, <1>2
  <2> HIDE DEF kc, kd
  <2> QED  BY <2>1, StringVectorFound
<1>6. PICK bs \in Seq(LoadedBlocks) : ReadBlocks(At(file, kd)) = Got(bs, At(file, end))
  <2>1. /\ kd \in 0 .. Len(file) /\ Starts(WriteParts(blocks), file, kd)
        /\ method.blocks \in Lists(SourceBlocks) /\ end = EndOf(WriteParts(blocks), file, kd)
    BY <1>1, <1>2
  <2> HIDE DEF kd, end
  <2> QED  BY <2>1, BlocksFound
<1> HIDE DEF variables, fields, blocks, a, b, c, d, kb, kc, kd, end
<1> DEFINE value == [name |-> name, variables |-> vs, fields |-> fs, blocks |-> bs]
<1>7. ReadMethod(At(file, k)) = Got(value, At(file, end))
  BY <1>3, <1>4, <1>5, <1>6 DEF ReadMethod, Got
<1>8. value \in LoadedMethods
  BY DEF LoadedMethods
<1> QED  BY <1>2, <1>7, <1>8

LEMMA MethodsFound ==
  ASSUME NEW list \in Lists(SourceMethods), NEW file \in Seq(Byte), NEW k \in 0 .. Len(file),
         NEW parts, parts = [i \in DOMAIN list |-> WriteMethod(list[i])],
         Starts(WriteParts(parts), file, k)
  PROVE  \E v \in Seq(LoadedMethods) : ReadMethods(At(file, k)) = Got(v, At(file, EndOf(WriteParts(parts), file, k)))
<1> DEFINE n == Len(list)
           end == EndOf(WriteParts(parts), file, k)
<1>1. /\ n \in Nat /\ n < WordLimit /\ parts \in Seq(Seq(Byte)) /\ Len(parts) = n
      /\ \A i \in 1 .. n : list[i] \in SourceMethods /\ parts[i] = WriteMethod(list[i])
  BY MethodsWritten
<1>2. PICK at : PartsStart(at, parts, file, k)
  BY <1>1, PartsFound
<1>3. /\ at \in [0 .. n -> 0 .. Len(file)] /\ at[0] = EndOf(WriteInteger(n), file, k)
      /\ \A i \in 1 .. n : Starts(parts[i], file, at[i - 1]) /\ at[i] = EndOf(parts[i], file, at[i - 1])
      /\ at[n] = end /\ (at[0] = Len(file) => end = Len(file))
  BY <1>1, <1>2 DEF PartsStart
<1>4. PICK m \in 0 .. IntBytes :
        /\ ReadInteger(At(file, k)) = Got(n % Place[m], At(file, at[0]))
        /\ m = IntBytes \/ at[0] = Len(file)
        /\ Place[m] \in Nat \ {0}
        /\ n % Place[m] \in 0 .. Place[m] - 1
  <2>1. Starts(WriteInteger(n), file, k) /\ n \in Int
    BY <1>1, PartsFound
  <2> HIDE DEF n
  <2>2. \E m \in 0 .. IntBytes :
          /\ ReadInteger(At(file, k)) = Got(n % Place[m], At(file, EndOf(WriteInteger(n), file, k)))
          /\ m = IntBytes \/ EndOf(WriteInteger(n), file, k) = Len(file)
          /\ Place[m] \in Nat \ {0}
          /\ n % Place[m] \in 0 .. Place[m] - 1
    BY <2>1, IntegerFound
  <2> QED  BY <1>3, <2>2
<1> DEFINE c == n % Place[m]
<1>5. ReadInteger(At(file, k)) = Got(c, At(file, at[0])) /\ c \in Nat
  BY <1>4
<1>6. c = n \/ (at[0] = Len(file) /\ end = Len(file))
  <2>1. CASE m = IntBytes
    <3>1. WordLimit \in Nat \ {0}
      BY <1>4, <2>1 DEF WordLimit
    <3>2. n % WordLimit = n
      <4>1. n \in 0 .. WordLimit - 1
        BY <1>1, <3>1
      <4> HIDE DEF n
      <4> QED  BY <3>1, <4>1
    <3>3. Place[m] = WordLimit
      BY <2>1 DEF WordLimit
    <3> QED  BY <3>2, <3>3
  <2>2. CASE at[0] = Len(file)
    BY <1>3, <2>2
  <2> QED  BY <1>4, <2>1, <2>2
<1> HIDE DEF n, c, end
<1> DEFINE Appended(before) ==
             Got(Append(before.value, ReadMethod(before.reader).value), ReadMethod(before.reader).reader)
           Start == Got(<<>>, At(file, at[0]))
           Is(f, d) == f = [i \in 0 .. d |-> IF i = 0 THEN Start ELSE Appended(f[i - 1])]
           f == CHOOSE g : Is(g, c)
<1>7. ReadMethods(At(file, k)) = f[c]
  BY <1>5 DEF ReadMethods, ReadList, Got
<1> HIDE DEF Appended, Start
<1>8. \E g : Is(g, c)
  <2> DEFINE D == {d \in Nat : \E g : Is(g, d)}
  <2>1. 0 \in D
    <3>1. Is([i \in 0 .. 0 |-> Start], 0)
      OBVIOUS
    <3> QED  BY <3>1
  <2>2. ASSUME NEW d \in Nat, d \in D
        PROVE  d + 1 \in D
    <3>1. PICK g : Is(g, d)
      BY <2>2
    <3> DEFINE h == [i \in 0 .. d + 1 |-> IF i = 0 THEN Start ELSE Appended(g[i - 1])]
    <3>2. \A i \in 0 .. d : h[i] = g[i]
      BY <3>1
    <3>3. h = [i \in 0 .. d + 1 |-> IF i = 0 THEN Start ELSE Appended(g[i - 1])]
      OBVIOUS
    <3> HIDE DEF h
    <3>4. ASSUME NEW i \in 0 .. d + 1, i # 0
          PROVE  h[i - 1] = g[i - 1]
      <4>1. i - 1 \in 0 .. d
        BY <3>4
      <4> QED  BY <3>2, <4>1
    <3>5. Is(h, d + 1)
      BY <3>3, <3>4
    <3> QED  BY <3>5
  <2> HIDE DEF D
  <2>3. Nat \subseteq D
    BY <2>1, <2>2, Induction
  <2>4. c \in D
    BY <1>5, <2>3
  <2> QED  BY <2>4 DEF D
<1>9. Is(f, c)
  BY <1>8
<1> HIDE DEF f
<1>10. f[0] = Start /\ \A i \in 1 .. c : f[i] = Appended(f[i - 1])
  <2>1. 0 \in 0 .. c /\ \A i \in 1 .. c : i \in 0 .. c /\ i # 0
    BY <1>5
  <2> QED  BY <1>9, <2>1
<1> DEFINE Good(i) == \E v \in Seq(LoadedMethods), r \in 0 .. Len(file) :
                        /\ f[i] = Got(v, At(file, r))
                        /\ (c = n /\ r = at[i]) \/ (r = Len(file) /\ end = Len(file))
           G == {i \in Nat : i <= c => Good(i)}
<1>11. 0 \in G
  <2>1. <<>> \in Seq(LoadedMethods) /\ at[0] \in 0 .. Len(file)
    <3>1. 0 \in 0 .. n
      BY <1>1 DEF n
    <3> QED  BY <1>3, <3>1, EmptySeq
  <2>2. f[0] = Got(<<>>, At(file, at[0]))
    BY <1>10 DEF Start
  <2> QED  BY <1>6, <2>1, <2>2
<1>12. ASSUME NEW i \in Nat, i \in G
       PROVE  i + 1 \in G
  <2> SUFFICES ASSUME i + 1 <= c
               PROVE  Good(i + 1)
    OBVIOUS
  <2>1. i + 1 \in 1 .. c /\ (i + 1) - 1 = i /\ i <= c
    BY <1>5
  <2>2. PICK v \in Seq(LoadedMethods), r \in 0 .. Len(file) :
          /\ f[i] = Got(v, At(file, r))
          /\ (c = n /\ r = at[i]) \/ (r = Len(file) /\ end = Len(file))
    BY <1>12, <2>1
  <2>3. f[i + 1] = Appended(f[i])
    BY <1>10, <2>1
  <2>4. ASSUME NEW one \in LoadedMethods, NEW q, ReadMethod(At(file, r)) = Got(one, At(file, q))
        PROVE  f[i + 1] = Got(Append(v, one), At(file, q)) /\ Append(v, one) \in Seq(LoadedMethods)
    <3> DEFINE before == Got(v, At(file, r))
               got == Got(one, At(file, q))
    <3>1. /\ before.value = v /\ before.reader = At(file, r)
          /\ got.value = one /\ got.reader = At(file, q)
      BY DEF Got
    <3>2. f[i] = before /\ ReadMethod(At(file, r)) = got
      BY <2>2, <2>4
    <3> HIDE DEF before, got
    <3>3. ReadMethod(before.reader) = got
      BY <3>1, <3>2
    <3>4. Appended(before) = Got(Append(v, one), At(file, q))
      BY <3>1, <3>3 DEF Appended
    <3> QED  BY <2>3, <3>2, <3>4, AppendProperties
  <2>5. CASE c = n /\ r = at[i]
    <3>1. /\ list[i + 1] \in SourceMethods /\ Starts(WriteMethod(list[i + 1]), file, r)
          /\ at[i + 1] = EndOf(WriteMethod(list[i + 1]), file, r)
      BY <1>1, <1>3, <2>1, <2>5 DEF n
    <3>2. PICK one \in LoadedMethods : ReadMethod(At(file, r)) = Got(one, At(file, at[i + 1]))
      BY <3>1, MethodFound
    <3>3. i + 1 \in 0 .. n /\ at[i + 1] \in 0 .. Len(file)
      BY <1>3, <2>1, <2>5
    <3>4. f[i + 1] = Got(Append(v, one), At(file, at[i + 1])) /\ Append(v, one) \in Seq(LoadedMethods)
      BY <2>4, <3>2
    <3> DEFINE q == at[i + 1]
               w == Append(v, one)
    <3>5. /\ w \in Seq(LoadedMethods) /\ q \in 0 .. Len(file) /\ f[i + 1] = Got(w, At(file, q))
          /\ c = n /\ q = at[i + 1]
      BY <2>5, <3>3, <3>4
    <3> HIDE DEF q, w
    <3> QED  BY <3>5
  <2>6. CASE r = Len(file) /\ end = Len(file)
    <3>1. PICK x \in SourceMethods : TRUE
      BY SomeSources
    <3>2. WriteMethod(x) \in Seq(Byte)
      BY MethodWritten
    <3>3. Starts(WriteMethod(x), file, r) /\ EndOf(WriteMethod(x), file, r) = Len(file)
      BY <2>6, <3>2, EndIsThere
    <3>4. PICK one \in LoadedMethods : ReadMethod(At(file, r)) = Got(one, At(file, Len(file)))
      BY <3>3, MethodFound
    <3>5. f[i + 1] = Got(Append(v, one), At(file, Len(file))) /\ Append(v, one) \in Seq(LoadedMethods)
      BY <2>4, <3>4
    <3>6. Len(file) \in 0 .. Len(file)
      BY <2>6
    <3> QED  BY <2>6, <3>5, <3>6
  <2> QED  BY <2>2, <2>5, <2>6
<1> HIDE DEF G
<1>13. Nat \subseteq G
  BY <1>11, <1>12, Induction
<1>14. Good(c)
  <2>1. c \in G /\ c <= c
    BY <1>5, <1>13
  <2> QED  BY <2>1 DEF G
<1>15. PICK v \in Seq(LoadedMethods), r \in 0 .. Len(file) :
         /\ f[c] = Got(v, At(file, r))
         /\ (c = n /\ r = at[c]) \/ (r = Len(file) /\ end = Len(file))
  BY <1>14
<1>16. r = end
  BY <1>3, <1>15
<1> QED  BY <1>7, <1>15, <1>16 DEF end

-----------------------------------------------------------------------------
(***************************************************************************)
(* What the machine makes of what it reads is a program.                   *)
(***************************************************************************)
LEMMA NamedIs ==
  ASSUME NEW S, NEW list \in Seq(S), NEW i \in DOMAIN list
  PROVE  Named(list, list[i].name) \in S
<1> DEFINE I == {j \in DOMAIN list : list[j].name = list[i].name}
<1>1. DOMAIN list = 1 .. Len(list) /\ Len(list) \in Nat
  BY LenProperties
<1>2. I \subseteq Nat /\ I # {} /\ I \subseteq DOMAIN list
  BY <1>1
<1> HIDE DEF I
<1>3. \E m \in I : \A j \in I : m <= j
  BY <1>2, LeastNumber
<1>4. Min(I) \in I
  BY <1>3 DEF Min
<1>5. list[Min(I)] \in S
  BY <1>1, <1>2, <1>4, ElementOfSeq
<1> QED  BY <1>5 DEF Named, I

LEMMA MethodLoaded ==
  ASSUME NEW method \in LoadedMethods
  PROVE  IsMethod(AsMethod(method))
<1> DEFINE m == AsMethod(method)
<1>1. /\ method.variables \in Seq(Text) /\ method.fields \in Seq(Text)
      /\ method.blocks \in Seq(LoadedBlocks)
  BY DEF LoadedMethods
<1>2. /\ m.locals = ToSet(method.variables) /\ m.fields = ToSet(method.fields)
      /\ m.blocks = [b \in {method.blocks[i].name : i \in DOMAIN method.blocks} |->
                       Named(method.blocks, b).code]
  BY DEF AsMethod
<1> HIDE DEF m
<1>3. m.locals \subseteq Text /\ m.fields \subseteq Text
  BY <1>1, <1>2, LenProperties, ElementOfSeq DEF ToSet
<1>4. ASSUME NEW b \in DOMAIN m.blocks
      PROVE  b \in Text /\ m.blocks[b] \in Seq(Instruction)
  <2>1. PICK i \in DOMAIN method.blocks : b = method.blocks[i].name
    BY <1>2, <1>4
  <2>2. method.blocks[i] \in LoadedBlocks
    BY <1>1, LenProperties, ElementOfSeq
  <2>3. Named(method.blocks, b) \in LoadedBlocks
    BY <1>1, <2>1, NamedIs
  <2>4. m.blocks[b] = Named(method.blocks, b).code
    BY <1>2, <2>1
  <2> QED  BY <2>1, <2>2, <2>3, <2>4 DEF LoadedBlocks
<1> QED  BY <1>3, <1>4 DEF IsMethod, m

LEMMA ProgramLoaded ==
  ASSUME NEW list \in Seq(LoadedMethods), list # <<>>
  PROVE  IsProgram(AsProgram(list))
<1> DEFINE p == AsProgram(list)
<1>1. /\ p.main = Head(list).name
      /\ p.methods = [m \in {list[i].name : i \in DOMAIN list} |-> AsMethod(Named(list, m))]
  BY DEF AsProgram
<1> HIDE DEF p
<1>2. DOMAIN list = 1 .. Len(list) /\ Len(list) \in Nat \ {0} /\ Head(list) = list[1]
  BY LenProperties, EmptySeq
<1>3. p.main \in DOMAIN p.methods
  BY <1>1, <1>2
<1>4. ASSUME NEW m \in DOMAIN p.methods
      PROVE  m \in Text /\ IsMethod(p.methods[m])
  <2>1. PICK i \in DOMAIN list : m = list[i].name
    BY <1>1
  <2>2. list[i] \in LoadedMethods
    BY <1>2, ElementOfSeq
  <2>3. Named(list, m) \in LoadedMethods
    BY <2>1, NamedIs
  <2>4. p.methods[m] = AsMethod(Named(list, m))
    BY <1>1
  <2>5. m \in Text
    BY <2>1, <2>2 DEF LoadedMethods
  <2> QED  BY <2>3, <2>4, <2>5, MethodLoaded
<1> QED  BY <1>3, <1>4 DEF IsProgram, p

\* Wherever the file of a program is cut, what the loader reads from it is a
\* program.
LEMMA CutFileFound ==
  ASSUME NEW s \in Sources, NEW length \in 0 .. Len(Serialize(s))
  PROVE  IsProgram(ReadProgram(SubSeq(Serialize(s), 1, length)))
<1> DEFINE whole == Serialize(s)
           file  == SubSeq(whole, 1, length)
           tail  == Tail(s)
           parts == [i \in DOMAIN tail |-> WriteMethod(tail[i])]
           u == WriteMethod(Head(s))
           v == WriteParts(parts)
           j == EndOf(u, file, 0)
           end == EndOf(v, file, j)
<1>1. /\ Head(s) \in SourceMethods /\ tail \in Lists(SourceMethods)
      /\ u \in Seq(Byte) /\ v \in Seq(Byte) /\ whole = u \o v
  BY SourceParts
<1>2. whole \in Seq(Byte) /\ Len(whole) \in Nat /\ DOMAIN whole = 1 .. Len(whole)
  BY FileRead, LenProperties
<1>3. /\ file \in Seq(Byte) /\ Len(file) = length /\ length \in 0 .. Len(whole)
      /\ \A i \in 1 .. length : file[i] = whole[i]
  <2>1. length \in 0 .. Len(whole)
    OBVIOUS
  <2> HIDE DEF whole
  <2>2. 1 \in Int /\ length \in Int /\ \A i \in 1 .. length : whole[i] \in Byte
    BY <1>2, <2>1
  <2>3. /\ file \in Seq(Byte) /\ Len(file) = IF 1 <= length THEN length - 1 + 1 ELSE 0
        /\ \A i \in 1 .. length - 1 + 1 : file[i] = whole[1 + i - 1]
    BY <2>2, SubSeqProperties
  <2> HIDE DEF file
  <2>4. length - 1 + 1 = length /\ \A i \in 1 .. length : 1 + i - 1 = i
    BY <2>2
  <2>5. Len(file) = length
    BY <1>2, <2>1, <2>3
  <2> QED  BY <2>1, <2>3, <2>4, <2>5
<1> HIDE DEF u, v, whole, file
<1>4. Starts(u \o v, file, 0) /\ 0 \in 0 .. Len(file)
  BY <1>1, <1>2, <1>3 DEF Starts
<1>5. Starts(u, file, 0) /\ Starts(v, file, j) /\ j \in 0 .. Len(file)
  BY <1>1, <1>3, <1>4, StartsBoth, EndIsThere
<1>6. PICK main \in LoadedMethods : ReadMethod(At(file, 0)) = Got(main, At(file, j))
  BY <1>1, <1>3, <1>4, <1>5, MethodFound DEF u
<1>7. PICK others \in Seq(LoadedMethods) : ReadMethods(At(file, j)) = Got(others, At(file, end))
  <2> HIDE DEF j
  <2>1. Starts(WriteParts(parts), file, j)
    BY <1>5 DEF v
  <2> QED  BY <1>1, <1>3, <1>5, <2>1, MethodsFound DEF v
<1> HIDE DEF tail, parts, j, end
<1>8. ReadProgram(file) = AsProgram(<<main>> \o others)
  BY <1>6, <1>7 DEF ReadProgram, Got, At
<1>9. <<main>> \o others \in Seq(LoadedMethods) /\ <<main>> \o others # <<>>
  <2>1. <<main>> \in Seq(LoadedMethods) /\ Len(<<main>>) = 1 /\ Len(others) \in Nat
    BY LenProperties
  <2>2. <<main>> \o others \in Seq(LoadedMethods) /\ Len(<<main>> \o others) = 1 + Len(others)
    BY <2>1, ConcatProperties
  <2> QED  BY <2>1, <2>2, EmptySeq
<1> QED  BY <1>8, <1>9, ProgramLoaded DEF file, whole

DeliveryInv ==
  /\ RunsWhatItWasGiven
  /\ TypeInv
  /\ expected.status \in Status

LEMMA LoadFileType ==
  ASSUME DeliveryInv, LoadFile
  PROVE  TypeInv'
<1>1. /\ source \in Sources /\ loaded' \in DOMAIN Copies[source]
      /\ program' = Copies[source][loaded']
  BY DEF DeliveryInv, RunsWhatItWasGiven, LoadFile
<1> DEFINE file == Serialize(source)
<1>2. Copies[source] = [length \in 0 .. Len(file) |-> ReadProgram(SubSeq(file, 1, length))]
  BY <1>1 DEF Copies
<1>3. loaded' \in 0 .. Len(file) /\ program' = ReadProgram(SubSeq(file, 1, loaded'))
  BY <1>1, <1>2
<1>4. IsProgram(program')
  BY <1>1, <1>3, CutFileFound
<1>5. current' \in Frames'
  <2> DEFINE p == program'
             m == p.main
             frames == UNION {[method : {n}, block : Text, pc : Nat,
                               locals : [p.methods[n].locals -> Value], this : Value]
                                : n \in DOMAIN p.methods}
  <2>1. Frames' = frames
    BY DEF Frames, FramesOf
  <2>2. current' = NewActivation(p, m)
    BY DEF LoadFile
  <2>3. IsProgram(p)
    BY <1>4
  <2> HIDE DEF p, frames
  <2>4. m \in DOMAIN p.methods /\ m \in Text
    BY <2>3 DEF IsProgram
  <2> HIDE DEF m
  <2>5. NewActivation(p, m) \in [method : {m}, block : Text, pc : Nat,
                                 locals : [p.methods[m].locals -> Value], this : Value]
    BY <2>4, SmallValues DEF NewActivation
  <2>6. NewActivation(p, m) \in frames
    BY <2>4, <2>5 DEF frames
  <2> QED  BY <2>1, <2>2, <2>6
<1> QED  BY <1>4, <1>5, EmptySeq, StatusValues DEF LoadFile, TypeInv

\* What the machine is given to run is a program, wherever the file was cut, and
\* the state of the machine that runs it is well typed (readProgram, VM::run).
THEOREM DeliveryTypeCorrect == DSpec => []DeliveryTypeOK
<1>1. DInit => DeliveryInv
  <2>1. "running" \in Status
    BY StatusValues
  <2> QED  BY <2>1, TypeInvInit DEF DInit, DeliveryInv, RunsWhatItWasGiven, Unknown
<1>2. DeliveryInv /\ [DNext]_deliveryVars => DeliveryInv'
  <2> SUFFICES ASSUME DeliveryInv, [DNext]_deliveryVars
               PROVE  DeliveryInv'
    OBVIOUS
  <2>1. RunsWhatItWasGiven'
    BY GivenStep DEF DeliveryInv
  <2>2. CASE RunStep
    <3>1. TypeInv'
      BY <2>2, TypeInvStep DEF DeliveryInv, RunStep, Next
    <3> QED  BY <2>1, <2>2, <3>1 DEF DeliveryInv, RunStep
  <2>3. CASE LoadFile
    <3>1. TypeInv'
      BY <2>3, LoadFileType
    <3>2. expected'.status = status /\ status \in Status
      BY <2>3 DEF LoadFile, DeliveryInv, TypeInv
    <3> QED  BY <2>1, <3>1, <3>2 DEF DeliveryInv
  <2>4. CASE DEnded \/ UNCHANGED deliveryVars
    <3>1. UNCHANGED vars /\ expected' = expected
      BY <2>4 DEF DEnded, deliveryVars
    <3>2. TypeInv'
      BY <3>1, TypeInvStep DEF DeliveryInv
    <3> QED  BY <2>1, <3>1, <3>2 DEF DeliveryInv
  <2> QED  BY <2>2, <2>3, <2>4 DEF DNext
<1>3. DeliveryInv => DeliveryTypeOK
  BY TypeInvSuffices DEF DeliveryInv, RunsWhatItWasGiven, DeliveryTypeOK
<1> QED  BY <1>1, <1>2, <1>3, PTL DEF DSpec
=============================================================================
