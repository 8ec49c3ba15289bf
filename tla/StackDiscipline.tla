-------------------------- MODULE StackDiscipline ---------------------------
(***************************************************************************)
(* The contract between the compiler and the virtual machine on the data   *)
(* stack.  Arguments, receivers, results and temporaries of all active     *)
(* methods share one stack (VM::dataStack), and nothing in a bytecode file *)
(* says how many values a method takes: the contract holds only if every   *)
(* instruction is always reached with the same number of values of its own *)
(* activation on the stack.  A certificate gives that number for every     *)
(* instruction; Certified checks it locally, the way bytecode verifiers    *)
(* do, and NoUnderflow says what the machine then guarantees.              *)
(***************************************************************************)
EXTENDS VM

CONSTANT Heights(_)  \* Heights(p)[method][block][i]: values before instruction i

\* How many values an instruction other than CALL leaves for those it popped.
Pushes(op) ==
  IF op \in TwoOperands \cup {"NOT", "NEW_ARRAY", "ARRAY_LENGTH", "CONST",
                              "LOAD", "NEW"}
  THEN 1 ELSE 0

EntryHeight(p, name, b) == Heights(p)[name][b][1]

\* The values an activation owns before its next instruction.
Own(frame) == Heights(program)[frame.method][frame.block][frame.pc + 1]

\* The values a method finds on the stack: its receiver and its arguments.
Arity(p, name) == EntryHeight(p, name, name)

\* The values an instruction needs, and the height it leaves when it falls
\* through to the next one.
Needed(p, instr) == IF instr.op = "CALL" THEN Arity(p, instr.str) ELSE Pops(instr.op)

After(p, instr, height) ==
  IF instr.op = "CALL" THEN height - Arity(p, instr.str) + 1
                       ELSE height - Pops(instr.op) + Pushes(instr.op)

Balanced(p, name, b, i) ==
  LET instr == p.methods[name].blocks[b][i]
      h     == Heights(p)[name][b]
  IN
  /\ h[i] \in Nat
  /\ h[i] >= Needed(p, instr)
  /\ instr.op = "RET"  => h[i] = 1
  /\ instr.op = "STOP" => h[i] = 0 /\ name = p.main
  /\ instr.op \in {"JMP", "CJMP"}
       => EntryHeight(p, name, instr.str) = h[i] - Pops(instr.op)
  /\ instr.op \notin {"JMP", "RET", "STOP"} => h[i + 1] = After(p, instr, h[i])

Certified(p) ==
  /\ Arity(p, p.main) = 0
  /\ \A name \in DOMAIN p.methods : \A b \in DOMAIN p.methods[name].blocks :
       \A i \in 1 .. Len(p.methods[name].blocks[b]) : Balanced(p, name, b, i)

Verified(p) == WellFormed(p) /\ Certified(p)

(***************************************************************************)
(* A verified program never pops an empty stack, in any method at any      *)
(* depth of recursion, and has consumed every value it pushed when it      *)
(* stops (the std::runtime_error of VM::pop is unreachable, and arguments  *)
(* are never left behind or taken from a caller).                          *)
(***************************************************************************)
NoUnderflow ==
  (status = "empty stack" \/ (status = "stopped" /\ dataStack # <<>>))
    => ~Verified(program)
=============================================================================
