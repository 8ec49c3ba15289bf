------------------------------ MODULE Folding -------------------------------
(***************************************************************************)
(* What constant folding does to one instruction                           *)
(* (src/ir/passes/ConstantFoldingPass.cpp), given the environment: the     *)
(* variables whose value is known at that point, with their values.        *)
(***************************************************************************)
EXTENDS FlowGraph, Arithmetic

CONSTANT HalfInt    \* an int is in -HalfInt .. HalfInt-1; 2^31 in the code

\* The product of two ints fits in 64 bits.
ASSUME HalfIntAssumption == HalfInt \in Nat \ {0} /\ HalfWord >= 2 * HalfInt * HalfInt

Immediate == -HalfInt .. HalfInt - 1

NothingKnown == [x \in {} |-> 0]

Set(env, x, v)  == [y \in DOMAIN env \cup {x} |-> IF y = x THEN v ELSE env[y]]
Forget(env, x)  == [y \in DOMAIN env \ {x} |-> env[y]]

Known(env, operand)   == operand.imm \/ operand.name \in DOMAIN env
ValueOf(env, operand) == IF operand.imm THEN operand.num ELSE env[operand.name]

Substituted(env, operand) ==
  IF Known(env, operand) /\ ValueOf(env, operand) \in Immediate
  THEN Imm(ValueOf(env, operand)) ELSE operand

SubstituteConstants(env, t) ==
  [t EXCEPT !.lhs = IF t.op \in ReadsLhs THEN Substituted(env, @) ELSE @,
            !.rhs = IF t.op \in ReadsRhs THEN Substituted(env, @) ELSE @]

(***************************************************************************)
(* The value of an instruction whose operands are known, as the pass       *)
(* computes it, in 64 bits and with logical AND and OR.                    *)
(***************************************************************************)
FoldedValue(op, y, x) ==
  CASE op = "ADD" -> y + x
    [] op = "SUB" -> y - x
    [] op = "MUL" -> y * x
    [] op = "DIV" -> Quotient(y, x)
    [] op = "LT"  -> Bool(y < x)
    [] op = "GT"  -> Bool(y > x)
    [] op = "EQ"  -> Bool(y = x)
    [] op = "AND" -> Bool(y # 0 /\ x # 0)
    [] op = "OR"  -> Bool(y # 0 \/ x # 0)
    [] op = "NOT" -> Bool(x = 0)

Foldable(env, t) ==
  /\ t.op \in BinaryOps \cup {"NOT"}
  /\ t.op \in ReadsLhs => Known(env, t.lhs)
  /\ Known(env, t.rhs)
  /\ t.op = "DIV" => ValueOf(env, t.rhs) # 0
  /\ FoldedValue(t.op, ValueOf(env, t.lhs), ValueOf(env, t.rhs)) \in Immediate

\* What an instruction becomes: its operands replaced where they are known,
\* and a copy of its value where that is known and fits in an immediate.
Rewritten(env, t) ==
  LET s == SubstituteConstants(env, t) IN
  IF Foldable(env, s)
  THEN Copy(Imm(FoldedValue(s.op, ValueOf(env, s.lhs), ValueOf(env, s.rhs))), t.res)
  ELSE s

\* A slip: only the result of a call is forgotten.
KnownAfterAnyCall(env, t) ==
  IF t.op = "COPY" /\ Known(env, t.rhs) THEN Set(env, t.res, ValueOf(env, t.rhs))
  ELSE IF t.op \in Defines THEN Forget(env, t.res) ELSE env

(***************************************************************************)
(* What is known after the instruction an instruction became.  A call may  *)
(* change any field, so nothing is known after it.                         *)
(***************************************************************************)
KnownAfter(env, t) ==
  IF t.op = "CALL" THEN NothingKnown
  ELSE IF t.op = "COPY" /\ Known(env, t.rhs) THEN Set(env, t.res, ValueOf(env, t.rhs))
  ELSE IF t.op \in Defines THEN Forget(env, t.res) ELSE env
=============================================================================
