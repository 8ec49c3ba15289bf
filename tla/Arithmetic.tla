----------------------------- MODULE Arithmetic -----------------------------
(***************************************************************************)
(* The arithmetic of the virtual machine: 64-bit values, of which the      *)
(* model keeps the width as a parameter.                                   *)
(***************************************************************************)
EXTENDS Integers

CONSTANT HalfWord   \* a Value is in -HalfWord .. HalfWord-1; 2^63 in the code

ASSUME HalfWordAssumption == HalfWord \in Nat \ {0, 1}

Value == -HalfWord .. HalfWord - 1

(***************************************************************************)
(* Signed overflow is undefined in C++; the build passes no optimisation   *)
(* flag, and the compiled add, sub and mul wrap around.                    *)
(***************************************************************************)
Wrap(v) == ((v + HalfWord) % (2 * HalfWord)) - HalfWord

Abs(v) == IF v < 0 THEN -v ELSE v

\* C++ division truncates towards zero.
Quotient(y, x) ==
  LET q == Abs(y) \div Abs(x) IN IF (y < 0) = (x < 0) THEN q ELSE -q

\* idiv raises SIGFPE for these operands.
Traps(y, x) == x = 0 \/ (y = -HalfWord /\ x = -1)

Bool(b) == IF b THEN 1 ELSE 0

\* y was pushed before x.
Compute(op, y, x) ==
  CASE op = "ADD" -> Wrap(y + x)
    [] op = "SUB" -> Wrap(y - x)
    [] op = "MUL" -> Wrap(y * x)
    [] op = "DIV" -> Wrap(Quotient(y, x))
    [] op = "LT"  -> Bool(y < x)
    [] op = "GT"  -> Bool(y > x)
    [] op = "EQ"  -> Bool(y = x)
    [] op = "AND" -> Bool(Wrap(y * x) # 0)
    [] op = "OR"  -> Bool(Wrap(y + x) # 0)
=============================================================================
