------------------------------ MODULE OwnStacks -------------------------------
(***************************************************************************)
(* What a compiler counts on when it evaluates expressions on a stack:     *)
(* every activation has an operand stack of its own.  A call moves the     *)
(* arguments to a new stack, a return moves the one value that is left to  *)
(* the caller's, and nothing else reaches the stack of another activation. *)
(***************************************************************************)
EXTENDS Naturals, Sequences

VARIABLE stacks    \* a stack for every activation, that of the running one last

Running == Len(stacks)

Begin == stacks = << <<>> >>

\* The activations below this one keep their operands.
Undisturbed(i) == \A k \in 1 .. i - 1 : stacks'[k] = stacks[k]

Work ==
  /\ Len(stacks') = Running
  /\ Undisturbed(Running)

Call ==
  /\ Len(stacks') = Running + 1
  /\ Undisturbed(Running)
  /\ stacks[Running] = stacks'[Running] \o stacks'[Running + 1]

Return ==
  /\ Running > 1 /\ Len(stacks[Running]) = 1
  /\ Len(stacks') = Running - 1
  /\ Undisturbed(Running - 1)
  /\ stacks'[Running - 1] = stacks[Running - 1] \o stacks[Running]

Next == Work \/ Call \/ Return

Spec == Begin /\ [][Next]_stacks
=============================================================================
