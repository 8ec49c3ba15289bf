----------------------------- MODULE SharedStack ------------------------------
(***************************************************************************)
(* The machine's one data stack (VM::dataStack), divided among the         *)
(* activations that use it.  A history variable notes how much of it lies  *)
(* below each activation; the machine does not know, and pops what it      *)
(* finds.                                                                  *)
(***************************************************************************)
EXTENDS StackDiscipline

\* For each activation, the outermost first, how many values are not its own.
\* Of a program that is not verified no account is kept.
VARIABLE bottoms

sharedVars == <<vars, bottoms>>

Account ==
  bottoms' =
    IF bottoms = <<>> THEN <<>>
    ELSE IF Len(activations') > Len(activations)
      THEN Append(bottoms, Len(dataStack) - Arity(program, Instr.str))
    ELSE SubSeq(bottoms, 1, Len(activations') + 1)

SharedInit == Init /\ bottoms = IF Verified(program) THEN <<0>> ELSE <<>>
SharedNext == Next /\ Account
SharedSpec == SharedInit /\ [][SharedNext]_sharedVars

-----------------------------------------------------------------------------
Accounts == Len(bottoms)

\* The part of the stack that belongs to an activation.
PartOf(i) ==
  SubSeq(dataStack, bottoms[i] + 1, IF i = Accounts THEN Len(dataStack) ELSE bottoms[i + 1])

Parts == IF bottoms = <<>> THEN << <<>> >> ELSE [i \in 1 .. Accounts |-> PartOf(i)]

Separate == INSTANCE OwnStacks WITH stacks <- Parts

\* A verified program runs on the shared stack as if every activation had a
\* stack of its own: a method takes its receiver and its arguments and nothing
\* else, at its return it has used up all of it but for the result, and the
\* operands its callers have left on the stack meanwhile (the 1 of
\* 1 + this.m()) are as they were, at any depth of recursion.
OwnStackEach == Separate!Spec
=============================================================================
