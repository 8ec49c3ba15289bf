------------------------------ MODULE Bytecode ------------------------------
(***************************************************************************)
(* The bytecode language shared by the code generator and the virtual      *)
(* machine: texts (the strings of a bytecode file), opcodes, instructions, *)
(* methods and programs.                                                   *)
(*                                                                         *)
(* A text is a tuple, so that texts of different kinds stay comparable:    *)
(*   <<"x">>           a source identifier or a class name                 *)
(*   <<"_t", 3>>       the temporary "_t3"                                 *)
(*   <<"block", 3>>    the label "block_3"                                 *)
(*   <<"Foo", "run">>  the method "Foo.run" and the label of its first     *)
(*                     block                                               *)
(***************************************************************************)
EXTENDS Integers, Sequences

This == <<"this">>

\* The class of a method name: the part before the dot, or a name of one part.
ClassOf(method) == IF Len(method) <= 1 THEN method ELSE SubSeq(method, 1, 1)

BinaryOps  == {"ADD", "SUB", "MUL", "DIV", "LT", "GT", "EQ", "AND", "OR"}
NoArgOps   == BinaryOps \cup
              {"NOT", "RET", "PRINT", "STOP", "NEW_ARRAY", "ARRAY_LOAD",
               "ARRAY_STORE", "ARRAY_LENGTH"}
StringOps  == {"LOAD", "STORE", "JMP", "CJMP", "CALL", "NEW"}
Opcodes    == NoArgOps \cup StringOps \cup {"CONST"}

TwoOperands == BinaryOps \cup {"ARRAY_LOAD"}
OneOperand  == {"CJMP", "PRINT", "NEW_ARRAY", "ARRAY_LENGTH", "NOT", "STORE"}

\* How many values an opcode pops before it does anything else.
Pops(op) ==
  IF op = "ARRAY_STORE" THEN 3
  ELSE IF op \in TwoOperands THEN 2
  ELSE IF op \in OneOperand THEN 1 ELSE 0

\* The three shapes of an instruction {op, argNumber, argString}.
Plain(op)         == [op |-> op, num |-> 0, str |-> <<>>]
WithText(op, str) == [op |-> op, num |-> 0, str |-> str]
Const(num)        == [op |-> "CONST", num |-> num, str |-> <<>>]
=============================================================================
