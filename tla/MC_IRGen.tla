------------------------------ MODULE MC_IRGen ------------------------------
(***************************************************************************)
(* The generator on programs of a main method and a method C.m: conditions *)
(* and values of every kind under every statement, up to depth MaxDepth.   *)
(***************************************************************************)
EXTENDS IRGen

C == <<"C">>
x == <<"x">>
b == <<"b">>
a == <<"a">>
main == <<"M", "main">>
m    == <<"C", "m">>

X    == Identifier(x)
B    == Identifier(b)
Less == Op("LT", X, Integer(1))
Call(arguments) == CallNode(ThisNode, m, arguments)

Atoms    == {True, B, Less}
Circuits == {Op(op, p, q) : op \in ShortCircuit, p \in {B, Less}, q \in {False, Less}}
Deep     == {Op(op, p, q) : op \in ShortCircuit, p \in Circuits, q \in {B}}
\* The right operand holds another short circuit, bare or inside a call.
Nested   == {Op(op, B, q) : op \in ShortCircuit,
                q \in Circuits \cup {Op("EQ", p, True) : p \in Circuits}
                      \cup {Op("LT", Call(<<X, p>>), X) : p \in Circuits}}
Conditions == Atoms \cup {NotNode(p) : p \in Circuits} \cup Circuits \cup Deep \cup Nested

Numbers ==
  {Op(op, X, Op("MUL", X, Integer(2))) : op \in {"ADD", "DIV"}}
  \cup {Length(NewArrayNode(X)), Element(NewArrayNode(Integer(1)), X)}
  \cup {Call(<<Call(<<X, B>>), p>>) : p \in {Less} \cup Circuits}

Short == {Assign(x, Integer(1)), ArrayAssign(a, X, Op("ADD", X, X)),
          While(Less, Assign(x, X)), IfNode(B, PrintNode(X)),
          List(<<>>), IfElse(B, Assign(b, Op("AND", B, B)), PrintNode(X))}

Pool ==
  {PrintNode(n) : n \in Numbers} \cup {Assign(b, c) : c \in Conditions}
  \cup UNION {{IfNode(c, s), IfElse(c, s, Assign(b, c)), While(c, s)} :
                c \in Conditions, s \in Short}

Method(name, params, variables, body) ==
  [name |-> name, params |-> params, variables |-> variables, fields |-> {This}, body |-> body]

\* The body of main declares nothing; its scope holds its argument alone.
MainMethod(statements) == Method(main, <<>>, {<<"args">>}, List(statements))

MCSources ==
  {<<MainMethod(<<PrintNode(CallNode(NewNode(C), m, <<Integer(1), True>>))>>),
     Method(m, <<x, b>>, {x, b, a},
            List(<<s, IfElse(B, s, Assign(x, X)), Return(X)>>))>> : s \in Pool}

(***************************************************************************)
(* src/test_files/assignment3_valid/E.java: main prints                    *)
(*   true == (!true && false) || 10 > 1 && 1 < 10                          *)
(***************************************************************************)
TestE ==
  {<<MainMethod(<<PrintNode(Op("OR",
         Op("EQ", True, Op("AND", NotNode(True), False)),
         Op("AND", Op("GT", Integer(10), Integer(1)),
                   Op("LT", Integer(1), Integer(10)))))>>)>>}
=============================================================================
