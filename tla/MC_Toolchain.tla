---------------------------- MODULE MC_Toolchain ----------------------------
(***************************************************************************)
(* Programs of two classes, compiled and run: main prints what C.run       *)
(* returns, C.run performs two statements of a pool and prints what they   *)
(* may have changed, C.inc adds its argument to a field, C.sum is          *)
(* recursive, and D.use is given an object of C, which it calls back, and  *)
(* a number.  The statements are those on which the passes and the calling *)
(* convention can go wrong.                                                *)
(***************************************************************************)
EXTENDS Toolchain

Means == INSTANCE Meaning

C == <<"C">>
D == <<"D">>
x == <<"x">>
b == <<"b">>
a == <<"a">>
f == <<"f">>
g == <<"g">>
c == <<"c">>
main == <<"M", "main">>
run  == <<"C", "run">>
inc  == <<"C", "inc">>
sum  == <<"C", "sum">>
use  == <<"D", "use">>

X == Identifier(x)
B == Identifier(b)
F == Identifier(f)
G == Identifier(g)
A == Identifier(a)
I(n) == Integer(n)
Inc(e)    == CallNode(ThisNode, inc, <<e>>)
Sum(n, p) == CallNode(ThisNode, sum, <<n, p>>)
Use(e)    == CallNode(NewNode(D), use, <<ThisNode, e>>)
Small(e)  == Op("LT", e, I(2))

\* Statements of which some matter only for what comes after.
Setters ==
  { Assign(x, I(2)), Assign(x, Op("MUL", I(3), I(3))), Assign(f, I(1)),
    Assign(b, NotNode(B)), Assign(b, Op("EQ", X, I(0))), Assign(x, Inc(Inc(I(1)))),
    Assign(a, NewArrayNode(I(2))), ArrayAssign(a, I(1), Op("ADD", X, I(2))),
    IfElse(True, Assign(x, I(3)), Assign(x, I(2))), IfNode(False, Assign(x, I(1))),
    IfElse(Op("AND", True, Op("EQ", I(1), I(2))), Assign(x, Inc(I(1))), Assign(f, X)),
    IfNode(Op("OR", B, Small(F)), Assign(f, Op("ADD", F, I(2)))),
    Assign(x, Use(I(1))), While(False, Assign(x, I(3))), List(<<>>) }

\* Statements that depend on what came before.
Users ==
  { Assign(x, Op("SUB", I(1), X)), Assign(x, Op("DIV", I(1), X)), Assign(x, F),
    Assign(b, Small(X)), Assign(x, Inc(X)), Assign(x, Element(A, I(1))),
    Assign(x, Length(A)), ArrayAssign(a, X, Inc(I(1))),
    Assign(b, Op("AND", B, Small(Inc(I(1))))), Assign(b, Op("OR", Small(Inc(I(1))), B)),
    Assign(x, Sum(I(2), Op("AND", B, Small(X)))), Assign(x, Sum(X, NotNode(B))),
    Assign(x, Use(Use(F))), Assign(b, Op("OR", Small(Use(X)), Small(Inc(I(1))))),
    IfElse(B, Assign(x, I(1)), Assign(x, I(2))), IfNode(Op("GT", X, I(1)), Assign(b, True)),
    While(Small(F), Assign(f, Op("ADD", F, I(1)))), While(Small(X), Assign(x, Inc(I(1)))),
    While(Op("AND", Small(X), NotNode(B)), Assign(x, Op("ADD", X, I(1)))) }

FieldsIn(class) == IF class = C THEN {f} ELSE IF class = D THEN {g} ELSE {}

Method(name, params, variables, body) ==
  [name |-> name, params |-> params, variables |-> variables,
   fields |-> {This} \cup FieldsIn(ClassOf(name)), body |-> body]

RunBody(s, t) ==
  List(<<Assign(a, NewArrayNode(I(3))), s, t, PrintNode(X), PrintNode(F),
         Return(Element(A, I(1)))>>)

MCSources ==
  { << Method(main, <<>>, {<<"args">>}, List(<<PrintNode(CallNode(NewNode(C), run, <<>>))>>)),
       Method(run, <<>>, {x, b, a}, RunBody(s, t)),
       Method(inc, <<x>>, {x}, List(<<Assign(f, Op("ADD", F, X)), Return(F)>>)),
       Method(sum, <<x, b>>, {x, b},
              List(<<IfElse(Op("OR", Op("LT", X, I(1)), B), Assign(x, I(0)),
                       Assign(x, Op("ADD", I(1), Sum(Op("SUB", X, I(1)), B)))),
                     Return(X)>>)),
       Method(use, <<c, x>>, {c, x},
              List(<<Assign(g, CallNode(Identifier(c), inc, <<X>>)),
                     Assign(x, CallNode(Identifier(c), inc, <<G>>)),
                     Return(Op("SUB", X, G))>>)) >> : s \in Setters \cup Users, t \in Users }

MCHeights(p) == Machine!HeightsOf(p)

Reference == Means!Meaning(source)

\* A compiled and optimised program prints exactly what its source means, and
\* ends the way its source does.
PrintsItsMeaning ==
  phase = "run" /\ status # "running" /\ OutsideShortCircuits =>
    /\ output = Reference.out
    /\ status = IF Reference.err = "" THEN "stopped" ELSE Reference.err

\* Every one of these programs is compiled and its run comes to an end.
EventuallyEnds == <>(phase = "run" /\ status # "running")
=============================================================================
