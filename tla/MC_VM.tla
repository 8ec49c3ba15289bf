------------------------------- MODULE MC_VM --------------------------------
(***************************************************************************)
(* The machine on every short program over a small instruction set,        *)
(* well-formed or not: main is a prologue that leaves something to work    *)
(* on, followed by every sequence of one or two instructions, and it may   *)
(* jump to other blocks or call one of a few versions of a method of C.    *)
(* And recursive programs, which keep operands of their own on the stack   *)
(* while others run.                                                       *)
(***************************************************************************)
EXTENDS Certificates, SharedStack, TLC

C     == <<"C">>
D     == <<"D">>
x     == <<"x">>
f     == <<"f">>
main  == <<"M", "main">>
m     == <<"C", "m">>
other == <<"C", "n">>
exit  == <<"block", 1>>
end   == <<"block", 2>>
lost  == <<"block", 3>>

MCText == {<<>>, This, C, D, x, f, main, m, other, exit, end, lost}

\* What a program may do next.
Instructions ==
  {Plain(op) : op \in NoArgOps} \cup {Const(n) : n \in {-4, -1, 0}}
  \cup {WithText("LOAD", n) : n \in {x, f}}
  \cup {WithText("STORE", x), WithText("NEW", C)}
  \cup {WithText("JMP", b) : b \in {exit, lost}}
  \cup {WithText("CJMP", b) : b \in {exit, end}}
  \cup {WithText("CALL", c) : c \in {m, other, main}}

Prologues ==
  { <<>>,
    <<Const(3), Const(-4)>>,
    <<Const(2), Plain("NEW_ARRAY"), Const(1), Const(3)>>,
    <<Const(2), Plain("NEW_ARRAY"), Const(-1)>>,
    <<WithText("NEW", C)>>,
    <<WithText("NEW", D)>> }

MainCodes ==
  { prologue \o suffix \o <<Plain("STOP")>> : prologue \in Prologues,
      suffix \in {<<i>> : i \in Instructions}
                 \cup {<<i, j>> : i, j \in Instructions} }
  \cup { prologue : prologue \in Prologues }

\* Bodies of C.m: store to a field, read it, read before "this" is set, write
\* "this" with something that is no object.
CalleeCodes ==
  { <<WithText("STORE", This), Const(2), WithText("STORE", f),
      WithText("LOAD", f), Plain("RET")>>,
    <<WithText("STORE", This), WithText("LOAD", This), WithText("LOAD", f),
      Plain("RET")>>,
    <<WithText("STORE", f), Plain("RET")>> }

Body(locals, fields, blocks) ==
  [locals |-> locals, fields |-> fields, blocks |-> blocks]

\* C.m(x) with operands left below a call of itself, and arguments that are calls.
SelfCall == <<WithText("LOAD", x), Const(-1), Plain("ADD"), WithText("LOAD", This),
              WithText("CALL", m)>>
Recursions ==
  { <<Const(2)>> \o SelfCall \o <<Plain("ADD")>>,
    <<Const(2), WithText("LOAD", x)>> \o SelfCall \o <<Plain("MUL"), Plain("SUB")>>,
    SelfCall \o SelfCall \o <<Plain("SUB")>>,
    <<WithText("LOAD", x)>> \o SelfCall \o <<Plain("DIV")>> }

RecursiveMethod(code) ==
  (m :> (<<WithText("STORE", This), WithText("STORE", x), WithText("LOAD", x),
           WithText("CJMP", end)>> \o code \o <<WithText("JMP", exit)>>))
  @@ (exit :> <<Plain("RET")>>)
  @@ (end :> <<WithText("LOAD", f), Plain("RET")>>)

RecursiveMain(n) ==
  <<Const(1), Const(n), WithText("NEW", C), WithText("CALL", m), Plain("SUB"), Plain("PRINT"),
    Plain("STOP")>>

\* Class D has no methods, so its objects start without any field.
MCPrograms ==
  { [main |-> main, methods |->
      (main :> Body({x}, {This},
                    (main :> code) @@ (exit :> <<Plain("PRINT"), Plain("STOP")>>)
                      @@ (end :> <<Plain("STOP")>>))
       @@ m :> Body({}, {This, f}, m :> callee))] :
    code \in MainCodes, callee \in CalleeCodes }
  \cup
  { [main |-> main, methods |->
      (main :> Body({x}, {This}, main :> RecursiveMain(n))
       @@ m :> Body({x}, {This, f}, RecursiveMethod(code)))] :
    code \in Recursions, n \in {0, 3} }

MCHeights(p) == HeightsOf(p)
=============================================================================
