----------------------------- MODULE MC_Delivery -----------------------------
(***************************************************************************)
(* Programs with a loop, a branch, an object and one or two methods, whose *)
(* blocks lie in the file in any order, that stop or end in a fault; the   *)
(* file of each is cut at every byte.  A word has two bytes of two bits,   *)
(* so that counts, lengths and numbers are cut in the middle too.          *)
(***************************************************************************)
EXTENDS Delivery, TLC

main == <<"M", "m">>
get  == <<"C", "g">>
put  == <<"C", "p">>
C == <<"C">>
x == <<"x">>
p == <<"p", "q">>
f == <<"f">>
loop == <<"b", "1">>
done == <<"b", "2", "c">>

Push(n)     == Const(n)
LoadOf(name) == WithText("LOAD", name)
StoreTo(name) == WithText("STORE", name)

Entry(callee) ==
  <<WithText("NEW", C), Push(2), WithText("CALL", callee), StoreTo(x), WithText("JMP", loop)>>

\* Counts x down to 0, printing it.
Loop ==
  <<LoadOf(x), WithText("CJMP", done), LoadOf(x), Plain("PRINT"),
    LoadOf(x), Push(-1), Plain("ADD"), StoreTo(x), WithText("JMP", loop)>>

\* How main ends: as it should, in an array that is none, or by a division.
Ends ==
  { <<Push(-7), Plain("PRINT"), Plain("STOP")>>,
    <<Push(5), Plain("PRINT"), Push(1), Push(0), Plain("ARRAY_LOAD"), Plain("STOP")>>,
    <<Push(5), LoadOf(x), Plain("DIV"), Plain("PRINT"), Plain("STOP")>> }

Block(name, code) == [name |-> name, code |-> code]

\* The blocks of main, which begins with the block of its name wherever it lies.
Main(callee, end, order) ==
  LET blocks == <<Block(main, Entry(callee)), Block(loop, Loop), Block(done, end)>> IN
  [name |-> main, variables |-> <<x>>, fields |-> <<This>>,
   blocks |-> [i \in 1 .. 3 |-> blocks[order[i]]]]

Get ==
  [name |-> get, variables |-> <<p>>, fields |-> <<This, f>>,
   blocks |-> <<Block(get, <<StoreTo(p), StoreTo(This), LoadOf(p), LoadOf(f), Plain("ADD"),
                             Plain("RET")>>)>>]
\* Stores its argument in the object, and calls the other method with it.
Put ==
  [name |-> put, variables |-> <<p>>, fields |-> <<This, f>>,
   blocks |-> <<Block(put, <<StoreTo(p), StoreTo(This), Push(1), StoreTo(f), LoadOf(f), Plain("PRINT"),
                             LoadOf(This), LoadOf(p), WithText("CALL", get), Plain("RET")>>)>>]

MCSources ==
  {<<Main(get, end, order), Get>> : end \in Ends, order \in {<<1, 2, 3>>, <<3, 2, 1>>}} \cup
  {<<Main(put, CHOOSE end \in Ends : TRUE, order)>> \o methods :
     order \in {<<2, 3, 1>>, <<1, 3, 2>>}, methods \in {<<Get, Put>>, <<Put, Get>>}} \cup
  {<<Main(get, CHOOSE end \in Ends : TRUE, <<1, 2, 3>>)>>}

Names == {<<>>, This, C, x, p, f, main, get, put, loop, done}

\* Names, whole, cut short or lost.
MCText ==
  Names \cup (UNION {{[i \in DOMAIN n |-> IF i <= k THEN n[i] ELSE Nul] : k \in 0 .. Len(n)} : n \in Names})
    \cup {[i \in 1 .. k |-> Nul] : k \in 0 .. 3}
MCPrograms == {AsProgram(s) : s \in MCSources}
=============================================================================
