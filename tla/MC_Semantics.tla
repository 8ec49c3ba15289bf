---------------------------- MODULE MC_Semantics ----------------------------
(***************************************************************************)
(* Programs of a main class and two classes that use the same few names    *)
(* for fields, parameters, locals, methods and classes.  Lines only tell   *)
(* declarations and uses apart.                                            *)
(***************************************************************************)
EXTENDS SemanticProperties

A == <<"A">>
B == <<"B">>
m == <<"m">>
n == <<"n">>
x == <<"x">>
y == <<"y">>
int == <<"int">>
MCBuiltin == {int, <<"boolean">>, <<"int[]">>}

Var(line, type, id) == [kind |-> "variable", line |-> line, type |-> type, id |-> id]
Use(line, id)       == [kind |-> "use", line |-> line, id |-> id]

Method(line, id, params, items) ==
  [line |-> line, type |-> int, id |-> id, params |-> params, items |-> items]

Class(line, id, fields, methods) ==
  [line |-> line, id |-> id, fields |-> fields, methods |-> methods]

MainClass(id, items) == [line |-> 1, id |-> id, arg |-> <<"args">>, items |-> items]

Fields == {<<>>, <<Var(3, int, x)>>, <<Var(3, int, y), Var(4, B, y)>>}
Params == {<<>>, <<Var(6, int, y), Var(6, A, x)>>, <<Var(6, int, x), Var(6, int, x)>>}

\* "z" is declared nowhere; B and n are names of a class and of a method that
\* the second class may or may not have.
Item(line) ==
  {Var(line, int, x), Var(line, B, y)}
    \cup {Use(line, id) : id \in {x, y, B, n, <<"z">>}}

Seconds ==
  { Class(20, B, <<Var(21, A, x)>>,
      <<Method(22, m, <<>>, <<Use(23, x)>>), Method(24, n, <<Var(24, B, m)>>, <<Use(25, m)>>)>>),
    Class(20, B, <<>>, <<Method(22, m, <<>>, <<>>), Method(24, m, <<>>, <<>>)>>),
    Class(20, A, <<>>, <<>>),
    Class(20, <<"C">>, <<Var(21, <<"M">>, m)>>,
      <<Method(22, n, <<>>, <<Var(23, int, n), Use(24, n)>>)>>) }

MCPrograms ==
  { <<MainClass(<<"M">>, <<Use(2, A)>>),
      Class(2, A, fields, <<Method(5, m, params, items)>>), second>> :
    fields \in Fields, params \in Params, items \in Item(7) \X Item(8), second \in Seconds }

(***************************************************************************)
(* src/test_files/semantic_errors/DuplicateIdentifiers.java, its first two *)
(* classes, and the last class of InvalidDefinitions.java.                 *)
(***************************************************************************)
TestDuplicates ==
  { <<MainClass(<<"D">>, <<>>),
      Class(8, <<"D">>, <<Var(9, int, <<"a">>), Var(10, int, <<"a">>)>>,
            <<Method(12, <<"func">>, <<>>, <<>>), Method(16, <<"func">>, <<>>, <<>>)>>)>> }

TestDefinitions ==
  { <<MainClass(<<"D">>, <<>>),
      Class(83, <<"V">>, <<Var(84, int, <<"a">>)>>,
            <<Method(86, <<"b">>, <<Var(86, int, <<"b">>)>>,
                     <<Use(87, <<"a">>), Use(88, <<"b">>), Use(89, <<"c">>),
                       Var(90, int, <<"c">>), Use(92, <<"a">>)>>)>>)>> }
=============================================================================
