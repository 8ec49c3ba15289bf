---------------------------- MODULE MC_TypeCheck ----------------------------
(***************************************************************************)
(* Programs: a class A with fields, a method with parameters and locals,   *)
(* and one without, and a main that calls it.  One expression or statement *)
(* varies, over names of every meaning; or one declared type does.         *)
(***************************************************************************)
EXTENDS TypeProperties

A == <<"A">>
B == <<"B">>
Z == <<"Z">>    \* no class
i == <<"i">>
m == <<"m">>
k == <<"k">>

one  == Integer(1)
Name(x) == Identifier(<<x>>)
u    == Name("u")    \* no declaration
newA == NewNode(A)

Local(type, x)     == Node("VariableDeclaration", <<>>, 0, <<Declared("Variable", type, <<x>>)>>)
Do(statement)      == Node("Statement", <<>>, 0, <<statement>>)
Field(type, x)     == Declared("Variable", type, <<x>>)
Parameter(type, x) == Declared("Parameter", type, <<x>>)

MainClass(statements) ==
  Node("MainClass", <<>>, 0, <<Name("M"), Name("a"), List(statements)>>)
Class(name, fields, methods) ==
  Node("Class", <<>>, 0, <<Identifier(name), Node("ClassBody", <<>>, 0, <<List(fields), List(methods)>>)>>)

Getter(type, e) ==
  Node("MethodWithoutParameters", <<>>, 0,
       <<TypeName(type), Identifier(k), Node("ReturnOnlyBody", <<>>, 0, <<e>>)>>)

\* Everything that varies, with the program in which all is well.
Usual ==
  [main |-> PrintNode(Op("ADD", CallNode(newA, m, <<one, newA>>), one)),
   field |-> A, local |-> ArrayType, parameter |-> A, method |-> IntType,
   do |-> Assign(i, Name("p")), return |-> Name("i"), k |-> Getter(IntType, Name("i"))]

Program(v) ==
  LET method ==
        Node("Method", <<>>, 0,
             <<TypeName(v.method), Identifier(m),
               List(<<Parameter(IntType, "p"), Parameter(v.parameter, "q")>>),
               Node("MethodBody", <<>>, 0,
                    <<List(<<Local(BooleanType, "bo"), Local(v.local, "ar"), Do(v.do)>>), v.return>>)>>)
  IN  List(<<MainClass(<<v.main>>),
             Class(A, <<Field(IntType, "i"), Field(v.field, "next")>>, <<method, v.k>>),
             Class(B, <<Field(IntType, "i")>>, <<Getter(BooleanType, True)>>)>>)

-----------------------------------------------------------------------------
\* The class method a name meets before main's, and names of every other kind.
Leaves == {one, True, ThisNode, Name("p"), Name("q"), Name("bo"), Name("ar"), u, Name("A"),
           Name("k"), NewNode(B), NewNode(Z)}
Few    == {one, True, Name("ar"), u}

Unary(pool)  == {NotNode(e) : e \in pool} \cup {Length(e) : e \in pool} \cup {NewArrayNode(e) : e \in pool}
Binary(ops, pool, others) == {Op(op, e, f) : op \in ops, e \in pool, f \in others}
Calls ==
  {CallNode(e, x, <<>>) : e \in Leaves, x \in {k, m, <<"main">>}} \cup
  {CallNode(e, x, <<f>>) : e \in {newA, u}, x \in {k, m}, f \in Few} \cup
  {CallNode(e, m, <<f, g>>) : e \in {ThisNode, one, u}, f \in Few, g \in Few \cup {Name("q"), newA}} \cup
  {CallNode(ThisNode, x, <<f, newA, g>>) : x \in {k, m, <<"none">>}, f \in Few, g \in Few}

Simple == Leaves \cup Unary(Leaves) \cup Calls
            \cup Binary({"SUB", "OR", "GT", "EQ", "ARRAY_LOAD"}, Leaves, Leaves)
Nested ==
  LET inner == Binary({"ADD", "EQ", "AND"}, Few, Few) \cup {CallNode(Name("q"), k, <<>>)} IN
         Unary(inner) \cup Binary({"MUL", "DIV", "LT", "EQ"}, inner, {one, True})

StatementPool ==
  {Assign(<<x>>, e) : x \in {"i", "p", "bo", "ar", "q", "next", "u", "A", "k"}, e \in Leaves}
    \cup {ArrayAssign(<<x>>, e, f) : x \in {"ar", "i", "u"}, e \in Few, f \in Few}
    \cup {IfElse(e, PrintNode(f), While(g, Node("EmptyStatement", <<>>, 0, <<>>))) :
            e \in Few, f \in {one, u}, g \in {True, one, u}}
    \cup {IfNode(Name("bo"), List(<<Assign(i, e), PrintNode(f)>>)) : e \in Few, f \in {one, u}}

InMain ==
  {PrintNode(e) : e \in Leaves \cup {Name("a"), Length(Name("a")), Name("main"), CallNode(Name("main"), k, <<>>)}}
    \cup {PrintNode(NotNode(CallNode(newA, m, <<one, newA>>))),
          PrintNode(CallNode(CallNode(newA, k, <<>>), k, <<>>)), Assign(<<"a">>, Name("a"))}

TypePool == {IntType, BooleanType, ArrayType, A, B, Z}

Variants ==
  {[Usual EXCEPT !.do = PrintNode(e)] : e \in Simple \cup Nested}
    \cup {[Usual EXCEPT !.do = s] : s \in StatementPool}
    \cup {[Usual EXCEPT !.main = s] : s \in InMain}
    \cup {[Usual EXCEPT !.method = t, !.return = e] : t \in TypePool, e \in Leaves}
    \cup {[Usual EXCEPT !.return = u, !.do = PrintNode(e)] : e \in Few}
    \cup {[Usual EXCEPT !.field = t, !.local = s, !.do = Assign(<<"next">>, Name("ar"))] :
            t \in TypePool, s \in TypePool}
    \cup {[Usual EXCEPT !.parameter = t, !.do = s, !.main = p] :
            t \in TypePool, s \in {Assign(<<"next">>, Name("q")), PrintNode(CallNode(Name("q"), k, <<>>))},
            p \in {Usual.main, PrintNode(CallNode(newA, m, <<one, NewNode(B)>>))}}
    \cup {[Usual EXCEPT !.k = Getter(t, e)] : t \in TypePool, e \in {one, True, newA, u}}

MCPrograms ==
  {Program(v) : v \in Variants} \cup
  {MainClass(<<s>>) : s \in InMain} \cup
  {List(<<MainClass(<<PrintNode(CallNode(newA, k, <<>>))>>), Node("Class", <<>>, 0, <<Identifier(A), body>>)>>) :
     body \in {List(<<Getter(IntType, one)>>), List(<<Field(Z, "i")>>),
               Node("EmptyClassBody", <<>>, 0, <<>>)}}
=============================================================================
