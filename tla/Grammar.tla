------------------------------ MODULE Grammar -------------------------------
(***************************************************************************)
(* The grammar of docs/grammar.g, and Earley's recognizer for it: the      *)
(* reference the parser is compared with.  A set of items stands for the   *)
(* ways a text read so far can be continued; the set is empty as soon as   *)
(* no continuation is a program.  The symbols are the lexer's token kinds  *)
(* and the names of the productions; a ( ... )* of the grammar is a        *)
(* production of its own.                                                  *)
(***************************************************************************)
EXTENDS Naturals, Sequences, FiniteSets

\* The minus sign is no prefix in docs/grammar.g, but is one in the tests.
Prefixes == {"Bang", "Minus"}

BinaryTokens == {"AndAnd", "OrOr", "Lt", "Gt", "EqEq", "Plus", "Minus", "Star", "Slash"}

Productions ==
  [Goal |-> {<<"MainClass", "Classes", "Eof">>},
   MainClass |->
     {<<"KwPublic", "KwClass", "Identifier", "LCurly", "KwPublic", "KwStatic", "KwVoid",
        "KwMain", "LParen", "KwString", "LSquare", "RSquare", "Identifier", "RParen",
        "LCurly", "Statement", "Statements", "RCurly", "RCurly">>},
   Classes |-> {<<>>, <<"ClassDeclaration", "Classes">>},
   ClassDeclaration |->
     {<<"KwClass", "Identifier", "LCurly", "VarDeclarations", "MethodDeclarations", "RCurly">>},
   VarDeclarations |-> {<<>>, <<"VarDeclaration", "VarDeclarations">>},
   MethodDeclarations |-> {<<>>, <<"MethodDeclaration", "MethodDeclarations">>},
   VarDeclaration |-> {<<"Type", "Identifier", "Semi">>},
   MethodDeclaration |->
     {<<"KwPublic", "Type", "Identifier", "LParen", "Parameters", "RParen", "LCurly",
        "Body", "KwReturn", "Expression", "Semi", "RCurly">>},
   Parameters |-> {<<>>, <<"Type", "Identifier", "MoreParameters">>},
   MoreParameters |-> {<<>>, <<"Comma", "Type", "Identifier", "MoreParameters">>},
   Body |-> {<<>>, <<"VarDeclaration", "Body">>, <<"Statement", "Body">>},
   Type |-> {<<"KwInt", "LSquare", "RSquare">>, <<"KwBoolean">>, <<"KwInt">>, <<"Identifier">>},
   Statements |-> {<<>>, <<"Statement", "Statements">>},
   Statement |->
     {<<"LCurly", "Statements", "RCurly">>,
      <<"KwIf", "LParen", "Expression", "RParen", "Statement">>,
      <<"KwIf", "LParen", "Expression", "RParen", "Statement", "KwElse", "Statement">>,
      <<"KwWhile", "LParen", "Expression", "RParen", "Statement">>,
      <<"KwPrintln", "LParen", "Expression", "RParen", "Semi">>,
      <<"Identifier", "Assign", "Expression", "Semi">>,
      <<"Identifier", "LSquare", "Expression", "RSquare", "Assign", "Expression", "Semi">>},
   Expression |->
     {<<"Expression", op, "Expression">> : op \in BinaryTokens} \cup
     {<<op, "Expression">> : op \in Prefixes} \cup
     {<<"Expression", "LSquare", "Expression", "RSquare">>,
      <<"Expression", "Dot", "KwLength">>,
      <<"Expression", "Dot", "Identifier", "LParen", "Arguments", "RParen">>,
      <<"IntLiteral">>, <<"KwTrue">>, <<"KwFalse">>, <<"Identifier">>, <<"KwThis">>,
      <<"KwNew", "KwInt", "LSquare", "Expression", "RSquare">>,
      <<"KwNew", "Identifier", "LParen", "RParen">>,
      <<"LParen", "Expression", "RParen">>},
   Arguments |-> {<<>>, <<"Expression", "MoreArguments">>},
   MoreArguments |-> {<<>>, <<"Comma", "Expression", "MoreArguments">>}]

\* A production for lhs, begun after "from" tokens, of which rest is to come.
Item(lhs, rest, from) == [lhs |-> lhs, rest |-> rest, from |-> from]

Advance(item) == [item EXCEPT !.rest = Tail(@)]
Expecting(items, symbol) == {item \in items : item.rest # <<>> /\ Head(item.rest) = symbol}

Nullable == {lhs \in DOMAIN Productions : <<>> \in Productions[lhs]}

\* What follows from one item of the set after n tokens: what the symbol it
\* expects may be made of, the item beyond that symbol if it may be empty, and
\* once the item is complete, those that expected it where it began.
Consequences(chart, n, item) ==
  IF item.rest = <<>>
  THEN IF item.from = n THEN {}
       ELSE {Advance(waiting) : waiting \in Expecting(chart[item.from + 1], item.lhs)}
  ELSE LET symbol == Head(item.rest) IN
       IF symbol \notin DOMAIN Productions THEN {}
       ELSE {Item(symbol, rhs, n) : rhs \in Productions[symbol]}
              \cup {it \in {Advance(item)} : symbol \in Nullable}

\* chart[i] has the items after i-1 tokens; the set for n tokens is added.
RECURSIVE Close(_, _, _, _)
Close(chart, n, items, fresh) ==
  LET next == (UNION {Consequences(chart, n, item) : item \in fresh}) \ items IN
  IF next = {} THEN Append(chart, items) ELSE Close(chart, n, items \cup next, next)

Chart0 == LET start == {Item("Goal", rhs, 0) : rhs \in Productions.Goal} IN
          Close(<<>>, 0, start, start)

\* The chart once one more token is read.
Extend(chart, kind) ==
  LET start == {Advance(item) : item \in Expecting(chart[Len(chart)], kind)} IN
  Close(chart, Len(chart), start, start)

\* Some program begins with the first n tokens; they are a program.
Viable(chart, n)  == chart[n + 1] # {}
IsProgram(chart)  == \E item \in chart[Len(chart)] : item.lhs = "Goal" /\ item.rest = <<>>
=============================================================================
