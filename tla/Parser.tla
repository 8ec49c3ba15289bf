------------------------------- MODULE Parser -------------------------------
(***************************************************************************)
(* The recursive descent parser with its Pratt expressions                 *)
(* (src/src/parsing/Parser.cpp).  The call stack is an agenda of tasks,    *)
(* the next one first: a function to call, a token to expect, or a node to *)
(* make of the values its function has gathered.  Tokens are read when a   *)
(* function peeks at them, never earlier: what the lexer has reported by   *)
(* the time of a syntax error depends on it.  A text is a sequence of      *)
(* choices; each choice is a set of token strings and is made when the     *)
(* lexer gets there.                                                       *)
(***************************************************************************)
EXTENDS Ast

CONSTANTS
  Texts,    \* the texts to parse
  MaxInt    \* the largest number std::stoi converts to an int

VARIABLES
  ahead,     \* the choices the lexer has not come to
  read,      \* the tokens the lexer has delivered, Invalid ones included
  buffer,    \* Parser::buffer_, as positions in read
  agenda,    \* the tasks left, the next one first
  values,    \* the nodes built and not yet put into another one, the last last
  outcome,   \* "parsing", "parsed", "failed" or "aborted" (an exception of std::stoi)
  reports    \* what report_error sent to the sink

parserVars == <<ahead, read, buffer, agenda, values, outcome, reports>>

-----------------------------------------------------------------------------
(***************************************************************************)
(* Tokens and tasks.                                                       *)
(***************************************************************************)
Token(kind)    == [kind |-> kind, text |-> <<>>, num |-> 0]
NameToken(x)   == [kind |-> "Identifier", text |-> x, num |-> 0]
NumberToken(n) == [kind |-> "IntLiteral", text |-> <<>>, num |-> n]

Task(do, with, n) == [do |-> do, with |-> with, n |-> n]
Call(function)    == Task(function, "", 0)
Expression(minBp) == Task("expression", "", minBp)
Expect(kind)      == Task("expect", kind, 0)
Make(kind, n)     == Task("make", kind, n)

Empty(kind)    == Node(kind, <<>>, 0, <<>>)

StatementStarts == {"LCurly", "KwIf", "KwWhile", "KwPrintln", "Identifier"}
TypeStarts      == {"KwInt", "KwBoolean", "Identifier"}

\* infix_binding_power: how strongly an operator holds the operand on its
\* left and the one on its right, and the node it becomes.
Infix(op, left, right) == [op |-> op, left |-> left, right |-> right]
InfixTable(orRight, andRight) ==
  [OrOr  |-> Infix("OR", 1, orRight), AndAnd |-> Infix("AND", 2, andRight),
   Lt    |-> Infix("LT", 3, 4),  Gt     |-> Infix("GT", 3, 4), EqEq |-> Infix("EQ", 3, 4),
   Plus  |-> Infix("ADD", 4, 5), Minus  |-> Infix("SUB", 4, 5),
   Star  |-> Infix("MUL", 5, 6), Slash  |-> Infix("DIV", 5, 6)]

\* A slip: every binary operator is left associative, as in Java.
InfixesLeft == InfixTable(2, 3)

Infixes == InfixTable(1, 2)
PostfixLeft == [LSquare |-> 7, Dot |-> 8]
BangPower  == 4
MinusPower == 6

-----------------------------------------------------------------------------
(***************************************************************************)
(* The look-ahead.                                                         *)
(***************************************************************************)
First == read[Head(buffer)]

Doing(function) == outcome = "parsing" /\ agenda # <<>> /\ Head(agenda).do = function

\* A slip: the buffer is filled ahead of time.
LookaheadEager == IF Doing("make") THEN 0 ELSE 3

\* How many tokens the function in charge looks at: only a method body needs
\* two, to tell a declaration from an assignment.
Lookahead ==
  IF Doing("make") THEN 0
  ELSE IF Doing("method_body_item") /\ buffer # <<>> /\ First.kind = "Identifier"
  THEN 2 ELSE 1

Deliver(token, rest) ==
  /\ ahead' = rest
  /\ read' = Append(read, token)
  /\ buffer' = IF token.kind = "Invalid" THEN buffer ELSE Append(buffer, Len(read'))

Peek ==
  /\ outcome = "parsing" /\ agenda # <<>> /\ Len(buffer) < Lookahead
  /\ \/ ahead = <<>> /\ Deliver(Token("Eof"), <<>>)
     \/ /\ ahead # <<>>
        /\ \E text \in Head(ahead) :
             IF text = <<>>
             THEN ahead' = Tail(ahead) /\ UNCHANGED <<read, buffer>>
             ELSE Deliver(Head(text),
                    IF Len(text) = 1 THEN Tail(ahead) ELSE <<{Tail(text)}>> \o Tail(ahead))
  /\ UNCHANGED <<agenda, values, outcome, reports>>

Ready(function) == Doing(function) /\ Len(buffer) >= Lookahead

\* The function goes on with these tasks, having consumed the first token or not.
Go(tasks) ==
  /\ agenda' = tasks \o Tail(agenda)
  /\ UNCHANGED <<ahead, read, buffer, values, outcome, reports>>

Take(tasks) ==
  /\ buffer' = Tail(buffer)
  /\ agenda' = tasks \o Tail(agenda)
  /\ UNCHANGED <<ahead, read, values, outcome, reports>>

TakeAs(node, tasks) ==
  /\ buffer' = Tail(buffer)
  /\ agenda' = tasks \o Tail(agenda)
  /\ values' = Append(values, node)
  /\ UNCHANGED <<ahead, read, outcome, reports>>

\* match(kind), with what follows in either case.
Match(kind, tasks, otherwise) ==
  IF First.kind = kind THEN Take(tasks) ELSE Go(otherwise)

\* report_error, once; the error is then returned through every caller.  The
\* sink of main.cpp prints it unless the lexer has reported an error by now.
Fail(expecting) ==
  /\ agenda' = <<>>
  /\ outcome' = "failed"
  /\ reports' = IF reports # <<>> THEN reports
                ELSE <<[at |-> Head(buffer), expecting |-> expecting,
                        printed |-> \A i \in DOMAIN read : read[i].kind # "Invalid"]>>
  /\ UNCHANGED <<ahead, read, buffer, values>>

ExpectToken ==
  /\ Ready("expect")
  /\ IF First.kind = Head(agenda).with THEN Take(<<>>) ELSE Fail(Head(agenda).with)

ParseIdentifier ==
  /\ Ready("identifier")
  /\ IF First.kind = "Identifier" THEN TakeAs(Identifier(First.text), <<>>) ELSE Fail("Identifier")

\* A node of the last n values.  A method call without arguments has an empty
\* list of them.
Build(kind, kids) ==
  CASE kind = "CALL" -> CallNode(kids[1], kids[2].text, kids[3].kids)
    [] kind = "NEW"  -> NewNode(kids[1].text)
    [] kind \in {"Assign", "ArrayAssign"} -> Node(kind, kids[1].text, 0, Tail(kids))
    [] kind \in {"int", "int[]"} -> TypeName(<<kind>>)
    [] kind = "Append" -> List(Append(kids[1].kids, kids[2]))
    [] kind = "PushFront" -> List(<<kids[1]>> \o kids[2].kids)
    [] OTHER -> Node(kind, <<>>, 0, kids)

MakeNode ==
  /\ Doing("make")
  /\ LET kept == Len(values) - Head(agenda).n IN
     values' = Append(SubSeq(values, 1, kept),
                      Build(Head(agenda).with, SubSeq(values, kept + 1, Len(values))))
  /\ agenda' = Tail(agenda)
  /\ UNCHANGED <<ahead, read, buffer, outcome, reports>>

\* A list: a first element, and more while the next token is one of goesOn,
\* which is consumed when it separates elements.
ListOf(list, element, goesOn, separates) ==
  LET another == <<element, Make("Append", 2), Task("more", list, 0)>> IN
  \/ /\ Ready(list)
     /\ Go(<<Make("List", 0)>> \o another)
  \/ /\ Ready("more") /\ Head(agenda).with = list
     /\ IF First.kind \notin goesOn THEN Go(<<>>)
        ELSE IF separates THEN Take(another) ELSE Go(another)

-----------------------------------------------------------------------------
(***************************************************************************)
(* Declarations.                                                           *)
(***************************************************************************)
ParseGoal ==
  \/ Ready("goal") /\ Go(<<Call("main_class"), Call("goal_classes"), Expect("Eof")>>)
  \/ /\ Ready("goal_classes")
     /\ IF First.kind = "KwClass" THEN Go(<<Call("class_decl_list"), Make("PushFront", 2)>>)
        ELSE Go(<<>>)

ParseMainClass ==
  /\ Ready("main_class")
  /\ Go(<<Expect("KwPublic"), Expect("KwClass"), Call("identifier"), Expect("LCurly"),
          Expect("KwPublic"), Expect("KwStatic"), Expect("KwVoid"), Expect("KwMain"),
          Expect("LParen"), Expect("KwString"), Expect("LSquare"), Expect("RSquare"),
          Call("identifier"), Expect("RParen"), Expect("LCurly"), Call("statement_list"),
          Expect("RCurly"), Expect("RCurly"), Make("MainClass", 3)>>)

ParseClassDeclList == ListOf("class_decl_list", Call("class_decl"), {"KwClass"}, FALSE)

ParseClassDecl ==
  /\ Ready("class_decl")
  /\ Go(<<Expect("KwClass"), Call("identifier"), Call("class_body"), Make("Class", 2)>>)

\* A body with fields and methods is a node with both lists; otherwise it is
\* the list there is.
ParseClassBody ==
  \/ Ready("class_body") /\ Go(<<Expect("LCurly"), Call("members")>>)
  \/ /\ Ready("members")
     /\ \/ First.kind = "RCurly" /\ TakeAs(Empty("EmptyClassBody"), <<>>)
        \/ First.kind = "KwPublic" /\ Go(<<Call("method_decl_list"), Expect("RCurly")>>)
        \/ /\ First.kind \notin {"RCurly", "KwPublic"}
           /\ Go(<<Call("class_var_decl_list"), Call("methods")>>)
  \/ /\ Ready("methods")
     /\ IF First.kind = "KwPublic"
        THEN Go(<<Call("method_decl_list"), Expect("RCurly"), Make("ClassBody", 2)>>)
        ELSE Go(<<Expect("RCurly")>>)

ParseClassVarDeclList == ListOf("class_var_decl_list", Call("var_decl"), TypeStarts, FALSE)
ParseMethodDeclList   == ListOf("method_decl_list", Call("method_decl"), {"KwPublic"}, FALSE)

ParseVarDecl ==
  /\ Ready("var_decl")
  /\ Go(<<Call("type"), Call("identifier"), Expect("Semi"), Make("Variable", 2)>>)

MethodRest(kind, n) ==
  <<Expect("LCurly"), Call("method_body"), Expect("RCurly"), Make(kind, n)>>

ParseMethodDecl ==
  \/ /\ Ready("method_decl")
     /\ Go(<<Expect("KwPublic"), Call("type"), Call("identifier"), Expect("LParen"),
             Call("parameters")>>)
  \/ /\ Ready("parameters")
     /\ Match("RParen", MethodRest("MethodWithoutParameters", 3),
              <<Call("method_parameter_list"), Expect("RParen")>> \o MethodRest("Method", 4))

ParseMethodParameter ==
  /\ Ready("method_parameter")
  /\ Go(<<Call("type"), Call("identifier"), Make("Parameter", 2)>>)

ParseMethodParameterList ==
  ListOf("method_parameter_list", Call("method_parameter"), {"Comma"}, TRUE)

ParseMethodBody ==
  /\ Ready("method_body")
  /\ Match("KwReturn",
           <<Expression(0), Expect("Semi"), Make("ReturnOnlyBody", 1)>>,
           <<Call("method_body_item_list"), Expect("KwReturn"), Expression(0), Expect("Semi"),
             Make("MethodBody", 2)>>)

\* A slip: the second token is not looked at.
LooksLikeVarDeclShort == First.kind \in {"KwInt", "KwBoolean", "Identifier"}

LooksLikeVarDecl ==
  \/ First.kind \in {"KwInt", "KwBoolean"}
  \/ First.kind = "Identifier" /\ read[buffer[2]].kind = "Identifier"

ParseMethodBodyItem ==
  /\ Ready("method_body_item")
  /\ IF LooksLikeVarDecl THEN Go(<<Call("var_decl"), Make("VariableDeclaration", 1)>>)
     ELSE Go(<<Call("statement"), Make("Statement", 1)>>)

AllKinds ==
  StatementStarts \cup TypeStarts \cup DOMAIN Infixes \cup DOMAIN PostfixLeft \cup
  {"Eof", "IntLiteral", "KwPublic", "KwStatic", "KwVoid", "KwMain", "KwString", "KwElse",
   "KwLength", "KwTrue", "KwFalse", "KwThis", "KwNew", "KwReturn", "KwClass",
   "LParen", "RParen", "RCurly", "RSquare", "Semi", "Comma", "Assign", "Bang"}

ParseMethodBodyItemList ==
  ListOf("method_body_item_list", Call("method_body_item"), AllKinds \ {"KwReturn"}, FALSE)

-----------------------------------------------------------------------------
(***************************************************************************)
(* Statements and types.                                                   *)
(***************************************************************************)
Parenthesised == <<Expect("LParen"), Expression(0), Expect("RParen")>>

StatementTasks ==
  [LCurly    |-> <<Call("block")>>,
   KwIf      |-> Parenthesised \o <<Call("statement"), Call("else")>>,
   KwWhile   |-> Parenthesised \o <<Call("statement"), Make("While", 2)>>,
   KwPrintln |-> Parenthesised \o <<Expect("Semi"), Make("PRINT", 1)>>]

ParseStatement ==
  \/ /\ Ready("statement")
     /\ \/ First.kind \in DOMAIN StatementTasks /\ Take(StatementTasks[First.kind])
        \/ First.kind = "Identifier" /\ TakeAs(Identifier(First.text), <<Call("assignment")>>)
        \/ First.kind \notin StatementStarts /\ Fail("statement")
  \/ /\ Ready("block")
     /\ IF First.kind = "RCurly" THEN TakeAs(Empty("EmptyStatement"), <<>>)
        ELSE Go(<<Call("statement_list"), Expect("RCurly")>>)
  \/ /\ Ready("else")
     /\ Match("KwElse", <<Call("statement"), Make("IfElse", 3)>>, <<Make("If", 2)>>)
  \/ /\ Ready("assignment")
     /\ \/ /\ First.kind = "Assign"
           /\ Take(<<Expression(0), Expect("Semi"), Make("Assign", 2)>>)
        \/ /\ First.kind = "LSquare"
           /\ Take(<<Expression(0), Expect("RSquare"), Expect("Assign"), Expression(0),
                     Expect("Semi"), Make("ArrayAssign", 3)>>)
        \/ First.kind \notin {"Assign", "LSquare"} /\ Fail("Assign")

ParseStatementList  == ListOf("statement_list", Call("statement"), StatementStarts, FALSE)
ParseExpressionList == ListOf("expression_list", Expression(0), {"Comma"}, TRUE)

ParseType ==
  \/ /\ Ready("type")
     /\ \/ First.kind = "KwInt" /\ Take(<<Call("brackets")>>)
        \/ First.kind = "KwBoolean" /\ TakeAs(TypeName(<<"boolean">>), <<>>)
        \/ First.kind = "Identifier" /\ TakeAs(TypeName(First.text), <<>>)
        \/ First.kind \notin TypeStarts /\ Fail("type")
  \/ /\ Ready("brackets")
     /\ Match("LSquare", <<Expect("RSquare"), Make("int[]", 0)>>, <<Make("int", 0)>>)

-----------------------------------------------------------------------------
(***************************************************************************)
(* Expressions.  parse_expression(min_bp) reads an operand and then the    *)
(* operators that hold it at least as strongly as min_bp.                  *)
(***************************************************************************)
MinBp == Head(agenda).n
Operators(minBp) == Task("operators", "", minBp)

Leaf == [IntLiteral |-> Integer(First.num), Identifier |-> Identifier(First.text),
         KwTrue |-> True, KwFalse |-> False, KwThis |-> ThisNode]

\* The conversion of a literal may throw: nothing catches the exception.
Abort ==
  /\ outcome' = "aborted"
  /\ UNCHANGED <<ahead, read, buffer, agenda, values, reports>>

ParseOperand ==
  /\ Ready("expression")
  /\ \/ First.kind = "IntLiteral" /\ First.num > MaxInt /\ Abort
     \/ /\ First.kind \in DOMAIN Leaf
        /\ First.kind = "IntLiteral" => First.num <= MaxInt
        /\ TakeAs(Leaf[First.kind], <<Operators(MinBp)>>)
     \/ /\ First.kind = "LParen"
        /\ Take(<<Expression(0), Expect("RParen"), Operators(MinBp)>>)
     \/ /\ First.kind = "Bang"
        /\ Take(<<Expression(BangPower), Make("NOT", 1), Operators(MinBp)>>)
     \/ /\ First.kind = "Minus"
        /\ TakeAs(Integer(0), <<Expression(MinusPower), Make("SUB", 2), Operators(MinBp)>>)
     \/ First.kind = "KwNew" /\ Take(<<Call("allocation"), Operators(MinBp)>>)
     \/ /\ First.kind \notin DOMAIN Leaf \cup {"LParen", "Bang", "Minus", "KwNew"}
        /\ Fail("expression")

ParseAllocation ==
  /\ Ready("allocation")
  /\ Match("KwInt",
           <<Expect("LSquare"), Expression(0), Expect("RSquare"), Make("NEW_ARRAY", 1)>>,
           <<Call("identifier"), Expect("LParen"), Expect("RParen"), Make("NEW", 1)>>)

\* A slip: "continue" for "break".
LeaveLoopNever == Go(<<Operators(MinBp)>>)

LeaveLoop == Go(<<>>)

ParseOperators ==
  /\ Ready("operators")
  /\ \/ /\ First.kind \in DOMAIN Infixes
        /\ LET infix == Infixes[First.kind] IN
           /\ infix.left >= MinBp
           /\ Take(<<Expression(infix.right), Make(infix.op, 2), Operators(MinBp)>>)
     \/ /\ First.kind = "LSquare" /\ PostfixLeft["LSquare"] >= MinBp
        /\ Take(<<Expression(0), Expect("RSquare"), Make("ARRAY_LOAD", 2), Operators(MinBp)>>)
     \/ /\ First.kind = "Dot" /\ PostfixLeft["Dot"] >= MinBp
        /\ Take(<<Call("member"), Operators(MinBp)>>)
     \/ /\ First.kind \in DOMAIN Infixes => Infixes[First.kind].left < MinBp
        /\ First.kind \in DOMAIN PostfixLeft => PostfixLeft[First.kind] < MinBp
        /\ LeaveLoop

ParseMember ==
  \/ /\ Ready("member")
     /\ Match("KwLength", <<Make("ARRAY_LENGTH", 1)>>,
              <<Call("identifier"), Expect("LParen"), Call("arguments")>>)
  \/ /\ Ready("arguments")
     /\ Match("RParen", <<Make("List", 0), Make("CALL", 3)>>,
              <<Call("expression_list"), Expect("RParen"), Make("CALL", 3)>>)

-----------------------------------------------------------------------------
Finish ==
  /\ outcome = "parsing" /\ agenda = <<>>
  /\ outcome' = "parsed"
  /\ UNCHANGED <<ahead, read, buffer, agenda, values, reports>>

Init ==
  /\ ahead \in Texts
  /\ read = <<>>
  /\ buffer = <<>>
  /\ agenda = <<Call("goal")>>
  /\ values = <<>>
  /\ outcome = "parsing"
  /\ reports = <<>>

Declarations ==
  \/ ParseGoal \/ ParseMainClass \/ ParseClassDeclList \/ ParseClassDecl \/ ParseClassBody
  \/ ParseClassVarDeclList \/ ParseMethodDeclList \/ ParseVarDecl \/ ParseMethodDecl
  \/ ParseMethodParameter \/ ParseMethodParameterList \/ ParseMethodBody
  \/ ParseMethodBodyItem \/ ParseMethodBodyItemList
Statements  == ParseStatement \/ ParseStatementList \/ ParseType
Expressions ==
  \/ ParseOperand \/ ParseAllocation \/ ParseOperators \/ ParseMember \/ ParseExpressionList

Next ==
  \/ Peek \/ ExpectToken \/ ParseIdentifier \/ MakeNode \/ Finish
  \/ Declarations \/ Statements \/ Expressions

Done == outcome # "parsing" /\ UNCHANGED parserVars

ParserSpec == Init /\ [][Next]_parserVars

\* A text is refused with exactly one message on the error stream about what
\* comes first in it: the syntax error is printed if and only if no
\* unrecognized character lies before the offending token, wherever the
\* look-ahead has been.
FirstFaultPrinted ==
  outcome = "failed" =>
    /\ Len(reports) = 1
    /\ reports[1].printed <=> \A i \in 1 .. reports[1].at : read[i].kind # "Invalid"
=============================================================================
