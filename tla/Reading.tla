------------------------------ MODULE Reading -------------------------------
(***************************************************************************)
(* How a program is to be read: the tree of a text that is known to be a   *)
(* program, found by cutting the text at its brackets, semicolons and      *)
(* operators instead of by descending.  || binds less than &&, then the    *)
(* comparisons, + and -, * and /, a minus sign, and what follows an        *)
(* operand; operators of one strength group from the left, but || and &&   *)
(* from the right; and "!" extends over the arithmetic that follows it.    *)
(***************************************************************************)
EXTENDS Ast, FiniteSets, FiniteSetsExt

Openers == {"LParen", "LCurly", "LSquare"}
Closers == {"RParen", "RCurly", "RSquare"}

\* A text is a sequence of tokens.
Part(w, from, to) == SubSeq(w, from, to)

Opened(w, i) ==
  Cardinality({k \in 1 .. i : w[k].kind \in Openers}) -
  Cardinality({k \in 1 .. i : w[k].kind \in Closers})

\* The bracket that closes the one at i, and the one that opens it.
Closing(w, i) == Min({k \in i + 1 .. Len(w) : w[k].kind \in Closers /\ Opened(w, k) = Opened(w, i) - 1})
Opening(w, i) == Max({k \in 1 .. i - 1 : w[k].kind \in Openers /\ Opened(w, k) = Opened(w, i) + 1})

Outside(w) == {i \in 1 .. Len(w) : Opened(w, i) = 0 /\ w[i].kind \notin Closers}

\* The parts between the separators outside brackets.
RECURSIVE Pieces(_, _)
Pieces(w, separator) ==
  LET cuts == {i \in Outside(w) : w[i].kind = separator} IN
  IF cuts = {} THEN <<w>>
  ELSE <<Part(w, 1, Min(cuts) - 1)>> \o Pieces(Part(w, Min(cuts) + 1, Len(w)), separator)

-----------------------------------------------------------------------------
Strength ==
  [OrOr |-> 1, AndAnd |-> 2, Lt |-> 3, Gt |-> 3, EqEq |-> 3,
   Plus |-> 4, Minus |-> 4, Star |-> 5, Slash |-> 5]
Opcode ==
  [OrOr |-> "OR", AndAnd |-> "AND", Lt |-> "LT", Gt |-> "GT", EqEq |-> "EQ",
   Plus |-> "ADD", Minus |-> "SUB", Star |-> "MUL", Slash |-> "DIV"]

EndsOperand == {"IntLiteral", "Identifier", "KwTrue", "KwFalse", "KwThis", "KwLength",
                "RParen", "RSquare"}
BinaryAt(w) == {i \in Outside(w) \ {1} : w[i].kind \in DOMAIN Strength /\ w[i-1].kind \in EndsOperand}

\* The operator belongs to the operand of a "!" before it.
Negated(w, i) ==
  \E bang \in Outside(w) :
    /\ w[bang].kind = "Bang" /\ bang < i
    /\ \A k \in BinaryAt(w) : k \in bang .. i => Strength[w[k].kind] >= 4

RECURSIVE Tree(_)
Arguments(w) == IF w = <<>> THEN <<>> ELSE LET p == Pieces(w, "Comma") IN [i \in DOMAIN p |-> Tree(p[i])]

Tree(w) ==
  LET n    == Len(w)
      free == {i \in BinaryAt(w) : ~Negated(w, i)}
      level == Min({Strength[w[i].kind] : i \in free})
      loosest == {i \in free : Strength[w[i].kind] = level}
      top  == IF level <= 2 THEN Min(loosest) ELSE Max(loosest)
      open == Opening(w, n)
  IN
  CASE free # {} -> Op(Opcode[w[top].kind], Tree(Part(w, 1, top - 1)), Tree(Part(w, top + 1, n)))
    [] free = {} /\ w[1].kind = "Bang"  -> NotNode(Tree(Tail(w)))
    [] free = {} /\ w[1].kind = "Minus" -> Op("SUB", Integer(0), Tree(Tail(w)))
    [] free = {} /\ w[1].kind \notin {"Bang", "Minus"} ->
       CASE w[n].kind = "IntLiteral" -> Integer(w[n].num)
         [] w[n].kind = "Identifier" -> Identifier(w[n].text)
         [] w[n].kind = "KwTrue"     -> True
         [] w[n].kind = "KwFalse"    -> False
         [] w[n].kind = "KwThis"     -> ThisNode
         [] w[n].kind = "KwLength"   -> Length(Tree(Part(w, 1, n - 2)))
         [] w[n].kind = "RSquare" ->
            LET inside == Tree(Part(w, open + 1, n - 1)) IN
            IF open = 3 /\ w[1].kind = "KwNew" THEN NewArrayNode(inside)
            ELSE Element(Tree(Part(w, 1, open - 1)), inside)
         [] w[n].kind = "RParen" ->
            IF open = 1 THEN Tree(Part(w, 2, n - 1))
            ELSE IF open = 3 /\ w[1].kind = "KwNew" THEN NewNode(w[2].text)
            ELSE CallNode(Tree(Part(w, 1, open - 3)), w[open - 1].text,
                          Arguments(Part(w, open + 1, n - 1)))

-----------------------------------------------------------------------------
TypeOf(w) == CASE w[1].kind = "KwBoolean" -> <<"boolean">>
               [] w[1].kind = "Identifier" -> w[1].text
               [] w[1].kind = "KwInt" -> IF Len(w) = 1 THEN <<"int">> ELSE <<"int[]">>

\* A type and a name.
Declaration(kind, w) == Declared(kind, TypeOf(Part(w, 1, Len(w) - 1)), w[Len(w)].text)

\* Where the statement that begins at i ends.  An "else" belongs to the
\* nearest "if" that has none.
RECURSIVE End(_, _)
End(w, i) ==
  CASE w[i].kind = "LCurly" -> Closing(w, i)
    [] w[i].kind = "KwWhile" -> End(w, Closing(w, i + 1) + 1)
    [] w[i].kind = "KwIf" ->
       LET then == End(w, Closing(w, i + 1) + 1) IN
       IF then < Len(w) /\ w[then + 1].kind = "KwElse" THEN End(w, then + 2) ELSE then
    [] OTHER -> Min({k \in i .. Len(w) : w[k].kind = "Semi"})

RECURSIVE StatementTree(_)
RECURSIVE StatementTrees(_)
StatementTrees(w) ==
  IF w = <<>> THEN <<>>
  ELSE <<StatementTree(Part(w, 1, End(w, 1)))>> \o StatementTrees(Part(w, End(w, 1) + 1, Len(w)))

StatementTree(w) ==
  LET n    == Len(w)
      cond == Tree(Part(w, 3, Closing(w, 2) - 1))
      body == Closing(w, 2) + 1
      then == End(w, body)
  IN
  CASE w[1].kind = "LCurly" -> IF n = 2 THEN Node("EmptyStatement", <<>>, 0, <<>>)
                               ELSE List(StatementTrees(Part(w, 2, n - 1)))
    [] w[1].kind = "KwPrintln" -> PrintNode(cond)
    [] w[1].kind = "KwWhile" -> While(cond, StatementTree(Part(w, body, n)))
    [] w[1].kind = "KwIf" ->
       IF then = n THEN IfNode(cond, StatementTree(Part(w, body, n)))
       ELSE IfElse(cond, StatementTree(Part(w, body, then)), StatementTree(Part(w, then + 2, n)))
    [] w[1].kind = "Identifier" ->
       IF w[2].kind = "Assign" THEN Assign(w[1].text, Tree(Part(w, 3, n - 1)))
       ELSE ArrayAssign(w[1].text, cond, Tree(Part(w, body + 1, n - 1)))

\* The items of a method body: a declaration begins with two words.
IsDeclaration(w) == w[1].kind \in {"KwInt", "KwBoolean"} \/ w[2].kind = "Identifier"
RECURSIVE Items(_)
Items(w) ==
  IF w = <<>> THEN <<>>
  ELSE LET end == End(w, 1)
           one == Part(w, 1, end)
       IN  <<IF IsDeclaration(one)
             THEN Node("VariableDeclaration", <<>>, 0, <<Declaration("Variable", Part(w, 1, end - 1))>>)
             ELSE Node("Statement", <<>>, 0, <<StatementTree(one)>>)>>
             \o Items(Part(w, end + 1, Len(w)))

BodyTree(w) ==
  LET return == Max({i \in Outside(w) : w[i].kind = "KwReturn"})
      value  == Tree(Part(w, return + 1, Len(w) - 1))
  IN  IF return = 1 THEN Node("ReturnOnlyBody", <<>>, 0, <<value>>)
      ELSE Node("MethodBody", <<>>, 0, <<List(Items(Part(w, 1, return - 1))), value>>)

\* From the type of the method to the bracket that closes it.
MethodTree(w) ==
  LET open   == Min({i \in DOMAIN w : w[i].kind = "LParen"})
      close  == Closing(w, open)
      header == Declaration("Method", Part(w, 1, open - 1)).kids
      body   == BodyTree(Part(w, close + 2, Len(w) - 1))
      parts  == Pieces(Part(w, open + 1, close - 1), "Comma")
  IN  IF close = open + 1 THEN Node("MethodWithoutParameters", <<>>, 0, header \o <<body>>)
      ELSE Node("Method", <<>>, 0,
             header \o <<List([i \in DOMAIN parts |-> Declaration("Parameter", parts[i])]), body>>)

RECURSIVE Fields(_)
RECURSIVE Methods(_)
Fields(w) ==
  IF w = <<>> THEN <<>>
  ELSE LET semi == End(w, 1) IN
       <<Declaration("Variable", Part(w, 1, semi - 1))>> \o Fields(Part(w, semi + 1, Len(w)))
Methods(w) ==
  IF w = <<>> THEN <<>>
  ELSE LET close == Closing(w, Min({i \in DOMAIN w : w[i].kind = "LCurly"})) IN
       <<MethodTree(Part(w, 2, close))>> \o Methods(Part(w, close + 1, Len(w)))

\* "class" identifier { ... }.
ClassTree(w) ==
  LET inside  == Part(w, 4, Len(w) - 1)
      first   == Min({i \in Outside(inside) : inside[i].kind = "KwPublic"} \cup {Len(inside) + 1})
      fields  == List(Fields(Part(inside, 1, first - 1)))
      methods == List(Methods(Part(inside, first, Len(inside))))
  IN  Node("Class", <<>>, 0,
        <<Identifier(w[2].text),
          CASE inside = <<>> -> Node("EmptyClassBody", <<>>, 0, <<>>)
            [] inside # <<>> /\ methods.kids = <<>> -> fields
            [] inside # <<>> /\ fields.kids = <<>>  -> methods
            [] OTHER -> Node("ClassBody", <<>>, 0, <<fields, methods>>)>>)

RECURSIVE ClassTrees(_)
ClassTrees(w) ==
  IF w = <<>> THEN <<>>
  ELSE <<ClassTree(Part(w, 1, Closing(w, 3)))>> \o ClassTrees(Part(w, Closing(w, 3) + 1, Len(w)))

\* public class C { public static void main ( String [ ] arg ) { ... } } ...
ProgramTree(w) ==
  LET end  == Closing(w, 4)
      main == Node("MainClass", <<>>, 0,
                <<Identifier(w[3].text), Identifier(w[13].text),
                  List(StatementTrees(Part(w, 16, end - 2)))>>)
  IN  IF end = Len(w) THEN main ELSE List(<<main>> \o ClassTrees(Part(w, end + 1, Len(w))))
=============================================================================
