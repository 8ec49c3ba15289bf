----------------------------- MODULE MC_Parser ------------------------------
(***************************************************************************)
(* Texts: one program with every kind of declaration and statement, with   *)
(* one token too many, missing or wrong, at every position; expressions    *)
(* with operators of every strength; ifs with and without else; classes    *)
(* with their members in any order.                                        *)
(***************************************************************************)
EXTENDS ParserProperties

a == NameToken(<<"a">>)
b == NameToken(<<"b">>)
C == NameToken(<<"C">>)
one == NumberToken(1)
huge == NumberToken(9)

\* The tokens of these kinds; an identifier or a literal among them stands for itself.
Words(kinds) == [i \in DOMAIN kinds |-> Token(kinds[i])]
Only(tokens) == <<{tokens}>>
Maybe(tokens) == <<{<<>>, tokens}>>

Shell == Words(<<"KwPublic", "KwClass">>) \o <<C>> \o
         Words(<<"LCurly", "KwPublic", "KwStatic", "KwVoid", "KwMain", "LParen", "KwString",
                 "LSquare", "RSquare">>) \o <<a>> \o Words(<<"RParen", "LCurly">>)
EndMain == Words(<<"RCurly", "RCurly">>)

Println(tokens) == Words(<<"KwPrintln", "LParen">>) \o tokens \o Words(<<"RParen", "Semi">>)
Set(name, tokens) == <<name, Token("Assign")>> \o tokens \o <<Token("Semi")>>
Declare(type, name) == <<Token(type), name, Token("Semi")>>

-----------------------------------------------------------------------------
(***************************************************************************)
(* Expressions, in main.                                                   *)
(***************************************************************************)
InMain(pattern) == Only(Shell \o Words(<<"KwPrintln", "LParen">>)) \o pattern \o
                   Only(Words(<<"RParen", "Semi">>) \o EndMain)

Operator == {Words(<<kind>>) : kind \in {"OrOr", "AndAnd", "Lt", "Plus", "Star"}}
Prefix   == {<<>>, Words(<<"Bang">>), Words(<<"Minus">>)}

FourOperands ==
  <<Prefix, {<<a>>}, Operator, Prefix, {<<b>>}, Operator, {<<one>>},
    {Words(<<kind>>) : kind \in {"AndAnd", "EqEq", "Slash"}}, {<<C>>}>>

Sum == Words(<<"LParen">>) \o <<a, Token("Minus"), b>> \o Words(<<"RParen">>)
Primaries ==
  { <<Token("KwThis")>>, Sum, Sum \o Words(<<"Slash">>) \o Sum,
    <<Token("KwNew"), C>> \o Words(<<"LParen", "RParen">>),
    Words(<<"KwNew", "KwInt", "LSquare">>) \o Sum \o Words(<<"RSquare">>) }
Postfixes ==
  { Words(<<"LSquare">>) \o <<a, Token("OrOr"), b>> \o Words(<<"RSquare">>),
    Words(<<"Dot", "KwLength">>),
    <<Token("Dot"), b>> \o Words(<<"LParen", "RParen">>),
    <<Token("Dot"), b, Token("LParen"), a, Token("Comma"), one, Token("EqEq"), b>> \o
      Words(<<"RParen">>) }
Chains == <<Prefix, Primaries, Postfixes \cup {<<>>}, Postfixes, {<<Token("Gt"), huge>>, <<>>}>>

\* Any five tokens of an expression.
LooseKinds == {"LParen", "RParen", "LSquare", "RSquare", "Dot", "KwLength", "KwNew", "KwInt",
               "Minus", "Comma"}
LooseToken == {<<Token(kind)>> : kind \in LooseKinds} \cup {<<a>>}
LooseTokens == <<LooseToken, LooseToken, LooseToken, LooseToken, LooseToken>>

-----------------------------------------------------------------------------
(***************************************************************************)
(* Statements and declarations.                                            *)
(***************************************************************************)
If == Words(<<"KwIf", "LParen">>) \o <<b>> \o Words(<<"RParen">>)
Else == Maybe(Words(<<"KwElse">>) \o Set(b, <<one>>))
Loop == Words(<<"KwWhile", "LParen">>) \o <<b>> \o Words(<<"RParen">>)
Block == {Set(a, <<b>>), Words(<<"LCurly", "RCurly">>),
          <<Token("LCurly")>> \o If \o Set(a, <<a>>) \o <<Token("RCurly")>>}

Ifs == Only(Shell) \o Only(If) \o <<{If, Loop, Loop \o If, <<>>}, Block>> \o Else \o Else \o Else
         \o Only(EndMain)

Field  == {Declare("KwInt", a), <<C, b, Token("Semi")>>}
Array  == Words(<<"KwInt", "LSquare", "RSquare">>)
Answer == <<Token("KwReturn"), a>> \o Words(<<"Semi", "RCurly">>)
MethodStart == <<Token("KwPublic"), C, b, Token("LParen")>>
Parameters  == {<<>>, Array \o <<a>>, <<C, a, Token("Comma"), Token("KwBoolean"), b>>,
                <<C, a, Token("Comma")>>}
BodyItem == Field \cup {Set(a, <<b>>), <<>>, <<a>>,
                        <<a, Token("LSquare"), one>> \o Words(<<"RSquare">>) \o Tail(Set(a, <<b>>))}
Method == <<{MethodStart}, Parameters, {Words(<<"RParen", "LCurly">>)}, BodyItem, BodyItem,
            {Answer}>>

Member == Field \cup {<<>>, MethodStart \o Words(<<"RParen", "LCurly">>) \o Answer}
ClassStart == Only(<<Token("KwClass"), C, Token("LCurly")>>)

Main == Only(Shell \o Set(a, <<b>>) \o EndMain)
Members == Main \o ClassStart \o <<Member, Member, Member>> \o Only(Words(<<"RCurly">>))
             \o Maybe(Words(<<"KwClass">>) \o <<C>> \o Words(<<"LCurly", "RCurly">>))
Methods1 == Main \o ClassStart \o Method \o Only(Words(<<"RCurly">>))

-----------------------------------------------------------------------------
(***************************************************************************)
(* One token too many, missing or wrong.                                   *)
(***************************************************************************)
Seed ==
  Shell \o <<Token("LCurly")>> \o Set(a, Words(<<"KwTrue">>)) \o <<Token("RCurly")>>
    \o If \o Println(<<Token("Bang"), a>>) \o Words(<<"KwElse", "LCurly", "RCurly">>) \o EndMain
    \o <<Token("KwClass"), C, Token("LCurly")>> \o Declare("KwBoolean", b)
    \o MethodStart \o Array \o <<a>> \o Words(<<"RParen", "LCurly">>)
    \o <<C, a, Token("Semi")>> \o Loop \o <<a, Token("LSquare"), one>> \o Words(<<"RSquare">>)
    \o Tail(Set(a, <<b>> \o Words(<<"Dot", "KwLength">>)))
    \o Answer \o <<Token("RCurly")>>

AnyToken ==
  {Token(kind) : kind \in (AllKinds \cup {"Invalid"}) \ {"Identifier", "IntLiteral"}}
    \cup {b, one, huge}

\* A wrong token before or after a character that is no token.
TwoFaults == UNION {{<<t, Token("Invalid")>>, <<Token("Invalid"), t>>} : t \in {Token("Comma"), b}}

Edited(i) ==
  [k \in DOMAIN Seed |->
     IF k # i THEN {<<Seed[k]>>}
     ELSE {<<>>, <<Seed[k]>>} \cup {<<t>> : t \in AnyToken} \cup {<<t, Seed[k]>> : t \in AnyToken}
            \cup TwoFaults]

MCTexts ==
  {InMain(FourOperands), InMain(Chains), InMain(LooseTokens), Ifs, Members, Methods1}
    \cup {Edited(i) : i \in DOMAIN Seed}
=============================================================================
