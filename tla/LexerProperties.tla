-------------------------- MODULE LexerProperties --------------------------
(***************************************************************************)
(* The rules of docs/lexer_legacy_behavior.md, which the lexer replaces,   *)
(* read as a generator of lexers reads them: at every position the longest *)
(* match of any rule, and the first of those that match as much.           *)
(***************************************************************************)
EXTENDS Lexer

FixedWords == {Println} \cup ToSet(Doubled) \cup Keywords \cup {<<c>> : c \in Single}

\* All matches of a rule at the beginning of a text, as their lengths.
PrefixLengths(w, allowed(_)) == {n \in 1 .. Len(w) : allowed(SubSeq(w, 1, n))}

IsInteger(w) ==
  \/ w = <<"0">>
  \/ Head(w) \in Digit \ {"0"} /\ ToSet(w) \subseteq Digit
IsIdentifier(w) == Head(w) \in Alpha /\ ToSet(w) \subseteq IdentContinue
IsComment(w)    == Len(w) > 1 /\ SubSeq(w, 1, 2) = <<"/", "/">> /\ "\n" \notin ToSet(w)
IsBlank(w)      == Len(w) = 1 /\ w[1] \in Blank
IsAnyCharacter(w) == Len(w) = 1

\* The rules in their order, the last one for what no other rule matches.
Matches(w) ==
  << [kind |-> "Fixed",      lengths |-> PrefixLengths(w, LAMBDA p : p \in FixedWords)],
     [kind |-> "IntLiteral", lengths |-> PrefixLengths(w, IsInteger)],
     [kind |-> "Identifier", lengths |-> PrefixLengths(w, IsIdentifier)],
     [kind |-> "Ignored",    lengths |-> PrefixLengths(w, IsComment) \cup PrefixLengths(w, IsBlank)],
     [kind |-> "Invalid",    lengths |-> PrefixLengths(w, IsAnyCharacter)] >>

Longest(w) ==
  LET matches == Matches(w)
      length  == Max(UNION {matches[r].lengths : r \in DOMAIN matches})
      rule    == Min({r \in DOMAIN matches : length \in matches[r].lengths})
  IN  [kind |-> matches[rule].kind, length |-> length]

\* The tokens of a text from a position on.
RulesFrom(text, i) ==
  LET tokens[k \in i .. Len(text) + 1] ==
        IF k > Len(text) THEN <<Token("Eof", k, k)>>
        ELSE LET match == Longest(SubSeq(text, k, Len(text)))
                 rest  == tokens[k + match.length]
             IN  IF match.kind = "Ignored" THEN rest
                 ELSE <<Token(match.kind, k, k + match.length)>> \o rest
  IN  tokens[i]

\* What a client that asks for so many tokens is to get: the end again and again.
Expected(n) ==
  LET tokens == RulesFrom(source, 1) IN
  [k \in 1 .. n |-> IF k <= Len(tokens) THEN tokens[k] ELSE Last(tokens)]

-----------------------------------------------------------------------------
\* Type correctness: tokens lie in the source, one after the other.
TypeOK ==
  /\ index \in 1 .. Len(source) + 1
  /\ \A i \in DOMAIN la : la[i].begin <= la[i].end /\ la[i].end <= index
  /\ Len(la) <= MaxLookahead + 1
  /\ mark <= Len(diagnostics)

\* Whatever a client looks at, takes or iterates over, in whatever order, the
\* tokens it is handed and those pending for it are the longest matches of the
\* rules, in the order of the text, none lost and none handed out twice.
TokensAreLongestMatches == taken \o la = Expected(Len(taken) + Len(la))

\* A character that no rule matches is reported once, when the lexer comes to
\* it, however often and through whichever call a client comes to see it; and
\* with its line, which is one more than the ends of lines before it, those that
\* end a comment included.
ReportedOnce ==
  LET tokens  == RulesFrom(source, 1)
      line(i) == 1 + Cardinality({k \in 1 .. i - 1 : source[k] = "\n"})
      due(t)  == IF t.kind = "Invalid" /\ t.end <= index
                 THEN <<[at |-> t.begin, line |-> line(t.begin)]>> ELSE <<>>
  IN  SubSeq(diagnostics, mark + 1, Len(diagnostics)) =
        FlattenSeq([k \in DOMAIN tokens |-> due(tokens[k])])
=============================================================================
