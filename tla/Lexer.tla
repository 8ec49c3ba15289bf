-------------------------------- MODULE Lexer --------------------------------
(***************************************************************************)
(* The lexer (src/src/lexing/Lexer.cpp) over its character stream          *)
(* (StringViewStream.cpp), for clients that take tokens, look ahead at     *)
(* them, iterate over them, or start over with another source.  The kind   *)
(* of a keyword, an operator or a bracket is named by its text, so that    *)
(* such a token is "Fixed" and only its text matters.                      *)
(***************************************************************************)
EXTENDS SequencesExt, FiniteSetsExt, Integers

CONSTANTS
  Sources,       \* the texts to lex first, sequences of characters
  Others,        \* the texts a client goes on with
  Println,       \* the letters of System.out.println, a word with dots in it
  Keywords,      \* the other keywords
  MaxLookahead,  \* clients look no further ahead than this
  MaxTaken,      \* clients take no more tokens than this from one source,
  MaxDiagnostics \* and go on with another one only after fewer messages than this

VARIABLES
  source,       \* the text, and what the stream reads
  index,        \* StringViewStream::index_: the next character, counted from 1
  la,           \* Lexer::la_, the tokens lexed and not yet handed out
  iterator,     \* Lexer::iterator, or NoIterator
  diagnostics,  \* what the sink was sent: the character each is about, and its line
  taken,        \* the tokens handed out since the last reset
  mark          \* how many diagnostics there were by then

vars == <<source, index, la, iterator, diagnostics, taken, mark>>

Lower == {"a", "b", "c", "d", "e", "f", "g", "h", "i", "j", "k", "l", "m",
          "n", "o", "p", "q", "r", "s", "t", "u", "v", "w", "x", "y", "z"}
Upper == {"A", "B", "C", "D", "E", "F", "G", "H", "I", "J", "K", "L", "M",
          "N", "O", "P", "Q", "R", "S", "T", "U", "V", "W", "X", "Y", "Z"}
Alpha == Lower \cup Upper
Digit == {"0", "1", "2", "3", "4", "5", "6", "7", "8", "9"}
Blank == {" ", "\t", "\n"}
IdentContinue == Alpha \cup Digit \cup {"_"}

Doubled == << <<"&", "&">>, <<"|", "|">>, <<"=", "=">> >>
Single  == {"+", "-", "*", "/", "(", ")", "{", "}", "[", "]", ";", "<", ">", "!", ".", "=", ","}

\* Texts are sequences of characters; a keyword is a word, and begins like one;
\* System.out.println begins like a word and goes on with what no word has.
ASSUME LexerAssumption ==
  /\ Sources \cup Others \subseteq Seq(STRING)
  /\ Println \in Seq(STRING) /\ Println # <<>>
  /\ Println[1] \in Alpha /\ ~ToSet(Println) \subseteq IdentContinue
  /\ \A w \in Keywords : w \in Seq(IdentContinue) /\ w # <<>> /\ w[1] \in Alpha
  /\ MaxLookahead \in Nat

-----------------------------------------------------------------------------
(***************************************************************************)
(* The stream.                                                             *)
(***************************************************************************)
StartsWith(text, i, word) ==
  /\ i + Len(word) - 1 <= Len(text)
  /\ SubSeq(text, i, i + Len(word) - 1) = word

\* The first position from i on that does not hold one of these characters.
RunEnd(text, i, chars) == Min({k \in i .. Len(text) + 1 : k > Len(text) \/ text[k] \notin chars})
LineEnd(text, i)       == Min({k \in i .. Len(text) + 1 : k > Len(text) \/ text[k] = "\n"})

\* A slip: a comment takes the end of its line with it, uncounted.
LineCountedOutsideComments(text, position) ==
  [line |-> 1 + Cardinality({i \in 1 .. position - 1 :
      /\ text[i] = "\n"
      /\ ~\E k \in 1 .. i : StartsWith(text, k, <<"/", "/">>) /\ LineEnd(text, k) = i}),
   column |-> 1]

\* Line and column once get() has been called up to a position.
LocationAt(text, position) ==
  LET location[i \in 1 .. position] ==
        IF i = 1 THEN [line |-> 1, column |-> 1]
        ELSE LET before == location[i - 1] IN
             IF text[i - 1] = "\n" THEN [line |-> before.line + 1, column |-> 1]
             ELSE [before EXCEPT !.column = @ + 1]
  IN  location[position]

SkipTrivia(text, from) ==
  LET skip[i \in from .. Len(text) + 1] ==
        IF i <= Len(text) /\ text[i] \in Blank THEN skip[i + 1]
        ELSE IF StartsWith(text, i, <<"/", "/">>) THEN skip[LineEnd(text, i)]
        ELSE i
  IN  skip[from]

-----------------------------------------------------------------------------
(***************************************************************************)
(* One token.                                                              *)
(***************************************************************************)
Token(kind, begin, end) == [kind |-> kind, begin |-> begin, end |-> end]

\* The kind and the end of the token that begins at i.
Recognize(text, i, spelled) ==
  LET word == RunEnd(text, i, IdentContinue) IN
  IF i > Len(text) THEN Token("Eof", i, i)
  ELSE IF spelled # {} THEN Token("Fixed", i, i + Len(CHOOSE w \in spelled : TRUE))
  ELSE IF text[i] \in Single THEN Token("Fixed", i, i + 1)
  ELSE IF text[i] = "0" THEN Token("IntLiteral", i, i + 1)
  ELSE IF text[i] \in Digit THEN Token("IntLiteral", i, RunEnd(text, i, Digit))
  ELSE IF text[i] \in Alpha
       THEN Token(IF SubSeq(text, i, word - 1) \in Keywords THEN "Fixed" ELSE "Identifier", i, word)
  ELSE Token("Invalid", i, i + 1)

SpelledAt(text, i, words) == {w \in words : StartsWith(text, i, w)}

\* A slip: keywords are recognized like System.out.println, whatever follows.
KeywordsByPrefix(text, i) ==
  Recognize(text, i, SpelledAt(text, i, {Println} \cup ToSet(Doubled) \cup Keywords))

TokenAt(text, i) == Recognize(text, i, SpelledAt(text, i, {Println} \cup ToSet(Doubled)))

\* lex_one_, n times: the tokens from a position on.
LexFrom(text, i, n) ==
  LET tokens[k \in 0 .. n] ==
        IF k = 0 THEN <<>>
        ELSE LET from == IF k = 1 THEN i ELSE Last(tokens[k - 1]).end IN
             Append(tokens[k - 1], TokenAt(text, SkipTrivia(text, from)))
  IN  tokens[n]

\* The message about a token, if it is an unrecognized character.
Message(text, token) ==
  IF token.kind # "Invalid" THEN <<>>
  ELSE <<[at |-> token.begin, line |-> LocationAt(text, token.begin).line]>>

Messages(text, tokens) == FlattenSeq([i \in DOMAIN tokens |-> Message(text, tokens[i])])

\* Lexes n tokens, and reports the unrecognized characters among them.
Lex(n) ==
  LET tokens == LexFrom(source, index, n) IN
  /\ index' = IF n = 0 THEN index ELSE Last(tokens).end
  /\ diagnostics' = diagnostics \o Messages(source, tokens)

-----------------------------------------------------------------------------
(***************************************************************************)
(* What clients call.                                                      *)
(***************************************************************************)
\* A slip: what has been looked at is passed over.
TakeUnseen ==
  /\ taken' = taken \o LexFrom(source, index, 1)
  /\ Lex(1)
  /\ UNCHANGED la

\* next(): the first token looked at, or the next of the stream if there is none.
Take ==
  LET missing == IF la = <<>> THEN 1 ELSE 0
      pending == la \o LexFrom(source, index, missing)
  IN
  /\ taken' = Append(taken, Head(pending))
  /\ la' = Tail(pending)
  /\ Lex(missing)

NextToken ==
  /\ Len(taken) < MaxTaken
  /\ Take
  /\ UNCHANGED <<source, iterator, mark>>

\* A slip: one token more than is looked at.
MissingAndOne(n) == IF n + 1 >= Len(la) THEN n + 2 - Len(la) ELSE 0

\* How many tokens fill_lookahead_(n) has to lex.
Missing(n) == IF n >= Len(la) THEN n + 1 - Len(la) ELSE 0

\* peek(n), and eof(), which is peek(0).
Peek(n) ==
  /\ la' = la \o LexFrom(source, index, Missing(n))
  /\ Lex(Missing(n))
  /\ UNCHANGED <<source, iterator, taken, mark>>

Reset ==
  /\ Len(diagnostics) < MaxDiagnostics
  /\ source' \in Others
  /\ index' = 1
  /\ la' = <<>>
  /\ taken' = <<>>
  /\ mark' = Len(diagnostics)
  /\ UNCHANGED <<iterator, diagnostics>>

NoIterator == [current |-> Token("Invalid", 0, 0), atEnd |-> TRUE]

\* An iterator takes a token when it is made and whenever it advances, until
\* the one it has is the end of the source.
LoadIterator ==
  /\ Len(taken) < MaxTaken
  /\ Take
  /\ iterator' = [current |-> Last(taken'), atEnd |-> Last(taken').kind = "Eof"]
  /\ UNCHANGED <<source, mark>>

BeginIterator   == LoadIterator
AdvanceIterator == ~iterator.atEnd /\ LoadIterator

-----------------------------------------------------------------------------
Init ==
  /\ source \in Sources
  /\ index = 1
  /\ la = <<>>
  /\ iterator = NoIterator
  /\ diagnostics = <<>>
  /\ taken = <<>>
  /\ mark = 0

Next ==
  \/ NextToken
  \/ \E n \in 0 .. MaxLookahead : Peek(n)
  \/ Reset
  \/ BeginIterator
  \/ AdvanceIterator

Spec == Init /\ [][Next]_vars
=============================================================================
