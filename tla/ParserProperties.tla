-------------------------- MODULE ParserProperties --------------------------
(***************************************************************************)
(* What the parser owes the grammar.  A recognizer of the grammar reads    *)
(* the same tokens, step by step with the parser.                          *)
(***************************************************************************)
EXTENDS Parser, Grammar, Reading

VARIABLE chart    \* the recognizer's sets of items, one per valid token read

vars == <<parserVars, chart>>

Valid(tokens) == SelectSeq(tokens, LAMBDA token : token.kind # "Invalid")

Follow ==
  chart' = IF Len(Valid(read')) = Len(Valid(read)) THEN chart
           ELSE Extend(chart, read'[Len(read')].kind)

CInit == Init /\ chart = Chart0
CNext == (Next /\ Follow) \/ (Done /\ UNCHANGED chart)
CSpec == CInit /\ [][CNext]_vars /\ WF_vars(CNext)

-----------------------------------------------------------------------------
Outcomes == {"parsing", "parsed", "failed", "aborted"}

\* Type correctness: what has been read is known to the recognizer, what is
\* buffered has been read, and only a running parser has tasks left, or one
\* that an exception has cut short.
TypeOK ==
  /\ outcome \in Outcomes
  /\ \A i \in DOMAIN read : read[i].kind \in AllKinds \cup {"Invalid"}
  /\ Len(buffer) <= 2 /\ \A i \in DOMAIN buffer : buffer[i] \in DOMAIN read
  /\ Len(chart) = Len(Valid(read)) + 1
  /\ outcome \in {"parsed", "failed"} => agenda = <<>>
  /\ \A i \in DOMAIN reports : reports[i].at \in DOMAIN read

\* How many valid tokens lie before a position.
Before(position) == Len(Valid(SubSeq(read, 1, position - 1)))

\* The parser accepts exactly the programs of the grammar, and refuses any
\* other text at the first token with which no program goes on, not earlier
\* and not later: every token consumed so far is the beginning of a program.
\* Choosing a function on one token (two in a method body) is therefore never
\* wrong.  A literal that is too large is the one program text it does not
\* answer for.
AgreesWithGrammar ==
  LET consumed == Len(chart) - 1 - Len(buffer) IN
  /\ outcome = "parsing" => Viable(chart, consumed)
  /\ outcome = "parsed"  => IsProgram(chart)
  /\ outcome = "failed"  => /\ Viable(chart, Before(reports[1].at))
                            /\ ~Viable(chart, Before(reports[1].at) + 1)
  /\ outcome = "aborted" => Viable(chart, consumed + 1) /\ First.num > MaxInt

\* The tree is the one the text is to be read as (module Reading): strengths
\* and sides of the operators, what "!" and "-" extend over, the "if" an
\* "else" belongs to, declarations told from statements.
TreeIsReading ==
  outcome = "parsed" =>
    LET text == Valid(read) IN values = <<ProgramTree(SubSeq(text, 1, Len(text) - 1))>>

\* Whatever the text, the parser comes to an end: no loop over a list goes on
\* without consuming a token, at the end of the text least of all.
Terminates == <>(outcome # "parsing")
=============================================================================
