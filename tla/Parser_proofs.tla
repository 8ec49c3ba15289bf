--------------------------- MODULE Parser_proofs ----------------------------
(***************************************************************************)
(* Proof, for every set of texts, that the parser prints a syntax error    *)
(* exactly when nothing was reported before it.  What makes it hard is the *)
(* look-ahead: an unrecognized character that lies after the offending     *)
(* token must not have been met, although the parser may have looked past  *)
(* the token.                                                              *)
(***************************************************************************)
EXTENDS Parser, SequenceTheorems, TLAPS

\* A sequence, of anything.
IsSeq(s) == s \in Seq({s[i] : i \in DOMAIN s})

TypeInv ==
  /\ IsSeq(read)
  /\ buffer \in Seq(1 .. Len(read))
  /\ IsSeq(agenda)

\* The functions that run while two tokens are buffered.
Deciders == {"method_body_item", "var_decl", "type", "statement"}

\* The last token buffered is the last one read, but for a method body between
\* its two looks; and two tokens are buffered only from there to where the
\* first of them, an identifier, is consumed.
BufferInv ==
  outcome = "parsing" =>
    /\ Len(buffer) \in 0 .. 2
    /\ Len(buffer) = 1 => \/ buffer[1] = Len(read)
                          \/ Doing("method_body_item") /\ First.kind = "Identifier"
    /\ Len(buffer) = 2 => /\ buffer[2] = Len(read)
                          /\ First.kind = "Identifier"
                          /\ agenda # <<>> /\ Head(agenda).do \in Deciders

ReportInv == outcome = "parsing" => reports = <<>>

ParserInv == TypeInv /\ BufferInv /\ ReportInv /\ FirstFaultPrinted

-----------------------------------------------------------------------------
(***************************************************************************)
(* Sequences.                                                              *)
(***************************************************************************)
LEMMA SeqIsSeq ==
  ASSUME NEW S, NEW s \in Seq(S)
  PROVE  IsSeq(s)
BY LenProperties, SeqDef DEF IsSeq

LEMMA SeqType ==
  ASSUME NEW s, IsSeq(s)
  PROVE  Len(s) \in Nat /\ DOMAIN s = 1 .. Len(s)
BY LenProperties DEF IsSeq

\* A sequence with a non-empty one before it begins with that one's head.
LEMMA Concat ==
  ASSUME NEW s, NEW t, IsSeq(s), IsSeq(t)
  PROVE  /\ IsSeq(s \o t)
         /\ s # <<>> => s \o t # <<>> /\ Head(s \o t) = Head(s)
<1> DEFINE S == {s[i] : i \in DOMAIN s} \cup {t[i] : i \in DOMAIN t}
<1>1. s \in Seq(S) /\ t \in Seq(S)
  BY SeqMonotonic DEF IsSeq
<1>2. IsSeq(s \o t)
  BY <1>1, ConcatProperties, SeqIsSeq
<1>3. s # <<>> => s \o t # <<>> /\ Head(s \o t) = Head(s)
  BY <1>1
<1> QED
  BY <1>2, <1>3

LEMMA TailSeq ==
  ASSUME NEW s, IsSeq(s), s # <<>>
  PROVE  IsSeq(Tail(s))
<1> DEFINE S == {s[i] : i \in DOMAIN s}
<1>1. s \in Seq(S)
  BY DEF IsSeq
<1> HIDE DEF S
<1>2. Tail(s) \in Seq(S)
  BY <1>1, HeadTailProperties
<1> QED
  BY <1>2, SeqIsSeq

LEMMA AppendSeq ==
  ASSUME NEW s, NEW e, IsSeq(s)
  PROVE  /\ IsSeq(Append(s, e))
         /\ Len(Append(s, e)) = Len(s) + 1
         /\ \A i \in 1 .. Len(s) : Append(s, e)[i] = s[i]
<1> DEFINE S == {s[i] : i \in DOMAIN s} \cup {e}
<1>1. s \in Seq(S) /\ e \in S
  BY SeqMonotonic DEF IsSeq
<1> HIDE DEF S
<1>2. /\ Append(s, e) \in Seq(S)
      /\ Len(Append(s, e)) = Len(s) + 1
      /\ \A i \in 1 .. Len(s) : Append(s, e)[i] = s[i]
  BY <1>1, AppendProperties
<1> QED
  BY <1>2, SeqIsSeq

\* A sequence that has a length other than 0 has a head.
LEMMA NotEmpty ==
  ASSUME NEW s, Len(s) # 0
  PROVE  s # <<>>
<1>1. Len(<<>>) = 0
  BY EmptySeq
<1> QED
  BY <1>1

-----------------------------------------------------------------------------
(***************************************************************************)
(* What a function that runs can rely on.                                  *)
(***************************************************************************)
LEMMA WhenReady ==
  ASSUME ParserInv, NEW f, Ready(f), f # "make"
  PROVE  /\ outcome = "parsing" /\ agenda # <<>> /\ Head(agenda).do = f
         /\ buffer # <<>> /\ Len(buffer) \in {1, 2}
         /\ Len(buffer) = 1 => buffer[1] = Len(read)
         /\ Len(buffer) = 2 => buffer[2] = Len(read) /\ First.kind = "Identifier" /\ f \in Deciders
<1>1. Doing(f) /\ Len(buffer) >= Lookahead
  BY DEF Ready
<1>2. outcome = "parsing" /\ agenda # <<>> /\ Head(agenda).do = f /\ ~Doing("make")
  BY <1>1 DEF Doing
<1>3. Lookahead \in {1, 2}
  BY <1>2 DEF Lookahead
<1>4. Len(buffer) \in {1, 2}
  BY <1>1, <1>2, <1>3 DEF ParserInv, BufferInv
<1>5. buffer # <<>>
  BY <1>4, NotEmpty
<1>6. Len(buffer) = 1 => buffer[1] = Len(read)
  <2> SUFFICES ASSUME Len(buffer) = 1, buffer[1] # Len(read)  PROVE FALSE
    OBVIOUS
  <2>1. Doing("method_body_item") /\ First.kind = "Identifier"
    BY <1>2 DEF ParserInv, BufferInv
  <2>2. Lookahead = 2
    BY <1>2, <1>5, <2>1 DEF Lookahead
  <2> QED  BY <1>1, <2>2
<1> QED
  BY <1>2, <1>4, <1>5, <1>6 DEF ParserInv, BufferInv

-----------------------------------------------------------------------------
(***************************************************************************)
(* The ways a function goes on.                                            *)
(***************************************************************************)
LEMMA GoStep ==
  ASSUME ParserInv, NEW f, Ready(f), f # "make", NEW tasks, IsSeq(tasks), Go(tasks),
         Len(buffer) = 2 => tasks # <<>> /\ Head(tasks).do \in Deciders
  PROVE  ParserInv'
<1>1. agenda' = tasks \o Tail(agenda) /\ UNCHANGED <<ahead, read, buffer, values, outcome, reports>>
  BY DEF Go
<1>2. IsSeq(Tail(agenda))
  BY TailSeq, WhenReady DEF ParserInv, TypeInv
<1>3. /\ IsSeq(agenda')
      /\ tasks # <<>> => agenda' # <<>> /\ Head(agenda') = Head(tasks)
  BY <1>1, <1>2, Concat
<1>4. TypeInv'
  BY <1>1, <1>3 DEF ParserInv, TypeInv
<1>5. First' = First
  BY <1>1 DEF First
<1>6. BufferInv'
  BY <1>1, <1>3, <1>5, WhenReady DEF ParserInv, BufferInv
<1> QED
  BY <1>1, <1>4, <1>6 DEF ParserInv, ReportInv, FirstFaultPrinted

LEMMA TakeStep ==
  ASSUME ParserInv, NEW f, Ready(f), f # "make", NEW tasks, IsSeq(tasks),
         NEW node, Take(tasks) \/ TakeAs(node, tasks)
  PROVE  ParserInv'
<1>1. /\ agenda' = tasks \o Tail(agenda) /\ buffer' = Tail(buffer)
      /\ UNCHANGED <<ahead, read, outcome, reports>>
  BY DEF Take, TakeAs
<1>2. /\ outcome = "parsing" /\ agenda # <<>> /\ buffer # <<>>
      /\ Len(buffer) = 1 \/ (Len(buffer) = 2 /\ buffer[2] = Len(read))
  BY WhenReady
<1>3. /\ buffer' \in Seq(1 .. Len(read')) /\ Len(buffer') \in {0, 1}
      /\ Len(buffer') = 1 => buffer'[1] = Len(read')
  <2>1. buffer \in Seq(1 .. Len(read))
    BY DEF ParserInv, TypeInv
  <2>2. /\ Tail(buffer) \in Seq(1 .. Len(read)) /\ Len(Tail(buffer)) = Len(buffer) - 1
        /\ \A i \in 1 .. Len(Tail(buffer)) : Tail(buffer)[i] = buffer[i + 1]
    BY <1>2, <2>1, HeadTailProperties
  <2> QED  BY <1>1, <1>2, <2>2
<1>4. IsSeq(agenda')
  BY <1>1, <1>2, TailSeq, Concat DEF ParserInv, TypeInv
<1>5. TypeInv'
  BY <1>1, <1>3, <1>4 DEF ParserInv, TypeInv
<1>6. BufferInv'
  BY <1>3 DEF BufferInv
<1> QED
  BY <1>1, <1>5, <1>6 DEF ParserInv, ReportInv, FirstFaultPrinted

\* A function fails only with one token buffered, and that is the last one read.
LEMMA FailStep ==
  ASSUME ParserInv, NEW f, Ready(f), f # "make", NEW expecting, Fail(expecting), Len(buffer) # 2
  PROVE  ParserInv'
<1>1. outcome = "parsing" /\ reports = <<>> /\ Len(buffer) = 1 /\ buffer[1] = Len(read)
  BY WhenReady DEF ParserInv, ReportInv
<1>2. Head(buffer) = Len(read)
  BY <1>1 DEF ParserInv, TypeInv
<1>3. /\ agenda' = <<>> /\ outcome' = "failed" /\ UNCHANGED <<ahead, read, buffer, values>>
      /\ reports' = <<[at |-> Len(read), expecting |-> expecting,
                       printed |-> \A i \in DOMAIN read : read[i].kind # "Invalid"]>>
  BY <1>1, <1>2 DEF Fail
<1>4. DOMAIN read = 1 .. Len(read)
  BY SeqType DEF ParserInv, TypeInv
<1>5. FirstFaultPrinted'
  BY <1>3, <1>4 DEF FirstFaultPrinted
<1>6. TypeInv'
  BY <1>3 DEF ParserInv, TypeInv, IsSeq
<1> QED
  BY <1>3, <1>5, <1>6 DEF ParserInv, BufferInv, ReportInv

-----------------------------------------------------------------------------
(***************************************************************************)
(* The steps, most of them of functions that run with one token buffered.  *)
(***************************************************************************)
\* Any way to go on keeps the invariant in a function that is not a decider.
Onward(tasks) == Go(tasks) \/ Take(tasks) \/ (\E node : TakeAs(node, tasks))

LEMMA SingleStep ==
  ASSUME ParserInv, NEW f, Ready(f), f \notin Deciders, f # "make",
         NEW tasks, IsSeq(tasks), Onward(tasks)
  PROVE  ParserInv'
<1>1. Len(buffer) # 2
  BY WhenReady
<1> QED
  BY <1>1, GoStep, TakeStep DEF Onward

LEMMA SingleFail ==
  ASSUME ParserInv, NEW f, Ready(f), f \notin Deciders, f # "make", NEW expecting, Fail(expecting)
  PROVE  ParserInv'
BY WhenReady, FailStep

\* Matching a token.
LEMMA MatchStep ==
  ASSUME ParserInv, NEW f, Ready(f), f \notin Deciders, f # "make", NEW kind,
         NEW tasks, IsSeq(tasks), NEW otherwise, IsSeq(otherwise), Match(kind, tasks, otherwise)
  PROVE  ParserInv'
BY SingleStep DEF Match, Onward

LEMMA ListStep ==
  ASSUME ParserInv, NEW list, list \notin Deciders, list # "make",
         NEW element, NEW goesOn, NEW separates, ListOf(list, element, goesOn, separates)
  PROVE  ParserInv'
<1> DEFINE another == <<element, Make("Append", 2), Task("more", list, 0)>>
<1>1. IsSeq(another) /\ IsSeq(<<Make("List", 0)>>) /\ IsSeq(<<>>)
  BY DEF IsSeq
<1>2. IsSeq(<<Make("List", 0)>> \o another)
  BY <1>1, Concat
<1> HIDE DEF another
<1>3. CASE Ready(list) /\ Go(<<Make("List", 0)>> \o another)
  BY <1>2, <1>3, SingleStep DEF Onward
<1>4. CASE Ready("more") /\ (Onward(<<>>) \/ Onward(another))
  BY <1>1, <1>4, SingleStep DEF Deciders
<1> QED
  BY <1>3, <1>4 DEF ListOf, Onward, another

\* A look at one more token.
LEMMA PeekStep ==
  ASSUME ParserInv, Peek
  PROVE  ParserInv'
<1>1. /\ outcome = "parsing" /\ agenda # <<>> /\ Len(buffer) < Lookahead
      /\ UNCHANGED <<agenda, values, outcome, reports>>
  BY DEF Peek
<1>2. CASE UNCHANGED <<read, buffer>>
  <2>1. First' = First
    BY <1>2 DEF First
  <2>2. TypeInv' /\ BufferInv'
    BY <1>1, <1>2, <2>1 DEF ParserInv, TypeInv, BufferInv, Doing
  <2> QED  BY <1>1, <1>2, <2>2 DEF ParserInv, ReportInv, FirstFaultPrinted
<1>3. ASSUME NEW token, NEW rest, Deliver(token, rest)  PROVE ParserInv'
  <2>1. read' = Append(read, token) /\ Len(read') = Len(read) + 1 /\ IsSeq(read') /\ Len(read) \in Nat
    BY <1>3, AppendSeq, SeqType DEF Deliver, ParserInv, TypeInv
  <2>2. \A i \in 1 .. Len(read) : read'[i] = read[i]
    BY <2>1, AppendSeq DEF ParserInv, TypeInv
  <2>3. buffer \in Seq(1 .. Len(read')) /\ Len(read') \in 1 .. Len(read')
    BY <2>1, SeqMonotonic DEF ParserInv, TypeInv
  <2>4. buffer # <<>> => Head(buffer) \in 1 .. Len(read)
    BY DEF ParserInv, TypeInv
  <2>5. CASE token.kind = "Invalid"
    <3>1. buffer' = buffer
      BY <1>3, <2>5 DEF Deliver
    <3>2. buffer = <<>> \/ (Len(buffer) = 1 /\ Doing("method_body_item") /\ First.kind = "Identifier")
      BY <1>1 DEF Lookahead, ParserInv, BufferInv, TypeInv
    <3>3. CASE buffer = <<>>
      <4>1. BufferInv' /\ TypeInv'
        BY <1>1, <2>1, <2>3, <3>1, <3>3 DEF BufferInv, ParserInv, TypeInv
      <4> QED  BY <1>1, <4>1 DEF ParserInv, ReportInv, FirstFaultPrinted
    <3>4. CASE buffer # <<>>
      <4>1. First' = First
        BY <2>2, <2>4, <3>1, <3>4 DEF First
      <4>2. BufferInv' /\ TypeInv'
        BY <1>1, <2>1, <2>3, <3>1, <3>2, <3>4, <4>1 DEF BufferInv, ParserInv, TypeInv, Doing
      <4> QED  BY <1>1, <4>2 DEF ParserInv, ReportInv, FirstFaultPrinted
    <3> QED  BY <3>3, <3>4
  <2>6. CASE token.kind # "Invalid"
    <3>1. buffer' = Append(buffer, Len(read'))
      BY <1>3, <2>6 DEF Deliver
    <3>2. /\ buffer' \in Seq(1 .. Len(read')) /\ Len(buffer') = Len(buffer) + 1
          /\ buffer'[Len(buffer')] = Len(read')
          /\ \A i \in 1 .. Len(buffer) : buffer'[i] = buffer[i]
      BY <2>3, <3>1, AppendProperties
    <3>3. TypeInv'
      BY <1>1, <2>1, <3>2 DEF ParserInv, TypeInv
    <3>4. Len(buffer) = 0 \/ (Len(buffer) = 1 /\ Doing("method_body_item") /\ First.kind = "Identifier")
      BY <1>1 DEF Lookahead, ParserInv, BufferInv, TypeInv
    <3>5. CASE Len(buffer) = 0
      BY <1>1, <3>2, <3>3, <3>5 DEF ParserInv, BufferInv, ReportInv, FirstFaultPrinted
    <3>6. CASE Len(buffer) # 0
      <4>1. buffer # <<>> /\ buffer' # <<>> /\ Head(buffer') = Head(buffer)
        BY <2>3, <3>2, <3>4, <3>6, NotEmpty
      <4>2. First' = First
        BY <2>2, <2>4, <4>1 DEF First
      <4>3. BufferInv'
        BY <1>1, <3>2, <3>4, <3>6, <4>2 DEF BufferInv, Doing, Deciders
      <4> QED  BY <1>1, <3>3, <4>3 DEF ParserInv, ReportInv, FirstFaultPrinted
    <3> QED  BY <3>5, <3>6
  <2> QED  BY <2>5, <2>6
<1> QED
  BY <1>2, <1>3 DEF Peek

\* A node is made with no look at the text.
LEMMA MakeStep ==
  ASSUME ParserInv, MakeNode
  PROVE  ParserInv'
<1>1. /\ outcome = "parsing" /\ agenda # <<>> /\ Head(agenda).do = "make"
      /\ agenda' = Tail(agenda) /\ UNCHANGED <<ahead, read, buffer, outcome, reports>>
  BY DEF MakeNode, Doing
<1>2. IsSeq(agenda')
  BY <1>1, TailSeq DEF ParserInv, TypeInv
<1>3. Len(buffer) # 2 /\ ~Doing("method_body_item")
  BY <1>1 DEF ParserInv, BufferInv, Doing, Deciders
<1>4. Len(buffer) \in 0 .. 2 /\ (Len(buffer) = 1 => buffer[1] = Len(read))
  BY <1>1, <1>3 DEF ParserInv, BufferInv
<1>5. /\ Len(buffer') \in 0 .. 2 /\ Len(buffer') # 2
      /\ Len(buffer') = 1 => buffer'[1] = Len(read')
  <2>1. buffer' = buffer /\ read' = read
    BY <1>1
  <2> QED  BY <1>3, <1>4, <2>1
<1>6. BufferInv'
  BY <1>5 DEF BufferInv
<1> QED
  BY <1>1, <1>2, <1>6 DEF ParserInv, TypeInv, ReportInv, FirstFaultPrinted

\* The functions that tell a declaration from a statement, and those they call
\* before the identifier is consumed.
LEMMA DecideStep ==
  ASSUME ParserInv, ParseMethodBodyItem \/ ParseVarDecl
  PROVE  ParserInv'
<1> DEFINE declaration == <<Call("var_decl"), Make("VariableDeclaration", 1)>>
           statement   == <<Call("statement"), Make("Statement", 1)>>
           parts       == <<Call("type"), Call("identifier"), Expect("Semi"), Make("Variable", 2)>>
<1>1. /\ IsSeq(declaration) /\ declaration # <<>> /\ Head(declaration).do \in Deciders
      /\ IsSeq(statement) /\ statement # <<>> /\ Head(statement).do \in Deciders
      /\ IsSeq(parts) /\ parts # <<>> /\ Head(parts).do \in Deciders
  <2>1. IsSeq(declaration) /\ IsSeq(statement) /\ IsSeq(parts)
    BY DEF IsSeq
  <2>2. declaration # <<>> /\ statement # <<>> /\ parts # <<>>
    BY NotEmpty
  <2>3. /\ Head(declaration) = Call("var_decl") /\ Head(statement) = Call("statement")
        /\ Head(parts) = Call("type")
    OBVIOUS
  <2>4. /\ Call("var_decl").do = "var_decl" /\ Call("statement").do = "statement"
        /\ Call("type").do = "type"
    BY DEF Call, Task
  <2> HIDE DEF declaration, statement, parts
  <2> QED  BY <2>1, <2>2, <2>3, <2>4 DEF Deciders
<1> HIDE DEF declaration, statement, parts
<1>2. CASE ParseMethodBodyItem
  <2>1. Ready("method_body_item") /\ (Go(declaration) \/ Go(statement))
    BY <1>2 DEF ParseMethodBodyItem, declaration, statement
  <2> QED  BY <1>1, <2>1, GoStep
<1>3. CASE ParseVarDecl
  <2>1. Ready("var_decl") /\ Go(parts)
    BY <1>3 DEF ParseVarDecl, parts
  <2> QED  BY <1>1, <2>1, GoStep
<1> QED
  BY <1>2, <1>3

LEMMA TypeStep ==
  ASSUME ParserInv, ParseType
  PROVE  ParserInv'
<1>1. IsSeq(<<Call("brackets")>>) /\ IsSeq(<<>>)
  BY DEF IsSeq
<1>2. CASE Ready("type")
  <2>1. CASE Take(<<Call("brackets")>>) \/ \E node : TakeAs(node, <<>>)
    BY <1>1, <1>2, <2>1, TakeStep
  <2>2. CASE First.kind \notin TypeStarts /\ Fail("type")
    <3>1. Len(buffer) # 2
      BY <1>2, <2>2, WhenReady DEF TypeStarts
    <3> QED  BY <1>2, <2>2, <3>1, FailStep
  <2> QED  BY <1>2, <2>1, <2>2, WhenReady DEF ParseType
<1>3. CASE Ready("brackets")
  <2>1. IsSeq(<<Expect("RSquare"), Make("int[]", 0)>>) /\ IsSeq(<<Make("int", 0)>>)
    BY DEF IsSeq
  <2>2. Match("LSquare", <<Expect("RSquare"), Make("int[]", 0)>>, <<Make("int", 0)>>)
    BY <1>3, WhenReady DEF ParseType
  <2> QED  BY <1>3, <2>1, <2>2, MatchStep DEF Deciders
<1> QED
  BY <1>2, <1>3 DEF ParseType

LEMMA StatementStep ==
  ASSUME ParserInv, ParseStatement
  PROVE  ParserInv'
<1>1. CASE Ready("statement")
  <2>1. CASE First.kind \in DOMAIN StatementTasks /\ Take(StatementTasks[First.kind])
    <3>1. IsSeq(Parenthesised)
      BY DEF IsSeq, Parenthesised
    <3>2. /\ IsSeq(<<Call("block")>>) /\ IsSeq(<<Call("statement"), Call("else")>>)
          /\ IsSeq(<<Call("statement"), Make("While", 2)>>)
          /\ IsSeq(<<Expect("Semi"), Make("PRINT", 1)>>)
      BY DEF IsSeq
    <3>3. /\ IsSeq(Parenthesised \o <<Call("statement"), Call("else")>>)
          /\ IsSeq(Parenthesised \o <<Call("statement"), Make("While", 2)>>)
          /\ IsSeq(Parenthesised \o <<Expect("Semi"), Make("PRINT", 1)>>)
      BY <3>1, <3>2, Concat
    <3>4. /\ DOMAIN StatementTasks = {"LCurly", "KwIf", "KwWhile", "KwPrintln"}
          /\ StatementTasks["LCurly"] = <<Call("block")>>
          /\ StatementTasks["KwIf"] = Parenthesised \o <<Call("statement"), Call("else")>>
          /\ StatementTasks["KwWhile"] = Parenthesised \o <<Call("statement"), Make("While", 2)>>
          /\ StatementTasks["KwPrintln"] = Parenthesised \o <<Expect("Semi"), Make("PRINT", 1)>>
      BY DEF StatementTasks
    <3>5. IsSeq(StatementTasks[First.kind])
      BY <2>1, <3>2, <3>3, <3>4
    <3> QED  BY <1>1, <2>1, <3>5, TakeStep
  <2>2. CASE TakeAs(Identifier(First.text), <<Call("assignment")>>)
    <3>1. IsSeq(<<Call("assignment")>>)
      BY DEF IsSeq
    <3> QED  BY <1>1, <2>2, <3>1, TakeStep
  <2>3. CASE First.kind \notin StatementStarts /\ Fail("statement")
    <3>1. Len(buffer) # 2
      BY <1>1, <2>3, WhenReady DEF StatementStarts
    <3> QED  BY <1>1, <2>3, <3>1, FailStep
  <2> QED  BY <1>1, <2>1, <2>2, <2>3, WhenReady DEF ParseStatement
<1>2. CASE Ready("block")
  <2>1. IsSeq(<<>>) /\ IsSeq(<<Call("statement_list"), Expect("RCurly")>>)
    BY DEF IsSeq
  <2>2. Onward(<<>>) \/ Onward(<<Call("statement_list"), Expect("RCurly")>>)
    BY <1>2, WhenReady DEF ParseStatement, Onward
  <2> QED  BY <1>2, <2>1, <2>2, SingleStep DEF Deciders
<1>3. CASE Ready("else")
  <2>1. IsSeq(<<Call("statement"), Make("IfElse", 3)>>) /\ IsSeq(<<Make("If", 2)>>)
    BY DEF IsSeq
  <2>2. Match("KwElse", <<Call("statement"), Make("IfElse", 3)>>, <<Make("If", 2)>>)
    BY <1>3, WhenReady DEF ParseStatement
  <2> QED  BY <1>3, <2>1, <2>2, MatchStep DEF Deciders
<1>4. CASE Ready("assignment")
  <2> DEFINE one == <<Expression(0), Expect("Semi"), Make("Assign", 2)>>
             two == <<Expression(0), Expect("RSquare"), Expect("Assign"), Expression(0),
                      Expect("Semi"), Make("ArrayAssign", 3)>>
  <2>1. IsSeq(one) /\ IsSeq(two)
    BY DEF IsSeq
  <2>2. Take(one) \/ Take(two) \/ Fail("Assign")
    BY <1>4, WhenReady DEF ParseStatement
  <2> HIDE DEF one, two
  <2> QED  BY <1>4, <2>1, <2>2, SingleStep, SingleFail DEF Deciders, Onward
<1> QED
  BY <1>1, <1>2, <1>3, <1>4 DEF ParseStatement

\* The declarations with one way to go on.
LEMMA DeclarationStep ==
  ASSUME ParserInv,
         ParseGoal \/ ParseMainClass \/ ParseClassDecl \/ ParseMethodParameter \/ ParseClassBody
  PROVE  ParserInv'
<1>1. CASE ParseGoal
  <2>1. /\ IsSeq(<<Call("main_class"), Call("goal_classes"), Expect("Eof")>>)
        /\ IsSeq(<<Call("class_decl_list"), Make("PushFront", 2)>>) /\ IsSeq(<<>>)
    BY DEF IsSeq
  <2>2. \/ Ready("goal") /\ Onward(<<Call("main_class"), Call("goal_classes"), Expect("Eof")>>)
        \/ /\ Ready("goal_classes")
           /\ Onward(<<Call("class_decl_list"), Make("PushFront", 2)>>) \/ Onward(<<>>)
    BY <1>1 DEF ParseGoal, Onward
  <2> QED  BY <2>1, <2>2, SingleStep DEF Deciders
<1>2. CASE ParseMainClass
  <2> DEFINE tasks ==
        <<Expect("KwPublic"), Expect("KwClass"), Call("identifier"), Expect("LCurly"),
          Expect("KwPublic"), Expect("KwStatic"), Expect("KwVoid"), Expect("KwMain"),
          Expect("LParen"), Expect("KwString"), Expect("LSquare"), Expect("RSquare"),
          Call("identifier"), Expect("RParen"), Expect("LCurly"), Call("statement_list"),
          Expect("RCurly"), Expect("RCurly"), Make("MainClass", 3)>>
  <2>1. IsSeq(tasks)
    BY DEF IsSeq
  <2>2. Ready("main_class") /\ Go(tasks)
    BY <1>2 DEF ParseMainClass
  <2> HIDE DEF tasks
  <2> QED  BY <2>1, <2>2, SingleStep DEF Deciders, Onward
<1>3. CASE ParseClassDecl
  <2> DEFINE tasks == <<Expect("KwClass"), Call("identifier"), Call("class_body"), Make("Class", 2)>>
  <2>1. IsSeq(tasks)
    BY DEF IsSeq
  <2>2. Ready("class_decl") /\ Go(tasks)
    BY <1>3 DEF ParseClassDecl
  <2> HIDE DEF tasks
  <2> QED  BY <2>1, <2>2, SingleStep DEF Deciders, Onward
<1>4. CASE ParseMethodParameter
  <2> DEFINE tasks == <<Call("type"), Call("identifier"), Make("Parameter", 2)>>
  <2>1. IsSeq(tasks)
    BY DEF IsSeq
  <2>2. Ready("method_parameter") /\ Go(tasks)
    BY <1>4 DEF ParseMethodParameter
  <2> HIDE DEF tasks
  <2> QED  BY <2>1, <2>2, SingleStep DEF Deciders, Onward
<1>5. CASE ParseClassBody
  <2> DEFINE open    == <<Expect("LCurly"), Call("members")>>
             methods == <<Call("method_decl_list"), Expect("RCurly")>>
             fields  == <<Call("class_var_decl_list"), Call("methods")>>
             both    == <<Call("method_decl_list"), Expect("RCurly"), Make("ClassBody", 2)>>
             close   == <<Expect("RCurly")>>
  <2>1. /\ IsSeq(open) /\ IsSeq(methods) /\ IsSeq(fields) /\ IsSeq(both) /\ IsSeq(close)
        /\ IsSeq(<<>>)
    BY DEF IsSeq
  <2>2. \/ Ready("class_body") /\ Onward(open)
        \/ Ready("members") /\ (Onward(<<>>) \/ Onward(methods) \/ Onward(fields))
        \/ Ready("methods") /\ (Onward(both) \/ Onward(close))
    BY <1>5 DEF ParseClassBody, Onward
  <2> HIDE DEF open, methods, fields, both, close
  <2> QED  BY <2>1, <2>2, SingleStep DEF Deciders
<1> QED
  BY <1>1, <1>2, <1>3, <1>4, <1>5

\* The declarations that match a token.
LEMMA MethodStep ==
  ASSUME ParserInv, ParseMethodDecl \/ ParseMethodBody
  PROVE  ParserInv'
<1>1. CASE ParseMethodDecl
  <2> DEFINE header     == <<Expect("KwPublic"), Call("type"), Call("identifier"),
                             Expect("LParen"), Call("parameters")>>
             parameters == <<Call("method_parameter_list"), Expect("RParen")>>
  <2>1. IsSeq(header) /\ IsSeq(parameters)
    BY DEF IsSeq
  <2>2. \A kind, n : IsSeq(MethodRest(kind, n))
    BY DEF IsSeq, MethodRest
  <2>3. IsSeq(parameters \o MethodRest("Method", 4))
    BY <2>1, <2>2, Concat
  <2>4. \/ Ready("method_decl") /\ Go(header)
        \/ /\ Ready("parameters")
           /\ Match("RParen", MethodRest("MethodWithoutParameters", 3),
                    parameters \o MethodRest("Method", 4))
    BY <1>1 DEF ParseMethodDecl
  <2> HIDE DEF header, parameters
  <2> QED  BY <2>1, <2>2, <2>3, <2>4, SingleStep, MatchStep DEF Deciders, Onward
<1>2. CASE ParseMethodBody
  <2> DEFINE short == <<Expression(0), Expect("Semi"), Make("ReturnOnlyBody", 1)>>
             long  == <<Call("method_body_item_list"), Expect("KwReturn"), Expression(0),
                        Expect("Semi"), Make("MethodBody", 2)>>
  <2>1. IsSeq(short) /\ IsSeq(long)
    BY DEF IsSeq
  <2>2. Ready("method_body") /\ Match("KwReturn", short, long)
    BY <1>2 DEF ParseMethodBody
  <2> HIDE DEF short, long
  <2> QED  BY <2>1, <2>2, MatchStep DEF Deciders
<1> QED
  BY <1>1, <1>2

\* The lists.
LEMMA ListsStep ==
  ASSUME ParserInv,
         \/ ParseClassDeclList \/ ParseClassVarDeclList \/ ParseMethodDeclList
         \/ ParseMethodParameterList \/ ParseMethodBodyItemList
         \/ ParseStatementList \/ ParseExpressionList
  PROVE  ParserInv'
BY ListStep DEF Deciders, ParseClassDeclList, ParseClassVarDeclList, ParseMethodDeclList,
   ParseMethodParameterList, ParseMethodBodyItemList, ParseStatementList, ParseExpressionList

\* A token that must come next.
LEMMA TokenStep ==
  ASSUME ParserInv, ExpectToken \/ ParseIdentifier
  PROVE  ParserInv'
<1>1. IsSeq(<<>>)
  BY DEF IsSeq
<1>2. CASE ExpectToken
  <2>1. Ready("expect") /\ (Onward(<<>>) \/ Fail(Head(agenda).with))
    BY <1>2 DEF ExpectToken, Onward
  <2> QED  BY <1>1, <2>1, SingleStep, SingleFail DEF Deciders
<1>3. CASE ParseIdentifier
  <2>1. Ready("identifier") /\ (Onward(<<>>) \/ Fail("Identifier"))
    BY <1>3 DEF ParseIdentifier, Onward
  <2> QED  BY <1>1, <2>1, SingleStep, SingleFail DEF Deciders
<1> QED
  BY <1>2, <1>3

\* The end of the parse, by a literal's conversion or with the last task.
LEMMA EndStep ==
  ASSUME ParserInv, Abort \/ Finish
  PROVE  ParserInv'
<1>1. outcome' \in {"aborted", "parsed"} /\ UNCHANGED <<read, buffer, agenda>>
  BY DEF Abort, Finish
<1>2. TypeInv'
  BY <1>1 DEF ParserInv, TypeInv, IsSeq
<1> QED
  BY <1>1, <1>2 DEF ParserInv, BufferInv, ReportInv, FirstFaultPrinted

LEMMA OperandStep ==
  ASSUME ParserInv, ParseOperand
  PROVE  ParserInv'
<1> DEFINE group    == <<Expression(0), Expect("RParen"), Operators(MinBp)>>
           negation == <<Expression(BangPower), Make("NOT", 1), Operators(MinBp)>>
           minus    == <<Expression(MinusPower), Make("SUB", 2), Operators(MinBp)>>
           new      == <<Call("allocation"), Operators(MinBp)>>
           leaf     == <<Operators(MinBp)>>
<1>1. IsSeq(group) /\ IsSeq(negation) /\ IsSeq(minus) /\ IsSeq(new) /\ IsSeq(leaf)
  BY DEF IsSeq
<1>2. Ready("expression")
  BY DEF ParseOperand
<1>3. \/ Abort \/ Fail("expression")
      \/ Onward(group) \/ Onward(negation) \/ Onward(minus) \/ Onward(new) \/ Onward(leaf)
  BY DEF ParseOperand, Onward
<1> HIDE DEF group, negation, minus, new, leaf
<1> QED
  BY <1>1, <1>2, <1>3, EndStep, SingleStep, SingleFail DEF Deciders

LEMMA OperatorsStep ==
  ASSUME ParserInv, ParseOperators
  PROVE  ParserInv'
<1> DEFINE infix(i) == <<Expression(i.right), Make(i.op, 2), Operators(MinBp)>>
           index    == <<Expression(0), Expect("RSquare"), Make("ARRAY_LOAD", 2), Operators(MinBp)>>
           member   == <<Call("member"), Operators(MinBp)>>
<1>1. /\ \A i : IsSeq(infix(i))
      /\ IsSeq(index) /\ IsSeq(member) /\ IsSeq(<<>>)
  BY DEF IsSeq
<1>2. Ready("operators")
  BY DEF ParseOperators
<1>3. \/ \E i : Onward(infix(i))
      \/ Onward(index) \/ Onward(member) \/ Onward(<<>>)
  BY DEF ParseOperators, Onward, LeaveLoop
<1> HIDE DEF infix, index, member
<1> QED
  BY <1>1, <1>2, <1>3, SingleStep DEF Deciders

\* The functions that choose between two ways to go on.
LEMMA ChoiceStep ==
  ASSUME ParserInv, ParseAllocation \/ ParseMember
  PROVE  ParserInv'
<1>1. CASE ParseAllocation
  <2> DEFINE array  == <<Expect("LSquare"), Expression(0), Expect("RSquare"), Make("NEW_ARRAY", 1)>>
             object == <<Call("identifier"), Expect("LParen"), Expect("RParen"), Make("NEW", 1)>>
  <2>1. IsSeq(array) /\ IsSeq(object)
    BY DEF IsSeq
  <2>2. Ready("allocation") /\ Match("KwInt", array, object)
    BY <1>1 DEF ParseAllocation
  <2> HIDE DEF array, object
  <2> QED  BY <2>1, <2>2, MatchStep DEF Deciders
<1>2. CASE ParseMember
  <2> DEFINE length == <<Make("ARRAY_LENGTH", 1)>>
             call   == <<Call("identifier"), Expect("LParen"), Call("arguments")>>
             none   == <<Make("List", 0), Make("CALL", 3)>>
             some   == <<Call("expression_list"), Expect("RParen"), Make("CALL", 3)>>
  <2>1. IsSeq(length) /\ IsSeq(call) /\ IsSeq(none) /\ IsSeq(some)
    BY DEF IsSeq
  <2>2. \/ Ready("member") /\ Match("KwLength", length, call)
        \/ Ready("arguments") /\ Match("RParen", none, some)
    BY <1>2 DEF ParseMember
  <2> HIDE DEF length, call, none, some
  <2> QED  BY <2>1, <2>2, MatchStep DEF Deciders
<1> QED
  BY <1>1, <1>2

-----------------------------------------------------------------------------
LEMMA InvInit == Init => ParserInv
<1> SUFFICES ASSUME Init  PROVE ParserInv
  OBVIOUS
<1>1. IsSeq(<<Call("goal")>>) /\ IsSeq(<<>>)
  BY DEF IsSeq
<1>2. TypeInv
  BY <1>1 DEF Init, TypeInv
<1> QED
  BY <1>2 DEF Init, ParserInv, BufferInv, ReportInv, FirstFaultPrinted

LEMMA InvNext == ParserInv /\ [Next]_parserVars => ParserInv'
<1> SUFFICES ASSUME ParserInv, [Next]_parserVars  PROVE ParserInv'
  OBVIOUS
<1>1. CASE UNCHANGED parserVars
  <2>1. UNCHANGED <<read, buffer, agenda, outcome, reports>>
    BY <1>1 DEF parserVars
  <2>2. First' = First
    BY <2>1 DEF First
  <2> QED
    BY <2>1, <2>2 DEF ParserInv, TypeInv, IsSeq, BufferInv, Doing, ReportInv, FirstFaultPrinted
<1>2. CASE Peek
  BY <1>2, PeekStep
<1>3. CASE ExpectToken \/ ParseIdentifier
  BY <1>3, TokenStep
<1>4. CASE MakeNode
  BY <1>4, MakeStep
<1>5. CASE Finish
  BY <1>5, EndStep
<1>6. CASE Declarations
  BY <1>6, DeclarationStep, DecideStep, MethodStep, ListsStep DEF Declarations
<1>7. CASE Statements
  BY <1>7, StatementStep, TypeStep, ListsStep DEF Statements
<1>8. CASE Expressions
  BY <1>8, OperandStep, ChoiceStep, OperatorsStep, ListsStep DEF Expressions
<1> QED
  BY <1>1, <1>2, <1>3, <1>4, <1>5, <1>6, <1>7, <1>8 DEF Next

\* For every text, a parse that fails has made one report, and it is printed
\* exactly when the lexer reported nothing before the offending token: the
\* second look of a method body never costs a program its first message.
THEOREM FirstFault == ParserSpec => []FirstFaultPrinted
<1>1. ParserInv => FirstFaultPrinted
  BY DEF ParserInv
<1> QED
  BY <1>1, InvInit, InvNext, PTL DEF ParserSpec
=============================================================================
