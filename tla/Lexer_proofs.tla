---------------------------- MODULE Lexer_proofs ----------------------------
(***************************************************************************)
(* The lexer agrees with the rules of docs/lexer_legacy_behavior.md for    *)
(* every text, every set of keywords and every client: proofs of the       *)
(* invariants of LexerProperties.  Texts are unbounded, so the proofs are  *)
(* by induction.                                                           *)
(***************************************************************************)
EXTENDS LexerProperties, SequenceLemmas, FiniteSetTheorems

-----------------------------------------------------------------------------
(***************************************************************************)
(* The least and the greatest element of a set.                            *)
(***************************************************************************)
LEMMA MinIsLeast ==
  ASSUME NEW S, S \subseteq Nat, S # {}
  PROVE  Min(S) \in S /\ \A j \in S : Min(S) <= j
BY LeastNumber DEF Min

LEMMA MinIs ==
  ASSUME NEW S, S \subseteq Nat, NEW m \in S, \A j \in S : m <= j
  PROVE  Min(S) = m
<1>1. Min(S) \in S /\ \A j \in S : Min(S) <= j
  BY MinIsLeast
<1>2. Min(S) \in Nat /\ m \in Nat /\ Min(S) <= m /\ m <= Min(S)
  BY <1>1
<1> QED
  BY <1>2

LEMMA MaxIs ==
  ASSUME NEW S, S \subseteq Nat, NEW m \in S, \A j \in S : j <= m
  PROVE  Max(S) = m
<1>1. \A j \in S : m >= j
  <2> TAKE j \in S
  <2>1. j \in Nat /\ m \in Nat /\ j <= m
    OBVIOUS
  <2> QED  BY <2>1
<1>2. Max(S) \in S /\ \A j \in S : Max(S) >= j
  BY <1>1 DEF Max
<1>3. Max(S) \in Nat /\ m \in Nat /\ Max(S) <= m /\ m <= Max(S)
  BY <1>2
<1> QED
  BY <1>3

-----------------------------------------------------------------------------
(***************************************************************************)
(* Characters and texts.                                                   *)
(***************************************************************************)
Texts == Seq(STRING)

LEMMA CharacterClasses ==
  ASSUME NEW c
  PROVE  /\ c \in Blank => c \notin Single \cup IdentContinue \cup {"&", "|"}
         /\ c \in Single => c \notin IdentContinue \cup {"&", "|"}
         /\ c \in IdentContinue => c \notin {"&", "|"}
         /\ c \in Alpha => c \notin Digit
         /\ "0" \in Digit /\ "/" \in Single /\ "=" \in Single /\ "\n" \in Blank
BY DEF Blank, Single, IdentContinue, Alpha, Lower, Upper, Digit

LEMMA RunEnds ==
  ASSUME NEW text \in Texts, NEW i \in 1 .. Len(text) + 1, NEW chars
  PROVE  /\ RunEnd(text, i, chars) \in i .. Len(text) + 1
         /\ \A k \in i .. RunEnd(text, i, chars) - 1 : text[k] \in chars
         /\ RunEnd(text, i, chars) <= Len(text) => text[RunEnd(text, i, chars)] \notin chars
<1> DEFINE S == {k \in i .. Len(text) + 1 : k > Len(text) \/ text[k] \notin chars}
<1>1. S \subseteq Nat /\ Len(text) + 1 \in S
  BY DEF Texts
<1>2. Min(S) \in S /\ \A j \in S : Min(S) <= j
  <2> HIDE DEF S
  <2> QED  BY <1>1, MinIsLeast
<1>3. RunEnd(text, i, chars) = Min(S)
  BY DEF RunEnd
<1> HIDE DEF S
<1>4. /\ Min(S) \in i .. Len(text) + 1
      /\ \A k \in i .. Min(S) - 1 : k \notin S
  <2>1. Min(S) \in i .. Len(text) + 1
    BY <1>2 DEF S
  <2> QED  BY <1>1, <1>2, <2>1 DEF Texts
<1>5. \A k \in i .. Min(S) - 1 : k <= Len(text)
  BY <1>4 DEF Texts
<1>6. \A k \in i .. Len(text) : k \notin S <=> text[k] \in chars
  BY DEF S, Texts
<1>7. Min(S) <= Len(text) => text[Min(S)] \notin chars
  BY <1>2, <1>4, <1>6 DEF Texts
<1> QED
  BY <1>3, <1>4, <1>5, <1>6, <1>7 DEF Texts

LEMMA LineEnds ==
  ASSUME NEW text \in Texts, NEW i \in 1 .. Len(text) + 1
  PROVE  /\ LineEnd(text, i) \in i .. Len(text) + 1
         /\ \A k \in i .. LineEnd(text, i) - 1 : text[k] # "\n"
         /\ LineEnd(text, i) <= Len(text) => text[LineEnd(text, i)] = "\n"
<1> DEFINE S == {k \in i .. Len(text) + 1 : k > Len(text) \/ text[k] = "\n"}
<1>1. S \subseteq Nat /\ Len(text) + 1 \in S
  BY DEF Texts
<1>2. Min(S) \in S /\ \A j \in S : Min(S) <= j
  <2> HIDE DEF S
  <2> QED  BY <1>1, MinIsLeast
<1>3. LineEnd(text, i) = Min(S)
  BY DEF LineEnd
<1> HIDE DEF S
<1>4. /\ Min(S) \in i .. Len(text) + 1
      /\ \A k \in i .. Min(S) - 1 : k \notin S
  <2>1. Min(S) \in i .. Len(text) + 1
    BY <1>2 DEF S
  <2> QED  BY <1>1, <1>2, <2>1 DEF Texts
<1>5. \A k \in i .. Min(S) - 1 : k <= Len(text)
  BY <1>4 DEF Texts
<1>6. \A k \in i .. Len(text) : k \notin S <=> text[k] # "\n"
  BY DEF S, Texts
<1>7. Min(S) <= Len(text) => text[Min(S)] = "\n"
  BY <1>2, <1>4, <1>6 DEF Texts
<1> QED
  BY <1>3, <1>4, <1>5, <1>6, <1>7 DEF Texts

\* A word stands at a position when its characters do.
LEMMA WordAt ==
  ASSUME NEW text \in Texts, NEW S, NEW word \in Seq(S), NEW i \in 1 .. Len(text) + 1
  PROVE  StartsWith(text, i, word) <=>
           i + Len(word) - 1 <= Len(text) /\ \A k \in 1 .. Len(word) : text[i + k - 1] = word[k]
<1>0. word \in Seq(STRING \cup S)
  BY SeqMonotonic
<1>1. CASE i + Len(word) - 1 <= Len(text)
  <2> DEFINE part == SubSeq(text, i, i + Len(word) - 1)
  <2>1. /\ part \in Seq(STRING \cup S)
        /\ Len(part) = Len(word)
        /\ \A k \in 1 .. Len(word) : part[k] = text[i + k - 1]
    <3>1. \A k \in i .. i + Len(word) - 1 : text[k] \in STRING \cup S
      BY <1>1 DEF Texts
    <3>2. Len(word) \in Nat /\ i \in Int /\ i + Len(word) - 1 \in Int
      BY DEF Texts
    <3> QED  BY <3>1, <3>2, SubSeqProperties DEF Texts
  <2> HIDE DEF part
  <2>2. part = word <=> \A k \in 1 .. Len(word) : part[k] = word[k]
    BY <1>0, <2>1, SeqEqual
  <2>3. StartsWith(text, i, word) <=> part = word
    BY <1>1 DEF StartsWith, part
  <2> QED  BY <1>1, <2>1, <2>2, <2>3
<1>2. CASE ~(i + Len(word) - 1 <= Len(text))
  BY <1>2 DEF StartsWith
<1> QED
  BY <1>1, <1>2

-----------------------------------------------------------------------------
(***************************************************************************)
(* Trivia.  What SkipTrivia does at one position: it stops, or it goes on  *)
(* behind a blank or at the end of a comment.                              *)
(***************************************************************************)
Slashes == <<"/", "/">>

Trivial(text, i) == (i <= Len(text) /\ text[i] \in Blank) \/ StartsWith(text, i, Slashes)

Behind(text, i) == IF i <= Len(text) /\ text[i] \in Blank THEN i + 1 ELSE LineEnd(text, i)

LEMMA Comments ==
  ASSUME NEW text \in Texts, NEW i \in 1 .. Len(text) + 1
  PROVE  StartsWith(text, i, Slashes) <=> i < Len(text) /\ text[i] = "/" /\ text[i + 1] = "/"
<1>1. Slashes \in Seq({"/"}) /\ Len(Slashes) = 2 /\ Slashes[1] = "/" /\ Slashes[2] = "/"
  BY DEF Slashes
<1>2. StartsWith(text, i, Slashes) <=>
        i + 1 <= Len(text) /\ \A k \in 1 .. 2 : text[i + k - 1] = Slashes[k]
  <2>1. i + Len(Slashes) - 1 = i + 1
    BY <1>1
  <2>2. StartsWith(text, i, Slashes) <=>
          /\ i + Len(Slashes) - 1 <= Len(text)
          /\ \A k \in 1 .. Len(Slashes) : text[i + k - 1] = Slashes[k]
    BY <1>1, WordAt
  <2> QED  BY <1>1, <2>1, <2>2
<1>3. (\A k \in 1 .. 2 : text[i + k - 1] = Slashes[k]) <=> text[i] = "/" /\ text[i + 1] = "/"
  BY <1>1
<1> QED
  BY <1>2, <1>3 DEF Texts

LEMMA BehindTrivia ==
  ASSUME NEW text \in Texts, NEW i \in 1 .. Len(text) + 1, Trivial(text, i)
  PROVE  i <= Len(text) /\ Behind(text, i) \in i + 1 .. Len(text) + 1
<1>1. CASE i <= Len(text) /\ text[i] \in Blank
  BY <1>1 DEF Behind, Texts
<1>2. CASE ~(i <= Len(text) /\ text[i] \in Blank)
  <2>1. StartsWith(text, i, Slashes) /\ Behind(text, i) = LineEnd(text, i)
    BY <1>2 DEF Trivial, Behind
  <2>2. i < Len(text) /\ text[i] = "/"
    BY <2>1, Comments
  <2> QED  BY <2>1, <2>2, LineEnds DEF Texts
<1> QED
  BY <1>1, <1>2

IsSkip(skip, text, low) ==
  skip = [i \in low .. Len(text) + 1 |->
            IF i <= Len(text) /\ text[i] \in Blank THEN skip[i + 1]
            ELSE IF StartsWith(text, i, Slashes) THEN skip[LineEnd(text, i)]
            ELSE i]

LEMMA SkipStep ==
  ASSUME NEW text \in Texts, NEW low \in 1 .. Len(text) + 1, NEW skip, IsSkip(skip, text, low),
         NEW i \in low .. Len(text) + 1
  PROVE  skip[i] = IF Trivial(text, i) THEN skip[Behind(text, i)] ELSE i
<1>1. skip[i] = IF i <= Len(text) /\ text[i] \in Blank THEN skip[i + 1]
                ELSE IF StartsWith(text, i, Slashes) THEN skip[LineEnd(text, i)]
                ELSE i
  BY DEF IsSkip
<1> QED
  BY <1>1 DEF Trivial, Behind

LEMMA SkipExists ==
  ASSUME NEW text \in Texts
  PROVE  \A low \in 1 .. Len(text) + 1 : \E skip : IsSkip(skip, text, low)
<1> DEFINE N == Len(text) + 1
           S == {low \in 1 .. N : \E skip : IsSkip(skip, text, low)}
<1>1. N \in Nat /\ 1 \in Nat
  BY DEF Texts
<1>2. ASSUME NEW low \in 1 .. N, \A j \in low + 1 .. N : j \in S
      PROVE  low \in S
  <2>1. \E old : low # N => IsSkip(old, text, low + 1)
    BY <1>2 DEF Texts
  <2>2. PICK old : low # N => IsSkip(old, text, low + 1)
    BY <2>1
  <2> DEFINE here == IF Trivial(text, low) THEN old[Behind(text, low)] ELSE low
             skip == [i \in low .. N |-> IF i = low THEN here ELSE old[i]]
  <2>3. ASSUME NEW i \in low .. N
        PROVE  skip[i] = IF Trivial(text, i) THEN skip[Behind(text, i)] ELSE i
    <3>1. Trivial(text, i) => skip[Behind(text, i)] = old[Behind(text, i)]
      BY BehindTrivia DEF Texts
    <3>2. CASE i = low
      BY <3>1, <3>2
    <3>3. CASE i # low
      <4>1. low + 1 \in 1 .. N /\ i \in low + 1 .. N
        BY <3>3 DEF Texts
      <4>2. old[i] = IF Trivial(text, i) THEN old[Behind(text, i)] ELSE i
        BY <2>2, <4>1, SkipStep
      <4> QED  BY <3>1, <3>3, <4>2
    <3> QED  BY <3>2, <3>3
  <2> HIDE DEF here
  <2>4. skip = [i \in low .. N |-> skip[i]]
    OBVIOUS
  <2> HIDE DEF skip
  <2>5. IsSkip(skip, text, low)
    <3>1. \A i \in low .. N :
            skip[i] = IF i <= Len(text) /\ text[i] \in Blank THEN skip[i + 1]
                      ELSE IF StartsWith(text, i, Slashes) THEN skip[LineEnd(text, i)]
                      ELSE i
      BY <2>3 DEF Trivial, Behind
    <3> QED  BY <2>4, <3>1 DEF IsSkip
  <2> QED  BY <2>5
<1> HIDE DEF S
<1>3. 1 .. N \subseteq S
  BY <1>1, <1>2, InductionFromEnd
<1> QED
  BY <1>3 DEF S

LEMMA SkipUnique ==
  ASSUME NEW text \in Texts,
         NEW a \in 1 .. Len(text) + 1, NEW f, IsSkip(f, text, a),
         NEW b \in a .. Len(text) + 1, NEW g, IsSkip(g, text, b)
  PROVE  \A i \in b .. Len(text) + 1 : f[i] = g[i]
<1> DEFINE N == Len(text) + 1
           S == {i \in b .. N : f[i] = g[i]}
<1>1. N \in Nat /\ b \in Nat
  BY DEF Texts
<1>2. ASSUME NEW i \in b .. N, \A j \in i + 1 .. N : j \in S
      PROVE  i \in S
  <2>1. i \in a .. N /\ i \in 1 .. N /\ b \in 1 .. N
    BY DEF Texts
  <2>2. f[i] = IF Trivial(text, i) THEN f[Behind(text, i)] ELSE i
    BY <2>1, SkipStep
  <2>3. g[i] = IF Trivial(text, i) THEN g[Behind(text, i)] ELSE i
    BY <2>1, SkipStep
  <2>4. Trivial(text, i) => Behind(text, i) \in i + 1 .. N
    BY <2>1, BehindTrivia
  <2> QED  BY <1>2, <2>2, <2>3, <2>4
<1> HIDE DEF S
<1>3. b .. N \subseteq S
  BY <1>1, <1>2, InductionFromEnd
<1> QED
  BY <1>3 DEF S

\* The equation SkipTrivia was defined by.
LEMMA SkipEquation ==
  ASSUME NEW text \in Texts, NEW i \in 1 .. Len(text) + 1
  PROVE  SkipTrivia(text, i) = IF Trivial(text, i) THEN SkipTrivia(text, Behind(text, i)) ELSE i
<1> DEFINE skip(low) == CHOOSE f : IsSkip(f, text, low)
<1>1. \A low \in 1 .. Len(text) + 1 : IsSkip(skip(low), text, low)
  BY SkipExists
<1>2. \A low \in 1 .. Len(text) + 1 : SkipTrivia(text, low) = skip(low)[low]
  BY DEF SkipTrivia, IsSkip, Slashes
<1> HIDE DEF skip
<1>3. skip(i)[i] = IF Trivial(text, i) THEN skip(i)[Behind(text, i)] ELSE i
  BY <1>1, SkipStep DEF Texts
<1>4. ASSUME Trivial(text, i)
      PROVE  skip(i)[Behind(text, i)] = SkipTrivia(text, Behind(text, i))
  <2> DEFINE b == Behind(text, i)
  <2>1. b \in 1 .. Len(text) + 1 /\ b \in i .. Len(text) + 1
    BY <1>4, BehindTrivia DEF Texts
  <2> HIDE DEF b
  <2>2. b \in b .. Len(text) + 1
    BY <2>1 DEF Texts
  <2>3. skip(i)[b] = skip(b)[b]
    BY <1>1, <2>1, <2>2, SkipUnique
  <2> QED  BY <1>2, <2>1, <2>3 DEF b
<1> QED
  BY <1>2, <1>3, <1>4

-----------------------------------------------------------------------------
(***************************************************************************)
(* The rules at one position: the lengths each of them matches there, and  *)
(* the longest.                                                            *)
(***************************************************************************)
Rest(text, i) == SubSeq(text, i, Len(text))

\* The characters of a text from i to i + n - 1 are all in this set.
RunOf(text, i, n, chars) == \A k \in 1 .. n : text[i + k - 1] \in chars

LEMMA RestOfText ==
  ASSUME NEW text \in Texts, NEW i \in 1 .. Len(text)
  PROVE  /\ Rest(text, i) \in Texts
         /\ Len(Rest(text, i)) = Len(text) - i + 1
         /\ \A k \in 1 .. Len(text) - i + 1 : Rest(text, i)[k] = text[i + k - 1]
<1>1. i \in Int /\ Len(text) \in Int /\ \A k \in i .. Len(text) : text[k] \in STRING
  BY DEF Texts
<1> QED
  BY <1>1, SubSeqProperties DEF Rest, Texts

LEMMA PrefixOfRest ==
  ASSUME NEW text \in Texts, NEW i \in 1 .. Len(text), NEW n \in 1 .. Len(text) - i + 1
  PROVE  LET p == SubSeq(Rest(text, i), 1, n) IN
         /\ p \in Texts /\ Len(p) = n
         /\ \A k \in 1 .. n : p[k] = text[i + k - 1]
         /\ p = SubSeq(text, i, i + n - 1)
<1> DEFINE w == Rest(text, i)
           p == SubSeq(w, 1, n)
           q == SubSeq(text, i, i + n - 1)
<1>1. /\ w \in Texts /\ Len(w) = Len(text) - i + 1
      /\ \A k \in 1 .. Len(text) - i + 1 : w[k] = text[i + k - 1]
  BY RestOfText
<1> HIDE DEF w
<1>2. n \in Int /\ 1 \in Int /\ i \in Int /\ i + n - 1 \in Int /\ 1 <= n /\ i <= i + n - 1
  BY DEF Texts
<1>3. \A k \in 1 .. n : w[k] \in STRING
  BY <1>1 DEF Texts
<1>4. p \in Texts /\ Len(p) = n /\ \A k \in 1 .. n : p[k] = w[k]
  BY <1>2, <1>3, SubSeqProperties DEF Texts
<1>5. \A k \in i .. i + n - 1 : text[k] \in STRING
  BY DEF Texts
<1>6. q \in Texts /\ Len(q) = n /\ \A k \in 1 .. n : q[k] = text[i + k - 1]
  BY <1>2, <1>5, SubSeqProperties DEF Texts
<1> HIDE DEF p, q
<1>7. \A k \in 1 .. n : p[k] = text[i + k - 1]
  BY <1>1, <1>4, SMTT(30) DEF Texts
<1>8. p = q
  BY <1>4, <1>6, <1>7, SeqEqual DEF Texts
<1> QED
  BY <1>4, <1>7, <1>8 DEF p, q, w

\* A prefix is a word when it has its length and the word stands there.
LEMMA PrefixIsWord ==
  ASSUME NEW text \in Texts, NEW i \in 1 .. Len(text), NEW n \in 1 .. Len(text) - i + 1,
         NEW S, NEW word \in Seq(S)
  PROVE  SubSeq(Rest(text, i), 1, n) = word <=> Len(word) = n /\ StartsWith(text, i, word)
<1>1. i \in 1 .. Len(text) + 1
  BY DEF Texts
<1>2. StartsWith(text, i, word) <=>
        i + Len(word) - 1 <= Len(text) /\ \A k \in 1 .. Len(word) : text[i + k - 1] = word[k]
  BY <1>1, WordAt
<1>3. SubSeq(Rest(text, i), 1, n) = SubSeq(text, i, i + n - 1)
  BY PrefixOfRest
<1>4. Len(SubSeq(Rest(text, i), 1, n)) = n
  BY PrefixOfRest
<1>5. Len(word) = n => i + Len(word) - 1 <= Len(text) /\ i + Len(word) - 1 = i + n - 1
  BY DEF Texts
<1> QED
  BY <1>3, <1>4, <1>5 DEF StartsWith

Lengths(w, r) == Matches(w)[r].lengths

LEMMA LengthsAre ==
  ASSUME NEW w
  PROVE  /\ Lengths(w, 1) = {n \in 1 .. Len(w) : SubSeq(w, 1, n) \in FixedWords}
         /\ Lengths(w, 2) = {n \in 1 .. Len(w) : IsInteger(SubSeq(w, 1, n))}
         /\ Lengths(w, 3) = {n \in 1 .. Len(w) : IsIdentifier(SubSeq(w, 1, n))}
         /\ Lengths(w, 4) = {n \in 1 .. Len(w) : IsComment(SubSeq(w, 1, n))}
                              \cup {n \in 1 .. Len(w) : IsBlank(SubSeq(w, 1, n))}
         /\ Lengths(w, 5) = {n \in 1 .. Len(w) : IsAnyCharacter(SubSeq(w, 1, n))}
         /\ DOMAIN Matches(w) = 1 .. 5
         /\ Matches(w)[1].kind = "Fixed" /\ Matches(w)[2].kind = "IntLiteral"
         /\ Matches(w)[3].kind = "Identifier" /\ Matches(w)[4].kind = "Ignored"
         /\ Matches(w)[5].kind = "Invalid"
BY DEF Lengths, Matches, PrefixLengths

LEMMA LongestIs ==
  ASSUME NEW w, NEW r \in 1 .. 5, NEW n \in Lengths(w, r),
         \A q \in 1 .. 5 : Lengths(w, q) \subseteq Nat /\ \A m \in Lengths(w, q) : m <= n,
         \A q \in 1 .. r - 1 : n \notin Lengths(w, q)
  PROVE  Longest(w) = [kind |-> Matches(w)[r].kind, length |-> n]
<1> DEFINE all == UNION {Matches(w)[q].lengths : q \in DOMAIN Matches(w)}
           rules == {q \in DOMAIN Matches(w) : n \in Matches(w)[q].lengths}
<1>1. DOMAIN Matches(w) = 1 .. 5 /\ \A q \in 1 .. 5 : Matches(w)[q].lengths = Lengths(w, q)
  BY LengthsAre DEF Lengths
<1>2. all \subseteq Nat /\ n \in all /\ \A m \in all : m <= n
  BY <1>1
<1>3. rules \subseteq Nat /\ r \in rules /\ \A q \in rules : r <= q
  <2>1. rules \subseteq 1 .. 5 /\ r \in rules
    BY <1>1
  <2>2. \A q \in rules : q \notin 1 .. r - 1
    BY <1>1
  <2> HIDE DEF rules
  <2> QED  BY <2>1, <2>2
<1> HIDE DEF all, rules
<1>4. Max(all) = n
  BY <1>2, MaxIs
<1>5. Min(rules) = r
  BY <1>3, MinIs
<1> QED
  BY <1>4, <1>5 DEF Longest, all, rules

LEMMA CharactersOf ==
  ASSUME NEW s \in Texts
  PROVE  \A c : c \in ToSet(s) <=> \E k \in 1 .. Len(s) : s[k] = c
<1>1. DOMAIN s = 1 .. Len(s)
  BY DEF Texts
<1> QED
  BY <1>1 DEF ToSet

LEMMA OneCharacter ==
  ASSUME NEW s \in Texts, NEW c
  PROVE  s = <<c>> <=> Len(s) = 1 /\ s[1] = c
<1>1. ASSUME Len(s) = 1, s[1] = c
      PROVE  s = <<c>>
  <2>1. <<c>> \in Seq(STRING \cup {c}) /\ Len(<<c>>) = 1 /\ <<c>>[1] = c
    OBVIOUS
  <2>2. s \in Seq(STRING \cup {c})
    BY SeqMonotonic DEF Texts
  <2>3. \A k \in 1 .. Len(s) : s[k] = <<c>>[k]
    BY <1>1
  <2> HIDE <1>1
  <2> QED  BY <1>1, <2>1, <2>2, <2>3, SeqEqual
<1> QED
  BY <1>1

LEMMA DoubledWords ==
  ASSUME NEW d
  PROVE  d \in ToSet(Doubled) <=> \E c \in {"&", "|", "="} : d = <<c, c>>
<1>1. DOMAIN Doubled = 1 .. 3 /\ Doubled[1] = <<"&", "&">> /\ Doubled[2] = <<"|", "|">> /\ Doubled[3] = <<"=", "=">>
  BY DEF Doubled
<1>2. d \in ToSet(Doubled) <=> d = Doubled[1] \/ d = Doubled[2] \/ d = Doubled[3]
  BY <1>1 DEF ToSet
<1> QED
  BY <1>1, <1>2

LEMMA FixedAt ==
  ASSUME NEW text \in Texts, NEW i \in 1 .. Len(text), NEW n \in 1 .. Len(text) - i + 1
  PROVE  n \in Lengths(Rest(text, i), 1) <=>
           \/ Len(Println) = n /\ StartsWith(text, i, Println)
           \/ \E d \in ToSet(Doubled) : n = 2 /\ StartsWith(text, i, d)
           \/ \E w \in Keywords : Len(w) = n /\ StartsWith(text, i, w)
           \/ n = 1 /\ text[i] \in Single
<1> DEFINE p == SubSeq(Rest(text, i), 1, n)
<1>1. n \in Lengths(Rest(text, i), 1) <=> p \in FixedWords
  BY LengthsAre, RestOfText
<1>2. p = Println <=> Len(Println) = n /\ StartsWith(text, i, Println)
  BY LexerAssumption, PrefixIsWord
<1>3. ASSUME NEW d \in ToSet(Doubled)
      PROVE  p = d <=> n = 2 /\ StartsWith(text, i, d)
  <2>1. PICK c : d = <<c, c>>
    BY DoubledWords
  <2>2. d \in Seq({c}) /\ Len(d) = 2
    BY <2>1
  <2> DEFINE S == {c}
  <2> HIDE DEF S, p
  <2>4. d \in Seq(S)
    BY <2>2 DEF S
  <2>3. p = d <=> Len(d) = n /\ StartsWith(text, i, d)
    BY <2>4, PrefixIsWord DEF p
  <2> QED  BY <2>2, <2>3
<1>4. \A w \in Keywords : p = w <=> Len(w) = n /\ StartsWith(text, i, w)
  BY LexerAssumption, PrefixIsWord
<1>5. (\E c \in Single : p = <<c>>) <=> n = 1 /\ text[i] \in Single
  <2>1. Len(p) = n /\ p[1] = text[i + 1 - 1] /\ p \in Texts
    BY PrefixOfRest
  <2>2. text[i + 1 - 1] = text[i]
    OBVIOUS
  <2> HIDE DEF p
  <2>3. \A c : p = <<c>> <=> n = 1 /\ p[1] = c
    BY <2>1, OneCharacter
  <2> QED  BY <2>1, <2>2, <2>3
<1> HIDE DEF p
<1> QED
  BY <1>1, <1>2, <1>3, <1>4, <1>5 DEF FixedWords

LEMMA IntegersAt ==
  ASSUME NEW text \in Texts, NEW i \in 1 .. Len(text), NEW n \in 1 .. Len(text) - i + 1
  PROVE  n \in Lengths(Rest(text, i), 2) <=>
           \/ n = 1 /\ text[i] = "0"
           \/ text[i] \in Digit \ {"0"} /\ RunOf(text, i, n, Digit)
<1> DEFINE p == SubSeq(Rest(text, i), 1, n)
<1>1. n \in Lengths(Rest(text, i), 2) <=> IsInteger(p)
  BY LengthsAre, RestOfText
<1>2. Len(p) = n /\ p \in Texts /\ \A k \in 1 .. n : p[k] = text[i + k - 1]
  BY PrefixOfRest
<1> HIDE DEF p
<1>3. p[1] = text[i] /\ Head(p) = p[1] /\ n \in Nat /\ n >= 1
  BY <1>2 DEF Texts
<1>4. p = <<"0">> <=> n = 1 /\ text[i] = "0"
  BY <1>2, <1>3, OneCharacter
<1>5. ToSet(p) \subseteq Digit <=> RunOf(text, i, n, Digit)
  <2>1. \A c : c \in ToSet(p) <=> \E k \in 1 .. n : p[k] = c
    BY <1>2, CharactersOf
  <2>2. \A k \in 1 .. n : p[k] \in ToSet(p)
    BY <2>1
  <2>3. RunOf(text, i, n, Digit) <=> \A k \in 1 .. n : p[k] \in Digit
    BY <1>2 DEF RunOf
  <2> QED  BY <2>1, <2>2, <2>3
<1> QED
  BY <1>1, <1>3, <1>4, <1>5 DEF IsInteger

LEMMA IdentifiersAt ==
  ASSUME NEW text \in Texts, NEW i \in 1 .. Len(text), NEW n \in 1 .. Len(text) - i + 1
  PROVE  n \in Lengths(Rest(text, i), 3) <=> text[i] \in Alpha /\ RunOf(text, i, n, IdentContinue)
<1> DEFINE p == SubSeq(Rest(text, i), 1, n)
<1>1. n \in Lengths(Rest(text, i), 3) <=> IsIdentifier(p)
  BY LengthsAre, RestOfText
<1>2. Len(p) = n /\ p \in Texts /\ \A k \in 1 .. n : p[k] = text[i + k - 1]
  BY PrefixOfRest
<1> HIDE DEF p
<1>3. p[1] = text[i] /\ Head(p) = p[1]
  BY <1>2 DEF Texts
<1>4. ToSet(p) \subseteq IdentContinue <=> RunOf(text, i, n, IdentContinue)
  <2>1. \A c : c \in ToSet(p) <=> \E k \in 1 .. n : p[k] = c
    BY <1>2, CharactersOf
  <2>2. \A k \in 1 .. n : p[k] \in ToSet(p)
    BY <2>1
  <2>3. RunOf(text, i, n, IdentContinue) <=> \A k \in 1 .. n : p[k] \in IdentContinue
    BY <1>2 DEF RunOf
  <2> QED  BY <2>1, <2>2, <2>3
<1> QED
  BY <1>1, <1>3, <1>4 DEF IsIdentifier

LEMMA IgnoredAt ==
  ASSUME NEW text \in Texts, NEW i \in 1 .. Len(text), NEW n \in 1 .. Len(text) - i + 1
  PROVE  n \in Lengths(Rest(text, i), 4) <=>
           \/ /\ n > 1 /\ text[i] = "/" /\ text[i + 1] = "/"
              /\ \A k \in 1 .. n : text[i + k - 1] # "\n"
           \/ n = 1 /\ text[i] \in Blank
<1> DEFINE p == SubSeq(Rest(text, i), 1, n)
<1>1. n \in Lengths(Rest(text, i), 4) <=> IsComment(p) \/ IsBlank(p)
  BY LengthsAre, RestOfText
<1>2. Len(p) = n /\ p \in Texts /\ \A k \in 1 .. n : p[k] = text[i + k - 1]
  BY PrefixOfRest
<1> HIDE DEF p
<1>3. p[1] = text[i] /\ (n > 1 => p[2] = text[i + 1])
  BY <1>2 DEF Texts
<1>4. "\n" \notin ToSet(p) <=> \A k \in 1 .. n : text[i + k - 1] # "\n"
  <2>1. \A c : c \in ToSet(p) <=> \E k \in 1 .. n : p[k] = c
    BY <1>2, CharactersOf
  <2> QED  BY <1>2, <2>1
<1>5. ASSUME n > 1
      PROVE  SubSeq(p, 1, 2) = <<"/", "/">> <=> text[i] = "/" /\ text[i + 1] = "/"
  <2> DEFINE q == SubSeq(p, 1, 2)
  <2>1. \A k \in 1 .. 2 : p[k] \in STRING
    BY <1>2, <1>5 DEF Texts
  <2>2. q \in Texts /\ Len(q) = 2 /\ \A k \in 1 .. 2 : q[k] = p[1 + k - 1]
    BY <2>1, SubSeqProperties DEF Texts
  <2> HIDE DEF q
  <2>3. q[1] = text[i] /\ q[2] = text[i + 1]
    BY <1>3, <1>5, <2>2
  <2>4. q = <<"/", "/">> <=> q[1] = "/" /\ q[2] = "/"
    BY <2>2 DEF Texts
  <2> QED  BY <2>3, <2>4 DEF q
<1> QED
  BY <1>1, <1>2, <1>3, <1>4, <1>5 DEF IsComment, IsBlank

LEMMA AnyAt ==
  ASSUME NEW text \in Texts, NEW i \in 1 .. Len(text), NEW n \in 1 .. Len(text) - i + 1
  PROVE  n \in Lengths(Rest(text, i), 5) <=> n = 1
<1>1. Len(SubSeq(Rest(text, i), 1, n)) = n
  BY PrefixOfRest
<1>2. n \in Lengths(Rest(text, i), 5) <=> IsAnyCharacter(SubSeq(Rest(text, i), 1, n))
  BY LengthsAre, RestOfText
<1> QED
  BY <1>1, <1>2 DEF IsAnyCharacter

LEMMA LengthsBounded ==
  ASSUME NEW text \in Texts, NEW i \in 1 .. Len(text), NEW r \in 1 .. 5
  PROVE  Lengths(Rest(text, i), r) \subseteq 1 .. Len(text) - i + 1
<1> DEFINE w == Rest(text, i)
<1>1. Len(w) = Len(text) - i + 1
  BY RestOfText
<1> HIDE DEF w
<1>2. /\ Lengths(w, 1) \subseteq 1 .. Len(w) /\ Lengths(w, 2) \subseteq 1 .. Len(w)
      /\ Lengths(w, 3) \subseteq 1 .. Len(w) /\ Lengths(w, 4) \subseteq 1 .. Len(w)
      /\ Lengths(w, 5) \subseteq 1 .. Len(w)
  BY LengthsAre
<1>3. r = 1 \/ r = 2 \/ r = 3 \/ r = 4 \/ r = 5
  OBVIOUS
<1>4. Lengths(w, r) \subseteq 1 .. Len(w)
  BY <1>2, <1>3
<1> QED
  BY <1>1, <1>4 DEF w

LEMMA LongestAt ==
  ASSUME NEW text \in Texts, NEW i \in 1 .. Len(text),
         NEW r \in 1 .. 5, NEW n \in Lengths(Rest(text, i), r),
         \A q \in 1 .. 5 : \A m \in 1 .. Len(text) - i + 1 :
           m \in Lengths(Rest(text, i), q) => m <= n /\ (m = n => r <= q)
  PROVE  Longest(Rest(text, i)) = [kind |-> Matches(Rest(text, i))[r].kind, length |-> n]
<1> DEFINE w == Rest(text, i)
<1>1. \A q \in 1 .. 5 : Lengths(w, q) \subseteq 1 .. Len(text) - i + 1
  BY LengthsBounded
<1>2. n \in 1 .. Len(text) - i + 1
  BY <1>1
<1> HIDE DEF w
<1>3. \A q \in 1 .. 5 : Lengths(w, q) \subseteq Nat
  BY <1>1 DEF Texts
<1>4. \A q \in 1 .. 5 : \A m \in Lengths(w, q) : m <= n
  BY <1>1 DEF w
<1>5. \A q \in 1 .. r - 1 : n \notin Lengths(w, q)
  BY <1>2 DEF w
<1> QED
  BY <1>3, <1>4, <1>5, LongestIs DEF w

\* A word that stands at a position.
LEMMA WordStands ==
  ASSUME NEW text \in Texts, NEW i \in 1 .. Len(text),
         NEW S, NEW word \in Seq(S), word # <<>>, StartsWith(text, i, word)
  PROVE  /\ Len(word) \in 1 .. Len(text) - i + 1
         /\ text[i] = word[1]
         /\ \A k \in 1 .. Len(word) : text[i + k - 1] = word[k]
<1>1. i \in 1 .. Len(text) + 1
  BY DEF Texts
<1>2. i + Len(word) - 1 <= Len(text) /\ \A k \in 1 .. Len(word) : text[i + k - 1] = word[k]
  BY <1>1, WordAt
<1>3. Len(word) \in Nat /\ Len(word) >= 1 /\ Len(text) \in Nat
  BY DEF Texts
<1>4. text[i + 1 - 1] = word[1] /\ i + 1 - 1 = i
  BY <1>2, <1>3
<1> QED
  BY <1>2, <1>3, <1>4

PrintlnAt(text, i) == StartsWith(text, i, Println)
KeywordAt(text, i, w) == w \in Keywords /\ StartsWith(text, i, w)
DoubledAt(text, i, c) == c \in {"&", "|", "="} /\ StartsWith(text, i, <<c, c>>)

LEMMA PrintlnStands ==
  ASSUME NEW text \in Texts, NEW i \in 1 .. Len(text), PrintlnAt(text, i)
  PROVE  /\ Len(Println) \in 1 .. Len(text) - i + 1 /\ text[i] \in Alpha
         /\ \E k \in 1 .. Len(Println) : text[i + k - 1] \notin IdentContinue
<1>1. Println \in Seq(STRING) /\ Println # <<>>
  BY LexerAssumption
<1>2. \E k \in 1 .. Len(Println) : Println[k] \notin IdentContinue
  BY LexerAssumption, CharactersOf DEF Texts
<1>3. /\ Len(Println) \in 1 .. Len(text) - i + 1
      /\ text[i] = Println[1]
      /\ \A k \in 1 .. Len(Println) : text[i + k - 1] = Println[k]
  BY <1>1, WordStands DEF PrintlnAt
<1> QED
  BY <1>2, <1>3, LexerAssumption

LEMMA KeywordStands ==
  ASSUME NEW text \in Texts, NEW i \in 1 .. Len(text), NEW w, KeywordAt(text, i, w)
  PROVE  /\ Len(w) \in 1 .. Len(text) - i + 1 /\ text[i] \in Alpha
         /\ RunOf(text, i, Len(w), IdentContinue)
<1>1. w \in Seq(IdentContinue) /\ w # <<>> /\ w[1] \in Alpha
  BY LexerAssumption DEF KeywordAt
<1>2. /\ Len(w) \in 1 .. Len(text) - i + 1
      /\ text[i] = w[1]
      /\ \A k \in 1 .. Len(w) : text[i + k - 1] = w[k]
  BY <1>1, WordStands DEF KeywordAt
<1>3. \A k \in 1 .. Len(w) : w[k] \in IdentContinue
  BY <1>1
<1>4. RunOf(text, i, Len(w), IdentContinue)
  BY <1>2, <1>3 DEF RunOf
<1> QED
  BY <1>1, <1>2, <1>4

LEMMA DoubledStands ==
  ASSUME NEW text \in Texts, NEW i \in 1 .. Len(text), NEW c, DoubledAt(text, i, c)
  PROVE  2 \in 1 .. Len(text) - i + 1 /\ text[i] = c /\ c \in {"&", "|", "="}
<1>1. <<c, c>> \in Seq({c}) /\ Len(<<c, c>>) = 2 /\ <<c, c>> # <<>> /\ <<c, c>>[1] = c
  OBVIOUS
<1> DEFINE d == <<c, c>>
           S == {c}
<1>2. StartsWith(text, i, d) /\ c \in {"&", "|", "="}
  BY DEF DoubledAt
<1> HIDE DEF d, S
<1>3. d \in Seq(S) /\ Len(d) = 2 /\ d # <<>> /\ d[1] = c
  BY <1>1 DEF d, S
<1>4. Len(d) \in 1 .. Len(text) - i + 1 /\ text[i] = d[1]
  BY <1>2, <1>3, WordStands
<1> QED
  BY <1>2, <1>3, <1>4

LEMMA FixedLengths ==
  ASSUME NEW text \in Texts, NEW i \in 1 .. Len(text), NEW n \in 1 .. Len(text) - i + 1
  PROVE  n \in Lengths(Rest(text, i), 1) <=>
           \/ n = Len(Println) /\ PrintlnAt(text, i)
           \/ \E c : n = 2 /\ DoubledAt(text, i, c)
           \/ \E w : n = Len(w) /\ KeywordAt(text, i, w)
           \/ n = 1 /\ text[i] \in Single
<1>1. (\E d \in ToSet(Doubled) : n = 2 /\ StartsWith(text, i, d)) <=> \E c : n = 2 /\ DoubledAt(text, i, c)
  BY DoubledWords DEF DoubledAt
<1> QED
  BY <1>1, FixedAt DEF PrintlnAt, KeywordAt

-----------------------------------------------------------------------------
(***************************************************************************)
(* What the lexer recognizes at one position.                              *)
(***************************************************************************)
Spelled(text, i) == SpelledAt(text, i, {Println} \cup ToSet(Doubled))

LEMMA SpelledWords ==
  ASSUME NEW text \in Texts, NEW i \in 1 .. Len(text), NEW w
  PROVE  w \in Spelled(text, i) <=>
           (w = Println /\ PrintlnAt(text, i)) \/ (\E c : w = <<c, c>> /\ DoubledAt(text, i, c))
BY DoubledWords DEF Spelled, SpelledAt, PrintlnAt, DoubledAt

LEMMA TokenOfPrintln ==
  ASSUME NEW text \in Texts, NEW i \in 1 .. Len(text), PrintlnAt(text, i)
  PROVE  TokenAt(text, i) = Token("Fixed", i, i + Len(Println))
<1>1. text[i] \in Alpha
  BY PrintlnStands
<1>2. \A c : ~DoubledAt(text, i, c)
  BY <1>1, DoubledStands, CharacterClasses DEF IdentContinue
<1>3. Spelled(text, i) = {Println}
  BY <1>2, SpelledWords
<1>4. (CHOOSE w \in {Println} : TRUE) = Println
  OBVIOUS
<1>5. ~(i > Len(text))
  BY DEF Texts
<1>6. Recognize(text, i, {Println}) = Token("Fixed", i, i + Len(CHOOSE w \in {Println} : TRUE))
  BY <1>5 DEF Recognize
<1> QED
  BY <1>3, <1>4, <1>6 DEF TokenAt, Spelled

LEMMA TokenOfDoubled ==
  ASSUME NEW text \in Texts, NEW i \in 1 .. Len(text), NEW c, DoubledAt(text, i, c)
  PROVE  TokenAt(text, i) = Token("Fixed", i, i + 2)
<1>1. text[i] = c /\ c \in {"&", "|", "="}
  BY DoubledStands
<1>2. ~PrintlnAt(text, i)
  <2>1. c \notin Alpha
    BY <1>1, CharacterClasses DEF IdentContinue
  <2> QED  BY <1>1, <2>1, PrintlnStands
<1>3. \A e : DoubledAt(text, i, e) <=> e = c
  BY <1>1, DoubledStands
<1> DEFINE d == <<c, c>>
<1>4. Spelled(text, i) = {d}
  BY <1>2, <1>3, SpelledWords
<1>5. (CHOOSE w \in {d} : TRUE) = d /\ Len(d) = 2
  OBVIOUS
<1>6. ~(i > Len(text))
  BY DEF Texts
<1> HIDE DEF d
<1>7. Recognize(text, i, {d}) = Token("Fixed", i, i + Len(CHOOSE w \in {d} : TRUE))
  BY <1>6 DEF Recognize
<1> QED
  BY <1>4, <1>5, <1>7 DEF TokenAt, Spelled

Plainly(text, i) == ~PrintlnAt(text, i) /\ \A c : ~DoubledAt(text, i, c)

LEMMA TokenPlainly ==
  ASSUME NEW text \in Texts, NEW i \in 1 .. Len(text), Plainly(text, i)
  PROVE  /\ text[i] \in Single => TokenAt(text, i) = Token("Fixed", i, i + 1)
         /\ text[i] = "0" => TokenAt(text, i) = Token("IntLiteral", i, i + 1)
         /\ text[i] \in Digit \ {"0"} =>
              TokenAt(text, i) = Token("IntLiteral", i, RunEnd(text, i, Digit))
         /\ text[i] \in Alpha =>
              LET end == RunEnd(text, i, IdentContinue) IN
              TokenAt(text, i) =
                Token(IF SubSeq(text, i, end - 1) \in Keywords THEN "Fixed" ELSE "Identifier", i, end)
         /\ text[i] \notin Single \cup Digit \cup Alpha => TokenAt(text, i) = Token("Invalid", i, i + 1)
<1>1. Spelled(text, i) = {}
  BY SpelledWords DEF Plainly
<1>2. ~(i > Len(text))
  BY DEF Texts
<1>3. TokenAt(text, i) = Recognize(text, i, {})
  BY <1>1 DEF TokenAt, Spelled
<1>4. /\ text[i] \in Single => text[i] \notin Digit \cup Alpha
      /\ text[i] \in Alpha => text[i] \notin Digit
      /\ "0" \in Digit
  BY CharacterClasses DEF IdentContinue
<1>5. TokenAt(text, i) =
        LET word == RunEnd(text, i, IdentContinue) IN
        IF text[i] \in Single THEN Token("Fixed", i, i + 1)
        ELSE IF text[i] = "0" THEN Token("IntLiteral", i, i + 1)
        ELSE IF text[i] \in Digit THEN Token("IntLiteral", i, RunEnd(text, i, Digit))
        ELSE IF text[i] \in Alpha
             THEN Token(IF SubSeq(text, i, word - 1) \in Keywords THEN "Fixed" ELSE "Identifier", i, word)
        ELSE Token("Invalid", i, i + 1)
  BY <1>2, <1>3 DEF Recognize
<1> QED
  BY <1>4, <1>5

-----------------------------------------------------------------------------
(***************************************************************************)
(* The longest match at one position is trivia where the lexer skips, and  *)
(* the token that the lexer recognizes where it does not.                  *)
(***************************************************************************)
Agree(text, i) ==
  LET match == Longest(Rest(text, i)) IN
  IF Trivial(text, i) THEN match = [kind |-> "Ignored", length |-> Behind(text, i) - i]
  ELSE /\ TokenAt(text, i) = Token(match.kind, i, i + match.length)
       /\ match.kind # "Ignored"
       /\ match.length \in 1 .. Len(text) - i + 1

\* No rule but one of these begins with such a character.
LEMMA NoOtherRule ==
  ASSUME NEW text \in Texts, NEW i \in 1 .. Len(text), NEW m \in 1 .. Len(text) - i + 1
  PROVE  /\ m \in Lengths(Rest(text, i), 1) => text[i] \in Alpha \cup Single \cup {"&", "|"}
         /\ m \in Lengths(Rest(text, i), 1) /\ text[i] \notin Alpha =>
              (\E c : m = 2 /\ DoubledAt(text, i, c)) \/ (m = 1 /\ text[i] \in Single)
         /\ m \in Lengths(Rest(text, i), 2) => text[i] \in Digit
         /\ m \in Lengths(Rest(text, i), 3) => text[i] \in Alpha
         /\ m \in Lengths(Rest(text, i), 4) => Trivial(text, i) /\ text[i] \in Blank \cup {"/"}
         /\ m \in Lengths(Rest(text, i), 5) <=> m = 1
<1>1. /\ PrintlnAt(text, i) => text[i] \in Alpha
      /\ \A w : KeywordAt(text, i, w) => text[i] \in Alpha
      /\ \A c : DoubledAt(text, i, c) => text[i] \in {"&", "|", "="}
  BY PrintlnStands, KeywordStands, DoubledStands
<1>2. "=" \in Single /\ "0" \in Digit
  BY CharacterClasses
<1>3. m > 1 /\ text[i] = "/" /\ text[i + 1] = "/" => StartsWith(text, i, Slashes)
  <2>1. m > 1 => i < Len(text) /\ i \in 1 .. Len(text) + 1
    BY DEF Texts
  <2> QED  BY <2>1, Comments
<1>4. m \in Lengths(Rest(text, i), 4) => Trivial(text, i) /\ text[i] \in Blank \cup {"/"}
  BY <1>3, IgnoredAt DEF Trivial, Texts
<1>5. m \in Lengths(Rest(text, i), 1) =>
        \/ text[i] \in Alpha
        \/ \E c : m = 2 /\ DoubledAt(text, i, c)
        \/ m = 1 /\ text[i] \in Single
  BY <1>1, FixedLengths
<1>6. m \in Lengths(Rest(text, i), 1) => text[i] \in Alpha \cup Single \cup {"&", "|"}
  BY <1>1, <1>2, <1>5
<1> QED
  BY <1>2, <1>4, <1>5, <1>6, IntegersAt, IdentifiersAt, AnyAt

LEMMA AgreeTrivial ==
  ASSUME NEW text \in Texts, NEW i \in 1 .. Len(text), Trivial(text, i)
  PROVE  Agree(text, i)
<1> DEFINE w == Rest(text, i)
           M == Len(text) - i + 1
           n == Behind(text, i) - i
<1>1. Matches(w)[4].kind = "Ignored" /\ Len(text) \in Nat
  <2>1. Matches(w)[4].kind = "Ignored"
    BY LengthsAre
  <2> QED  BY <2>1 DEF Texts
<1>2. n \in 1 .. M /\ Behind(text, i) \in i + 1 .. Len(text) + 1
  BY BehindTrivia DEF Texts
<1>3. CASE text[i] \in Blank
  <2>1. n = 1
    BY <1>3 DEF Behind, Texts
  <2>2. n \in Lengths(w, 4)
    BY <1>2, <1>3, <2>1, IgnoredAt
  <2>3. text[i] \notin Single \cup IdentContinue \cup {"&", "|"} /\ "/" \in Single
    BY <1>3, CharacterClasses
  <2>4. text[i] \notin Alpha /\ text[i] \notin Digit /\ text[i] # "/"
    BY <2>3 DEF IdentContinue
  <2>5. ASSUME NEW q \in 1 .. 5, NEW m \in 1 .. M, m \in Lengths(w, q)
        PROVE  m <= n /\ (m = n => 4 <= q)
    <3>1. q # 1 /\ q # 2 /\ q # 3
      BY <2>3, <2>4, <2>5, NoOtherRule
    <3>2. q = 4 => m = 1
      BY <2>4, <2>5, IgnoredAt
    <3>3. q = 5 => m = 1
      BY <2>5, NoOtherRule
    <3> QED  BY <2>1, <3>1, <3>2, <3>3
  <2> HIDE DEF n
  <2>6. Longest(w) = [kind |-> Matches(w)[4].kind, length |-> n]
    BY <2>2, <2>5, LongestAt
  <2> QED  BY <1>1, <2>6 DEF Agree, n
<1>4. CASE text[i] \notin Blank
  <2>1. StartsWith(text, i, Slashes) /\ Behind(text, i) = LineEnd(text, i)
    BY <1>4 DEF Trivial, Behind
  <2>2. i < Len(text) /\ text[i] = "/" /\ text[i + 1] = "/" /\ i \in 1 .. Len(text) + 1
    BY <2>1, Comments DEF Texts
  <2>3. /\ \A k \in i .. i + n - 1 : text[k] # "\n"
        /\ i + n <= Len(text) => text[i + n] = "\n"
    BY <1>2, <2>1, <2>2, LineEnds DEF Texts
  <2>4. n > 1
    <3>1. text[i + 1] # "\n" /\ i + 1 <= Len(text)
      BY <2>2 DEF Texts
    <3>2. n = 1 => text[i + 1] = "\n"
      BY <2>3, <3>1
    <3> QED  BY <1>2, <3>1, <3>2
  <2> HIDE DEF n
  <2>5. \A k \in 1 .. n : text[i + k - 1] # "\n"
    BY <1>2, <2>3 DEF Texts
  <2>6. n \in Lengths(w, 4)
    BY <1>2, <2>2, <2>4, <2>5, IgnoredAt
  <2>7. text[i] \notin IdentContinue \cup {"&", "|", "="}
    <3>1. "/" \in Single
      BY CharacterClasses
    <3> QED  BY <2>2, <3>1, CharacterClasses
  <2>8. ASSUME NEW q \in 1 .. 5, NEW m \in 1 .. M, m \in Lengths(w, q)
        PROVE  m <= n /\ (m = n => 4 <= q)
    <3>1. text[i] \notin Alpha /\ text[i] \notin Digit
      BY <2>7 DEF IdentContinue
    <3>2. q # 2 /\ q # 3
      BY <2>8, <3>1, NoOtherRule
    <3>3. q = 1 => m = 1
      <4>1. \A c : ~DoubledAt(text, i, c)
        BY <2>7, DoubledStands
      <4> QED  BY <2>8, <3>1, <4>1, NoOtherRule
    <3>4. q = 5 => m = 1
      BY <2>8, NoOtherRule
    <3>5. q = 4 => m <= n
      <4> SUFFICES ASSUME q = 4, m > n
                   PROVE  FALSE
        BY <1>2 DEF Texts
      <4>1. m > 1
        BY <1>2, <2>4 DEF Texts
      <4>2. m \in Lengths(w, 4)
        BY <2>8
      <4>3. \A k \in 1 .. m : text[i + k - 1] # "\n"
        <5>1. m \in Lengths(w, 4) <=>
                \/ /\ m > 1 /\ text[i] = "/" /\ text[i + 1] = "/"
                   /\ \A k \in 1 .. m : text[i + k - 1] # "\n"
                \/ m = 1 /\ text[i] \in Blank
          BY IgnoredAt
        <5>2. m # 1
          BY <4>1
        <5> QED  BY <4>2, <5>1, <5>2, Zenon
      <4>4. n + 1 \in 1 .. m /\ i + (n + 1) - 1 = i + n
        BY <1>2 DEF Texts
      <4>5. text[i + n] # "\n"
        BY <4>3, <4>4
      <4>6. i + n <= Len(text)
        BY <1>2 DEF Texts
      <4> QED  BY <2>3, <4>5, <4>6
    <3> QED  BY <1>2, <2>4, <3>2, <3>3, <3>4, <3>5
  <2>9. Longest(w) = [kind |-> Matches(w)[4].kind, length |-> n]
    BY <2>6, <2>8, LongestAt
  <2> QED  BY <1>1, <2>9 DEF Agree, n
<1> QED
  BY <1>3, <1>4

LEMMA AgreePrintln ==
  ASSUME NEW text \in Texts, NEW i \in 1 .. Len(text), ~Trivial(text, i), PrintlnAt(text, i)
  PROVE  Agree(text, i)
<1> DEFINE w == Rest(text, i)
           M == Len(text) - i + 1
           n == Len(Println)
<1>1. Matches(w)[1].kind = "Fixed"
  BY LengthsAre
<1>2. n \in 1 .. M /\ text[i] \in Alpha
  BY PrintlnStands
<1>3. PICK k \in 1 .. n : text[i + k - 1] \notin IdentContinue
  BY PrintlnStands
<1>4. n \in Lengths(w, 1)
  BY <1>2, FixedLengths
<1>5. text[i] \notin Digit /\ text[i] \notin Single /\ text[i] \notin {"&", "|", "="}
  <2>1. "=" \in Single
    BY CharacterClasses
  <2> QED  BY <1>2, <2>1, CharacterClasses DEF IdentContinue
<1>6. ASSUME NEW m \in 1 .. M, RunOf(text, i, m, IdentContinue)
      PROVE  m < k
  BY <1>3, <1>6 DEF RunOf, Texts
<1>7. ASSUME NEW q \in 1 .. 5, NEW m \in 1 .. M, m \in Lengths(w, q)
      PROVE  m <= n /\ (m = n => 1 <= q)
  <2>1. q # 2 /\ q # 4
    BY <1>5, <1>7, NoOtherRule
  <2>2. q = 3 => m < k
    BY <1>6, <1>7, IdentifiersAt
  <2>3. q = 5 => m = 1
    BY <1>7, NoOtherRule
  <2>4. q = 1 => m = n \/ m < k
    <3>1. \A c : ~DoubledAt(text, i, c)
      BY <1>5, DoubledStands
    <3>2. \A word : m = Len(word) /\ KeywordAt(text, i, word) => m < k
      BY <1>6, KeywordStands
    <3> QED  BY <1>5, <1>7, <3>1, <3>2, FixedLengths
  <2>5. n \in Nat /\ m \in Nat /\ k \in Nat /\ k <= n /\ n >= 1
    BY <1>2, <1>3 DEF Texts
  <2> HIDE DEF n
  <2> QED  BY <2>1, <2>2, <2>3, <2>4, <2>5
<1> HIDE DEF n
<1>8. Longest(w) = [kind |-> Matches(w)[1].kind, length |-> n]
  BY <1>4, <1>7, LongestAt
<1>9. TokenAt(text, i) = Token("Fixed", i, i + n)
  BY TokenOfPrintln DEF n
<1> QED
  BY <1>1, <1>2, <1>8, <1>9 DEF Agree

LEMMA AgreeDoubled ==
  ASSUME NEW text \in Texts, NEW i \in 1 .. Len(text), ~Trivial(text, i),
         NEW c, DoubledAt(text, i, c)
  PROVE  Agree(text, i)
<1> DEFINE w == Rest(text, i)
           M == Len(text) - i + 1
<1>1. Matches(w)[1].kind = "Fixed"
  BY LengthsAre
<1>2. 2 \in 1 .. M /\ text[i] = c /\ c \in {"&", "|", "="}
  BY DoubledStands
<1>3. 2 \in Lengths(w, 1)
  BY <1>2, FixedLengths
<1>4. text[i] \notin Alpha /\ text[i] \notin Digit
  <2>1. "=" \in Single
    BY CharacterClasses
  <2>2. text[i] \notin IdentContinue
    BY <1>2, <2>1, CharacterClasses
  <2> QED  BY <2>2 DEF IdentContinue
<1>5. ASSUME NEW q \in 1 .. 5, NEW m \in 1 .. M, m \in Lengths(w, q)
      PROVE  m <= 2 /\ (m = 2 => 1 <= q)
  <2>1. q # 2 /\ q # 3 /\ q # 4
    BY <1>4, <1>5, NoOtherRule
  <2>2. q = 1 => m \in {1, 2}
    BY <1>4, <1>5, NoOtherRule
  <2>3. q = 5 => m = 1
    BY <1>5, NoOtherRule
  <2> QED  BY <2>1, <2>2, <2>3
<1>6. Longest(w) = [kind |-> Matches(w)[1].kind, length |-> 2]
  BY <1>3, <1>5, LongestAt
<1>7. TokenAt(text, i) = Token("Fixed", i, i + 2)
  BY TokenOfDoubled
<1> QED
  BY <1>1, <1>2, <1>6, <1>7 DEF Agree

LEMMA AgreeSingle ==
  ASSUME NEW text \in Texts, NEW i \in 1 .. Len(text), ~Trivial(text, i), Plainly(text, i),
         text[i] \in Single
  PROVE  Agree(text, i)
<1> DEFINE w == Rest(text, i)
           M == Len(text) - i + 1
<1>1. Matches(w)[1].kind = "Fixed"
  BY LengthsAre
<1>2. 1 \in 1 .. M
  BY DEF Texts
<1>3. text[i] \notin Alpha /\ text[i] \notin Digit
  BY CharacterClasses DEF IdentContinue
<1>4. 1 \in Lengths(w, 1)
  BY <1>2, FixedLengths
<1>5. ASSUME NEW q \in 1 .. 5, NEW m \in 1 .. M, m \in Lengths(w, q)
      PROVE  m <= 1 /\ (m = 1 => 1 <= q)
  <2>1. q # 2 /\ q # 3 /\ q # 4
    BY <1>3, <1>5, NoOtherRule
  <2>2. q = 1 => m = 1
    BY <1>3, <1>5, NoOtherRule DEF Plainly
  <2>3. q = 5 => m = 1
    BY <1>5, NoOtherRule
  <2> QED  BY <2>1, <2>2, <2>3
<1>6. Longest(w) = [kind |-> Matches(w)[1].kind, length |-> 1]
  BY <1>4, <1>5, LongestAt
<1>7. TokenAt(text, i) = Token("Fixed", i, i + 1)
  BY TokenPlainly
<1> QED
  BY <1>1, <1>2, <1>6, <1>7 DEF Agree

LEMMA AgreeZero ==
  ASSUME NEW text \in Texts, NEW i \in 1 .. Len(text), ~Trivial(text, i), Plainly(text, i),
         text[i] = "0"
  PROVE  Agree(text, i)
<1> DEFINE w == Rest(text, i)
           M == Len(text) - i + 1
<1>1. Matches(w)[2].kind = "IntLiteral"
  BY LengthsAre
<1>2. 1 \in 1 .. M
  BY DEF Texts
<1>3. text[i] \notin Alpha /\ text[i] \notin Single /\ text[i] \in Digit
  BY CharacterClasses DEF IdentContinue
<1>4. 1 \in Lengths(w, 2)
  BY <1>2, IntegersAt
<1>5. ASSUME NEW q \in 1 .. 5, NEW m \in 1 .. M, m \in Lengths(w, q)
      PROVE  m <= 1 /\ (m = 1 => 2 <= q)
  <2>1. q # 1 /\ q # 3 /\ q # 4
    BY <1>3, <1>5, NoOtherRule DEF Plainly
  <2>2. q = 2 => m = 1
    BY <1>5, IntegersAt
  <2>3. q = 5 => m = 1
    BY <1>5, NoOtherRule
  <2> QED  BY <2>1, <2>2, <2>3
<1>6. Longest(w) = [kind |-> Matches(w)[2].kind, length |-> 1]
  BY <1>4, <1>5, LongestAt
<1>7. TokenAt(text, i) = Token("IntLiteral", i, i + 1)
  BY TokenPlainly
<1> QED
  BY <1>1, <1>2, <1>6, <1>7 DEF Agree

\* The run of a set of characters at a position is the longest.
LEMMA LongestRun ==
  ASSUME NEW text \in Texts, NEW i \in 1 .. Len(text), NEW chars, text[i] \in chars
  PROVE  LET n == RunEnd(text, i, chars) - i IN
         /\ n \in 1 .. Len(text) - i + 1
         /\ RunOf(text, i, n, chars)
         /\ \A m \in 1 .. Len(text) - i + 1 : RunOf(text, i, m, chars) => m <= n
<1> DEFINE e == RunEnd(text, i, chars)
           n == e - i
<1>1. /\ e \in i .. Len(text) + 1
      /\ \A k \in i .. e - 1 : text[k] \in chars
      /\ e <= Len(text) => text[e] \notin chars
  <2>1. i \in 1 .. Len(text) + 1
    BY DEF Texts
  <2> QED  BY <2>1, RunEnds
<1> HIDE DEF e
<1>2. Len(text) \in Nat /\ i \in Nat /\ e \in Nat
  BY <1>1 DEF Texts
<1>3. e # i
  BY <1>1, <1>2
<1>4. n \in 1 .. Len(text) - i + 1
  BY <1>1, <1>2, <1>3
<1>5. RunOf(text, i, n, chars)
  BY <1>1, <1>2 DEF RunOf
<1>6. ASSUME NEW m \in 1 .. Len(text) - i + 1, RunOf(text, i, m, chars), m > n
      PROVE  FALSE
  <2>1. n + 1 \in 1 .. m /\ i + (n + 1) - 1 = e /\ e <= Len(text)
    BY <1>1, <1>2, <1>4, <1>6
  <2>2. text[e] \in chars
    BY <1>6, <2>1 DEF RunOf
  <2> QED  BY <1>1, <2>1, <2>2
<1>7. \A m \in 1 .. Len(text) - i + 1 : RunOf(text, i, m, chars) => m <= n
  BY <1>2, <1>4, <1>6
<1> QED
  BY <1>4, <1>5, <1>7 DEF e

LEMMA AgreeNumber ==
  ASSUME NEW text \in Texts, NEW i \in 1 .. Len(text), ~Trivial(text, i), Plainly(text, i),
         text[i] \in Digit \ {"0"}
  PROVE  Agree(text, i)
<1> DEFINE w == Rest(text, i)
           M == Len(text) - i + 1
           n == RunEnd(text, i, Digit) - i
<1>1. Matches(w)[2].kind = "IntLiteral"
  BY LengthsAre
<1>2. /\ n \in 1 .. M
      /\ RunOf(text, i, n, Digit)
      /\ \A m \in 1 .. M : RunOf(text, i, m, Digit) => m <= n
  BY LongestRun
<1>3. TokenAt(text, i) = Token("IntLiteral", i, i + n)
  <2>1. TokenAt(text, i) = Token("IntLiteral", i, RunEnd(text, i, Digit))
    BY TokenPlainly
  <2>2. RunEnd(text, i, Digit) \in Int
    BY RunEnds DEF Texts
  <2>3. i + n = RunEnd(text, i, Digit)
    BY <2>2
  <2> QED  BY <2>1, <2>3
<1> HIDE DEF n
<1>4. text[i] \notin Alpha /\ text[i] \notin Single
  BY CharacterClasses DEF IdentContinue
<1>5. n \in Lengths(w, 2)
  BY <1>2, IntegersAt
<1>6. ASSUME NEW q \in 1 .. 5, NEW m \in 1 .. M, m \in Lengths(w, q)
      PROVE  m <= n /\ (m = n => 2 <= q)
  <2>1. q # 1 /\ q # 3 /\ q # 4
    BY <1>4, <1>6, NoOtherRule DEF Plainly
  <2>2. q = 2 => m <= n
    BY <1>2, <1>6, IntegersAt
  <2>3. q = 5 => m = 1
    BY <1>6, NoOtherRule
  <2> QED  BY <1>2, <2>1, <2>2, <2>3
<1>7. Longest(w) = [kind |-> Matches(w)[2].kind, length |-> n]
  BY <1>5, <1>6, LongestAt
<1> QED
  BY <1>1, <1>2, <1>3, <1>7 DEF Agree

LEMMA AgreeWord ==
  ASSUME NEW text \in Texts, NEW i \in 1 .. Len(text), ~Trivial(text, i), Plainly(text, i),
         text[i] \in Alpha
  PROVE  Agree(text, i)
<1> DEFINE w == Rest(text, i)
           M == Len(text) - i + 1
           end == RunEnd(text, i, IdentContinue)
           n == end - i
           keyword == SubSeq(text, i, end - 1) \in Keywords
           r == IF keyword THEN 1 ELSE 3
<1>1. Matches(w)[1].kind = "Fixed" /\ Matches(w)[3].kind = "Identifier"
  BY LengthsAre
<1>2. text[i] \in IdentContinue /\ text[i] \notin Digit
  BY CharacterClasses DEF IdentContinue
<1>3. /\ n \in 1 .. M
      /\ RunOf(text, i, n, IdentContinue)
      /\ \A m \in 1 .. M : RunOf(text, i, m, IdentContinue) => m <= n
  BY <1>2, LongestRun
<1>4. end \in Int /\ i + n = end
  <2>1. end \in Int
    BY RunEnds DEF Texts
  <2> QED  BY <2>1
<1>5. TokenAt(text, i) = Token(IF keyword THEN "Fixed" ELSE "Identifier", i, i + n)
  BY <1>4, TokenPlainly
<1>6. keyword <=> \E word : n = Len(word) /\ KeywordAt(text, i, word)
  <2>1. SubSeq(w, 1, n) = SubSeq(text, i, i + n - 1)
    BY <1>3, PrefixOfRest
  <2>2. i + n - 1 = end - 1
    BY <1>4
  <2>3. ASSUME NEW word \in Keywords
        PROVE  SubSeq(w, 1, n) = word <=> Len(word) = n /\ StartsWith(text, i, word)
    <3> DEFINE S == IdentContinue
    <3>1. word \in Seq(S)
      BY LexerAssumption
    <3> HIDE DEF S
    <3>2. n \in 1 .. Len(text) - i + 1
      BY <1>3
    <3> HIDE DEF n
    <3> QED  BY <3>1, <3>2, PrefixIsWord
  <2> QED  BY <2>1, <2>2, <2>3 DEF KeywordAt
<1> HIDE DEF n, keyword, end
<1>7. text[i] \notin Single /\ \A c : ~DoubledAt(text, i, c)
  BY <1>2, CharacterClasses DEF Plainly
<1>8. \A m \in 1 .. M : m \in Lengths(w, 1) =>
        m <= n /\ \E word : m = Len(word) /\ KeywordAt(text, i, word)
  BY <1>3, <1>7, FixedLengths, KeywordStands DEF Plainly
<1>9. n \in Lengths(w, 3) /\ (keyword => n \in Lengths(w, 1))
  BY <1>3, <1>6, FixedLengths, IdentifiersAt
<1>10. ASSUME NEW q \in 1 .. 5, NEW m \in 1 .. M, m \in Lengths(w, q)
       PROVE  m <= n /\ (m = n => r <= q)
  <2>1. q # 2
    BY <1>2, <1>10, NoOtherRule
  <2>2. q # 4
    BY <1>10, NoOtherRule
  <2>3. q = 1 => m <= n /\ (m = n => keyword)
    BY <1>6, <1>8, <1>10
  <2>4. q = 3 => m <= n
    BY <1>3, <1>10, IdentifiersAt
  <2>5. q = 5 => m = 1
    BY <1>10, NoOtherRule
  <2> QED  BY <1>3, <2>1, <2>2, <2>3, <2>4, <2>5
<1>11. Longest(w) = [kind |-> Matches(w)[r].kind, length |-> n]
  <2>1. r \in 1 .. 5 /\ n \in Lengths(w, r)
    BY <1>9
  <2> HIDE DEF r
  <2> QED  BY <1>10, <2>1, LongestAt
<1> QED
  BY <1>1, <1>3, <1>5, <1>11 DEF Agree

LEMMA AgreeOther ==
  ASSUME NEW text \in Texts, NEW i \in 1 .. Len(text), ~Trivial(text, i), Plainly(text, i),
         text[i] \notin Single \cup Digit \cup Alpha
  PROVE  Agree(text, i)
<1> DEFINE w == Rest(text, i)
           M == Len(text) - i + 1
<1>1. Matches(w)[5].kind = "Invalid"
  BY LengthsAre
<1>2. 1 \in 1 .. M
  BY DEF Texts
<1>3. 1 \in Lengths(w, 5)
  BY <1>2, NoOtherRule
<1>4. ASSUME NEW q \in 1 .. 5, NEW m \in 1 .. M, m \in Lengths(w, q)
      PROVE  m <= 1 /\ (m = 1 => 5 <= q)
  <2>1. q # 1 /\ q # 2 /\ q # 3 /\ q # 4
    BY <1>4, NoOtherRule DEF Plainly
  <2>2. q = 5 => m = 1
    BY <1>4, NoOtherRule
  <2> QED  BY <2>1, <2>2
<1>5. Longest(w) = [kind |-> Matches(w)[5].kind, length |-> 1]
  BY <1>3, <1>4, LongestAt
<1>6. TokenAt(text, i) = Token("Invalid", i, i + 1)
  BY TokenPlainly
<1> QED
  BY <1>1, <1>2, <1>5, <1>6 DEF Agree

LEMMA LexerAgrees ==
  ASSUME NEW text \in Texts, NEW i \in 1 .. Len(text)
  PROVE  Agree(text, i)
<1>1. CASE Trivial(text, i)
  BY <1>1, AgreeTrivial
<1>2. CASE ~Trivial(text, i) /\ Plainly(text, i)
  <2>1. \/ text[i] \in Single \/ text[i] = "0" \/ text[i] \in Digit \ {"0"} \/ text[i] \in Alpha
        \/ text[i] \notin Single \cup Digit \cup Alpha
    OBVIOUS
  <2> QED
    BY <1>2, <2>1, AgreeSingle, AgreeZero, AgreeNumber, AgreeWord, AgreeOther
<1>3. CASE ~Trivial(text, i) /\ ~Plainly(text, i)
  BY <1>3, AgreePrintln, AgreeDoubled DEF Plainly
<1> QED
  BY <1>1, <1>2, <1>3

-----------------------------------------------------------------------------
(***************************************************************************)
(* The tokens that the rules make of a text from a position on.            *)
(***************************************************************************)
Kinds  == {"Eof", "Fixed", "IntLiteral", "Identifier", "Invalid"}
Tokens == [kind : Kinds, begin : Nat, end : Nat]

EndOf(text) == Token("Eof", Len(text) + 1, Len(text) + 1)

LEMMA TokenAtType ==
  ASSUME NEW text \in Texts, NEW i \in 1 .. Len(text), ~Trivial(text, i)
  PROVE  LET t == TokenAt(text, i) IN
         t \in Tokens /\ t.kind # "Eof" /\ t.begin = i /\ t.end \in i + 1 .. Len(text) + 1
<1> DEFINE t == TokenAt(text, i)
           match == Longest(Rest(text, i))
<1>1. t = Token(match.kind, i, i + match.length) /\ match.length \in 1 .. Len(text) - i + 1
  BY LexerAgrees DEF Agree
<1>2. t.kind = match.kind /\ t.begin = i /\ t.end = i + match.length
  BY <1>1 DEF Token
<1>3. t.end \in i + 1 .. Len(text) + 1
  BY <1>1, <1>2 DEF Texts
<1>4. t.kind \in Kinds \ {"Eof"}
  <2>1. ~(i > Len(text))
    BY DEF Texts
  <2> QED  BY <2>1 DEF TokenAt, Recognize, Token, Kinds
<1>5. t \in Tokens
  BY <1>1, <1>2, <1>3, <1>4 DEF Token, Tokens, Texts
<1> QED
  BY <1>2, <1>3, <1>4, <1>5

LEMMA TokenAtEnd ==
  ASSUME NEW text \in Texts
  PROVE  /\ ~Trivial(text, Len(text) + 1)
         /\ TokenAt(text, Len(text) + 1) = EndOf(text)
         /\ EndOf(text) \in Tokens
<1>1. ~StartsWith(text, Len(text) + 1, Slashes)
  BY Comments DEF Texts
<1>2. Len(text) + 1 > Len(text) /\ ~(Len(text) + 1 <= Len(text)) /\ Len(text) + 1 \in Nat
  BY DEF Texts
<1> QED
  BY <1>1, <1>2 DEF Trivial, TokenAt, Recognize, EndOf, Token, Tokens, Kinds

RulesBody(tokens, text, k) ==
  IF k > Len(text) THEN <<Token("Eof", k, k)>>
  ELSE LET match == Longest(SubSeq(text, k, Len(text)))
           rest  == tokens[k + match.length]
       IN  IF match.kind = "Ignored" THEN rest
           ELSE <<Token(match.kind, k, k + match.length)>> \o rest

IsRules(tokens, text, low) == tokens = [k \in low .. Len(text) + 1 |-> RulesBody(tokens, text, k)]

\* Where a text goes on behind the trivia or the token at k.
Onward(text, k) == IF Trivial(text, k) THEN Behind(text, k) ELSE TokenAt(text, k).end

LEMMA OnwardIsLater ==
  ASSUME NEW text \in Texts, NEW k \in 1 .. Len(text)
  PROVE  Onward(text, k) \in k + 1 .. Len(text) + 1
<1>1. k \in 1 .. Len(text) + 1
  BY DEF Texts
<1> QED
  BY <1>1, BehindTrivia, TokenAtType DEF Onward

LEMMA RulesBodyIs ==
  ASSUME NEW text \in Texts, NEW k \in 1 .. Len(text) + 1, NEW tokens
  PROVE  RulesBody(tokens, text, k) =
           IF k = Len(text) + 1 THEN <<EndOf(text)>>
           ELSE IF Trivial(text, k) THEN tokens[Onward(text, k)]
           ELSE <<TokenAt(text, k)>> \o tokens[Onward(text, k)]
<1> DEFINE match == Longest(Rest(text, k))
<1>1. CASE k = Len(text) + 1
  BY <1>1 DEF RulesBody, EndOf, Texts
<1>2. CASE k # Len(text) + 1
  <2>1. k \in 1 .. Len(text) /\ ~(k > Len(text))
    BY <1>2 DEF Texts
  <2>2. Agree(text, k)
    BY <2>1, LexerAgrees
  <2>3. RulesBody(tokens, text, k) =
          IF match.kind = "Ignored" THEN tokens[k + match.length]
          ELSE <<Token(match.kind, k, k + match.length)>> \o tokens[k + match.length]
    BY <2>1 DEF RulesBody, Rest
  <2>4. CASE Trivial(text, k)
    <3>1. match = [kind |-> "Ignored", length |-> Behind(text, k) - k]
      BY <2>2, <2>4 DEF Agree
    <3>2. Behind(text, k) \in Int
      BY <2>4, BehindTrivia DEF Texts
    <3> HIDE DEF match
    <3>3. k + match.length = Behind(text, k) /\ match.kind = "Ignored"
      BY <3>1, <3>2
    <3> QED  BY <1>2, <2>3, <2>4, <3>3 DEF Onward
  <2>5. CASE ~Trivial(text, k)
    <3>1. TokenAt(text, k) = Token(match.kind, k, k + match.length) /\ match.kind # "Ignored"
      BY <2>2, <2>5 DEF Agree
    <3> HIDE DEF match
    <3>2. TokenAt(text, k).end = k + match.length
      BY <3>1 DEF Token
    <3> QED  BY <1>2, <2>3, <2>5, <3>1, <3>2 DEF Onward
  <2> QED  BY <2>4, <2>5
<1> QED
  BY <1>1, <1>2

LEMMA RulesExist ==
  ASSUME NEW text \in Texts
  PROVE  \A low \in 1 .. Len(text) + 1 : \E tokens : IsRules(tokens, text, low)
<1> DEFINE N == Len(text) + 1
           S == {low \in 1 .. N : \E tokens : IsRules(tokens, text, low)}
<1>1. N \in Nat /\ 1 \in Nat
  BY DEF Texts
<1>2. ASSUME NEW low \in 1 .. N, \A j \in low + 1 .. N : j \in S
      PROVE  low \in S
  <2>1. \E old : low # N => IsRules(old, text, low + 1)
    BY <1>2 DEF Texts
  <2>2. PICK old : low # N => IsRules(old, text, low + 1)
    BY <2>1
  <2> DEFINE here == RulesBody(old, text, low)
             tokens == [k \in low .. N |-> IF k = low THEN here ELSE old[k]]
  <2>3. ASSUME NEW k \in low .. N
        PROVE  tokens[k] = RulesBody(tokens, text, k)
    <3>1. k \in 1 .. N
      OBVIOUS
    <3>2. RulesBody(tokens, text, k) = RulesBody(old, text, k)
      <4>1. k # N => tokens[Onward(text, k)] = old[Onward(text, k)]
        <5> SUFFICES ASSUME k # N
                     PROVE  tokens[Onward(text, k)] = old[Onward(text, k)]
          OBVIOUS
        <5>1. k \in 1 .. Len(text)
          BY DEF Texts
        <5>2. Onward(text, k) \in k + 1 .. N
          BY <5>1, OnwardIsLater
        <5>3. Onward(text, k) \in low .. N /\ Onward(text, k) # low
          BY <5>2 DEF Texts
        <5> HIDE DEF here
        <5> QED  BY <5>3
      <4> HIDE DEF tokens
      <4> QED  BY <3>1, <4>1, RulesBodyIs
    <3>3. CASE k = low
      BY <3>2, <3>3
    <3>4. CASE k # low
      <4>1. low + 1 \in 1 .. N /\ k \in low + 1 .. N /\ low # N
        BY <3>4 DEF Texts
      <4>2. old[k] = RulesBody(old, text, k)
        BY <2>2, <4>1 DEF IsRules
      <4> QED  BY <3>2, <3>4, <4>2
    <3> QED  BY <3>3, <3>4
  <2> HIDE DEF here
  <2>4. tokens = [k \in low .. N |-> tokens[k]]
    OBVIOUS
  <2> HIDE DEF tokens
  <2>5. IsRules(tokens, text, low)
    BY <2>3, <2>4 DEF IsRules
  <2> QED  BY <2>5
<1> HIDE DEF S
<1>3. 1 .. N \subseteq S
  BY <1>1, <1>2, InductionFromEnd
<1> QED
  BY <1>3 DEF S

LEMMA RulesUnique ==
  ASSUME NEW text \in Texts,
         NEW a \in 1 .. Len(text) + 1, NEW f, IsRules(f, text, a),
         NEW b \in a .. Len(text) + 1, NEW g, IsRules(g, text, b)
  PROVE  \A k \in b .. Len(text) + 1 : f[k] = g[k]
<1> DEFINE N == Len(text) + 1
           S == {k \in b .. N : f[k] = g[k]}
<1>1. N \in Nat /\ b \in Nat
  BY DEF Texts
<1>2. ASSUME NEW k \in b .. N, \A j \in k + 1 .. N : j \in S
      PROVE  k \in S
  <2>1. k \in a .. N /\ k \in 1 .. N
    BY DEF Texts
  <2>2. f[k] = RulesBody(f, text, k)
    BY <2>1 DEF IsRules
  <2>3. g[k] = RulesBody(g, text, k)
    BY <2>1 DEF IsRules
  <2>4. k # N => f[Onward(text, k)] = g[Onward(text, k)]
    <3> SUFFICES ASSUME k # N
                 PROVE  f[Onward(text, k)] = g[Onward(text, k)]
      OBVIOUS
    <3>1. k \in 1 .. Len(text)
      BY <2>1 DEF Texts
    <3>2. Onward(text, k) \in k + 1 .. N
      BY <3>1, OnwardIsLater
    <3> QED  BY <1>2, <3>2
  <2>5. RulesBody(f, text, k) = RulesBody(g, text, k)
    BY <2>1, <2>4, RulesBodyIs
  <2> QED  BY <2>2, <2>3, <2>5
<1> HIDE DEF S
<1>3. b .. N \subseteq S
  BY <1>1, <1>2, InductionFromEnd
<1> QED
  BY <1>3 DEF S

\* The equation RulesFrom was defined by, in terms of the lexer's operators.
LEMMA RulesEquation ==
  ASSUME NEW text \in Texts, NEW i \in 1 .. Len(text) + 1
  PROVE  RulesFrom(text, i) =
           IF i = Len(text) + 1 THEN <<EndOf(text)>>
           ELSE IF Trivial(text, i) THEN RulesFrom(text, Onward(text, i))
           ELSE <<TokenAt(text, i)>> \o RulesFrom(text, Onward(text, i))
<1> DEFINE N == Len(text) + 1
           tokens(low) == CHOOSE f : IsRules(f, text, low)
<1>1. \A low \in 1 .. N : IsRules(tokens(low), text, low)
  BY RulesExist
<1>2. \A low \in 1 .. N : RulesFrom(text, low) = tokens(low)[low]
  BY DEF RulesFrom, IsRules, RulesBody
<1> HIDE DEF tokens
<1>3. tokens(i)[i] = RulesBody(tokens(i), text, i)
  <2>1. i \in i .. N
    BY DEF Texts
  <2> QED  BY <1>1, <2>1 DEF IsRules
<1>4. i # N => tokens(i)[Onward(text, i)] = RulesFrom(text, Onward(text, i))
  <2> SUFFICES ASSUME i # N
               PROVE  tokens(i)[Onward(text, i)] = RulesFrom(text, Onward(text, i))
    OBVIOUS
  <2> DEFINE b == Onward(text, i)
  <2>1. b \in 1 .. N /\ b \in i .. N
    <3>1. i \in 1 .. Len(text)
      BY DEF Texts
    <3>2. b \in i + 1 .. N
      BY <3>1, OnwardIsLater
    <3> QED  BY <3>2 DEF Texts
  <2> HIDE DEF b
  <2>2. b \in b .. N
    BY <2>1 DEF Texts
  <2>3. tokens(i)[b] = tokens(b)[b]
    BY <1>1, <2>1, <2>2, RulesUnique
  <2> QED  BY <1>2, <2>1, <2>3 DEF b
<1>5. RulesBody(tokens(i), text, i) =
        IF i = N THEN <<EndOf(text)>>
        ELSE IF Trivial(text, i) THEN tokens(i)[Onward(text, i)]
        ELSE <<TokenAt(text, i)>> \o tokens(i)[Onward(text, i)]
  BY RulesBodyIs
<1> QED
  BY <1>2, <1>3, <1>4, <1>5

-----------------------------------------------------------------------------
(***************************************************************************)
(* Chains: tokens each of which is the next behind the one before.         *)
(***************************************************************************)
NextFrom(text, from) == TokenAt(text, SkipTrivia(text, from))

\* Where the k-th token of a sequence that begins at i is looked for.
From(tokens, k, i) == IF k = 1 THEN i ELSE tokens[k - 1].end

Chained(tokens, text, i) ==
  /\ tokens \in Seq(Tokens)
  /\ \A k \in 1 .. Len(tokens) : tokens[k] = NextFrom(text, From(tokens, k, i))

LEMMA SkipEnds ==
  ASSUME NEW text \in Texts
  PROVE  \A i \in 1 .. Len(text) + 1 :
           SkipTrivia(text, i) \in i .. Len(text) + 1 /\ ~Trivial(text, SkipTrivia(text, i))
<1> DEFINE N == Len(text) + 1
           S == {i \in 1 .. N : SkipTrivia(text, i) \in i .. N /\ ~Trivial(text, SkipTrivia(text, i))}
<1>1. N \in Nat /\ 1 \in Nat
  BY DEF Texts
<1>2. ASSUME NEW i \in 1 .. N, \A j \in i + 1 .. N : j \in S
      PROVE  i \in S
  <2>1. CASE Trivial(text, i)
    <3>1. Behind(text, i) \in i + 1 .. N
      BY <2>1, BehindTrivia
    <3>2. SkipTrivia(text, i) = SkipTrivia(text, Behind(text, i))
      BY <2>1, SkipEquation
    <3> QED  BY <1>1, <1>2, <3>1, <3>2
  <2>2. CASE ~Trivial(text, i)
    <3>1. SkipTrivia(text, i) = i
      BY <2>2, SkipEquation
    <3> QED  BY <1>1, <2>2, <3>1
  <2> QED  BY <2>1, <2>2
<1> HIDE DEF S
<1>3. 1 .. N \subseteq S
  <2> HIDE DEF N
  <2> QED  BY <1>1, <1>2, InductionFromEnd
<1> QED  BY <1>3 DEF S

\* The next token lies behind what comes before it, and only the end is empty.
LEMMA NextType ==
  ASSUME NEW text \in Texts, NEW i \in 1 .. Len(text) + 1
  PROVE  LET t == NextFrom(text, i) IN
         /\ t \in Tokens
         /\ t.begin \in i .. Len(text) + 1 /\ t.end \in t.begin .. Len(text) + 1
         /\ t.kind # "Eof" => t.begin < t.end
         /\ t.kind = "Eof" => t = EndOf(text)
<1> DEFINE j == SkipTrivia(text, i)
<1>1. j \in i .. Len(text) + 1 /\ ~Trivial(text, j)
  BY SkipEnds
<1> HIDE DEF j
<1>2. CASE j = Len(text) + 1
  <2>1. TokenAt(text, j) = EndOf(text) /\ EndOf(text) \in Tokens
    BY <1>2, TokenAtEnd
  <2> QED  BY <1>2, <2>1 DEF NextFrom, j, EndOf, Token, Texts
<1>3. CASE j # Len(text) + 1
  <2>1. j \in 1 .. Len(text)
    BY <1>1, <1>3 DEF Texts
  <2>2. LET t == TokenAt(text, j) IN
        t \in Tokens /\ t.kind # "Eof" /\ t.begin = j /\ t.end \in j + 1 .. Len(text) + 1
    BY <1>1, <2>1, TokenAtType
  <2> QED  BY <1>1, <2>2 DEF NextFrom, j, Texts
<1> QED  BY <1>2, <1>3

\* Chains lie in the text, one token behind the other, and stay at its end.
LEMMA ChainRange ==
  ASSUME NEW text \in Texts, NEW i \in 1 .. Len(text) + 1, NEW s, Chained(s, text, i)
  PROVE  \A k \in 1 .. Len(s) :
           /\ From(s, k, i) \in i .. Len(text) + 1
           /\ s[k].begin \in From(s, k, i) .. Len(text) + 1
           /\ s[k].end \in s[k].begin .. Len(text) + 1
           /\ s[k].kind # "Eof" => s[k].begin < s[k].end
           /\ s[k].kind = "Eof" => s[k] = EndOf(text)
<1> DEFINE N == Len(text) + 1
           Right(k) == /\ From(s, k, i) \in i .. N
                       /\ s[k].begin \in From(s, k, i) .. N
                       /\ s[k].end \in s[k].begin .. N
                       /\ s[k].kind # "Eof" => s[k].begin < s[k].end
                       /\ s[k].kind = "Eof" => s[k] = EndOf(text)
           S == {k \in Nat : k + 1 \in 1 .. Len(s) => Right(k + 1)}
<1>1. N \in Nat /\ Len(s) \in Nat
  BY DEF Texts, Chained
<1>2. ASSUME NEW k \in 1 .. Len(s), From(s, k, i) \in i .. N
      PROVE  Right(k)
  <2>1. s[k] = NextFrom(text, From(s, k, i))
    BY DEF Chained
  <2>2. From(s, k, i) \in 1 .. N
    BY <1>1, <1>2
  <2> DEFINE t == NextFrom(text, From(s, k, i))
  <2>3. /\ t.begin \in From(s, k, i) .. N /\ t.end \in t.begin .. N
        /\ t.kind # "Eof" => t.begin < t.end
        /\ t.kind = "Eof" => t = EndOf(text)
    BY <2>2, NextType
  <2> QED  BY <1>2, <2>1, <2>3
<1>3. 0 \in S
  <2>1. From(s, 1, i) \in i .. N
    BY DEF From, Texts
  <2> QED  BY <1>2, <2>1
<1>4. ASSUME NEW k \in Nat, k \in S
      PROVE  k + 1 \in S
  <2> SUFFICES ASSUME k + 2 \in 1 .. Len(s)
               PROVE  Right(k + 2)
    OBVIOUS
  <2>1. Right(k + 1)
    BY <1>1, <1>4
  <2>2. From(s, k + 2, i) = s[k + 1].end
    BY DEF From
  <2> HIDE DEF Right
  <2>3. From(s, k + 2, i) \in i .. N
    BY <1>1, <2>1, <2>2 DEF Right
  <2> QED  BY <1>2, <2>3
<1> HIDE DEF S
<1>5. Nat \subseteq S
  BY <1>3, <1>4, Induction
<1>6. ASSUME NEW k \in 1 .. Len(s)
      PROVE  Right(k)
  <2>1. k - 1 \in S /\ (k - 1) + 1 = k
    BY <1>1, <1>5
  <2> HIDE DEF Right
  <2> QED  BY <2>1 DEF S
<1> QED  BY <1>6

\* There is one chain of a length.
LEMMA ChainUnique ==
  ASSUME NEW text, NEW i, NEW s, NEW t, Chained(s, text, i), Chained(t, text, i), Len(s) <= Len(t)
  PROVE  \A k \in 1 .. Len(s) : s[k] = t[k]
<1> DEFINE S == {k \in Nat : k + 1 \in 1 .. Len(s) => s[k + 1] = t[k + 1]}
<1>1. Len(s) \in Nat /\ Len(t) \in Nat
  BY DEF Chained
<1>2. \A k \in 1 .. Len(s) : s[k] = NextFrom(text, From(s, k, i)) /\ t[k] = NextFrom(text, From(t, k, i))
  BY <1>1 DEF Chained
<1>3. 0 \in S
  BY <1>1, <1>2 DEF From
<1>4. ASSUME NEW k \in Nat, k \in S
      PROVE  k + 1 \in S
  <2> SUFFICES ASSUME k + 2 \in 1 .. Len(s)
               PROVE  s[k + 2] = t[k + 2]
    OBVIOUS
  <2>1. s[k + 1] = t[k + 1]
    BY <1>1, <1>4
  <2>2. From(s, k + 2, i) = s[k + 1].end /\ From(t, k + 2, i) = t[k + 1].end
    BY DEF From
  <2> QED  BY <1>2, <2>1, <2>2
<1> HIDE DEF S
<1>5. Nat \subseteq S
  BY <1>3, <1>4, Induction
<1>6. ASSUME NEW k \in 1 .. Len(s)
      PROVE  s[k] = t[k]
  <2>1. k - 1 \in S /\ (k - 1) + 1 = k
    BY <1>1, <1>5
  <2> QED  BY <2>1 DEF S
<1> QED  BY <1>6

\* Where a chain that begins at i goes on.
After(tokens, i) == IF tokens = <<>> THEN i ELSE Last(tokens).end

LEMMA AfterRange ==
  ASSUME NEW text \in Texts, NEW i \in 1 .. Len(text) + 1, NEW s, Chained(s, text, i)
  PROVE  After(s, i) \in i .. Len(text) + 1
<1>1. CASE s = <<>>
  BY <1>1 DEF After, Texts
<1>2. CASE s # <<>>
  <2>1. s \in Seq(Tokens)
    BY DEF Chained
  <2>2. Len(s) \in 1 .. Len(s)
    BY <1>2, <2>1
  <2>3. /\ From(s, Len(s), i) \in i .. Len(text) + 1
        /\ s[Len(s)].begin \in From(s, Len(s), i) .. Len(text) + 1
        /\ s[Len(s)].end \in s[Len(s)].begin .. Len(text) + 1
    BY <2>2, ChainRange
  <2> QED  BY <1>2, <2>3 DEF After, Last, Texts
<1> QED  BY <1>1, <1>2

LEMMA ChainConcat ==
  ASSUME NEW text \in Texts, NEW i \in 1 .. Len(text) + 1,
         NEW s, Chained(s, text, i), NEW t, Chained(t, text, After(s, i))
  PROVE  Chained(s \o t, text, i) /\ After(s \o t, i) = After(t, After(s, i))
<1>1. s \in Seq(Tokens) /\ t \in Seq(Tokens)
  BY DEF Chained
<1>2. /\ s \o t \in Seq(Tokens)
      /\ Len(s \o t) = Len(s) + Len(t)
      /\ \A k \in 1 .. Len(s) + Len(t) : (s \o t)[k] = IF k <= Len(s) THEN s[k] ELSE t[k - Len(s)]
  BY <1>1, ConcatProperties
<1>3. Len(s) \in Nat /\ Len(t) \in Nat
  BY <1>1
<1> DEFINE st == s \o t
<1> HIDE DEF st
<1>4. ASSUME NEW k \in 1 .. Len(s)
      PROVE  st[k] = NextFrom(text, From(st, k, i))
  <2>1. st[k] = s[k] /\ From(st, k, i) = From(s, k, i)
    BY <1>2, <1>3 DEF From, st
  <2> QED  BY <2>1 DEF Chained
<1>5. ASSUME NEW k \in Len(s) + 1 .. Len(s) + Len(t)
      PROVE  st[k] = NextFrom(text, From(st, k, i))
  <2> DEFINE m == k - Len(s)
  <2>1. m \in 1 .. Len(t) /\ st[k] = t[m]
    BY <1>2, <1>3 DEF st
  <2>2. From(st, k, i) = From(t, m, After(s, i))
    <3>1. CASE m = 1 /\ s = <<>>
      BY <1>3, <3>1 DEF From, After
    <3>2. CASE m = 1 /\ s # <<>>
      <4>1. k - 1 = Len(s) /\ Len(s) \in 1 .. Len(s) + Len(t) /\ k # 1
        BY <1>1, <1>3, <3>2
      <4>2. st[k - 1] = s[Len(s)]
        BY <1>2, <4>1 DEF st
      <4> QED  BY <3>2, <4>1, <4>2 DEF From, After, Last
    <3>3. CASE m # 1
      <4>1. k - 1 \in 1 .. Len(s) + Len(t) /\ ~(k - 1 <= Len(s)) /\ k # 1 /\ (k - 1) - Len(s) = m - 1
        BY <1>3, <2>1, <3>3
      <4>2. st[k - 1] = t[m - 1]
        BY <1>2, <4>1 DEF st
      <4> QED  BY <3>3, <4>1, <4>2 DEF From
    <3> QED  BY <3>1, <3>2, <3>3
  <2> QED  BY <2>1, <2>2 DEF Chained
<1>6. Chained(st, text, i)
  <2>1. st \in Seq(Tokens) /\ Len(st) = Len(s) + Len(t)
    BY <1>2 DEF st
  <2> QED  BY <1>3, <1>4, <1>5, <2>1 DEF Chained
<1>7. After(st, i) = After(t, After(s, i))
  <2>1. CASE t = <<>>
    BY <1>1, <2>1, ConcatEmptySeq DEF After, st
  <2>2. CASE t # <<>>
    <3>1. Len(st) = Len(s) + Len(t) /\ Len(t) # 0 /\ st # <<>>
      BY <1>1, <1>2, <2>2 DEF st
    <3>2. st[Len(st)] = t[Len(t)]
      BY <1>2, <1>3, <3>1 DEF st
    <3> QED  BY <2>2, <3>1, <3>2 DEF After, Last
  <2> QED  BY <2>1, <2>2
<1> QED  BY <1>6, <1>7 DEF st

LEMMA ChainOfOne ==
  ASSUME NEW text \in Texts, NEW i \in 1 .. Len(text) + 1
  PROVE  /\ Chained(<<>>, text, i)
         /\ Chained(<<NextFrom(text, i)>>, text, i)
<1>1. NextFrom(text, i) \in Tokens
  BY NextType
<1> DEFINE t == NextFrom(text, i)
<1> HIDE DEF t
<1>2. <<t>> \in Seq(Tokens) /\ Len(<<t>>) = 1 /\ <<t>>[1] = t
  BY <1>1 DEF t
<1>3. Chained(<<t>>, text, i)
  BY <1>2 DEF Chained, From, t
<1> QED  BY <1>3, EmptySeq DEF Chained, t

LEMMA RulesChain ==
  ASSUME NEW text \in Texts
  PROVE  \A i \in 1 .. Len(text) + 1 :
           LET tokens == RulesFrom(text, i) IN
           Chained(tokens, text, i) /\ tokens # <<>> /\ Last(tokens) = EndOf(text)
<1> DEFINE N == Len(text) + 1
           Right(i) == /\ Chained(RulesFrom(text, i), text, i)
                       /\ RulesFrom(text, i) # <<>> /\ Last(RulesFrom(text, i)) = EndOf(text)
           S == {i \in 1 .. N : Right(i)}
<1>1. N \in Nat /\ 1 \in Nat
  BY DEF Texts
<1>2. ASSUME NEW i \in 1 .. N, \A j \in i + 1 .. N : j \in S
      PROVE  Right(i)
  <2>1. CASE i = N
    <3>1. NextFrom(text, N) = EndOf(text)
      BY <1>1, TokenAtEnd, SkipEquation DEF NextFrom
    <3>2. RulesFrom(text, i) = <<EndOf(text)>>
      BY <2>1, RulesEquation
    <3> HIDE DEF N
    <3>3. Chained(<<EndOf(text)>>, text, N)
      BY <1>2, <2>1, <3>1, ChainOfOne DEF N
    <3> QED  BY <2>1, <3>2, <3>3 DEF Last
  <2>2. CASE i # N /\ Trivial(text, i)
    <3> DEFINE b == Behind(text, i)
    <3>1. b \in i + 1 .. N /\ b \in 1 .. N
      BY <2>2, BehindTrivia DEF Texts
    <3>2. RulesFrom(text, i) = RulesFrom(text, b)
      BY <2>2, RulesEquation DEF Onward
    <3>3. NextFrom(text, i) = NextFrom(text, b)
      BY <2>2, SkipEquation DEF NextFrom
    <3> HIDE DEF b
    <3>4. Right(b)
      BY <1>2, <3>1
    <3> DEFINE s == RulesFrom(text, b)
    <3> HIDE DEF s
    <3>5. Chained(s, text, i)
      <4>1. Chained(s, text, b)
        BY <3>4 DEF s
      <4>2. ASSUME NEW k \in 1 .. Len(s)
            PROVE  NextFrom(text, From(s, k, i)) = NextFrom(text, From(s, k, b))
        BY <3>3 DEF From
      <4> QED  BY <4>1, <4>2 DEF Chained
    <3> QED  BY <3>2, <3>4, <3>5 DEF s
  <2>3. CASE i # N /\ ~Trivial(text, i)
    <3>1. i \in 1 .. Len(text)
      BY <2>3 DEF Texts
    <3> DEFINE t == TokenAt(text, i)
               e == t.end
               r == RulesFrom(text, e)
    <3>2. t \in Tokens /\ e \in i + 1 .. N
      BY <2>3, <3>1, TokenAtType
    <3>3. RulesFrom(text, i) = <<t>> \o r
      BY <2>3, RulesEquation DEF Onward
    <3>4. NextFrom(text, i) = t
      BY <2>3, SkipEquation DEF NextFrom
    <3>5. Chained(<<t>>, text, i)
      BY <3>4, ChainOfOne
    <3> HIDE DEF t
    <3>6. After(<<t>>, i) = e
      BY DEF After, Last
    <3> HIDE DEF e
    <3>7. Right(e)
      BY <1>2, <3>2
    <3> HIDE DEF r
    <3>8. Chained(r, text, e) /\ r # <<>> /\ Last(r) = EndOf(text)
      BY <3>7 DEF r
    <3>9. Chained(<<t>> \o r, text, i)
      BY <3>5, <3>6, <3>8, ChainConcat
    <3>10. <<t>> \o r # <<>> /\ Last(<<t>> \o r) = Last(r)
      <4>1. <<t>> \in Seq(Tokens) /\ Len(<<t>>) = 1 /\ r \in Seq(Tokens)
        BY <3>2, <3>8 DEF Chained
      <4>2. Len(r) >= 1 /\ Len(r) \in Nat
        BY <3>8, <4>1
      <4> HIDE DEF t
      <4>3. /\ Len(<<t>> \o r) = 1 + Len(r)
            /\ (<<t>> \o r)[1 + Len(r)] = r[Len(r)]
        BY <4>1, <4>2
      <4> QED  BY <4>2, <4>3 DEF Last
    <3> QED  BY <3>3, <3>8, <3>9, <3>10
  <2> QED  BY <2>1, <2>2, <2>3
<1>3. ASSUME NEW i \in 1 .. N, \A j \in i + 1 .. N : j \in S
      PROVE  i \in S
  BY <1>2, <1>3
<1> HIDE DEF S
<1>4. 1 .. N \subseteq S
  <2> HIDE DEF N
  <2> QED  BY <1>1, <1>3, InductionFromEnd
<1> QED  BY <1>4 DEF S

-----------------------------------------------------------------------------
(***************************************************************************)
(* The tokens that lex_one_ makes, called so many times, are a chain.      *)
(***************************************************************************)
LexedOnto(before, text, i, k) ==
  LET from == IF k = 1 THEN i ELSE Last(before).end IN
  Append(before, TokenAt(text, SkipTrivia(text, from)))

IsLexed(tokens, text, i, n) ==
  tokens = [k \in 0 .. n |-> IF k = 0 THEN <<>> ELSE LexedOnto(tokens[k - 1], text, i, k)]

LEMMA LexedExist ==
  ASSUME NEW text, NEW i
  PROVE  \A n \in Nat : \E tokens : IsLexed(tokens, text, i, n)
<1> DEFINE S == {n \in Nat : \E tokens : IsLexed(tokens, text, i, n)}
<1>1. 0 \in S
  <2>1. IsLexed([k \in 0 .. 0 |-> <<>>], text, i, 0)
    BY DEF IsLexed
  <2> QED  BY <2>1
<1>2. ASSUME NEW n \in Nat, n \in S
      PROVE  n + 1 \in S
  <2>1. PICK t : IsLexed(t, text, i, n)
    BY <1>2
  <2> DEFINE u == [k \in 0 .. n + 1 |-> IF k = 0 THEN <<>> ELSE LexedOnto(t[k - 1], text, i, k)]
  <2>2. \A k \in 0 .. n : u[k] = t[k]
    BY <2>1 DEF IsLexed
  <2>3. u = [k \in 0 .. n + 1 |-> IF k = 0 THEN <<>> ELSE LexedOnto(t[k - 1], text, i, k)]
    OBVIOUS
  <2> HIDE DEF u
  <2>4. ASSUME NEW k \in 0 .. n + 1, k # 0
        PROVE  u[k - 1] = t[k - 1]
    <3>1. k - 1 \in 0 .. n
      BY <2>4
    <3> QED  BY <2>2, <3>1
  <2>5. IsLexed(u, text, i, n + 1)
    BY <2>3, <2>4 DEF IsLexed
  <2> QED  BY <2>5
<1> HIDE DEF S
<1>3. Nat \subseteq S
  BY <1>1, <1>2, Induction
<1> QED  BY <1>3 DEF S

LEMMA LexedChain ==
  ASSUME NEW text \in Texts, NEW i \in 1 .. Len(text) + 1, NEW n \in Nat
  PROVE  Chained(LexFrom(text, i, n), text, i) /\ Len(LexFrom(text, i, n)) = n
<1> DEFINE t == CHOOSE tokens : IsLexed(tokens, text, i, n)
<1>1. IsLexed(t, text, i, n)
  BY LexedExist
<1>2. LexFrom(text, i, n) = t[n]
  BY DEF LexFrom, IsLexed, LexedOnto
<1> HIDE DEF t
<1> DEFINE S == {k \in Nat : k <= n => Chained(t[k], text, i) /\ Len(t[k]) = k}
<1>3. 0 \in S
  <2>1. t[0] = <<>>
    BY <1>1 DEF IsLexed
  <2>2. Chained(<<>>, text, i) /\ Len(<<>>) = 0
    BY ChainOfOne
  <2> QED  BY <2>1, <2>2
<1>4. ASSUME NEW k \in Nat, k \in S
      PROVE  k + 1 \in S
  <2> SUFFICES ASSUME k + 1 <= n
               PROVE  Chained(t[k + 1], text, i) /\ Len(t[k + 1]) = k + 1
    OBVIOUS
  <2> DEFINE s == t[k]
             last == NextFrom(text, After(s, i))
  <2>1. Chained(s, text, i) /\ Len(s) = k /\ s \in Seq(Tokens)
    BY <1>4 DEF Chained
  <2>2. t[k + 1] = LexedOnto(s, text, i, k + 1)
    BY <1>1 DEF IsLexed
  <2> HIDE DEF s
  <2>3. s = <<>> <=> k + 1 = 1
    BY <2>1
  <2>4. t[k + 1] = Append(s, last)
    BY <2>2, <2>3 DEF LexedOnto, NextFrom, After
  <2>5. After(s, i) \in 1 .. Len(text) + 1
    BY <2>1, AfterRange DEF Texts
  <2>6. last \in Tokens /\ Chained(<<last>>, text, After(s, i))
    BY <2>5, NextType, ChainOfOne
  <2> HIDE DEF last
  <2>7. Append(s, last) = s \o <<last>> /\ Len(Append(s, last)) = Len(s) + 1
    BY <2>1, <2>6, AppendIsConcat, AppendProperties
  <2> QED  BY <2>1, <2>4, <2>6, <2>7, ChainConcat
<1> HIDE DEF S
<1>5. n \in S
  BY <1>3, <1>4, Induction
<1> QED  BY <1>2, <1>5 DEF S

-----------------------------------------------------------------------------
(***************************************************************************)
(* The line of a location is one more than the ends of lines before it.    *)
(***************************************************************************)
Advanced(before, text, i) ==
  IF text[i - 1] = "\n" THEN [line |-> before.line + 1, column |-> 1]
  ELSE [before EXCEPT !.column = @ + 1]

IsLocated(location, text, n) ==
  location = [i \in 1 .. n |-> IF i = 1 THEN [line |-> 1, column |-> 1]
                               ELSE Advanced(location[i - 1], text, i)]

LEMMA LocatedExist ==
  ASSUME NEW text
  PROVE  \A n \in Nat : \E location : IsLocated(location, text, n)
<1> DEFINE S == {n \in Nat : \E location : IsLocated(location, text, n)}
<1>1. 0 \in S
  <2>1. IsLocated([i \in 1 .. 0 |-> i], text, 0)
    BY DEF IsLocated
  <2> QED  BY <2>1
<1>2. ASSUME NEW n \in Nat, n \in S
      PROVE  n + 1 \in S
  <2>1. PICK f : IsLocated(f, text, n)
    BY <1>2
  <2> DEFINE g == [i \in 1 .. n + 1 |-> IF i = 1 THEN [line |-> 1, column |-> 1]
                                        ELSE Advanced(f[i - 1], text, i)]
  <2>2. g = [i \in 1 .. n + 1 |-> IF i = 1 THEN [line |-> 1, column |-> 1]
                                  ELSE Advanced(f[i - 1], text, i)]
    OBVIOUS
  <2>3. \A i \in 1 .. n : g[i] = f[i]
    BY <2>1 DEF IsLocated
  <2> HIDE DEF g
  <2>4. ASSUME NEW i \in 1 .. n + 1, i # 1
        PROVE  g[i - 1] = f[i - 1]
    <3>1. i - 1 \in 1 .. n
      BY <2>4
    <3> QED  BY <2>3, <3>1
  <2>5. IsLocated(g, text, n + 1)
    BY <2>2, <2>4 DEF IsLocated
  <2> QED  BY <2>5
<1> HIDE DEF S
<1>3. Nat \subseteq S
  BY <1>1, <1>2, Induction
<1> QED  BY <1>3 DEF S

NewLines(text, i) == {k \in 1 .. i - 1 : text[k] = "\n"}

LEMMA MoreNewLines ==
  ASSUME NEW text, NEW i \in Nat, 1 <= i
  PROVE  /\ Cardinality(NewLines(text, i)) \in Nat
         /\ Cardinality(NewLines(text, i + 1)) =
              Cardinality(NewLines(text, i)) + (IF text[i] = "\n" THEN 1 ELSE 0)
<1>1. IsFiniteSet(NewLines(text, i))
  <2>1. IsFiniteSet(1 .. i - 1)
    BY FS_Interval
  <2>2. NewLines(text, i) \subseteq 1 .. i - 1
    BY DEF NewLines
  <2> QED  BY <2>1, <2>2, FS_Subset
<1>2. Cardinality(NewLines(text, i)) \in Nat
  BY <1>1, FS_CardinalityType
<1>3. CASE text[i] = "\n"
  <2>1. NewLines(text, i + 1) = NewLines(text, i) \cup {i}
    BY <1>3 DEF NewLines
  <2>2. i \notin NewLines(text, i)
    BY DEF NewLines
  <2> QED  BY <1>1, <1>2, <1>3, <2>1, <2>2, FS_AddElement
<1>4. CASE text[i] # "\n"
  <2>1. NewLines(text, i + 1) = NewLines(text, i)
    BY <1>4 DEF NewLines
  <2> QED  BY <1>2, <1>4, <2>1
<1> QED  BY <1>3, <1>4

LEMMA LineOfLocation ==
  ASSUME NEW text, NEW position \in Nat, 1 <= position
  PROVE  LocationAt(text, position).line = 1 + Cardinality(NewLines(text, position))
<1> DEFINE f == CHOOSE location : IsLocated(location, text, position)
<1>1. IsLocated(f, text, position)
  BY LocatedExist
<1>2. LocationAt(text, position) = f[position]
  BY DEF LocationAt, IsLocated, Advanced
<1> HIDE DEF f
<1> DEFINE Right(i) == f[i] \in [line : Nat, column : Nat] /\ f[i].line = 1 + Cardinality(NewLines(text, i))
           S == {d \in Nat : d + 1 <= position => Right(d + 1)}
<1>3. 0 \in S
  <2>1. f[1] = [line |-> 1, column |-> 1]
    BY <1>1 DEF IsLocated
  <2>2. NewLines(text, 1) = {}
    BY DEF NewLines
  <2> QED  BY <2>1, <2>2, FS_EmptySet
<1>4. ASSUME NEW d \in Nat, d \in S
      PROVE  d + 1 \in S
  <2> DEFINE i == d + 1
             j == i + 1
  <2> SUFFICES ASSUME j <= position
               PROVE  Right(j)
    OBVIOUS
  <2>1. i \in Nat /\ 1 <= i /\ j \in 1 .. position /\ j # 1 /\ j - 1 = i
    OBVIOUS
  <2>2. Right(i)
    BY <1>4
  <2>3. /\ Cardinality(NewLines(text, i)) \in Nat
        /\ Cardinality(NewLines(text, j)) =
             Cardinality(NewLines(text, i)) + (IF text[i] = "\n" THEN 1 ELSE 0)
    BY <2>1, MoreNewLines
  <2> HIDE DEF i, j
  <2>4. f[j] = Advanced(f[i], text, j)
    BY <1>1, <2>1 DEF IsLocated
  <2>5. f[j] = IF text[i] = "\n" THEN [line |-> f[i].line + 1, column |-> 1]
               ELSE [f[i] EXCEPT !.column = @ + 1]
    BY <2>1, <2>4 DEF Advanced
  <2>6. CASE text[i] = "\n"
    BY <2>2, <2>3, <2>5, <2>6
  <2>7. CASE text[i] # "\n"
    BY <2>2, <2>3, <2>5, <2>7
  <2> QED  BY <2>6, <2>7
<1> HIDE DEF S
<1>5. Nat \subseteq S
  BY <1>3, <1>4, Induction
<1>6. position - 1 \in S /\ (position - 1) + 1 = position
  BY <1>5
<1> QED  BY <1>2, <1>6 DEF S

-----------------------------------------------------------------------------
(***************************************************************************)
(* Chains in the order of the text, and against the rules.                 *)
(***************************************************************************)
LEMMA ChainOrder ==
  ASSUME NEW text \in Texts, NEW i \in 1 .. Len(text) + 1, NEW s, Chained(s, text, i)
  PROVE  \A k \in 1 .. Len(s) : \A j \in 1 .. k - 1 : s[j].end <= From(s, k, i)
<1> DEFINE Right(k) == \A j \in 1 .. k - 1 : s[j].end <= From(s, k, i)
           S == {d \in Nat : d + 1 <= Len(s) => Right(d + 1)}
           N == Len(text) + 1
<1>1. Len(s) \in Nat /\ N \in Nat
  BY DEF Chained, Texts
<1>2. \A k \in 1 .. Len(s) : From(s, k, i) \in i .. N /\ s[k].begin \in From(s, k, i) .. N
                             /\ s[k].end \in s[k].begin .. N
  BY ChainRange
<1>3. 0 \in S
  OBVIOUS
<1>4. ASSUME NEW d \in Nat, d \in S
      PROVE  d + 1 \in S
  <2> DEFINE k == d + 1
             next == k + 1
  <2> SUFFICES ASSUME next <= Len(s), NEW j \in 1 .. next - 1
               PROVE  s[j].end <= From(s, next, i)
    OBVIOUS
  <2>1. k \in 1 .. Len(s) /\ next - 1 = k /\ next # 1
    BY <1>1
  <2>2. Right(k)
    BY <1>4, <2>1
  <2> HIDE DEF next
  <2>3. From(s, next, i) = s[k].end
    BY <2>1 DEF From
  <2>4. s[k].begin \in From(s, k, i) .. N /\ s[k].end \in s[k].begin .. N /\ From(s, k, i) \in i .. N
    BY <1>2, <2>1
  <2> HIDE DEF k
  <2>5. CASE j = k
    BY <1>1, <2>3, <2>4, <2>5
  <2>6. CASE j # k
    <3>1. j \in 1 .. Len(s) /\ j \in 1 .. k - 1
      BY <1>1, <2>1, <2>6
    <3>2. s[j].end <= From(s, k, i)
      BY <2>2, <3>1
    <3>3. s[j].end \in Int
      BY <1>1, <1>2, <3>1
    <3> QED  BY <1>1, <2>3, <2>4, <3>2, <3>3
  <2> QED  BY <2>5, <2>6
<1> HIDE DEF S
<1>5. Nat \subseteq S
  BY <1>3, <1>4, Induction
<1>6. ASSUME NEW k \in 1 .. Len(s)
      PROVE  Right(k)
  <2>1. k - 1 \in S /\ (k - 1) + 1 = k
    BY <1>1, <1>5
  <2> HIDE DEF Right
  <2> QED  BY <1>1, <2>1 DEF S
<1> QED  BY <1>6

LEMMA ChainBefore ==
  ASSUME NEW text \in Texts, NEW i \in 1 .. Len(text) + 1, NEW s, Chained(s, text, i)
  PROVE  \A k \in 1 .. Len(s) : s[k].end <= After(s, i)
<1> SUFFICES ASSUME NEW k \in 1 .. Len(s)
             PROVE  s[k].end <= After(s, i)
  OBVIOUS
<1> DEFINE n == Len(s)
           N == Len(text) + 1
<1>1. n \in Nat /\ N \in Nat /\ n \in 1 .. n /\ s # <<>>
  BY DEF Chained, Texts
<1>2. After(s, i) = s[n].end
  BY <1>1 DEF After, Last
<1>3. \A j \in 1 .. n : From(s, j, i) \in i .. N /\ s[j].begin \in From(s, j, i) .. N
                        /\ s[j].end \in s[j].begin .. N
  BY ChainRange
<1>4. k # n => s[k].end <= From(s, n, i)
  BY <1>1, ChainOrder
<1> HIDE DEF n
<1>5. /\ From(s, n, i) \in i .. N /\ s[n].begin \in From(s, n, i) .. N /\ s[n].end \in s[n].begin .. N
  BY <1>1, <1>3
<1>6. From(s, k, i) \in i .. N /\ s[k].begin \in From(s, k, i) .. N /\ s[k].end \in s[k].begin .. N
  BY <1>3 DEF n
<1>7. CASE k = n
  BY <1>1, <1>2, <1>5, <1>7
<1>8. CASE k # n
  <2>1. PICK e, f, b, d : e = s[k].end /\ f = From(s, n, i) /\ b = s[n].begin /\ d = s[n].end
    OBVIOUS
  <2>2. /\ e \in Int /\ f \in Int /\ b \in Int /\ d \in Int
        /\ e <= f /\ f <= b /\ b <= d
    BY <1>1, <1>4, <1>5, <1>6, <1>8, <2>1
  <2>3. e <= d
    BY <2>2
  <2> QED  BY <1>2, <2>1, <2>3
<1> QED  BY <1>7, <1>8

\* A chain from the beginning is what the rules make of the text, and then its
\* end again and again.
LEMMA ChainIsRules ==
  ASSUME NEW text \in Texts, NEW s, Chained(s, text, 1)
  PROVE  LET rules == RulesFrom(text, 1) IN
         \A k \in 1 .. Len(s) : IF k <= Len(rules) THEN s[k] = rules[k] ELSE s[k] = EndOf(text)
<1> DEFINE r == RulesFrom(text, 1)
           N == Len(text) + 1
<1>1. 1 \in 1 .. N /\ N \in Nat
  BY DEF Texts
<1>2. Chained(r, text, 1) /\ r # <<>> /\ Last(r) = EndOf(text)
  BY <1>1, RulesChain
<1> HIDE DEF r
<1>3. r \in Seq(Tokens) /\ s \in Seq(Tokens)
  BY <1>2 DEF Chained
<1>4. Len(r) \in Nat /\ Len(s) \in Nat /\ Len(r) # 0
  BY <1>2, <1>3
<1>5. CASE Len(s) <= Len(r)
  <2>1. \A k \in 1 .. Len(s) : s[k] = r[k]
    BY <1>2, <1>5, ChainUnique
  <2>2. \A k \in 1 .. Len(s) : k <= Len(r)
    BY <1>4, <1>5
  <2> QED  BY <2>1, <2>2 DEF r
<1>6. CASE Len(r) < Len(s)
  <2>1. \A k \in 1 .. Len(r) : s[k] = r[k]
    BY <1>2, <1>4, <1>6, ChainUnique
  <2>2. ASSUME NEW k \in 1 .. Len(s), ~(k <= Len(r))
        PROVE  s[k] = EndOf(text)
    <3> DEFINE n == Len(r)
    <3>1. n \in 1 .. Len(s) /\ n \in 1 .. k - 1 /\ n \in 1 .. n
      BY <1>4, <2>2
    <3>2. s[n].end <= From(s, k, 1)
      BY <1>1, <3>1, ChainOrder
    <3>3. s[n] = EndOf(text)
      BY <1>2, <2>1, <3>1 DEF Last
    <3>4. N <= From(s, k, 1)
      BY <3>2, <3>3 DEF EndOf, Token
    <3>5. /\ From(s, k, 1) \in 1 .. N
          /\ s[k].begin \in From(s, k, 1) .. N /\ s[k].end \in s[k].begin .. N
          /\ s[k].kind # "Eof" => s[k].begin < s[k].end
          /\ s[k].kind = "Eof" => s[k] = EndOf(text)
      BY <1>1, ChainRange
    <3> QED  BY <1>1, <3>4, <3>5
  <2>3. ASSUME NEW k \in 1 .. Len(s)
        PROVE  IF k <= Len(r) THEN s[k] = r[k] ELSE s[k] = EndOf(text)
    <3>1. k <= Len(r) => k \in 1 .. Len(r)
      BY <1>4
    <3> QED  BY <2>1, <2>2, <3>1
  <2> QED  BY <2>3 DEF r
<1> QED  BY <1>4, <1>5, <1>6

-----------------------------------------------------------------------------
(***************************************************************************)
(* The messages about the tokens of a chain.                               *)
(***************************************************************************)
Reports == [at : Nat, line : Nat]

LEMMA MessageIs ==
  ASSUME NEW text, NEW t \in Tokens, 1 <= t.begin
  PROVE  /\ Message(text, t) \in Seq(Reports)
         /\ Message(text, t) =
              IF t.kind = "Invalid"
              THEN <<[at |-> t.begin, line |-> 1 + Cardinality(NewLines(text, t.begin))]>>
              ELSE <<>>
<1>1. t.begin \in Nat
  BY DEF Tokens
<1>2. LocationAt(text, t.begin).line = 1 + Cardinality(NewLines(text, t.begin))
  BY <1>1, LineOfLocation
<1>3. Cardinality(NewLines(text, t.begin)) \in Nat
  BY <1>1, MoreNewLines
<1> DEFINE report == [at |-> t.begin, line |-> 1 + Cardinality(NewLines(text, t.begin))]
<1>4. report \in Reports
  BY <1>1, <1>3 DEF Reports
<1>5. Message(text, t) = IF t.kind = "Invalid" THEN <<report>> ELSE <<>>
  BY <1>2 DEF Message
<1> HIDE DEF report
<1>6. <<report>> \in Seq(Reports) /\ <<>> \in Seq(Reports)
  BY <1>4
<1> QED  BY <1>5, <1>6 DEF report

MessagesOf(text, tokens) == [k \in DOMAIN tokens |-> Message(text, tokens[k])]

LEMMA MessagesType ==
  ASSUME NEW text \in Texts, NEW i \in 1 .. Len(text) + 1, NEW s, Chained(s, text, i)
  PROVE  /\ MessagesOf(text, s) \in Seq(Seq(Reports))
         /\ Len(MessagesOf(text, s)) = Len(s)
         /\ Messages(text, s) = FlattenSeq(MessagesOf(text, s))
         /\ Messages(text, s) \in Seq(Reports)
<1>1. s \in Seq(Tokens) /\ Len(s) \in Nat /\ DOMAIN s = 1 .. Len(s)
  BY DEF Chained
<1>2. ASSUME NEW k \in 1 .. Len(s)
      PROVE  Message(text, s[k]) \in Seq(Reports)
  <2>1. From(s, k, i) \in i .. Len(text) + 1 /\ s[k].begin \in From(s, k, i) .. Len(text) + 1
    BY ChainRange
  <2>2. s[k] \in Tokens /\ 1 <= s[k].begin
    BY <1>1, <2>1 DEF Texts
  <2> QED  BY <2>2, MessageIs
<1> DEFINE m == MessagesOf(text, s)
<1>3. m = [k \in 1 .. Len(s) |-> Message(text, s[k])]
  BY <1>1 DEF MessagesOf
<1>4. m \in [1 .. Len(s) -> Seq(Reports)]
  BY <1>2, <1>3
<1>5. m \in Seq(Seq(Reports)) /\ Len(m) = Len(s)
  <2> HIDE DEF m
  <2> QED  BY <1>1, <1>4
<1>6. Messages(text, s) = FlattenSeq(m)
  BY DEF Messages, MessagesOf
<1>7. FlattenSeq(m) \in Seq(Reports)
  <2> HIDE DEF m
  <2> QED  BY <1>5, FlattenConcat
<1> QED  BY <1>5, <1>6, <1>7

LEMMA MessagesConcat ==
  ASSUME NEW text \in Texts, NEW i \in 1 .. Len(text) + 1,
         NEW s, Chained(s, text, i), NEW t, Chained(t, text, After(s, i))
  PROVE  Messages(text, s \o t) = Messages(text, s) \o Messages(text, t)
<1> DEFINE st == s \o t
           m == MessagesOf(text, s)
           n == MessagesOf(text, t)
           mn == MessagesOf(text, st)
<1>1. Chained(st, text, i) /\ After(s, i) \in 1 .. Len(text) + 1
  BY ChainConcat, AfterRange DEF Texts
<1> HIDE DEF st
<1>2. m \in Seq(Seq(Reports)) /\ Len(m) = Len(s) /\ Messages(text, s) = FlattenSeq(m)
  BY MessagesType
<1>3. n \in Seq(Seq(Reports)) /\ Len(n) = Len(t) /\ Messages(text, t) = FlattenSeq(n)
  BY <1>1, MessagesType
<1>4. mn \in Seq(Seq(Reports)) /\ Len(mn) = Len(st) /\ Messages(text, st) = FlattenSeq(mn)
  BY <1>1, MessagesType
<1>5. s \in Seq(Tokens) /\ t \in Seq(Tokens) /\ st \in Seq(Tokens)
  BY <1>1 DEF Chained
<1>6. /\ Len(st) = Len(s) + Len(t)
      /\ \A k \in 1 .. Len(s) + Len(t) : st[k] = IF k <= Len(s) THEN s[k] ELSE t[k - Len(s)]
  BY <1>5, ConcatProperties DEF st
<1>7. /\ \A k \in 1 .. Len(s) : m[k] = Message(text, s[k])
      /\ \A k \in 1 .. Len(t) : n[k] = Message(text, t[k])
      /\ \A k \in 1 .. Len(st) : mn[k] = Message(text, st[k])
  <2>1. DOMAIN s = 1 .. Len(s) /\ DOMAIN t = 1 .. Len(t) /\ DOMAIN st = 1 .. Len(st)
    BY <1>5
  <2> QED  BY <2>1 DEF MessagesOf
<1>8. Len(s) \in Nat /\ Len(t) \in Nat
  BY <1>5
<1> HIDE DEF m, n, mn
<1>9. mn = m \o n
  <2>1. /\ m \o n \in Seq(Seq(Reports))
        /\ Len(m \o n) = Len(s) + Len(t)
        /\ \A k \in 1 .. Len(s) + Len(t) : (m \o n)[k] = IF k <= Len(s) THEN m[k] ELSE n[k - Len(s)]
    <3> DEFINE Q == Seq(Reports)
    <3>1. m \in Seq(Q) /\ n \in Seq(Q)
      BY <1>2, <1>3
    <3> HIDE DEF Q
    <3>2. /\ m \o n \in Seq(Q)
          /\ Len(m \o n) = Len(m) + Len(n)
          /\ \A k \in 1 .. Len(m) + Len(n) : (m \o n)[k] = IF k <= Len(m) THEN m[k] ELSE n[k - Len(m)]
      BY <3>1, ConcatProperties
    <3> QED  BY <1>2, <1>3, <3>2 DEF Q
  <2>2. ASSUME NEW k \in 1 .. Len(s) + Len(t)
        PROVE  mn[k] = (m \o n)[k]
    <3>1. mn[k] = Message(text, st[k])
      BY <1>6, <1>7
    <3>2. CASE k <= Len(s)
      <4>1. k \in 1 .. Len(s)
        BY <3>2
      <4> QED  BY <1>6, <1>7, <2>1, <3>1, <3>2, <4>1
    <3>3. CASE ~(k <= Len(s))
      <4> DEFINE j == k - Len(s)
      <4>1. j \in 1 .. Len(t) /\ st[k] = t[j] /\ (m \o n)[k] = n[j]
        BY <1>6, <1>8, <2>1, <3>3
      <4> HIDE DEF j
      <4> QED  BY <1>7, <3>1, <4>1
    <3> QED  BY <3>2, <3>3
  <2> DEFINE c == m \o n
  <2>3. c \in Seq(Seq(Reports)) /\ Len(c) = Len(mn) /\ \A k \in 1 .. Len(mn) : mn[k] = c[k]
    BY <1>4, <1>6, <2>1, <2>2
  <2> HIDE DEF c
  <2>4. mn = c
    BY <1>4, <2>3, SeqEqual
  <2> QED  BY <2>4 DEF c
<1>10. FlattenSeq(m \o n) = FlattenSeq(m) \o FlattenSeq(n)
  BY <1>2, <1>3, FlattenConcat
<1> QED  BY <1>2, <1>3, <1>4, <1>9, <1>10 DEF st

LEMMA NoMessages ==
  ASSUME NEW text
  PROVE  Messages(text, <<>>) = <<>>
<1> DEFINE m == [k \in DOMAIN <<>> |-> Message(text, <<>>[k])]
<1>1. m \in [1 .. 0 -> {}]
  OBVIOUS
<1> HIDE DEF m
<1>2. m \in Seq({}) /\ Len(m) = 0
  BY <1>1
<1>3. m = <<>>
  BY <1>2
<1> QED  BY <1>3 DEF Messages, FlattenSeq, m

-----------------------------------------------------------------------------
(***************************************************************************)
(* The state: what was handed out and what is pending are one chain from   *)
(* the beginning of the source, the stream stands behind it, and what the  *)
(* sink was sent since the last reset is about the tokens of that chain.   *)
(***************************************************************************)
Chain == taken \o la

ChainInv ==
  /\ source \in Texts
  /\ taken \in Seq(Tokens) /\ la \in Seq(Tokens)
  /\ Chained(Chain, source, 1)
  /\ index = After(Chain, 1)

MessageInv ==
  /\ diagnostics \in Seq(Reports)
  /\ mark \in 0 .. Len(diagnostics)
  /\ SubSeq(diagnostics, mark + 1, Len(diagnostics)) = Messages(source, Chain)

LookaheadInv == Len(la) <= MaxLookahead + 1

Inv == ChainInv /\ MessageInv /\ LookaheadInv

\* What is sent behind a part of the messages makes that part longer.
LEMMA SentBehind ==
  ASSUME NEW S, NEW d \in Seq(S), NEW e \in Seq(S), NEW m \in 0 .. Len(d)
  PROVE  /\ d \o e \in Seq(S) /\ m \in 0 .. Len(d \o e)
         /\ SubSeq(d \o e, m + 1, Len(d \o e)) = SubSeq(d, m + 1, Len(d)) \o e
<1>1. /\ d \o e \in Seq(S) /\ Len(d \o e) = Len(d) + Len(e)
      /\ \A k \in 1 .. Len(d) + Len(e) : (d \o e)[k] = IF k <= Len(d) THEN d[k] ELSE e[k - Len(d)]
  BY ConcatProperties
<1>2. Len(d) \in Nat /\ Len(e) \in Nat
  OBVIOUS
<1> DEFINE de == d \o e
           l == Len(de)
           a == SubSeq(de, m + 1, l)
           b == SubSeq(d, m + 1, Len(d))
<1>3. de \in Seq(S) /\ l = Len(d) + Len(e) /\ l \in Nat
      /\ \A k \in 1 .. l : de[k] = IF k <= Len(d) THEN d[k] ELSE e[k - Len(d)]
  BY <1>1, <1>2
<1> HIDE DEF de
<1>4. \A k \in m + 1 .. l : de[k] \in S
  BY <1>2, <1>3
<1>5. \A k \in m + 1 .. Len(d) : d[k] \in S
  BY <1>2
<1> HIDE DEF l
<1>6. /\ a \in Seq(S) /\ Len(a) = l - m
      /\ \A k \in 1 .. l - m : a[k] = de[m + k]
  <2>1. m + 1 \in Int /\ l \in Int /\ (m + 1) - 1 = m /\ l - (m + 1) + 1 = l - m
    BY <1>3
  <2>2. /\ a \in Seq(S) /\ Len(a) = IF m + 1 <= l THEN l - (m + 1) + 1 ELSE 0
        /\ \A k \in 1 .. l - (m + 1) + 1 : a[k] = de[(m + 1) + k - 1]
    BY <1>4, <2>1, SubSeqProperties
  <2>3. m <= l
    BY <1>2, <1>3
  <2> QED  BY <2>1, <2>2, <2>3
<1>7. /\ b \in Seq(S) /\ Len(b) = Len(d) - m
      /\ \A k \in 1 .. Len(d) - m : b[k] = d[m + k]
  <2>1. m + 1 \in Int /\ Len(d) \in Int
    BY <1>2
  <2>2. /\ b \in Seq(S) /\ Len(b) = IF m + 1 <= Len(d) THEN Len(d) - (m + 1) + 1 ELSE 0
        /\ \A k \in 1 .. Len(d) - (m + 1) + 1 : b[k] = d[(m + 1) + k - 1]
    BY <1>5, <2>1, SubSeqProperties
  <2> QED  BY <1>2, <2>1, <2>2
<1> HIDE DEF a, b
<1>8. /\ b \o e \in Seq(S) /\ Len(b \o e) = Len(b) + Len(e)
      /\ \A k \in 1 .. Len(b) + Len(e) : (b \o e)[k] = IF k <= Len(b) THEN b[k] ELSE e[k - Len(b)]
  BY <1>7, ConcatProperties
<1>9. ASSUME NEW k \in 1 .. Len(a)
      PROVE  a[k] = (b \o e)[k]
  <2>1. k \in 1 .. l - m /\ m + k \in 1 .. l /\ k \in 1 .. Len(b) + Len(e)
    BY <1>2, <1>3, <1>6, <1>7
  <2>2. CASE k <= Len(b)
    <3>1. m + k <= Len(d) /\ k \in 1 .. Len(d) - m
      BY <1>2, <1>7, <2>1, <2>2
    <3> QED  BY <1>3, <1>6, <1>7, <1>8, <2>1, <2>2, <3>1
  <2>3. CASE ~(k <= Len(b))
    <3>1. ~(m + k <= Len(d)) /\ (m + k) - Len(d) = k - Len(b)
      BY <1>2, <1>7, <2>1, <2>3
    <3>2. a[k] = e[(m + k) - Len(d)]
      BY <1>3, <1>6, <2>1, <3>1
    <3>3. (b \o e)[k] = e[k - Len(b)]
      BY <1>8, <2>1, <2>3
    <3> QED  BY <3>1, <3>2, <3>3
  <2> QED  BY <2>2, <2>3
<1>10. Len(a) = Len(b \o e)
  BY <1>2, <1>3, <1>6, <1>7, <1>8
<1> DEFINE c == b \o e
<1>11. c \in Seq(S) /\ Len(a) = Len(c) /\ \A k \in 1 .. Len(a) : a[k] = c[k]
  BY <1>8, <1>9, <1>10
<1> HIDE DEF c
<1>12. a = c
  BY <1>6, <1>11, SeqEqual
<1>13. m \in 0 .. l
  BY <1>2, <1>3
<1> QED  BY <1>3, <1>12, <1>13 DEF a, b, c, de, l

LEMMA InitInv == Init => Inv
<1> SUFFICES ASSUME Init
             PROVE  Inv
  OBVIOUS
<1>1. source \in Texts
  BY LexerAssumption DEF Init, Texts
<1>2. Chain = <<>> /\ la = <<>> /\ taken = <<>>
  <2>1. la = <<>> /\ taken = <<>>
    BY DEF Init
  <2>2. <<>> \in Seq(Tokens)
    BY EmptySeq
  <2> QED  BY <2>1, <2>2, ConcatEmptySeq DEF Chain
<1>3. 1 \in 1 .. Len(source) + 1
  BY <1>1 DEF Texts
<1>4. ChainInv
  <2>1. Chained(<<>>, source, 1)
    BY <1>1, <1>3, ChainOfOne
  <2>2. index = 1 /\ <<>> \in Seq(Tokens)
    BY EmptySeq DEF Init
  <2> QED  BY <1>1, <1>2, <2>1, <2>2 DEF ChainInv, After
<1>5. MessageInv
  <2>1. diagnostics = <<>> /\ mark = 0
    BY DEF Init
  <2>2. SubSeq(diagnostics, mark + 1, Len(diagnostics)) = <<>>
    BY <2>1
  <2>3. Messages(source, <<>>) = <<>>
    BY NoMessages
  <2>4. diagnostics \in Seq(Reports) /\ mark \in 0 .. Len(diagnostics)
    BY <2>1, EmptySeq
  <2> QED  BY <1>2, <2>2, <2>3, <2>4 DEF MessageInv
<1>6. LookaheadInv
  BY <1>2, LexerAssumption DEF LookaheadInv
<1> QED  BY <1>4, <1>5, <1>6 DEF Inv

\* What one call of the lexer makes is put behind the tokens there are.
LEMMA LexStep ==
  ASSUME Inv, NEW n \in Nat, Lex(n)
  PROVE  LET lexed == LexFrom(source, index, n) IN
         /\ lexed \in Seq(Tokens) /\ Len(lexed) = n
         /\ Chained(Chain \o lexed, source, 1)
         /\ index' = After(Chain \o lexed, 1)
         /\ diagnostics' \in Seq(Reports)
         /\ mark \in 0 .. Len(diagnostics')
         /\ SubSeq(diagnostics', mark + 1, Len(diagnostics')) = Messages(source, Chain \o lexed)
<1> DEFINE lexed == LexFrom(source, index, n)
<1>1. source \in Texts /\ 1 \in 1 .. Len(source) + 1 /\ Chained(Chain, source, 1)
  BY DEF Inv, ChainInv, Texts
<1>2. index \in 1 .. Len(source) + 1 /\ index = After(Chain, 1)
  BY <1>1, AfterRange DEF Inv, ChainInv
<1>3. Chained(lexed, source, index) /\ Len(lexed) = n
  BY <1>1, <1>2, LexedChain
<1>4. index' = After(lexed, index)
  <2>1. lexed = <<>> <=> n = 0
    BY <1>3 DEF Chained
  <2> QED  BY <2>1 DEF Lex, After
<1>5. diagnostics' = diagnostics \o Messages(source, lexed)
  BY DEF Lex
<1> HIDE DEF lexed
<1>6. Chained(Chain \o lexed, source, 1) /\ After(Chain \o lexed, 1) = After(lexed, index)
  BY <1>1, <1>2, <1>3, ChainConcat
<1>7. Messages(source, Chain \o lexed) = Messages(source, Chain) \o Messages(source, lexed)
  BY <1>1, <1>2, <1>3, MessagesConcat
<1> DEFINE sent == Messages(source, lexed)
<1>8. sent \in Seq(Reports)
  BY <1>1, <1>2, <1>3, MessagesType
<1> HIDE DEF sent
<1>9. /\ diagnostics \o sent \in Seq(Reports) /\ mark \in 0 .. Len(diagnostics \o sent)
      /\ SubSeq(diagnostics \o sent, mark + 1, Len(diagnostics \o sent)) =
           SubSeq(diagnostics, mark + 1, Len(diagnostics)) \o sent
  BY <1>8, SentBehind DEF Inv, MessageInv
<1>10. SubSeq(diagnostics, mark + 1, Len(diagnostics)) = Messages(source, Chain)
  BY DEF Inv, MessageInv
<1> QED
  BY <1>3, <1>4, <1>5, <1>6, <1>7, <1>9, <1>10 DEF lexed, sent, Chained

\* So the invariant holds behind every call that keeps all tokens in order.
LEMMA KeptInOrder ==
  ASSUME Inv, NEW n \in Nat, Lex(n), UNCHANGED <<source, mark>>,
         taken' \in Seq(Tokens), la' \in Seq(Tokens),
         taken' \o la' = Chain \o LexFrom(source, index, n)
  PROVE  ChainInv' /\ MessageInv'
<1> DEFINE lexed == LexFrom(source, index, n)
<1>1. /\ Chained(Chain \o lexed, source, 1)
      /\ index' = After(Chain \o lexed, 1)
      /\ diagnostics' \in Seq(Reports)
      /\ mark \in 0 .. Len(diagnostics')
      /\ SubSeq(diagnostics', mark + 1, Len(diagnostics')) = Messages(source, Chain \o lexed)
  BY LexStep
<1> HIDE DEF lexed
<1>2. Chain' = Chain \o lexed
  BY DEF Chain, lexed
<1>3. source' = source /\ mark' = mark /\ source \in Texts
  BY DEF Inv, ChainInv
<1> QED  BY <1>1, <1>2, <1>3 DEF ChainInv, MessageInv

LEMMA TakeStep ==
  ASSUME Inv, Take, UNCHANGED <<source, mark>>
  PROVE  Inv'
<1> DEFINE missing == IF la = <<>> THEN 1 ELSE 0
           lexed == LexFrom(source, index, missing)
           pending == la \o lexed
<1>1. taken \in Seq(Tokens) /\ la \in Seq(Tokens) /\ missing \in Nat
  BY DEF Inv, ChainInv
<1>2. taken' = Append(taken, Head(pending)) /\ la' = Tail(pending) /\ Lex(missing)
  BY DEF Take
<1>3. lexed \in Seq(Tokens) /\ Len(lexed) = missing
  BY <1>1, <1>2, LexStep
<1> HIDE DEF lexed
<1>4. pending \in Seq(Tokens) /\ Len(pending) = Len(la) + Len(lexed) /\ Len(pending) # 0
  BY <1>1, <1>3, ConcatProperties
<1>5. (taken \o la) \o lexed = taken \o pending
  BY <1>1, <1>3, ConcatAssociative, SMTT(30)
<1>6. Len(pending) <= MaxLookahead + 2
  <2>1. CASE la = <<>>
    BY <1>3, <1>4, <2>1, LexerAssumption
  <2>2. CASE la # <<>>
    <3>1. Len(pending) = Len(la) /\ Len(la) \in Nat
      BY <1>1, <1>3, <1>4, <2>2
    <3> QED  BY <3>1, LexerAssumption DEF Inv, LookaheadInv
  <2> QED  BY <2>1, <2>2
<1> HIDE DEF pending
<1>7. pending # <<>> /\ Len(pending) \in Nat
  BY <1>4
<1>8. /\ Head(pending) \in Tokens /\ Tail(pending) \in Seq(Tokens)
      /\ Len(Tail(pending)) = Len(pending) - 1
  BY <1>4, <1>7, HeadTailProperties
<1>9. taken' \in Seq(Tokens) /\ la' \in Seq(Tokens)
  BY <1>1, <1>2, <1>8, AppendProperties
<1>10. taken' \o la' = taken \o pending
  <2> DEFINE h == Head(pending)
             t == Tail(pending)
  <2>1. h \in Tokens /\ t \in Seq(Tokens)
    BY <1>8
  <2>2. pending = <<h>> \o t
    BY <1>4, <1>7
  <2> HIDE DEF h, t
  <2>3. Append(taken, h) = taken \o <<h>> /\ <<h>> \in Seq(Tokens)
    BY <1>1, <2>1, AppendIsConcat
  <2> DEFINE u == <<h>>
  <2>4. u \in Seq(Tokens)
    BY <2>3
  <2> HIDE DEF u
  <2>5. (taken \o u) \o t = taken \o (u \o t)
    BY <1>1, <2>1, <2>4, ConcatAssociative
  <2> QED  BY <1>2, <2>2, <2>3, <2>5 DEF h, t, u
<1>11. ChainInv' /\ MessageInv'
  <2>1. taken' \o la' = Chain \o LexFrom(source, index, missing)
    BY <1>5, <1>10 DEF Chain, lexed
  <2> HIDE DEF missing
  <2> QED  BY <1>1, <1>2, <1>9, <2>1, KeptInOrder
<1>12. LookaheadInv'
  <2>1. Len(la') <= MaxLookahead + 1
    BY <1>2, <1>6, <1>7, <1>8, LexerAssumption
  <2> QED  BY <2>1 DEF LookaheadInv
<1> QED  BY <1>11, <1>12 DEF Inv

LEMMA PeekStep ==
  ASSUME Inv, NEW n \in 0 .. MaxLookahead, Peek(n)
  PROVE  Inv'
<1> DEFINE missing == Missing(n)
           lexed == LexFrom(source, index, missing)
<1>1. taken \in Seq(Tokens) /\ la \in Seq(Tokens) /\ n \in Nat /\ n <= MaxLookahead /\ Len(la) \in Nat
  BY LexerAssumption DEF Inv, ChainInv
<1>2. missing \in Nat /\ Len(la) + missing <= MaxLookahead + 1
  BY <1>1, LexerAssumption DEF Missing, Inv, LookaheadInv
<1>3. la' = la \o lexed /\ Lex(missing) /\ UNCHANGED <<source, taken, mark>>
  BY DEF Peek
<1>4. lexed \in Seq(Tokens) /\ Len(lexed) = missing
  BY <1>2, <1>3, LexStep
<1> HIDE DEF lexed
<1>5. la \o lexed \in Seq(Tokens) /\ Len(la \o lexed) = Len(la) + missing
  BY <1>1, <1>4, ConcatProperties
<1>6. (taken \o la) \o lexed = taken \o (la \o lexed)
  BY <1>1, <1>4, ConcatAssociative, SMTT(30)
<1>7. taken' \in Seq(Tokens) /\ la' \in Seq(Tokens)
  BY <1>1, <1>3, <1>5
<1>8. taken' \o la' = Chain \o LexFrom(source, index, missing)
  BY <1>3, <1>6 DEF Chain, lexed
<1> HIDE DEF missing
<1>9. ChainInv' /\ MessageInv'
  BY <1>2, <1>3, <1>7, <1>8, KeptInOrder
<1>10. LookaheadInv'
  BY <1>2, <1>3, <1>5 DEF LookaheadInv
<1> QED  BY <1>9, <1>10 DEF Inv

LEMMA ResetStep ==
  ASSUME Inv, Reset
  PROVE  Inv'
<1>1. source' \in Texts
  BY LexerAssumption DEF Reset, Texts
<1>2. la' = <<>> /\ taken' = <<>> /\ index' = 1 /\ mark' = Len(diagnostics) /\ diagnostics' = diagnostics
  BY DEF Reset
<1>3. Chain' = <<>> /\ <<>> \in Seq(Tokens)
  <2>1. <<>> \in Seq(Tokens)
    BY EmptySeq
  <2> QED  BY <1>2, <2>1, ConcatEmptySeq DEF Chain
<1>4. 1 \in 1 .. Len(source') + 1
  BY <1>1 DEF Texts
<1>5. Chained(<<>>, source', 1)
  BY <1>1, <1>4, ChainOfOne
<1>6. ChainInv'
  BY <1>1, <1>2, <1>3, <1>5 DEF ChainInv, After
<1>7. MessageInv'
  <2>1. diagnostics \in Seq(Reports) /\ Len(diagnostics) \in Nat
    BY DEF Inv, MessageInv
  <2>2. SubSeq(diagnostics, Len(diagnostics) + 1, Len(diagnostics)) = <<>>
    BY <2>1, SubSeqEmpty
  <2>3. Messages(source', <<>>) = <<>>
    BY NoMessages
  <2>4. mark' \in 0 .. Len(diagnostics')
    BY <1>2, <2>1
  <2>5. SubSeq(diagnostics', mark' + 1, Len(diagnostics')) = <<>>
    BY <1>2, <2>2
  <2> QED  BY <1>2, <1>3, <2>1, <2>3, <2>4, <2>5 DEF MessageInv
<1>8. LookaheadInv'
  BY <1>2, LexerAssumption DEF LookaheadInv
<1> QED  BY <1>6, <1>7, <1>8 DEF Inv

LEMMA Invariance == Spec => []Inv
<1>1. Inv /\ [Next]_vars => Inv'
  <2> SUFFICES ASSUME Inv, [Next]_vars
               PROVE  Inv'
    OBVIOUS
  <2>1. CASE NextToken
    BY <2>1, TakeStep DEF NextToken
  <2>2. ASSUME NEW n \in 0 .. MaxLookahead, Peek(n)
        PROVE  Inv'
    BY <2>2, PeekStep
  <2>3. CASE Reset
    BY <2>3, ResetStep
  <2>4. CASE BeginIterator
    BY <2>4, TakeStep DEF BeginIterator, LoadIterator
  <2>5. CASE AdvanceIterator
    BY <2>5, TakeStep DEF AdvanceIterator, LoadIterator
  <2>6. CASE UNCHANGED vars
    BY <2>6 DEF vars, Inv, ChainInv, MessageInv, LookaheadInv, Chain
  <2> QED  BY <2>1, <2>2, <2>3, <2>4, <2>5, <2>6 DEF Next
<1> QED  BY InitInv, <1>1, PTL DEF Spec

-----------------------------------------------------------------------------
(***************************************************************************)
(* The theorems.                                                           *)
(***************************************************************************)
LEMMA TypeFromInv == Inv => TypeOK
<1> SUFFICES ASSUME Inv
             PROVE  TypeOK
  OBVIOUS
<1>1. source \in Texts /\ 1 \in 1 .. Len(source) + 1 /\ Chained(Chain, source, 1) /\ index = After(Chain, 1)
  BY DEF Inv, ChainInv, Texts
<1>2. index \in 1 .. Len(source) + 1
  BY <1>1, AfterRange
<1>3. taken \in Seq(Tokens) /\ la \in Seq(Tokens)
  BY DEF Inv, ChainInv
<1>4. ASSUME NEW i \in DOMAIN la
      PROVE  la[i].begin <= la[i].end /\ la[i].end <= index
  <2> DEFINE k == Len(taken) + i
  <2>1. /\ Len(Chain) = Len(taken) + Len(la)
        /\ \A j \in 1 .. Len(taken) + Len(la) :
             Chain[j] = IF j <= Len(taken) THEN taken[j] ELSE la[j - Len(taken)]
    BY <1>3, ConcatProperties DEF Chain
  <2>2. i \in 1 .. Len(la) /\ Len(taken) \in Nat /\ Len(la) \in Nat
    BY <1>3
  <2>3. k \in 1 .. Len(taken) + Len(la) /\ k \in 1 .. Len(Chain) /\ ~(k <= Len(taken)) /\ k - Len(taken) = i
    BY <2>1, <2>2
  <2> HIDE DEF k
  <2>4. Chain[k] = la[i]
    BY <2>1, <2>3
  <2>5. Chain[k].end <= index
    BY <1>1, <2>3, ChainBefore
  <2>6. /\ Chain[k].begin \in From(Chain, k, 1) .. Len(source) + 1
        /\ Chain[k].end \in Chain[k].begin .. Len(source) + 1
    BY <1>1, <2>3, ChainRange
  <2> QED  BY <2>4, <2>5, <2>6
<1>5. mark <= Len(diagnostics) /\ Len(la) <= MaxLookahead + 1
  BY DEF Inv, MessageInv, LookaheadInv
<1> QED  BY <1>2, <1>4, <1>5 DEF TypeOK

LEMMA RulesFromInv == Inv => TokensAreLongestMatches
<1> SUFFICES ASSUME Inv
             PROVE  TokensAreLongestMatches
  OBVIOUS
<1>1. source \in Texts /\ 1 \in 1 .. Len(source) + 1 /\ Chained(Chain, source, 1)
  BY DEF Inv, ChainInv, Texts
<1>2. taken \in Seq(Tokens) /\ la \in Seq(Tokens)
  BY DEF Inv, ChainInv
<1> DEFINE r == RulesFrom(source, 1)
           n == Len(taken) + Len(la)
<1>3. Chain \in Seq(Tokens) /\ Len(Chain) = n
  BY <1>2, ConcatProperties DEF Chain
<1>4. Last(r) = EndOf(source)
  BY <1>1, RulesChain
<1>5. \A k \in 1 .. Len(Chain) : IF k <= Len(r) THEN Chain[k] = r[k] ELSE Chain[k] = EndOf(source)
  BY <1>1, ChainIsRules
<1> HIDE DEF r
<1>6. \A k \in 1 .. n : Chain[k] = IF k <= Len(r) THEN r[k] ELSE Last(r)
  BY <1>3, <1>4, <1>5
<1>7. Chain = [k \in 1 .. n |-> Chain[k]]
  <2> HIDE DEF n
  <2> QED  BY <1>3
<1>8. Chain = [k \in 1 .. n |-> IF k <= Len(r) THEN r[k] ELSE Last(r)]
  <2> HIDE DEF n
  <2> QED  BY <1>6, <1>7
<1>9. Expected(n) = [k \in 1 .. n |-> IF k <= Len(r) THEN r[k] ELSE Last(r)]
  BY DEF Expected, r
<1> QED  BY <1>8, <1>9 DEF TokensAreLongestMatches, Chain

Due(t) ==
  IF t.kind = "Invalid" /\ t.end <= index
  THEN <<[at |-> t.begin, line |-> 1 + Cardinality(NewLines(source, t.begin))]>> ELSE <<>>

\* What is due of the text is what was sent about the chain.
LEMMA SentIsDue ==
  ASSUME Inv
  PROVE  LET rules == RulesFrom(source, 1) IN
         Messages(source, Chain) = FlattenSeq([k \in DOMAIN rules |-> Due(rules[k])])
<1> DEFINE r == RulesFrom(source, 1)
           N == Len(source) + 1
           s == Chain
           m == MessagesOf(source, s)
           d == [k \in DOMAIN r |-> Due(r[k])]
<1>1. source \in Texts /\ 1 \in 1 .. N /\ N \in Nat /\ Chained(s, source, 1) /\ index = After(s, 1)
  BY DEF Inv, ChainInv, Texts
<1>2. Chained(r, source, 1) /\ index \in 1 .. N
  BY <1>1, RulesChain, AfterRange
<1>3. \A k \in 1 .. Len(s) : IF k <= Len(r) THEN s[k] = r[k] ELSE s[k] = EndOf(source)
  BY <1>1, ChainIsRules
<1>4. m \in Seq(Seq(Reports)) /\ Len(m) = Len(s) /\ Messages(source, s) = FlattenSeq(m)
  BY <1>1, MessagesType
<1>5. \A k \in 1 .. Len(s) : s[k].end <= index
  BY <1>1, ChainBefore
<1> HIDE DEF r
<1>6. /\ r \in Seq(Tokens) /\ Len(r) \in Nat /\ DOMAIN r = 1 .. Len(r)
      /\ s \in Seq(Tokens) /\ Len(s) \in Nat /\ DOMAIN s = 1 .. Len(s)
  BY <1>1, <1>2 DEF Chained
<1> HIDE DEF s
<1>7. \A k \in 1 .. Len(s) : m[k] = Message(source, s[k])
  BY <1>6 DEF MessagesOf
<1>8. ASSUME NEW k \in 1 .. Len(r)
      PROVE  /\ r[k] \in Tokens /\ 1 <= r[k].begin
             /\ Message(source, r[k]) \in Seq(Reports)
             /\ Message(source, r[k]) =
                  IF r[k].kind = "Invalid"
                  THEN <<[at |-> r[k].begin, line |-> 1 + Cardinality(NewLines(source, r[k].begin))]>>
                  ELSE <<>>
  <2>1. From(r, k, 1) \in 1 .. N /\ r[k].begin \in From(r, k, 1) .. N
    BY <1>1, <1>2, ChainRange
  <2>2. r[k] \in Tokens /\ 1 <= r[k].begin
    BY <1>1, <1>6, <2>1
  <2> QED  BY <2>2, MessageIs
<1>9. ASSUME NEW k \in 1 .. Len(r)
      PROVE  Due(r[k]) = IF r[k].end <= index THEN Message(source, r[k]) ELSE <<>>
  BY <1>8 DEF Due
<1>10. d \in Seq(Seq(Reports)) /\ Len(d) = Len(r) /\ \A k \in 1 .. Len(r) : d[k] = Due(r[k])
  <2>1. d = [k \in 1 .. Len(r) |-> Due(r[k])]
    BY <1>6
  <2>2. \A k \in 1 .. Len(r) : Due(r[k]) \in Seq(Reports)
    BY <1>8, <1>9, EmptySeq
  <2>3. d \in [1 .. Len(r) -> Seq(Reports)]
    BY <2>1, <2>2
  <2>4. \A k \in 1 .. Len(r) : d[k] = Due(r[k])
    BY <2>1
  <2> HIDE DEF d
  <2> QED  BY <1>6, <2>3, <2>4
<1> HIDE DEF m, d
\* What both have is sent and due alike.
<1>11. ASSUME NEW k \in 1 .. Len(s), k <= Len(r)
       PROVE  m[k] = d[k]
  <2>1. k \in 1 .. Len(r) /\ s[k] = r[k] /\ s[k].end <= index
    BY <1>3, <1>5, <1>6, <1>11
  <2> QED  BY <1>7, <1>9, <1>10, <2>1
<1>12. CASE Len(s) <= Len(r)
  \* What the lexer has not come to is not due.
  <2>1. ASSUME NEW k \in Len(s) + 1 .. Len(r)
        PROVE  d[k] = <<>>
    <3>1. k \in 1 .. Len(r)
      BY <1>6
    <3>2. index <= From(r, k, 1)
      <4>1. CASE s = <<>>
        <5>1. From(r, k, 1) \in 1 .. N
          BY <1>1, <1>2, <3>1, ChainRange
        <5> QED  BY <1>1, <4>1, <5>1 DEF After
      <4>2. CASE s # <<>>
        <5> DEFINE n == Len(s)
        <5>1. n \in 1 .. n /\ n \in 1 .. k - 1 /\ n <= Len(r)
          BY <1>6, <1>12, <4>2
        <5>2. s[n] = r[n]
          BY <1>3, <5>1
        <5>3. r[n].end <= From(r, k, 1)
          BY <1>1, <1>2, <3>1, <5>1, ChainOrder
        <5> QED  BY <1>1, <4>2, <5>2, <5>3 DEF After, Last
      <4> QED  BY <4>1, <4>2
    <3>3. /\ From(r, k, 1) \in 1 .. N
          /\ r[k].begin \in From(r, k, 1) .. N /\ r[k].end \in r[k].begin .. N
          /\ r[k].kind # "Eof" => r[k].begin < r[k].end
      BY <1>1, <1>2, <3>1, ChainRange
    <3>4. r[k].kind = "Invalid" => ~(r[k].end <= index)
      BY <1>1, <1>2, <3>2, <3>3
    <3>5. Due(r[k]) = <<>>
      BY <3>4 DEF Due
    <3> QED  BY <1>10, <3>1, <3>5
  <2>2. Same(m, d, Len(m))
    BY <1>4, <1>6, <1>11, <1>12 DEF Same
  <2>3. FlattenSeq(m) = FlattenSeq(d)
    <3> DEFINE Q == Reports
    <3>1. m \in Seq(Seq(Q)) /\ d \in Seq(Seq(Q))
      BY <1>4, <1>10
    <3>2. Len(m) <= Len(d) /\ \A k \in Len(m) + 1 .. Len(d) : d[k] = <<>>
      BY <1>4, <1>10, <1>12, <2>1
    <3> HIDE DEF Q
    <3> QED  BY <2>2, <3>1, <3>2, FlattenSame
  <2> QED  BY <1>4, <2>3 DEF d, r, s
<1>13. CASE Len(r) < Len(s)
  \* The end, seen again and again, is no cause for a message.
  <2>1. ASSUME NEW k \in Len(r) + 1 .. Len(s)
        PROVE  m[k] = <<>>
    <3>1. k \in 1 .. Len(s) /\ ~(k <= Len(r))
      BY <1>6
    <3>2. s[k] = EndOf(source)
      BY <1>3, <3>1
    <3>3. EndOf(source).kind # "Invalid"
      BY DEF EndOf, Token
    <3>4. Message(source, EndOf(source)) = <<>>
      BY <3>3 DEF Message
    <3> QED  BY <1>7, <3>1, <3>2, <3>4
  <2>2. Same(d, m, Len(d))
    BY <1>6, <1>10, <1>11, <1>13 DEF Same
  <2>3. FlattenSeq(d) = FlattenSeq(m)
    <3> DEFINE Q == Reports
    <3>1. m \in Seq(Seq(Q)) /\ d \in Seq(Seq(Q))
      BY <1>4, <1>10
    <3>2. Len(d) <= Len(m) /\ \A k \in Len(d) + 1 .. Len(m) : m[k] = <<>>
      BY <1>4, <1>6, <1>10, <1>13, <2>1
    <3> HIDE DEF Q
    <3> QED  BY <2>2, <3>1, <3>2, FlattenSame
  <2> QED  BY <1>4, <2>3 DEF d, r, s
<1> QED  BY <1>6, <1>12, <1>13

LEMMA ReportsFromInv == Inv => ReportedOnce
<1> SUFFICES ASSUME Inv
             PROVE  ReportedOnce
  OBVIOUS
<1> DEFINE r == RulesFrom(source, 1)
<1>1. Messages(source, Chain) = FlattenSeq([k \in DOMAIN r |-> Due(r[k])])
  BY SentIsDue
<1>2. SubSeq(diagnostics, mark + 1, Len(diagnostics)) = Messages(source, Chain)
  BY DEF Inv, MessageInv
<1> QED  BY <1>1, <1>2 DEF ReportedOnce, Due, NewLines

\* The tokens pending lie in what was read of the source, and there are no more
\* of them than clients look ahead (Lexer::fill_lookahead_, Lexer::next).
THEOREM TypeCorrect == Spec => []TypeOK
BY Invariance, TypeFromInv, PTL

\* Whatever texts there are and whatever clients call, the tokens handed out and
\* those pending are the longest matches of the rules, each once and in order
\* (Lexer::lex_one_ against docs/lexer_legacy_behavior.md).
THEOREM LongestMatches == Spec => []TokensAreLongestMatches
BY Invariance, RulesFromInv, PTL

\* Each character that no rule matches is reported once, when the lexer comes to
\* it, with the line it is on (Lexer::lex_one_, StringViewStream::get).
THEOREM Reported == Spec => []ReportedOnce
BY Invariance, ReportsFromInv, PTL
=============================================================================
