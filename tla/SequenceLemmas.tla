--------------------------- MODULE SequenceLemmas ---------------------------
(***************************************************************************)
(* Facts that the proofs of several modules need: induction over numbers,  *)
(* and what FlattenSeq makes of a sequence of sequences.  Both are stated  *)
(* with sets: a set of numbers that holds 0 and n + 1 whenever it holds n  *)
(* holds all of them, which needs no predicate as a parameter.             *)
(***************************************************************************)
EXTENDS SequencesExt, Integers, WellFoundedInduction, SequenceTheorems, TLAPS

-----------------------------------------------------------------------------
(***************************************************************************)
(* Induction over numbers.                                                 *)
(***************************************************************************)
LEMMA LeastNumber ==
  ASSUME NEW S, S \subseteq Nat, S # {}
  PROVE  \E m \in S : \A j \in S : m <= j
<1> DEFINE R == OpToRel(<, Nat)
<1>1. \A i, j \in Nat : i < j => <<i, j>> \in R
  BY DEF OpToRel
<1>2. IsWellFoundedOn(R, Nat)
  BY NatLessThanWellFounded
<1> HIDE DEF R
<1>3. PICK m \in S : \A j \in S : ~ (<<j, m>> \in R)
  BY <1>2, WFMin
<1>4. ASSUME NEW j \in S
      PROVE  m <= j
  <2>1. m \in Nat /\ j \in Nat /\ ~ (j < m)
    BY <1>1, <1>3
  <2> QED  BY <2>1
<1> QED
  BY <1>4

LEMMA Induction ==
  ASSUME NEW S, 0 \in S, \A n \in Nat : n \in S => n + 1 \in S
  PROVE  Nat \subseteq S
<1> SUFFICES ASSUME Nat \ S # {}
             PROVE  FALSE
  OBVIOUS
<1>1. PICK m \in Nat \ S : \A j \in Nat \ S : m <= j
  <2>1. Nat \ S \subseteq Nat
    OBVIOUS
  <2> QED  BY <2>1, LeastNumber
<1>2. m - 1 \in Nat /\ m - 1 \in S
  BY <1>1
<1> QED
  BY <1>1, <1>2

\* From the end of a text back to its beginning.
LEMMA InductionFromEnd ==
  ASSUME NEW N \in Nat, NEW low \in Nat, NEW S,
         \A i \in low .. N : (\A j \in i + 1 .. N : j \in S) => i \in S
  PROVE  low .. N \subseteq S
<1> DEFINE Bad == {d \in Nat : \E i \in low .. N : i \notin S /\ d = N - i}
<1> SUFFICES ASSUME Bad # {}
             PROVE  FALSE
  <2> SUFFICES ASSUME NEW i \in low .. N, i \notin S
               PROVE  Bad # {}
    OBVIOUS
  <2>1. N - i \in Bad
    OBVIOUS
  <2> QED  BY <2>1
<1>1. PICK d \in Bad : \A e \in Bad : d <= e
  <2>1. Bad \subseteq Nat
    OBVIOUS
  <2> HIDE DEF Bad
  <2> QED  BY <2>1, LeastNumber
<1>2. PICK i \in low .. N : i \notin S /\ d = N - i
  BY <1>1
<1>3. PICK j \in i + 1 .. N : j \notin S
  BY <1>2
<1>4. N - j \in Bad
  BY <1>3
<1> QED
  BY <1>1, <1>2, <1>4

-----------------------------------------------------------------------------
(***************************************************************************)
(* Sequences of sequences, one after the other: FlattenSeq is a recursive  *)
(* function over the prefixes.                                             *)
(***************************************************************************)
IsFlat(flat, seqs, n) == flat = [k \in 0 .. n |-> IF k = 0 THEN <<>> ELSE flat[k - 1] \o seqs[k]]

LEMMA FlatExists ==
  ASSUME NEW seqs
  PROVE  \A n \in Nat : \E flat : IsFlat(flat, seqs, n)
<1> DEFINE S == {n \in Nat : \E flat : IsFlat(flat, seqs, n)}
<1>1. 0 \in S
  <2>1. IsFlat([k \in 0 .. 0 |-> <<>>], seqs, 0)
    BY DEF IsFlat
  <2> QED  BY <2>1
<1>2. ASSUME NEW n \in Nat, n \in S
      PROVE  n + 1 \in S
  <2>1. PICK f : IsFlat(f, seqs, n)
    BY <1>2
  <2> DEFINE g == [k \in 0 .. n + 1 |-> IF k = 0 THEN <<>> ELSE f[k - 1] \o seqs[k]]
  <2>2. \A k \in 0 .. n : g[k] = f[k]
    BY <2>1 DEF IsFlat
  <2>3. g = [k \in 0 .. n + 1 |-> IF k = 0 THEN <<>> ELSE f[k - 1] \o seqs[k]]
    OBVIOUS
  <2> HIDE DEF g
  <2>4. ASSUME NEW k \in 0 .. n + 1, k # 0
        PROVE  g[k - 1] = f[k - 1]
    <3>1. k - 1 \in 0 .. n
      BY <2>4
    <3> QED  BY <2>2, <3>1
  <2>5. IsFlat(g, seqs, n + 1)
    BY <2>3, <2>4 DEF IsFlat
  <2> QED  BY <2>5
<1> HIDE DEF S
<1>3. Nat \subseteq S
  BY <1>1, <1>2, Induction
<1> QED  BY <1>3 DEF S

LEMMA FlatStep ==
  ASSUME NEW seqs, NEW n \in Nat, NEW f, IsFlat(f, seqs, n)
  PROVE  f[0] = <<>> /\ \A k \in 1 .. n : f[k] = f[k - 1] \o seqs[k]
<1>1. f[0] = <<>>
  BY DEF IsFlat
<1>2. ASSUME NEW k \in 1 .. n
      PROVE  f[k] = f[k - 1] \o seqs[k]
  BY DEF IsFlat
<1> QED  BY <1>1, <1>2

Same(s, t, n) == \A k \in 1 .. n : s[k] = t[k]

LEMMA FlatSame ==
  ASSUME NEW s, NEW t, NEW n \in Nat, NEW m \in Nat, n <= m, Same(s, t, n),
         NEW f, IsFlat(f, s, n), NEW g, IsFlat(g, t, m)
  PROVE  \A k \in 0 .. n : f[k] = g[k]
<1> DEFINE S == {k \in Nat : k <= n => f[k] = g[k]}
<1>1. /\ f[0] = <<>> /\ \A k \in 1 .. n : f[k] = f[k - 1] \o s[k]
      /\ g[0] = <<>> /\ \A k \in 1 .. m : g[k] = g[k - 1] \o t[k]
  BY FlatStep
<1>2. 0 \in S
  BY <1>1
<1>3. ASSUME NEW k \in Nat, k \in S
      PROVE  k + 1 \in S
  <2> SUFFICES ASSUME k + 1 <= n
               PROVE  f[k + 1] = g[k + 1]
    OBVIOUS
  <2>1. k + 1 \in 1 .. n /\ k + 1 \in 1 .. m /\ (k + 1) - 1 = k
    OBVIOUS
  <2>2. f[k] = g[k]
    BY <1>3
  <2> QED  BY <1>1, <2>1, <2>2 DEF Same
<1> HIDE DEF S
<1>4. Nat \subseteq S
  BY <1>2, <1>3, Induction
<1> QED  BY <1>4 DEF S

LEMMA FlatType ==
  ASSUME NEW S, NEW s \in Seq(Seq(S)), NEW f, IsFlat(f, s, Len(s))
  PROVE  \A k \in 0 .. Len(s) : f[k] \in Seq(S)
<1> DEFINE T == {k \in Nat : k <= Len(s) => f[k] \in Seq(S)}
<1>1. f[0] = <<>> /\ \A k \in 1 .. Len(s) : f[k] = f[k - 1] \o s[k]
  <2>1. Len(s) \in Nat
    OBVIOUS
  <2> QED  BY <2>1, FlatStep
<1>2. 0 \in T
  BY <1>1, EmptySeq
<1>3. ASSUME NEW k \in Nat, k \in T
      PROVE  k + 1 \in T
  <2> SUFFICES ASSUME k + 1 <= Len(s)
               PROVE  f[k + 1] \in Seq(S)
    OBVIOUS
  <2>1. k + 1 \in 1 .. Len(s) /\ (k + 1) - 1 = k
    OBVIOUS
  <2>2. f[k] \in Seq(S) /\ s[k + 1] \in Seq(S)
    BY <1>3
  <2>3. f[k + 1] = f[k] \o s[k + 1]
    BY <1>1, <2>1
  <2> QED  BY <2>2, <2>3, ConcatProperties
<1> HIDE DEF T
<1>4. Nat \subseteq T
  BY <1>2, <1>3, Induction
<1> QED  BY <1>4 DEF T

LEMMA FlattenIs ==
  ASSUME NEW S, NEW s \in Seq(Seq(S)), NEW f, IsFlat(f, s, Len(s))
  PROVE  FlattenSeq(s) = f[Len(s)]
<1> DEFINE n == Len(s)
<1>1. n \in Nat
  OBVIOUS
<1>2. f[0] = <<>> /\ \A k \in 1 .. n : f[k] = f[k - 1] \o s[k]
  BY <1>1, FlatStep
<1>3. CASE n = 0
  <2>1. s = <<>>
    BY <1>3
  <2>2. FlattenSeq(s) = s
    BY <1>3 DEF FlattenSeq
  <2> QED  BY <1>2, <1>3, <2>1, <2>2
<1>4. CASE n # 0
  <2> DEFINE Is(g) == g = [i \in 1 .. n |-> IF i = 1 THEN s[i] ELSE g[i - 1] \o s[i]]
             g == CHOOSE h : Is(h)
  <2>1. f[1] = s[1]
    <3>1. 1 \in 1 .. n
      BY <1>1, <1>4
    <3>2. s[1] \in Seq(S)
      BY <3>1
    <3>3. f[1] = f[1 - 1] \o s[1]
      BY <1>2, <3>1, Zenon
    <3> HIDE DEF n
    <3>4. 1 - 1 = 0
      OBVIOUS
    <3> QED  BY <1>2, <3>2, <3>3, <3>4, ConcatEmptySeq
  <2>2. Is([i \in 1 .. n |-> f[i]])
    <3> DEFINE h == [i \in 1 .. n |-> f[i]]
    <3>1. h = [i \in 1 .. n |-> f[i]] /\ \A i \in 1 .. n : h[i] = f[i]
      OBVIOUS
    <3> HIDE DEF h
    <3>2. ASSUME NEW i \in 1 .. n
          PROVE  f[i] = IF i = 1 THEN s[i] ELSE h[i - 1] \o s[i]
      <4>1. i # 1 => i - 1 \in 1 .. n
        BY <1>1
      <4>2. i # 1 => h[i - 1] = f[i - 1]
        BY <3>1, <4>1
      <4> QED  BY <1>2, <2>1, <4>2
    <3>3. Is(h)
      BY <3>1, <3>2
    <3> QED  BY <3>1, <3>3
  <2>3. Is(g)
    BY <2>2
  <2>4. FlattenSeq(s) = g[n]
    BY <1>4 DEF FlattenSeq
  <2> HIDE DEF g
  <2> DEFINE T == {k \in Nat : k + 1 <= n => g[k + 1] = f[k + 1]}
  <2>5. 0 \in T
    <3>1. g[1] = s[1]
      BY <1>1, <1>4, <2>3
    <3> QED  BY <2>1, <3>1
  <2>6. ASSUME NEW k \in Nat, k \in T
        PROVE  k + 1 \in T
    <3> SUFFICES ASSUME k + 2 <= n
                 PROVE  g[k + 2] = f[k + 2]
      OBVIOUS
    <3>1. k + 2 \in 1 .. n /\ k + 2 # 1 /\ (k + 2) - 1 = k + 1
      BY <1>1
    <3>2. g[k + 1] = f[k + 1]
      BY <1>1, <2>6
    <3>3. g[k + 2] = g[(k + 2) - 1] \o s[k + 2]
      BY <2>3, <3>1
    <3> QED  BY <1>2, <3>1, <3>2, <3>3
  <2> HIDE DEF T
  <2>7. Nat \subseteq T
    BY <2>5, <2>6, Induction
  <2>8. n - 1 \in T /\ (n - 1) + 1 = n
    BY <1>1, <1>4, <2>7
  <2> QED  BY <2>4, <2>8 DEF T
<1> QED  BY <1>3, <1>4

\* What is behind the end of the shorter of two sequences must be empty for
\* them to come to the same.
LEMMA FlattenSame ==
  ASSUME NEW S, NEW s \in Seq(Seq(S)), NEW t \in Seq(Seq(S)), Len(s) <= Len(t),
         Same(s, t, Len(s)),
         \A k \in Len(s) + 1 .. Len(t) : t[k] = <<>>
  PROVE  FlattenSeq(s) = FlattenSeq(t)
<1> DEFINE n == Len(s)
           m == Len(t)
<1>1. n \in Nat /\ m \in Nat
  OBVIOUS
<1>2. PICK f : IsFlat(f, s, n)
  BY <1>1, FlatExists
<1>3. PICK g : IsFlat(g, t, m)
  BY <1>1, FlatExists
<1>4. FlattenSeq(s) = f[n] /\ FlattenSeq(t) = g[m]
  BY <1>2, <1>3, FlattenIs
<1>5. n <= m /\ Same(s, t, n)
  BY DEF Same
<1>6. g[0] = <<>> /\ \A k \in 1 .. m : g[k] = g[k - 1] \o t[k]
  BY <1>1, <1>3, FlatStep
<1>7. \A k \in 0 .. m : g[k] \in Seq(S)
  BY <1>3, FlatType
<1> HIDE DEF n, m
<1>8. \A k \in 0 .. n : f[k] = g[k]
  BY <1>1, <1>2, <1>3, <1>5, FlatSame
<1> DEFINE T == {k \in Nat : n + k <= m => g[n + k] = g[n]}
<1>9. 0 \in T
  BY <1>1
<1>10. ASSUME NEW k \in Nat, k \in T
      PROVE  k + 1 \in T
  <2> SUFFICES ASSUME n + (k + 1) <= m
               PROVE  g[n + (k + 1)] = g[n]
    OBVIOUS
  <2> DEFINE j == n + (k + 1)
  <2>1. j \in 1 .. m /\ j \in n + 1 .. m /\ j - 1 = n + k /\ n + k <= m /\ n + k \in 0 .. m
    BY <1>1
  <2>2. g[n + k] = g[n]
    BY <1>10, <2>1
  <2> HIDE DEF j
  <2>3. t[j] = <<>>
    BY <2>1 DEF n, m
  <2>4. g[j] = g[n + k] \o <<>>
    BY <1>6, <2>1, <2>3
  <2>5. g[j] = g[n + k]
    BY <1>7, <2>1, <2>4, ConcatEmptySeq
  <2> QED  BY <2>2, <2>5 DEF j
<1> HIDE DEF T
<1>11. Nat \subseteq T
  BY <1>9, <1>10, Induction
<1>12. m - n \in T /\ n + (m - n) = m
  BY <1>1, <1>11 DEF n, m
<1>13. g[m] = g[n]
  BY <1>1, <1>12 DEF T
<1>14. f[n] = g[n]
  BY <1>1, <1>8, SMTT(30)
<1> QED  BY <1>4, <1>13, <1>14

LEMMA FlattenConcat ==
  ASSUME NEW S, NEW s \in Seq(Seq(S)), NEW t \in Seq(Seq(S))
  PROVE  /\ FlattenSeq(s) \in Seq(S)
         /\ FlattenSeq(s \o t) = FlattenSeq(s) \o FlattenSeq(t)
<1> DEFINE n == Len(s)
           m == Len(t)
           l == n + m
           u == s \o t
<1>1. n \in Nat /\ m \in Nat /\ l \in Nat
  OBVIOUS
<1>2. /\ u \in Seq(Seq(S)) /\ Len(u) = l
      /\ \A k \in 1 .. l : u[k] = IF k <= n THEN s[k] ELSE t[k - n]
  BY ConcatProperties
<1> HIDE DEF u
<1>3. PICK f : IsFlat(f, s, n)
  BY <1>1, FlatExists
<1>4. PICK g : IsFlat(g, t, m)
  BY <1>1, FlatExists
<1>5. PICK h : IsFlat(h, u, l)
  BY <1>1, FlatExists
<1>6. FlattenSeq(s) = f[n] /\ FlattenSeq(t) = g[m] /\ FlattenSeq(u) = h[l]
  BY <1>2, <1>3, <1>4, <1>5, FlattenIs
<1>7. \A k \in 0 .. n : f[k] \in Seq(S)
  BY <1>3, FlatType
<1>8. \A k \in 0 .. m : g[k] \in Seq(S)
  BY <1>4, FlatType
<1>9. \A k \in 1 .. m : t[k] \in Seq(S)
  OBVIOUS
<1>10. l = n + m
  OBVIOUS
<1> HIDE DEF n, m, l
<1>11. g[0] = <<>> /\ \A k \in 1 .. m : g[k] = g[k - 1] \o t[k]
  BY <1>1, <1>4, FlatStep
<1>12. \A k \in 1 .. l : h[k] = h[k - 1] \o u[k]
  BY <1>1, <1>5, FlatStep
<1>13. h[n] = f[n]
  <2>1. n <= l /\ n \in 0 .. n
    BY <1>10, <1>1
  <2>2. Same(s, u, n)
    BY <1>10, <1>1, <1>2 DEF Same
  <2>3. \A k \in 0 .. n : f[k] = h[k]
    BY <1>1, <1>3, <1>5, <2>1, <2>2, FlatSame
  <2> QED  BY <2>1, <2>3
<1>14. f[n] \in Seq(S)
  BY <1>1, <1>7
<1> DEFINE T == {k \in Nat : k <= m => \A j \in 0 .. l : j = n + k => h[j] = f[n] \o g[k]}
<1>15. 0 \in T
  <2>1. n + 0 = n
    BY <1>1
  <2> QED  BY <1>11, <1>13, <1>14, <2>1, ConcatEmptySeq
<1>16. ASSUME NEW k \in Nat, k \in T
       PROVE  k + 1 \in T
  <2> DEFINE i == k + 1
  <2>0. i \in Nat
    OBVIOUS
  <2> SUFFICES i \in T
    OBVIOUS
  <2> SUFFICES ASSUME i <= m, NEW j \in 0 .. l, j = n + i
               PROVE  h[j] = f[n] \o g[i]
    <3> HIDE DEF i
    <3> QED  BY <2>0, Zenon
  <2> DEFINE before == j - 1
  <2>1. /\ j \in 1 .. l /\ ~(j <= n) /\ j - n = i /\ i \in 1 .. m /\ i - 1 = k
        /\ before = n + k /\ before \in 0 .. l /\ k <= m /\ k \in 0 .. m
    BY <1>10, <1>1
  <2>2. before \in 0 .. l => (before = n + k => h[before] = f[n] \o g[k])
    <3> HIDE DEF before
    <3> QED  BY <1>16, <2>1
  <2>3. u[j] = t[i]
    BY <1>2, <2>1
  <2>4. h[j] = h[before] \o t[i]
    BY <1>12, <2>1, <2>3
  <2>5. g[i] = g[k] \o t[i]
    BY <1>11, <2>1
  <2> HIDE DEF before, i
  <2>6. g[k] \in Seq(S) /\ t[i] \in Seq(S)
    BY <1>8, <1>9, <2>1
  <2>7. (f[n] \o g[k]) \o t[i] = f[n] \o (g[k] \o t[i])
    <3> DEFINE a == f[n]
               b == g[k]
               c == t[i]
    <3>1. a \in Seq(S) /\ b \in Seq(S) /\ c \in Seq(S)
      BY <1>14, <2>6
    <3> HIDE DEF a, b, c
    <3>2. (a \o b) \o c = a \o (b \o c)
      BY <3>1, ConcatAssociative, SMTT(30)
    <3> QED  BY <3>2 DEF a, b, c
  <2> QED  BY <2>1, <2>2, <2>4, <2>5, <2>7
<1> HIDE DEF T
<1>17. Nat \subseteq T
  BY <1>15, <1>16, Induction
<1>18. m \in T
  BY <1>1, <1>17
<1>19. h[l] = f[n] \o g[m]
  <2>1. l \in 0 .. l /\ m <= m
    BY <1>1
  <2>2. \A j \in 0 .. l : j = n + m => h[j] = f[n] \o g[m]
    BY <1>18, <2>1 DEF T
  <2> QED  BY <1>10, <2>1, <2>2
<1> QED  BY <1>6, <1>14, <1>19 DEF u

\* What holds of nothing and stays true when a part is added holds of the whole.
LEMMA FlattenKeeps ==
  ASSUME NEW S, NEW s \in Seq(Seq(S)), NEW P, <<>> \in P,
         \A k \in DOMAIN s : \A p \in P : p \o s[k] \in P
  PROVE  FlattenSeq(s) \in P
<1> DEFINE n == Len(s)
<1>1. n \in Nat /\ DOMAIN s = 1 .. n
  OBVIOUS
<1>2. PICK f : IsFlat(f, s, n)
  BY <1>1, FlatExists
<1>3. f[0] = <<>> /\ \A k \in 1 .. n : f[k] = f[k - 1] \o s[k]
  BY <1>1, <1>2, FlatStep
<1>4. FlattenSeq(s) = f[n]
  BY <1>2, FlattenIs
<1> DEFINE T == {k \in Nat : k <= n => f[k] \in P}
<1>5. 0 \in T
  BY <1>3
<1>6. ASSUME NEW k \in Nat, k \in T
      PROVE  k + 1 \in T
  <2> SUFFICES ASSUME k + 1 <= n
               PROVE  f[k + 1] \in P
    OBVIOUS
  <2>1. k + 1 \in 1 .. n /\ (k + 1) - 1 = k /\ f[k] \in P
    BY <1>1, <1>6
  <2>2. f[k + 1] = f[k] \o s[k + 1]
    BY <1>3, <2>1
  <2> QED  BY <1>1, <2>1, <2>2
<1> HIDE DEF n, T
<1>7. Nat \subseteq T
  BY <1>5, <1>6, Induction
<1> QED
  BY <1>1, <1>4, <1>7 DEF T
=============================================================================
