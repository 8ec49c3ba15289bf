-------------------------- MODULE Toolchain_proofs --------------------------
(***************************************************************************)
(* For all programs, no path of the machine through the blocks that the    *)
(* generator makes reads a temporary before it is written (the proof of    *)
(* TempsDefined), and the passes leave a graph behind of which that is     *)
(* still true, whose exits are its jumps, and in which no conditional jump *)
(* has a constant condition (the proof of PassesCoherent).                 *)
(***************************************************************************)
EXTENDS IRGen_proofs, Toolchain


-----------------------------------------------------------------------------
(***************************************************************************)
(* What is surely written.  A map D says of every block which temporaries  *)
(* are written whichever way the block is reached.                         *)
(***************************************************************************)
TempNames == {<<"_t", n>> : n \in Nat}

Reads(t) == ReadBy(t) \cap TempNames

\* What the instructions before the k-th write.
Prior(code, k) == {code[j].res : j \in {i \in DOMAIN code : i < k /\ code[i].op \in Defines}}

\* When these are written, the instruction reads nothing else, and jumps to
\* nowhere where more is taken for granted.
Allowed(D, tac, have) ==
  /\ Reads(tac) \subseteq have
  /\ tac.op = "JMP"  => D[tac.res] \subseteq have
  /\ tac.op = "CJMP" => D[tac.rhs.name] \subseteq have

Assured(D, base, code) == \A k \in DOMAIN code : Allowed(D, code[k], base \cup Prior(code, k))

AllAssured(D, bs) == \A b \in DOMAIN bs : Assured(D, D[b], bs[b].code)

\* What is surely written where the block ends so far.
Avail(D, bs, l) == IF l \in DOMAIN bs THEN D[l] \cup Written(bs[l].code) ELSE {}

LEMMA AllowedMore ==
  ASSUME NEW D, NEW tac, NEW have, NEW more, have \subseteq more, Allowed(D, tac, have)
  PROVE  Allowed(D, tac, more)
BY DEF Allowed

LEMMA WrittenIs ==
  ASSUME NEW code
  PROVE  Written(code) = {code[j].res : j \in {i \in DOMAIN code : code[i].op \in Defines}}
<1>1. \A t : t \in ToSet(code) <=> \E k \in DOMAIN code : code[k] = t
  BY DEF ToSet
<1> QED  BY <1>1 DEF Written

LEMMA WrittenConcat ==
  ASSUME NEW code \in Seq(Tacs), NEW more \in Seq(Tacs)
  PROVE  Written(code \o more) = Written(code) \cup Written(more)
<1> DEFINE a == Len(code)
           z == Len(more)
           all == code \o more
<1>1. a \in Nat /\ z \in Nat /\ DOMAIN code = 1 .. a /\ DOMAIN more = 1 .. z
  OBVIOUS
<1>2. /\ all \in Seq(Tacs) /\ DOMAIN all = 1 .. a + z
      /\ \A i \in 1 .. a + z : all[i] = IF i <= a THEN code[i] ELSE more[i - a]
  BY ConcatProperties
<1> HIDE DEF a, z, all
<1>3. \A i \in 1 .. a : i \in 1 .. a + z /\ all[i] = code[i]
  BY <1>1, <1>2
<1>4. \A i \in 1 .. z : a + i \in 1 .. a + z /\ all[a + i] = more[i]
  <2> TAKE i \in 1 .. z
  <2>1. a + i \in 1 .. a + z /\ ~(a + i <= a) /\ (a + i) - a = i
    BY <1>1
  <2> QED  BY <1>2, <2>1
<1>5. \A i \in 1 .. a + z : i \in 1 .. a \/ \E k \in 1 .. z : i = a + k
  <2> TAKE i \in 1 .. a + z
  <2>1. CASE i <= a
    BY <1>1, <2>1
  <2>2. CASE ~(i <= a)
    <3>1. i - a \in 1 .. z /\ i = a + (i - a)
      BY <1>1, <2>2
    <3> QED  BY <3>1
  <2> QED  BY <2>1, <2>2
<1>6. Written(all) = Written(code) \cup Written(more)
  <2>1. \A x : x \in Written(all) <=> \E i \in 1 .. a + z : all[i].op \in Defines /\ x = all[i].res
    BY <1>2, WrittenIs
  <2>2. \A x : x \in Written(code) <=> \E i \in 1 .. a : code[i].op \in Defines /\ x = code[i].res
    BY <1>1, WrittenIs
  <2>3. \A x : x \in Written(more) <=> \E i \in 1 .. z : more[i].op \in Defines /\ x = more[i].res
    BY <1>1, WrittenIs
  <2>4. \A x : x \in Written(all) => x \in Written(code) \cup Written(more)
    BY <1>3, <1>4, <1>5, <2>1, <2>2, <2>3
  <2>5. \A x : x \in Written(code) \cup Written(more) => x \in Written(all)
    BY <1>3, <1>4, <2>1, <2>2, <2>3
  <2> QED  BY <2>4, <2>5
<1> QED  BY <1>6 DEF all

LEMMA AssuredConcat ==
  ASSUME NEW D, NEW base, NEW code \in Seq(Tacs), NEW more \in Seq(Tacs),
         Assured(D, base, code), Assured(D, base \cup Written(code), more)
  PROVE  Assured(D, base, code \o more)
<1> DEFINE a == Len(code)
           z == Len(more)
           all == code \o more
<1>1. a \in Nat /\ z \in Nat /\ DOMAIN code = 1 .. a /\ DOMAIN more = 1 .. z
  OBVIOUS
<1>2. /\ all \in Seq(Tacs) /\ DOMAIN all = 1 .. a + z
      /\ \A i \in 1 .. a + z : all[i] = IF i <= a THEN code[i] ELSE more[i - a]
  BY ConcatProperties
<1> HIDE DEF a, z, all
<1>3. \A i \in 1 .. a : i \in 1 .. a + z /\ all[i] = code[i]
  BY <1>1, <1>2
<1>4. \A i \in 1 .. z : a + i \in 1 .. a + z /\ all[a + i] = more[i]
  <2> TAKE i \in 1 .. z
  <2>1. a + i \in 1 .. a + z /\ ~(a + i <= a) /\ (a + i) - a = i
    BY <1>1
  <2> QED  BY <1>2, <2>1
<1>5. \A i \in 1 .. a + z : i \in 1 .. a \/ \E k \in 1 .. z : i = a + k
  <2> TAKE i \in 1 .. a + z
  <2>1. CASE i <= a
    BY <1>1, <2>1
  <2>2. CASE ~(i <= a)
    <3>1. i - a \in 1 .. z /\ i = a + (i - a)
      BY <1>1, <2>2
    <3> QED  BY <3>1
  <2> QED  BY <2>1, <2>2
<1>6. ASSUME NEW i \in 1 .. a
      PROVE  Allowed(D, all[i], base \cup Prior(all, i))
  <2>1. Prior(code, i) \subseteq Prior(all, i)
    BY <1>1, <1>2, <1>3 DEF Prior
  <2>2. Allowed(D, code[i], base \cup Prior(code, i))
    BY <1>1 DEF Assured
  <2> QED  BY <1>3, <2>1, <2>2, AllowedMore
<1>7. ASSUME NEW i \in 1 .. z
      PROVE  Allowed(D, all[a + i], base \cup Prior(all, a + i))
  <2>1. Written(code) \subseteq Prior(all, a + i)
    <3>1. \A k \in 1 .. a : k < a + i
      BY <1>1
    <3> QED  BY <1>1, <1>2, <1>3, <3>1, WrittenIs DEF Prior
  <2>2. Prior(more, i) \subseteq Prior(all, a + i)
    <3> SUFFICES ASSUME NEW k \in 1 .. z, k < i, more[k].op \in Defines
                 PROVE  more[k].res \in Prior(all, a + i)
      BY <1>1 DEF Prior
    <3>1. a + k \in 1 .. a + z /\ a + k < a + i /\ all[a + k] = more[k]
      BY <1>1, <1>4
    <3> QED  BY <1>2, <3>1 DEF Prior
  <2>3. Allowed(D, more[i], (base \cup Written(code)) \cup Prior(more, i))
    BY <1>1 DEF Assured
  <2>4. (base \cup Written(code)) \cup Prior(more, i) \subseteq base \cup Prior(all, a + i)
    BY <2>1, <2>2
  <2> QED  BY <1>4, <2>3, <2>4, AllowedMore
<1>8. Assured(D, base, all)
  BY <1>2, <1>5, <1>6, <1>7 DEF Assured
<1> QED  BY <1>8 DEF all

LEMMA AssuredShort ==
  ASSUME NEW D, NEW base
  PROVE  /\ \A s \in Tacs : Allowed(D, s, base) =>
              /\ Assured(D, base, <<s>>) /\ <<s>> \in Seq(Tacs)
              /\ s.op \in Defines => s.res \in Written(<<s>>)
         /\ \A s, t \in Tacs : Allowed(D, s, base) /\ Allowed(D, t, base) =>
              Assured(D, base, <<s, t>>) /\ <<s, t>> \in Seq(Tacs)
<1>1. ASSUME NEW s \in Tacs, Allowed(D, s, base)
      PROVE  /\ Assured(D, base, <<s>>) /\ <<s>> \in Seq(Tacs)
             /\ s.op \in Defines => s.res \in Written(<<s>>)
  <2> DEFINE code == <<s>>
  <2>1. code \in Seq(Tacs) /\ DOMAIN code = {1} /\ code[1] = s
    OBVIOUS
  <2> HIDE DEF code
  <2>2. Assured(D, base, code)
    BY <1>1, <2>1, AllowedMore DEF Assured
  <2>3. s.op \in Defines => s.res \in Written(code)
    BY <2>1, WrittenIs
  <2> QED  BY <2>1, <2>2, <2>3 DEF code
<1>2. ASSUME NEW s \in Tacs, NEW t \in Tacs, Allowed(D, s, base), Allowed(D, t, base)
      PROVE  Assured(D, base, <<s, t>>) /\ <<s, t>> \in Seq(Tacs)
  <2> DEFINE code == <<s, t>>
  <2>1. code \in Seq(Tacs) /\ DOMAIN code = {1, 2} /\ code[1] = s /\ code[2] = t
    OBVIOUS
  <2> HIDE DEF code
  <2>2. \A k \in DOMAIN code : Allowed(D, code[k], base)
    BY <1>2, <2>1
  <2>3. \A k \in DOMAIN code : Allowed(D, code[k], base \cup Prior(code, k))
    BY <2>2, AllowedMore
  <2> QED  BY <2>1, <2>3 DEF code, Assured
<1> QED  BY <1>1, <1>2

-----------------------------------------------------------------------------
(***************************************************************************)
(* What a step makes of the blocks: no block loses what it surely writes.  *)
(***************************************************************************)
Grows(D, bs, new) ==
  /\ DOMAIN new = DOMAIN bs /\ AllSound(new) /\ AllAssured(D, new)
  /\ \A b \in DOMAIN bs : Avail(D, bs, b) \subseteq Avail(D, new, b)

LEMMA GrowsOn ==
  ASSUME NEW D, NEW a, NEW b, NEW c, Grows(D, a, b), Grows(D, b, c)
  PROVE  Grows(D, a, c)
<1>1. \A l \in DOMAIN a : Avail(D, a, l) \subseteq Avail(D, b, l) /\ Avail(D, b, l) \subseteq Avail(D, c, l)
  BY DEF Grows
<1>2. \A l \in DOMAIN a : Avail(D, a, l) \subseteq Avail(D, c, l)
  BY <1>1
<1> QED  BY <1>2 DEF Grows

\* Only the exits of blocks have changed.
LEMMA SameCode ==
  ASSUME NEW D, NEW bs, NEW new, AllAssured(D, bs), DOMAIN new = DOMAIN bs, AllSound(new),
         \A b \in DOMAIN bs : new[b].code = bs[b].code
  PROVE  Grows(D, bs, new)
BY DEF Grows, AllAssured, Avail

LEMMA CodeGrows ==
  ASSUME NEW D, NEW bs, AllSound(bs), AllAssured(D, bs), NEW l \in DOMAIN bs,
         NEW more, Accept(more, DOMAIN bs), Assured(D, Avail(D, bs, l), more)
  PROVE  LET new == WithCode(bs, l, more) IN
         Grows(D, bs, new) /\ Written(more) \subseteq Avail(D, new, l)
<1> DEFINE new == WithCode(bs, l, more)
<1>1. DOMAIN new = DOMAIN bs /\ AllSound(new) /\ \A b \in DOMAIN bs \ {l} : new[b] = bs[b]
  BY WithCodeIs
<1>2. new[l].code = bs[l].code \o more
  <2>1. bs[l] \in Blocks
    BY DEF AllSound, Sound
  <2>2. new[l] = [bs[l] EXCEPT !.code = @ \o more]
    BY DEF WithCode
  <2> HIDE DEF new
  <2> QED  BY <2>1, <2>2 DEF Blocks
<1> HIDE DEF new
<1>3. bs[l].code \in Seq(Tacs) /\ more \in Seq(Tacs)
  BY DEF AllSound, Sound, Accept
<1>4. Assured(D, D[l], bs[l].code) /\ Assured(D, D[l] \cup Written(bs[l].code), more)
  BY DEF AllAssured, Avail
<1>5. /\ Assured(D, D[l], new[l].code)
      /\ Written(new[l].code) = Written(bs[l].code) \cup Written(more)
  <2>1. PICK c \in Seq(Tacs) : c = bs[l].code
    BY <1>3
  <2>2. PICK d : d = D[l]
    OBVIOUS
  <2>3. Assured(D, d, c) /\ Assured(D, d \cup Written(c), more)
    BY <1>4, <2>1, <2>2
  <2>4. Assured(D, d, c \o more)
    BY <1>3, <2>3, AssuredConcat
  <2>5. Written(c \o more) = Written(c) \cup Written(more)
    BY <1>3, WrittenConcat
  <2> QED  BY <1>2, <2>1, <2>2, <2>4, <2>5
<1>6. AllAssured(D, new)
  BY <1>1, <1>5 DEF AllAssured
<1>7. \A b \in DOMAIN bs : Avail(D, bs, b) \subseteq Avail(D, new, b)
  BY <1>1, <1>5 DEF Avail
<1>8. Written(more) \subseteq Avail(D, new, l)
  BY <1>1, <1>5 DEF Avail
<1> QED  BY <1>1, <1>6, <1>7, <1>8 DEF Grows, new

LEMMA JumpAllowed ==
  ASSUME NEW D, NEW have, NEW l \in Texts, NEW c \in Operands, D[l] \subseteq have
  PROVE  /\ Allowed(D, Jump(l), have) /\ Jump(l) \in Tacs
         /\ ({c.name} \cap TempNames \subseteq have \/ c.imm) => Allowed(D, CondJump(l, c), have)
         /\ CondJump(l, c) \in Tacs
<1>1. /\ Jump(l) \in Tacs /\ Jump(l).op = "JMP" /\ Jump(l).res = l
      /\ CondJump(l, c) \in Tacs /\ CondJump(l, c).op = "CJMP" /\ CondJump(l, c).rhs.name = l
      /\ CondJump(l, c).lhs = c
  BY NoLabels, OperandTypes DEF Jump, CondJump, Tac3, Tacs, TacOps, ReadsLhs, Name
<1>2. "JMP" \notin ReadsLhs /\ "JMP" \notin ReadsRhs /\ "CJMP" \in ReadsLhs /\ "CJMP" \notin ReadsRhs
  BY DEF ReadsLhs, ReadsRhs, TwoOperands, BinaryOps
<1>3. ReadBy(Jump(l)) = {}
  BY <1>1, <1>2 DEF ReadBy
<1>4. \A x \in ReadBy(CondJump(l, c)) : x = c.name /\ ~c.imm
  BY <1>1, <1>2 DEF ReadBy
<1> QED  BY <1>1, <1>3, <1>4 DEF Allowed, Reads

LEMMA ClosedGrows ==
  ASSUME NEW D, NEW bs, AllSound(bs), AllAssured(D, bs), NEW l \in DOMAIN bs,
         NEW target \in Texts \cap DOMAIN bs, D[target] \subseteq Avail(D, bs, l)
  PROVE  Grows(D, bs, Closed(bs, l, target))
<1> DEFINE code == <<Jump(target)>>
           mid == WithCode(bs, l, code)
           new == WithTrueExit(mid, l, target)
<1>1. Jump(target) \in Tacs /\ Allowed(D, Jump(target), Avail(D, bs, l))
  BY JumpAllowed, OperandTypes
<1>2. Assured(D, Avail(D, bs, l), code)
  BY <1>1, AssuredShort
<1>3. Accept(code, DOMAIN bs)
  <2>1. Jump(target).op = "JMP" /\ Jump(target).res = target
    BY DEF Jump, Tac3
  <2> QED  BY <1>1, <2>1 DEF Accept
<1> HIDE DEF code
<1>4. Grows(D, bs, mid)
  BY <1>2, <1>3, CodeGrows
<1> HIDE DEF mid
<1>5. DOMAIN mid = DOMAIN bs /\ AllSound(mid) /\ AllAssured(D, mid)
  BY <1>4 DEF Grows
<1>6. DOMAIN new = DOMAIN mid /\ AllSound(new) /\ \A b \in DOMAIN mid : new[b].code = mid[b].code
  BY <1>5, WithTrueExitIs
<1> HIDE DEF new
<1>7. Grows(D, mid, new)
  BY <1>5, <1>6, SameCode
<1>8. Grows(D, bs, new)
  BY <1>4, <1>7, GrowsOn
<1> QED  BY <1>8 DEF new, mid, code, Closed

\* The temporary that an operand names.
HeldBy(o) == IF o.imm THEN {} ELSE {o.name} \cap TempNames

LEMMA JumpsGrow ==
  ASSUME NEW D, NEW bs, AllSound(bs), AllAssured(D, bs), NEW l \in DOMAIN bs, NEW c \in Operands,
         NEW t \in Texts \cap DOMAIN bs, NEW f \in Texts \cap DOMAIN bs,
         D[t] \subseteq Avail(D, bs, l), D[f] \subseteq Avail(D, bs, l),
         HeldBy(c) \subseteq Avail(D, bs, l)
  PROVE  Grows(D, bs, WithCode(bs, l, <<CondJump(f, c), Jump(t)>>))
<1> DEFINE code == <<CondJump(f, c), Jump(t)>>
           mid == WithCode(bs, l, code)
<1>1. /\ Jump(t) \in Tacs /\ CondJump(f, c) \in Tacs
      /\ Allowed(D, Jump(t), Avail(D, bs, l)) /\ Allowed(D, CondJump(f, c), Avail(D, bs, l))
  BY JumpAllowed DEF HeldBy
<1>2. Assured(D, Avail(D, bs, l), code)
  BY <1>1, AssuredShort
<1>3. Accept(code, DOMAIN bs)
  <2>1. /\ Jump(t).op = "JMP" /\ Jump(t).res = t
        /\ CondJump(f, c).op = "CJMP" /\ CondJump(f, c).rhs.name = f
    BY DEF Jump, CondJump, Tac3, Name
  <2> QED  BY <1>1, <2>1 DEF Accept
<1> HIDE DEF code
<1>4. Grows(D, bs, mid)
  BY <1>2, <1>3, CodeGrows
<1> QED  BY <1>4 DEF mid, code

LEMMA PartedGrows ==
  ASSUME NEW D, NEW bs, AllSound(bs), AllAssured(D, bs), NEW l \in DOMAIN bs, NEW c \in Operands,
         NEW x \in DOMAIN bs,
         NEW t \in Texts \cap DOMAIN bs, NEW f \in Texts \cap DOMAIN bs,
         D[t] \subseteq Avail(D, bs, l), D[f] \subseteq Avail(D, bs, l),
         HeldBy(c) \subseteq Avail(D, bs, l)
  PROVE  Grows(D, bs, WithExits(WithCode(bs, l, <<CondJump(f, c), Jump(t)>>), x, t, f))
<1> DEFINE mid == WithCode(bs, l, <<CondJump(f, c), Jump(t)>>)
           new == WithExits(mid, x, t, f)
<1>1. Grows(D, bs, mid)
  BY JumpsGrow
<1> HIDE DEF mid
<1>2. DOMAIN mid = DOMAIN bs /\ AllSound(mid) /\ AllAssured(D, mid)
  BY <1>1 DEF Grows
<1>3. DOMAIN new = DOMAIN mid /\ AllSound(new) /\ \A b \in DOMAIN mid : new[b].code = mid[b].code
  BY <1>2, WithExitsIs
<1> HIDE DEF new
<1>4. Grows(D, mid, new)
  BY <1>2, <1>3, SameCode
<1>5. Grows(D, bs, new)
  BY <1>1, <1>4, GrowsOn
<1> QED  BY <1>5 DEF new, mid

LEMMA DecidedGrows ==
  ASSUME NEW D, NEW bs, AllSound(bs), AllAssured(D, bs), NEW l \in DOMAIN bs,
         NEW join \in Texts \cap DOMAIN bs, NEW n \in Int, task.name \in Texts,
         D[join] \subseteq Avail(D, bs, l) \cup {task.name}
  PROVE  Grows(D, bs, Decided(bs, l, n, join))
<1> DEFINE tac == Copy(Imm(n), task.name)
           code == <<tac>>
           mid == WithCode(bs, l, code)
           new == Closed(mid, l, join)
<1>1. /\ tac \in Tacs /\ tac.op = "COPY" /\ tac.res = task.name
      /\ tac.lhs = None /\ tac.rhs = Imm(n)
  <2>1. Imm(n) \in Operands /\ None \in Operands /\ "COPY" \in TacOps
    BY OperandTypes DEF TacOps, Defines
  <2>2. tac \in Tacs /\ tac.op = "COPY"
    BY <2>1, TacTypes
  <2> QED  BY <2>2 DEF Copy, Tac3
<1>2. Imm(n).imm = TRUE /\ "COPY" \notin ReadsLhs /\ "COPY" \in Defines
  BY DEF Imm, ReadsLhs, TwoOperands, BinaryOps, Defines
<1> HIDE DEF tac
<1>3. ReadBy(tac) = {}
  BY <1>1, <1>2 DEF ReadBy
<1>4. Allowed(D, tac, Avail(D, bs, l))
  BY <1>1, <1>3 DEF Allowed, Reads
<1>5. /\ Assured(D, Avail(D, bs, l), code) /\ Accept(code, DOMAIN bs)
      /\ task.name \in Written(code)
  <2>1. Assured(D, Avail(D, bs, l), code) /\ tac.res \in Written(code)
    BY <1>1, <1>2, <1>4, AssuredShort
  <2> QED  BY <1>1, <2>1 DEF Accept
<1> HIDE DEF code
<1>6. Grows(D, bs, mid) /\ Written(code) \subseteq Avail(D, mid, l)
  BY <1>5, CodeGrows
<1> HIDE DEF mid
<1>7. DOMAIN mid = DOMAIN bs /\ AllSound(mid) /\ AllAssured(D, mid) /\ D[join] \subseteq Avail(D, mid, l)
  BY <1>5, <1>6 DEF Grows
<1>8. Grows(D, mid, new)
  BY <1>7, ClosedGrows
<1> HIDE DEF new
<1>9. Grows(D, bs, new)
  BY <1>6, <1>8, GrowsOn
<1> QED  BY <1>9 DEF new, mid, code, tac, Decided

\* New blocks, of which anything may be taken for granted.
LEMMA NewGrows ==
  ASSUME NEW D, NEW E, NEW bs, AllSound(bs), AllAssured(D, bs), NEW fresh,
         fresh \cap DOMAIN bs = {}, \A b \in DOMAIN bs : E[b] = D[b]
  PROVE  LET new == WithNew(bs, fresh) IN
         /\ DOMAIN new = DOMAIN bs \cup fresh /\ AllSound(new) /\ AllAssured(E, new)
         /\ \A b \in DOMAIN bs : Avail(E, new, b) = Avail(D, bs, b)
         /\ \A b \in fresh : E[b] \subseteq Avail(E, new, b)
<1> DEFINE new == WithNew(bs, fresh)
<1>1. /\ DOMAIN new = DOMAIN bs \cup fresh /\ AllSound(new)
      /\ \A b \in fresh : new[b] = EmptyBlock
      /\ \A b \in DOMAIN bs : new[b] = bs[b]
  <2>1. /\ DOMAIN new = DOMAIN bs \cup fresh /\ AllSound(new)
        /\ \A b \in fresh : new[b] = EmptyBlock /\ ~EndsInJump(new[b])
        /\ \A b \in DOMAIN bs \ fresh : new[b] = bs[b]
    BY WithNewIs, Zenon
  <2> HIDE DEF new
  <2> QED  BY <2>1
<1> HIDE DEF new
<1>2. ASSUME NEW b \in DOMAIN bs
      PROVE  Assured(E, E[b], new[b].code)
  <2>1. Assured(D, D[b], bs[b].code) /\ Accept(bs[b].code, DOMAIN bs)
    BY DEF AllAssured, AllSound, Sound
  <2>2. \A k \in DOMAIN bs[b].code : \A have :
          Allowed(D, bs[b].code[k], have) => Allowed(E, bs[b].code[k], have)
    BY <2>1 DEF Accept, Allowed
  <2> QED  BY <1>1, <2>1, <2>2 DEF Assured
<1>3. ASSUME NEW b \in fresh
      PROVE  Assured(E, E[b], new[b].code)
  <2>1. new[b].code = <<>>
    BY <1>1, EmptyIs
  <2> QED  BY <2>1 DEF Assured
<1>4. AllAssured(E, new)
  BY <1>1, <1>2, <1>3 DEF AllAssured
<1> QED  BY <1>1, <1>4 DEF Avail, new

-----------------------------------------------------------------------------
(***************************************************************************)
(* The temporaries that the values hold.                                   *)
(***************************************************************************)
\* Those among the first n values.
Held(vs, n) == UNION {HeldBy(vs[k]) : k \in {j \in DOMAIN vs : j <= n}}

LEMMA HeldMore ==
  ASSUME NEW vs \in Seq(Operands), NEW n \in Nat
  PROVE  Held(vs, n) \subseteq Held(vs, Len(vs))
<1>1. \A k \in DOMAIN vs : k <= Len(vs)
  OBVIOUS
<1> QED  BY <1>1 DEF Held

LEMMA HeldSame ==
  ASSUME NEW vs \in Seq(Operands), NEW ws \in Seq(Operands), NEW n \in Nat,
         n <= Len(vs), n <= Len(ws), \A k \in 1 .. n : vs[k] = ws[k]
  PROVE  Held(vs, n) = Held(ws, n)
<1>1. /\ \A k \in DOMAIN vs : k <= n <=> k \in 1 .. n
      /\ \A k \in DOMAIN ws : k <= n <=> k \in 1 .. n
      /\ 1 .. n \subseteq DOMAIN vs /\ 1 .. n \subseteq DOMAIN ws
  OBVIOUS
<1>2. \A x : x \in Held(vs, n) <=> \E k \in 1 .. n : x \in HeldBy(vs[k])
  BY <1>1 DEF Held
<1>3. \A x : x \in Held(ws, n) <=> \E k \in 1 .. n : x \in HeldBy(ws[k])
  BY <1>1 DEF Held
<1> QED  BY <1>2, <1>3

\* The values of a step: all but the last k of those before, and one more or none.
Renewed(vs, ws, k, now) ==
  \/ ws = SubSeq(vs, 1, Len(vs) - k)
  \/ \E o \in Operands : ws = Append(SubSeq(vs, 1, Len(vs) - k), o) /\ HeldBy(o) \subseteq now

LEMMA RenewedIs ==
  ASSUME NEW vs \in Seq(Operands), NEW ws, NEW k \in 0 .. Len(vs), NEW now,
         Renewed(vs, ws, k, now), Held(vs, Len(vs) - k) \subseteq now
  PROVE  /\ ws \in Seq(Operands) /\ Len(ws) \in Nat /\ Len(ws) >= Len(vs) - k
         /\ \A n \in Nat : n <= Len(vs) - k => Held(ws, n) = Held(vs, n)
         /\ Held(ws, Len(ws)) \subseteq now
<1> DEFINE b == Len(vs) - k
           us == SubSeq(vs, 1, b)
<1>1. b \in Nat /\ b <= Len(vs) /\ Len(vs) \in Nat
  OBVIOUS
<1>2. us \in Seq(Operands) /\ Len(us) = b /\ \A i \in 1 .. b : us[i] = vs[i]
  BY <1>1
<1>3. ws = us \/ \E o \in Operands : ws = Append(us, o) /\ HeldBy(o) \subseteq now
  BY DEF Renewed
<1> HIDE DEF us, b
<1>4. CASE ws = us
  <2>1. \A n \in Nat : n <= b => Held(ws, n) = Held(vs, n)
    <3> TAKE n \in Nat
    <3> HAVE n <= b
    <3>1. n <= Len(ws) /\ n <= Len(vs) /\ \A i \in 1 .. n : ws[i] = vs[i]
      BY <1>1, <1>2, <1>4
    <3> QED  BY <1>2, <1>4, <3>1, HeldSame
  <2>2. Held(vs, b) \subseteq now
    BY DEF b
  <2>3. Held(ws, Len(ws)) \subseteq now
    <3>1. Held(ws, b) = Held(vs, b)
      BY <1>1, <2>1
    <3> QED  BY <1>2, <1>4, <2>2, <3>1
  <2> QED  BY <1>1, <1>2, <1>4, <2>1, <2>3 DEF b
<1>5. CASE \E o \in Operands : ws = Append(us, o) /\ HeldBy(o) \subseteq now
  <2>1. PICK o \in Operands : ws = Append(us, o) /\ HeldBy(o) \subseteq now
    BY <1>5
  <2>2. /\ ws \in Seq(Operands) /\ Len(ws) = b + 1 /\ ws[b + 1] = o
        /\ \A i \in 1 .. b : ws[i] = vs[i]
    BY <1>1, <1>2, <2>1, AppendProperties
  <2>3. \A n \in Nat : n <= b => Held(ws, n) = Held(vs, n)
    <3> TAKE n \in Nat
    <3> HAVE n <= b
    <3>1. n <= Len(ws) /\ n <= Len(vs) /\ \A i \in 1 .. n : ws[i] = vs[i]
      BY <1>1, <2>2
    <3> QED  BY <2>2, <3>1, HeldSame
  <2>4. Held(ws, b) \subseteq now
    <3>1. Held(vs, b) \subseteq now
      BY DEF b
    <3> QED  BY <1>1, <2>3, <3>1
  <2>5. Held(ws, Len(ws)) \subseteq now
    <3> SUFFICES ASSUME NEW i \in DOMAIN ws
                 PROVE  HeldBy(ws[i]) \subseteq now
      BY DEF Held
    <3>1. CASE i <= b
      BY <2>4, <3>1 DEF Held
    <3>2. CASE ~(i <= b)
      <4>1. i = b + 1
        BY <1>1, <2>2, <3>2
      <4> QED  BY <2>1, <2>2, <4>1
    <3> QED  BY <3>1, <3>2
  <2> QED  BY <1>1, <2>2, <2>3, <2>5 DEF b
<1> QED  BY <1>3, <1>4, <1>5

-----------------------------------------------------------------------------
(***************************************************************************)
(* What the tasks to come take for granted.                                *)
(***************************************************************************)
\* The tasks that go on in another block than the one that is current now.
Binding(t) == IsMethod(t) \/ t.do \in {"merge", "then", "end", "loop body", "loop end"}

\* What is written when the task is done, whatever comes before it.
Base(D, t) == IF IsMethod(t) THEN {}
              ELSE IF t.do = "merge" THEN D[t.labels[2]] ELSE D[t.labels[1]]

\* Its blocks can be entered with that, and a join of two values has the result.
Promised(D, t) ==
  /\ t.do = "merge" =>
       D[t.labels[3]] = D[t.labels[2]] /\ D[t.labels[4]] = D[t.labels[2]] \cup {t.name}
  /\ t.do \in {"then", "end"} => \A k \in DOMAIN t.labels : D[t.labels[k]] = D[t.labels[1]]
  /\ t.do \in {"loop body", "loop end"} => \A k \in 1 .. 3 : D[t.labels[k]] = D[t.labels[1]]

\* How many values the i-th task leaves alone.
Bottom(h, tasks, i) == h[i] - Takes(tasks[i])

Bound(D, h, tasks, vs, now, i) ==
  /\ Promised(D, tasks[i]) /\ Base(D, tasks[i]) \subseteq now
  /\ Held(vs, Bottom(h, tasks, i)) \subseteq Base(D, tasks[i])

\* The j-th task works on top of what the i-th leaves alone.
Above(D, h, tasks, j, i) ==
  /\ Bottom(h, tasks, i) <= Bottom(h, tasks, j)
  /\ Binding(tasks[j]) => Base(D, tasks[i]) \subseteq Base(D, tasks[j])

Guards(D, h, tasks, vs, now) ==
  /\ Levels(h, tasks, Len(vs), h[Len(tasks) + 1])
  /\ Held(vs, Len(vs)) \subseteq now
  /\ \A i \in DOMAIN tasks : Binding(tasks[i]) =>
       /\ Bound(D, h, tasks, vs, now, i)
       /\ \A j \in DOMAIN tasks : j < i => Above(D, h, tasks, j, i)

\* What remains when the task is done.
Floor(D, t, now) == IF Binding(t) THEN Base(D, t) ELSE now

\* The tasks that a step makes: they leave alone what their own task leaves
\* alone, and those that bind end there.
Lifts(g, tasks, n, m) ==
  /\ Levels(g, tasks, n, m)
  /\ \A i \in DOMAIN tasks : Binding(tasks[i]) => g[i] = Takes(tasks[i])

Kept(E, tasks, X) == \A i \in DOMAIN tasks : Binding(tasks[i]) => Promised(E, tasks[i]) /\ Base(E, tasks[i]) = X

SameFor(D, E, t) == Base(E, t) = Base(D, t) /\ (Promised(D, t) => Promised(E, t))

LEMMA TakesType == \A t \in Tasks : Takes(t) \in Nat /\ Gives(t) \in Nat
<1> SUFFICES ASSUME NEW t \in Tasks
             PROVE  Takes(t) \in Nat /\ Gives(t) \in Nat
  OBVIOUS
<1>1. t.node.kids \in Seq(Nodes)
  <2>1. t.node \in Nodes
    BY DEF Tasks
  <2>2. Inner \subseteq Nodes /\ Inner \cup Returns \subseteq Nodes /\ Bodies \subseteq Nodes
    BY DEF Nodes
  <2>3. t.node \in Inner \cup Returns => t.node.kids \in Seq(Inner)
    BY InnerNode, ReturnNode
  <2>4. t.node \in Bodies => t.node.kids \in Seq(Inner \cup Returns)
    BY BodyNode
  <2>5. ASSUME NEW m \in Methods, t.node = MethodNode(m)
        PROVE  t.node.kids \in Seq(Nodes)
    <3>1. t.node.kids = <<m.body>> /\ m.body \in Nodes
      BY <2>2, <2>5, MethodsNode
    <3> QED  BY <3>1
  <2>6. (Seq(Inner) \cup Seq(Inner \cup Returns)) \subseteq Seq(Nodes)
    BY <2>2, SeqMonotonic
  <2> QED  BY <2>1, <2>3, <2>4, <2>5, <2>6 DEF Nodes
<1>2. Len(t.node.kids) \in Nat
  BY <1>1
<1> QED  BY <1>2 DEF Takes, Gives

LEMMA GuardsStep ==
  ASSUME NEW all \in Seq(Tasks), all # <<>>, NEW new \in Seq(Tasks), NEW D, NEW E, NEW h, NEW g,
         NEW vs \in Seq(Operands), NEW ws, NEW now, NEW now2, NEW X,
         Guards(D, h, all, vs, now),
         Renewed(vs, ws, Takes(Head(all)), now2),
         Lifts(g, new, Len(ws) - (Len(vs) - Takes(Head(all))), Gives(Head(all))),
         Floor(D, Head(all), now) \subseteq now2,
         Kept(E, new, X), Floor(D, Head(all), now) \subseteq X, X \subseteq now2,
         \A i \in DOMAIN all : i # 1 /\ Binding(all[i]) => SameFor(D, E, all[i])
  PROVE  \E f : Guards(E, f, new \o Tail(all), ws, now2)
<1> DEFINE t == Head(all)
           r == Tail(all)
           a == Len(new)
           z == Len(r)
           u == new \o r
           b == Len(vs) - Takes(t)
           floor == Floor(D, t, now)
           f == [i \in 1 .. a + z + 1 |-> IF i <= a THEN g[i] + b ELSE h[(i - a) + 1]]
<1>1. /\ t = all[1] /\ 1 \in DOMAIN all /\ Len(all) = z + 1 /\ a \in Nat /\ z \in Nat
      /\ DOMAIN all = 1 .. z + 1 /\ t \in Tasks /\ r \in Seq(Tasks)
      /\ \A i \in 1 .. z : r[i] = all[i + 1]
  BY HeadTailProperties
<1>2. /\ u \in Seq(Tasks) /\ Len(u) = a + z /\ DOMAIN u = 1 .. a + z
      /\ \A i \in 1 .. a + z : u[i] = IF i <= a THEN new[i] ELSE r[i - a]
  BY <1>1, ConcatProperties
<1>3. Takes(t) \in Nat /\ Gives(t) \in Nat /\ Len(vs) \in Nat
  BY <1>1, TakesType
<1>4. /\ h \in [1 .. z + 2 -> Nat] /\ h[1] = Len(vs) /\ h[1] >= Takes(t)
      /\ \A i \in 1 .. z + 1 : h[i] >= Takes(all[i]) /\ h[i + 1] = (h[i] - Takes(all[i])) + Gives(all[i])
      /\ h[2] = b + Gives(t)
  <2>1. /\ h \in [1 .. Len(all) + 1 -> Nat] /\ h[1] = Len(vs)
        /\ \A i \in 1 .. Len(all) : h[i] >= Takes(all[i]) /\ h[i + 1] = (h[i] - Takes(all[i])) + Gives(all[i])
    BY DEF Guards, Levels
  <2>2. (z + 1) + 1 = z + 2 /\ 1 \in 1 .. z + 1
    BY <1>1
  <2> HIDE DEF z, t, r, u, a
  <2> QED  BY <1>1, <2>1, <2>2
<1>5. b \in Nat /\ b <= Len(vs) /\ Bottom(h, all, 1) = b
  BY <1>1, <1>3, <1>4 DEF Bottom
<1>6. /\ Held(vs, Len(vs)) \subseteq now
      /\ \A i \in 1 .. z + 1 : Binding(all[i]) =>
           /\ Bound(D, h, all, vs, now, i)
           /\ \A j \in 1 .. z + 1 : j < i => Above(D, h, all, j, i)
  BY <1>1 DEF Guards
<1>7. Held(vs, b) \subseteq floor
  <2>1. CASE Binding(t)
    BY <1>1, <1>5, <1>6, <2>1 DEF Bound, Floor
  <2>2. CASE ~Binding(t)
    BY <1>5, <1>6, <2>2, HeldMore DEF Floor
  <2> QED  BY <2>1, <2>2
<1>8. /\ ws \in Seq(Operands) /\ Len(ws) \in Nat /\ Len(ws) >= b
      /\ \A n \in Nat : n <= b => Held(ws, n) = Held(vs, n)
      /\ Held(ws, Len(ws)) \subseteq now2
  <2>1. Takes(t) \in 0 .. Len(vs) /\ Held(vs, Len(vs) - Takes(t)) \subseteq now2
    BY <1>3, <1>4, <1>7
  <2> QED  BY <2>1, RenewedIs
<1>9. /\ g \in [1 .. a + 1 -> Nat] /\ g[1] = Len(ws) - b /\ g[a + 1] = Gives(t)
      /\ \A i \in 1 .. a : g[i] >= Takes(new[i]) /\ g[i + 1] = (g[i] - Takes(new[i])) + Gives(new[i])
      /\ \A i \in 1 .. a : Binding(new[i]) => g[i] = Takes(new[i])
  <2>1. /\ Lifts(g, new, Len(ws) - b, Gives(t))
        /\ DOMAIN new = 1 .. a
    OBVIOUS
  <2> HIDE DEF b, t
  <2> QED  BY <2>1 DEF Lifts, Levels
<1>10. \A i \in 1 .. a : Takes(new[i]) \in Nat /\ Gives(new[i]) \in Nat
  <2>1. \A i \in 1 .. a : new[i] \in Tasks
    OBVIOUS
  <2> QED  BY <2>1, TakesType
<1>11. \A i \in 1 .. z : Takes(r[i]) \in Nat /\ Gives(r[i]) \in Nat
  BY <1>1, TakesType
<1>12. /\ floor \subseteq now2 /\ floor \subseteq X /\ X \subseteq now2
       /\ \A i \in 1 .. a : Binding(new[i]) => Promised(E, new[i]) /\ Base(E, new[i]) = X
       /\ \A i \in 1 .. z : Binding(r[i]) => SameFor(D, E, r[i])
  <2>1. \A i \in 1 .. z : i + 1 \in DOMAIN all /\ i + 1 # 1
    BY <1>1
  <2>2. \A i \in 1 .. a : i \in DOMAIN new
    OBVIOUS
  <2> QED  BY <1>1, <2>1, <2>2 DEF Kept
<1> HIDE DEF t, r, a, z, u, b, floor
<1>13. \A i \in 1 .. a : i \in 1 .. a + z /\ u[i] = new[i] /\ f[i] = g[i] + b
  BY <1>1, <1>2
<1>14. ASSUME NEW i \in 1 .. z
       PROVE  a + i \in 1 .. a + z /\ u[a + i] = r[i] /\ f[a + i] = h[i + 1]
  <2>1. a + i \in 1 .. a + z /\ ~(a + i <= a) /\ (a + i) - a = i /\ a + i \in 1 .. a + z + 1
    BY <1>1
  <2> QED  BY <1>2, <2>1
<1>15. \A i \in 1 .. a + z : i \in 1 .. a \/ \E k \in 1 .. z : i = a + k
  <2> TAKE i \in 1 .. a + z
  <2>1. CASE i <= a
    BY <1>1, <2>1
  <2>2. CASE ~(i <= a)
    <3>1. i - a \in 1 .. z /\ i = a + (i - a)
      BY <1>1, <2>2
    <3> QED  BY <3>1
  <2> QED  BY <2>1, <2>2
<1>16. f[a + 1] = h[2] /\ f[a + 1] = g[a + 1] + b
  <2>1. a + 1 \in 1 .. a + z + 1 /\ ~(a + 1 <= a) /\ ((a + 1) - a) + 1 = 2
    BY <1>1
  <2>2. f[a + 1] = h[2]
    BY <2>1
  <2> HIDE DEF f
  <2> QED  BY <1>3, <1>4, <1>5, <1>9, <2>2
<1>17. Levels(f, u, Len(ws), f[Len(u) + 1])
  <2>1. f \in [1 .. Len(u) + 1 -> Nat]
    <3>1. \A i \in 1 .. a + z + 1 : (IF i <= a THEN g[i] + b ELSE h[(i - a) + 1]) \in Nat
      <4> TAKE i \in 1 .. a + z + 1
      <4>1. CASE i <= a
        <5>1. i \in 1 .. a + 1
          BY <1>1, <4>1
        <5> QED  BY <1>5, <1>9, <4>1, <5>1
      <4>2. CASE ~(i <= a)
        <5>1. (i - a) + 1 \in 1 .. z + 2
          BY <1>1, <4>2
        <5> QED  BY <1>4, <4>2, <5>1
      <4> QED  BY <4>1, <4>2
    <3> QED  BY <1>2, <3>1
  <2>2. f[1] = Len(ws)
    <3>1. CASE a = 0
      BY <1>5, <1>8, <1>9, <1>16, <3>1
    <3>2. CASE a # 0
      <4>1. 1 \in 1 .. a
        BY <1>1, <3>2
      <4>2. f[1] = g[1] + b
        BY <1>13, <4>1
      <4> HIDE DEF f
      <4> QED  BY <1>5, <1>8, <1>9, <4>2
    <3> QED  BY <3>1, <3>2
  <2>3. ASSUME NEW i \in 1 .. a
        PROVE  f[i] >= Takes(u[i]) /\ f[i + 1] = (f[i] - Takes(u[i])) + Gives(u[i])
    <3>1. f[i] = g[i] + b /\ u[i] = new[i] /\ g[i] \in Nat /\ Takes(new[i]) \in Nat /\ Gives(new[i]) \in Nat
      <4>1. i \in 1 .. a + 1
        BY <1>1
      <4>2. g[i] \in Nat
        BY <1>9, <4>1
      <4> QED  BY <1>10, <1>13, <4>2
    <3>2. f[i + 1] = g[i + 1] + b
      <4>1. CASE i = a
        BY <1>16, <4>1
      <4>2. CASE i # a
        <5>1. i + 1 \in 1 .. a
          BY <1>1, <4>2
        <5> QED  BY <1>13, <5>1
      <4> QED  BY <4>1, <4>2
    <3>3. g[i] >= Takes(new[i]) /\ g[i + 1] = (g[i] - Takes(new[i])) + Gives(new[i]) /\ b \in Nat
      BY <1>5, <1>9
    <3> HIDE DEF f
    <3> QED  BY <3>1, <3>2, <3>3
  <2>4. ASSUME NEW i \in 1 .. z
        PROVE  f[a + i] >= Takes(u[a + i]) /\ f[(a + i) + 1] = (f[a + i] - Takes(u[a + i])) + Gives(u[a + i])
    <3>1. u[a + i] = r[i] /\ f[a + i] = h[i + 1] /\ r[i] = all[i + 1]
      BY <1>1, <1>14
    <3>2. f[(a + i) + 1] = h[(i + 1) + 1]
      <4>1. /\ (a + i) + 1 \in 1 .. a + z + 1 /\ ~((a + i) + 1 <= a)
            /\ (((a + i) + 1) - a) + 1 = (i + 1) + 1
        BY <1>1
      <4> QED  BY <4>1
    <3>3. i + 1 \in 1 .. z + 1
      BY <1>1
    <3> HIDE DEF f
    <3> QED  BY <1>4, <3>1, <3>2, <3>3
  <2> HIDE DEF f
  <2>5. \A i \in 1 .. a + z : f[i] >= Takes(u[i]) /\ f[i + 1] = (f[i] - Takes(u[i])) + Gives(u[i])
    BY <1>15, <2>3, <2>4
  <2> QED  BY <1>2, <2>1, <2>2, <2>5 DEF Levels
<1> HIDE DEF f
\* What the new tasks leave alone.
<1>18. ASSUME NEW i \in 1 .. a
       PROVE  /\ Bottom(f, u, i) >= b /\ Bottom(f, u, i) \in Int
              /\ Binding(u[i]) => Bottom(f, u, i) = b
  <2>1. f[i] = g[i] + b /\ u[i] = new[i] /\ g[i] \in Nat /\ Takes(new[i]) \in Nat /\ g[i] >= Takes(new[i])
    BY <1>1, <1>9, <1>10, <1>13
  <2>2. Binding(new[i]) => g[i] = Takes(new[i])
    BY <1>9
  <2> QED  BY <1>5, <2>1, <2>2 DEF Bottom
\* What the tasks that were left leave alone.
<1>19. ASSUME NEW i \in 1 .. z, Binding(r[i])
       PROVE  /\ Bottom(f, u, a + i) = Bottom(h, all, i + 1)
              /\ Bottom(f, u, a + i) \in Nat /\ Bottom(f, u, a + i) <= b
              /\ Base(D, r[i]) \subseteq floor
              /\ Bound(D, h, all, vs, now, i + 1) /\ all[i + 1] = r[i]
  <2>1. u[a + i] = r[i] /\ f[a + i] = h[i + 1] /\ r[i] = all[i + 1] /\ i + 1 \in 1 .. z + 1 /\ 1 \in 1 .. z + 1 /\ 1 < i + 1
    BY <1>1, <1>14
  <2>2. Bottom(f, u, a + i) = Bottom(h, all, i + 1)
    BY <2>1 DEF Bottom
  <2>3. Bound(D, h, all, vs, now, i + 1) /\ Above(D, h, all, 1, i + 1)
    BY <1>6, <1>19, <2>1
  <2>4. Bottom(h, all, i + 1) \in Nat
    <3>1. h[i + 1] \in Nat /\ h[i + 1] >= Takes(all[i + 1]) /\ Takes(all[i + 1]) \in Nat
      <4>1. i + 1 \in 1 .. z + 2
        BY <1>1
      <4>2. h[i + 1] \in Nat
        BY <1>4, <4>1
      <4> QED  BY <1>4, <1>11, <2>1, <4>2
    <3> QED  BY <3>1 DEF Bottom
  <2>5. Bottom(h, all, i + 1) <= b
    BY <1>5, <2>3 DEF Above
  <2>6. Base(D, r[i]) \subseteq floor
    <3>1. CASE Binding(t)
      BY <1>1, <2>1, <2>3, <3>1 DEF Above, Floor, floor
    <3>2. CASE ~Binding(t)
      BY <2>1, <2>3, <3>2 DEF Bound, Floor, floor
    <3> QED  BY <3>1, <3>2
  <2> QED  BY <2>1, <2>2, <2>3, <2>4, <2>5, <2>6
<1>20. ASSUME NEW i \in 1 .. a, Binding(u[i])
       PROVE  /\ Bound(E, f, u, ws, now2, i)
              /\ \A j \in 1 .. a + z : j < i => Above(E, f, u, j, i)
  <2>1. u[i] = new[i] /\ Promised(E, u[i]) /\ Base(E, u[i]) = X /\ Bottom(f, u, i) = b
    BY <1>12, <1>13, <1>18, <1>20
  <2>2. Held(ws, b) \subseteq X
    <3>1. Held(ws, b) = Held(vs, b)
      BY <1>5, <1>8
    <3> QED  BY <1>7, <1>12, <3>1
  <2>3. Bound(E, f, u, ws, now2, i)
    BY <1>12, <2>1, <2>2 DEF Bound
  <2>4. ASSUME NEW j \in 1 .. a + z, j < i
        PROVE  Above(E, f, u, j, i)
    <3>1. j \in 1 .. a
      BY <1>1, <2>4
    <3>2. Bottom(f, u, j) >= b /\ Bottom(f, u, j) \in Int
      BY <1>18, <3>1
    <3>3. Binding(u[j]) => Base(E, u[j]) = X
      BY <1>12, <1>13, <3>1
    <3> QED  BY <1>5, <2>1, <3>2, <3>3 DEF Above
  <2> QED  BY <2>3, <2>4
<1>21. ASSUME NEW k \in 1 .. z, Binding(u[a + k])
       PROVE  /\ Bound(E, f, u, ws, now2, a + k)
              /\ \A j \in 1 .. a + z : j < a + k => Above(E, f, u, j, a + k)
  <2> DEFINE B == Bottom(f, u, a + k)
  <2>1. u[a + k] = r[k] /\ Binding(r[k]) /\ SameFor(D, E, r[k])
    BY <1>12, <1>14, <1>21
  <2>2. /\ B = Bottom(h, all, k + 1) /\ B \in Nat /\ B <= b
        /\ Base(D, r[k]) \subseteq floor
        /\ Bound(D, h, all, vs, now, k + 1) /\ all[k + 1] = r[k]
    BY <1>19, <2>1
  <2>3. /\ Promised(E, r[k]) /\ Base(E, r[k]) = Base(D, r[k])
        /\ Held(vs, B) \subseteq Base(D, r[k])
    BY <2>1, <2>2 DEF Bound, SameFor
  <2>4. Held(ws, B) = Held(vs, B)
    BY <1>8, <2>2
  <2>5. Bound(E, f, u, ws, now2, a + k)
    BY <1>12, <2>1, <2>2, <2>3, <2>4 DEF Bound
  <2>6. ASSUME NEW j \in 1 .. a
        PROVE  Above(E, f, u, j, a + k)
    <3>1. Bottom(f, u, j) >= b /\ Bottom(f, u, j) \in Int
      BY <1>18
    <3>2. Binding(u[j]) => Base(E, u[j]) = X
      BY <1>12, <1>13
    <3>3. B <= Bottom(f, u, j)
      BY <1>5, <2>2, <3>1
    <3> QED  BY <1>12, <2>1, <2>2, <2>3, <3>2, <3>3 DEF Above
  <2>7. ASSUME NEW j \in 1 .. z, j < k
        PROVE  Above(E, f, u, a + j, a + k)
    <3>1. k + 1 \in 1 .. z + 1 /\ j + 1 \in 1 .. z + 1 /\ j + 1 < k + 1
      BY <1>1, <2>7
    <3>2. Above(D, h, all, j + 1, k + 1)
      BY <1>6, <2>1, <2>2, <3>1
    <3>3. u[a + j] = r[j] /\ all[j + 1] = r[j] /\ f[a + j] = h[j + 1]
      BY <1>1, <1>14
    <3>4. Bottom(f, u, a + j) = Bottom(h, all, j + 1)
      BY <3>3 DEF Bottom
    <3>5. Binding(r[j]) => Base(E, r[j]) = Base(D, r[j])
      BY <1>12 DEF SameFor
    <3> QED  BY <2>1, <2>2, <2>3, <3>2, <3>3, <3>4, <3>5 DEF Above
  <2>8. ASSUME NEW j \in 1 .. a + z, j < a + k
        PROVE  Above(E, f, u, j, a + k)
    <3>1. CASE j \in 1 .. a
      BY <2>6, <3>1
    <3>2. CASE \E l \in 1 .. z : j = a + l
      <4>1. PICK l \in 1 .. z : j = a + l
        BY <3>2
      <4>2. l < k
        BY <1>1, <2>8, <4>1
      <4> QED  BY <2>7, <4>1, <4>2
    <3> QED  BY <1>15, <3>1, <3>2
  <2> QED  BY <2>5, <2>8
<1>22. Guards(E, f, u, ws, now2)
  <2>1. \A i \in 1 .. a + z : Binding(u[i]) =>
          /\ Bound(E, f, u, ws, now2, i)
          /\ \A j \in 1 .. a + z : j < i => Above(E, f, u, j, i)
    BY <1>15, <1>20, <1>21
  <2> QED  BY <1>2, <1>8, <1>17, <2>1 DEF Guards
<1> QED  BY <1>22 DEF u, r

-----------------------------------------------------------------------------
(***************************************************************************)
(* The invariant.                                                          *)
(***************************************************************************)
Definite(D, h) ==
  /\ AllAssured(D, blocks)
  /\ \A n \in DOMAIN temps \cap DOMAIN blocks : D[n] = {}
  /\ Guards(D, h, agenda, values, Avail(D, blocks, currentBlock))

Assigned == \E D, h : Definite(D, h)

\* The blocks of a task are those there were: a map for more blocks says of it
\* what the map for those says.
LEMMA StillKept ==
  ASSUME IInv, NEW D, NEW E, \A b \in DOMAIN blocks : E[b] = D[b],
         NEW i \in DOMAIN agenda, Binding(agenda[i])
  PROVE  SameFor(D, E, agenda[i])
<1> DEFINE t == agenda[i]
<1>1. t \in Tasks /\ Ready(t, blocks, currentBlock, DOMAIN temps)
  BY DEF IInv, Agenda
<1> HIDE DEF t
<1>2. t.labels \in Seq(Texts) /\ Shaped(t) /\ DOMAIN t.labels = 1 .. Len(t.labels)
  BY <1>1 DEF Tasks, Ready
<1>3. CASE IsMethod(t)
  <2>1. t.do = "visit"
    BY <1>3 DEF IsMethod
  <2>2. Base(D, t) = {} /\ Base(E, t) = {}
    BY <1>3 DEF Base
  <2>3. Promised(E, t)
    BY <2>1 DEF Promised
  <2> QED  BY <2>2, <2>3 DEF SameFor, t
<1>4. CASE ~IsMethod(t)
  <2>1. \A k \in DOMAIN t.labels : E[t.labels[k]] = D[t.labels[k]]
    BY <1>1, <1>4 DEF Ready
  <2>2. t.do = "then" => Len(t.labels) \in {2, 3}
    <3> SUFFICES ASSUME t.do = "then"
                 PROVE  Len(t.labels) \in {2, 3}
      OBVIOUS
    <3>1. t.node.kind \in {"If", "IfElse"} /\ Len(t.labels) = Len(t.node.kids) /\ t.node \in Nodes
      BY <1>1, <1>2 DEF Shaped, Tasks
    <3>2. t.node \in Inner
      BY <3>1, NodeOf
    <3>3. WellFormed(t.node)
      BY <3>2, InnerNode
    <3> QED  BY <3>1, <3>3 DEF WellFormed
  <2>3. ASSUME Len(t.labels) \in {2, 3, 4}
        PROVE  /\ \A k \in 1 .. Len(t.labels) : E[t.labels[k]] = D[t.labels[k]]
               /\ E[t.labels[1]] = D[t.labels[1]]
    <3>1. \A n \in {2, 3, 4} : 1 \in 1 .. n
      OBVIOUS
    <3> QED  BY <1>2, <2>1, <2>3, <3>1
  <2>4. CASE t.do = "merge"
    <3>1. Len(t.labels) = 4
      BY <1>2, <2>4 DEF Shaped
    <3>2. \A k \in 1 .. 4 : E[t.labels[k]] = D[t.labels[k]]
      <4>1. \A k \in 1 .. Len(t.labels) : E[t.labels[k]] = D[t.labels[k]]
        BY <2>3, <3>1
      <4> QED  BY <3>1, <4>1
    <3>3. /\ E[t.labels[2]] = D[t.labels[2]] /\ E[t.labels[3]] = D[t.labels[3]]
          /\ E[t.labels[4]] = D[t.labels[4]]
      BY <3>2
    <3>4. Base(D, t) = D[t.labels[2]] /\ Base(E, t) = E[t.labels[2]]
      BY <1>4, <2>4 DEF Base
    <3>5. Promised(D, t) => Promised(E, t)
      BY <2>4, <3>3 DEF Promised
    <3> QED  BY <3>3, <3>4, <3>5 DEF SameFor, t
  <2>5. CASE t.do \in {"then", "end"}
    <3>1. Len(t.labels) \in {2, 3}
      BY <1>2, <2>2, <2>5 DEF Shaped
    <3>2. E[t.labels[1]] = D[t.labels[1]]
      BY <2>3, <3>1
    <3>3. Base(D, t) = D[t.labels[1]] /\ Base(E, t) = E[t.labels[1]]
      BY <1>4, <2>5 DEF Base
    <3>4. Promised(D, t) => Promised(E, t)
      BY <2>1, <2>5, <3>2 DEF Promised
    <3> QED  BY <3>2, <3>3, <3>4 DEF SameFor, t
  <2>6. CASE t.do \in {"loop body", "loop end"}
    <3>1. Len(t.labels) \in {3, 4}
      BY <1>2, <2>6 DEF Shaped
    <3>2. (\A k \in 1 .. 3 : E[t.labels[k]] = D[t.labels[k]]) /\ E[t.labels[1]] = D[t.labels[1]]
      <4>1. /\ \A k \in 1 .. Len(t.labels) : E[t.labels[k]] = D[t.labels[k]]
            /\ E[t.labels[1]] = D[t.labels[1]]
        BY <2>3, <3>1
      <4>2. \A k \in 1 .. 3 : k \in 1 .. Len(t.labels)
        <5> DEFINE n == Len(t.labels)
        <5>1. n \in {3, 4}
          BY <3>1
        <5> HIDE DEF n
        <5>2. \A k \in 1 .. 3 : k \in 1 .. n
          BY <5>1
        <5> QED  BY <5>2 DEF n
      <4> QED  BY <4>1, <4>2
    <3>3. Base(D, t) = D[t.labels[1]] /\ Base(E, t) = E[t.labels[1]]
      BY <1>4, <2>6 DEF Base
    <3>4. Promised(D, t) => Promised(E, t)
      BY <2>6, <3>2 DEF Promised
    <3> QED  BY <3>2, <3>3, <3>4 DEF SameFor, t
  <2> QED  BY <1>4, <2>4, <2>5, <2>6 DEF Binding, t
<1> QED  BY <1>3, <1>4 DEF t

LEMMA Goes ==
  ASSUME IInv, agenda # <<>>, NEW D, NEW h, Definite(D, h),
         NEW E, \A b \in DOMAIN blocks : E[b] = D[b],
         NEW tasks \in Seq(Tasks), Proceed(tasks), NEW g, NEW X,
         AllAssured(E, blocks'), \A n \in DOMAIN temps' \cap DOMAIN blocks' : E[n] = {},
         Renewed(values, values', Takes(task), Avail(E, blocks', currentBlock')),
         Lifts(g, tasks, Len(values') - (Len(values) - Takes(task)), Gives(task)),
         Floor(D, task, Avail(D, blocks, currentBlock)) \subseteq X,
         X \subseteq Avail(E, blocks', currentBlock'), Kept(E, tasks, X)
  PROVE  Assigned'
<1>1. agenda \in Seq(Tasks) /\ values \in Seq(Operands) /\ task = Head(agenda)
  BY DEF IInv, Agenda, Stack, task
<1>2. PICK now : now = Avail(D, blocks, currentBlock)
  OBVIOUS
<1>3. PICK now2 : now2 = Avail(E, blocks', currentBlock')
  OBVIOUS
<1>4. Guards(D, h, agenda, values, now)
  BY <1>2 DEF Definite
<1>5. \A i \in DOMAIN agenda : i # 1 /\ Binding(agenda[i]) => SameFor(D, E, agenda[i])
  BY StillKept
<1>6. /\ Floor(D, Head(agenda), now) \subseteq X /\ X \subseteq now2
      /\ Renewed(values, values', Takes(Head(agenda)), now2)
      /\ Lifts(g, tasks, Len(values') - (Len(values) - Takes(Head(agenda))), Gives(Head(agenda)))
  BY <1>1, <1>2, <1>3
<1>7. Floor(D, Head(agenda), now) \subseteq now2
  BY <1>6
<1>8. \E f : Guards(E, f, tasks \o Tail(agenda), values', now2)
  BY <1>1, <1>4, <1>5, <1>6, <1>7, GuardsStep
<1>9. PICK f : Guards(E, f, agenda', values', now2)
  BY <1>8 DEF Proceed
<1>10. Definite(E, f)'
  BY <1>3, <1>9 DEF Definite
<1> QED  BY <1>10 DEF Assigned

-----------------------------------------------------------------------------
(***************************************************************************)
(* Steps that stay in the current block.                                   *)
(***************************************************************************)
LEMMA CalmIsFree == \A t : Calm(t) => ~Binding(t)
BY DEF Calm, Binding

LEMMA CalmLifts ==
  ASSUME NEW tasks \in Seq(Tasks), \A i \in DOMAIN tasks : Calm(tasks[i]), NEW n, NEW m, Runs(tasks, n, m)
  PROVE  (\E g : Lifts(g, tasks, n, m)) /\ \A E, X : Kept(E, tasks, X)
<1>1. PICK g : Levels(g, tasks, n, m)
  BY DEF Runs
<1>2. Lifts(g, tasks, n, m)
  BY <1>1, CalmIsFree DEF Lifts
<1>3. \A E, X : Kept(E, tasks, X)
  BY CalmIsFree DEF Kept
<1> QED  BY <1>2, <1>3

LEMMA FloorIsWritten ==
  ASSUME IInv, agenda # <<>>, NEW D, NEW h, Definite(D, h)
  PROVE  /\ Floor(D, task, Avail(D, blocks, currentBlock)) \subseteq Avail(D, blocks, currentBlock)
         /\ Binding(task) => Promised(D, task) /\ Floor(D, task, Avail(D, blocks, currentBlock)) = Base(D, task)
<1>1. task = agenda[1] /\ 1 \in DOMAIN agenda
  BY DEF IInv, Agenda, task
<1>2. Binding(task) => Bound(D, h, agenda, values, Avail(D, blocks, currentBlock), 1)
  BY <1>1 DEF Definite, Guards
<1> QED  BY <1>1, <1>2 DEF Floor, Bound

LEMMA OperandHeld ==
  ASSUME values \in Seq(Operands), NEW now, Held(values, Len(values)) \subseteq now,
         NEW j \in 0 .. Len(values) - 1
  PROVE  HeldBy(Operand(j)) \subseteq now
<1>1. Len(values) - j \in DOMAIN values /\ Len(values) - j <= Len(values)
  OBVIOUS
<1> QED  BY <1>1 DEF Operand, Held

LEMMA WithoutNone ==
  ASSUME values \in Seq(Operands)
  PROVE  Without(0) = values
<1>1. Len(values) - 0 = Len(values)
  OBVIOUS
<1> QED  BY <1>1 DEF Without

\* Nothing that a program names is a temporary.
LEMMA NoTempText ==
  /\ \A n \in Inner : n.text \notin TempNames
  /\ This \notin TempNames /\ <<>> \notin TempNames
  /\ HeldBy(None) = {}
<1>1. <<>> \notin TempNames
  BY DEF TempNames
<1>2. This \notin TempNames
  BY DEF TempNames, This
<1>3. ASSUME NEW n \in Inner
      PROVE  n.text \notin TempNames
  <2>1. n.text # <<>> => n.text[1] # "_t"
    BY NameAssumption
  <2>2. \A x \in TempNames : x[1] = "_t"
    BY DEF TempNames
  <2> QED  BY <1>1, <2>1, <2>2
<1> QED  BY <1>1, <1>2, <1>3 DEF HeldBy, None, Name

LEMMA QuietAllowed ==
  ASSUME NEW D, NEW have, NEW tac \in Tacs, tac.op \notin {"JMP", "CJMP"},
         HeldBy(tac.lhs) \subseteq have, HeldBy(tac.rhs) \subseteq have,
         tac.op = "ARRAY_STORE" => tac.res \notin TempNames
  PROVE  Allowed(D, tac, have)
<1>1. \A x \in ReadBy(tac) :
        \/ x = tac.lhs.name /\ ~tac.lhs.imm
        \/ x = tac.rhs.name /\ ~tac.rhs.imm
        \/ x = tac.res /\ tac.op = "ARRAY_STORE"
  BY DEF ReadBy
<1>2. Reads(tac) \subseteq have
  BY <1>1 DEF Reads, HeldBy
<1> QED  BY <1>2 DEF Allowed

LEMMA TacForAllowed ==
  ASSUME values \in Seq(Operands), NEW n \in Nodes, n.kind \in Strict \cup Sized \cup Statements,
         Len(values) >= Len(n.kids), NEW res \in Texts,
         NEW D, NEW now, Held(values, Len(values)) \subseteq now
  PROVE  /\ Allowed(D, TacFor(n, res), now)
         /\ n.kind \in Strict \cup Sized => TacFor(n, res).res = res /\ TacFor(n, res).op \in Defines
<1>1. /\ Len(n.kids) = IF n.kind \in TwoOperands \cup {"ArrayAssign"} THEN 2 ELSE 1
      /\ n \in Inner \/ n.kind = "RET"
  BY Operated
<1>2. Len(values) \in Nat /\ 0 \in 0 .. Len(values)
  OBVIOUS
<1>3. \A j \in 0 .. Len(values) - 1 : HeldBy(Operand(j)) \subseteq now
  BY OperandHeld
<1>4. /\ TacFor(n, res) \in Tacs /\ TacFor(n, res).op \notin {"JMP", "CJMP"}
  BY TacForType
<1>5. HeldBy(None) = {}
  BY NoTempText
<1>6. HeldBy(Operand(0)) \subseteq now
  BY <1>1, <1>2, <1>3
<1>7. CASE n.kind \in TwoOperands
  <2>1. HeldBy(Operand(1)) \subseteq now
    BY <1>1, <1>2, <1>3, <1>7
  <2>2. TacFor(n, res) = Tac3(n.kind, res, Operand(1), Operand(0))
    BY <1>7 DEF TacFor, TwoOperands, BinaryOps
  <2>3. /\ TacFor(n, res).lhs = Operand(1) /\ TacFor(n, res).rhs = Operand(0)
        /\ TacFor(n, res).op = n.kind /\ TacFor(n, res).res = res
    BY <2>2 DEF Tac3
  <2>4. n.kind \in Defines /\ n.kind # "ARRAY_STORE"
    BY <1>7 DEF Defines, TwoOperands, BinaryOps
  <2> QED  BY <1>4, <1>6, <2>1, <2>3, <2>4, QuietAllowed
<1>8. CASE n.kind = "ArrayAssign"
  <2>1. HeldBy(Operand(1)) \subseteq now
    BY <1>1, <1>2, <1>3, <1>8
  <2>2. TacFor(n, res) = Tac3("ARRAY_STORE", n.text, Operand(1), Operand(0))
    BY <1>8 DEF TacFor, TwoOperands, BinaryOps
  <2>3. /\ TacFor(n, res).lhs = Operand(1) /\ TacFor(n, res).rhs = Operand(0)
        /\ TacFor(n, res).res = n.text
    BY <2>2 DEF Tac3
  <2>4. n.kind \notin Strict \cup Sized /\ n.text \notin TempNames
    BY <1>1, <1>8, NoTempText DEF Strict, Sized, TwoOperands, BinaryOps, ShortCircuit
  <2> QED  BY <1>4, <1>6, <2>1, <2>3, <2>4, QuietAllowed
<1>9. CASE n.kind = "Assign"
  <2>1. TacFor(n, res) = Copy(Operand(0), n.text)
    BY <1>9 DEF TacFor, TwoOperands, BinaryOps
  <2>2. /\ TacFor(n, res).lhs = None /\ TacFor(n, res).rhs = Operand(0)
        /\ TacFor(n, res).op = "COPY"
    BY <2>1 DEF Copy, Tac3
  <2>3. n.kind \notin Strict \cup Sized
    BY <1>9 DEF Strict, Sized, TwoOperands, BinaryOps, ShortCircuit
  <2> QED  BY <1>4, <1>5, <1>6, <2>2, <2>3, QuietAllowed
<1>10. CASE n.kind \notin TwoOperands \cup {"ArrayAssign", "Assign"}
  <2>1. TacFor(n, res) = Tac3(n.kind, res, None, Operand(0))
    BY <1>10 DEF TacFor
  <2>2. /\ TacFor(n, res).lhs = None /\ TacFor(n, res).rhs = Operand(0)
        /\ TacFor(n, res).op = n.kind /\ TacFor(n, res).res = res
    BY <2>1 DEF Tac3
  <2>3. n.kind \in {"NOT", "NEW_ARRAY", "ARRAY_LENGTH", "PRINT", "RET"}
    BY <1>10, Kinds
  <2>4. n.kind # "ARRAY_STORE" /\ (n.kind \in Strict \cup Sized => n.kind \in Defines)
    BY <2>3 DEF Defines, Strict, Sized, TwoOperands, BinaryOps, ShortCircuit
  <2> QED  BY <1>4, <1>5, <1>6, <2>2, <2>4, QuietAllowed
<1> QED  BY <1>7, <1>8, <1>9, <1>10

LEMMA CalmGoes ==
  ASSUME IInv, agenda # <<>>, ~IsMethod(task), NEW D, NEW h, Definite(D, h),
         NEW tasks \in Seq(Tasks), \A i \in DOMAIN tasks : Calm(tasks[i]),
         Proceed(tasks), SamePlace, TakeTemp \/ NoTemp, NEW tac \in Tacs,
         \/ UNCHANGED blocks
         \/ /\ Emit(<<tac>>) /\ tac.op \notin {"JMP", "CJMP"}
            /\ Allowed(D, tac, Avail(D, blocks, currentBlock)),
         \/ values' = Without(Takes(task))
         \/ \E o \in Operands :
              /\ values' = Append(Without(Takes(task)), o)
              /\ \/ HeldBy(o) = {}
                 \/ Emit(<<tac>>) /\ tac.op \in Defines /\ o = Name(tac.res),
         Runs(tasks, Len(values') - (Len(values) - Takes(task)), Gives(task))
  PROVE  Assigned'
<1>1. /\ currentBlock \in DOMAIN blocks /\ AllSound(blocks) /\ currentBlock' = currentBlock
      /\ scope \in DOMAIN temps
  BY Working DEF SamePlace
<1>2. DOMAIN temps' = DOMAIN temps
  BY DEF TakeTemp, NoTemp
<1>3. AllAssured(D, blocks)
  BY DEF Definite
<1>4. Grows(D, blocks, blocks')
  <2>1. CASE UNCHANGED blocks
    BY <1>1, <1>3, <2>1 DEF Grows
  <2>2. CASE /\ Emit(<<tac>>) /\ tac.op \notin {"JMP", "CJMP"}
             /\ Allowed(D, tac, Avail(D, blocks, currentBlock))
    <3> DEFINE code == <<tac>>
    <3>1. Assured(D, Avail(D, blocks, currentBlock), code)
      BY <2>2, AssuredShort
    <3>2. Accept(code, DOMAIN blocks)
      BY <2>2 DEF Accept
    <3>3. blocks' = WithCode(blocks, currentBlock, code)
      BY <2>2 DEF Emit
    <3> HIDE DEF code
    <3>4. Grows(D, blocks, WithCode(blocks, currentBlock, code))
      BY <1>1, <1>3, <3>1, <3>2, CodeGrows
    <3> QED  BY <3>3, <3>4
  <2> QED  BY <2>1, <2>2
<1>5. (Emit(<<tac>>) /\ tac.op \in Defines) => tac.res \in Avail(D, blocks', currentBlock')
  <2> SUFFICES ASSUME Emit(<<tac>>), tac.op \in Defines
               PROVE  tac.res \in Avail(D, blocks', currentBlock')
    OBVIOUS
  <2> DEFINE code == <<tac>>
  <2>1. blocks' = WithCode(blocks, currentBlock, code)
    BY DEF Emit
  <2>2. code \in Seq(Tacs) /\ DOMAIN code = {1} /\ code[1] = tac
    OBVIOUS
  <2> HIDE DEF code
  <2>3. tac.res \in Written(code)
    BY <2>2, WrittenIs
  <2>4. blocks[currentBlock] \in Blocks
    BY <1>1 DEF AllSound, Sound
  <2>5. blocks'[currentBlock].code = blocks[currentBlock].code \o code /\ currentBlock \in DOMAIN blocks'
    <3>1. blocks'[currentBlock] = [blocks[currentBlock] EXCEPT !.code = @ \o code]
      BY <1>1, <2>1 DEF WithCode
    <3>2. currentBlock \in DOMAIN blocks'
      BY <1>1, <1>4 DEF Grows
    <3> QED  BY <2>4, <3>1, <3>2 DEF Blocks
  <2>6. blocks[currentBlock].code \in Seq(Tacs)
    BY <2>4 DEF Blocks
  <2>7. Written(blocks[currentBlock].code \o code) = Written(blocks[currentBlock].code) \cup Written(code)
    BY <2>2, <2>6, WrittenConcat
  <2> QED  BY <1>1, <2>3, <2>5, <2>7 DEF Avail
<1>6. PICK now2 : now2 = Avail(D, blocks', currentBlock')
  OBVIOUS
<1>7. Renewed(values, values', Takes(task), now2)
  <2>1. CASE values' = Without(Takes(task))
    BY <2>1 DEF Renewed, Without
  <2>2. CASE \E o \in Operands :
              /\ values' = Append(Without(Takes(task)), o)
              /\ \/ HeldBy(o) = {}
                 \/ Emit(<<tac>>) /\ tac.op \in Defines /\ o = Name(tac.res)
    <3>1. PICK o \in Operands :
              /\ values' = Append(Without(Takes(task)), o)
              /\ \/ HeldBy(o) = {}
                 \/ Emit(<<tac>>) /\ tac.op \in Defines /\ o = Name(tac.res)
      BY <2>2
    <3>2. HeldBy(o) \subseteq now2
      <4>1. CASE HeldBy(o) = {}
        BY <4>1
      <4>2. CASE Emit(<<tac>>) /\ tac.op \in Defines /\ o = Name(tac.res)
        BY <1>5, <1>6, <4>2 DEF HeldBy, Name
      <4> QED  BY <3>1, <4>1, <4>2
    <3> QED  BY <3>1, <3>2 DEF Renewed, Without
  <2> QED  BY <2>1, <2>2
<1>8. (\E g : Lifts(g, tasks, Len(values') - (Len(values) - Takes(task)), Gives(task)))
      /\ Kept(D, tasks, now2)
  BY CalmLifts
<1>9. PICK g : Lifts(g, tasks, Len(values') - (Len(values) - Takes(task)), Gives(task))
  BY <1>8
<1>10. Floor(D, task, Avail(D, blocks, currentBlock)) \subseteq now2
  <2>1. Avail(D, blocks, currentBlock) \subseteq now2
    BY <1>1, <1>4, <1>6 DEF Grows
  <2> QED  BY <2>1, FloorIsWritten
<1>11. AllAssured(D, blocks') /\ \A n \in DOMAIN temps' \cap DOMAIN blocks' : D[n] = {}
  BY <1>2, <1>4 DEF Grows, Definite
<1> QED
  BY <1>6, <1>7, <1>8, <1>9, <1>10, <1>11, Goes

LEMMA TempIsText == IInv => Temp \in Texts /\ Temp \in TempNames
BY DEF IInv, Counters, Temp, Texts, TempNames

LEMMA HeldNow ==
  ASSUME NEW D, NEW h, Definite(D, h)
  PROVE  Held(values, Len(values)) \subseteq Avail(D, blocks, currentBlock)
BY DEF Definite, Guards

LEMMA LeafAssigned == IInv /\ Assigned /\ Leaf => Assigned'
<1> SUFFICES ASSUME IInv, Leaf, NEW D, NEW h, Definite(D, h)
             PROVE  Assigned'
  BY DEF Assigned
<1> DEFINE o == LeafOperand(task.node)
<1>1. /\ agenda # <<>> /\ task.do = "visit" /\ task.node.kind \in ExpressionLeaves
      /\ values' = Append(values, o) /\ Proceed(<<>>)
      /\ SamePlace /\ UNCHANGED blocks /\ NoTemp
  BY DEF Leaf, Visiting, Doing, SameBlocks
<1>2. task.node.kind # "Method" /\ task.node.kind \in Expressions
  BY <1>1, Kinds
<1>3. /\ ~IsMethod(task) /\ task \in Tasks /\ task.node \in Nodes
      /\ Len(values) \in Nat /\ values \in Seq(Operands)
  BY <1>1, <1>2, AtWork
<1>4. task.node \in Inner
  BY <1>2, <1>3, Kinds, NodeOf
<1>5. task.node.num \in Int /\ task.node.text \in Texts
  BY <1>3, <1>4, InnerNode, NodeOf DEF WellFormed
<1>6. o \in Operands /\ HeldBy(o) = {}
  <2>1. /\ Imm(task.node.num) \in Operands /\ Imm(1) \in Operands /\ Imm(0) \in Operands
        /\ Name(This) \in Operands /\ Name(task.node.text) \in Operands
    BY <1>5, OperandTypes DEF Texts
  <2>2. \A x : x \notin TempNames => HeldBy(Name(x)) = {}
    BY DEF HeldBy, Name
  <2>3. \A x : HeldBy(Imm(x)) = {}
    BY DEF HeldBy, Imm
  <2>4. task.node.text \notin TempNames /\ This \notin TempNames
    BY <1>4, NoTempText
  <2>5. HeldBy(Name(This)) = {} /\ HeldBy(Name(task.node.text)) = {}
    BY <2>2, <2>4
  <2>6. HeldBy(Imm(task.node.num)) = {} /\ HeldBy(Imm(1)) = {} /\ HeldBy(Imm(0)) = {}
    BY <2>3
  <2> QED  BY <1>1, <2>1, <2>5, <2>6 DEF LeafOperand, ExpressionLeaves
<1> HIDE DEF o
<1>7. values' \in Seq(Operands) /\ Len(values') = Len(values) + 1
  BY <1>1, <1>3, <1>6, AppendProperties
<1>8. Takes(task) = 0 /\ Gives(task) = 1
  BY <1>1, <1>2 DEF Takes, Gives
<1>9. Runs(<<>>, Len(values') - (Len(values) - Takes(task)), Gives(task))
  <2>1. Len(values') - (Len(values) - Takes(task)) = 1
    BY <1>3, <1>7, <1>8
  <2> QED  BY <1>8, <2>1, RunsNone
<1>10. <<>> \in Seq(Tasks) /\ DOMAIN <<>> = {}
  BY EmptySeq
<1>11. values' = Append(Without(Takes(task)), o)
  BY <1>1, <1>3, <1>8, WithoutNone
<1> QED
  BY <1>1, <1>3, <1>6, <1>9, <1>10, <1>11, SomeTac, CalmGoes

LEMMA NewAssigned == IInv /\ Assigned /\ New => Assigned'
<1> SUFFICES ASSUME IInv, New, NEW D, NEW h, Definite(D, h)
             PROVE  Assigned'
  BY DEF Assigned
<1> DEFINE tac == Tac3("NEW", Temp, None, Name(task.node.text))
<1>1. /\ agenda # <<>> /\ task.do = "visit" /\ task.node.kind = "NEW"
      /\ values' = Append(values, Name(Temp)) /\ Proceed(<<>>)
      /\ SamePlace /\ TakeTemp /\ Emit(<<tac>>)
  BY DEF New, Visiting, Doing
<1>2. task.node.kind # "Method" /\ task.node.kind \in Expressions
  BY <1>1, Kinds
<1>3. /\ ~IsMethod(task) /\ task \in Tasks /\ task.node \in Nodes /\ scope \in DOMAIN temps
      /\ Len(values) \in Nat /\ values \in Seq(Operands)
  BY <1>1, <1>2, AtWork
<1>4. Temp \in Texts /\ task.node.text \in Texts /\ task.node \in Inner
  <2>1. task.node \in Inner
    BY <1>2, <1>3, Kinds, NodeOf
  <2>2. Temp \in Texts /\ task.node.text \in Texts
    BY <1>3, NodeOf, TempIsText
  <2> QED  BY <2>1, <2>2
<1>5. /\ tac \in Tacs /\ tac.op = "NEW" /\ tac.res = Temp
      /\ tac.lhs = None /\ tac.rhs = Name(task.node.text)
  BY <1>4, OperandTypes, TacTypes DEF TacOps, Defines, Tac3
<1> HIDE DEF tac
<1>6. Allowed(D, tac, Avail(D, blocks, currentBlock))
  <2>1. HeldBy(tac.lhs) = {} /\ HeldBy(tac.rhs) = {}
    BY <1>4, <1>5, NoTempText DEF HeldBy, Name
  <2>2. tac.op \notin {"JMP", "CJMP"} /\ tac.op # "ARRAY_STORE"
    BY <1>5
  <2> QED  BY <1>5, <2>1, <2>2, QuietAllowed
<1>7. values' \in Seq(Operands) /\ Len(values') = Len(values) + 1 /\ Name(Temp) \in Operands
  BY <1>1, <1>3, <1>4, OperandTypes, AppendProperties
<1>8. Takes(task) = 0 /\ Gives(task) = 1
  BY <1>1, <1>2 DEF Takes, Gives
<1>9. Runs(<<>>, Len(values') - (Len(values) - Takes(task)), Gives(task))
  <2>1. Len(values') - (Len(values) - Takes(task)) = 1
    BY <1>3, <1>7, <1>8
  <2> QED  BY <1>8, <2>1, RunsNone
<1>10. <<>> \in Seq(Tasks) /\ DOMAIN <<>> = {}
  BY EmptySeq
<1>11. values' = Append(Without(Takes(task)), Name(tac.res)) /\ Name(tac.res) \in Operands
  BY <1>1, <1>3, <1>5, <1>7, <1>8, WithoutNone
<1>12. tac.op \in Defines /\ tac.op \notin {"JMP", "CJMP"}
  BY <1>5 DEF Defines
<1> QED
  BY <1>1, <1>3, <1>5, <1>6, <1>9, <1>10, <1>11, <1>12, CalmGoes

LEMMA EvalOperandsAssigned == IInv /\ Assigned /\ EvalOperands => Assigned'
<1> SUFFICES ASSUME IInv, EvalOperands, NEW D, NEW h, Definite(D, h)
             PROVE  Assigned'
  BY DEF Assigned
<1> DEFINE tasks == VisitAll(task.node.kids) \o <<Task("finish", task.node, <<>>, <<>>)>>
<1>1. /\ agenda # <<>> /\ task.do = "visit" /\ task.node.kind \in Strict \cup Statements
      /\ Proceed(tasks) /\ values' = values
      /\ SamePlace /\ UNCHANGED blocks /\ NoTemp
  BY DEF EvalOperands, Visiting, Doing, SameBlocks
<1>2. task.node.kind # "Method"
  BY <1>1, Kinds
<1>3. /\ ~IsMethod(task) /\ task.node \in Nodes
      /\ Len(values) \in Nat /\ values \in Seq(Operands)
  BY <1>1, <1>2, AtWork
<1>4. 0 \in Nat /\ <<>> \in Texts
  BY NoLabels
<1>5. /\ tasks \in Seq(Tasks)
      /\ \A i \in DOMAIN tasks : Calm(tasks[i])
      /\ Runs(tasks, 0, IF task.node.kind \in Expressions THEN 0 + 1 ELSE 0)
  BY <1>1, <1>3, <1>4, OperandsThenFinish
<1> HIDE DEF tasks
<1>6. Takes(task) = 0 /\ Gives(task) = IF task.node.kind \in Expressions THEN 1 ELSE 0
  BY <1>1 DEF Takes, Gives
<1>7. Runs(tasks, Len(values') - (Len(values) - Takes(task)), Gives(task))
  <2>1. Len(values') - (Len(values) - Takes(task)) = 0
    BY <1>1, <1>3, <1>6
  <2>2. Gives(task) = IF task.node.kind \in Expressions THEN 0 + 1 ELSE 0
    BY <1>6
  <2> QED  BY <1>5, <2>1, <2>2
<1>8. values' = Without(Takes(task))
  BY <1>1, <1>3, <1>6, WithoutNone
<1> QED
  BY <1>1, <1>3, <1>5, <1>7, <1>8, SomeTac, CalmGoes

LEMMA EvalSizeAssigned == IInv /\ Assigned /\ EvalSize => Assigned'
<1> SUFFICES ASSUME IInv, EvalSize, NEW D, NEW h, Definite(D, h)
             PROVE  Assigned'
  BY DEF Assigned
<1> DEFINE tasks == VisitAll(task.node.kids) \o <<Task("finish", task.node, <<>>, Temp)>>
<1>1. /\ agenda # <<>> /\ task.do = "visit" /\ task.node.kind \in Sized
      /\ Proceed(tasks) /\ values' = values
      /\ SamePlace /\ UNCHANGED blocks /\ TakeTemp
  BY DEF EvalSize, Visiting, Doing, SameBlocks
<1>2. task.node.kind # "Method" /\ task.node.kind \in Expressions
  BY <1>1, Kinds
<1>3. /\ ~IsMethod(task) /\ task.node \in Nodes /\ scope \in DOMAIN temps
      /\ Len(values) \in Nat /\ values \in Seq(Operands)
  BY <1>1, <1>2, AtWork
<1>4. Temp \in Texts /\ 0 \in Nat
  BY TempIsText
<1>5. /\ tasks \in Seq(Tasks)
      /\ \A i \in DOMAIN tasks : Calm(tasks[i])
      /\ Runs(tasks, 0, IF task.node.kind \in Expressions THEN 0 + 1 ELSE 0)
  BY <1>1, <1>3, <1>4, OperandsThenFinish
<1> HIDE DEF tasks
<1>6. Takes(task) = 0 /\ Gives(task) = 1
  BY <1>1, <1>2 DEF Takes, Gives
<1>7. Runs(tasks, Len(values') - (Len(values) - Takes(task)), Gives(task))
  <2>1. Len(values') - (Len(values) - Takes(task)) = 0
    BY <1>1, <1>3, <1>6
  <2>2. Gives(task) = IF task.node.kind \in Expressions THEN 0 + 1 ELSE 0
    BY <1>2, <1>6
  <2> QED  BY <1>5, <2>1, <2>2
<1>8. values' = Without(Takes(task))
  BY <1>1, <1>3, <1>6, WithoutNone
<1> QED
  BY <1>1, <1>3, <1>5, <1>7, <1>8, SomeTac, CalmGoes

LEMMA FinishStrictAssigned == IInv /\ Assigned /\ FinishStrict => Assigned'
<1> SUFFICES ASSUME IInv, FinishStrict, NEW D, NEW h, Definite(D, h)
             PROVE  Assigned'
  BY DEF Assigned
<1> DEFINE tac == TacFor(task.node, Temp)
           k == Len(task.node.kids)
<1>1. /\ agenda # <<>> /\ task.do = "finish" /\ task.node.kind \in Strict
      /\ values' = Append(Without(k), Name(Temp)) /\ Proceed(<<>>)
      /\ SamePlace /\ TakeTemp /\ Emit(<<tac>>)
  BY DEF FinishStrict, Doing
<1>2. task.node.kind \in Expressions /\ task.node.kind # "RET" /\ task.node.kind \notin Statements
  BY <1>1, Kinds
<1>3. /\ ~IsMethod(task) /\ task \in Tasks /\ task.node \in Nodes /\ scope \in DOMAIN temps
      /\ Len(values) \in Nat /\ values \in Seq(Operands) /\ Len(values) >= Takes(task)
  BY <1>1, AtWork
<1>4. Takes(task) = k /\ Gives(task) = 1 /\ k \in Nat
  <2>1. k \in Nat
    BY <1>1, <1>3, Operated
  <2> QED  BY <1>1, <1>2, <2>1 DEF Takes, Gives
<1>5. Temp \in Texts
  BY TempIsText
<1>6. tac \in Tacs /\ tac.op \notin {"JMP", "CJMP", "RET"}
  BY <1>1, <1>2, <1>3, <1>4, <1>5, TacForType
<1>7. Allowed(D, tac, Avail(D, blocks, currentBlock)) /\ tac.res = Temp /\ tac.op \in Defines
  BY <1>1, <1>3, <1>4, <1>5, HeldNow, TacForAllowed
<1> HIDE DEF tac, k
<1>8. Without(k) \in Seq(Operands) /\ Len(Without(k)) = Len(values) - k
  BY <1>3, <1>4, ValuesLeft
<1>9. values' \in Seq(Operands) /\ Len(values') = (Len(values) - k) + 1 /\ Name(Temp) \in Operands
  BY <1>1, <1>5, <1>8, OperandTypes, AppendProperties
<1>10. Runs(<<>>, Len(values') - (Len(values) - Takes(task)), Gives(task))
  <2>1. Len(values') - (Len(values) - Takes(task)) = 1
    BY <1>3, <1>4, <1>9
  <2> QED  BY <1>4, <2>1, RunsNone
<1>11. <<>> \in Seq(Tasks) /\ DOMAIN <<>> = {}
  BY EmptySeq
<1>12. values' = Append(Without(Takes(task)), Name(tac.res)) /\ Name(tac.res) \in Operands
  BY <1>1, <1>4, <1>7, <1>9
<1> QED
  BY <1>1, <1>3, <1>6, <1>7, <1>10, <1>11, <1>12, CalmGoes

LEMMA FinishSizedAssigned == IInv /\ Assigned /\ FinishSized => Assigned'
<1> SUFFICES ASSUME IInv, FinishSized, NEW D, NEW h, Definite(D, h)
             PROVE  Assigned'
  BY DEF Assigned
<1> DEFINE tac == TacFor(task.node, task.name)
<1>1. /\ agenda # <<>> /\ task.do = "finish" /\ task.node.kind \in Sized
      /\ values' = Append(Without(1), Name(task.name)) /\ Proceed(<<>>)
      /\ SamePlace /\ NoTemp /\ Emit(<<tac>>)
  BY DEF FinishSized, Doing
<1>2. task.node.kind \in Expressions /\ task.node.kind # "RET" /\ task.node.kind \notin Statements
  BY <1>1, Kinds
<1>3. /\ ~IsMethod(task) /\ task \in Tasks /\ task.node \in Nodes
      /\ Len(values) \in Nat /\ values \in Seq(Operands) /\ Len(values) >= Takes(task)
  BY <1>1, AtWork
<1>4. Len(task.node.kids) = 1 /\ Takes(task) = 1 /\ Gives(task) = 1
  <2>1. task.node.kind \notin TwoOperands \cup {"ArrayAssign"}
    BY <1>1 DEF Sized, TwoOperands, BinaryOps
  <2>2. Len(task.node.kids) = 1
    BY <1>1, <1>3, <2>1, Operated
  <2> QED  BY <1>1, <1>2, <2>2 DEF Takes, Gives
<1>5. task.name \in Texts
  BY <1>3 DEF Tasks
<1>6. tac \in Tacs /\ tac.op \notin {"JMP", "CJMP", "RET"}
  BY <1>1, <1>2, <1>3, <1>4, <1>5, TacForType
<1>7. Allowed(D, tac, Avail(D, blocks, currentBlock)) /\ tac.res = task.name /\ tac.op \in Defines
  BY <1>1, <1>3, <1>4, <1>5, HeldNow, TacForAllowed
<1> HIDE DEF tac
<1>8. Without(1) \in Seq(Operands) /\ Len(Without(1)) = Len(values) - 1
  BY <1>3, <1>4, ValuesLeft
<1>9. values' \in Seq(Operands) /\ Len(values') = (Len(values) - 1) + 1 /\ Name(task.name) \in Operands
  BY <1>1, <1>5, <1>8, OperandTypes, AppendProperties
<1>10. Runs(<<>>, Len(values') - (Len(values) - Takes(task)), Gives(task))
  <2>1. Len(values') - (Len(values) - Takes(task)) = 1
    BY <1>3, <1>4, <1>9
  <2> QED  BY <1>4, <2>1, RunsNone
<1>11. <<>> \in Seq(Tasks) /\ DOMAIN <<>> = {}
  BY EmptySeq
<1>12. values' = Append(Without(Takes(task)), Name(tac.res)) /\ Name(tac.res) \in Operands
  BY <1>1, <1>4, <1>7, <1>9
<1> QED
  BY <1>1, <1>3, <1>6, <1>7, <1>10, <1>11, <1>12, CalmGoes

LEMMA FinishStatementAssigned == IInv /\ Assigned /\ FinishStatement => Assigned'
<1> SUFFICES ASSUME IInv, FinishStatement, NEW D, NEW h, Definite(D, h)
             PROVE  Assigned'
  BY DEF Assigned
<1> DEFINE tac == TacFor(task.node, <<>>)
           k == Len(task.node.kids)
<1>1. /\ agenda # <<>> /\ task.do = "finish" /\ task.node.kind \in Statements
      /\ values' = Without(k) /\ Proceed(<<>>)
      /\ SamePlace /\ NoTemp /\ Emit(<<tac>>)
  BY DEF FinishStatement, Doing
<1>2. /\ ~IsMethod(task) /\ task \in Tasks /\ task.node \in Nodes
      /\ Len(values) \in Nat /\ values \in Seq(Operands) /\ Len(values) >= Takes(task)
  BY <1>1, AtWork
<1>3. Takes(task) = k /\ Gives(task) = 0 /\ k \in Nat
  <2>1. k \in Nat
    BY <1>1, <1>2, Operated
  <2> QED  BY <1>1, <2>1 DEF Takes, Gives
<1>4. tac \in Tacs /\ tac.op \notin {"JMP", "CJMP"}
  BY <1>1, <1>2, <1>3, NoLabels, TacForType
<1>5. Allowed(D, tac, Avail(D, blocks, currentBlock))
  BY <1>1, <1>2, <1>3, NoLabels, HeldNow, TacForAllowed
<1> HIDE DEF tac, k
<1>6. values' \in Seq(Operands) /\ Len(values') = Len(values) - k
  BY <1>1, <1>2, <1>3, ValuesLeft
<1>7. Runs(<<>>, Len(values') - (Len(values) - Takes(task)), Gives(task))
  <2>1. Len(values') - (Len(values) - Takes(task)) = 0
    BY <1>2, <1>3, <1>6
  <2> QED  BY <1>3, <2>1, RunsNone
<1>8. <<>> \in Seq(Tasks) /\ DOMAIN <<>> = {}
  BY EmptySeq
<1>9. values' = Without(Takes(task))
  BY <1>1, <1>3
<1> QED
  BY <1>1, <1>2, <1>4, <1>5, <1>7, <1>8, <1>9, CalmGoes

LEMMA StatementAssigned == IInv /\ Assigned /\ Statement => Assigned'
<1> SUFFICES ASSUME IInv, Statement, NEW D, NEW h, Definite(D, h)
             PROVE  Assigned'
  BY DEF Assigned
<1> DEFINE kids == task.node.kids
           tasks == VisitAll(kids)
<1>1. /\ agenda # <<>> /\ task.do = "visit" /\ task.node.kind = "List"
      /\ values' = values /\ Proceed(tasks)
      /\ SamePlace /\ UNCHANGED blocks /\ NoTemp
  BY DEF Statement, Visiting, Doing, SameBlocks
<1>2. task.node.kind # "Method" /\ task.node.kind \notin Expressions
  BY <1>1, Kinds
<1>3. /\ ~IsMethod(task) /\ task \in Tasks /\ task.node \in Nodes
      /\ Len(values) \in Nat /\ values \in Seq(Operands)
  BY <1>1, <1>2, AtWork
<1>4. Takes(task) = 0 /\ Gives(task) = 0
  BY <1>1, <1>2 DEF Takes, Gives
<1>5. kids \in Seq(Nodes) /\ \A k \in DOMAIN kids : kids[k].kind # "Method" /\ kids[k].kind \notin Expressions
  <2>1. Inner \cup Returns \subseteq Nodes /\ Inner \subseteq Nodes
    BY DEF Nodes
  <2>2. CASE task.node \in Inner
    <3>1. kids \in Seq(Inner) /\ \A k \in DOMAIN kids : kids[k].kind \in Commands
      BY <1>1, <2>2, InnerNode DEF WellFormed
    <3>2. \A k \in DOMAIN kids : kids[k] \in Inner
      BY <3>1
    <3>3. kids \in Seq(Nodes)
      BY <2>1, <3>1, SeqMonotonic
    <3>4. \A k \in DOMAIN kids : kids[k].kind # "Method" /\ kids[k].kind \notin Expressions
      BY <3>1, <3>2, InnerNode, Kinds
    <3> QED  BY <3>3, <3>4
  <2>3. CASE task.node \notin Inner
    <3>1. task.node \in Bodies
      BY <1>1, <1>3, <2>3, NodeOf
    <3>2. /\ kids \in Seq(Inner \cup Returns)
          /\ \A k \in DOMAIN kids : IF kids[k] \in Returns THEN k = Len(kids) ELSE kids[k].kind \in Commands
      BY <3>1, BodyNode
    <3>3. kids \in Seq(Nodes)
      BY <2>1, <3>2, SeqMonotonic
    <3>4. \A k \in DOMAIN kids : kids[k] \in Inner \cup Returns
      BY <3>2
    <3>5. \A k \in DOMAIN kids : IF kids[k] \in Returns THEN kids[k].kind = "RET"
                                                       ELSE kids[k].kind \in Commands /\ kids[k] \in Inner
      BY <3>2, <3>4, ReturnNode
    <3>6. "RET" \notin Expressions
      BY Kinds
    <3>7. \A k \in DOMAIN kids : kids[k].kind # "Method" /\ kids[k].kind \notin Expressions
      BY <3>5, <3>6, InnerNode, Kinds
    <3> QED  BY <3>3, <3>7
  <2> QED  BY <2>2, <2>3
<1>6. 0 \in Nat
  OBVIOUS
<1>7. Runs(tasks, 0, 0)
  BY <1>5, <1>6, RunsVisits
<1>8. /\ tasks \in Seq(Tasks) /\ DOMAIN tasks = DOMAIN kids
      /\ \A k \in DOMAIN kids : Calm(tasks[k])
  BY <1>5, VisitsType DEF VisitAll
<1> HIDE DEF tasks, kids
<1>9. \A i \in DOMAIN tasks : Calm(tasks[i])
  BY <1>8
<1>10. Runs(tasks, Len(values') - (Len(values) - Takes(task)), Gives(task))
  <2>1. Len(values') - (Len(values) - Takes(task)) = 0
    BY <1>1, <1>3, <1>4
  <2> QED  BY <1>4, <1>7, <2>1
<1>11. values' = Without(Takes(task))
  BY <1>1, <1>3, <1>4, WithoutNone
<1> QED
  BY <1>1, <1>3, <1>8, <1>9, <1>10, <1>11, SomeTac, CalmGoes

LEMMA EvalCallAssigned == IInv /\ Assigned /\ EvalCall => Assigned'
<1> SUFFICES ASSUME IInv, EvalCall, NEW D, NEW h, Definite(D, h)
             PROVE  Assigned'
  BY DEF Assigned
<1> DEFINE node == task.node
           argument(k) == <<Visit(k), Task("param", node, <<>>, <<>>)>>
           tasks == <<Visit(Head(node.kids))>>
                      \o FlattenSeq([i \in 1 .. Len(node.kids) - 1 |-> argument(node.kids[i + 1])])
                      \o <<Task("call", node, <<>>, <<>>)>>
<1>1. /\ agenda # <<>> /\ task.do = "visit" /\ task.node.kind = "CALL"
      /\ values' = values /\ Proceed(tasks)
      /\ SamePlace /\ UNCHANGED blocks /\ NoTemp
  BY DEF EvalCall, Visiting, Doing, SameBlocks
<1>2. task.node.kind # "Method" /\ task.node.kind \in Expressions
  BY <1>1, Kinds
<1>3. /\ ~IsMethod(task) /\ task \in Tasks /\ task.node \in Nodes
      /\ Len(values) \in Nat /\ values \in Seq(Operands)
  BY <1>1, <1>2, AtWork
<1>4. task.node \in Inner /\ 0 \in Nat
  BY <1>1, <1>3, NodeOf
<1>5. tasks \in PlainTail /\ Runs(tasks, 0, 0 + 1)
  BY <1>1, <1>4, CallTasks
<1> HIDE DEF tasks
<1>6. Takes(task) = 0 /\ Gives(task) = 0 + 1
  BY <1>1, <1>2 DEF Takes, Gives
<1>7. Runs(tasks, Len(values') - (Len(values) - Takes(task)), Gives(task))
  <2>1. Len(values') - (Len(values) - Takes(task)) = 0
    BY <1>1, <1>3, <1>6
  <2> QED  BY <1>5, <1>6, <2>1
<1>8. tasks \in Seq(Tasks) /\ \A i \in DOMAIN tasks : Calm(tasks[i])
  BY <1>5 DEF PlainTail
<1>9. values' = Without(Takes(task))
  BY <1>1, <1>3, <1>6, WithoutNone
<1> QED
  BY <1>1, <1>3, <1>7, <1>8, <1>9, SomeTac, CalmGoes

LEMMA ParamAssigned == IInv /\ Assigned /\ Param => Assigned'
<1> SUFFICES ASSUME IInv, Param, NEW D, NEW h, Definite(D, h)
             PROVE  Assigned'
  BY DEF Assigned
<1> DEFINE tac == Tac3("PARAM", <<>>, None, Operand(0))
<1>1. /\ agenda # <<>> /\ task.do = "param" /\ values' = Without(1) /\ Proceed(<<>>)
      /\ SamePlace /\ NoTemp /\ Emit(<<tac>>)
  BY DEF Param, Doing
<1>2. /\ ~IsMethod(task) /\ Len(values) \in Nat /\ values \in Seq(Operands)
      /\ Len(values) >= Takes(task)
  BY <1>1, AtWork
<1>3. Takes(task) = 1 /\ Gives(task) = 0
  BY <1>1 DEF Takes, Gives
<1>4. /\ 0 \in 0 .. Len(values) - 1 /\ 1 \in 0 .. Len(values)
      /\ Operand(0) \in Operands /\ Without(1) \in Seq(Operands) /\ Len(Without(1)) = Len(values) - 1
  <2>1. 0 \in 0 .. Len(values) - 1 /\ 1 \in 0 .. Len(values)
    BY <1>2, <1>3
  <2> QED  BY <1>2, <2>1, ValuesLeft
<1>5. tac \in Tacs /\ tac.op = "PARAM" /\ tac.lhs = None /\ tac.rhs = Operand(0)
  BY <1>4, NoLabels, OperandTypes, TacTypes DEF TacOps, ReadsRhs, Tac3
<1> HIDE DEF tac
<1>6. Allowed(D, tac, Avail(D, blocks, currentBlock))
  <2>1. HeldBy(tac.lhs) = {} /\ HeldBy(tac.rhs) \subseteq Avail(D, blocks, currentBlock)
    BY <1>2, <1>4, <1>5, HeldNow, OperandHeld, NoTempText
  <2>2. tac.op \notin {"JMP", "CJMP"} /\ tac.op # "ARRAY_STORE"
    BY <1>5
  <2> QED  BY <1>5, <2>1, <2>2, QuietAllowed
<1>7. Runs(<<>>, Len(values') - (Len(values) - Takes(task)), Gives(task))
  <2>1. Len(values') - (Len(values) - Takes(task)) = 0
    BY <1>1, <1>2, <1>3, <1>4
  <2> QED  BY <1>3, <2>1, RunsNone
<1>8. <<>> \in Seq(Tasks) /\ DOMAIN <<>> = {}
  BY EmptySeq
<1>9. values' = Without(Takes(task)) /\ tac.op \notin {"JMP", "CJMP"}
  BY <1>1, <1>3, <1>5
<1> QED
  BY <1>1, <1>2, <1>5, <1>6, <1>7, <1>8, <1>9, CalmGoes

LEMMA FinishCallAssigned == IInv /\ Assigned /\ FinishCall => Assigned'
<1> SUFFICES ASSUME IInv, FinishCall, NEW D, NEW h, Definite(D, h)
             PROVE  Assigned'
  BY DEF Assigned
<1> DEFINE tac == MethodCall(Temp, Operand(0), task.node.text)
<1>1. /\ agenda # <<>> /\ task.do = "call"
      /\ values' = Append(Without(1), Name(Temp)) /\ Proceed(<<>>)
      /\ SamePlace /\ TakeTemp /\ Emit(<<tac>>)
  BY DEF FinishCall, Doing
<1>2. /\ ~IsMethod(task) /\ task \in Tasks /\ task.node \in Nodes /\ Shaped(task)
      /\ Len(values) \in Nat /\ values \in Seq(Operands) /\ Len(values) >= Takes(task)
  BY <1>1, AtWork
<1>3. Takes(task) = 1 /\ Gives(task) = 1
  BY <1>1 DEF Takes, Gives
<1>4. /\ 0 \in 0 .. Len(values) - 1 /\ 1 \in 0 .. Len(values)
      /\ Operand(0) \in Operands /\ Without(1) \in Seq(Operands) /\ Len(Without(1)) = Len(values) - 1
  <2>1. 0 \in 0 .. Len(values) - 1 /\ 1 \in 0 .. Len(values)
    BY <1>2, <1>3
  <2> QED  BY <1>2, <2>1, ValuesLeft
<1>5. task.node \in Inner
  <2>1. task.node.kind = "CALL"
    BY <1>1, <1>2 DEF Shaped
  <2> QED  BY <1>2, <2>1, NodeOf
<1>6. Temp \in Texts /\ task.node.text \in Texts
  BY <1>2, NodeOf, TempIsText
<1>7. /\ tac \in Tacs /\ tac.op = "CALL" /\ tac.res = Temp
      /\ tac.lhs = Operand(0) /\ tac.rhs = Name(task.node.text)
  BY <1>4, <1>6, OperandTypes, TacTypes DEF MethodCall, TacOps, ReadsLhs, Tac3
<1> HIDE DEF tac
<1>8. Allowed(D, tac, Avail(D, blocks, currentBlock))
  <2>1. HeldBy(tac.lhs) \subseteq Avail(D, blocks, currentBlock)
    BY <1>2, <1>4, <1>7, HeldNow, OperandHeld
  <2>2. HeldBy(tac.rhs) = {}
    BY <1>5, <1>7, NoTempText DEF HeldBy, Name
  <2>3. tac.op \notin {"JMP", "CJMP"} /\ tac.op # "ARRAY_STORE"
    BY <1>7
  <2> QED  BY <1>7, <2>1, <2>2, <2>3, QuietAllowed
<1>9. values' \in Seq(Operands) /\ Len(values') = (Len(values) - 1) + 1 /\ Name(Temp) \in Operands
  BY <1>1, <1>4, <1>6, OperandTypes, AppendProperties
<1>10. Runs(<<>>, Len(values') - (Len(values) - Takes(task)), Gives(task))
  <2>1. Len(values') - (Len(values) - Takes(task)) = 1
    BY <1>2, <1>3, <1>9
  <2> QED  BY <1>3, <2>1, RunsNone
<1>11. <<>> \in Seq(Tasks) /\ DOMAIN <<>> = {}
  BY EmptySeq
<1>12. values' = Append(Without(Takes(task)), Name(tac.res)) /\ Name(tac.res) \in Operands
  BY <1>1, <1>3, <1>7, <1>9
<1>13. tac.op \in Defines /\ tac.op \notin {"JMP", "CJMP"}
  BY <1>7 DEF Defines
<1> QED
  BY <1>1, <1>2, <1>7, <1>8, <1>10, <1>11, <1>12, <1>13, CalmGoes

LEMMA EvalLeftAssigned == IInv /\ Assigned /\ EvalLeft => Assigned'
<1> SUFFICES ASSUME IInv, EvalLeft, NEW D, NEW h, Definite(D, h)
             PROVE  Assigned'
  BY DEF Assigned
<1> DEFINE a == Visit(task.node.kids[1])
           b == Task("branch", task.node, <<>>, <<>>)
           tasks == <<a, b>>
<1>1. /\ agenda # <<>> /\ task.do = "visit" /\ task.node.kind \in ShortCircuit
      /\ values' = values /\ Proceed(tasks)
      /\ SamePlace /\ UNCHANGED blocks /\ NoTemp
  BY DEF EvalLeft, Visiting, Doing, SameBlocks
<1>2. task.node.kind \notin {"Method", "RET", "List"} /\ task.node.kind \in Expressions
  BY <1>1, Kinds
<1>3. /\ ~IsMethod(task) /\ task \in Tasks /\ task.node \in Nodes
      /\ Len(values) \in Nat /\ values \in Seq(Operands)
  BY <1>1, <1>2, AtWork
<1>4. task.node \in Inner
  BY <1>2, <1>3, NodeOf
<1>5. task.node.kids[1] \in Inner /\ task.node.kids[1].kind \in Expressions
  <2>1. task.node.kids \in Seq(Inner) /\ Len(task.node.kids) = 2
        /\ \A k \in DOMAIN task.node.kids : task.node.kids[k].kind \in Expressions
    BY <1>1, <1>2, <1>4, InnerNode, Kinds DEF WellFormed
  <2> QED  BY <2>1
<1>6. a \in Tasks /\ Calm(a) /\ Takes(a) = 0 /\ Gives(a) = 1
  BY <1>5, InnerNode, VisitType
<1>7. b \in Tasks /\ b.do = "branch" /\ b.node = task.node /\ b.labels = <<>>
  BY <1>3, NoLabels DEF Task, Tasks, Continuations
<1> HIDE DEF a, b
<1>8. Calm(b) /\ Takes(b) = 1 /\ Gives(b) = 1
  BY <1>1, <1>7, NoLabels DEF Calm, Shaped, IsMethod, Takes, Gives
<1> HIDE DEF tasks
<1>9. /\ tasks \in Seq(Tasks) /\ DOMAIN tasks = {1, 2} /\ tasks[1] = a /\ tasks[2] = b
      /\ Runs(tasks, 0, 1)
  <2>1. /\ Takes(a) \in 0 .. 0 /\ Gives(a) \in Nat /\ 0 \in Nat
        /\ Takes(b) \in 0 .. (0 - Takes(a)) + Gives(a) /\ Gives(b) \in Nat
        /\ (((0 - Takes(a)) + Gives(a)) - Takes(b)) + Gives(b) = 1
    BY <1>6, <1>8
  <2>2. /\ tasks \in Seq(Tasks) /\ DOMAIN tasks = {1, 2} /\ tasks[1] = a /\ tasks[2] = b
        /\ Runs(tasks, 0, (((0 - Takes(a)) + Gives(a)) - Takes(b)) + Gives(b))
    BY <1>6, <1>7, <2>1, TwoTasks DEF tasks
  <2> QED  BY <2>1, <2>2
<1>10. Takes(task) = 0 /\ Gives(task) = 1
  BY <1>1, <1>2 DEF Takes, Gives
<1>11. Runs(tasks, Len(values') - (Len(values) - Takes(task)), Gives(task))
  <2>1. Len(values') - (Len(values) - Takes(task)) = 0
    BY <1>1, <1>3, <1>10
  <2> QED  BY <1>9, <1>10, <2>1
<1>12. \A i \in DOMAIN tasks : Calm(tasks[i])
  BY <1>6, <1>8, <1>9
<1>13. values' = Without(Takes(task))
  BY <1>1, <1>3, <1>10, WithoutNone
<1> QED
  BY <1>1, <1>3, <1>9, <1>11, <1>12, <1>13, SomeTac, CalmGoes

-----------------------------------------------------------------------------
(***************************************************************************)
(* Steps that end a block or make new ones.                                *)
(***************************************************************************)
LEMMA PairLifts ==
  ASSUME NEW a \in Tasks, ~Binding(a), NEW c \in Tasks, Takes(a) = 0, Gives(a) = Takes(c),
         NEW E, NEW X, Promised(E, c), Base(E, c) = X
  PROVE  /\ <<a, c>> \in Seq(Tasks) /\ Kept(E, <<a, c>>, X)
         /\ \E g : Lifts(g, <<a, c>>, 0, Gives(c))
<1> DEFINE s == <<a, c>>
           g == [i \in 1 .. 3 |-> IF i = 1 THEN 0 ELSE IF i = 2 THEN Takes(c) ELSE Gives(c)]
<1>1. s \in Seq(Tasks) /\ Len(s) = 2 /\ s[1] = a /\ s[2] = c /\ DOMAIN s = {1, 2}
  OBVIOUS
<1>2. Takes(c) \in Nat /\ Gives(c) \in Nat
  BY TakesType
<1>3. g \in [1 .. 3 -> Nat] /\ g[1] = 0 /\ g[2] = Takes(c) /\ g[3] = Gives(c)
  BY <1>2
<1> HIDE DEF s, g
<1>4. Levels(g, s, 0, Gives(c))
  <2>1. \A i \in 1 .. 2 : i = 1 \/ i = 2
    OBVIOUS
  <2>2. g[1] >= Takes(a) /\ g[2] = (g[1] - Takes(a)) + Gives(a)
    BY <1>2, <1>3
  <2>3. g[2] >= Takes(c) /\ g[3] = (g[2] - Takes(c)) + Gives(c)
    BY <1>2, <1>3
  <2>4. \A i \in 1 .. 2 : g[i] >= Takes(s[i]) /\ g[i + 1] = (g[i] - Takes(s[i])) + Gives(s[i])
    <3> TAKE i \in 1 .. 2
    <3>1. CASE i = 1
      BY <1>1, <2>2, <3>1
    <3>2. CASE i = 2
      BY <1>1, <2>3, <3>2
    <3> QED  BY <2>1, <3>1, <3>2
  <2> QED  BY <1>1, <1>3, <2>4 DEF Levels
<1>5. Lifts(g, s, 0, Gives(c))
  BY <1>1, <1>3, <1>4 DEF Lifts
<1>6. Kept(E, s, X)
  BY <1>1 DEF Kept
<1> QED  BY <1>1, <1>5, <1>6 DEF s

LEMMA ZeroLifts ==
  ASSUME NEW tasks \in Seq(Tasks), \A i \in DOMAIN tasks : Takes(tasks[i]) = 0 /\ Gives(tasks[i]) = 0
  PROVE  \E g : Lifts(g, tasks, 0, 0)
<1> DEFINE n == Len(tasks)
           g == [i \in 1 .. n + 1 |-> 0]
<1>1. n \in Nat /\ DOMAIN tasks = 1 .. n
  OBVIOUS
<1>2. g \in [1 .. n + 1 -> Nat] /\ g[1] = 0 /\ g[n + 1] = 0 /\ \A i \in 1 .. n : g[i] = 0 /\ g[i + 1] = 0
  BY <1>1
<1> HIDE DEF g
<1>3. Levels(g, tasks, 0, 0)
  BY <1>1, <1>2 DEF Levels
<1>4. Lifts(g, tasks, 0, 0)
  BY <1>1, <1>2, <1>3 DEF Lifts
<1> QED  BY <1>4

\* The tasks are those that a block's end makes, and may bind.
LEMMA BlockGoes ==
  ASSUME IInv, agenda # <<>>, NEW D, NEW h, Definite(D, h),
         NEW E, \A b \in DOMAIN blocks : E[b] = D[b],
         NEW tasks \in Seq(Tasks), Proceed(tasks), NEW fresh,
         DOMAIN blocks' = DOMAIN blocks \cup fresh, fresh \cap MadeLabels = {},
         AllAssured(E, blocks'), DOMAIN temps' = DOMAIN temps,
         values' = Without(Takes(task)), Len(values) >= Takes(task),
         \E g : Lifts(g, tasks, 0, Gives(task)), NEW X, Kept(E, tasks, X),
         Floor(D, task, Avail(D, blocks, currentBlock)) \subseteq X,
         X \subseteq Avail(E, blocks', currentBlock')
  PROVE  Assigned'
<1>1. \A n \in DOMAIN temps' \cap DOMAIN blocks' : E[n] = {}
  BY DEF MadeLabels, Definite
<1>2. Renewed(values, values', Takes(task), Avail(E, blocks', currentBlock'))
  BY DEF Renewed, Without
<1>3. Len(values') - (Len(values) - Takes(task)) = 0
  <2> DEFINE k == Takes(task)
             ws == Without(k)
  <2>1. values \in Seq(Operands) /\ Len(values) \in Nat /\ k \in Nat
    BY TakesType DEF IInv, Stack, Agenda, task
  <2>2. k \in 0 .. Len(values)
    BY <2>1
  <2> HIDE DEF k
  <2>3. Len(ws) = Len(values) - k
    BY <2>1, <2>2, ValuesLeft
  <2>4. values' = ws
    BY DEF ws, k
  <2> HIDE DEF ws
  <2>5. Len(values') - (Len(values) - k) = 0
    BY <2>1, <2>3, <2>4
  <2> QED  BY <2>5 DEF k
<1>4. PICK g : Lifts(g, tasks, 0, Gives(task))
  OBVIOUS
<1>5. Lifts(g, tasks, Len(values') - (Len(values) - Takes(task)), Gives(task))
  BY <1>3, <1>4
<1> QED  BY <1>1, <1>2, <1>5, Goes

\* A step after which nothing is left to do with its node.
LEMMA EndGoes ==
  ASSUME IInv, agenda # <<>>, NEW D, NEW h, Definite(D, h), Proceed(<<>>),
         DOMAIN blocks' = DOMAIN blocks, AllAssured(D, blocks'), DOMAIN temps' = DOMAIN temps,
         Renewed(values, values', Takes(task), Avail(D, blocks', currentBlock')),
         Len(values') - (Len(values) - Takes(task)) = Gives(task),
         Floor(D, task, Avail(D, blocks, currentBlock)) \subseteq Avail(D, blocks', currentBlock')
  PROVE  Assigned'
<1> DEFINE none == <<>>
           X == Avail(D, blocks', currentBlock')
<1>1. \A n \in DOMAIN temps' \cap DOMAIN blocks' : D[n] = {}
  BY DEF Definite
<1>2. Gives(task) \in Nat
  BY TakesType DEF IInv, Agenda, task
<1>3. none \in Seq(Tasks) /\ \A i \in DOMAIN none : Calm(none[i])
  BY EmptySeq
<1>4. Runs(none, Gives(task), Gives(task))
  BY <1>2, RunsNone
<1>5. Proceed(none)
  OBVIOUS
<1> HIDE DEF none
<1>6. (\E g : Lifts(g, none, Gives(task), Gives(task))) /\ Kept(D, none, X)
  BY <1>3, <1>4, CalmLifts
<1>7. PICK g : Lifts(g, none, Gives(task), Gives(task))
  BY <1>6
<1>8. Lifts(g, none, Len(values') - (Len(values) - Takes(task)), Gives(task))
  BY <1>7
<1>9. PICK Y : Y = X
  OBVIOUS
<1>10. /\ Kept(D, none, Y) /\ Y \subseteq Avail(D, blocks', currentBlock')
       /\ Floor(D, task, Avail(D, blocks, currentBlock)) \subseteq Y
  BY <1>6, <1>9
<1> HIDE DEF X
<1> QED  BY <1>1, <1>3, <1>5, <1>8, <1>10, Goes

LEMMA EndBranchAssigned == IInv /\ Assigned /\ EndBranch => Assigned'
<1> SUFFICES ASSUME IInv, EndBranch, NEW D, NEW h, Definite(D, h)
             PROVE  Assigned'
  BY DEF Assigned
<1> DEFINE join == task.labels[1]
           next == task.labels[2]
           now == Avail(D, blocks, currentBlock)
<1>1. /\ agenda # <<>> /\ task.do = "end"
      /\ blocks' = Closed(blocks, currentBlock, join) /\ currentBlock' = next
      /\ Proceed(<<>>) /\ values' = values /\ NoTemp
  BY DEF EndBranch, Doing
<1>2. /\ ~IsMethod(task) /\ task \in Tasks /\ Shaped(task)
      /\ Len(values) \in Nat /\ values \in Seq(Operands)
  BY <1>1, AtWork
<1>3. Takes(task) = 0 /\ Gives(task) = 0 /\ Len(task.labels) = 2
  BY <1>1, <1>2 DEF Shaped, Takes, Gives
<1>4. /\ \A k \in DOMAIN task.labels : task.labels[k] \in Texts \cap DOMAIN blocks
      /\ currentBlock \in DOMAIN blocks /\ AllSound(blocks)
  BY <1>1, <1>2, Working
<1>5. DOMAIN task.labels = 1 .. 2 /\ 1 \in 1 .. 2 /\ 2 \in 1 .. 2
  BY <1>2, <1>3 DEF Tasks
<1>6. join \in Texts \cap DOMAIN blocks /\ next \in DOMAIN blocks
  BY <1>4, <1>5
<1>7. Binding(task) /\ Base(D, task) = D[join]
  BY <1>1, <1>2 DEF Binding, Base
<1>8. D[next] = D[join] /\ Floor(D, task, now) = D[join] /\ D[join] \subseteq now
  <2>1. Promised(D, task) /\ Floor(D, task, now) = Base(D, task) /\ Floor(D, task, now) \subseteq now
    BY <1>1, <1>7, FloorIsWritten
  <2> QED  BY <1>1, <1>5, <1>7, <2>1 DEF Promised
<1>9. AllAssured(D, blocks)
  BY DEF Definite
<1> HIDE DEF join, next
<1>10. Grows(D, blocks, blocks')
  <2> DEFINE new == Closed(blocks, currentBlock, join)
  <2>1. Grows(D, blocks, new)
    BY <1>4, <1>6, <1>8, <1>9, ClosedGrows
  <2> HIDE DEF new
  <2>2. blocks' = new
    BY <1>1 DEF new, join
  <2> QED  BY <2>1, <2>2
<1>11. D[join] \subseteq Avail(D, blocks', currentBlock')
  BY <1>1, <1>6, <1>8, <1>10 DEF Grows, Avail, next
<1>12. Renewed(values, values', Takes(task), Avail(D, blocks', currentBlock'))
  BY <1>1, <1>2, <1>3, WithoutNone DEF Renewed, Without
<1>13. Len(values') - (Len(values) - Takes(task)) = Gives(task)
  BY <1>1, <1>2, <1>3
<1>14. DOMAIN blocks' = DOMAIN blocks /\ AllAssured(D, blocks') /\ DOMAIN temps' = DOMAIN temps
  BY <1>1, <1>10 DEF Grows, NoTemp
<1> QED
  BY <1>1, <1>8, <1>11, <1>12, <1>13, <1>14, EndGoes

LEMMA LoopEndAssigned == IInv /\ Assigned /\ LoopEnd => Assigned'
<1> SUFFICES ASSUME IInv, LoopEnd, NEW D, NEW h, Definite(D, h)
             PROVE  Assigned'
  BY DEF Assigned
<1> DEFINE header == task.labels[1]
           body == task.labels[2]
           join == task.labels[3]
           condition == task.labels[4]
           mid == Closed(blocks, currentBlock, header)
           new == WithExits(mid, condition, body, join)
           now == Avail(D, blocks, currentBlock)
<1>1. /\ agenda # <<>> /\ task.do = "loop end" /\ blocks' = new /\ currentBlock' = join
      /\ Proceed(<<>>) /\ values' = values /\ NoTemp
  BY DEF LoopEnd, Doing
<1>2. /\ ~IsMethod(task) /\ task \in Tasks /\ Shaped(task)
      /\ Len(values) \in Nat /\ values \in Seq(Operands)
  BY <1>1, AtWork
<1>3. Takes(task) = 0 /\ Gives(task) = 0 /\ Len(task.labels) = 4
  BY <1>1, <1>2 DEF Shaped, Takes, Gives
<1>4. /\ \A k \in DOMAIN task.labels : task.labels[k] \in Texts \cap DOMAIN blocks
      /\ currentBlock \in DOMAIN blocks /\ AllSound(blocks)
  BY <1>1, <1>2, Working
<1>5. /\ header \in Texts \cap DOMAIN blocks /\ body \in Texts \cap DOMAIN blocks
      /\ join \in Texts \cap DOMAIN blocks /\ condition \in DOMAIN blocks
  <2>1. task.labels \in Seq(Texts)
    BY <1>2 DEF Tasks
  <2>2. DOMAIN task.labels = 1 .. 4
    BY <1>3, <2>1
  <2> QED  BY <1>4, <2>2
<1>6. Binding(task) /\ Base(D, task) = D[header]
  BY <1>1, <1>2 DEF Binding, Base
<1>7. D[join] = D[header] /\ Floor(D, task, now) = D[header] /\ D[header] \subseteq now
  <2>1. Promised(D, task) /\ Floor(D, task, now) = Base(D, task) /\ Floor(D, task, now) \subseteq now
    BY <1>1, <1>6, FloorIsWritten
  <2>2. 3 \in 1 .. 3
    OBVIOUS
  <2> QED  BY <1>1, <1>6, <2>1, <2>2 DEF Promised
<1>8. AllAssured(D, blocks)
  BY DEF Definite
<1> HIDE DEF header, body, join, condition
<1>9. Grows(D, blocks, mid)
  BY <1>4, <1>5, <1>7, <1>8, ClosedGrows
<1> HIDE DEF mid
<1>10. Grows(D, mid, new)
  <2>1. AllSound(mid) /\ AllAssured(D, mid) /\ DOMAIN mid = DOMAIN blocks
    BY <1>9 DEF Grows
  <2>2. condition \in DOMAIN mid /\ body \in Texts \cap DOMAIN mid /\ join \in Texts \cap DOMAIN mid
    BY <1>5, <2>1
  <2>3. DOMAIN new = DOMAIN mid /\ AllSound(new) /\ \A b \in DOMAIN mid : new[b].code = mid[b].code
    BY <2>1, <2>2, WithExitsIs
  <2> HIDE DEF new
  <2> QED  BY <2>1, <2>3, SameCode
<1> HIDE DEF new
<1>11. Grows(D, blocks, blocks')
  BY <1>1, <1>9, <1>10, GrowsOn
<1>12. D[header] \subseteq Avail(D, blocks', currentBlock')
  BY <1>1, <1>5, <1>7, <1>11 DEF Grows, Avail
<1>13. Renewed(values, values', Takes(task), Avail(D, blocks', currentBlock'))
  BY <1>1, <1>2, <1>3, WithoutNone DEF Renewed, Without
<1>14. Len(values') - (Len(values) - Takes(task)) = Gives(task)
  <2> DEFINE v == Len(values)
  <2>1. v \in Nat /\ Len(values') = v
    BY <1>1, <1>2
  <2> HIDE DEF v
  <2>2. v - (v - Takes(task)) = Gives(task)
    BY <1>3, <2>1
  <2> QED  BY <2>1, <2>2 DEF v
<1>15. DOMAIN blocks' = DOMAIN blocks /\ AllAssured(D, blocks') /\ DOMAIN temps' = DOMAIN temps
  BY <1>1, <1>11 DEF Grows, NoTemp
<1> QED
  BY <1>1, <1>7, <1>12, <1>13, <1>14, <1>15, EndGoes

LEMMA MergeAssigned == IInv /\ Assigned /\ Merge => Assigned'
<1> SUFFICES ASSUME IInv, Merge, NEW D, NEW h, Definite(D, h)
             PROVE  Assigned'
  BY DEF Assigned
<1> DEFINE rhs == task.labels[1]
           true == task.labels[2]
           false == task.labels[3]
           join == task.labels[4]
           o == Operand(0)
           built == WithExits(WithCode(blocks, currentBlock, <<CondJump(false, o), Jump(true)>>),
                              rhs, true, false)
           one == Decided(built, true, 1, join)
           two == Decided(one, false, 0, join)
           now == Avail(D, blocks, currentBlock)
<1>1. /\ agenda # <<>> /\ task.do = "merge"
      /\ blocks' = two /\ currentBlock' = join
      /\ Proceed(<<>>) /\ values' = Append(Without(1), Name(task.name)) /\ NoTemp
  BY DEF Merge, Doing
<1>2. /\ ~IsMethod(task) /\ task \in Tasks /\ Shaped(task)
      /\ Len(values) \in Nat /\ values \in Seq(Operands) /\ Len(values) >= Takes(task)
  BY <1>1, AtWork
<1>3. Takes(task) = 1 /\ Gives(task) = 1 /\ Len(task.labels) = 4
  BY <1>1, <1>2 DEF Shaped, Takes, Gives
<1>4. /\ \A k \in DOMAIN task.labels : task.labels[k] \in Texts \cap DOMAIN blocks
      /\ currentBlock \in DOMAIN blocks /\ AllSound(blocks)
  BY <1>1, <1>2, Working
<1>5. task.labels \in Seq(Texts) /\ task.name \in Texts
  BY <1>2 DEF Tasks
<1>6. /\ rhs \in Texts \cap DOMAIN blocks /\ true \in Texts \cap DOMAIN blocks
      /\ false \in Texts \cap DOMAIN blocks /\ join \in Texts \cap DOMAIN blocks
  <2>1. DOMAIN task.labels = 1 .. 4
    BY <1>3, <1>5
  <2> QED  BY <1>4, <2>1
<1>7. /\ 0 \in 0 .. Len(values) - 1 /\ o \in Operands
      /\ Without(1) \in Seq(Operands) /\ Len(Without(1)) = Len(values) - 1
  <2>1. 0 \in 0 .. Len(values) - 1 /\ 1 \in 0 .. Len(values)
    BY <1>2, <1>3
  <2> QED  BY <1>2, <2>1, ValuesLeft
<1>8. HeldBy(o) \subseteq now
  BY <1>2, <1>7, HeldNow, OperandHeld
<1>9. Binding(task) /\ Base(D, task) = D[true]
  BY <1>1, <1>2 DEF Binding, Base
<1>10. /\ D[false] = D[true] /\ D[join] = D[true] \cup {task.name}
       /\ Floor(D, task, now) = D[true] /\ D[true] \subseteq now
  <2>1. Promised(D, task) /\ Floor(D, task, now) = Base(D, task) /\ Floor(D, task, now) \subseteq now
    BY <1>1, <1>9, FloorIsWritten
  <2> QED  BY <1>1, <1>9, <2>1 DEF Promised
<1>11. AllAssured(D, blocks)
  BY DEF Definite
<1> HIDE DEF rhs, true, false, join, o, two
<1>12. Grows(D, blocks, built)
  BY <1>4, <1>6, <1>7, <1>8, <1>10, <1>11, PartedGrows
<1> HIDE DEF built
<1>13. Grows(D, built, one)
  <2>1. AllSound(built) /\ AllAssured(D, built) /\ DOMAIN built = DOMAIN blocks
    BY <1>12 DEF Grows
  <2>2. true \in DOMAIN built /\ join \in Texts \cap DOMAIN built /\ 1 \in Int
    BY <1>6, <2>1
  <2>3. D[join] \subseteq Avail(D, built, true) \cup {task.name}
    BY <1>10, <2>2 DEF Avail
  <2> QED  BY <1>5, <2>1, <2>2, <2>3, DecidedGrows
<1> HIDE DEF one
<1>14. Grows(D, one, two)
  <2> DEFINE new == Decided(one, false, 0, join)
  <2>1. AllSound(one) /\ AllAssured(D, one) /\ DOMAIN one = DOMAIN blocks
    BY <1>12, <1>13 DEF Grows
  <2>2. false \in DOMAIN one /\ join \in Texts \cap DOMAIN one /\ 0 \in Int
    BY <1>6, <2>1
  <2>3. D[join] \subseteq Avail(D, one, false) \cup {task.name}
    BY <1>10, <2>2 DEF Avail
  <2>4. Grows(D, one, new)
    BY <1>5, <2>1, <2>2, <2>3, DecidedGrows
  <2> HIDE DEF new
  <2>5. two = new
    BY DEF two, new
  <2> QED  BY <2>4, <2>5
<1>15. Grows(D, blocks, blocks')
  <2>1. Grows(D, blocks, one)
    BY <1>12, <1>13, GrowsOn
  <2> QED  BY <1>1, <1>14, <2>1, GrowsOn
<1>16. D[join] \subseteq Avail(D, blocks', currentBlock')
  BY <1>1, <1>6, <1>15 DEF Grows, Avail
<1>17. Name(task.name) \in Operands /\ HeldBy(Name(task.name)) \subseteq Avail(D, blocks', currentBlock')
  BY <1>5, <1>10, <1>16, OperandTypes DEF HeldBy, Name
<1>18. Renewed(values, values', Takes(task), Avail(D, blocks', currentBlock'))
  BY <1>1, <1>3, <1>17 DEF Renewed, Without
<1>19. Len(values') - (Len(values) - Takes(task)) = Gives(task)
  <2>1. Len(values') = (Len(values) - 1) + 1
    BY <1>1, <1>7, <1>17, AppendProperties
  <2> QED  BY <1>2, <1>3, <2>1
<1>20. DOMAIN blocks' = DOMAIN blocks /\ AllAssured(D, blocks') /\ DOMAIN temps' = DOMAIN temps
  BY <1>1, <1>15 DEF Grows, NoTemp
<1>21. Floor(D, task, now) \subseteq Avail(D, blocks', currentBlock')
  BY <1>10, <1>16
<1> QED
  BY <1>1, <1>18, <1>19, <1>20, <1>21, EndGoes

\* What is surely written where blocks have been added.
Began(D, E, bs, fresh, new) ==
  /\ DOMAIN new = DOMAIN bs \cup fresh /\ AllSound(new) /\ AllAssured(E, new)
  /\ \A b \in DOMAIN bs : Avail(E, new, b) = Avail(D, bs, b)
  /\ \A b \in fresh : E[b] \subseteq Avail(E, new, b)

SameOn(D, E, bs) == \A b \in DOMAIN bs : E[b] = D[b]

LEMMA NewBegan ==
  ASSUME NEW D, NEW E, NEW bs, AllSound(bs), AllAssured(D, bs), NEW fresh,
         fresh \cap DOMAIN bs = {}, SameOn(D, E, bs)
  PROVE  Began(D, E, bs, fresh, WithNew(bs, fresh))
<1> DEFINE new == WithNew(bs, fresh)
<1>1. \A b \in DOMAIN bs : E[b] = D[b]
  BY DEF SameOn
<1>2. /\ DOMAIN new = DOMAIN bs \cup fresh /\ AllSound(new) /\ AllAssured(E, new)
      /\ \A b \in DOMAIN bs : Avail(E, new, b) = Avail(D, bs, b)
      /\ \A b \in fresh : E[b] \subseteq Avail(E, new, b)
  BY <1>1, NewGrows
<1> HIDE DEF new
<1>3. Began(D, E, bs, fresh, new)
  BY <1>2 DEF Began
<1> QED  BY <1>3 DEF new

\* The labels of new blocks.
LEMMA FreshBegan ==
  ASSUME IInv, agenda # <<>>, ~IsMethod(task), NEW n \in Nat, NewBlocks(n), UNCHANGED source,
         NoTemp \/ TakeTemp, NEW D, NEW E, AllAssured(D, blocks), SameOn(D, E, blocks)
  PROVE  Began(D, E, blocks, ToSet(Labels(n)), WithNew(blocks, ToSet(Labels(n))))
<1>1. PICK fresh : fresh = ToSet(Labels(n))
  OBVIOUS
<1>2. ToSet(Labels(n)) \cap DOMAIN blocks = {}
  BY Fresh
<1>3. AllSound(blocks)
  BY Working
<1>4. fresh \cap DOMAIN blocks = {}
  BY <1>1, <1>2
<1>5. Began(D, E, blocks, fresh, WithNew(blocks, fresh))
  BY <1>3, <1>4, NewBegan
<1> QED  BY <1>1, <1>5

LEMMA BranchAssigned == IInv /\ Assigned /\ Branch => Assigned'
<1> SUFFICES ASSUME IInv, Branch, NEW D, NEW h, Definite(D, h)
             PROVE  Assigned'
  BY DEF Assigned
<1> DEFINE L == Labels(4)
           fresh == ToSet(L)
           rhs == Label(0)
           exits == BranchExits(task.node.kind, rhs, Label(1), Label(2))
           built == WithNew(blocks, fresh)
           x == exits[1]
           y == exits[2]
           c == Task("merge", task.node, L, Temp)
           a == Visit(task.node.kids[2])
           now == Avail(D, blocks, currentBlock)
           E == [b \in DOMAIN blocks \cup fresh |->
                   IF b \in DOMAIN blocks THEN D[b] ELSE IF b = L[4] THEN now \cup {Temp} ELSE now]
<1>1. /\ agenda # <<>> /\ task.do = "branch"
      /\ blocks' = WithExits(WithCode(built, currentBlock, <<CondJump(y, Operand(0)), Jump(x)>>),
                             currentBlock, x, y)
      /\ currentBlock' = rhs
      /\ Proceed(<<a, c>>)
      /\ TakeTemp /\ NewBlocks(4) /\ values' = Without(1)
      /\ UNCHANGED source
  BY DEF Branch, Doing
<1>2. /\ ~IsMethod(task) /\ task \in Tasks /\ task.node \in Nodes /\ Shaped(task)
      /\ Len(values) \in Nat /\ values \in Seq(Operands) /\ Len(values) >= Takes(task)
  BY <1>1, AtWork
<1>3. task.node.kind \in ShortCircuit /\ Takes(task) = 1 /\ Gives(task) = 1 /\ ~Binding(task)
  BY <1>1, <1>2 DEF Shaped, Takes, Gives, Binding
<1>4. task.node.kind \notin {"Method", "RET", "List"} /\ task.node.kind \in Expressions
  BY <1>3, Kinds
<1>5. task.node \in Inner
  BY <1>2, <1>4, NodeOf
<1>6. task.node.kids[2] \in Inner /\ task.node.kids[2].kind \in Expressions
  <2>1. task.node.kids \in Seq(Inner) /\ Len(task.node.kids) = 2
        /\ \A i \in DOMAIN task.node.kids : task.node.kids[i].kind \in Expressions
    BY <1>3, <1>4, <1>5, InnerNode, Kinds DEF WellFormed
  <2> QED  BY <2>1
<1>7. a \in Tasks /\ Takes(a) = 0 /\ Gives(a) = 1 /\ ~Binding(a)
  BY <1>6, InnerNode, VisitType, CalmIsFree
<1>8. currentBlock \in DOMAIN blocks /\ AllAssured(D, blocks)
  BY <1>1, <1>2, Working DEF Definite
<1>9. \A b \in DOMAIN blocks : E[b] = D[b]
  OBVIOUS
<1>10. \A b \in fresh : b \notin DOMAIN blocks => E[b] = IF b = L[4] THEN now \cup {Temp} ELSE now
  OBVIOUS
<1> HIDE DEF E, a
<1>11. /\ DOMAIN temps' = DOMAIN temps
       /\ DOMAIN built = DOMAIN blocks \cup fresh /\ AllSound(built) /\ AllAssured(E, built)
       /\ DOMAIN built \subseteq Texts
       /\ fresh \cap MadeLabels = {} /\ fresh \cap DOMAIN blocks = {}
       /\ \A b \in DOMAIN blocks : Avail(E, built, b) = Avail(D, blocks, b)
       /\ \A b \in fresh : E[b] \subseteq Avail(E, built, b)
       /\ L \in Seq(Texts) /\ Len(L) = 4 /\ DOMAIN L = 1 .. 4
       /\ \A i \in 1 .. 4 : L[i] \in fresh /\ L[i] = Label(i - 1)
       /\ \A i, j \in 1 .. 4 : L[i] = L[j] => i = j
  <2>1. SameOn(D, E, blocks)
    BY <1>9 DEF SameOn
  <2>3. Began(D, E, blocks, fresh, built)
    BY <1>1, <1>2, <1>8, <2>1, FreshBegan
  <2>4. /\ DOMAIN temps' = DOMAIN temps /\ DOMAIN built \subseteq Texts
        /\ fresh \cap MadeLabels = {} /\ fresh \cap DOMAIN blocks = {}
        /\ L \in Seq(Texts) /\ Len(L) = 4
        /\ \A i \in 1 .. 4 : L[i] \in fresh /\ L[i] = Label(i - 1)
        /\ \A i, j \in 1 .. 4 : L[i] = L[j] => i = j
    BY <1>1, <1>2, <1>8, Fresh
  <2> HIDE DEF L, fresh, built
  <2>5. DOMAIN L = 1 .. 4
    BY <2>4
  <2> QED  BY <2>3, <2>4, <2>5 DEF Began
<1>12. /\ L[1] = rhs /\ L[2] = Label(1) /\ L[3] = Label(2)
       /\ L[1] \in fresh /\ L[2] \in fresh /\ L[3] \in fresh /\ L[4] \in fresh
       /\ L[1] # L[4] /\ L[2] # L[4] /\ L[3] # L[4]
  <2>1. 1 \in 1 .. 4 /\ 2 \in 1 .. 4 /\ 3 \in 1 .. 4 /\ 4 \in 1 .. 4
    OBVIOUS
  <2>2. L[1] = Label(0) /\ L[2] = Label(1) /\ L[3] = Label(2)
    BY <1>11
  <2>3. L[1] \in fresh /\ L[2] \in fresh /\ L[3] \in fresh /\ L[4] \in fresh
    BY <1>11, <2>1
  <2>4. L[1] # L[4] /\ L[2] # L[4] /\ L[3] # L[4]
    BY <1>11, <2>1
  <2> HIDE DEF L, fresh
  <2> QED  BY <2>2, <2>3, <2>4
<1>13. Temp \in Texts
  BY TempIsText
<1>14. c \in Tasks /\ c.do = "merge" /\ c.node = task.node /\ c.labels = L /\ c.name = Temp
  BY <1>2, <1>11, <1>13 DEF Task, Tasks, Continuations
<1>15. {x, y} \subseteq {L[1], L[2], L[3]}
  BY <1>12 DEF BranchExits
<1> HIDE DEF L, fresh, built, x, y, c, exits, rhs
<1>16. /\ E[L[1]] = now /\ E[L[2]] = now /\ E[L[3]] = now /\ E[L[4]] = now \cup {Temp}
       /\ E[x] = now /\ E[y] = now
  <2>1. E[L[1]] = now /\ E[L[2]] = now /\ E[L[3]] = now /\ E[L[4]] = now \cup {Temp}
    BY <1>10, <1>11, <1>12
  <2> QED  BY <1>15, <2>1
<1>17. /\ 0 \in 0 .. Len(values) - 1 /\ Operand(0) \in Operands
  <2>1. 0 \in 0 .. Len(values) - 1 /\ 1 \in 0 .. Len(values)
    BY <1>2, <1>3
  <2> QED  BY <1>2, <2>1, ValuesLeft
<1>18. PICK o \in Operands : o = Operand(0) /\ HeldBy(o) \subseteq now
  BY <1>2, <1>17, HeldNow, OperandHeld
<1>19. Grows(E, built, blocks')
  <2>1. /\ x \in Texts \cap DOMAIN built /\ y \in Texts \cap DOMAIN built
        /\ currentBlock \in DOMAIN built /\ Avail(E, built, currentBlock) = now
    BY <1>8, <1>11, <1>12, <1>15
  <2> DEFINE new == WithExits(WithCode(built, currentBlock, <<CondJump(y, o), Jump(x)>>), currentBlock, x, y)
  <2>2. blocks' = new
    BY <1>1, <1>18
  <2>3. /\ E[x] \subseteq Avail(E, built, currentBlock) /\ E[y] \subseteq Avail(E, built, currentBlock)
        /\ HeldBy(o) \subseteq Avail(E, built, currentBlock)
    BY <1>16, <1>18, <2>1
  <2>4. Grows(E, built, new)
    BY <1>11, <2>1, <2>3, PartedGrows
  <2> HIDE DEF new
  <2> QED  BY <2>2, <2>4
<1>20. /\ DOMAIN blocks' = DOMAIN blocks \cup fresh /\ AllAssured(E, blocks')
       /\ now \subseteq Avail(E, blocks', currentBlock')
  <2>1. currentBlock' \in DOMAIN built /\ now \subseteq Avail(E, built, currentBlock')
    BY <1>1, <1>11, <1>12, <1>16
  <2> QED  BY <1>11, <1>19, <2>1 DEF Grows
<1>21. Takes(c) = 1 /\ Gives(c) = 1
  BY <1>14 DEF Takes, Gives
<1>22. Promised(E, c) /\ Base(E, c) = now
  <2>1. ~IsMethod(c)
    BY <1>14 DEF IsMethod
  <2>2. Base(E, c) = now
    BY <1>14, <1>16, <2>1 DEF Base
  <2>3. Promised(E, c)
    BY <1>14, <1>16 DEF Promised
  <2> QED  BY <2>2, <2>3
<1>23. Floor(D, task, now) \subseteq now
  BY <1>3 DEF Floor
<1>24. PICK X : X = now
  OBVIOUS
<1>25. /\ <<a, c>> \in Seq(Tasks) /\ Kept(E, <<a, c>>, X)
       /\ \E g : Lifts(g, <<a, c>>, 0, Gives(task))
  BY <1>3, <1>7, <1>14, <1>21, <1>22, <1>24, PairLifts
<1>26. values' = Without(Takes(task))
  BY <1>1, <1>3
<1> QED
  BY <1>1, <1>2, <1>9, <1>11, <1>20, <1>23, <1>24, <1>25, <1>26, BlockGoes

LEMMA EvalConditionAssigned == IInv /\ Assigned /\ EvalCondition => Assigned'
<1> SUFFICES ASSUME IInv, EvalCondition, NEW D, NEW h, Definite(D, h)
             PROVE  Assigned'
  BY DEF Assigned
<1> DEFINE n == Len(task.node.kids)
           L == Labels(n)
           fresh == ToSet(L)
           built == WithNew(blocks, fresh)
           c == Task("then", task.node, L, <<>>)
           a == Visit(task.node.kids[1])
           now == Avail(D, blocks, currentBlock)
           E == [b \in DOMAIN blocks \cup fresh |-> IF b \in DOMAIN blocks THEN D[b] ELSE now]
<1>1. /\ agenda # <<>> /\ task.do = "visit" /\ task.node.kind \in {"If", "IfElse"}
      /\ blocks' = built /\ NewBlocks(n)
      /\ Proceed(<<a, c>>)
      /\ values' = values /\ UNCHANGED <<source, currentBlock>> /\ NoTemp
  BY DEF EvalCondition, Visiting, Doing, SamePlace
<1>2. task.node.kind \notin {"Method", "RET", "List"} /\ task.node.kind \notin Expressions
  BY <1>1, Kinds
<1>3. /\ ~IsMethod(task) /\ task \in Tasks /\ task.node \in Nodes
      /\ Len(values) \in Nat /\ values \in Seq(Operands) /\ Len(values) >= Takes(task)
  BY <1>1, <1>2, AtWork
<1>4. task.node \in Inner
  BY <1>2, <1>3, NodeOf
<1>5. n \in {2, 3} /\ task.node.kids[1] \in Inner /\ task.node.kids[1].kind \in Expressions
  <2>1. /\ task.node.kids \in Seq(Inner) /\ n \in {2, 3}
        /\ task.node.kids[1].kind \in Expressions
    BY <1>1, <1>4, InnerNode DEF WellFormed
  <2> QED  BY <2>1
<1>6. Takes(task) = 0 /\ Gives(task) = 0 /\ ~Binding(task)
  BY <1>1, <1>2, <1>3 DEF Takes, Gives, Binding
<1>7. a \in Tasks /\ Takes(a) = 0 /\ Gives(a) = 1 /\ ~Binding(a)
  BY <1>5, InnerNode, VisitType, CalmIsFree
<1>8. currentBlock \in DOMAIN blocks /\ AllAssured(D, blocks)
  BY <1>1, <1>3, Working DEF Definite
<1>9. \A b \in DOMAIN blocks : E[b] = D[b]
  OBVIOUS
<1>10. \A b \in fresh : b \notin DOMAIN blocks => E[b] = now
  OBVIOUS
<1> HIDE DEF E, a, n
<1>11. /\ DOMAIN temps' = DOMAIN temps
       /\ DOMAIN built = DOMAIN blocks \cup fresh /\ AllAssured(E, built)
       /\ fresh \cap MadeLabels = {} /\ fresh \cap DOMAIN blocks = {}
       /\ \A b \in DOMAIN blocks : Avail(E, built, b) = Avail(D, blocks, b)
       /\ L \in Seq(Texts) /\ Len(L) = n /\ DOMAIN L = 1 .. n
       /\ \A i \in 1 .. n : L[i] \in fresh
  <2>1. SameOn(D, E, blocks)
    BY <1>9 DEF SameOn
  <2>2. n \in Nat
    BY <1>5
  <2>3. Began(D, E, blocks, fresh, built)
    BY <1>1, <1>3, <1>8, <2>1, FreshBegan, <2>2
  <2>4. /\ DOMAIN temps' = DOMAIN temps /\ DOMAIN built \subseteq Texts
        /\ fresh \cap MadeLabels = {} /\ fresh \cap DOMAIN blocks = {}
        /\ L \in Seq(Texts) /\ Len(L) = n
        /\ \A i \in 1 .. n : L[i] \in fresh /\ L[i] = Label(i - 1)
        /\ \A i, j \in 1 .. n : L[i] = L[j] => i = j
    BY <1>1, <1>3, <1>8, Fresh, <2>2
  <2> HIDE DEF L, fresh, built
  <2>5. DOMAIN L = 1 .. n
    BY <2>4
  <2> QED  BY <2>3, <2>4, <2>5 DEF Began
<1>12. c \in Tasks /\ c.do = "then" /\ c.node = task.node /\ c.labels = L
  BY <1>3, <1>11, NoLabels DEF Task, Tasks, Continuations
<1> HIDE DEF L, fresh, built, c
<1>13. \A i \in 1 .. n : E[L[i]] = now
  BY <1>10, <1>11
<1>14. 1 \in 1 .. n
  BY <1>5
<1>15. Takes(c) = 1 /\ Gives(c) = 0
  BY <1>12 DEF Takes, Gives
<1>16. Promised(E, c) /\ Base(E, c) = now
  <2>1. ~IsMethod(c)
    BY <1>12 DEF IsMethod
  <2>2. Base(E, c) = now
    BY <1>12, <1>13, <1>14, <2>1 DEF Base
  <2>3. Promised(E, c)
    BY <1>11, <1>12, <1>13, <1>14 DEF Promised
  <2> QED  BY <2>2, <2>3
<1>17. Floor(D, task, now) \subseteq now
  BY <1>6 DEF Floor
<1>18. PICK X : X = now
  OBVIOUS
<1>19. /\ <<a, c>> \in Seq(Tasks) /\ Kept(E, <<a, c>>, X)
       /\ \E g : Lifts(g, <<a, c>>, 0, Gives(task))
  BY <1>6, <1>7, <1>12, <1>15, <1>16, <1>18, PairLifts
<1>20. values' = Without(Takes(task))
  BY <1>1, <1>3, <1>6, WithoutNone
<1>21. X \subseteq Avail(E, blocks', currentBlock')
  BY <1>1, <1>8, <1>11, <1>18
<1> QED
  BY <1>1, <1>3, <1>9, <1>11, <1>17, <1>18, <1>19, <1>20, <1>21, BlockGoes

LEMMA BeginWhileAssigned == IInv /\ Assigned /\ BeginWhile => Assigned'
<1> SUFFICES ASSUME IInv, BeginWhile, NEW D, NEW h, Definite(D, h)
             PROVE  Assigned'
  BY DEF Assigned
<1> DEFINE L == Labels(3)
           fresh == ToSet(L)
           header == Label(0)
           body == Label(1)
           new == WithNew(blocks, fresh)
           built == WithTrueExit(new, body, header)
           c == Task("loop body", task.node, L, <<>>)
           a == Visit(task.node.kids[1])
           now == Avail(D, blocks, currentBlock)
           E == [b \in DOMAIN blocks \cup fresh |-> IF b \in DOMAIN blocks THEN D[b] ELSE now]
<1>1. /\ agenda # <<>> /\ task.do = "visit" /\ task.node.kind = "While"
      /\ blocks' = Closed(built, currentBlock, header) /\ currentBlock' = header
      /\ Proceed(<<a, c>>) /\ NewBlocks(3)
      /\ values' = values /\ UNCHANGED source /\ NoTemp
  BY DEF BeginWhile, Visiting, Doing
<1>2. task.node.kind # "Method"
  BY <1>1
<1>3. /\ ~IsMethod(task) /\ task \in Tasks /\ task.node \in Nodes
      /\ Len(values) \in Nat /\ values \in Seq(Operands) /\ Len(values) >= Takes(task)
  BY <1>1, <1>2, AtWork
<1>4. task.node.kind \notin Expressions /\ task.node.kids[1] \in Inner /\ task.node.kids[1].kind \in Expressions
  BY <1>1, <1>3, WhileNode
<1>5. Takes(task) = 0 /\ Gives(task) = 0 /\ ~Binding(task)
  BY <1>1, <1>3, <1>4 DEF Takes, Gives, Binding
<1>6. a \in Tasks /\ Takes(a) = 0 /\ Gives(a) = 1 /\ ~Binding(a)
  BY <1>4, InnerNode, VisitType, CalmIsFree
<1>7. currentBlock \in DOMAIN blocks /\ AllAssured(D, blocks)
  BY <1>1, <1>3, Working DEF Definite
<1>8. \A b \in DOMAIN blocks : E[b] = D[b]
  OBVIOUS
<1>9. \A b \in fresh : b \notin DOMAIN blocks => E[b] = now
  OBVIOUS
<1> HIDE DEF E, a
<1>10. /\ DOMAIN temps' = DOMAIN temps
       /\ DOMAIN new = DOMAIN blocks \cup fresh /\ AllSound(new) /\ AllAssured(E, new)
       /\ DOMAIN new \subseteq Texts
       /\ fresh \cap MadeLabels = {} /\ fresh \cap DOMAIN blocks = {}
       /\ \A b \in DOMAIN blocks : Avail(E, new, b) = Avail(D, blocks, b)
       /\ \A b \in fresh : E[b] \subseteq Avail(E, new, b)
       /\ L \in Seq(Texts) /\ Len(L) = 3 /\ DOMAIN L = 1 .. 3
       /\ \A i \in 1 .. 3 : L[i] \in fresh /\ L[i] = Label(i - 1)
  <2>1. SameOn(D, E, blocks)
    BY <1>8 DEF SameOn
  <2>3. Began(D, E, blocks, fresh, new)
    BY <1>1, <1>3, <1>7, <2>1, FreshBegan
  <2>4. /\ DOMAIN temps' = DOMAIN temps /\ DOMAIN new \subseteq Texts
        /\ fresh \cap MadeLabels = {} /\ fresh \cap DOMAIN blocks = {}
        /\ L \in Seq(Texts) /\ Len(L) = 3
        /\ \A i \in 1 .. 3 : L[i] \in fresh /\ L[i] = Label(i - 1)
        /\ \A i, j \in 1 .. 3 : L[i] = L[j] => i = j
    BY <1>1, <1>3, <1>7, Fresh
  <2> HIDE DEF L, fresh, new
  <2>5. DOMAIN L = 1 .. 3
    BY <2>4
  <2> QED  BY <2>3, <2>4, <2>5 DEF Began
<1>11. L[1] = header /\ header \in fresh /\ body \in fresh
  <2>1. L[1] = Label(0) /\ L[2] = Label(1) /\ 1 \in 1 .. 3 /\ 2 \in 1 .. 3
    BY <1>10
  <2> HIDE DEF L, fresh
  <2> QED  BY <1>10, <2>1
<1>12. c \in Tasks /\ c.do = "loop body" /\ c.node = task.node /\ c.labels = L
  BY <1>3, <1>10, NoLabels DEF Task, Tasks, Continuations
<1> HIDE DEF L, fresh, header, body, new, c
<1>13. \A i \in 1 .. 3 : E[L[i]] = now
  BY <1>9, <1>10
<1>14. E[L[1]] = now /\ E[header] = now
  <2>1. 1 \in 1 .. 3
    OBVIOUS
  <2> QED  BY <1>11, <1>13, <2>1
<1>15. Grows(E, new, built)
  <2>1. header \in Texts \cap DOMAIN new /\ body \in DOMAIN new
    BY <1>10, <1>11
  <2>2. AllSound(new)
    BY <1>10
  <2>3. DOMAIN built = DOMAIN new /\ AllSound(built) /\ \A b \in DOMAIN new : built[b].code = new[b].code
    BY <2>1, <2>2, WithTrueExitIs
  <2> HIDE DEF built
  <2> QED  BY <1>10, <2>3, SameCode
<1> HIDE DEF built
<1>16. Grows(E, built, blocks')
  <2>1. DOMAIN built = DOMAIN new /\ AllSound(built) /\ AllAssured(E, built)
    BY <1>15 DEF Grows
  <2>2. header \in Texts \cap DOMAIN built /\ currentBlock \in DOMAIN built
    BY <1>7, <1>10, <1>11, <2>1
  <2>3. E[header] \subseteq Avail(E, built, currentBlock)
    BY <1>7, <1>10, <1>14, <1>15 DEF Grows
  <2>4. Grows(E, built, Closed(built, currentBlock, header))
    BY <2>1, <2>2, <2>3, ClosedGrows
  <2> QED  BY <1>1, <2>4
<1>17. Grows(E, new, blocks')
  BY <1>15, <1>16, GrowsOn
<1>18. /\ DOMAIN blocks' = DOMAIN blocks \cup fresh /\ AllAssured(E, blocks')
       /\ now \subseteq Avail(E, blocks', currentBlock')
  <2>1. currentBlock' \in DOMAIN new /\ now \subseteq Avail(E, new, currentBlock')
    BY <1>1, <1>10, <1>11, <1>14
  <2> QED  BY <1>10, <1>17, <2>1 DEF Grows
<1>19. Takes(c) = 1 /\ Gives(c) = 0
  BY <1>12 DEF Takes, Gives
<1>20. Promised(E, c) /\ Base(E, c) = now
  <2>1. ~IsMethod(c)
    BY <1>12 DEF IsMethod
  <2>2. Base(E, c) = now
    BY <1>12, <1>14, <2>1 DEF Base
  <2>3. Promised(E, c)
    BY <1>12, <1>13, <1>14 DEF Promised
  <2> QED  BY <2>2, <2>3
<1>21. Floor(D, task, now) \subseteq now
  BY <1>5 DEF Floor
<1>22. PICK X : X = now
  OBVIOUS
<1>23. /\ <<a, c>> \in Seq(Tasks) /\ Kept(E, <<a, c>>, X)
       /\ \E g : Lifts(g, <<a, c>>, 0, Gives(task))
  BY <1>5, <1>6, <1>12, <1>19, <1>20, <1>22, PairLifts
<1>24. values' = Without(Takes(task))
  BY <1>1, <1>3, <1>5, WithoutNone
<1> QED
  BY <1>1, <1>3, <1>8, <1>10, <1>18, <1>21, <1>22, <1>23, <1>24, BlockGoes

LEMMA LoopBodyAssigned == IInv /\ Assigned /\ LoopBody => Assigned'
<1> SUFFICES ASSUME IInv, LoopBody, NEW D, NEW h, Definite(D, h)
             PROVE  Assigned'
  BY DEF Assigned
<1> DEFINE header == task.labels[1]
           body == task.labels[2]
           join == task.labels[3]
           L == Append(task.labels, currentBlock)
           c == Task("loop end", task.node, L, <<>>)
           a == Visit(task.node.kids[2])
           now == Avail(D, blocks, currentBlock)
<1>1. /\ agenda # <<>> /\ task.do = "loop body"
      /\ blocks' = WithCode(blocks, currentBlock, <<CondJump(join, Operand(0)), Jump(body)>>)
      /\ currentBlock' = body
      /\ Proceed(<<a, c>>) /\ values' = Without(1)
      /\ UNCHANGED <<source, scope, nextBlock>> /\ NoTemp
  BY DEF LoopBody, LoopJumps, ConditionBlock, Emit, Doing
<1>2. /\ ~IsMethod(task) /\ task \in Tasks /\ task.node \in Nodes /\ Shaped(task)
      /\ Len(values) \in Nat /\ values \in Seq(Operands) /\ Len(values) >= Takes(task)
  BY <1>1, AtWork
<1>3. /\ task.node.kind = "While" /\ Takes(task) = 1 /\ Gives(task) = 0 /\ Len(task.labels) = 3
  BY <1>1, <1>2 DEF Shaped, Takes, Gives
<1>4. /\ task.node.kids[2] \in Inner /\ task.node.kids[2].kind \notin Expressions
  BY <1>2, <1>3, WhileNode
<1>5. a \in Tasks /\ Takes(a) = 0 /\ Gives(a) = 0 /\ ~Binding(a)
  BY <1>4, InnerNode, VisitType, CalmIsFree
<1>6. /\ \A i \in DOMAIN task.labels : task.labels[i] \in Texts \cap DOMAIN blocks
      /\ currentBlock \in Texts \cap DOMAIN blocks /\ AllSound(blocks)
  BY <1>1, <1>2, Working
<1>7. task.labels \in Seq(Texts) /\ DOMAIN task.labels = 1 .. 3
  <2>1. task.labels \in Seq(Texts)
    BY <1>2 DEF Tasks
  <2> QED  BY <1>3, <2>1
<1>8. body \in Texts \cap DOMAIN blocks /\ join \in Texts \cap DOMAIN blocks
  BY <1>6, <1>7
<1>9. /\ L \in Seq(Texts) /\ L[1] = header /\ L[2] = body /\ L[3] = join
  <2>1. Len(task.labels) = 3 /\ task.labels \in Seq(Texts) /\ currentBlock \in Texts
    BY <1>3, <1>6, <1>7
  <2>2. /\ L \in Seq(Texts) /\ L[1] = task.labels[1] /\ L[2] = task.labels[2] /\ L[3] = task.labels[3]
    BY <2>1, FourLabels
  <2> HIDE DEF L
  <2> QED  BY <2>2
<1>10. c \in Tasks /\ c.do = "loop end" /\ c.node = task.node /\ c.labels = L
  BY <1>2, <1>9, NoLabels DEF Task, Tasks, Continuations
<1>11. Binding(task) /\ Base(D, task) = D[header]
  BY <1>1, <1>2 DEF Binding, Base
<1>12. /\ D[body] = D[header] /\ D[join] = D[header]
       /\ Floor(D, task, now) = D[header] /\ D[header] \subseteq now
  <2>1. Promised(D, task) /\ Floor(D, task, now) = Base(D, task) /\ Floor(D, task, now) \subseteq now
    BY <1>1, <1>11, FloorIsWritten
  <2>2. 2 \in 1 .. 3 /\ 3 \in 1 .. 3
    OBVIOUS
  <2> QED  BY <1>1, <1>11, <2>1, <2>2 DEF Promised
<1>13. AllAssured(D, blocks)
  BY DEF Definite
<1> HIDE DEF header, body, join, L, c, a
<1>14. /\ 0 \in 0 .. Len(values) - 1 /\ Operand(0) \in Operands
  <2>1. 0 \in 0 .. Len(values) - 1 /\ 1 \in 0 .. Len(values)
    BY <1>2, <1>3
  <2> QED  BY <1>2, <2>1, ValuesLeft
<1>15. PICK o \in Operands : o = Operand(0) /\ HeldBy(o) \subseteq now
  BY <1>2, <1>14, HeldNow, OperandHeld
<1>16. Grows(D, blocks, blocks')
  <2> DEFINE new == WithCode(blocks, currentBlock, <<CondJump(join, o), Jump(body)>>)
  <2>1. D[body] \subseteq now /\ D[join] \subseteq now
    BY <1>12
  <2>2. Grows(D, blocks, new)
    BY <1>6, <1>8, <1>13, <1>15, <2>1, JumpsGrow
  <2> HIDE DEF new
  <2>3. blocks' = new
    BY <1>1, <1>15 DEF new
  <2> QED  BY <2>2, <2>3
<1>17. /\ DOMAIN blocks' = DOMAIN blocks \cup {} /\ AllAssured(D, blocks')
       /\ D[header] \subseteq Avail(D, blocks', currentBlock')
  BY <1>1, <1>8, <1>12, <1>16 DEF Grows, Avail
<1>18. Promised(D, c) /\ Base(D, c) = D[header]
  <2>1. ~IsMethod(c)
    BY <1>10 DEF IsMethod
  <2>2. Base(D, c) = D[header]
    BY <1>9, <1>10, <2>1 DEF Base
  <2>3. \A k \in 1 .. 3 : k = 1 \/ k = 2 \/ k = 3
    OBVIOUS
  <2>4. \A k \in 1 .. 3 : D[L[k]] = D[L[1]]
    BY <1>9, <1>12, <2>3
  <2>5. Promised(D, c)
    BY <1>10, <2>4 DEF Promised
  <2> QED  BY <2>2, <2>5
<1>19. Takes(c) = 0 /\ Gives(c) = 0
  BY <1>10 DEF Takes, Gives
<1>20. PICK X : X = D[header]
  OBVIOUS
<1>21. /\ <<a, c>> \in Seq(Tasks) /\ Kept(D, <<a, c>>, X)
       /\ \E g : Lifts(g, <<a, c>>, 0, Gives(task))
  BY <1>3, <1>5, <1>10, <1>18, <1>19, <1>20, PairLifts
<1>22. values' = Without(Takes(task))
  BY <1>1, <1>3
<1>23. DOMAIN temps' = DOMAIN temps
  BY <1>1 DEF NoTemp
<1>24. /\ Floor(D, task, now) \subseteq X /\ X \subseteq Avail(D, blocks', currentBlock')
  BY <1>12, <1>17, <1>20
<1>25. {} \cap MadeLabels = {}
  OBVIOUS
<1> QED
  BY <1>1, <1>2, <1>17, <1>21, <1>22, <1>23, <1>24, <1>25, BlockGoes

LEMMA ThenAssigned == IInv /\ Assigned /\ Then => Assigned'
<1> SUFFICES ASSUME IInv, Then, NEW D, NEW h, Definite(D, h)
             PROVE  Assigned'
  BY DEF Assigned
<1> DEFINE node == task.node
           then == task.labels[1]
           otherwise == task.labels[2]
           join == Last(task.labels)
           b1 == Visit(node.kids[2])
           e1 == Task("end", node, <<join, otherwise>>, <<>>)
           b2 == Visit(node.kids[3])
           e2 == Task("end", node, <<join, join>>, <<>>)
           n == Len(node.kids)
           now == Avail(D, blocks, currentBlock)
           tasks == <<b1, e1>> \o (IF node.kind = "If" THEN <<>> ELSE <<b2, e2>>)
<1>1. /\ agenda # <<>> /\ task.do = "then"
      /\ blocks' = WithExits(WithCode(blocks, currentBlock, <<CondJump(otherwise, Operand(0)), Jump(then)>>),
                             currentBlock, then, otherwise)
      /\ currentBlock' = then
      /\ Proceed(tasks)
      /\ values' = Without(1)
      /\ UNCHANGED <<source, scope, nextBlock>> /\ NoTemp
  BY DEF Then, Doing
<1>2. /\ ~IsMethod(task) /\ task \in Tasks /\ node \in Nodes /\ Shaped(task)
      /\ Len(values) \in Nat /\ values \in Seq(Operands) /\ Len(values) >= Takes(task)
  BY <1>1, AtWork
<1>3. /\ node.kind \in {"If", "IfElse"} /\ Takes(task) = 1 /\ Gives(task) = 0
      /\ Len(task.labels) = n
  BY <1>1, <1>2 DEF Shaped, Takes, Gives
<1>4. node.kind \notin {"Method", "RET", "List"}
  BY <1>3
<1>5. node \in Inner
  BY <1>2, <1>4, NodeOf
<1>6. /\ node.kind = "If" => n = 2
      /\ node.kind = "IfElse" => n = 3
      /\ \A i \in 2 .. n : node.kids[i] \in Inner /\ node.kids[i].kind \in Commands
  <2>1. /\ node.kids \in Seq(Inner)
        /\ node.kind = "If" => n = 2
        /\ node.kind = "IfElse" => n = 3
        /\ \A i \in DOMAIN node.kids : i # 1 => node.kids[i].kind \in Commands
    BY <1>3, <1>5, InnerNode DEF WellFormed
  <2> QED  BY <2>1
<1>7. /\ \A i \in DOMAIN task.labels : task.labels[i] \in Texts \cap DOMAIN blocks
      /\ currentBlock \in DOMAIN blocks /\ AllSound(blocks)
  BY <1>1, <1>2, Working
<1>8. task.labels \in Seq(Texts) /\ DOMAIN task.labels = 1 .. n /\ n \in {2, 3}
  <2>1. task.labels \in Seq(Texts)
    BY <1>2 DEF Tasks
  <2> QED  BY <1>3, <1>6, <2>1
<1>9. join = task.labels[n]
  BY <1>3 DEF Last
<1> HIDE DEF n
<1>10. 1 \in 1 .. n /\ 2 \in 1 .. n /\ n \in 1 .. n
  BY <1>8
<1>11. /\ then \in Texts \cap DOMAIN blocks /\ otherwise \in Texts \cap DOMAIN blocks
       /\ join \in Texts \cap DOMAIN blocks
  BY <1>7, <1>8, <1>9, <1>10
<1>12. Binding(task) /\ Base(D, task) = D[then]
  BY <1>1, <1>2 DEF Binding, Base
<1>13. /\ D[otherwise] = D[then] /\ D[join] = D[then]
       /\ Floor(D, task, now) = D[then] /\ D[then] \subseteq now
  <2>1. Promised(D, task) /\ Floor(D, task, now) = Base(D, task) /\ Floor(D, task, now) \subseteq now
    BY <1>1, <1>12, FloorIsWritten
  <2>2. \A k \in 1 .. n : D[task.labels[k]] = D[then]
    BY <1>1, <1>8, <2>1 DEF Promised
  <2> QED  BY <1>9, <1>10, <1>12, <2>1, <2>2
<1>14. AllAssured(D, blocks)
  BY DEF Definite
<1> HIDE DEF then, otherwise, join, tasks
<1>15. /\ 0 \in 0 .. Len(values) - 1 /\ Operand(0) \in Operands
  <2>1. 0 \in 0 .. Len(values) - 1 /\ 1 \in 0 .. Len(values)
    BY <1>2, <1>3
  <2> QED  BY <1>2, <2>1, ValuesLeft
<1>16. PICK o \in Operands : o = Operand(0) /\ HeldBy(o) \subseteq now
  BY <1>2, <1>15, HeldNow, OperandHeld
<1>17. Grows(D, blocks, blocks')
  <2> DEFINE new == WithExits(WithCode(blocks, currentBlock, <<CondJump(otherwise, o), Jump(then)>>),
                              currentBlock, then, otherwise)
  <2>1. D[then] \subseteq now /\ D[otherwise] \subseteq now
    BY <1>13
  <2>2. Grows(D, blocks, new)
    BY <1>7, <1>11, <1>14, <1>16, <2>1, PartedGrows
  <2> HIDE DEF new
  <2>3. blocks' = new
    BY <1>1, <1>16 DEF new
  <2> QED  BY <2>2, <2>3
<1>18. /\ DOMAIN blocks' = DOMAIN blocks \cup {} /\ AllAssured(D, blocks')
       /\ D[then] \subseteq Avail(D, blocks', currentBlock')
  BY <1>1, <1>11, <1>13, <1>17 DEF Grows, Avail
<1>19. PICK X : X = D[then]
  OBVIOUS
<1>20. /\ e1 \in Tasks /\ Takes(e1) = 0 /\ Gives(e1) = 0 /\ Promised(D, e1) /\ Base(D, e1) = X
  <2> HIDE DEF e1
  <2>1. /\ e1 \in Tasks /\ e1.do = "end" /\ Takes(e1) = 0 /\ Gives(e1) = 0
        /\ DOMAIN e1.labels = {1, 2} /\ e1.labels[1] = join /\ e1.labels[2] = otherwise
    BY <1>3, <1>5, <1>11, EndType DEF e1
  <2>2. ~IsMethod(e1)
    BY <2>1 DEF IsMethod
  <2>3. Base(D, e1) = D[join]
    BY <2>1, <2>2 DEF Base
  <2>4. Promised(D, e1)
    BY <1>13, <2>1 DEF Promised
  <2> QED  BY <1>13, <1>19, <2>1, <2>3, <2>4
<1>21. /\ e2 \in Tasks /\ Takes(e2) = 0 /\ Gives(e2) = 0 /\ Promised(D, e2) /\ Base(D, e2) = X
  <2> HIDE DEF e2
  <2>1. /\ e2 \in Tasks /\ e2.do = "end" /\ Takes(e2) = 0 /\ Gives(e2) = 0
        /\ DOMAIN e2.labels = {1, 2} /\ e2.labels[1] = join /\ e2.labels[2] = join
    BY <1>3, <1>5, <1>11, EndType DEF e2
  <2>2. ~IsMethod(e2)
    BY <2>1 DEF IsMethod
  <2>3. Base(D, e2) = D[join]
    BY <2>1, <2>2 DEF Base
  <2>4. Promised(D, e2)
    BY <2>1 DEF Promised
  <2> QED  BY <1>13, <1>19, <2>1, <2>3, <2>4
<1>22. b1 \in Tasks /\ ~Binding(b1) /\ Takes(b1) = 0 /\ Gives(b1) = 0
  <2>1. 2 \in 2 .. n
    BY <1>8
  <2>2. node.kids[2] \in Inner /\ node.kids[2].kind \notin Expressions
    BY <1>6, <2>1, Kinds
  <2> QED  BY <2>2, InnerNode, VisitType, CalmIsFree
<1>23. node.kind # "If" => b2 \in Tasks /\ ~Binding(b2) /\ Takes(b2) = 0 /\ Gives(b2) = 0
  <2> SUFFICES ASSUME node.kind # "If"
               PROVE  b2 \in Tasks /\ ~Binding(b2) /\ Takes(b2) = 0 /\ Gives(b2) = 0
    OBVIOUS
  <2>1. 3 \in 2 .. n
    BY <1>3, <1>6
  <2>2. node.kids[3] \in Inner /\ node.kids[3].kind \notin Expressions
    BY <1>6, <2>1, Kinds
  <2> QED  BY <2>2, InnerNode, VisitType, CalmIsFree
<1> HIDE DEF b1, b2, e1, e2
<1>24. /\ tasks \in Seq(Tasks)
       /\ \A i \in DOMAIN tasks : /\ Takes(tasks[i]) = 0 /\ Gives(tasks[i]) = 0
                                  /\ Binding(tasks[i]) => Promised(D, tasks[i]) /\ Base(D, tasks[i]) = X
  <2>1. CASE node.kind = "If"
    <3>1. tasks = <<b1, e1>> \o <<>>
      BY <2>1 DEF tasks
    <3>2. tasks \in Seq(Tasks) /\ \A i \in DOMAIN tasks : tasks[i] \in {b1, e1}
      BY <1>20, <1>22, <3>1, TwoTasksOnly
    <3> QED  BY <1>20, <1>22, <3>2
  <2>2. CASE node.kind # "If"
    <3>1. tasks = <<b1, e1>> \o <<b2, e2>>
      BY <2>2 DEF tasks
    <3>2. tasks \in Seq(Tasks) /\ \A i \in DOMAIN tasks : tasks[i] \in {b1, e1, b2, e2}
      BY <1>20, <1>21, <1>22, <1>23, <2>2, <3>1, FourTasks
    <3> QED  BY <1>20, <1>21, <1>22, <1>23, <2>2, <3>2
  <2> QED  BY <2>1, <2>2
<1>25. Kept(D, tasks, X) /\ \E g : Lifts(g, tasks, 0, Gives(task))
  BY <1>3, <1>24, ZeroLifts DEF Kept
<1>26. values' = Without(Takes(task))
  BY <1>1, <1>3
<1>27. DOMAIN temps' = DOMAIN temps
  BY <1>1 DEF NoTemp
<1>28. /\ Floor(D, task, now) \subseteq X /\ X \subseteq Avail(D, blocks', currentBlock')
  BY <1>13, <1>18, <1>19
<1>29. {} \cap MadeLabels = {}
  OBVIOUS
<1> QED
  BY <1>1, <1>2, <1>18, <1>24, <1>25, <1>26, <1>27, <1>28, <1>29, BlockGoes

LEMMA BeginMethodAssigned == IInv /\ Assigned /\ BeginMethod => Assigned'
<1> SUFFICES ASSUME IInv, BeginMethod, NEW D, NEW h, Definite(D, h)
             PROVE  Assigned'
  BY DEF Assigned
<1> DEFINE name == task.node.text
           tasks == VisitAll(task.node.kids)
           E == [b \in DOMAIN blocks \cup {name} |-> IF b \in DOMAIN blocks THEN D[b] ELSE {}]
           now == Avail(D, blocks, currentBlock)
<1>1. /\ agenda # <<>> /\ task.do = "visit" /\ task.node.kind = "Method"
      /\ blocks' = WithNew(blocks, {name}) /\ currentBlock' = name
      /\ Proceed(tasks)
      /\ UNCHANGED <<source, values, nextBlock>> /\ NoTemp
  BY DEF BeginMethod, Visiting, Doing
<1>2. /\ agenda \in Seq(Tasks)
      /\ \A i \in DOMAIN agenda : Ready(agenda[i], blocks, currentBlock, DOMAIN temps)
  BY DEF IInv, Agenda
<1>3. /\ task \in Tasks /\ IsMethod(task)
      /\ Ready(task, blocks, currentBlock, DOMAIN temps)
  BY <1>1, <1>2 DEF task, IsMethod
<1>4. name \in DOMAIN temps \ DOMAIN blocks
  BY <1>3 DEF Ready
<1>5. PICK m \in Methods : task.node = MethodNode(m)
  BY <1>1, <1>3, NodeOf DEF Tasks
<1>6. task.node.kids = <<m.body>> /\ m.body.kind = "List" /\ m.body \in Nodes
  BY <1>5, MethodsNode, BodyNode DEF Nodes
<1>7. /\ tasks \in Seq(Tasks)
      /\ \A i \in DOMAIN tasks : Calm(tasks[i])
      /\ Runs(tasks, 0, 0)
  <2> DEFINE kids == <<m.body>>
  <2>1. kids \in Seq(Nodes) /\ Len(kids) = 1 /\ DOMAIN kids = {1} /\ kids[1] = m.body
    BY <1>6
  <2>2. "List" \notin Expressions
    BY Kinds
  <2>3. \A k \in DOMAIN kids : kids[k].kind # "Method" /\ kids[k].kind \notin Expressions
    BY <1>6, <2>1, <2>2
  <2>5. DOMAIN VisitAll(kids) = DOMAIN kids
    BY DEF VisitAll
  <2>6. tasks = VisitAll(kids)
    BY <1>6
  <2> HIDE DEF kids, tasks
  <2> QED
    BY <2>1, <2>3, <2>5, <2>6, VisitsType, RunsVisits
<1>8. Takes(task) = 0 /\ Gives(task) = 0
  <2>1. "Method" \notin Expressions
    BY Kinds
  <2> QED  BY <1>1, <2>1 DEF Takes, Gives
<1>9. Len(values) \in Nat /\ values \in Seq(Operands)
  BY DEF IInv, Stack
<1>10. Floor(D, task, now) = {}
  BY <1>3 DEF Floor, Base, Binding
<1>11. AllSound(blocks) /\ AllAssured(D, blocks)
  BY LinkedIs DEF IInv, Definite
<1>12. \A b \in DOMAIN blocks : E[b] = D[b]
  OBVIOUS
<1>13. E[name] = {}
  BY <1>4
<1> HIDE DEF E, name, tasks
<1>14. DOMAIN blocks' = DOMAIN blocks \cup {name} /\ AllAssured(E, blocks')
  <2> DEFINE new == WithNew(blocks, {name})
  <2>1. SameOn(D, E, blocks)
    BY <1>12 DEF SameOn
  <2>2. {name} \cap DOMAIN blocks = {}
    BY <1>4
  <2>3. Began(D, E, blocks, {name}, new)
    BY <1>11, <2>1, <2>2, NewBegan
  <2>4. blocks' = new
    BY <1>1
  <2> HIDE DEF new
  <2> QED  BY <2>3, <2>4 DEF Began
<1>15. DOMAIN temps' = DOMAIN temps
  BY <1>1 DEF NoTemp
<1>16. \A n \in DOMAIN temps' \cap DOMAIN blocks' : E[n] = {}
  BY <1>12, <1>13, <1>14, <1>15 DEF Definite
<1>17. Renewed(values, values', Takes(task), Avail(E, blocks', currentBlock'))
  BY <1>1, <1>8, <1>9, WithoutNone DEF Renewed, Without
<1>18. Len(values') - (Len(values) - Takes(task)) = 0
  BY <1>1, <1>8, <1>9
<1>19. (\E g : Lifts(g, tasks, 0, 0)) /\ Kept(E, tasks, {})
  BY <1>7, CalmLifts
<1>20. PICK g : Lifts(g, tasks, Len(values') - (Len(values) - Takes(task)), Gives(task))
  BY <1>8, <1>18, <1>19
<1>21. PICK X : X = {}
  OBVIOUS
<1>22. /\ Kept(E, tasks, X) /\ Floor(D, task, now) \subseteq X
       /\ X \subseteq Avail(E, blocks', currentBlock')
  BY <1>10, <1>19, <1>21
<1> QED
  BY <1>1, <1>7, <1>12, <1>14, <1>16, <1>17, <1>20, <1>22, Goes

-----------------------------------------------------------------------------
(***************************************************************************)
(* Every step keeps what is surely written.                                *)
(***************************************************************************)
LEMMA InitAssigned == Init => Assigned
<1> SUFFICES ASSUME Init
             PROVE  Assigned
  OBVIOUS
<1> DEFINE D == [b \in {} |-> {}]
           a == Len(agenda)
           h == [i \in 1 .. a + 1 |-> 0]
           now == Avail(D, blocks, currentBlock)
<1>1. /\ source \in Sources /\ agenda = [i \in DOMAIN source |-> Visit(MethodNode(source[i]))]
      /\ values = <<>> /\ blocks = NothingBuilt
  BY DEF Init
<1>2. agenda \in Seq(Tasks) /\ DOMAIN agenda = 1 .. a /\ a \in Nat
  <2>1. agenda \in Seq(Tasks)
    BY InitInv DEF IInv, Agenda
  <2> QED  BY <2>1
<1>3. \A i \in DOMAIN agenda : /\ agenda[i].do = "visit" /\ IsMethod(agenda[i])
                               /\ Takes(agenda[i]) = 0 /\ Gives(agenda[i]) = 0
  <2> SUFFICES ASSUME NEW i \in DOMAIN source
               PROVE  /\ agenda[i].do = "visit" /\ IsMethod(agenda[i])
                      /\ Takes(agenda[i]) = 0 /\ Gives(agenda[i]) = 0
    BY <1>1
  <2>1. source \in Seq(Methods)
    BY <1>1, SourceAssumption
  <2>2. source[i] \in Methods
    BY <2>1
  <2>3. MethodNode(source[i]).kind = "Method"
    BY <2>2, MethodsNode
  <2>4. agenda[i].do = "visit" /\ agenda[i].node = MethodNode(source[i])
    BY <1>1 DEF Visit, Task
  <2>5. "Method" \notin Expressions
    BY Kinds
  <2> QED  BY <2>3, <2>4, <2>5 DEF IsMethod, Takes, Gives
<1>4. DOMAIN blocks = {}
  BY <1>1 DEF NothingBuilt
<1>5. h \in [1 .. a + 1 -> Nat] /\ h[1] = 0 /\ h[a + 1] = 0 /\ \A i \in 1 .. a : h[i] = 0 /\ h[i + 1] = 0
  BY <1>2
<1>6. Len(values) = 0 /\ DOMAIN values = {}
  BY <1>1
<1> HIDE DEF h
<1>7. Levels(h, agenda, Len(values), h[Len(agenda) + 1])
  BY <1>2, <1>3, <1>5, <1>6 DEF Levels
<1> HIDE DEF a
<1>8. \A n : Held(values, n) = {}
  BY <1>6 DEF Held
<1>9. \A i \in DOMAIN agenda : Promised(D, agenda[i]) /\ Base(D, agenda[i]) = {}
  BY <1>3 DEF Promised, Base
<1>10. \A i \in DOMAIN agenda : Bottom(h, agenda, i) = 0
  BY <1>2, <1>3, <1>5 DEF Bottom
<1>11. \A i \in DOMAIN agenda : Bound(D, h, agenda, values, now, i)
  BY <1>8, <1>9 DEF Bound
<1>12. \A i, j \in DOMAIN agenda : Above(D, h, agenda, j, i)
  BY <1>9, <1>10 DEF Above
<1>13. Guards(D, h, agenda, values, now)
  BY <1>7, <1>8, <1>11, <1>12 DEF Guards
<1>14. Definite(D, h)
  BY <1>4, <1>13 DEF Definite, AllAssured
<1> QED  BY <1>14 DEF Assigned

LEMMA StepAssigned == IInv /\ Assigned /\ [Next]_irVars => Assigned'
<1> SUFFICES ASSUME IInv, Assigned, [Next]_irVars
             PROVE  Assigned'
  OBVIOUS
<1>1. CASE BeginMethod
  BY <1>1, BeginMethodAssigned
<1>2. CASE Leaf \/ New \/ EvalOperands \/ EvalSize
  BY <1>2, LeafAssigned, NewAssigned, EvalOperandsAssigned, EvalSizeAssigned
<1>3. CASE FinishStrict \/ FinishSized \/ FinishStatement \/ Statement
  BY <1>3, FinishStrictAssigned, FinishSizedAssigned, FinishStatementAssigned, StatementAssigned
<1>4. CASE EvalCall \/ Param \/ FinishCall
  BY <1>4, EvalCallAssigned, ParamAssigned, FinishCallAssigned
<1>5. CASE EvalLeft \/ Branch \/ Merge
  BY <1>5, EvalLeftAssigned, BranchAssigned, MergeAssigned
<1>6. CASE EvalCondition \/ Then \/ EndBranch
  BY <1>6, EvalConditionAssigned, ThenAssigned, EndBranchAssigned
<1>7. CASE BeginWhile \/ LoopBody \/ LoopEnd
  BY <1>7, BeginWhileAssigned, LoopBodyAssigned, LoopEndAssigned
<1>8. CASE UNCHANGED irVars
  <2>1. PICK D, h : Definite(D, h)
    BY DEF Assigned
  <2>2. Definite(D, h)'
    BY <1>8, <2>1 DEF irVars, Definite
  <2> QED  BY <2>2 DEF Assigned
<1> QED
  BY <1>1, <1>2, <1>3, <1>4, <1>5, <1>6, <1>7, <1>8 DEF Next, Generate

-----------------------------------------------------------------------------
(***************************************************************************)
(* The blocks that can be reached without writing x.                       *)
(***************************************************************************)
WaysOn(block, x) == IF x \in Written(block.code) THEN {} ELSE Targets(block)

IsWays(f, bs, root, d, x) ==
  f = [e \in 0 .. d |-> IF e = 0 THEN {root} ELSE UNION {{b} \cup WaysOn(bs[b], x) : b \in f[e - 1]}]

LEMMA WaysExist ==
  ASSUME NEW bs, NEW root, NEW x
  PROVE  \A d \in Nat : \E f : IsWays(f, bs, root, d, x)
<1> DEFINE S == {d \in Nat : \E f : IsWays(f, bs, root, d, x)}
<1>1. 0 \in S
  <2>1. IsWays([e \in 0 .. 0 |-> {root}], bs, root, 0, x)
    BY DEF IsWays
  <2> QED  BY <2>1
<1>2. ASSUME NEW d \in Nat, d \in S
      PROVE  d + 1 \in S
  <2>1. PICK f : IsWays(f, bs, root, d, x)
    BY <1>2
  <2> DEFINE g == [e \in 0 .. d + 1 |->
                     IF e = 0 THEN {root} ELSE UNION {{b} \cup WaysOn(bs[b], x) : b \in f[e - 1]}]
  <2>2. ASSUME NEW e \in 0 .. d
        PROVE  g[e] = f[e]
    <3>1. e \in 0 .. d + 1
      OBVIOUS
    <3>2. f[e] = IF e = 0 THEN {root} ELSE UNION {{b} \cup WaysOn(bs[b], x) : b \in f[e - 1]}
      BY <2>1, Zenon DEF IsWays
    <3> QED  BY <3>1, <3>2, Zenon
  <2>3. g = [e \in 0 .. d + 1 |->
               IF e = 0 THEN {root} ELSE UNION {{b} \cup WaysOn(bs[b], x) : b \in f[e - 1]}]
    OBVIOUS
  <2> HIDE DEF g
  <2>4. ASSUME NEW e \in 0 .. d + 1, e # 0
        PROVE  g[e - 1] = f[e - 1]
    <3>1. e - 1 \in 0 .. d
      BY <2>4
    <3> QED  BY <2>2, <3>1
  <2>5. IsWays(g, bs, root, d + 1, x)
    BY <2>3, <2>4 DEF IsWays
  <2> QED  BY <2>5
<1> HIDE DEF S
<1>3. Nat \subseteq S
  BY <1>1, <1>2, Induction
<1> QED  BY <1>3 DEF S

LEMMA UnwrittenWithin ==
  ASSUME NEW graph, NEW method, NEW x, IsFiniteSet(DOMAIN graph.blocks), NEW S, method.name \in S,
         \A b \in S : WaysOn(graph.blocks[b], x) \subseteq S
  PROVE  ReachedUnwritten(graph, method, x) \subseteq S
<1> DEFINE bs == graph.blocks
           root == method.name
           c == Cardinality(DOMAIN bs)
           f == CHOOSE f : IsWays(f, bs, root, c, x)
<1>1. c \in Nat
  BY FS_CardinalityType
<1>2. ReachedUnwritten(graph, method, x) = f[c]
  BY DEF ReachedUnwritten, Reachable, IsWays, WaysOn
<1>3. IsWays(f, bs, root, c, x)
  <2> HIDE DEF c, bs, root
  <2> QED  BY <1>1, WaysExist
<1> HIDE DEF f, c
<1>4. /\ f[0] = {root}
      /\ \A d \in 0 .. c : d # 0 => f[d] = UNION {{b} \cup WaysOn(bs[b], x) : b \in f[d - 1]}
  <2>1. 0 \in 0 .. c
    BY <1>1
  <2>2. \A d \in 0 .. c :
          f[d] = IF d = 0 THEN {root} ELSE UNION {{b} \cup WaysOn(bs[b], x) : b \in f[d - 1]}
    BY <1>3, Zenon DEF IsWays
  <2> QED  BY <2>1, <2>2, Zenon
<1> DEFINE K == {d \in Nat : d <= c => f[d] \subseteq S}
<1>5. 0 \in K
  BY <1>4
<1>6. ASSUME NEW d \in Nat, d \in K
      PROVE  d + 1 \in K
  <2> SUFFICES ASSUME d + 1 <= c
               PROVE  f[d + 1] \subseteq S
    OBVIOUS
  <2>1. d + 1 \in 0 .. c /\ (d + 1) - 1 = d /\ d + 1 # 0 /\ d <= c
    BY <1>1
  <2>2. f[d] \subseteq S
    BY <1>6, <2>1
  <2>3. f[d + 1] = UNION {{b} \cup WaysOn(bs[b], x) : b \in f[d]}
    BY <1>4, <2>1
  <2> QED  BY <2>2, <2>3
<1> HIDE DEF K
<1>7. Nat \subseteq K
  BY <1>5, <1>6, Induction
<1>8. f[c] \subseteq S
  BY <1>1, <1>7 DEF K
<1> QED  BY <1>2, <1>8

\* What is surely written before an instruction is written by one before it.
LEMMA PriorIsWritten ==
  ASSUME NEW code \in Seq(Tacs), NEW i \in DOMAIN code
  PROVE  Prior(code, i) \subseteq Written(SubSeq(code, 1, i - 1))
<1> DEFINE s == SubSeq(code, 1, i - 1)
<1>1. i \in 1 .. Len(code) /\ Len(code) \in Nat
  OBVIOUS
<1>2. DOMAIN s = 1 .. i - 1 /\ \A k \in 1 .. i - 1 : s[k] = code[k]
  <2>1. i - 1 \in 0 .. Len(code)
    BY <1>1
  <2>2. s \in Seq(Tacs) /\ Len(s) = i - 1 /\ \A k \in 1 .. i - 1 : s[k] = code[k]
    BY <1>1
  <2> HIDE DEF s
  <2> QED  BY <2>2
<1> HIDE DEF s
<1>3. ASSUME NEW j \in DOMAIN code, j < i, code[j].op \in Defines
      PROVE  code[j].res \in Written(s)
  <2>1. j \in 1 .. i - 1
    BY <1>1, <1>3
  <2>2. j \in DOMAIN s /\ s[j] = code[j]
    BY <1>2, <2>1
  <2> QED  BY <1>3, <2>2, WrittenIs
<1> QED  BY <1>3 DEF Prior, s

\* Code that is assured reads no temporary of a method that starts with
\* nothing written before it has written it.
LEMMA AssuredIsDefined ==
  ASSUME NEW D, AllSound(blocks), AllAssured(D, blocks), IsFiniteSet(DOMAIN blocks),
         NEW k \in DOMAIN source, source[k].name \in DOMAIN blocks, D[source[k].name] = {},
         temps[source[k].name] \subseteq TempNames
  PROVE  TemporariesDefined(Graph, source[k])
<1> SUFFICES ASSUME NEW x \in temps[source[k].name], NEW b \in ReachedUnwritten(Graph, source[k], x),
                    NEW i \in DOMAIN blocks[b].code, x \in ReadBy(blocks[b].code[i])
             PROVE  x \in Written(SubSeq(blocks[b].code, 1, i - 1))
  BY DEF TemporariesDefined, Graph
<1> DEFINE S == {l \in DOMAIN blocks : x \notin D[l]}
<1>1. x \in TempNames /\ source[k].name \in S
  OBVIOUS
<1>2. ASSUME NEW l \in S
      PROVE  WaysOn(blocks[l], x) \subseteq S
  <2> DEFINE code == blocks[l].code
  <2>1. code \in Seq(Tacs) /\ Accept(code, DOMAIN blocks) /\ Assured(D, D[l], code)
    BY DEF AllSound, Sound, Accept, AllAssured
  <2>2. CASE x \in Written(code)
    BY <2>2 DEF WaysOn
  <2>3. CASE x \notin Written(code)
    <3>1. \A j \in DOMAIN code : x \notin D[l] \cup Prior(code, j)
      BY <2>3, WrittenIs DEF Prior
    <3>2. ASSUME NEW t \in Targets(blocks[l])
          PROVE  t \in S
      <4>1. PICK j \in DOMAIN code : \/ code[j].op = "JMP" /\ t = code[j].res
                                     \/ code[j].op = "CJMP" /\ t = code[j].rhs.name
        BY DEF Targets, ToSet
      <4>2. t \in DOMAIN blocks
        BY <2>1, <4>1 DEF Accept
      <4>3. D[t] \subseteq D[l] \cup Prior(code, j)
        BY <2>1, <4>1 DEF Assured, Allowed
      <4> QED  BY <3>1, <4>2, <4>3
    <3> QED  BY <3>2 DEF WaysOn
  <2> QED  BY <2>2, <2>3
<1>3. b \in S
  <2>1. Graph.blocks = blocks
    BY DEF Graph
  <2>2. IsFiniteSet(DOMAIN Graph.blocks) /\ source[k].name \in S
    BY <1>1, <2>1
  <2>3. \A l \in S : WaysOn(Graph.blocks[l], x) \subseteq S
    BY <1>2, <2>1
  <2> HIDE DEF S
  <2>4. ReachedUnwritten(Graph, source[k], x) \subseteq S
    BY <2>2, <2>3, UnwrittenWithin
  <2> QED  BY <2>4
<1> DEFINE code == blocks[b].code
<1>4. code \in Seq(Tacs) /\ Assured(D, D[b], code) /\ x \notin D[b]
  BY <1>3 DEF AllSound, Sound, Accept, AllAssured
<1>5. x \in Prior(code, i)
  BY <1>1, <1>4 DEF Assured, Allowed, Reads
<1> QED  BY <1>4, <1>5, PriorIsWritten

LEMMA AssignedAtEnd == IInv /\ Assigned /\ Begun => TempsDefined
<1> SUFFICES ASSUME IInv, Begun, agenda = <<>>, NEW D, NEW h, Definite(D, h), NEW k \in DOMAIN source
             PROVE  TemporariesDefined(Graph, source[k])
  BY DEF Assigned, TempsDefined, Generated
<1> DEFINE root == source[k].name
<1>1. DOMAIN temps = {source[j].name : j \in DOMAIN source} /\ root \in DOMAIN temps
  BY DEF IInv, Counters
<1>2. temps[root] \subseteq TempNames
  <2>1. temps[root] \subseteq MadeTemps /\ nextTemp \in Nat
    BY <1>1 DEF IInv, Counters, AllOf
  <2> QED  BY <2>1 DEF MadeTemps, TempNames
<1>3. root \in DOMAIN blocks
  <2>1. DOMAIN agenda = {}
    OBVIOUS
  <2> QED  BY <1>1, <2>1 DEF Begun
<1>4. D[root] = {}
  BY <1>1, <1>3 DEF Definite
<1>5. AllSound(blocks) /\ AllAssured(D, blocks)
  BY LinkedIs DEF IInv, Definite
<1> QED  BY <1>2, <1>3, <1>4, <1>5, FinitelyMany, AssuredIsDefined

\* Whichever way the machine takes through a method, a temporary is written
\* before it is read.
THEOREM TemporariesWritten == Spec => []TempsDefined
<1>1. Spec => []IInv
  BY Inductive, PTL
<1>2. Spec => []Assigned
  BY <1>1, InitAssigned, StepAssigned, PTL DEF Spec
<1>3. Partition => Begun
  BY DEF Partition
<1>4. IInv /\ Assigned /\ Begun => TempsDefined
  BY AssignedAtEnd
<1> QED  BY <1>1, <1>2, <1>3, <1>4, Parts, PTL

-----------------------------------------------------------------------------
(***************************************************************************)
(* The generator ends a block once, with a return, a jump, or a            *)
(* conditional jump followed by a jump somewhere else.                     *)
(***************************************************************************)
Tailed(tacs) ==
  /\ \A i \in DOMAIN tacs : tacs[i].op \in Ends => i = Len(tacs)
  /\ \A i \in DOMAIN tacs : tacs[i].op = "CJMP" =>
       i + 1 \in DOMAIN tacs /\ tacs[i + 1].op = "JMP" /\ tacs[i + 1].res # tacs[i].rhs.name

AllTailed(bs) == \A b \in DOMAIN bs : Tailed(bs[b].code)

LEMMA TailedConcat ==
  ASSUME NEW tacs \in Seq(Tacs), NEW more \in Seq(Tacs), Tailed(tacs), Tailed(more),
         tacs # <<>> => Last(tacs).op \notin Ends
  PROVE  Tailed(tacs \o more)
<1> DEFINE a == Len(tacs)
           z == Len(more)
           all == tacs \o more
<1>1. a \in Nat /\ z \in Nat /\ DOMAIN tacs = 1 .. a /\ DOMAIN more = 1 .. z
  OBVIOUS
<1>2. /\ Len(all) = a + z /\ DOMAIN all = 1 .. a + z
      /\ \A i \in 1 .. a + z : all[i] = IF i <= a THEN tacs[i] ELSE more[i - a]
  BY ConcatProperties
<1>3. a # 0 => Last(tacs) = tacs[a] /\ tacs # <<>>
  BY <1>1 DEF Last
<1> HIDE DEF a, z, all
<1>4. \A i \in 1 .. a : tacs[i].op \notin Ends
  <2> SUFFICES ASSUME NEW i \in 1 .. a, tacs[i].op \in Ends
               PROVE  FALSE
    OBVIOUS
  <2>1. i = a
    <3>1. i \in DOMAIN tacs
      BY <1>1
    <3>2. i = Len(tacs)
      BY <3>1 DEF Tailed
    <3> QED  BY <3>2 DEF a
  <2>2. a # 0
    BY <1>1, <2>1
  <2> QED  BY <1>3, <2>1, <2>2
<1>5. \A i \in 1 .. a : tacs[i].op # "CJMP"
  <2> SUFFICES ASSUME NEW i \in 1 .. a, tacs[i].op = "CJMP"
               PROVE  FALSE
    OBVIOUS
  <2>1. i + 1 \in 1 .. a /\ tacs[i + 1].op = "JMP"
    BY <1>1 DEF Tailed
  <2> QED  BY <1>4, <2>1 DEF Ends
<1>6. \A i \in 1 .. a + z : \/ all[i].op \notin Ends \cup {"CJMP"}
                            \/ i - a \in 1 .. z /\ all[i] = more[i - a]
  <2> SUFFICES ASSUME NEW i \in 1 .. a + z
               PROVE  \/ all[i].op \notin Ends \cup {"CJMP"}
                      \/ i - a \in 1 .. z /\ all[i] = more[i - a]
    OBVIOUS
  <2>1. CASE i <= a
    <3>1. i \in 1 .. a /\ all[i] = tacs[i]
      BY <1>1, <1>2, <2>1
    <3> QED  BY <1>4, <1>5, <3>1
  <2>2. CASE ~(i <= a)
    <3>1. i - a \in 1 .. z /\ all[i] = more[i - a]
      BY <1>1, <1>2, <2>2
    <3> QED  BY <3>1
  <2> QED  BY <2>1, <2>2
<1>7. ASSUME NEW i \in 1 .. a + z, all[i].op \in Ends
      PROVE  i = a + z
  <2>1. i - a \in 1 .. z /\ all[i] = more[i - a]
    BY <1>6, <1>7
  <2>2. i - a = z
    BY <1>1, <1>7, <2>1 DEF Tailed, z
  <2> QED  BY <1>1, <2>2
<1>8. ASSUME NEW i \in 1 .. a + z, all[i].op = "CJMP"
      PROVE  i + 1 \in 1 .. a + z /\ all[i + 1].op = "JMP" /\ all[i + 1].res # all[i].rhs.name
  <2>1. i - a \in 1 .. z /\ all[i] = more[i - a]
    BY <1>6, <1>8
  <2>2. PICK j \in 1 .. z : j = i - a
    BY <2>1
  <2>3. j + 1 \in 1 .. z /\ more[j + 1].op = "JMP" /\ more[j + 1].res # more[j].rhs.name
    BY <1>1, <1>8, <2>1, <2>2 DEF Tailed
  <2>4. i + 1 \in 1 .. a + z /\ ~(i + 1 <= a) /\ (i + 1) - a = j + 1
    BY <1>1, <2>2, <2>3
  <2>5. all[i + 1] = more[j + 1]
    BY <1>2, <2>4
  <2> QED  BY <2>1, <2>2, <2>3, <2>4, <2>5
<1>9. Tailed(all)
  BY <1>2, <1>7, <1>8 DEF Tailed
<1> QED  BY <1>9 DEF all

LEMMA TailedShort ==
  /\ Tailed(<<>>)
  /\ \A tac \in Tacs : tac.op # "CJMP" => Tailed(<<tac>>)
  /\ \A p, q \in Tacs : p.op = "CJMP" /\ q.op = "JMP" /\ q.res # p.rhs.name => Tailed(<<p, q>>)
<1>1. Tailed(<<>>)
  BY DEF Tailed
<1>2. ASSUME NEW tac \in Tacs, tac.op # "CJMP"
      PROVE  Tailed(<<tac>>)
  BY <1>2 DEF Tailed
<1>3. ASSUME NEW p \in Tacs, NEW q \in Tacs, p.op = "CJMP", q.op = "JMP", q.res # p.rhs.name
      PROVE  Tailed(<<p, q>>)
  <2> DEFINE s == <<p, q>>
  <2>1. DOMAIN s = {1, 2} /\ Len(s) = 2 /\ s[1] = p /\ s[2] = q
    OBVIOUS
  <2> HIDE DEF s
  <2>2. p.op \notin Ends /\ q.op # "CJMP" /\ 1 + 1 = 2
    BY <1>3 DEF Ends
  <2>3. Tailed(s)
    BY <1>3, <2>1, <2>2 DEF Tailed
  <2> QED  BY <2>3 DEF s
<1> QED  BY <1>1, <1>2, <1>3

\* Code is added to an open block.
LEMMA CodeTails ==
  ASSUME NEW bs, AllSound(bs), AllTailed(bs), NEW l \in Open(bs),
         NEW more, Accept(more, DOMAIN bs), Tailed(more)
  PROVE  AllTailed(WithCode(bs, l, more))
<1> DEFINE new == WithCode(bs, l, more)
<1>1. l \in DOMAIN bs /\ ~EndsInJump(bs[l])
  BY DEF Open
<1>2. DOMAIN new = DOMAIN bs /\ \A b \in DOMAIN bs \ {l} : new[b] = bs[b]
  BY <1>1, WithCodeIs
<1>3. new[l].code = bs[l].code \o more
  <2>1. bs[l] \in Blocks
    BY <1>1 DEF AllSound, Sound
  <2>2. new[l] = [bs[l] EXCEPT !.code = @ \o more]
    BY <1>1 DEF WithCode
  <2> HIDE DEF new
  <2> QED  BY <2>1, <2>2 DEF Blocks
<1> HIDE DEF new
<1>4. bs[l].code \in Seq(Tacs) /\ more \in Seq(Tacs)
  BY <1>1 DEF AllSound, Sound, Accept
<1>5. Tailed(bs[l].code) /\ (bs[l].code # <<>> => Last(bs[l].code).op \notin Ends)
  BY <1>1 DEF AllTailed, EndsInJump
<1>6. Tailed(new[l].code)
  BY <1>3, <1>4, <1>5, TailedConcat
<1>7. AllTailed(new)
  BY <1>2, <1>6 DEF AllTailed
<1> QED  BY <1>7 DEF new

LEMMA SameTails ==
  ASSUME NEW bs, NEW new, AllTailed(bs), DOMAIN new = DOMAIN bs,
         \A b \in DOMAIN bs : new[b].code = bs[b].code
  PROVE  AllTailed(new)
BY DEF AllTailed

LEMMA NewTails ==
  ASSUME NEW bs, AllSound(bs), AllTailed(bs), NEW labels
  PROVE  AllTailed(WithNew(bs, labels))
<1> DEFINE new == WithNew(bs, labels)
<1>1. /\ DOMAIN new = DOMAIN bs \cup labels
      /\ \A b \in labels : new[b] = EmptyBlock
      /\ \A b \in DOMAIN bs \ labels : new[b] = bs[b]
  BY WithNewIs
<1> HIDE DEF new
<1>2. Tailed(EmptyBlock.code)
  BY EmptyIs, TailedShort
<1>3. AllTailed(new)
  BY <1>1, <1>2 DEF AllTailed
<1> QED  BY <1>3 DEF new

\* A block is left in two ways.
LEMMA PartedTails ==
  ASSUME NEW bs, AllSound(bs), AllTailed(bs), NEW l \in Open(bs), NEW c \in Operands,
         NEW t \in Texts \cap DOMAIN bs, NEW f \in Texts \cap DOMAIN bs, t # f
  PROVE  /\ AllTailed(WithCode(bs, l, <<CondJump(f, c), Jump(t)>>))
         /\ \A x \in DOMAIN bs :
              AllTailed(WithExits(WithCode(bs, l, <<CondJump(f, c), Jump(t)>>), x, t, f))
<1> DEFINE p == CondJump(f, c)
           q == Jump(t)
           code == <<p, q>>
           mid == WithCode(bs, l, code)
<1>1. /\ p \in Tacs /\ p.op = "CJMP" /\ p.rhs.name = f
      /\ q \in Tacs /\ q.op = "JMP" /\ q.res = t
  <2>1. None \in Operands /\ "JMP" \in TacOps
    BY OperandTypes DEF TacOps
  <2> QED  BY <2>1, TacTypes
<1> HIDE DEF p, q
<1>2. Tailed(code)
  BY <1>1, TailedShort
<1>3. Accept(code, DOMAIN bs)
  BY <1>1 DEF Accept
<1> HIDE DEF code
<1>4. AllTailed(mid)
  BY <1>2, <1>3, CodeTails
<1>5. DOMAIN mid = DOMAIN bs /\ AllSound(mid)
  BY <1>3, WithCodeIs DEF Open
<1> HIDE DEF mid
<1>6. ASSUME NEW x \in DOMAIN bs
      PROVE  AllTailed(WithExits(mid, x, t, f))
  <2> DEFINE new == WithExits(mid, x, t, f)
  <2>1. DOMAIN new = DOMAIN mid /\ \A b \in DOMAIN mid : new[b].code = mid[b].code
    BY <1>5, WithExitsIs
  <2> HIDE DEF new
  <2>2. AllTailed(new)
    BY <1>4, <2>1, SameTails
  <2> QED  BY <2>2 DEF new
<1> QED  BY <1>4, <1>6 DEF mid, code, p, q

LEMMA ClosedTails ==
  ASSUME NEW bs, AllSound(bs), AllTailed(bs), NEW l \in Open(bs), NEW target \in Texts \cap DOMAIN bs
  PROVE  AllTailed(Closed(bs, l, target))
<1> DEFINE q == Jump(target)
           code == <<q>>
           mid == WithCode(bs, l, code)
           new == WithTrueExit(mid, l, target)
<1>1. q \in Tacs /\ q.op = "JMP" /\ q.res = target
  BY NoLabels, OperandTypes DEF Jump, Tac3, Tacs, TacOps
<1> HIDE DEF q
<1>2. Tailed(code)
  BY <1>1, TailedShort
<1>3. Accept(code, DOMAIN bs)
  BY <1>1 DEF Accept
<1> HIDE DEF code
<1>4. AllTailed(mid)
  BY <1>2, <1>3, CodeTails
<1>5. DOMAIN mid = DOMAIN bs /\ AllSound(mid) /\ l \in DOMAIN bs
  BY <1>3, WithCodeIs DEF Open
<1> HIDE DEF mid
<1>6. DOMAIN new = DOMAIN mid /\ \A b \in DOMAIN mid : new[b].code = mid[b].code
  BY <1>5, WithTrueExitIs
<1> HIDE DEF new
<1>7. AllTailed(new)
  BY <1>4, <1>6, SameTails
<1> QED  BY <1>7 DEF new, mid, code, q, Closed

LEMMA DecidedTails ==
  ASSUME NEW bs, AllSound(bs), AllTailed(bs), NEW l \in Open(bs), NEW join \in Texts \cap DOMAIN bs,
         NEW n \in Int, task.name \in Texts
  PROVE  AllTailed(Decided(bs, l, n, join))
<1> DEFINE tac == Copy(Imm(n), task.name)
           code == <<tac>>
           mid == WithCode(bs, l, code)
<1>1. tac \in Tacs /\ tac.op = "COPY"
  <2>1. "COPY" \in TacOps /\ Imm(n) \in Operands
    BY OperandTypes DEF TacOps, Defines
  <2> QED  BY <2>1, TacTypes
<1> HIDE DEF tac
<1>2. Accept(code, DOMAIN bs) /\ Tailed(code) /\ code # <<>> /\ Last(code).op \notin Ends
  <2>1. Tailed(code)
    BY <1>1, TailedShort
  <2> QED  BY <1>1, <2>1 DEF Accept, Last, Ends
<1> HIDE DEF code
<1>3. AllTailed(mid)
  BY <1>2, CodeTails
<1>4. DOMAIN mid = DOMAIN bs /\ AllSound(mid) /\ ~EndsInJump(mid[l]) /\ l \in DOMAIN bs
  BY <1>2, WithCodeIs DEF Open
<1> HIDE DEF mid
<1>5. l \in Open(mid)
  BY <1>4 DEF Open
<1>6. AllTailed(Closed(mid, l, join))
  BY <1>3, <1>4, <1>5, ClosedTails
<1> QED  BY <1>6 DEF mid, code, tac, Decided

-----------------------------------------------------------------------------
(***************************************************************************)
(* Every step of the generator keeps to that.                              *)
(***************************************************************************)
TailsKept == AllTailed(blocks) => AllTailed(blocks')

LEMMA EmitTails ==
  ASSUME IInv, agenda # <<>>, ~IsMethod(task), NEW tac \in Tacs, tac.op \notin {"JMP", "CJMP"},
         Emit(<<tac>>)
  PROVE  TailsKept
<1> SUFFICES ASSUME AllTailed(blocks)
             PROVE  AllTailed(blocks')
  BY DEF TailsKept
<1> DEFINE code == <<tac>>
<1>1. currentBlock \in Open(blocks) /\ AllSound(blocks)
  BY Working
<1>2. Accept(code, DOMAIN blocks) /\ Tailed(code)
  <2>1. Tailed(code)
    BY TailedShort
  <2> QED  BY <2>1 DEF Accept
<1> HIDE DEF code
<1>3. blocks' = WithCode(blocks, currentBlock, code)
  BY DEF Emit, code
<1> QED  BY <1>1, <1>2, <1>3, CodeTails

LEMMA FinishTails == IInv /\ (FinishStrict \/ FinishSized \/ FinishStatement) => TailsKept
<1> SUFFICES ASSUME IInv, FinishStrict \/ FinishSized \/ FinishStatement
             PROVE  TailsKept
  OBVIOUS
<1>1. PICK res : /\ agenda # <<>> /\ task.do = "finish" /\ task.node.kind \in Strict \cup Sized \cup Statements
                 /\ (res = Temp \/ res = task.name \/ res = <<>>)
                 /\ Emit(<<TacFor(task.node, res)>>)
  BY DEF FinishStrict, FinishSized, FinishStatement, Doing
<1>2. /\ ~IsMethod(task) /\ task \in Tasks /\ task.node \in Nodes
      /\ Len(values) \in Nat /\ values \in Seq(Operands) /\ Len(values) >= Takes(task)
  BY <1>1, AtWork
<1>3. res \in Texts
  <2>1. Temp \in Texts
    BY TempIsText
  <2>2. task.name \in Texts
    BY <1>2 DEF Tasks
  <2> QED  BY <1>1, <2>1, <2>2, NoLabels
<1>4. Takes(task) = Len(task.node.kids)
  BY <1>1 DEF Takes
<1> DEFINE tac == TacFor(task.node, res)
<1>5. tac \in Tacs /\ tac.op \notin {"JMP", "CJMP"}
  BY <1>1, <1>2, <1>3, <1>4, TacForType
<1> HIDE DEF tac
<1>6. Emit(<<tac>>)
  BY <1>1 DEF tac
<1> QED  BY <1>1, <1>2, <1>5, <1>6, EmitTails

LEMMA PushTails == IInv /\ (New \/ Param \/ FinishCall) => TailsKept
<1> SUFFICES ASSUME IInv, New \/ Param \/ FinishCall
             PROVE  TailsKept
  OBVIOUS
<1>1. CASE New
  <2> DEFINE tac == Tac3("NEW", Temp, None, Name(task.node.text))
  <2>1. /\ agenda # <<>> /\ task.do = "visit" /\ task.node.kind = "NEW" /\ Emit(<<tac>>)
    BY <1>1 DEF New, Visiting, Doing
  <2>2. ~IsMethod(task) /\ task.node \in Nodes
    BY <2>1, AtWork
  <2>3. Temp \in Texts /\ task.node.text \in Texts
    BY <2>2, NodeOf, TempIsText
  <2>4. tac \in Tacs /\ tac.op = "NEW"
    BY <2>3, OperandTypes, TacTypes DEF TacOps, Defines
  <2> HIDE DEF tac
  <2> QED  BY <2>1, <2>2, <2>4, EmitTails
<1>2. CASE Param
  <2> DEFINE tac == Tac3("PARAM", <<>>, None, Operand(0))
  <2>1. agenda # <<>> /\ task.do = "param" /\ Emit(<<tac>>)
    BY <1>2 DEF Param, Doing
  <2>2. ~IsMethod(task) /\ Len(values) \in Nat /\ values \in Seq(Operands) /\ Len(values) >= Takes(task)
    BY <2>1, AtWork
  <2>3. Takes(task) = 1
    BY <2>1 DEF Takes
  <2>4. Operand(0) \in Operands
    <3>1. 0 \in 0 .. Len(values) - 1
      BY <2>2, <2>3
    <3> QED  BY <2>2, <3>1, ValuesLeft
  <2>5. tac \in Tacs /\ tac.op = "PARAM"
    BY <2>4, NoLabels, OperandTypes, TacTypes DEF TacOps, ReadsRhs
  <2> HIDE DEF tac
  <2> QED  BY <2>1, <2>2, <2>5, EmitTails
<1>3. CASE FinishCall
  <2> DEFINE tac == MethodCall(Temp, Operand(0), task.node.text)
  <2>1. agenda # <<>> /\ task.do = "call" /\ Emit(<<tac>>)
    BY <1>3 DEF FinishCall, Doing
  <2>2. /\ ~IsMethod(task) /\ Len(values) \in Nat /\ values \in Seq(Operands) /\ Len(values) >= Takes(task)
        /\ task.node \in Nodes
    BY <2>1, AtWork
  <2>3. Takes(task) = 1
    BY <2>1 DEF Takes
  <2>4. Operand(0) \in Operands
    <3>1. 0 \in 0 .. Len(values) - 1
      BY <2>2, <2>3
    <3> QED  BY <2>2, <3>1, ValuesLeft
  <2>5. Temp \in Texts /\ task.node.text \in Texts
    BY <2>2, NodeOf, TempIsText
  <2>6. tac \in Tacs /\ tac.op = "CALL"
    BY <2>4, <2>5, OperandTypes, TacTypes DEF MethodCall, TacOps, ReadsLhs
  <2> HIDE DEF tac
  <2> QED  BY <2>1, <2>2, <2>6, EmitTails
<1> QED  BY <1>1, <1>2, <1>3

LEMMA BranchTails == IInv /\ Branch => TailsKept
<1> SUFFICES ASSUME IInv, Branch, AllTailed(blocks)
             PROVE  AllTailed(blocks')
  BY DEF TailsKept
<1> DEFINE L == Labels(4)
           fresh == ToSet(L)
           exits == BranchExits(task.node.kind, Label(0), Label(1), Label(2))
           built == WithNew(blocks, fresh)
           x == exits[1]
           y == exits[2]
           o == Operand(0)
<1>1. /\ agenda # <<>> /\ task.do = "branch"
      /\ blocks' = WithExits(WithCode(built, currentBlock, <<CondJump(y, o), Jump(x)>>),
                             currentBlock, x, y)
      /\ TakeTemp /\ NewBlocks(4) /\ UNCHANGED source
  BY DEF Branch, Doing
<1>2. /\ ~IsMethod(task) /\ Len(values) \in Nat /\ values \in Seq(Operands) /\ Len(values) >= Takes(task)
  BY <1>1, AtWork
<1>3. Takes(task) = 1
  BY <1>1 DEF Takes
<1>4. currentBlock \in Open(blocks) /\ AllSound(blocks)
  BY <1>1, <1>2, Working
<1>5. /\ DOMAIN built = DOMAIN blocks \cup fresh /\ AllSound(built)
      /\ DOMAIN built \subseteq Texts
      /\ \A b \in DOMAIN blocks : built[b].code = blocks[b].code
      /\ \A i \in 1 .. 4 : L[i] \in fresh /\ L[i] = Label(i - 1)
      /\ \A i, j \in 1 .. 4 : L[i] = L[j] => i = j
  BY <1>1, <1>2, Fresh
<1>6. x \in fresh /\ y \in fresh /\ x # y
  <2>1. L[1] = Label(0) /\ L[2] = Label(1) /\ L[3] = Label(2)
    BY <1>5
  <2>2. 1 \in 1 .. 4 /\ 2 \in 1 .. 4 /\ 3 \in 1 .. 4
    OBVIOUS
  <2>3. Label(0) \in fresh /\ Label(1) \in fresh /\ Label(2) \in fresh
    BY <1>5, <2>1, <2>2
  <2>4. Label(0) # Label(1) /\ Label(0) # Label(2)
    <3> HIDE DEF fresh, L
    <3> QED  BY <1>5, <2>1, <2>2
  <2> HIDE DEF fresh, L
  <2> QED  BY <2>3, <2>4 DEF BranchExits
<1>7. o \in Operands
  <2>1. 0 \in 0 .. Len(values) - 1
    BY <1>2, <1>3
  <2> QED  BY <1>2, <2>1, ValuesLeft
<1>8. AllTailed(built)
  BY <1>4, NewTails
<1> HIDE DEF L, fresh, built, x, y, exits, o
<1>9. currentBlock \in Open(built) /\ currentBlock \in DOMAIN built
  BY <1>4, <1>5 DEF Open, EndsInJump
<1>10. x \in Texts \cap DOMAIN built /\ y \in Texts \cap DOMAIN built
  BY <1>5, <1>6
<1> QED  BY <1>1, <1>5, <1>6, <1>7, <1>8, <1>9, <1>10, PartedTails

LEMMA MergeTails == IInv /\ Merge => TailsKept
<1> SUFFICES ASSUME IInv, Merge, AllTailed(blocks)
             PROVE  AllTailed(blocks')
  BY DEF TailsKept
<1> DEFINE rhs == task.labels[1]
           true == task.labels[2]
           false == task.labels[3]
           join == task.labels[4]
           o == Operand(0)
           built == WithExits(WithCode(blocks, currentBlock, <<CondJump(false, o), Jump(true)>>),
                              rhs, true, false)
           one == Decided(built, true, 1, join)
           two == Decided(one, false, 0, join)
<1>1. agenda # <<>> /\ task.do = "merge" /\ blocks' = two
  BY DEF Merge, Doing
<1>2. /\ ~IsMethod(task) /\ task \in Tasks /\ Shaped(task)
      /\ Len(values) \in Nat /\ values \in Seq(Operands) /\ Len(values) >= Takes(task)
  BY <1>1, AtWork
<1>3. Takes(task) = 1 /\ Places(task) = {2, 3, 4} /\ Len(task.labels) = 4
  BY <1>1, <1>2 DEF Shaped, Takes, Places
<1>4. /\ \A k \in DOMAIN task.labels : task.labels[k] \in Texts \cap DOMAIN blocks
      /\ Owned(task) \subseteq Open(blocks) \ {currentBlock}
      /\ currentBlock \in Open(blocks) /\ AllSound(blocks) /\ Apart(task)
  BY <1>1, <1>2, Working
<1>5. task.labels \in Seq(Texts) /\ task.name \in Texts
  BY <1>2 DEF Tasks
<1>6. /\ rhs \in Texts \cap DOMAIN blocks /\ true \in Texts \cap DOMAIN blocks
      /\ false \in Texts \cap DOMAIN blocks /\ join \in Texts \cap DOMAIN blocks
  <2>1. DOMAIN task.labels = 1 .. 4
    BY <1>3, <1>5
  <2> QED  BY <1>4, <2>1
<1>7. Owned(task) = {true, false, join} /\ true # false
  BY <1>2, <1>3, <1>4 DEF Owned, Apart
<1>8. o \in Operands
  <2>1. 0 \in 0 .. Len(values) - 1
    BY <1>2, <1>3
  <2> QED  BY <1>2, <2>1, ValuesLeft
<1>9. currentBlock \in DOMAIN blocks
  BY <1>4 DEF Open
<1> HIDE DEF rhs, true, false, join, o, two
<1>10. /\ DOMAIN built = DOMAIN blocks /\ AllSound(built)
       /\ \A b \in DOMAIN blocks \ {currentBlock} : built[b].code = blocks[b].code
  BY <1>4, <1>6, <1>8, <1>9, Parted
<1>11. AllTailed(built)
  BY <1>4, <1>6, <1>7, <1>8, PartedTails
<1> HIDE DEF built
<1>12. true \in Open(built) /\ join \in Texts \cap DOMAIN built /\ 1 \in Int /\ 0 \in Int
  BY <1>4, <1>6, <1>7, <1>10, StillOpen
<1>13. /\ DOMAIN one = DOMAIN blocks /\ AllSound(one)
       /\ \A b \in DOMAIN blocks \ {true} : one[b].code = built[b].code
  BY <1>5, <1>6, <1>10, DecidedIs
<1>14. AllTailed(one)
  BY <1>5, <1>10, <1>11, <1>12, DecidedTails
<1> HIDE DEF one
<1>15. false \in Open(one) /\ join \in Texts \cap DOMAIN one
  <2>1. false \in Open(blocks) /\ false # currentBlock /\ false # true
    BY <1>4, <1>7
  <2>2. one[false].code = blocks[false].code
    BY <1>6, <1>10, <1>13, <2>1
  <2> QED  BY <1>6, <1>13, <2>1, <2>2, StillOpen
<1>16. AllTailed(Decided(one, false, 0, join))
  BY <1>5, <1>12, <1>13, <1>14, <1>15, DecidedTails
<1> QED  BY <1>1, <1>16 DEF two

LEMMA EvalConditionTails == IInv /\ EvalCondition => TailsKept
<1> SUFFICES ASSUME IInv, EvalCondition, AllTailed(blocks)
             PROVE  AllTailed(blocks')
  BY DEF TailsKept
<1>1. PICK labels : blocks' = WithNew(blocks, labels)
  BY DEF EvalCondition
<1>2. AllSound(blocks)
  BY LinkedIs DEF IInv
<1> QED  BY <1>1, <1>2, NewTails

LEMMA ThenTails == IInv /\ Then => TailsKept
<1> SUFFICES ASSUME IInv, Then, AllTailed(blocks)
             PROVE  AllTailed(blocks')
  BY DEF TailsKept
<1> DEFINE then == task.labels[1]
           otherwise == task.labels[2]
           o == Operand(0)
           n == Len(task.node.kids)
<1>1. /\ agenda # <<>> /\ task.do = "then"
      /\ blocks' = WithExits(WithCode(blocks, currentBlock, <<CondJump(otherwise, o), Jump(then)>>),
                             currentBlock, then, otherwise)
  BY DEF Then, Doing
<1>2. /\ ~IsMethod(task) /\ task \in Tasks /\ task.node \in Nodes /\ Shaped(task)
      /\ Len(values) \in Nat /\ values \in Seq(Operands) /\ Len(values) >= Takes(task)
  BY <1>1, AtWork
<1>3. /\ task.node.kind \in {"If", "IfElse"} /\ Takes(task) = 1
      /\ Places(task) = 1 .. n /\ Len(task.labels) = n
  BY <1>1, <1>2 DEF Shaped, Takes, Places
<1>4. task.node \in Inner
  BY <1>2, <1>3, NodeOf
<1>5. n \in {2, 3}
  BY <1>3, <1>4, InnerNode DEF WellFormed
<1>6. /\ \A i \in DOMAIN task.labels : task.labels[i] \in Texts \cap DOMAIN blocks
      /\ currentBlock \in Open(blocks) /\ AllSound(blocks) /\ Apart(task)
  BY <1>1, <1>2, Working
<1>7. DOMAIN task.labels = 1 .. n
  <2>1. task.labels \in Seq(Texts)
    BY <1>2 DEF Tasks
  <2> QED  BY <1>3, <2>1
<1> HIDE DEF n
<1>8. 1 \in 1 .. n /\ 2 \in 1 .. n
  BY <1>5
<1>9. then \in Texts \cap DOMAIN blocks /\ otherwise \in Texts \cap DOMAIN blocks /\ then # otherwise
  BY <1>3, <1>6, <1>7, <1>8 DEF Apart
<1>10. o \in Operands
  <2>1. 0 \in 0 .. Len(values) - 1
    BY <1>2, <1>3
  <2> QED  BY <1>2, <2>1, ValuesLeft
<1>11. currentBlock \in DOMAIN blocks
  BY <1>6 DEF Open
<1> HIDE DEF then, otherwise, o
<1> QED  BY <1>1, <1>6, <1>9, <1>10, <1>11, PartedTails

LEMMA EndBranchTails == IInv /\ EndBranch => TailsKept
<1> SUFFICES ASSUME IInv, EndBranch, AllTailed(blocks)
             PROVE  AllTailed(blocks')
  BY DEF TailsKept
<1> DEFINE join == task.labels[1]
<1>1. agenda # <<>> /\ task.do = "end" /\ blocks' = Closed(blocks, currentBlock, join)
  BY DEF EndBranch, Doing
<1>2. ~IsMethod(task) /\ task \in Tasks /\ Shaped(task)
  BY <1>1, AtWork
<1>3. /\ \A k \in DOMAIN task.labels : task.labels[k] \in Texts \cap DOMAIN blocks
      /\ currentBlock \in Open(blocks) /\ AllSound(blocks)
  BY <1>1, <1>2, Working
<1>4. join \in Texts \cap DOMAIN blocks
  <2>1. task.labels \in Seq(Texts) /\ Len(task.labels) = 2
    BY <1>1, <1>2 DEF Tasks, Shaped
  <2>2. DOMAIN task.labels = 1 .. 2
    BY <2>1
  <2> QED  BY <1>3, <2>2
<1> HIDE DEF join
<1> QED  BY <1>1, <1>3, <1>4, ClosedTails

LEMMA LoopEndTails == IInv /\ LoopEnd => TailsKept
<1> SUFFICES ASSUME IInv, LoopEnd, AllTailed(blocks)
             PROVE  AllTailed(blocks')
  BY DEF TailsKept
<1> DEFINE header == task.labels[1]
           body == task.labels[2]
           join == task.labels[3]
           condition == task.labels[4]
           mid == Closed(blocks, currentBlock, header)
           new == WithExits(mid, condition, body, join)
<1>1. agenda # <<>> /\ task.do = "loop end" /\ blocks' = new
  BY DEF LoopEnd, Doing
<1>2. ~IsMethod(task) /\ task \in Tasks /\ Shaped(task)
  BY <1>1, AtWork
<1>3. /\ \A k \in DOMAIN task.labels : task.labels[k] \in Texts \cap DOMAIN blocks
      /\ currentBlock \in Open(blocks) /\ AllSound(blocks) /\ currentBlock \in DOMAIN blocks
  BY <1>1, <1>2, Working
<1>4. /\ header \in Texts \cap DOMAIN blocks /\ body \in Texts \cap DOMAIN blocks
      /\ join \in Texts \cap DOMAIN blocks /\ condition \in DOMAIN blocks
  <2>1. task.labels \in Seq(Texts) /\ Len(task.labels) = 4
    BY <1>1, <1>2 DEF Tasks, Shaped
  <2>2. DOMAIN task.labels = 1 .. 4
    BY <2>1
  <2> QED  BY <1>3, <2>2
<1> HIDE DEF header, body, join, condition
<1>5. DOMAIN mid = DOMAIN blocks /\ AllSound(mid)
  BY <1>3, <1>4, ClosedIs
<1>6. AllTailed(mid)
  BY <1>3, <1>4, ClosedTails
<1> HIDE DEF mid
<1>7. DOMAIN new = DOMAIN mid /\ \A b \in DOMAIN mid : new[b].code = mid[b].code
  <2>1. condition \in DOMAIN mid /\ body \in Texts \cap DOMAIN mid /\ join \in Texts \cap DOMAIN mid
    BY <1>4, <1>5
  <2> QED  BY <1>5, <2>1, WithExitsIs
<1> HIDE DEF new
<1> QED  BY <1>1, <1>6, <1>7, SameTails

LEMMA LoopBodyTails == IInv /\ LoopBody => TailsKept
<1> SUFFICES ASSUME IInv, LoopBody, AllTailed(blocks)
             PROVE  AllTailed(blocks')
  BY DEF TailsKept
<1> DEFINE body == task.labels[2]
           join == task.labels[3]
           o == Operand(0)
<1>1. /\ agenda # <<>> /\ task.do = "loop body"
      /\ blocks' = WithCode(blocks, currentBlock, <<CondJump(join, o), Jump(body)>>)
  BY DEF LoopBody, LoopJumps, Emit, Doing
<1>2. /\ ~IsMethod(task) /\ task \in Tasks /\ Shaped(task)
      /\ Len(values) \in Nat /\ values \in Seq(Operands) /\ Len(values) >= Takes(task)
  BY <1>1, AtWork
<1>3. Takes(task) = 1 /\ Places(task) = {2, 3} /\ Len(task.labels) = 3
  BY <1>1, <1>2 DEF Shaped, Takes, Places
<1>4. /\ \A i \in DOMAIN task.labels : task.labels[i] \in Texts \cap DOMAIN blocks
      /\ currentBlock \in Open(blocks) /\ AllSound(blocks) /\ Apart(task)
  BY <1>1, <1>2, Working
<1>5. DOMAIN task.labels = 1 .. 3
  <2>1. task.labels \in Seq(Texts)
    BY <1>2 DEF Tasks
  <2> QED  BY <1>3, <2>1
<1>6. body \in Texts \cap DOMAIN blocks /\ join \in Texts \cap DOMAIN blocks /\ body # join
  BY <1>3, <1>4, <1>5 DEF Apart
<1>7. o \in Operands
  <2>1. 0 \in 0 .. Len(values) - 1
    BY <1>2, <1>3
  <2> QED  BY <1>2, <2>1, ValuesLeft
<1> HIDE DEF body, join, o
<1> QED  BY <1>1, <1>4, <1>6, <1>7, PartedTails

LEMMA BeginWhileTails == IInv /\ BeginWhile => TailsKept
<1> SUFFICES ASSUME IInv, BeginWhile, AllTailed(blocks)
             PROVE  AllTailed(blocks')
  BY DEF TailsKept
<1> DEFINE L == Labels(3)
           fresh == ToSet(L)
           header == Label(0)
           body == Label(1)
           new == WithNew(blocks, fresh)
           built == WithTrueExit(new, body, header)
<1>1. /\ agenda # <<>> /\ task.do = "visit" /\ task.node.kind = "While"
      /\ blocks' = Closed(built, currentBlock, header)
      /\ NewBlocks(3) /\ UNCHANGED source /\ NoTemp
  BY DEF BeginWhile, Visiting, Doing
<1>2. ~IsMethod(task)
  BY <1>1, AtWork
<1>3. currentBlock \in Open(blocks) /\ AllSound(blocks)
  BY <1>1, <1>2, Working
<1>4. /\ DOMAIN new = DOMAIN blocks \cup fresh /\ AllSound(new)
      /\ DOMAIN new \subseteq Texts
      /\ \A b \in DOMAIN blocks : new[b].code = blocks[b].code
      /\ \A i \in 1 .. 3 : L[i] \in fresh /\ L[i] = Label(i - 1)
  BY <1>1, <1>2, Fresh
<1>5. header \in fresh /\ body \in fresh
  <2>1. L[1] = Label(0) /\ L[2] = Label(1) /\ 1 \in 1 .. 3 /\ 2 \in 1 .. 3
    BY <1>4
  <2> HIDE DEF L, fresh
  <2> QED  BY <1>4, <2>1
<1>6. AllTailed(new)
  BY <1>3, NewTails
<1> HIDE DEF L, fresh, header, body, new
<1>7. header \in Texts \cap DOMAIN new /\ body \in DOMAIN new
  BY <1>4, <1>5
<1>8. /\ DOMAIN built = DOMAIN new /\ AllSound(built)
      /\ \A b \in DOMAIN new : built[b].code = new[b].code
  <2>1. AllSound(new)
    BY <1>4
  <2> QED  BY <1>7, <2>1, WithTrueExitIs
<1> HIDE DEF built
<1>9. AllTailed(built)
  BY <1>6, <1>8, SameTails
<1>10. currentBlock \in Open(built) /\ header \in Texts \cap DOMAIN built
  BY <1>3, <1>4, <1>7, <1>8 DEF Open, EndsInJump
<1> QED  BY <1>1, <1>8, <1>9, <1>10, ClosedTails

LEMMA StepTails == IInv /\ [Next]_irVars => TailsKept
<1> SUFFICES ASSUME IInv, [Next]_irVars
             PROVE  TailsKept
  OBVIOUS
<1>1. CASE BeginMethod
  <2>1. PICK labels : blocks' = WithNew(blocks, labels)
    BY <1>1 DEF BeginMethod
  <2>2. AllSound(blocks)
    BY LinkedIs DEF IInv
  <2> QED  BY <2>1, <2>2, NewTails DEF TailsKept
<1>2. CASE Leaf \/ EvalOperands \/ EvalSize \/ Statement \/ EvalCall \/ EvalLeft \/ UNCHANGED irVars
  <2>1. UNCHANGED blocks
    BY <1>2 DEF Leaf, EvalOperands, EvalSize, Statement, EvalCall, EvalLeft, SameBlocks, irVars
  <2> QED  BY <2>1 DEF TailsKept
<1>3. CASE New \/ Param \/ FinishCall \/ FinishStrict \/ FinishSized \/ FinishStatement
  BY <1>3, PushTails, FinishTails
<1>4. CASE Branch \/ Merge
  BY <1>4, BranchTails, MergeTails
<1>5. CASE EvalCondition \/ Then \/ EndBranch
  BY <1>5, EvalConditionTails, ThenTails, EndBranchTails
<1>6. CASE BeginWhile \/ LoopBody \/ LoopEnd
  BY <1>6, BeginWhileTails, LoopBodyTails, LoopEndTails
<1> QED
  BY <1>1, <1>2, <1>3, <1>4, <1>5, <1>6 DEF Next, Generate

LEMMA InitTails == Init => AllTailed(blocks)
BY DEF Init, NothingBuilt, AllTailed

LEMMA Tails == Spec => []AllTailed(blocks)
<1>1. Spec => []IInv
  BY Inductive, PTL
<1>2. IInv /\ AllTailed(blocks) /\ [Next]_irVars => AllTailed(blocks)'
  BY StepTails DEF TailsKept
<1> QED  BY <1>1, <1>2, InitTails, PTL DEF Spec

-----------------------------------------------------------------------------
(***************************************************************************)
(* What constant folding makes of an instruction: it does what it did to   *)
(* the control, writes what it wrote, and reads no more than it read.      *)
(***************************************************************************)
Refolds(t, s) ==
  /\ s \in Tacs /\ s.res = t.res /\ ReadBy(s) \subseteq ReadBy(t)
  /\ s.op = t.op \/ (s.op = "COPY" /\ t.op \in BinaryOps \cup {"NOT"})
  /\ t.op = "CJMP" => s.rhs = t.rhs

LEMMA SameRefolds == \A t \in Tacs : Refolds(t, t)
BY DEF Refolds

LEMMA SameOps ==
  /\ ConstantFoldingPass!BinaryOps = BinaryOps
  /\ ConstantFoldingPass!ReadsLhs = ReadsLhs /\ ConstantFoldingPass!ReadsRhs = ReadsRhs
BY DEF ConstantFoldingPass!BinaryOps, ConstantFoldingPass!TwoOperands, ConstantFoldingPass!ReadsLhs,
   ConstantFoldingPass!ReadsRhs, BinaryOps, TwoOperands, ReadsLhs, ReadsRhs

LEMMA SubstitutedIs ==
  ASSUME NEW e, NEW o \in Operands
  PROVE  LET n == ConstantFoldingPass!Substituted(e, o) IN n \in Operands /\ (n = o \/ n.imm)
<1> DEFINE v == ConstantFoldingPass!ValueOf(e, o)
           n == ConstantFoldingPass!Substituted(e, o)
<1>1. CASE ConstantFoldingPass!Known(e, o) /\ v \in ConstantFoldingPass!Immediate
  <2>1. n = ConstantFoldingPass!Imm(v)
    BY <1>1 DEF ConstantFoldingPass!Substituted
  <2>2. v \in Int
    <3> HIDE DEF v
    <3> QED  BY <1>1 DEF ConstantFoldingPass!Immediate
  <2> HIDE DEF v
  <2>3. n = Imm(v) /\ Imm(v).imm
    BY <2>1 DEF ConstantFoldingPass!Imm, Imm
  <2> QED  BY <2>2, <2>3, OperandTypes
<1>2. CASE ~(ConstantFoldingPass!Known(e, o) /\ v \in ConstantFoldingPass!Immediate)
  <2>1. n = o
    BY <1>2 DEF ConstantFoldingPass!Substituted
  <2> QED  BY <2>1
<1> QED  BY <1>1, <1>2

LEMMA RewrittenIs ==
  ASSUME NEW e, NEW t \in Tacs
  PROVE  Refolds(t, ConstantFoldingPass!Rewritten(e, t))
<1> DEFINE s == ConstantFoldingPass!SubstituteConstants(e, t)
           r == ConstantFoldingPass!Rewritten(e, t)
<1>1. /\ t.op \in TacOps /\ t.res \in Texts /\ t.lhs \in Operands /\ t.rhs \in Operands
  BY DEF Tacs
<1>2. PICK a : a = ConstantFoldingPass!Substituted(e, t.lhs)
  OBVIOUS
<1>3. PICK b : b = ConstantFoldingPass!Substituted(e, t.rhs)
  OBVIOUS
<1>4. a \in Operands /\ (a = t.lhs \/ a.imm) /\ b \in Operands /\ (b = t.rhs \/ b.imm)
  BY <1>1, <1>2, <1>3, SubstitutedIs
<1>5. /\ s = [t EXCEPT !.lhs = IF t.op \in ReadsLhs THEN a ELSE @,
                       !.rhs = IF t.op \in ReadsRhs THEN b ELSE @]
  BY <1>2, <1>3, SameOps DEF ConstantFoldingPass!SubstituteConstants
<1> HIDE DEF s
<1>6. /\ s \in Tacs /\ s.op = t.op /\ s.res = t.res
      /\ s.lhs = IF t.op \in ReadsLhs THEN a ELSE t.lhs
      /\ s.rhs = IF t.op \in ReadsRhs THEN b ELSE t.rhs
  BY <1>1, <1>4, <1>5 DEF Tacs
<1>7. ReadBy(s) \subseteq ReadBy(t)
  BY <1>4, <1>6 DEF ReadBy
<1>8. "CJMP" \notin ReadsRhs /\ "CJMP" \notin BinaryOps \cup {"NOT"}
  BY DEF ReadsRhs, TwoOperands, BinaryOps
<1>9. CASE ~ConstantFoldingPass!Foldable(e, s)
  <2>1. r = s
    BY <1>9 DEF ConstantFoldingPass!Rewritten, s
  <2> QED  BY <1>6, <1>7, <1>8, <2>1 DEF Refolds
<1>10. CASE ConstantFoldingPass!Foldable(e, s)
  <2> DEFINE v == ConstantFoldingPass!FoldedValue(s.op, ConstantFoldingPass!ValueOf(e, s.lhs),
                                                  ConstantFoldingPass!ValueOf(e, s.rhs))
  <2>1. v \in ConstantFoldingPass!Immediate /\ s.op \in BinaryOps \cup {"NOT"}
    BY <1>10, SameOps DEF ConstantFoldingPass!Foldable
  <2>2. r = ConstantFoldingPass!Copy(ConstantFoldingPass!Imm(v), t.res)
    BY <1>10 DEF ConstantFoldingPass!Rewritten, s
  <2> HIDE DEF v
  <2>3. v \in Int
    BY <2>1 DEF ConstantFoldingPass!Immediate
  <2>4. r = Copy(Imm(v), t.res)
    BY <1>6, <2>2 DEF ConstantFoldingPass!Copy, ConstantFoldingPass!Imm, ConstantFoldingPass!Tac3,
       ConstantFoldingPass!None, ConstantFoldingPass!Name, Copy, Imm, Tac3, None, Name
  <2> HIDE DEF r
  <2>5. "COPY" \in TacOps /\ "COPY" \notin ReadsLhs /\ Imm(v) \in Operands /\ Imm(v).imm
    <3>1. "COPY" \in TacOps /\ "COPY" \notin ReadsLhs
      BY DEF TacOps, ReadsRhs, ReadsLhs, TwoOperands, BinaryOps
    <3>2. Imm(v).imm
      BY DEF Imm
    <3> QED  BY <2>3, <3>1, <3>2, OperandTypes
  <2>6. r \in Tacs /\ r.op = "COPY" /\ r.res = t.res /\ r.rhs = Imm(v)
    <3>1. r = [op |-> "COPY", res |-> t.res, lhs |-> None, rhs |-> Imm(v)]
      BY <2>4 DEF Copy, Tac3
    <3>2. r \in Tacs
      BY <1>1, <2>4, <2>5, TacTypes
    <3> QED  BY <3>1, <3>2
  <2>7. ReadBy(r) = {}
    BY <2>5, <2>6 DEF ReadBy
  <2>8. t.op \in BinaryOps \cup {"NOT"}
    BY <1>6, <2>1
  <2>9. Refolds(t, r)
    BY <1>8, <2>6, <2>7, <2>8 DEF Refolds
  <2> QED  BY <2>9 DEF r
<1> QED  BY <1>9, <1>10

LEMMA RefoldsControl ==
  ASSUME NEW t, NEW s, Refolds(t, s)
  PROVE  /\ s.op \in Ends <=> t.op \in Ends
         /\ s.op = "JMP" <=> t.op = "JMP"
         /\ s.op = "CJMP" <=> t.op = "CJMP"
         /\ s.op \in Defines <=> t.op \in Defines
         /\ s.res = t.res /\ (t.op = "CJMP" => s.rhs = t.rhs)
<1>1. \A op \in BinaryOps \cup {"NOT"} : op \notin Ends \cup {"JMP", "CJMP"} /\ op \in Defines
  BY DEF BinaryOps, Ends, Defines, TwoOperands
<1>2. "COPY" \notin Ends \cup {"JMP", "CJMP"} /\ "COPY" \in Defines
  BY DEF Ends, Defines
<1> QED  BY <1>1, <1>2 DEF Refolds

\* Code, instruction by instruction.
Refolded(old, new) ==
  /\ old \in Seq(Tacs) /\ new \in Seq(Tacs) /\ Len(new) = Len(old) /\ DOMAIN new = DOMAIN old
  /\ \A i \in DOMAIN old : Refolds(old[i], new[i])

LEMMA RefoldedTailed ==
  ASSUME NEW old, NEW new, Refolded(old, new), Tailed(old)
  PROVE  Tailed(new)
<1>1. \A i \in DOMAIN old : /\ new[i].op \in Ends <=> old[i].op \in Ends
                            /\ new[i].op = "JMP" <=> old[i].op = "JMP"
                            /\ new[i].op = "CJMP" <=> old[i].op = "CJMP"
                            /\ new[i].res = old[i].res
                            /\ old[i].op = "CJMP" => new[i].rhs = old[i].rhs
  BY RefoldsControl DEF Refolded
<1>2. Len(new) = Len(old) /\ DOMAIN new = DOMAIN old
  BY DEF Refolded
<1> QED  BY <1>1, <1>2 DEF Tailed

LEMMA RefoldedAccepted ==
  ASSUME NEW old, NEW new, Refolded(old, new), NEW labels, Accept(old, labels)
  PROVE  Accept(new, labels)
<1>1. \A i \in DOMAIN old : /\ new[i].op = "JMP" <=> old[i].op = "JMP"
                            /\ new[i].op = "CJMP" <=> old[i].op = "CJMP"
                            /\ new[i].res = old[i].res
                            /\ old[i].op = "CJMP" => new[i].rhs = old[i].rhs
  BY RefoldsControl DEF Refolded
<1>2. new \in Seq(Tacs) /\ DOMAIN new = DOMAIN old
  BY DEF Refolded
<1> QED  BY <1>1, <1>2 DEF Accept

LEMMA RefoldedAssured ==
  ASSUME NEW old, NEW new, Refolded(old, new), NEW D, NEW base, Assured(D, base, old)
  PROVE  Assured(D, base, new)
<1>1. DOMAIN new = DOMAIN old
  BY DEF Refolded
<1>2. \A i \in DOMAIN old : /\ new[i].op = "JMP" <=> old[i].op = "JMP"
                            /\ new[i].op = "CJMP" <=> old[i].op = "CJMP"
                            /\ new[i].op \in Defines <=> old[i].op \in Defines
                            /\ new[i].res = old[i].res
                            /\ old[i].op = "CJMP" => new[i].rhs = old[i].rhs
                            /\ ReadBy(new[i]) \subseteq ReadBy(old[i])
  BY RefoldsControl DEF Refolded, Refolds
<1>3. \A k \in DOMAIN old : Prior(new, k) = Prior(old, k)
  BY <1>1, <1>2 DEF Prior
<1>4. ASSUME NEW k \in DOMAIN old
      PROVE  Allowed(D, new[k], base \cup Prior(new, k))
  <2>1. Allowed(D, old[k], base \cup Prior(old, k))
    BY DEF Assured
  <2>2. PICK have : have = base \cup Prior(old, k) /\ have = base \cup Prior(new, k)
    BY <1>3
  <2>3. Reads(new[k]) \subseteq have
    BY <1>2, <2>1, <2>2 DEF Allowed, Reads
  <2> QED  BY <1>2, <2>1, <2>2, <2>3 DEF Allowed
<1> QED  BY <1>1, <1>4 DEF Assured

\* The block goes where it went.
LEMMA RefoldedFollows ==
  ASSUME NEW a, NEW b, Refolded(a.code, b.code),
         b.trueExit = a.trueExit, b.falseExit = a.falseExit
  PROVE  Targets(b) = Targets(a) /\ (ExitsFollowCode(a) => ExitsFollowCode(b))
<1>1. DOMAIN b.code = DOMAIN a.code
  BY DEF Refolded
<1>2. \A i \in DOMAIN a.code : /\ b.code[i].op = "JMP" <=> a.code[i].op = "JMP"
                               /\ b.code[i].op = "CJMP" <=> a.code[i].op = "CJMP"
                               /\ b.code[i].res = a.code[i].res
                               /\ a.code[i].op = "CJMP" => b.code[i].rhs = a.code[i].rhs
  BY RefoldsControl DEF Refolded
<1>3. \A x : x \in Targets(a) <=>
        \E i \in DOMAIN a.code : \/ a.code[i].op = "JMP" /\ x = a.code[i].res
                                 \/ a.code[i].op = "CJMP" /\ x = a.code[i].rhs.name
  BY DEF Targets, ToSet
<1>4. \A x : x \in Targets(b) <=>
        \E i \in DOMAIN b.code : \/ b.code[i].op = "JMP" /\ x = b.code[i].res
                                 \/ b.code[i].op = "CJMP" /\ x = b.code[i].rhs.name
  BY DEF Targets, ToSet
<1>5. \A x : x \in Targets(b) <=> x \in Targets(a)
  BY <1>1, <1>2, <1>3, <1>4
<1>6. Targets(b) = Targets(a)
  BY <1>5
<1>7. Exits(b) = Exits(a)
  BY DEF Exits
<1>8. ASSUME ExitsFollowCode(a)
      PROVE  \A t \in ToSet(b.code) : t.op = "CJMP" => b.falseExit = t.rhs.name
  <2> SUFFICES ASSUME NEW i \in DOMAIN b.code, b.code[i].op = "CJMP"
               PROVE  b.falseExit = b.code[i].rhs.name
    BY DEF ToSet
  <2>1. a.code[i] \in ToSet(a.code) /\ a.code[i].op = "CJMP"
    BY <1>1, <1>2 DEF ToSet
  <2> QED  BY <1>1, <1>2, <1>8, <2>1 DEF ExitsFollowCode
<1> QED  BY <1>6, <1>7, <1>8 DEF ExitsFollowCode

-----------------------------------------------------------------------------
(***************************************************************************)
(* What the passes keep of a graph: U holds the blocks of methods that are *)
(* outside the short circuits that go wrong, D says what is surely written *)
(* where a block starts.                                                   *)
(***************************************************************************)
Whole(D, U, bs) ==
  /\ AllSound(bs) /\ AllAssured(D, bs) /\ AllTailed(bs)
  /\ IsFiniteSet(DOMAIN bs) /\ NoBlock \notin DOMAIN bs
  /\ U \subseteq DOMAIN bs
  /\ \A b \in U : ExitsFollowCode(bs[b]) /\ Targets(bs[b]) \subseteq U

\* One block is replaced.
LEMMA WholeAfter ==
  ASSUME NEW D, NEW U, NEW bs, Whole(D, U, bs), NEW new, DOMAIN new = DOMAIN bs,
         NEW l, \A b \in DOMAIN bs : b # l => new[b] = bs[b],
         l \in DOMAIN bs =>
           /\ Sound(new[l], DOMAIN bs) /\ Assured(D, D[l], new[l].code) /\ Tailed(new[l].code)
           /\ l \in U => ExitsFollowCode(new[l]) /\ Targets(new[l]) \subseteq U
  PROVE  Whole(D, U, new)
<1>1. AllSound(new)
  BY DEF Whole, AllSound
<1>2. AllAssured(D, new)
  BY DEF Whole, AllAssured
<1>3. AllTailed(new)
  BY DEF Whole, AllTailed
<1>4. \A b \in U : ExitsFollowCode(new[b]) /\ Targets(new[b]) \subseteq U
  BY DEF Whole
<1> QED  BY <1>1, <1>2, <1>3, <1>4 DEF Whole

\* Constant folding takes an instruction.
LEMMA FoldKeepsWhole ==
  ASSUME NEW D, NEW U, NEW bs, Whole(D, U, bs), NEW l, NEW i, NEW s,
         l \in DOMAIN bs /\ i \in DOMAIN bs[l].code => Refolds(bs[l].code[i], s)
  PROVE  Whole(D, U, [bs EXCEPT ![l].code[i] = s])
<1> DEFINE new == [bs EXCEPT ![l].code[i] = s]
<1>1. DOMAIN new = DOMAIN bs /\ \A b \in DOMAIN bs : b # l => new[b] = bs[b]
  OBVIOUS
<1>2. ASSUME l \in DOMAIN bs
      PROVE  /\ Sound(new[l], DOMAIN bs) /\ Assured(D, D[l], new[l].code) /\ Tailed(new[l].code)
             /\ l \in U => ExitsFollowCode(new[l]) /\ Targets(new[l]) \subseteq U
  <2> DEFINE old == bs[l].code
             now == [old EXCEPT ![i] = s]
  <2>1. Sound(bs[l], DOMAIN bs) /\ Assured(D, D[l], old) /\ Tailed(old)
    BY <1>2 DEF Whole, AllSound, AllAssured, AllTailed
  <2>2. bs[l] \in Blocks /\ old \in Seq(Tacs) /\ \A j \in DOMAIN old : old[j] \in Tacs
    BY <2>1 DEF Sound, Blocks
  <2>3. new[l] = [bs[l] EXCEPT !.code = now]
    BY <1>2
  <2> HIDE DEF new
  <2>4. DOMAIN now = DOMAIN old /\ \A j \in DOMAIN old : now[j] = IF j = i THEN s ELSE old[j]
    OBVIOUS
  <2>5. \A j \in DOMAIN old : Refolds(old[j], now[j])
    BY <1>2, <2>2, <2>4, SameRefolds
  <2>6. now \in Seq(Tacs) /\ Len(now) = Len(old)
    <3>1. \A j \in DOMAIN old : now[j] \in Tacs
      BY <2>5 DEF Refolds
    <3>2. Len(old) \in Nat /\ DOMAIN old = 1 .. Len(old)
      BY <2>2
    <3>3. now \in [1 .. Len(old) -> Tacs]
      BY <2>4, <3>1, <3>2
    <3> HIDE DEF now, old
    <3> QED  BY <3>2, <3>3
  <2>7. Refolded(old, now)
    BY <2>2, <2>4, <2>5, <2>6 DEF Refolded
  <2> HIDE DEF now
  <2>8. /\ new[l] \in Blocks /\ new[l].code = now
        /\ new[l].trueExit = bs[l].trueExit /\ new[l].falseExit = bs[l].falseExit
    BY <2>2, <2>3, <2>6 DEF Blocks
  <2> HIDE DEF old
  <2>9. Tailed(now) /\ Accept(now, DOMAIN bs) /\ Assured(D, D[l], now)
    <3>1. Accept(old, DOMAIN bs)
      BY <2>1 DEF Sound, old
    <3>2. PICK base : base = D[l]
      OBVIOUS
    <3>3. Assured(D, base, now)
      BY <2>1, <2>7, <3>2, RefoldedAssured
    <3> QED  BY <2>1, <2>7, <3>1, <3>2, <3>3, RefoldedTailed, RefoldedAccepted
  <2>10. Sound(new[l], DOMAIN bs)
    BY <2>1, <2>8, <2>9 DEF Sound
  <2>11. Targets(new[l]) = Targets(bs[l]) /\ (ExitsFollowCode(bs[l]) => ExitsFollowCode(new[l]))
    BY <2>7, <2>8, RefoldedFollows DEF old
  <2> QED  BY <2>8, <2>9, <2>10, <2>11 DEF Whole
<1> HIDE DEF new
<1>3. Whole(D, U, new)
  BY <1>1, <1>2, WholeAfter
<1> QED  BY <1>3 DEF new

\* Every method starts in a block that is held, with nothing written.
Roots(D, U) ==
  \A i \in DOMAIN source :
    source[i].name \in U /\ D[source[i].name] = {} /\ temps[source[i].name] \subseteq TempNames

\* What the generator hands to the passes is such a graph.
LEMMA GeneratedWhole ==
  IInv /\ Assigned /\ Partition /\ AllTailed(blocks) /\ Generated /\ OutsideShortCircuits =>
    \E D, U : Whole(D, U, blocks) /\ Roots(D, U)
<1> SUFFICES ASSUME IInv, Partition, AllTailed(blocks), agenda = <<>>, OutsideShortCircuits,
                    NEW D, NEW h, Definite(D, h)
             PROVE  \E U : Whole(D, U, blocks) /\ Roots(D, U)
  BY DEF Assigned, Generated
<1> DEFINE Fine(S) == \A l \in S : Targets(blocks[l]) \subseteq S /\ ExitsFollowCode(blocks[l])
           U == UNION {S \in SUBSET DOMAIN blocks : Fine(S)}
<1>1. AllSound(blocks) /\ AllAssured(D, blocks)
  BY LinkedIs DEF IInv, Definite
<1>2. U \subseteq DOMAIN blocks
  OBVIOUS
<1>3. \A b \in U : ExitsFollowCode(blocks[b]) /\ Targets(blocks[b]) \subseteq U
  OBVIOUS
<1>4. IsFiniteSet(DOMAIN blocks) /\ NoBlock \notin DOMAIN blocks
  BY FinitelyMany, RealBlocks
<1>5. ASSUME NEW i \in DOMAIN source
      PROVE  source[i].name \in U /\ D[source[i].name] = {} /\ temps[source[i].name] \subseteq TempNames
  <2> DEFINE n == source[i].name
  <2>1. DOMAIN temps = {source[k].name : k \in DOMAIN source} /\ \A k, l \in DOMAIN source : source[k].name = source[l].name => k = l
    BY SourceAssumption DEF IInv, Counters
  <2>2. ~RightNested(source[i].body)
    BY DEF OutsideShortCircuits, ToSet
  <2>3. n \in DOMAIN temps /\ NotNested(n)
    BY <2>1, <2>2 DEF NotNested
  <2>4. PICK S : Region(S, n)
    BY <2>3 DEF Partition, Regions
  <2>5. n \in DOMAIN blocks
    <3>1. DOMAIN agenda = {}
      OBVIOUS
    <3> QED  BY <2>3, <3>1 DEF Partition, Begun
  <2>6. n \in S /\ S \subseteq DOMAIN blocks /\ \A l \in S : Targets(blocks[l]) \subseteq S
    BY <2>4, <2>5 DEF Region
  <2>7. \A l \in S : ExitsFollowCode(blocks[l])
    BY <2>4, RegionAtEnd
  <2>8. n \in U
    BY <2>6, <2>7
  <2>9. D[n] = {}
    BY <2>3, <2>5 DEF Definite
  <2>10. temps[n] \subseteq TempNames
    <3>1. temps[n] \subseteq MadeTemps /\ nextTemp \in Nat
      BY <2>3 DEF IInv, Counters, AllOf
    <3> QED  BY <3>1 DEF MadeTemps, TempNames
  <2> QED  BY <2>8, <2>9, <2>10
<1> HIDE DEF U
<1>6. Whole(D, U, blocks)
  BY <1>1, <1>2, <1>3, <1>4 DEF Whole, IInv
<1>7. Roots(D, U)
  BY <1>5 DEF Roots
<1> QED  BY <1>6, <1>7

\* Constant folding keeps it so.
LEMMA ConstantsWhole ==
  ASSUME NEW D, NEW U, Whole(D, U, blocks), ConstantFoldingPass!Pass
  PROVE  Whole(D, U, blocks')
<1>1. CASE ConstantFoldingPass!FoldInstruction
  <2> DEFINE l == place.block
             i == place.at
             s == ConstantFoldingPass!Rewritten(env, blocks[l].code[i])
  <2>1. blocks' = [blocks EXCEPT ![l].code[i] = s]
    BY <1>1 DEF ConstantFoldingPass!FoldInstruction, ConstantFoldingPass!code
  <2>2. ASSUME l \in DOMAIN blocks, i \in DOMAIN blocks[l].code
        PROVE  Refolds(blocks[l].code[i], s)
    <3>1. Sound(blocks[l], DOMAIN blocks)
      BY <2>2 DEF Whole, AllSound
    <3>2. blocks[l].code \in Seq(Tacs)
      BY <3>1 DEF Sound, Accept
    <3>3. PICK t \in Tacs : t = blocks[l].code[i]
      BY <2>2, <3>2
    <3>4. Refolds(t, ConstantFoldingPass!Rewritten(env, t))
      BY RewrittenIs
    <3> QED  BY <3>3, <3>4
  <2> HIDE DEF l, i, s
  <2>3. Whole(D, U, [blocks EXCEPT ![l].code[i] = s])
    BY <2>2, FoldKeepsWhole
  <2> QED  BY <2>1, <2>3
<1>2. CASE ConstantFoldingPass!VisitBlock \/ ConstantFoldingPass!LeaveBlock
  <2>1. blocks' = blocks
    BY <1>2 DEF ConstantFoldingPass!VisitBlock, ConstantFoldingPass!LeaveBlock
  <2> QED  BY <2>1
<1> QED  BY <1>1, <1>2 DEF ConstantFoldingPass!Pass

-----------------------------------------------------------------------------
(***************************************************************************)
(* The blocks the passes reach.                                            *)
(***************************************************************************)
IsWaves(f, bs, root, d) ==
  f = [e \in 0 .. d |-> IF e = 0 THEN {root} ELSE UNION {{b} \cup Exits(bs[b]) : b \in f[e - 1]}]

LEMMA WavesExist ==
  ASSUME NEW bs, NEW root
  PROVE  \A d \in Nat : \E f : IsWaves(f, bs, root, d)
<1> DEFINE S == {d \in Nat : \E f : IsWaves(f, bs, root, d)}
<1>1. 0 \in S
  <2>1. IsWaves([e \in 0 .. 0 |-> {root}], bs, root, 0)
    BY DEF IsWaves
  <2> QED  BY <2>1
<1>2. ASSUME NEW d \in Nat, d \in S
      PROVE  d + 1 \in S
  <2>1. PICK f : IsWaves(f, bs, root, d)
    BY <1>2
  <2> DEFINE g == [e \in 0 .. d + 1 |->
                     IF e = 0 THEN {root} ELSE UNION {{b} \cup Exits(bs[b]) : b \in f[e - 1]}]
  <2>2. ASSUME NEW e \in 0 .. d
        PROVE  g[e] = f[e]
    <3>1. e \in 0 .. d + 1
      OBVIOUS
    <3>2. f[e] = IF e = 0 THEN {root} ELSE UNION {{b} \cup Exits(bs[b]) : b \in f[e - 1]}
      BY <2>1, Zenon DEF IsWaves
    <3> QED  BY <3>1, <3>2, Zenon
  <2>3. g = [e \in 0 .. d + 1 |->
               IF e = 0 THEN {root} ELSE UNION {{b} \cup Exits(bs[b]) : b \in f[e - 1]}]
    OBVIOUS
  <2> HIDE DEF g
  <2>4. ASSUME NEW e \in 0 .. d + 1, e # 0
        PROVE  g[e - 1] = f[e - 1]
    <3>1. e - 1 \in 0 .. d
      BY <2>4
    <3> QED  BY <2>2, <3>1
  <2>5. IsWaves(g, bs, root, d + 1)
    BY <2>3, <2>4 DEF IsWaves
  <2> QED  BY <2>5
<1> HIDE DEF S
<1>3. Nat \subseteq S
  BY <1>1, <1>2, Induction
<1> QED  BY <1>3 DEF S

Waves(f, bs, root, c) ==
  /\ ReachableBlocks(bs, root) = f[c]
  /\ f[0] = {root}
  /\ \A d \in 0 .. c : d # 0 => f[d] = UNION {{b} \cup Exits(bs[b]) : b \in f[d - 1]}

LEMMA WavesAre ==
  ASSUME NEW bs, IsFiniteSet(DOMAIN bs), NEW root
  PROVE  \E f : Waves(f, bs, root, Cardinality(DOMAIN bs))
<1> DEFINE c == Cardinality(DOMAIN bs)
           f == CHOOSE f : IsWaves(f, bs, root, c)
<1>1. c \in Nat
  BY FS_CardinalityType
<1>2. ReachableBlocks(bs, root) = f[c]
  BY DEF ReachableBlocks, Reachable, IsWaves
<1>3. IsWaves(f, bs, root, c)
  BY <1>1, WavesExist
<1> HIDE DEF f, c
<1>4. /\ f[0] = {root}
      /\ \A d \in 0 .. c : d # 0 => f[d] = UNION {{b} \cup Exits(bs[b]) : b \in f[d - 1]}
  <2>1. 0 \in 0 .. c
    BY <1>1
  <2>2. \A d \in 0 .. c :
          f[d] = IF d = 0 THEN {root} ELSE UNION {{b} \cup Exits(bs[b]) : b \in f[d - 1]}
    BY <1>3, Zenon DEF IsWaves
  <2> QED  BY <2>1, <2>2, Zenon
<1>5. Waves(f, bs, root, c)
  BY <1>2, <1>4 DEF Waves
<1> QED  BY <1>5 DEF c

\* What a pass reaches stays within what leads nowhere else, and a pass that
\* takes exits away reaches no more than before.
LEMMA ReachShrinks ==
  ASSUME NEW bs, IsFiniteSet(DOMAIN bs), NEW new, DOMAIN new = DOMAIN bs, NEW U, NEW root \in U,
         \A b \in U : Exits(bs[b]) \subseteq U /\ Exits(new[b]) \subseteq Exits(bs[b])
  PROVE  ReachableBlocks(new, root) \subseteq ReachableBlocks(bs, root)
         /\ ReachableBlocks(bs, root) \subseteq U
<1>1. PICK c : c = Cardinality(DOMAIN bs) /\ c = Cardinality(DOMAIN new) /\ c \in Nat
  BY FS_CardinalityType
<1>2. PICK f : Waves(f, bs, root, c)
  BY <1>1, WavesAre
<1>3. PICK g : Waves(g, new, root, c)
  BY <1>1, WavesAre
<1> DEFINE K == {d \in Nat : d <= c => g[d] \subseteq f[d] /\ f[d] \subseteq U}
<1>4. 0 \in K
  BY <1>2, <1>3 DEF Waves
<1>5. ASSUME NEW d \in Nat, d \in K
      PROVE  d + 1 \in K
  <2> SUFFICES ASSUME d + 1 <= c
               PROVE  g[d + 1] \subseteq f[d + 1] /\ f[d + 1] \subseteq U
    OBVIOUS
  <2>1. d + 1 \in 0 .. c /\ (d + 1) - 1 = d /\ d + 1 # 0 /\ d <= c
    BY <1>1
  <2>2. g[d] \subseteq f[d] /\ f[d] \subseteq U
    BY <1>5, <2>1
  <2>3. f[d + 1] = UNION {{b} \cup Exits(bs[b]) : b \in f[d]}
    BY <1>2, <2>1 DEF Waves
  <2>4. g[d + 1] = UNION {{b} \cup Exits(new[b]) : b \in g[d]}
    BY <1>3, <2>1 DEF Waves
  <2> QED  BY <2>2, <2>3, <2>4
<1> HIDE DEF K
<1>6. Nat \subseteq K
  BY <1>4, <1>5, Induction
<1>7. g[c] \subseteq f[c] /\ f[c] \subseteq U
  BY <1>1, <1>6 DEF K
<1> QED  BY <1>2, <1>3, <1>7 DEF Waves

LEMMA WholeReaches ==
  ASSUME NEW D, NEW U, NEW bs, Whole(D, U, bs), NEW root \in U
  PROVE  ReachableBlocks(bs, root) \subseteq U
<1>1. \A b \in U : Exits(bs[b]) \subseteq U
  BY DEF Whole, ExitsFollowCode
<1> QED  BY <1>1, ReachShrinks DEF Whole

\* The pass means the same by what is reachable.
LEMMA SameReach ==
  \A bs, root : ConditionalJumpFoldingPass!ReachableBlocks(bs, root) = ReachableBlocks(bs, root)
BY DEF ConditionalJumpFoldingPass!ReachableBlocks, ConditionalJumpFoldingPass!Reachable,
   ConditionalJumpFoldingPass!Exits, ConditionalJumpFoldingPass!NoBlock,
   ConditionalJumpFoldingPass!Cardinality, Cardinality,
   ReachableBlocks, Reachable, Exits, NoBlock

-----------------------------------------------------------------------------
(***************************************************************************)
(* Where a block divides, the two exits are the labels of its last two     *)
(* instructions, and nothing follows them.                                 *)
(***************************************************************************)
LEMMA Divided ==
  ASSUME NEW D, NEW U, NEW bs, Whole(D, U, bs), NEW l \in U, NEW i \in DOMAIN bs[l].code,
         bs[l].code[i].op = "CJMP"
  PROVE  /\ i + 1 = Len(bs[l].code) /\ i + 1 \in DOMAIN bs[l].code /\ bs[l].code[i + 1].op = "JMP"
         /\ bs[l].falseExit = bs[l].code[i].rhs.name /\ bs[l].falseExit \in U
         /\ bs[l].trueExit = bs[l].code[i + 1].res /\ bs[l].trueExit \in U
         /\ bs[l].code \in Seq(Tacs)
<1> DEFINE code == bs[l].code
<1>1. l \in DOMAIN bs /\ Sound(bs[l], DOMAIN bs) /\ Tailed(code) /\ ExitsFollowCode(bs[l]) /\ Targets(bs[l]) \subseteq U
  BY DEF Whole, AllSound, AllTailed
<1>2. code \in Seq(Tacs)
  BY <1>1 DEF Sound, Accept
<1>3. i + 1 \in DOMAIN code /\ code[i + 1].op = "JMP" /\ code[i + 1].res # code[i].rhs.name
  BY <1>1 DEF Tailed
<1>4. i + 1 = Len(code)
  BY <1>1, <1>3 DEF Tailed, Ends
<1>5. code[i] \in ToSet(code) /\ code[i + 1] \in ToSet(code)
  BY <1>3 DEF ToSet
<1>6. code[i].rhs.name \in Targets(bs[l]) /\ code[i + 1].res \in Targets(bs[l])
  BY <1>3, <1>5 DEF Targets
<1>7. bs[l].falseExit = code[i].rhs.name
  BY <1>1, <1>5 DEF ExitsFollowCode
<1>8. code[i + 1].res \in {bs[l].trueExit, bs[l].falseExit}
  BY <1>1, <1>6 DEF ExitsFollowCode, Exits
<1> QED  BY <1>1, <1>2, <1>3, <1>4, <1>6, <1>7, <1>8

\* The code up to an instruction, a jump, and what follows the next one.
Cut(code, i, x) == SubSeq(code, 1, i - 1) \o <<Jump(x)>> \o SubSeq(code, i + 2, Len(code))

LEMMA CutIs ==
  ASSUME NEW code \in Seq(Tacs), NEW i \in DOMAIN code, i + 1 = Len(code), NEW x, Jump(x) \in Tacs
  PROVE  /\ Cut(code, i, x) \in Seq(Tacs) /\ DOMAIN Cut(code, i, x) = 1 .. i /\ Len(Cut(code, i, x)) = i
         /\ \A j \in 1 .. i : Cut(code, i, x)[j] = IF j = i THEN Jump(x) ELSE code[j]
<1> DEFINE s == SubSeq(code, 1, i - 1)
           r == SubSeq(code, i + 2, Len(code))
           q == Jump(x)
           a == s \o <<q>>
<1>1. i \in Nat \ {0} /\ Len(code) \in Nat /\ DOMAIN code = 1 .. Len(code)
  OBVIOUS
<1>2. s \in Seq(Tacs) /\ Len(s) = i - 1 /\ \A j \in 1 .. i - 1 : s[j] = code[j]
  <2>1. i - 1 \in 0 .. Len(code)
    BY <1>1
  <2> QED  BY <1>1, <2>1
<1>3. r = <<>>
  <2>1. i + 2 > Len(code) /\ i + 2 \in Int /\ Len(code) \in Int
    BY <1>1
  <2> QED  BY <2>1
<1> HIDE DEF s, r, q
<1>4. q \in Tacs
  BY DEF q
<1>5. a \in Seq(Tacs) /\ Len(a) = i /\ \A j \in 1 .. i : a[j] = IF j = i THEN q ELSE code[j]
  <2>1. <<q>> \in Seq(Tacs) /\ Len(<<q>>) = 1 /\ <<q>>[1] = q
    BY <1>4
  <2>2. Len(s) \in Nat /\ (i - 1) + 1 = i
    BY <1>1, <1>2
  <2>3. a \in Seq(Tacs) /\ Len(a) = i
    BY <1>2, <2>1, <2>2, ConcatProperties
  <2>4. ASSUME NEW j \in 1 .. i
        PROVE  a[j] = IF j = i THEN q ELSE code[j]
    <3>1. a[j] = IF j <= i - 1 THEN s[j] ELSE <<q>>[j - (i - 1)]
      <4>1. j \in 1 .. Len(s) + Len(<<q>>) /\ Len(s) = i - 1
        BY <1>1, <1>2, <2>1, <2>4
      <4>2. a[j] = IF j <= Len(s) THEN s[j] ELSE <<q>>[j - Len(s)]
        BY <1>2, <2>1, <4>1, ConcatProperties
      <4> QED  BY <4>1, <4>2
    <3>2. CASE j = i
      <4>1. ~(j <= i - 1) /\ j - (i - 1) = 1
        BY <1>1, <3>2
      <4> QED  BY <2>1, <3>1, <3>2, <4>1
    <3>3. CASE j # i
      <4>1. j \in 1 .. i - 1 /\ j <= i - 1
        BY <1>1, <2>4, <3>3
      <4> QED  BY <1>2, <3>1, <3>3, <4>1
    <3> QED  BY <3>2, <3>3
  <2> QED  BY <2>3, <2>4
<1> HIDE DEF a
<1>6. a \o r = a
  BY <1>3, <1>5
<1>7. Cut(code, i, x) = a
  BY <1>6 DEF Cut, a, s, r, q
<1>8. DOMAIN a = 1 .. i
  BY <1>5
<1> QED  BY <1>5, <1>7, <1>8 DEF q

\* What a block keeps when it is cut at its conditional jump.
CutWell(now, D, U, bs, l) ==
  /\ Sound(now, DOMAIN bs) /\ Assured(D, D[l], now.code) /\ Tailed(now.code)
  /\ ExitsFollowCode(now) /\ Targets(now) \subseteq U /\ Exits(now) \subseteq Exits(bs[l])
  /\ \A j \in DOMAIN now.code : now.code[j].op # "CJMP"

LEMMA CutBlock ==
  ASSUME NEW D, NEW U, NEW bs, Whole(D, U, bs), NEW l \in U, NEW i \in DOMAIN bs[l].code,
         bs[l].code[i].op = "CJMP", NEW x \in Exits(bs[l])
  PROVE  CutWell(Block(Cut(bs[l].code, i, x), x, NoBlock), D, U, bs, l)
<1> USE DEF CutWell
<1> DEFINE code == bs[l].code
           cut == Cut(code, i, x)
           q == Jump(x)
           now == Block(cut, x, NoBlock)
<1>1. /\ l \in DOMAIN bs /\ U \subseteq DOMAIN bs /\ NoBlock \notin DOMAIN bs
      /\ Sound(bs[l], DOMAIN bs) /\ Assured(D, D[l], code) /\ Tailed(code)
  BY DEF Whole, AllSound, AllTailed, AllAssured
<1>2. /\ i + 1 = Len(code) /\ i + 1 \in DOMAIN code /\ code[i + 1].op = "JMP" /\ code \in Seq(Tacs)
      /\ bs[l].falseExit = code[i].rhs.name /\ bs[l].falseExit \in U
      /\ bs[l].trueExit = code[i + 1].res /\ bs[l].trueExit \in U
  BY Divided
<1>3. x \in U /\ x \in DOMAIN bs /\ x # NoBlock /\ (x = code[i].rhs.name \/ x = code[i + 1].res)
  BY <1>1, <1>2 DEF Exits
<1>4. x \in Texts
  <2>1. bs[l].trueExit \in Texts /\ bs[l].falseExit \in Texts
    BY <1>1 DEF Sound, Blocks
  <2> QED  BY <2>1 DEF Exits
<1>5. q \in Tacs /\ q.op = "JMP" /\ q.res = x
  BY <1>4, OperandTypes DEF Jump, Tac3, Tacs, TacOps
<1> HIDE DEF q
<1>6. /\ cut \in Seq(Tacs) /\ DOMAIN cut = 1 .. i /\ Len(cut) = i
      /\ \A j \in 1 .. i : cut[j] = IF j = i THEN q ELSE code[j]
  <2>1. Jump(x) \in Tacs
    BY <1>5 DEF q
  <2>2. PICK c \in Seq(Tacs) : c = code
    BY <1>2
  <2>3. /\ Cut(c, i, x) \in Seq(Tacs) /\ DOMAIN Cut(c, i, x) = 1 .. i /\ Len(Cut(c, i, x)) = i
        /\ \A j \in 1 .. i : Cut(c, i, x)[j] = IF j = i THEN Jump(x) ELSE c[j]
    <3>1. i \in DOMAIN c /\ i + 1 = Len(c)
      BY <1>2, <2>2
    <3> QED  BY <2>1, <3>1, CutIs
  <2> QED  BY <2>2, <2>3 DEF q
<1>7. i \in Nat \ {0} /\ DOMAIN code = 1 .. i + 1
  BY <1>2
<1> HIDE DEF cut
<1>8. \A j \in 1 .. i : j # i => j \in DOMAIN code /\ code[j].op \notin Ends \cup {"JMP", "CJMP"}
  <2> SUFFICES ASSUME NEW j \in 1 .. i, j # i
               PROVE  j \in DOMAIN code /\ code[j].op \notin Ends \cup {"JMP", "CJMP"}
    OBVIOUS
  <2>1. j \in DOMAIN code /\ j # i + 1
    BY <1>7
  <2>2. code[j].op \notin Ends
    BY <1>1, <1>2, <2>1 DEF Tailed
  <2>3. code[j].op # "CJMP"
    <3> SUFFICES ASSUME code[j].op = "CJMP"
                 PROVE  FALSE
      OBVIOUS
    <3>1. j + 1 \in DOMAIN code /\ code[j + 1].op = "JMP"
      BY <1>1, <2>1 DEF Tailed
    <3>2. j + 1 = i + 1
      BY <1>1, <1>2, <3>1 DEF Tailed, Ends
    <3> QED  BY <1>7, <3>2
  <2> QED  BY <2>1, <2>2, <2>3 DEF Ends
<1>9. now.code = cut /\ now.trueExit = x /\ now.falseExit = NoBlock /\ now \in Blocks
  <2>1. NoBlock \in Texts
    BY NoLabels DEF NoBlock
  <2> QED  BY <1>4, <1>6, <2>1 DEF Block, Blocks
<1> HIDE DEF now
<1>10. \A j \in DOMAIN cut : /\ cut[j].op # "CJMP"
                             /\ cut[j].op \in Ends \cup {"JMP"} => j = i /\ cut[j] = q
  BY <1>5, <1>6, <1>8
<1>11. Tailed(cut)
  BY <1>6, <1>10 DEF Tailed
<1>12. Accept(cut, DOMAIN bs)
  BY <1>3, <1>5, <1>6, <1>10 DEF Accept
<1>13. Sound(now, DOMAIN bs)
  BY <1>3, <1>9, <1>12 DEF Sound
<1>14. Targets(now) = {x}
  <2>1. i \in DOMAIN cut /\ cut[i] = q
    BY <1>6, <1>7
  <2>2. \A y : y \in Targets(now) <=>
          \E j \in DOMAIN cut : \/ cut[j].op = "JMP" /\ y = cut[j].res
                                \/ cut[j].op = "CJMP" /\ y = cut[j].rhs.name
    BY <1>9 DEF Targets, ToSet
  <2> QED  BY <1>5, <1>10, <2>1, <2>2
<1>15. Exits(now) = {x}
  BY <1>3, <1>9 DEF Exits
<1>16. ExitsFollowCode(now)
  BY <1>9, <1>10, <1>14, <1>15 DEF ExitsFollowCode, ToSet
<1>17. Assured(D, D[l], cut)
  <2> PICK base : base = D[l]
    OBVIOUS
  <2>1. \A j \in DOMAIN code : Allowed(D, code[j], base \cup Prior(code, j))
    BY <1>1 DEF Assured
  <2>2. ASSUME NEW j \in 1 .. i
        PROVE  Prior(cut, j) = Prior(code, j)
    <3>1. \A k \in 1 .. i : k < j => cut[k] = code[k] /\ k \in DOMAIN code
      BY <1>6, <1>7
    <3>2. \A k \in DOMAIN code : k < j => k \in 1 .. i
      BY <1>7
    <3> QED  BY <1>6, <3>1, <3>2 DEF Prior
  <2>3. ASSUME NEW j \in 1 .. i, j # i
        PROVE  Allowed(D, cut[j], base \cup Prior(cut, j))
    BY <1>6, <1>8, <2>1, <2>2, <2>3
  <2>4. Prior(code, i + 1) = Prior(code, i)
    <3>1. "CJMP" \notin Defines
      BY DEF Defines, TwoOperands, BinaryOps
    <3>2. \A k \in DOMAIN code : (k < i + 1 /\ code[k].op \in Defines) <=> (k < i /\ code[k].op \in Defines)
      BY <1>7, <3>1
    <3> QED  BY <3>2 DEF Prior
  <2>5. Allowed(D, q, base \cup Prior(cut, i))
    <3>1. Reads(q) = {}
      <4>1. "JMP" \notin ReadsLhs \cup ReadsRhs \cup {"ARRAY_STORE"}
        BY DEF ReadsLhs, ReadsRhs, TwoOperands, BinaryOps
      <4> QED  BY <1>5, <4>1 DEF Reads, ReadBy
    <3>2. Prior(cut, i) = Prior(code, i)
      BY <1>7, <2>2
    <3>3. D[x] \subseteq base \cup Prior(code, i)
      <4>1. Allowed(D, code[i], base \cup Prior(code, i))
        BY <2>1
      <4>2. Allowed(D, code[i + 1], base \cup Prior(code, i))
        BY <1>2, <2>1, <2>4
      <4> QED  BY <1>2, <1>3, <4>1, <4>2 DEF Allowed
    <3> QED  BY <1>5, <3>1, <3>2, <3>3 DEF Allowed
  <2>6. \A j \in 1 .. i : Allowed(D, cut[j], base \cup Prior(cut, j))
    BY <1>6, <2>3, <2>5
  <2> QED  BY <1>6, <2>6 DEF Assured
<1> QED
  BY <1>3, <1>9, <1>10, <1>11, <1>13, <1>14, <1>15, <1>16, <1>17 DEF now, cut

-----------------------------------------------------------------------------
(***************************************************************************)
(* The jump folding pass: it has reached all that can be reached, and      *)
(* behind it no conditional jump has a constant condition.                 *)
(***************************************************************************)
Constant(t) == t.op = "CJMP" /\ t.lhs.imm

JumpsInv(D, U) ==
  /\ Whole(D, U, blocks) /\ Roots(D, U)
  /\ names \subseteq U /\ left \subseteq names
  /\ place = ConditionalJumpFoldingPass!Nowhere \/ place \in [block : names \ left, at : Nat \ {0}]
  /\ \A b \in names \ left : \A i \in DOMAIN blocks[b].code :
       Constant(blocks[b].code[i]) => place.block = b /\ i >= place.at
  /\ \A k \in DOMAIN source : ReachableBlocks(blocks, source[k].name) \subseteq names

LEMMA StartJumps ==
  ASSUME NEW D, NEW U, Whole(D, U, blocks), Roots(D, U), ConditionalJumpFoldingPass!Start(source),
         UNCHANGED irVars
  PROVE  JumpsInv(D, U)'
<1>1. /\ names' = UNION {ReachableBlocks(blocks, m.name) : m \in ToSet(source)}
      /\ left' = names' /\ place' = ConditionalJumpFoldingPass!Nowhere
  BY SameReach DEF ConditionalJumpFoldingPass!Start, ConditionalJumpFoldingPass!ToSet, ToSet
<1>2. blocks' = blocks /\ source' = source /\ temps' = temps
  BY DEF irVars
<1>3. \A k \in DOMAIN source : source[k] \in ToSet(source)
  BY DEF ToSet
<1>4. \A m \in ToSet(source) : m.name \in U
  BY DEF ToSet, Roots
<1>5. names' \subseteq U
  BY <1>1, <1>4, WholeReaches
<1>6. \A k \in DOMAIN source : ReachableBlocks(blocks, source[k].name) \subseteq names'
  BY <1>1, <1>3
<1>7. Whole(D, U, blocks)' /\ Roots(D, U)'
  BY <1>2 DEF Roots
<1> QED  BY <1>1, <1>2, <1>5, <1>6, <1>7 DEF JumpsInv

\* A conditional jump on a constant is decided, for one of the block's exits.
LEMMA ConstantDecided ==
  ASSUME NEW D, NEW U, Whole(D, U, blocks), place.block \in U,
         place.at \in DOMAIN blocks[place.block].code, Constant(blocks[place.block].code[place.at])
  PROVE  /\ ConditionalJumpFoldingPass!Decided /\ ConditionalJumpFoldingPass!JumpsNext
         /\ ConditionalJumpFoldingPass!TargetLabel \in Exits(blocks[place.block])
         /\ ConditionalJumpFoldingPass!TargetBlock = ConditionalJumpFoldingPass!TargetLabel
<1> PICK l \in U : l = place.block
  OBVIOUS
<1> PICK i \in DOMAIN blocks[l].code : i = place.at
  OBVIOUS
<1> DEFINE code == blocks[l].code
<1>1. code[i].op = "CJMP" /\ code[i].lhs.imm
  BY DEF Constant
<1>2. /\ i + 1 = Len(code) /\ i + 1 \in DOMAIN code /\ code[i + 1].op = "JMP" /\ code \in Seq(Tacs)
      /\ blocks[l].falseExit = code[i].rhs.name /\ blocks[l].falseExit \in U
      /\ blocks[l].trueExit = code[i + 1].res /\ blocks[l].trueExit \in U
  <2>1. l \in U /\ i \in DOMAIN blocks[l].code /\ blocks[l].code[i].op = "CJMP" /\ Whole(D, U, blocks)
    BY <1>1
  <2> HIDE DEF code
  <2>2. /\ i + 1 = Len(blocks[l].code) /\ i + 1 \in DOMAIN blocks[l].code
        /\ blocks[l].code[i + 1].op = "JMP" /\ blocks[l].code \in Seq(Tacs)
        /\ blocks[l].falseExit = blocks[l].code[i].rhs.name /\ blocks[l].falseExit \in U
        /\ blocks[l].trueExit = blocks[l].code[i + 1].res /\ blocks[l].trueExit \in U
    BY <2>1, Divided, SMTT(30)
  <2> QED  BY <2>2 DEF code
<1>3. NoBlock \notin U /\ ConditionalJumpFoldingPass!NoBlock = NoBlock
  BY DEF Whole, ConditionalJumpFoldingPass!NoBlock, NoBlock
<1>4. ConditionalJumpFoldingPass!block = blocks[l] /\ ConditionalJumpFoldingPass!instr = code[i]
  BY DEF ConditionalJumpFoldingPass!block, ConditionalJumpFoldingPass!instr
<1>5. ConditionalJumpFoldingPass!JumpsNext
  <2>1. code \in Seq(Tacs) /\ i \in DOMAIN code /\ i + 1 = Len(code)
    BY <1>2
  <2> HIDE DEF code
  <2>2. i < Len(code)
    BY <2>1
  <2> QED  BY <1>2, <1>4, <2>2 DEF ConditionalJumpFoldingPass!JumpsNext, code
<1>6. ConditionalJumpFoldingPass!TargetLabel =
        IF code[i].lhs.num = 0 THEN blocks[l].falseExit ELSE blocks[l].trueExit
  BY <1>2, <1>4, <1>5 DEF ConditionalJumpFoldingPass!TargetLabel
<1>7. ConditionalJumpFoldingPass!TargetBlock = ConditionalJumpFoldingPass!TargetLabel
  BY <1>2, <1>3, <1>4, <1>6 DEF ConditionalJumpFoldingPass!TargetBlock
<1>8. ConditionalJumpFoldingPass!TargetLabel \in Exits(blocks[l])
      /\ ConditionalJumpFoldingPass!TargetLabel # NoBlock
  BY <1>2, <1>3, <1>6 DEF Exits
<1> QED  BY <1>1, <1>3, <1>4, <1>5, <1>7, <1>8 DEF ConditionalJumpFoldingPass!Decided

LEMMA FoldedJumps ==
  ASSUME NEW D, NEW U, JumpsInv(D, U), ConditionalJumpFoldingPass!FoldJump, UNCHANGED <<source, temps>>
  PROVE  JumpsInv(D, U)'
<1> DEFINE l == place.block
           i == place.at
           code == blocks[l].code
           x == ConditionalJumpFoldingPass!TargetLabel
           now == Block(Cut(code, i, x), x, NoBlock)
<1>1. /\ place \in [block : names \ left, at : Nat \ {0}] /\ i <= Len(code)
      /\ ConditionalJumpFoldingPass!Decided /\ UNCHANGED <<names, left>> /\ place' = [place EXCEPT !.at = @ + 1]
  BY DEF JumpsInv, ConditionalJumpFoldingPass!FoldJump, ConditionalJumpFoldingPass!block,
     ConditionalJumpFoldingPass!Advance
<1>2. Whole(D, U, blocks) /\ l \in names \ left /\ l \in U /\ i \in Nat \ {0}
  BY <1>1 DEF JumpsInv
<1>3. i \in DOMAIN code
  <2>1. code \in Seq(Tacs)
    BY <1>2 DEF Whole, AllSound, Sound, Accept
  <2> HIDE DEF code
  <2> QED  BY <1>1, <1>2, <2>1
<1>4. Constant(code[i])
  BY <1>1 DEF ConditionalJumpFoldingPass!Decided, ConditionalJumpFoldingPass!instr,
     ConditionalJumpFoldingPass!block, Constant
<1>5. /\ ConditionalJumpFoldingPass!JumpsNext /\ x \in Exits(blocks[l])
      /\ ConditionalJumpFoldingPass!TargetBlock = x
  BY <1>2, <1>3, <1>4, ConstantDecided
<1>6. blocks' = [blocks EXCEPT ![l] = now]
  BY <1>5 DEF ConditionalJumpFoldingPass!FoldJump, ConditionalJumpFoldingPass!Folded,
     ConditionalJumpFoldingPass!Block, ConditionalJumpFoldingPass!Jump, ConditionalJumpFoldingPass!Tac3,
     ConditionalJumpFoldingPass!None, ConditionalJumpFoldingPass!Name, ConditionalJumpFoldingPass!NoBlock,
     ConditionalJumpFoldingPass!block, Block, Jump, Tac3, None, Name, NoBlock, Cut
<1> HIDE DEF x
<1>7. /\ Sound(now, DOMAIN blocks) /\ Assured(D, D[l], now.code) /\ Tailed(now.code)
      /\ ExitsFollowCode(now) /\ Targets(now) \subseteq U /\ Exits(now) \subseteq Exits(blocks[l])
      /\ \A j \in DOMAIN now.code : now.code[j].op # "CJMP"
  <2>1. blocks[l].code[i].op = "CJMP" /\ i \in DOMAIN blocks[l].code /\ x \in Exits(blocks[l])
    BY <1>3, <1>4, <1>5 DEF Constant
  <2>2. CutWell(now, D, U, blocks, l)
    BY <1>2, <2>1, CutBlock
  <2> QED  BY <2>2 DEF CutWell
<1> HIDE DEF now
<1>8. DOMAIN blocks' = DOMAIN blocks /\ (l \in DOMAIN blocks => blocks'[l] = now)
      /\ \A b \in DOMAIN blocks : b # l => blocks'[b] = blocks[b]
  BY <1>6
<1>9. Whole(D, U, blocks)'
  BY <1>2, <1>7, <1>8, WholeAfter
<1>10. Roots(D, U)'
  BY DEF JumpsInv, Roots
<1>11. l \in DOMAIN blocks /\ U \subseteq DOMAIN blocks /\ names \subseteq U
  BY <1>2 DEF Whole, JumpsInv
<1>12. place' \in [block : names \ left, at : Nat \ {0}] /\ place'.block = l
  BY <1>1
<1>13. \A b \in names \ left : \A j \in DOMAIN blocks'[b].code : ~Constant(blocks'[b].code[j])
  <2> SUFFICES ASSUME NEW b \in names \ left, NEW j \in DOMAIN blocks'[b].code, Constant(blocks'[b].code[j])
               PROVE  FALSE
    OBVIOUS
  <2>1. b # l
    BY <1>7, <1>8, <1>11 DEF Constant
  <2>2. blocks'[b] = blocks[b]
    BY <1>8, <1>11, <2>1
  <2> QED  BY <2>1, <2>2 DEF JumpsInv
<1>14. ASSUME NEW k \in DOMAIN source
       PROVE  ReachableBlocks(blocks', source[k].name) \subseteq names
  <2>1. \A b \in U : Exits(blocks[b]) \subseteq U /\ Exits(blocks'[b]) \subseteq Exits(blocks[b])
    BY <1>2, <1>7, <1>8, <1>11 DEF Whole, ExitsFollowCode
  <2>2. source[k].name \in U /\ IsFiniteSet(DOMAIN blocks)
    BY <1>2 DEF JumpsInv, Roots, Whole
  <2>3. ReachableBlocks(blocks', source[k].name) \subseteq ReachableBlocks(blocks, source[k].name)
    <3>1. PICK new : new = blocks'
      OBVIOUS
    <3>2. PICK root \in U : root = source[k].name
      BY <2>2
    <3>3. DOMAIN new = DOMAIN blocks /\ \A b \in U : Exits(blocks[b]) \subseteq U /\ Exits(new[b]) \subseteq Exits(blocks[b])
      BY <1>8, <2>1, <3>1
    <3>4. ReachableBlocks(new, root) \subseteq ReachableBlocks(blocks, root)
      BY <2>2, <3>3, ReachShrinks
    <3> QED  BY <3>1, <3>2, <3>4
  <2> QED  BY <2>3 DEF JumpsInv
<1> QED  BY <1>1, <1>9, <1>10, <1>11, <1>12, <1>13, <1>14 DEF JumpsInv

LEMMA JumpsStep ==
  ASSUME NEW D, NEW U, JumpsInv(D, U), ConditionalJumpFoldingPass!Pass, UNCHANGED <<source, temps>>
  PROVE  JumpsInv(D, U)'
<1>1. CASE ConditionalJumpFoldingPass!FoldJump
  BY <1>1, FoldedJumps
<1> DEFINE Constants == \A b \in names' \ left' : \A i \in DOMAIN blocks'[b].code :
                          Constant(blocks'[b].code[i]) => place'.block = b /\ i >= place'.at
           Placed == \/ place' = ConditionalJumpFoldingPass!Nowhere
                     \/ place' \in [block : names' \ left', at : Nat \ {0}]
<1>2. ASSUME blocks' = blocks, names' = names, left' \subseteq names, Placed, Constants
      PROVE  JumpsInv(D, U)'
  <2> HIDE DEF Placed, Constants
  <2>1. Whole(D, U, blocks)' /\ Roots(D, U)'
    BY <1>2 DEF JumpsInv, Roots
  <2>2. \A k \in DOMAIN source' : ReachableBlocks(blocks', source'[k].name) \subseteq names'
    BY <1>2 DEF JumpsInv
  <2> QED  BY <1>2, <2>1, <2>2 DEF JumpsInv, Placed, Constants
<1>3. names \subseteq U /\ U \subseteq DOMAIN blocks /\ NoBlock \notin DOMAIN blocks
  BY DEF JumpsInv, Whole
<1>4. ConditionalJumpFoldingPass!Nowhere.block = NoBlock
  BY DEF ConditionalJumpFoldingPass!Nowhere, ConditionalJumpFoldingPass!NoBlock, NoBlock
<1>5. ASSUME place = ConditionalJumpFoldingPass!Nowhere, NEW b \in names \ left,
             NEW i \in DOMAIN blocks[b].code, Constant(blocks[b].code[i])
      PROVE  FALSE
  BY <1>3, <1>4, <1>5 DEF JumpsInv
<1>6. CASE ConditionalJumpFoldingPass!TakeBlock
  <2>1. PICK next \in left : left' = left \ {next} /\ place' = [block |-> next, at |-> 1]
    BY <1>6 DEF ConditionalJumpFoldingPass!TakeBlock
  <2>2. place = ConditionalJumpFoldingPass!Nowhere /\ blocks' = blocks /\ names' = names
    BY <1>6 DEF ConditionalJumpFoldingPass!TakeBlock
  <2>3. left \subseteq names
    BY DEF JumpsInv
  <2>4. place'.block = next /\ place'.at = 1
    BY <2>1
  <2>5. Constants
    <3> SUFFICES ASSUME NEW b \in names' \ left', NEW i \in DOMAIN blocks'[b].code, Constant(blocks'[b].code[i])
                 PROVE  place'.block = b /\ i >= place'.at
      OBVIOUS
    <3>1. b = next
      BY <1>5, <2>1, <2>2
    <3>2. blocks[b].code \in Seq(Tacs)
      BY <1>3, <2>3, <3>1 DEF JumpsInv, Whole, AllSound, Sound, Accept
    <3>3. i \in Nat \ {0}
      BY <2>2, <3>2
    <3> QED  BY <2>4, <3>1, <3>3
  <2>6. Placed
    BY <2>1, <2>2, <2>3
  <2> QED  BY <1>2, <2>1, <2>2, <2>3, <2>5, <2>6
<1>7. CASE ConditionalJumpFoldingPass!KeepInstruction \/ ConditionalJumpFoldingPass!LeaveBlock
  <2>1. /\ place \in [block : names \ left, at : Nat \ {0}] /\ left \subseteq names
        /\ blocks' = blocks /\ names' = names /\ left' = left
    BY <1>7 DEF JumpsInv, ConditionalJumpFoldingPass!KeepInstruction, ConditionalJumpFoldingPass!LeaveBlock
  <2>2. place.block \in U /\ place.at \in Nat \ {0}
    BY <1>3, <2>1
  <2>3. blocks[place.block].code \in Seq(Tacs)
    BY <1>3, <2>2 DEF JumpsInv, Whole, AllSound, Sound, Accept
  <2>4. CASE ConditionalJumpFoldingPass!KeepInstruction
    <3>1. place' = [place EXCEPT !.at = @ + 1] /\ ~ConditionalJumpFoldingPass!Decided
      BY <2>4 DEF ConditionalJumpFoldingPass!KeepInstruction, ConditionalJumpFoldingPass!Advance
    <3>2. place'.block = place.block /\ place'.at = place.at + 1 /\ place' \in [block : names \ left, at : Nat \ {0}]
      BY <2>1, <3>1
    <3>3. Constants
      <4> SUFFICES ASSUME NEW b \in names \ left, NEW i \in DOMAIN blocks[b].code, Constant(blocks[b].code[i])
                   PROVE  place'.block = b /\ i >= place'.at
        BY <2>1
      <4>1. place.block = b /\ i >= place.at
        BY DEF JumpsInv
      <4>2. i # place.at
        <5>1. Whole(D, U, blocks)
          BY DEF JumpsInv
        <5> QED  BY <2>2, <3>1, <4>1, <5>1, ConstantDecided
      <4>3. i \in Nat
        BY <2>3, <4>1
      <4> QED  BY <2>2, <3>2, <4>1, <4>2, <4>3
    <3>4. Placed
      BY <2>1, <3>2
    <3> QED  BY <1>2, <2>1, <3>3, <3>4
  <2>5. CASE ConditionalJumpFoldingPass!LeaveBlock
    <3>1. place' = ConditionalJumpFoldingPass!Nowhere /\ place.at > Len(blocks[place.block].code)
      BY <2>5 DEF ConditionalJumpFoldingPass!LeaveBlock, ConditionalJumpFoldingPass!block
    <3>2. Constants
      <4> SUFFICES ASSUME NEW b \in names \ left, NEW i \in DOMAIN blocks[b].code, Constant(blocks[b].code[i])
                   PROVE  FALSE
        BY <2>1
      <4>1. place.block = b /\ i >= place.at
        BY DEF JumpsInv
      <4>2. i \in Nat /\ Len(blocks[place.block].code) \in Nat /\ i <= Len(blocks[place.block].code)
        BY <2>3, <4>1
      <4> QED  BY <2>2, <3>1, <4>1, <4>2
    <3>3. Placed
      BY <3>1
    <3> QED  BY <1>2, <2>1, <3>2, <3>3
  <2> QED  BY <1>7, <2>4, <2>5
<1> QED  BY <1>1, <1>6, <1>7 DEF ConditionalJumpFoldingPass!Pass

-----------------------------------------------------------------------------
(***************************************************************************)
(* Where the passes end.                                                   *)
(***************************************************************************)
LEMMA WholeDefined ==
  ASSUME NEW D, NEW U, Whole(D, U, blocks), Roots(D, U), NEW k \in DOMAIN source
  PROVE  TemporariesDefined(Graph, source[k])
BY AssuredIsDefined DEF Whole, Roots

AllCoherent ==
  \A i \in DOMAIN source :
    /\ TemporariesDefined(Graph, source[i])
    /\ \A b \in ReachableBlocks(blocks, source[i].name) :
         ExitsFollowCode(blocks[b]) /\ \A t \in ToSet(blocks[b].code) : ~Constant(t)

LEMMA JumpsCoherent ==
  ASSUME NEW D, NEW U, JumpsInv(D, U), ConditionalJumpFoldingPass!PassDone
  PROVE  AllCoherent
<1>1. place = ConditionalJumpFoldingPass!Nowhere /\ left = {} /\ Whole(D, U, blocks) /\ Roots(D, U)
  BY DEF JumpsInv, ConditionalJumpFoldingPass!PassDone
<1>2. place.block = NoBlock
  BY <1>1 DEF ConditionalJumpFoldingPass!Nowhere, ConditionalJumpFoldingPass!NoBlock, NoBlock
<1>3. ASSUME NEW b \in names
      PROVE  ExitsFollowCode(blocks[b]) /\ \A t \in ToSet(blocks[b].code) : ~Constant(t)
  <2>1. b \in U /\ b # NoBlock
    BY DEF JumpsInv, Whole
  <2>2. \A i \in DOMAIN blocks[b].code : ~Constant(blocks[b].code[i])
    BY <1>1, <1>2, <2>1 DEF JumpsInv
  <2> QED  BY <1>1, <2>1, <2>2 DEF Whole, ToSet
<1> QED  BY <1>1, <1>3, WholeDefined DEF AllCoherent, JumpsInv

-----------------------------------------------------------------------------
(***************************************************************************)
(* The invariant of the tool chain, phase by phase.                        *)
(***************************************************************************)
PhaseInv ==
  /\ phase = "generate" => IInv /\ Assigned /\ Partition /\ AllTailed(blocks)
  /\ phase = "fold constants" /\ OutsideShortCircuits => \E D, U : Whole(D, U, blocks) /\ Roots(D, U)
  /\ phase = "fold jumps" /\ OutsideShortCircuits => \E D, U : JumpsInv(D, U)
  /\ phase = "load" /\ OutsideShortCircuits => AllCoherent

LEMMA PhaseInit == InitAll => PhaseInv
<1> SUFFICES ASSUME InitAll
             PROVE  PhaseInv
  OBVIOUS
<1>1. Init /\ phase = "generate"
  BY DEF InitAll
<1> QED  BY <1>1, InitInv, InitAssigned, InitParts, InitTails DEF PhaseInv

LEMMA PhaseStep == PhaseInv /\ [NextAll]_allVars => PhaseInv'
<1> SUFFICES ASSUME PhaseInv, [NextAll]_allVars
             PROVE  PhaseInv'
  OBVIOUS
<1>1. CASE GenerateIR
  <2>1. phase = "generate" /\ phase' = "generate" /\ Next
    BY <1>1 DEF GenerateIR, Next
  <2>2. IInv /\ Assigned /\ Partition /\ AllTailed(blocks)
    BY <2>1 DEF PhaseInv
  <2>3. IInv' /\ Assigned' /\ Partition' /\ AllTailed(blocks')
    BY <2>1, <2>2, StepKeeps, StepAssigned, PartsStep, StepTails DEF TailsKept
  <2> QED  BY <2>1, <2>3 DEF PhaseInv
<1>2. CASE BeginConstantFolding
  <2>1. phase = "generate" /\ Generated /\ phase' = "fold constants" /\ UNCHANGED irVars
    BY <1>2 DEF BeginConstantFolding, Enter
  <2>2. source' = source /\ blocks' = blocks /\ temps' = temps
    BY <2>1 DEF irVars
  <2>3. ASSUME OutsideShortCircuits'
        PROVE  \E D, U : Whole(D, U, blocks') /\ Roots(D, U)'
    <3>1. OutsideShortCircuits
      BY <2>2, <2>3 DEF OutsideShortCircuits
    <3>2. PICK D, U : Whole(D, U, blocks) /\ Roots(D, U)
      BY <2>1, <3>1, GeneratedWhole DEF PhaseInv
    <3>3. Roots(D, U)'
      BY <2>2, <3>2 DEF Roots
    <3> QED  BY <2>2, <3>2, <3>3
  <2> QED  BY <2>1, <2>3 DEF PhaseInv
<1>3. CASE FoldConstants
  <2>1. phase = "fold constants" /\ phase' = "fold constants" /\ ConstantFoldingPass!Pass
        /\ source' = source /\ temps' = temps
    BY <1>3 DEF FoldConstants, SameGraph
  <2>2. ASSUME OutsideShortCircuits'
        PROVE  \E D, U : Whole(D, U, blocks') /\ Roots(D, U)'
    <3>1. OutsideShortCircuits
      BY <2>1, <2>2 DEF OutsideShortCircuits
    <3>2. PICK D, U : Whole(D, U, blocks) /\ Roots(D, U)
      BY <2>1, <3>1 DEF PhaseInv
    <3>3. Roots(D, U)'
      BY <2>1, <3>2 DEF Roots
    <3>4. Whole(D, U, blocks')
      BY <2>1, <3>2, ConstantsWhole
    <3> QED  BY <3>3, <3>4
  <2> QED  BY <2>1, <2>2 DEF PhaseInv
<1>4. CASE BeginJumpFolding
  <2>1. phase = "fold constants" /\ phase' = "fold jumps" /\ ConditionalJumpFoldingPass!Start(source)
        /\ UNCHANGED irVars
    BY <1>4 DEF BeginJumpFolding, Enter
  <2>2. ASSUME OutsideShortCircuits'
        PROVE  \E D, U : JumpsInv(D, U)'
    <3>1. OutsideShortCircuits
      BY <2>1, <2>2 DEF OutsideShortCircuits, irVars
    <3>2. PICK D, U : Whole(D, U, blocks) /\ Roots(D, U)
      BY <2>1, <3>1 DEF PhaseInv
    <3>3. JumpsInv(D, U)'
      BY <2>1, <3>2, StartJumps
    <3> QED  BY <3>3
  <2> QED  BY <2>1, <2>2 DEF PhaseInv
<1>5. CASE FoldJumps
  <2>1. phase = "fold jumps" /\ phase' = "fold jumps" /\ ConditionalJumpFoldingPass!Pass
        /\ UNCHANGED <<source, temps>>
    BY <1>5 DEF FoldJumps, SameGraph
  <2>2. ASSUME OutsideShortCircuits'
        PROVE  \E D, U : JumpsInv(D, U)'
    <3>1. OutsideShortCircuits
      BY <2>1, <2>2 DEF OutsideShortCircuits
    <3>2. PICK D, U : JumpsInv(D, U)
      BY <2>1, <3>1 DEF PhaseInv
    <3>3. JumpsInv(D, U)'
      BY <2>1, <3>2, JumpsStep
    <3> QED  BY <3>3
  <2> QED  BY <2>1, <2>2 DEF PhaseInv
<1>6. CASE EmitBytecode
  <2>1. phase = "fold jumps" /\ phase' = "load" /\ ConditionalJumpFoldingPass!PassDone /\ UNCHANGED irVars
    BY <1>6 DEF EmitBytecode, Enter
  <2>2. ASSUME OutsideShortCircuits'
        PROVE  AllCoherent'
    <3>1. OutsideShortCircuits
      BY <2>1, <2>2 DEF OutsideShortCircuits, irVars
    <3>2. AllCoherent
      BY <2>1, <3>1, JumpsCoherent DEF PhaseInv
    <3> QED  BY <2>1, <3>2 DEF AllCoherent, Graph, irVars
  <2> QED  BY <2>1, <2>2 DEF PhaseInv
<1>7. CASE LoadProgram \/ Execute
  <2>1. phase' = "run"
    BY <1>7 DEF LoadProgram, Execute, Enter
  <2> QED  BY <2>1 DEF PhaseInv
<1>8. CASE UNCHANGED allVars
  <2>1. UNCHANGED irVars /\ phase' = phase /\ UNCHANGED passVars
    BY <1>8 DEF allVars
  <2>2. /\ source' = source /\ blocks' = blocks /\ temps' = temps
        /\ names' = names /\ left' = left /\ place' = place
    BY <2>1 DEF irVars, passVars
  <2>3. OutsideShortCircuits' <=> OutsideShortCircuits
    BY <2>2 DEF OutsideShortCircuits
  <2>4. AllCoherent' <=> AllCoherent
    BY <2>2 DEF AllCoherent, Graph
  <2>5. \A D, U : (Roots(D, U)' <=> Roots(D, U)) /\ (JumpsInv(D, U)' <=> JumpsInv(D, U))
    BY <2>2 DEF Roots, JumpsInv
  <2>6. phase = "generate" => IInv' /\ Assigned' /\ Partition' /\ AllTailed(blocks')
    BY <2>1, <2>2, StepKeeps, StepAssigned, PartsStep DEF PhaseInv
  <2> QED  BY <2>1, <2>2, <2>3, <2>4, <2>5, <2>6 DEF PhaseInv
<1> QED
  BY <1>1, <1>2, <1>3, <1>4, <1>5, <1>6, <1>7, <1>8 DEF NextAll, Step, Ended

\* Whatever the program, what the two passes leave behind is still coherent,
\* unless a method has a && or || in the right operand of another: the exits
\* of the blocks that are reached are their jumps, every temporary is written
\* before it is read, and no conditional jump has a constant condition.
THEOREM PassesKeepCoherence == SpecAll => []PassesCoherent
<1>1. PhaseInv => PassesCoherent
  BY DEF PhaseInv, PassesCoherent, AllCoherent, Constant
<1> QED  BY <1>1, PhaseInit, PhaseStep, PTL DEF SpecAll
=============================================================================
