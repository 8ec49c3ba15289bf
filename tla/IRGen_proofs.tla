---------------------------- MODULE IRGen_proofs ----------------------------
(***************************************************************************)
(* For all programs the generator appends nothing to a block it has ended, *)
(* never names a block it has not made, and gives the blocks of a method   *)
(* the exits that their code has: proofs of TypeOK, of ClosedStaysClosed   *)
(* and of ExitsAgree.                                                      *)
(***************************************************************************)
EXTENDS IRGen, SequenceLemmas, FiniteSetTheorems

-----------------------------------------------------------------------------
(***************************************************************************)
(* The sets that the parts of the generator's state belong to.             *)
(***************************************************************************)
Names == {m.name : m \in Methods}
Nodes == Inner \cup Returns \cup Bodies \cup {MethodNode(m) : m \in Methods}
Texts == {<<"block", n>> : n \in Nat} \cup {<<"_t", n>> : n \in Nat}
           \cup {NoBlock, This} \cup {n.text : n \in Nodes}

Operands == {o \in [imm : BOOLEAN, num : Int, name : Texts] : o.imm => o.name = <<>>}
Tacs     == [op : TacOps, res : Texts, lhs : Operands, rhs : Operands]
Blocks   == [code : Seq(Tacs), trueExit : Texts, falseExit : Texts]

Continuations ==
  {"finish", "param", "call", "branch", "merge", "then", "end", "loop body", "loop end"}
Tasks == [do : Continuations \cup {"visit"}, node : Nodes, labels : Seq(Texts), name : Texts]

-----------------------------------------------------------------------------
(***************************************************************************)
(* What a task needs and promises.                                         *)
(***************************************************************************)
\* The body of a method is still to be begun.
IsMethod(t) == t.do = "visit" /\ t.node.kind = "Method"

\* The continuation fits its node, and has as many labels as it uses.
Shaped(t) ==
  /\ t.do = "finish"               => t.node.kind \in Strict \cup Statements \cup Sized
  /\ t.do \in {"param", "call"}    => t.node.kind = "CALL"
  /\ t.do \in {"branch", "merge"}  => t.node.kind \in ShortCircuit
  /\ t.do \in {"then", "end"}      => t.node.kind \in {"If", "IfElse"}
  /\ t.do \in {"loop body", "loop end"} => t.node.kind = "While"
  /\ Len(t.labels) = CASE t.do = "merge"     -> 4
                       [] t.do = "then"      -> Len(t.node.kids)
                       [] t.do = "end"       -> 2
                       [] t.do = "loop body" -> 3
                       [] t.do = "loop end"  -> 4
                       [] OTHER              -> 0

\* Which of its labels name blocks that the visitor has still to fill.
Places(t) ==
  CASE t.do = "merge"     -> {2, 3, 4}
    [] t.do = "then"      -> 1 .. Len(t.node.kids)
    [] t.do = "end"       -> {2}
    [] t.do = "loop body" -> {2, 3}
    [] t.do = "loop end"  -> {3}
    [] OTHER              -> {}

Owned(t) == {t.labels[k] : k \in Places(t)} \cup (IF IsMethod(t) THEN {t.node.text} ELSE {})

Apart(t) == \A k, l \in Places(t) : t.labels[k] = t.labels[l] => k = l

Open(bs) == {b \in DOMAIN bs : ~EndsInJump(bs[b])}

\* A task is ready for the blocks that there are and the block that is current.
Ready(t, bs, current, names) ==
  /\ Shaped(t) /\ Apart(t)
  /\ IsMethod(t) => t.node.text \in names \ DOMAIN bs
  /\ ~IsMethod(t) =>
       /\ \A k \in DOMAIN t.labels : t.labels[k] \in DOMAIN bs
       /\ Owned(t) \subseteq Open(bs) \ {current}
       /\ current \in Open(bs)

\* A return and what is around it are followed by other methods only; no two
\* tasks fill the same block.
Before(t, u) == (t.node \in Inner \/ IsMethod(u)) /\ Owned(t) \cap Owned(u) = {}

Ordered(tasks) == \A i, j \in DOMAIN tasks : i < j => Before(tasks[i], tasks[j])

\* How many operands a task takes off the values, and how many it leaves.
Takes(t) ==
  CASE t.do = "finish"                        -> Len(t.node.kids)
    [] t.do \in {"visit", "end", "loop end"}  -> 0
    [] OTHER                                  -> 1
Gives(t) ==
  CASE t.do = "visit"  -> IF t.node.kind \in Expressions THEN 1 ELSE 0
    [] t.do = "finish" -> IF t.node.kind \in Statements THEN 0 ELSE 1
    [] t.do \in {"call", "branch", "merge"} -> 1
    [] OTHER -> 0

\* The numbers of values before each of the tasks and after the last.
Levels(h, tasks, n, m) ==
  /\ h \in [1 .. Len(tasks) + 1 -> Nat] /\ h[1] = n /\ h[Len(tasks) + 1] = m
  /\ \A i \in 1 .. Len(tasks) :
       h[i] >= Takes(tasks[i]) /\ h[i + 1] = (h[i] - Takes(tasks[i])) + Gives(tasks[i])

\* With n values to start with, no task finds too few, and m are left.
Runs(tasks, n, m) == \E h : Levels(h, tasks, n, m)

-----------------------------------------------------------------------------
(***************************************************************************)
(* The inductive invariant.                                                *)
(***************************************************************************)
AllOf(f, D) == UNION {f[n] : n \in D}

Counters ==
  /\ source \in Sources
  /\ nextTemp \in Nat /\ nextBlock \in Nat
  /\ temps = [n \in {source[i].name : i \in DOMAIN source} |-> temps[n]]
  /\ AllOf(temps, DOMAIN temps) = MadeTemps

Linked(bs, labels) ==
  /\ DOMAIN bs \subseteq labels
  /\ \A b \in DOMAIN bs :
       bs[b] \in Blocks /\ Exits(bs[b]) \cup Targets(bs[b]) \subseteq DOMAIN bs

Agenda ==
  /\ agenda \in Seq(Tasks)
  /\ \A i \in DOMAIN agenda : Ready(agenda[i], blocks, currentBlock, DOMAIN temps)
  /\ \A i \in DOMAIN agenda : IsMethod(agenda[i]) \/ scope \in DOMAIN temps
  /\ Ordered(agenda)

Stack == values \in Seq(Operands) /\ \E m : Runs(agenda, Len(values), m)

IInv ==
  /\ Counters /\ Linked(blocks, MadeLabels) /\ Agenda /\ Stack
  /\ currentBlock \in DOMAIN blocks \cup {NoBlock}
  /\ scope \in DOMAIN temps \cup {NoBlock}

-----------------------------------------------------------------------------
(***************************************************************************)
(* The nodes of the programs.                                              *)
(***************************************************************************)
LEMMA InnerNode ==
  ASSUME NEW n \in Inner
  PROVE  /\ WellFormed(n) /\ n.kids \in Seq(Inner) /\ n \in Nodes
         /\ n.kind \in Expressions \cup Commands
         /\ n.kind \notin {"Method", "RET"}
<1>1. WellFormed(n) /\ n.kids \in Seq(Inner)
  BY SourceAssumption
<1>2. n.kind \in Expressions \cup Commands
  BY <1>1 DEF WellFormed
<1> QED
  BY <1>1, <1>2 DEF Nodes, Expressions, Commands, ExpressionLeaves, ShortCircuit, Strict, Sized,
     Statements, TwoOperands, BinaryOps

LEMMA ReturnNode ==
  ASSUME NEW n \in Returns
  PROVE  /\ n.kind = "RET" /\ n.num \in Int
         /\ n.kids \in Seq(Inner) /\ Len(n.kids) = 1 /\ n.kids[1].kind \in Expressions
BY SourceAssumption DEF Returns

LEMMA BodyNode ==
  ASSUME NEW n \in Bodies
  PROVE  /\ n.kind = "List" /\ n.kids \in Seq(Inner \cup Returns)
         /\ \A k \in DOMAIN n.kids :
              IF n.kids[k] \in Returns THEN k = Len(n.kids) ELSE n.kids[k].kind \in Commands
BY SourceAssumption

LEMMA MethodsNode ==
  ASSUME NEW m \in Methods
  PROVE  /\ MethodNode(m).kind = "Method" /\ MethodNode(m).text = m.name
         /\ MethodNode(m).kids = <<m.body>> /\ m.body \in Bodies
BY DEF MethodNode, Node, Bodies

LEMMA NodeOf ==
  ASSUME NEW n \in Nodes
  PROVE  /\ n.kind = "Method" => \E m \in Methods : n = MethodNode(m)
         /\ n.kind = "RET" => n \in Returns
         /\ n.kind = "List" => n \in Inner \cup Bodies
         /\ n.kind \notin {"Method", "RET", "List"} => n \in Inner
         /\ n \notin Inner => n.kind \in {"Method", "RET", "List"}
         /\ n.text \in Texts
<1>1. n \in Inner \/ n \in Returns \/ n \in Bodies \/ \E m \in Methods : n = MethodNode(m)
  BY DEF Nodes
<1>2. n \in Inner => n.kind \notin {"Method", "RET"}
  BY InnerNode
<1>3. n \in Returns => n.kind = "RET"
  BY ReturnNode
<1>4. n \in Bodies => n.kind = "List"
  BY BodyNode
<1>5. \A m \in Methods : MethodNode(m).kind = "Method"
  BY MethodsNode
<1>6. n.text \in Texts
  BY DEF Texts
<1> QED
  BY <1>1, <1>2, <1>3, <1>4, <1>5, <1>6

\* The kinds that the actions tell apart are apart.
LEMMA Kinds ==
  /\ Expressions \cap Commands = {} /\ Expressions \cap Statements = {}
  /\ Strict \cap Sized = {} /\ Strict \cap Statements = {} /\ Sized \cap Statements = {}
  /\ Strict \cup Sized \cup ShortCircuit \cup ExpressionLeaves \cup {"NEW", "CALL"} = Expressions
  /\ {"Method", "List", "RET", "If", "IfElse", "While"} \cap Expressions = {}
  /\ {"Method", "List", "If", "IfElse", "While"} \cap Statements = {}
  /\ Commands = (Statements \ {"RET"}) \cup {"List", "If", "IfElse", "While"}
  /\ ShortCircuit \cap (Strict \cup Sized \cup {"CALL"}) = {}
  /\ "CALL" \notin Strict \cup Sized /\ ShortCircuit \subseteq TwoOperands
  /\ Strict = (TwoOperands \ ShortCircuit) \cup {"NOT"} /\ Sized = {"NEW_ARRAY", "ARRAY_LENGTH"}
  /\ Statements = {"Assign", "ArrayAssign", "PRINT", "RET"}
BY DEF Expressions, Commands, ExpressionLeaves, ShortCircuit, Strict, Sized, Statements,
       TwoOperands, BinaryOps

-----------------------------------------------------------------------------
(***************************************************************************)
(* Tasks that run one after the other.                                     *)
(***************************************************************************)
LEMMA RunsNone ==
  ASSUME NEW n \in Nat
  PROVE  Runs(<<>>, n, n)
<1>1. Levels([i \in 1 .. Len(<<>>) + 1 |-> n], <<>>, n, n)
  BY DEF Levels
<1> QED  BY <1>1 DEF Runs

LEMMA RunsOne ==
  ASSUME NEW t, NEW n \in Nat, Takes(t) \in 0 .. n, Gives(t) \in Nat
  PROVE  Runs(<<t>>, n, (n - Takes(t)) + Gives(t))
<1> DEFINE m == (n - Takes(t)) + Gives(t)
           h == [i \in 1 .. 2 |-> IF i = 1 THEN n ELSE m]
<1>1. m \in Nat
  OBVIOUS
<1>2. Levels(h, <<t>>, n, m)
  BY <1>1 DEF Levels
<1> QED  BY <1>2 DEF Runs

LEMMA RunsConcat ==
  ASSUME NEW S, NEW s \in Seq(S), NEW t \in Seq(S), NEW n, NEW m, NEW l,
         Runs(s, n, m), Runs(t, m, l)
  PROVE  Runs(s \o t, n, l)
<1>1. PICK f : Levels(f, s, n, m)
  BY DEF Runs
<1>2. PICK g : Levels(g, t, m, l)
  BY DEF Runs
<1> DEFINE a == Len(s)
           b == Len(t)
           u == s \o t
           h == [i \in 1 .. a + b + 1 |-> IF i <= a THEN f[i] ELSE g[i - a]]
<1>3. a \in Nat /\ b \in Nat
  OBVIOUS
<1>4. Len(u) = a + b /\ \A i \in 1 .. a + b : u[i] = IF i <= a THEN s[i] ELSE t[i - a]
  BY ConcatProperties
<1>5. /\ f \in [1 .. a + 1 -> Nat] /\ f[1] = n /\ f[a + 1] = m
      /\ \A i \in 1 .. a : f[i] >= Takes(s[i]) /\ f[i + 1] = (f[i] - Takes(s[i])) + Gives(s[i])
  BY <1>1 DEF Levels
<1>6. /\ g \in [1 .. b + 1 -> Nat] /\ g[1] = m /\ g[b + 1] = l
      /\ \A i \in 1 .. b : g[i] >= Takes(t[i]) /\ g[i + 1] = (g[i] - Takes(t[i])) + Gives(t[i])
  BY <1>2 DEF Levels
<1> HIDE DEF a, b, u
<1>7. h \in [1 .. a + b + 1 -> Nat] /\ h[1] = n /\ h[a + b + 1] = l
  <2>1. \A i \in 1 .. a + b + 1 : h[i] \in Nat
    BY <1>3, <1>5, <1>6
  <2>2. h[a + b + 1] = g[b + 1]
    <3>1. (a + b + 1) - a = b + 1 /\ ~(a + b + 1 <= a) /\ a + b + 1 \in 1 .. a + b + 1
      BY <1>3
    <3> QED  BY <3>1
  <2>3. h[1] = n
    BY <1>3, <1>5, <1>6
  <2> QED  BY <2>1, <2>2, <2>3, <1>6
<1>8. ASSUME NEW i \in 1 .. a + b
      PROVE  h[i] >= Takes(u[i]) /\ h[i + 1] = (h[i] - Takes(u[i])) + Gives(u[i])
  <2>0. i + 1 \in 1 .. a + b + 1 /\ i \in 1 .. a + b + 1
    BY <1>3
  <2>1. CASE i < a
    <3>1. i \in 1 .. a /\ i + 1 <= a /\ u[i] = s[i]
      BY <1>3, <1>4, <2>1
    <3>2. h[i] = f[i] /\ h[i + 1] = f[i + 1]
      BY <1>3, <2>0, <3>1
    <3> HIDE DEF h
    <3> QED  BY <1>5, <3>1, <3>2
  <2>2. CASE i = a
    <3>1. i \in 1 .. a /\ ~(i + 1 <= a) /\ (i + 1) - a = 1 /\ u[i] = s[i] /\ i <= a
      BY <1>3, <1>4, <2>2
    <3>2. h[i] = f[i] /\ h[i + 1] = g[1]
      BY <2>0, <3>1
    <3>3. h[i + 1] = f[i + 1]
      BY <1>5, <1>6, <2>2, <3>2
    <3> HIDE DEF h
    <3> QED  BY <1>5, <3>1, <3>2, <3>3
  <2>3. CASE i > a
    <3> DEFINE j == i - a
    <3>1. j \in 1 .. b /\ ~(i <= a) /\ ~(i + 1 <= a) /\ (i + 1) - a = j + 1 /\ u[i] = t[j]
      BY <1>3, <1>4, <2>3
    <3>2. h[i] = g[j] /\ h[i + 1] = g[j + 1]
      BY <2>0, <3>1
    <3> HIDE DEF h, j
    <3> QED  BY <1>6, <3>1, <3>2
  <2> QED  BY <1>3, <2>1, <2>2, <2>3
<1> HIDE DEF h
<1>9. Levels(h, u, n, l)
  BY <1>4, <1>7, <1>8 DEF Levels
<1> QED  BY <1>9 DEF Runs, u

LEMMA RunsTail ==
  ASSUME NEW S, NEW s \in Seq(S), s # <<>>, NEW n, NEW l, Runs(s, n, l)
  PROVE  /\ n \in Nat /\ n >= Takes(Head(s))
         /\ Runs(Tail(s), (n - Takes(Head(s))) + Gives(Head(s)), l)
<1>1. PICK h : Levels(h, s, n, l)
  BY DEF Runs
<1> DEFINE a == Len(s)
           r == Tail(s)
           m == (n - Takes(Head(s))) + Gives(Head(s))
           g == [i \in 1 .. a |-> h[i + 1]]
<1>2. a \in Nat /\ a >= 1 /\ Head(s) = s[1]
  OBVIOUS
<1>3. /\ h \in [1 .. a + 1 -> Nat] /\ h[1] = n /\ h[a + 1] = l
      /\ \A i \in 1 .. a : h[i] >= Takes(s[i]) /\ h[i + 1] = (h[i] - Takes(s[i])) + Gives(s[i])
  BY <1>1 DEF Levels
<1>4. Len(r) = a - 1 /\ \A i \in 1 .. a - 1 : r[i] = s[i + 1]
  BY HeadTailProperties
<1> HIDE DEF a, r
<1>5. /\ g \in [1 .. (a - 1) + 1 -> Nat] /\ g[1] = m /\ g[(a - 1) + 1] = l
      /\ n \in Nat /\ n >= Takes(Head(s))
  BY <1>2, <1>3
<1>6. ASSUME NEW i \in 1 .. a - 1
      PROVE  g[i] >= Takes(r[i]) /\ g[i + 1] = (g[i] - Takes(r[i])) + Gives(r[i])
  <2>1. i \in 1 .. a /\ i + 1 \in 1 .. a /\ r[i] = s[i + 1]
    BY <1>2, <1>4
  <2>2. g[i] = h[i + 1] /\ g[i + 1] = h[i + 1 + 1]
    BY <2>1
  <2> HIDE DEF g
  <2> QED  BY <1>3, <2>1, <2>2
<1> HIDE DEF g
<1>7. Levels(g, r, m, l)
  BY <1>4, <1>5, <1>6 DEF Levels
<1> QED  BY <1>5, <1>7 DEF Runs, r

\* What a task gives is what the visit of its node gives.
LEMMA RunsVisits ==
  ASSUME NEW S, NEW kids \in Seq(S), NEW n \in Nat
  PROVE  /\ (\A k \in DOMAIN kids : kids[k].kind \in Expressions)
              => Runs(VisitAll(kids), n, n + Len(kids))
         /\ (\A k \in DOMAIN kids : kids[k].kind \notin Expressions)
              => Runs(VisitAll(kids), n, n)
<1> DEFINE a == Len(kids)
           tasks == VisitAll(kids)
<1>1. a \in Nat /\ DOMAIN kids = 1 .. a
  OBVIOUS
<1>2. /\ Len(tasks) = a
      /\ \A i \in 1 .. a : Takes(tasks[i]) = 0
      /\ \A i \in 1 .. a : Gives(tasks[i]) = IF kids[i].kind \in Expressions THEN 1 ELSE 0
  <2>1. tasks = [i \in 1 .. a |-> Visit(kids[i])]
    BY DEF VisitAll
  <2>2. \A i \in 1 .. a : tasks[i].do = "visit" /\ tasks[i].node = kids[i]
    BY <2>1 DEF Visit, Task
  <2>3. Len(tasks) = a
    BY <1>1, <2>1
  <2> HIDE DEF tasks, a
  <2> QED  BY <2>2, <2>3 DEF Takes, Gives
<1> HIDE DEF a, tasks
<1>3. ASSUME \A k \in DOMAIN kids : kids[k].kind \in Expressions
      PROVE  Runs(tasks, n, n + a)
  <2> DEFINE h == [i \in 1 .. a + 1 |-> n + (i - 1)]
  <2>1. h \in [1 .. a + 1 -> Nat] /\ h[1] = n /\ h[a + 1] = n + a
    BY <1>1
  <2>2. ASSUME NEW i \in 1 .. a
        PROVE  h[i] >= Takes(tasks[i]) /\ h[i + 1] = (h[i] - Takes(tasks[i])) + Gives(tasks[i])
    <3>1. Takes(tasks[i]) = 0 /\ Gives(tasks[i]) = 1
      BY <1>1, <1>2, <1>3
    <3>2. h[i] = n + (i - 1) /\ h[i + 1] = n + i
      BY <1>1
    <3> HIDE DEF h
    <3> QED  BY <1>1, <3>1, <3>2
  <2> HIDE DEF h
  <2>3. Levels(h, tasks, n, n + a)
    BY <1>2, <2>1, <2>2 DEF Levels
  <2> QED  BY <2>3 DEF Runs
<1>4. ASSUME \A k \in DOMAIN kids : kids[k].kind \notin Expressions
      PROVE  Runs(tasks, n, n)
  <2> DEFINE h == [i \in 1 .. a + 1 |-> n]
  <2>1. Levels(h, tasks, n, n)
    BY <1>1, <1>2, <1>4 DEF Levels
  <2> QED  BY <2>1 DEF Runs
<1> QED
  BY <1>3, <1>4 DEF a, tasks

-----------------------------------------------------------------------------
(***************************************************************************)
(* The agenda after a step: the tasks that the step makes, before those    *)
(* that were left.                                                         *)
(***************************************************************************)
LEMMA TaskType ==
  ASSUME NEW do \in Continuations \cup {"visit"}, NEW node \in Nodes,
         NEW labels \in Seq(Texts), NEW name \in Texts
  PROVE  /\ Task(do, node, labels, name) \in Tasks
         /\ Task(do, node, labels, name).do = do
         /\ Task(do, node, labels, name).node = node
         /\ Task(do, node, labels, name).labels = labels
         /\ Task(do, node, labels, name).name = name
BY DEF Task, Tasks

LEMMA NoLabels == <<>> \in Seq(Texts) /\ <<>> \in Texts /\ Len(<<>>) = 0
<1>1. <<>> \in Seq(Texts)
  BY EmptySeq
<1>2. <<>> \in Texts
  BY DEF Texts, NoBlock
<1> QED  BY <1>1, <1>2

LEMMA OwnedBy ==
  ASSUME NEW t \in Tasks, NEW bs, NEW cur, NEW names, Ready(t, bs, cur, names)
  PROVE  /\ IsMethod(t) => Owned(t) = {t.node.text} /\ Owned(t) \cap DOMAIN bs = {}
         /\ ~IsMethod(t) => Owned(t) \subseteq DOMAIN bs
         /\ Owned(t) \subseteq DOMAIN bs \cup names
<1>1. IsMethod(t) => Places(t) = {}
  BY DEF IsMethod, Places
<1>2. IsMethod(t) => Owned(t) = {t.node.text} /\ Owned(t) \cap DOMAIN bs = {} /\ Owned(t) \subseteq names
  BY <1>1 DEF Owned, Ready
<1>3. ~IsMethod(t) => Owned(t) \subseteq DOMAIN bs
  BY DEF Ready, Open
<1> QED
  BY <1>2, <1>3

\* Nothing that is left to do is disturbed by a step that fills the current
\* block and those the task at hand owns.
LEMMA StillReady ==
  ASSUME NEW t \in Tasks, NEW u \in Tasks, NEW bs, NEW bs2, NEW cur, NEW cur2, NEW names, NEW fresh,
         Ready(t, bs, cur, names), Ready(u, bs, cur, names), Before(t, u),
         fresh \cap (DOMAIN bs \cup names) = {},
         DOMAIN bs \subseteq DOMAIN bs2,
         DOMAIN bs2 \subseteq DOMAIN bs \cup fresh \cup Owned(t),
         \A b \in DOMAIN bs \ ({cur} \cup Owned(t)) : bs2[b].code = bs[b].code,
         cur2 \in {cur} \cup Owned(t) \cup fresh,
         t.node \in Inner => cur2 \in Open(bs2)
  PROVE  Ready(u, bs2, cur2, names)
<1>1. Owned(t) \cap Owned(u) = {} /\ (t.node \in Inner \/ IsMethod(u))
  BY DEF Before
<1>2. CASE IsMethod(u)
  <2>1. Owned(u) = {u.node.text} /\ u.node.text \in names \ DOMAIN bs
    BY <1>2, OwnedBy DEF Ready
  <2>2. u.node.text \notin DOMAIN bs2
    BY <1>1, <2>1
  <2> QED  BY <1>2, <2>1, <2>2 DEF Ready
<1>3. CASE ~IsMethod(u)
  <2>1. /\ \A k \in DOMAIN u.labels : u.labels[k] \in DOMAIN bs
        /\ Owned(u) \subseteq Open(bs) \ {cur}
        /\ Owned(u) \subseteq DOMAIN bs
    BY <1>3 DEF Ready, Open
  <2>2. Owned(u) \subseteq Open(bs2)
    BY <1>1, <2>1 DEF Open, EndsInJump
  <2>3. cur2 \notin Owned(u)
    BY <1>1, <2>1
  <2>4. cur2 \in Open(bs2)
    BY <1>1, <1>3
  <2> QED  BY <1>3, <2>1, <2>2, <2>3, <2>4 DEF Ready
<1> QED
  BY <1>2, <1>3

LEMMA Onward ==
  ASSUME NEW ag \in Seq(Tasks), ag # <<>>, NEW tasks \in Seq(Tasks),
         NEW bs, NEW bs2, NEW cur, NEW cur2, NEW names, NEW fresh,
         \A i \in DOMAIN ag : Ready(ag[i], bs, cur, names),
         Ordered(ag),
         \A i \in DOMAIN tasks : Ready(tasks[i], bs2, cur2, names),
         Ordered(tasks),
         \A i \in DOMAIN tasks : Owned(tasks[i]) \subseteq Owned(Head(ag)) \cup fresh,
         Head(ag).node \in Inner => \A i \in DOMAIN tasks : tasks[i].node \in Inner,
         fresh \cap (DOMAIN bs \cup names) = {},
         DOMAIN bs \subseteq DOMAIN bs2,
         DOMAIN bs2 \subseteq DOMAIN bs \cup fresh \cup Owned(Head(ag)),
         \A b \in DOMAIN bs \ ({cur} \cup Owned(Head(ag))) : bs2[b].code = bs[b].code,
         cur2 \in {cur} \cup Owned(Head(ag)) \cup fresh,
         Head(ag).node \in Inner => cur2 \in Open(bs2)
  PROVE  /\ tasks \o Tail(ag) \in Seq(Tasks)
         /\ \A i \in DOMAIN (tasks \o Tail(ag)) : Ready((tasks \o Tail(ag))[i], bs2, cur2, names)
         /\ Ordered(tasks \o Tail(ag))
<1> DEFINE a == Len(tasks)
           z == Len(ag)
           r == Tail(ag)
           t == Head(ag)
           new == tasks \o r
<1>1. /\ a \in Nat /\ z \in Nat /\ z >= 1 /\ t = ag[1] /\ t \in Tasks /\ r \in Seq(Tasks)
      /\ DOMAIN ag = 1 .. z /\ DOMAIN tasks = 1 .. a
  OBVIOUS
<1>2. Len(r) = z - 1 /\ \A i \in 1 .. z - 1 : r[i] = ag[i + 1]
  BY HeadTailProperties
<1>3. /\ new \in Seq(Tasks) /\ Len(new) = a + (z - 1) /\ DOMAIN new = 1 .. a + (z - 1)
      /\ \A i \in 1 .. a + (z - 1) : new[i] = IF i <= a THEN tasks[i] ELSE r[i - a]
  BY <1>1, <1>2, ConcatProperties
<1> HIDE DEF a, z, r, t, new
<1>4. \A i \in 1 .. a + (z - 1) :
        IF i <= a THEN i \in 1 .. a /\ new[i] = tasks[i]
                  ELSE (i - a) + 1 \in 2 .. z /\ new[i] = ag[(i - a) + 1]
  <2> TAKE i \in 1 .. a + (z - 1)
  <2>1. CASE i <= a
    BY <1>1, <1>3, <2>1
  <2>2. CASE ~(i <= a)
    <3>1. i - a \in 1 .. z - 1 /\ (i - a) + 1 \in 2 .. z
      BY <1>1, <2>2
    <3> QED  BY <1>2, <1>3, <2>2, <3>1
  <2> QED  BY <2>1, <2>2
<1>5. \A j \in 2 .. z : ag[j] \in Tasks /\ Before(t, ag[j]) /\ Ready(ag[j], bs, cur, names)
  BY <1>1 DEF Ordered
<1>6. Ready(t, bs, cur, names)
  BY <1>1
<1>7. \A j \in 2 .. z : Ready(ag[j], bs2, cur2, names)
  BY <1>1, <1>5, <1>6, StillReady DEF t
<1>8. \A i \in 1 .. a + (z - 1) : Ready(new[i], bs2, cur2, names)
  BY <1>1, <1>4, <1>7
<1>9. ASSUME NEW i \in 1 .. a, NEW j \in 2 .. z
      PROVE  Before(tasks[i], ag[j])
  <2>1. Owned(ag[j]) \subseteq DOMAIN bs \cup names
    BY <1>5, OwnedBy
  <2>2. Owned(tasks[i]) \subseteq Owned(t) \cup fresh
    BY <1>1 DEF t
  <2>3. Owned(t) \cap Owned(ag[j]) = {} /\ (t.node \in Inner \/ IsMethod(ag[j]))
    BY <1>5 DEF Before
  <2>4. t.node \in Inner => tasks[i].node \in Inner
    BY <1>1 DEF t
  <2> QED  BY <2>1, <2>2, <2>3, <2>4 DEF Before
<1>10. ASSUME NEW i \in 1 .. a + (z - 1), NEW j \in 1 .. a + (z - 1), i < j
       PROVE  Before(new[i], new[j])
  <2>1. CASE j <= a
    <3>1. i \in 1 .. a /\ j \in 1 .. a /\ new[i] = tasks[i] /\ new[j] = tasks[j]
      BY <1>1, <1>4, <1>10, <2>1
    <3> QED  BY <1>1, <1>10, <3>1 DEF Ordered
  <2>2. CASE i <= a /\ ~(j <= a)
    BY <1>4, <1>9, <2>2
  <2>3. CASE ~(i <= a)
    <3>1. /\ (i - a) + 1 \in 2 .. z /\ (j - a) + 1 \in 2 .. z /\ (i - a) + 1 < (j - a) + 1
          /\ new[i] = ag[(i - a) + 1] /\ new[j] = ag[(j - a) + 1]
      BY <1>1, <1>4, <1>10, <2>3
    <3> QED  BY <1>1, <3>1 DEF Ordered
  <2> QED  BY <2>1, <2>2, <2>3
<1>11. Ordered(new)
  BY <1>3, <1>10 DEF Ordered
<1> QED
  BY <1>3, <1>8, <1>11 DEF new, r

-----------------------------------------------------------------------------
(***************************************************************************)
(* Changes to the graph.                                                   *)
(***************************************************************************)
LEMMA OperandTypes ==
  /\ \A n \in Int : Imm(n) \in Operands
  /\ \A x \in Texts : Name(x) \in Operands /\ Name(x).name = x
  /\ None \in Operands
BY NoLabels DEF Imm, Name, None, Operands

LEMMA TacTypes ==
  ASSUME NEW lhs \in Operands, NEW rhs \in Operands, NEW res \in Texts, NEW op \in TacOps
  PROVE  /\ Tac3(op, res, lhs, rhs) \in Tacs /\ Tac3(op, res, lhs, rhs).op = op
         /\ Copy(rhs, res) \in Tacs /\ Copy(rhs, res).op = "COPY"
         /\ Jump(res) \in Tacs /\ Jump(res).op = "JMP" /\ Jump(res).res = res
         /\ CondJump(res, lhs) \in Tacs
         /\ CondJump(res, lhs).op = "CJMP" /\ CondJump(res, lhs).rhs.name = res
<1>1. {"COPY", "JMP", "CJMP"} \subseteq TacOps
  BY DEF TacOps, ReadsLhs, ReadsRhs, Defines
<1> QED
  BY <1>1, NoLabels, OperandTypes DEF Tac3, Copy, Jump, CondJump, Tacs

\* Code that jumps to these labels only.
Accept(code, labels) ==
  code \in Seq(Tacs) /\ \A k \in DOMAIN code : /\ code[k].op = "JMP" => code[k].res \in labels
                                               /\ code[k].op = "CJMP" => code[k].rhs.name \in labels

Sound(block, labels) ==
  /\ block \in Blocks /\ Accept(block.code, labels)
  /\ {block.trueExit, block.falseExit} \subseteq labels \cup {NoBlock}

AllSound(bs) == \A b \in DOMAIN bs : Sound(bs[b], DOMAIN bs)

LEMMA SoundIs ==
  ASSUME NEW block \in Blocks, NEW labels
  PROVE  Sound(block, labels) <=> Exits(block) \cup Targets(block) \subseteq labels
<1>1. block.code \in Seq(Tacs)
  BY DEF Blocks
<1>2. \A t : t \in ToSet(block.code) <=> \E k \in DOMAIN block.code : block.code[k] = t
  BY DEF ToSet
<1>3. Targets(block) \subseteq labels <=> Accept(block.code, labels)
  BY <1>1, <1>2 DEF Targets, Accept
<1>4. Exits(block) \subseteq labels <=> {block.trueExit, block.falseExit} \subseteq labels \cup {NoBlock}
  BY DEF Exits
<1> QED
  BY <1>3, <1>4 DEF Sound

LEMMA LinkedIs ==
  ASSUME NEW bs, NEW labels
  PROVE  Linked(bs, labels) <=> DOMAIN bs \subseteq labels /\ AllSound(bs)
<1>1. \A b \in DOMAIN bs : bs[b] \in Blocks =>
        (Sound(bs[b], DOMAIN bs) <=> Exits(bs[b]) \cup Targets(bs[b]) \subseteq DOMAIN bs)
  BY SoundIs
<1>2. \A b \in DOMAIN bs : Sound(bs[b], DOMAIN bs) => bs[b] \in Blocks
  BY DEF Sound
<1> QED
  BY <1>1, <1>2 DEF Linked, AllSound

LEMMA AcceptConcat ==
  ASSUME NEW labels, NEW code, Accept(code, labels), NEW more, Accept(more, labels)
  PROVE  /\ Accept(code \o more, labels)
         /\ more # <<>> => Last(code \o more) = Last(more) /\ code \o more # <<>>
<1> DEFINE a == Len(code)
           z == Len(more)
           all == code \o more
<1>1. code \in Seq(Tacs) /\ more \in Seq(Tacs)
  BY DEF Accept
<1>2. a \in Nat /\ z \in Nat /\ DOMAIN code = 1 .. a /\ DOMAIN more = 1 .. z
  BY <1>1
<1>3. /\ all \in Seq(Tacs) /\ Len(all) = a + z /\ DOMAIN all = 1 .. a + z
      /\ \A i \in 1 .. a + z : all[i] = IF i <= a THEN code[i] ELSE more[i - a]
  BY <1>1, ConcatProperties
<1>4. more # <<>> => z >= 1
  BY <1>1
<1> HIDE DEF a, z, all
<1>5. Accept(all, labels)
  <2>1. \A i \in 1 .. a + z : \/ i \in 1 .. a /\ all[i] = code[i]
                              \/ i - a \in 1 .. z /\ all[i] = more[i - a]
    BY <1>2, <1>3
  <2> QED  BY <1>2, <1>3, <2>1 DEF Accept
<1>6. more # <<>> => Last(all) = Last(more) /\ all # <<>>
  <2> SUFFICES ASSUME more # <<>>
               PROVE  Last(all) = Last(more) /\ all # <<>>
    OBVIOUS
  <2>1. a + z \in 1 .. a + z /\ ~(a + z <= a) /\ (a + z) - a = z
    BY <1>2, <1>4
  <2>2. all[a + z] = more[z]
    BY <1>3, <2>1
  <2>3. all # <<>>
    BY <1>3, <2>1
  <2> QED  BY <1>3, <2>2, <2>3 DEF Last, z
<1> QED
  BY <1>5, <1>6 DEF all

LEMMA WithCodeIs ==
  ASSUME NEW bs, AllSound(bs), NEW l \in DOMAIN bs, NEW code, Accept(code, DOMAIN bs)
  PROVE  LET new == WithCode(bs, l, code) IN
         /\ DOMAIN new = DOMAIN bs /\ AllSound(new)
         /\ \A b \in DOMAIN bs \ {l} : new[b] = bs[b]
         /\ code # <<>> => (EndsInJump(new[l]) <=> Last(code).op \in Ends)
<1> DEFINE new == WithCode(bs, l, code)
           all == bs[l].code \o code
<1>1. \A b \in DOMAIN bs : Sound(bs[b], DOMAIN bs)
  BY DEF AllSound
<1>2. Accept(all, DOMAIN bs) /\ (code # <<>> => Last(all) = Last(code) /\ all # <<>>)
  BY <1>1, AcceptConcat DEF Sound
<1> HIDE DEF all
<1>3. /\ DOMAIN new = DOMAIN bs
      /\ \A b \in DOMAIN bs \ {l} : new[b] = bs[b]
      /\ new[l] = [bs[l] EXCEPT !.code = all]
  BY DEF WithCode, all
<1> HIDE DEF new
<1>4. all \in Seq(Tacs) /\ bs[l] \in Blocks
  BY <1>1, <1>2 DEF Accept, Sound
<1>5. /\ new[l] \in Blocks /\ new[l].code = all
      /\ new[l].trueExit = bs[l].trueExit /\ new[l].falseExit = bs[l].falseExit
  BY <1>3, <1>4 DEF Blocks
<1>6. Sound(new[l], DOMAIN bs)
  BY <1>1, <1>2, <1>5 DEF Sound
<1>7. AllSound(new)
  BY <1>1, <1>3, <1>6 DEF AllSound
<1>8. code # <<>> => (EndsInJump(new[l]) <=> Last(code).op \in Ends)
  BY <1>2, <1>5 DEF EndsInJump
<1> QED
  BY <1>3, <1>7, <1>8 DEF new

LEMMA WithExitsIs ==
  ASSUME NEW bs, AllSound(bs), NEW l \in DOMAIN bs, NEW t \in Texts \cap DOMAIN bs,
         NEW f \in Texts \cap DOMAIN bs
  PROVE  /\ LET new == WithExits(bs, l, t, f) IN
            DOMAIN new = DOMAIN bs /\ AllSound(new) /\ \A b \in DOMAIN bs : new[b].code = bs[b].code
         /\ LET new == WithTrueExit(bs, l, t) IN
            DOMAIN new = DOMAIN bs /\ AllSound(new) /\ \A b \in DOMAIN bs : new[b].code = bs[b].code
<1>1. \A b \in DOMAIN bs : Sound(bs[b], DOMAIN bs)
  BY DEF AllSound
<1>2. bs[l] \in Blocks
  BY <1>1 DEF Sound
<1> DEFINE one == WithExits(bs, l, t, f)
           two == WithTrueExit(bs, l, t)
<1>3. /\ DOMAIN one = DOMAIN bs
      /\ \A b \in DOMAIN bs \ {l} : one[b] = bs[b]
      /\ one[l] = [bs[l] EXCEPT !.trueExit = t, !.falseExit = f]
  BY DEF WithExits
<1>4. /\ DOMAIN two = DOMAIN bs
      /\ \A b \in DOMAIN bs \ {l} : two[b] = bs[b]
      /\ two[l] = [bs[l] EXCEPT !.trueExit = t]
  BY DEF WithTrueExit
<1> HIDE DEF one, two
<1>5. /\ one[l] \in Blocks /\ one[l].code = bs[l].code
      /\ one[l].trueExit = t /\ one[l].falseExit = f
  BY <1>2, <1>3 DEF Blocks
<1>6. /\ two[l] \in Blocks /\ two[l].code = bs[l].code
      /\ two[l].trueExit = t /\ two[l].falseExit = bs[l].falseExit
  BY <1>2, <1>4 DEF Blocks
<1>7. Sound(one[l], DOMAIN bs) /\ Sound(two[l], DOMAIN bs)
  BY <1>1, <1>5, <1>6 DEF Sound
<1>8. AllSound(one) /\ AllSound(two)
  BY <1>1, <1>3, <1>4, <1>7 DEF AllSound
<1> QED
  BY <1>3, <1>4, <1>5, <1>6, <1>8 DEF one, two

LEMMA WithTrueExitIs ==
  ASSUME NEW bs, AllSound(bs), NEW l \in DOMAIN bs, NEW t \in Texts \cap DOMAIN bs
  PROVE  LET new == WithTrueExit(bs, l, t) IN
         DOMAIN new = DOMAIN bs /\ AllSound(new) /\ \A b \in DOMAIN bs : new[b].code = bs[b].code
<1> DEFINE new == WithTrueExit(bs, l, t)
           Is == DOMAIN new = DOMAIN bs /\ AllSound(new) /\ \A b \in DOMAIN bs : new[b].code = bs[b].code
<1>1. \A f \in Texts \cap DOMAIN bs : Is
  <2> TAKE f \in Texts \cap DOMAIN bs
  <2> QED  BY WithExitsIs
<1> HIDE DEF Is
<1>2. Is
  BY <1>1
<1> QED
  BY <1>2 DEF Is

LEMMA EmptyIs == EmptyBlock \in Blocks /\ EmptyBlock.code = <<>> /\ ~EndsInJump(EmptyBlock)
                   /\ \A labels : Sound(EmptyBlock, labels)
<1>1. <<>> \in Seq(Tacs) /\ NoBlock \in Texts
  BY EmptySeq, NoLabels DEF NoBlock
<1>2. EmptyBlock \in Blocks /\ EmptyBlock.code = <<>>
  BY <1>1 DEF EmptyBlock, Block, Blocks
<1>3. \A labels : Accept(<<>>, labels)
  BY <1>1 DEF Accept
<1> QED
  BY <1>2, <1>3 DEF EndsInJump, Sound, EmptyBlock, Block

LEMMA SoundMore ==
  ASSUME NEW block, NEW labels, NEW more, labels \subseteq more, Sound(block, labels)
  PROVE  Sound(block, more)
BY DEF Sound, Accept

LEMMA WithNewIs ==
  ASSUME NEW bs, AllSound(bs), NEW labels
  PROVE  LET new == WithNew(bs, labels) IN
         /\ DOMAIN new = DOMAIN bs \cup labels /\ AllSound(new)
         /\ \A b \in labels : new[b] = EmptyBlock /\ ~EndsInJump(new[b])
         /\ \A b \in DOMAIN bs \ labels : new[b] = bs[b]
<1> DEFINE new == WithNew(bs, labels)
<1>1. /\ DOMAIN new = DOMAIN bs \cup labels
      /\ \A b \in labels : new[b] = EmptyBlock
      /\ \A b \in DOMAIN bs \ labels : new[b] = bs[b]
  BY DEF WithNew
<1> HIDE DEF new
<1>2. \A b \in DOMAIN bs : Sound(bs[b], DOMAIN bs \cup labels)
  BY SoundMore DEF AllSound
<1>3. AllSound(new)
  BY <1>1, <1>2, EmptyIs DEF AllSound
<1> QED
  BY <1>1, <1>3, EmptyIs DEF new

\* A block that is closed goes to its target, and only it has changed.
LEMMA ClosedIs ==
  ASSUME NEW bs, AllSound(bs), NEW l \in DOMAIN bs, NEW target \in Texts \cap DOMAIN bs
  PROVE  LET new == Closed(bs, l, target) IN
         /\ DOMAIN new = DOMAIN bs /\ AllSound(new)
         /\ \A b \in DOMAIN bs \ {l} : new[b].code = bs[b].code
<1> DEFINE mid == WithCode(bs, l, <<Jump(target)>>)
<1>1. Accept(<<Jump(target)>>, DOMAIN bs)
  <2>1. Jump(target) \in Tacs /\ Jump(target).op = "JMP" /\ Jump(target).res = target
    BY NoLabels, OperandTypes DEF Jump, Tac3, Tacs, TacOps
  <2> QED  BY <2>1 DEF Accept
<1>2. /\ DOMAIN mid = DOMAIN bs /\ AllSound(mid)
      /\ \A b \in DOMAIN bs \ {l} : mid[b] = bs[b]
  BY <1>1, WithCodeIs
<1> HIDE DEF mid
<1>3. /\ DOMAIN WithTrueExit(mid, l, target) = DOMAIN bs /\ AllSound(WithTrueExit(mid, l, target))
      /\ \A b \in DOMAIN bs : WithTrueExit(mid, l, target)[b].code = mid[b].code
  BY <1>2, WithExitsIs
<1> QED
  BY <1>2, <1>3 DEF Closed, mid

-----------------------------------------------------------------------------
(***************************************************************************)
(* Temporaries and labels that a step takes.                               *)
(***************************************************************************)
LEMMA MethodNames ==
  ASSUME Counters
  PROVE  /\ DOMAIN temps \subseteq Texts
         /\ NoBlock \notin DOMAIN temps
         /\ \A n \in Nat : <<"block", n>> \notin DOMAIN temps
         /\ MadeLabels \subseteq Texts
<1>1. DOMAIN temps = {source[i].name : i \in DOMAIN source}
  BY DEF Counters
<1>2. \A i \in DOMAIN source : source[i] \in Methods
  <2>1. source \in Seq(Methods)
    BY SourceAssumption DEF Counters
  <2> QED  BY <2>1
<1>3. \A x \in DOMAIN temps : \E m \in Methods : x = m.name
  BY <1>1, <1>2
<1>4. \A m \in Methods : m.name \in Texts
  BY MethodsNode DEF Texts, Nodes
<1>5. \A m \in Methods : m.name # NoBlock /\ m.name[1] # "block"
  BY SourceAssumption
<1>6. \A n \in Nat : <<"block", n>>[1] = "block" /\ <<"block", n>> \in Texts
  BY DEF Texts
<1>7. nextBlock \in Nat
  BY DEF Counters
<1> QED
  BY <1>3, <1>4, <1>5, <1>6, <1>7 DEF MadeLabels

OneMore(f, g, D, s, x) == \A n \in D : g[n] = IF n = s THEN f[n] \cup {x} ELSE f[n]

LEMMA UnionOneMore ==
  ASSUME NEW D, NEW f, NEW g, NEW s \in D, NEW x, OneMore(f, g, D, s, x)
  PROVE  AllOf(g, D) = AllOf(f, D) \cup {x}
<1>1. \A y : y \in AllOf(g, D) <=> \E n \in D : y \in g[n]
  BY DEF AllOf
<1>2. \A y : y \in AllOf(f, D) <=> \E n \in D : y \in f[n]
  BY DEF AllOf
<1>3. \A y : (\E n \in D : y \in g[n]) <=> (\E n \in D : y \in f[n]) \/ y = x
  <2> TAKE y
  <2>1. y = x => y \in g[s]
    BY DEF OneMore
  <2>2. \A n \in D : y \in g[n] <=> y \in f[n] \/ (n = s /\ y = x)
    BY DEF OneMore
  <2> QED  BY <2>1, <2>2
<1>4. \A y : y \in AllOf(g, D) <=> y \in AllOf(f, D) \/ y = x
  BY <1>1, <1>2, <1>3
<1>5. AllOf(g, D) \subseteq AllOf(f, D) \cup {x} /\ AllOf(f, D) \cup {x} \subseteq AllOf(g, D)
  BY <1>4
<1> QED
  BY <1>5

LEMMA TempsAfter ==
  ASSUME Counters, UNCHANGED source, NoTemp \/ (scope \in DOMAIN temps /\ TakeTemp)
  PROVE  /\ DOMAIN temps' = DOMAIN temps
         /\ temps' = [n \in {source[i].name : i \in DOMAIN source} |-> temps'[n]]
         /\ nextTemp' \in Nat /\ AllOf(temps', DOMAIN temps') = MadeTemps'
<1>1. /\ temps = [n \in {source[i].name : i \in DOMAIN source} |-> temps[n]]
      /\ DOMAIN temps = {source[i].name : i \in DOMAIN source}
      /\ nextTemp \in Nat /\ AllOf(temps, DOMAIN temps) = MadeTemps
  BY DEF Counters
<1>2. CASE NoTemp
  BY <1>1, <1>2 DEF NoTemp, MadeTemps
<1>3. CASE scope \in DOMAIN temps /\ TakeTemp
  <2>1. temps' = [n \in DOMAIN temps |-> temps'[n]]
    BY <1>3 DEF TakeTemp
  <2>2. OneMore(temps, temps', DOMAIN temps, scope, Temp)
    BY <1>3 DEF TakeTemp, OneMore
  <2>3. DOMAIN temps' = DOMAIN temps
    BY <2>1
  <2>4. nextTemp' = nextTemp + 1 /\ nextTemp' \in Nat
    BY <1>1, <1>3 DEF TakeTemp
  <2>5. AllOf(temps', DOMAIN temps) = AllOf(temps, DOMAIN temps) \cup {Temp}
    BY <1>3, <2>2, UnionOneMore
  <2>6. MadeTemps' = MadeTemps \cup {Temp}
    <3>1. 0 .. nextTemp' - 1 = (0 .. nextTemp - 1) \cup {nextTemp}
      BY <1>1, <2>4
    <3> QED  BY <3>1 DEF MadeTemps, Temp
  <2>7. AllOf(temps', DOMAIN temps') = MadeTemps'
    BY <1>1, <2>3, <2>5, <2>6
  <2>8. temps' = [n \in {source[i].name : i \in DOMAIN source} |-> temps'[n]]
    BY <1>1, <2>1
  <2> QED  BY <2>3, <2>4, <2>7, <2>8
<1> QED
  BY <1>2, <1>3

LEMMA TempTaken ==
  ASSUME Counters, scope \in DOMAIN temps, TakeTemp, UNCHANGED <<source, nextBlock>>
  PROVE  Counters' /\ DOMAIN temps' = DOMAIN temps /\ MadeLabels' = MadeLabels /\ Temp \in Texts
<1>1. /\ DOMAIN temps' = DOMAIN temps
      /\ temps' = [n \in {source[i].name : i \in DOMAIN source} |-> temps'[n]]
      /\ nextTemp' \in Nat /\ AllOf(temps', DOMAIN temps') = MadeTemps'
  BY TempsAfter
<1>2. nextBlock' \in Nat /\ source' \in Sources /\ source' = source
  BY DEF Counters
<1>3. Counters'
  BY <1>1, <1>2 DEF Counters
<1>4. Temp \in Texts
  BY DEF Temp, Texts, Counters
<1>5. MadeLabels' = MadeLabels
  BY <1>1 DEF MadeLabels
<1> QED
  BY <1>1, <1>3, <1>4, <1>5

LEMMA NothingTaken ==
  ASSUME Counters, NoTemp, UNCHANGED <<source, nextBlock>>
  PROVE  Counters' /\ DOMAIN temps' = DOMAIN temps /\ MadeLabels' = MadeLabels
BY DEF Counters, NoTemp, MadeLabels, MadeTemps

LEMMA LabelsAre ==
  ASSUME nextBlock \in Nat, NEW n \in Nat
  PROVE  /\ Labels(n) \in Seq(Texts) /\ Len(Labels(n)) = n
         /\ \A i \in 1 .. n : Labels(n)[i] = <<"block", nextBlock + (i - 1)>> /\ Labels(n)[i] = Label(i - 1)
         /\ ToSet(Labels(n)) = {<<"block", nextBlock + (i - 1)>> : i \in 1 .. n}
         /\ \A i, j \in 1 .. n : Labels(n)[i] = Labels(n)[j] => i = j
<1>1. Labels(n) = [i \in 1 .. n |-> <<"block", nextBlock + (i - 1)>>]
  BY DEF Labels, Label
<1>2. \A i \in 1 .. n : <<"block", nextBlock + (i - 1)>> \in Texts
  <2> TAKE i \in 1 .. n
  <2>1. nextBlock + (i - 1) \in Nat
    OBVIOUS
  <2> QED  BY <2>1 DEF Texts
<1>3. \A i, j \in 1 .. n : <<"block", nextBlock + (i - 1)>> = <<"block", nextBlock + (j - 1)>> => i = j
  OBVIOUS
<1>4. \A i \in 1 .. n : Label(i - 1) = <<"block", nextBlock + (i - 1)>>
  BY DEF Label
<1>5. Labels(n) \in Seq(Texts) /\ Len(Labels(n)) = n /\ DOMAIN Labels(n) = 1 .. n
  <2> DEFINE f == Labels(n)
  <2>1. f = [i \in 1 .. n |-> f[i]] /\ \A i \in 1 .. n : f[i] \in Texts
    BY <1>1, <1>2
  <2> HIDE DEF f
  <2>2. f \in Seq(Texts) /\ Len(f) = n /\ DOMAIN f = 1 .. n
    BY <2>1
  <2> QED  BY <2>2 DEF f
<1>6. ToSet(Labels(n)) = {<<"block", nextBlock + (i - 1)>> : i \in 1 .. n}
  BY <1>1, <1>5 DEF ToSet
<1> QED
  BY <1>1, <1>3, <1>4, <1>5, <1>6

LEMMA BlocksTaken ==
  ASSUME Counters, NEW n \in Nat, NewBlocks(n), UNCHANGED source,
         \/ NoTemp
         \/ scope \in DOMAIN temps /\ TakeTemp
  PROVE  /\ Counters' /\ DOMAIN temps' = DOMAIN temps
         /\ MadeLabels \cup ToSet(Labels(n)) \subseteq MadeLabels'
         /\ ToSet(Labels(n)) \cap (MadeLabels \cup {NoBlock}) = {}
         /\ ToSet(Labels(n)) \subseteq Texts
<1>1. nextBlock \in Nat /\ nextBlock' = nextBlock + n /\ nextBlock' \in Nat
  BY DEF Counters, NewBlocks
<1>2. /\ Labels(n) \in Seq(Texts)
      /\ ToSet(Labels(n)) = {<<"block", nextBlock + (i - 1)>> : i \in 1 .. n}
  BY <1>1, LabelsAre
<1>3. /\ DOMAIN temps' = DOMAIN temps
      /\ temps' = [k \in {source[i].name : i \in DOMAIN source} |-> temps'[k]]
      /\ nextTemp' \in Nat /\ AllOf(temps', DOMAIN temps') = MadeTemps'
  BY TempsAfter
<1>4. Counters'
  <2>1. source' = source /\ source' \in Sources
    BY DEF Counters
  <2> QED  BY <1>1, <1>3, <2>1 DEF Counters
<1>5. MadeLabels \cup ToSet(Labels(n)) \subseteq MadeLabels'
  <2>1. \A i \in 1 .. n : nextBlock + (i - 1) \in 0 .. nextBlock' - 1
    BY <1>1
  <2>2. 0 .. nextBlock - 1 \subseteq 0 .. nextBlock' - 1
    BY <1>1
  <2> QED  BY <1>2, <1>3, <2>1, <2>2 DEF MadeLabels
<1>6. ToSet(Labels(n)) \cap (MadeLabels \cup {NoBlock}) = {}
  <2> SUFFICES ASSUME NEW i \in 1 .. n
               PROVE  <<"block", nextBlock + (i - 1)>> \notin MadeLabels \cup {NoBlock}
    BY <1>2
  <2>1. nextBlock + (i - 1) \in Nat /\ nextBlock + (i - 1) \notin 0 .. nextBlock - 1
    BY <1>1
  <2>2. <<"block", nextBlock + (i - 1)>> \notin DOMAIN temps
    BY <2>1, MethodNames
  <2>3. \A k \in 0 .. nextBlock - 1 : <<"block", nextBlock + (i - 1)>> # <<"block", k>>
    BY <2>1
  <2> QED  BY <2>2, <2>3 DEF MadeLabels, NoBlock
<1>7. ToSet(Labels(n)) \subseteq Texts
  BY <1>2 DEF ToSet
<1> QED
  BY <1>3, <1>4, <1>5, <1>6, <1>7

-----------------------------------------------------------------------------
(***************************************************************************)
(* A step of a task, from what it makes of the blocks and of the values.   *)
(***************************************************************************)
\* What no step may change.
Quiet == \A b \in DOMAIN blocks : EndsInJump(blocks[b]) => blocks'[b].code = blocks[b].code

LEMMA Working ==
  ASSUME IInv, agenda # <<>>, ~IsMethod(task)
  PROVE  /\ task \in Tasks /\ Shaped(task) /\ Apart(task) /\ Tail(agenda) \in Seq(Tasks)
         /\ \A k \in DOMAIN task.labels : task.labels[k] \in Texts \cap DOMAIN blocks
         /\ Owned(task) \subseteq Open(blocks) \ {currentBlock}
         /\ currentBlock \in Open(blocks) /\ currentBlock \in Texts \cap DOMAIN blocks
         /\ scope \in DOMAIN temps /\ AllSound(blocks)
         /\ DOMAIN blocks \subseteq MadeLabels /\ DOMAIN blocks \subseteq Texts
         /\ Len(values) \in Nat /\ values \in Seq(Operands) /\ Len(values) >= Takes(task)
<1>1. agenda \in Seq(Tasks) /\ task = agenda[1] /\ 1 \in DOMAIN agenda
  BY DEF IInv, Agenda, task
<1>2. Ready(task, blocks, currentBlock, DOMAIN temps) /\ scope \in DOMAIN temps
  BY <1>1 DEF IInv, Agenda
<1>3. AllSound(blocks) /\ DOMAIN blocks \subseteq MadeLabels
  BY LinkedIs DEF IInv
<1>4. DOMAIN blocks \subseteq Texts
  BY <1>3, MethodNames DEF IInv
<1>5. PICK m : Runs(agenda, Len(values), m)
  BY DEF IInv, Stack
<1>6. Len(values) >= Takes(task)
  BY <1>1, <1>5, RunsTail DEF task
<1>7. values \in Seq(Operands) /\ Len(values) \in Nat
  BY DEF IInv, Stack
<1> QED
  BY <1>1, <1>2, <1>3, <1>4, <1>6, <1>7 DEF Ready, Open

LEMMA Advance ==
  ASSUME IInv, agenda # <<>>, ~IsMethod(task), NEW tasks \in Seq(Tasks), NEW fresh,
         UNCHANGED <<source, scope>>, agenda' = tasks \o Tail(agenda),
         Counters', DOMAIN temps' = DOMAIN temps,
         DOMAIN blocks' = DOMAIN blocks \cup fresh, DOMAIN blocks' \subseteq MadeLabels',
         fresh \cap MadeLabels = {}, AllSound(blocks'),
         \A b \in DOMAIN blocks \ ({currentBlock} \cup Owned(task)) : blocks'[b].code = blocks[b].code,
         currentBlock' \in {currentBlock} \cup Owned(task) \cup fresh,
         task.node \in Inner => currentBlock' \in Open(blocks'),
         values' \in Seq(Operands),
         Runs(tasks, Len(values'), (Len(values) - Takes(task)) + Gives(task)),
         \A i \in DOMAIN tasks : Ready(tasks[i], blocks', currentBlock', DOMAIN temps),
         \A i \in DOMAIN tasks : Owned(tasks[i]) \subseteq Owned(task) \cup fresh,
         task.node \in Inner => \A i \in DOMAIN tasks : tasks[i].node \in Inner,
         Ordered(tasks)
  PROVE  IInv' /\ Quiet
<1>1. /\ task \in Tasks /\ Tail(agenda) \in Seq(Tasks) /\ Owned(task) \subseteq Open(blocks)
      /\ currentBlock \in Open(blocks) /\ currentBlock \in DOMAIN blocks /\ scope \in DOMAIN temps
  BY Working
<1>2. Quiet
  BY <1>1 DEF Quiet, Open
<1>3. agenda \in Seq(Tasks) /\ Ordered(agenda)
      /\ \A i \in DOMAIN agenda : Ready(agenda[i], blocks, currentBlock, DOMAIN temps)
  BY DEF IInv, Agenda
<1>4. fresh \cap (DOMAIN blocks \cup DOMAIN temps) = {}
  BY LinkedIs DEF IInv, MadeLabels
<1>5. /\ agenda' \in Seq(Tasks) /\ Ordered(agenda')
      /\ \A i \in DOMAIN agenda' : Ready(agenda'[i], blocks', currentBlock', DOMAIN temps)
  BY <1>3, <1>4, Onward DEF task
<1>6. Agenda'
  BY <1>1, <1>5 DEF Agenda, Ordered
<1>7. Stack'
  <2>1. PICK m : Runs(agenda, Len(values), m)
    BY DEF IInv, Stack
  <2>2. Runs(Tail(agenda), (Len(values) - Takes(task)) + Gives(task), m)
    BY <1>3, <2>1, RunsTail DEF task
  <2>3. Runs(agenda', Len(values'), m)
    BY <1>1, <2>2, RunsConcat
  <2> QED  BY <2>3 DEF Stack
<1>8. Linked(blocks, MadeLabels)'
  <2>1. Linked(blocks', MadeLabels')
    BY LinkedIs
  <2> QED  BY <2>1 DEF Linked
<1>9. currentBlock' \in DOMAIN blocks' \cup {NoBlock} /\ scope' \in DOMAIN temps' \cup {NoBlock}
  BY <1>1 DEF Open
<1> QED
  BY <1>2, <1>6, <1>7, <1>8, <1>9 DEF IInv

-----------------------------------------------------------------------------
(***************************************************************************)
(* Steps that stay in the current block.                                   *)
(***************************************************************************)
\* A task that owns no block.
Calm(t) == t.do \in {"visit", "finish", "param", "call", "branch"} /\ Shaped(t) /\ ~IsMethod(t)

LEMMA PlainTasks ==
  ASSUME NEW tasks \in Seq(Tasks), NEW bs, NEW cur \in Open(bs), NEW names,
         \A i \in DOMAIN tasks : Calm(tasks[i]),
         \A i \in DOMAIN tasks : i # Len(tasks) => tasks[i].node \in Inner
  PROVE  /\ \A i \in DOMAIN tasks : Ready(tasks[i], bs, cur, names)
         /\ \A i \in DOMAIN tasks : Owned(tasks[i]) = {}
         /\ Ordered(tasks)
<1>1. DOMAIN tasks = 1 .. Len(tasks) /\ Len(tasks) \in Nat
  OBVIOUS
<1>2. ASSUME NEW i \in DOMAIN tasks
      PROVE  Ready(tasks[i], bs, cur, names) /\ Owned(tasks[i]) = {}
  <2> DEFINE t == tasks[i]
  <2>1. t \in Tasks /\ Calm(t)
    OBVIOUS
  <2> HIDE DEF t
  <2>2. Places(t) = {} /\ Len(t.labels) = 0 /\ t.labels \in Seq(Texts)
    BY <2>1 DEF Calm, Places, Shaped, Tasks
  <2>3. DOMAIN t.labels = {}
    BY <2>2
  <2>4. Owned(t) = {} /\ Apart(t)
    BY <2>1, <2>2 DEF Owned, Apart, Calm
  <2> QED  BY <2>1, <2>3, <2>4 DEF Ready, Calm, t
<1>3. Ordered(tasks)
  BY <1>1, <1>2 DEF Ordered, Before
<1> QED
  BY <1>2, <1>3

LEMMA VisitType ==
  ASSUME NEW n \in Nodes, n.kind # "Method"
  PROVE  Visit(n) \in Tasks /\ Calm(Visit(n)) /\ Visit(n).node = n
           /\ Takes(Visit(n)) = 0 /\ Gives(Visit(n)) = IF n.kind \in Expressions THEN 1 ELSE 0
<1>1. /\ Visit(n) \in Tasks /\ Visit(n).do = "visit" /\ Visit(n).node = n
      /\ Visit(n).labels = <<>>
  <2> DEFINE t == Task("visit", n, <<>>, <<>>)
  <2>1. t \in Tasks /\ t.do = "visit" /\ t.node = n /\ t.labels = <<>>
    BY NoLabels DEF Task, Tasks
  <2> QED  BY <2>1 DEF Visit
<1>2. Calm(Visit(n))
  BY <1>1, NoLabels DEF Calm, Shaped, IsMethod
<1> QED
  BY <1>1, <1>2 DEF Takes, Gives

LEMMA VisitsType ==
  ASSUME NEW kids \in Seq(Nodes), \A k \in DOMAIN kids : kids[k].kind # "Method"
  PROVE  /\ VisitAll(kids) \in Seq(Tasks) /\ Len(VisitAll(kids)) = Len(kids)
         /\ \A i \in DOMAIN kids : VisitAll(kids)[i].node = kids[i] /\ Calm(VisitAll(kids)[i])
<1> DEFINE a == Len(kids)
           tasks == VisitAll(kids)
<1>1. a \in Nat /\ DOMAIN kids = 1 .. a /\ \A i \in 1 .. a : kids[i] \in Nodes
  OBVIOUS
<1>2. tasks = [i \in 1 .. a |-> tasks[i]] /\ \A i \in 1 .. a : tasks[i] = Visit(kids[i])
  BY DEF VisitAll
<1> HIDE DEF a, tasks
<1>3. \A i \in 1 .. a : tasks[i] \in Tasks /\ Calm(tasks[i]) /\ tasks[i].node = kids[i]
  BY <1>1, <1>2, VisitType
<1>4. tasks \in Seq(Tasks) /\ Len(tasks) = a
  BY <1>1, <1>2, <1>3
<1> QED
  BY <1>1, <1>3, <1>4 DEF a, tasks

LEMMA InnerVisits ==
  ASSUME NEW kids \in Seq(Inner)
  PROVE  /\ VisitAll(kids) \in Seq(Tasks) /\ Len(VisitAll(kids)) = Len(kids)
         /\ \A i \in DOMAIN VisitAll(kids) : VisitAll(kids)[i].node \in Inner /\ Calm(VisitAll(kids)[i])
<1>1. \A k \in DOMAIN kids : kids[k] \in Inner /\ kids[k].kind # "Method"
  <2> TAKE k \in DOMAIN kids
  <2>1. kids[k] \in Inner
    OBVIOUS
  <2> QED  BY <2>1, InnerNode
<1>2. Inner \subseteq Nodes
  BY DEF Nodes
<1>3. kids \in Seq(Nodes)
  BY <1>2, SeqMonotonic
<1>4. DOMAIN VisitAll(kids) = DOMAIN kids
  BY DEF VisitAll
<1> QED
  BY <1>1, <1>3, <1>4, VisitsType

LEMMA Emits ==
  ASSUME AllSound(blocks), currentBlock \in DOMAIN blocks, NEW tac \in Tacs,
         tac.op \notin {"JMP", "CJMP"}, Emit(<<tac>>)
  PROVE  /\ DOMAIN blocks' = DOMAIN blocks /\ AllSound(blocks')
         /\ \A b \in DOMAIN blocks \ {currentBlock} : blocks'[b].code = blocks[b].code
         /\ tac.op # "RET" => currentBlock \in Open(blocks')
<1>1. Accept(<<tac>>, DOMAIN blocks) /\ Last(<<tac>>).op = tac.op /\ <<tac>> # <<>>
  BY DEF Accept, Last
<1>2. blocks' = WithCode(blocks, currentBlock, <<tac>>)
  BY DEF Emit
<1>3. /\ DOMAIN blocks' = DOMAIN blocks /\ AllSound(blocks')
      /\ \A b \in DOMAIN blocks \ {currentBlock} : blocks'[b] = blocks[b]
      /\ EndsInJump(blocks'[currentBlock]) <=> Last(<<tac>>).op \in Ends
  <2> DEFINE code == <<tac>>
             new == WithCode(blocks, currentBlock, code)
  <2> HIDE DEF code
  <2>1. /\ DOMAIN new = DOMAIN blocks /\ AllSound(new)
        /\ \A b \in DOMAIN blocks \ {currentBlock} : new[b] = blocks[b]
        /\ code # <<>> => (EndsInJump(new[currentBlock]) <=> Last(code).op \in Ends)
    BY <1>1, WithCodeIs DEF code
  <2> HIDE DEF new
  <2> QED  BY <1>1, <1>2, <2>1 DEF new, code
<1> QED
  BY <1>1, <1>3 DEF Open, Ends

LEMMA Calmly ==
  ASSUME IInv, agenda # <<>>, ~IsMethod(task), NEW tasks \in Seq(Tasks), NEW tac \in Tacs,
         Proceed(tasks), SamePlace, UNCHANGED nextBlock, TakeTemp \/ NoTemp,
         UNCHANGED blocks \/ (Emit(<<tac>>) /\ tac.op \notin {"JMP", "CJMP"}),
         UNCHANGED blocks \/ tac.op # "RET" \/ (task.node \notin Inner /\ tasks = <<>>),
         values' \in Seq(Operands),
         Runs(tasks, Len(values'), (Len(values) - Takes(task)) + Gives(task)),
         \A i \in DOMAIN tasks : Calm(tasks[i]),
         \A i \in DOMAIN tasks : i # Len(tasks) => tasks[i].node \in Inner,
         task.node \in Inner => \A i \in DOMAIN tasks : tasks[i].node \in Inner
  PROVE  IInv' /\ Quiet
<1>1. /\ currentBlock \in Open(blocks) /\ currentBlock \in DOMAIN blocks
      /\ scope \in DOMAIN temps /\ AllSound(blocks) /\ DOMAIN blocks \subseteq MadeLabels
  BY Working
<1>2. UNCHANGED <<source, scope, currentBlock, nextBlock>> /\ agenda' = tasks \o Tail(agenda)
  BY DEF SamePlace, Proceed
<1>3. Counters' /\ DOMAIN temps' = DOMAIN temps /\ MadeLabels' = MadeLabels
  BY <1>1, <1>2, TempTaken, NothingTaken DEF IInv
<1>4. /\ DOMAIN blocks' = DOMAIN blocks \cup {} /\ AllSound(blocks')
      /\ \A b \in DOMAIN blocks \ {currentBlock} : blocks'[b].code = blocks[b].code
      /\ UNCHANGED blocks \/ tac.op # "RET" => currentBlock \in Open(blocks')
  <2>1. CASE UNCHANGED blocks
    BY <1>1, <2>1
  <2>2. CASE Emit(<<tac>>) /\ tac.op \notin {"JMP", "CJMP"}
    <3>1. /\ DOMAIN blocks' = DOMAIN blocks /\ AllSound(blocks')
          /\ \A b \in DOMAIN blocks \ {currentBlock} : blocks'[b].code = blocks[b].code
          /\ tac.op # "RET" => currentBlock \in Open(blocks')
      BY <1>1, <2>2, Emits
    <3>2. UNCHANGED blocks => currentBlock \in Open(blocks')
      BY <1>1
    <3> QED  BY <3>1, <3>2
  <2> QED  BY <2>1, <2>2
<1>5. \/ currentBlock \in Open(blocks')
      \/ task.node \notin Inner /\ tasks = <<>>
  BY <1>4
<1>6. /\ \A i \in DOMAIN tasks : Ready(tasks[i], blocks', currentBlock', DOMAIN temps)
      /\ \A i \in DOMAIN tasks : Owned(tasks[i]) \subseteq Owned(task) \cup {}
      /\ Ordered(tasks)
  <2>1. CASE currentBlock \in Open(blocks')
    BY <1>2, <2>1, PlainTasks
  <2>2. CASE tasks = <<>>
    BY <2>2 DEF Ordered
  <2> QED  BY <1>5, <2>1, <2>2
<1>7. /\ DOMAIN blocks' \subseteq MadeLabels' /\ {} \cap MadeLabels = {}
      /\ currentBlock' \in {currentBlock} \cup Owned(task) \cup {}
      /\ task.node \in Inner => currentBlock' \in Open(blocks')
      /\ \A b \in DOMAIN blocks \ ({currentBlock} \cup Owned(task)) : blocks'[b].code = blocks[b].code
  BY <1>1, <1>2, <1>3, <1>4, <1>5
<1> QED
  BY <1>2, <1>3, <1>4, <1>6, <1>7, Advance

LEMMA ValuesLeft ==
  ASSUME values \in Seq(Operands), NEW k \in 0 .. Len(values)
  PROVE  /\ Without(k) \in Seq(Operands) /\ Len(Without(k)) = Len(values) - k
         /\ \A j \in 0 .. Len(values) - 1 : Operand(j) \in Operands
<1>1. Len(values) \in Nat /\ \A i \in 1 .. Len(values) : values[i] \in Operands
  OBVIOUS
<1>2. \A i \in 1 .. Len(values) - k : values[i] \in Operands
  BY <1>1
<1>3. Len(values) - k \in Int /\ 1 \in Int
  BY <1>1
<1>4. /\ Without(k) \in Seq(Operands)
      /\ Len(Without(k)) = IF 1 <= Len(values) - k THEN (Len(values) - k) - 1 + 1 ELSE 0
  BY <1>2, <1>3, SubSeqProperties DEF Without
<1>5. \A j \in 0 .. Len(values) - 1 : Operand(j) \in Operands
  BY <1>1 DEF Operand
<1> QED
  BY <1>1, <1>4, <1>5

LEMMA Operated ==
  ASSUME NEW n \in Nodes, n.kind \in Strict \cup Sized \cup Statements
  PROVE  /\ n \in Inner \/ n.kind = "RET"
         /\ n.kids \in Seq(Inner) /\ \A k \in DOMAIN n.kids : n.kids[k].kind \in Expressions
         /\ Len(n.kids) = IF n.kind \in TwoOperands \cup {"ArrayAssign"} THEN 2 ELSE 1
<1>1. n.kind \notin {"Method", "List"}
  BY Kinds
<1>2. "RET" \notin TwoOperands
  BY DEF TwoOperands, BinaryOps
<1>3. CASE n.kind = "RET"
  <2>1. n \in Returns
    BY <1>3, NodeOf
  <2>2. /\ n.kids \in Seq(Inner) /\ Len(n.kids) = 1 /\ n.kids[1].kind \in Expressions
    BY <2>1, ReturnNode
  <2>3. \A k \in DOMAIN n.kids : k = 1
    BY <2>2
  <2> QED  BY <1>2, <1>3, <2>2, <2>3
<1>4. CASE n.kind # "RET"
  <2>1. n \in Inner
    BY <1>1, <1>4, NodeOf
  <2>2. WellFormed(n) /\ n.kids \in Seq(Inner)
    BY <2>1, InnerNode
  <2>3. n.kind \in Expressions \cup Statements
    BY Kinds
  <2>4. /\ n.kind \in TwoOperands \cup {"ArrayAssign"} => Len(n.kids) = 2
        /\ n.kind \in Sized \cup {"NOT", "Assign", "PRINT"} => Len(n.kids) = 1
        /\ \A k \in DOMAIN n.kids : n.kids[k].kind \in Expressions
    BY <2>2, <2>3 DEF WellFormed
  <2>5. n.kind \notin TwoOperands \cup {"ArrayAssign"} => n.kind \in Sized \cup {"NOT", "Assign", "PRINT"}
    BY <1>4, Kinds
  <2> QED  BY <2>1, <2>2, <2>4, <2>5
<1> QED
  BY <1>3, <1>4

LEMMA TacForType ==
  ASSUME values \in Seq(Operands), NEW n \in Nodes, n.kind \in Strict \cup Sized \cup Statements,
         Len(values) >= Len(n.kids), NEW res \in Texts
  PROVE  /\ TacFor(n, res) \in Tacs
         /\ TacFor(n, res).op \notin {"JMP", "CJMP"}
         /\ n.kind # "RET" => TacFor(n, res).op # "RET"
<1>1. /\ Len(n.kids) = IF n.kind \in TwoOperands \cup {"ArrayAssign"} THEN 2 ELSE 1
      /\ n.text \in Texts
  BY Operated, NodeOf
<1>2. Len(values) \in Nat /\ 0 \in 0 .. Len(values)
  OBVIOUS
<1>3. \A j \in 0 .. Len(values) - 1 : Operand(j) \in Operands
  BY <1>2, ValuesLeft
<1>4. None \in Operands
  BY OperandTypes
<1>5. CASE n.kind \in TwoOperands
  <2>1. Operand(1) \in Operands /\ Operand(0) \in Operands
    BY <1>1, <1>2, <1>3, <1>5
  <2>2. n.kind \in TacOps /\ n.kind \notin {"JMP", "CJMP", "RET"}
    BY <1>5 DEF TacOps, Defines, TwoOperands, BinaryOps
  <2>3. TacFor(n, res) = Tac3(n.kind, res, Operand(1), Operand(0))
    BY <1>5 DEF TacFor, TwoOperands, BinaryOps
  <2> QED  BY <2>1, <2>2, <2>3, TacTypes
<1>6. CASE n.kind = "ArrayAssign"
  <2>1. Operand(1) \in Operands /\ Operand(0) \in Operands
    BY <1>1, <1>2, <1>3, <1>6
  <2>2. TacFor(n, res) = Tac3("ARRAY_STORE", n.text, Operand(1), Operand(0))
    BY <1>6 DEF TacFor, TwoOperands, BinaryOps
  <2>3. "ARRAY_STORE" \in TacOps
    BY DEF TacOps, ReadsLhs
  <2> QED  BY <1>1, <2>1, <2>2, <2>3, TacTypes
<1>7. CASE n.kind \notin TwoOperands \cup {"ArrayAssign"}
  <2>1. Operand(0) \in Operands
    BY <1>1, <1>2, <1>3, <1>7
  <2>2. CASE n.kind = "Assign"
    <3>1. TacFor(n, res) = Copy(Operand(0), n.text)
      BY <2>2 DEF TacFor, TwoOperands, BinaryOps
    <3>2. "COPY" \in TacOps
      BY DEF TacOps, Defines
    <3> QED  BY <1>1, <1>4, <2>1, <3>1, <3>2, TacTypes
  <2>3. CASE n.kind # "Assign"
    <3>1. TacFor(n, res) = Tac3(n.kind, res, None, Operand(0))
      BY <1>7, <2>3 DEF TacFor
    <3>2. n.kind \in {"NOT", "NEW_ARRAY", "ARRAY_LENGTH", "PRINT", "RET"}
      BY <1>7, <2>3, Kinds
    <3>3. n.kind \in TacOps
      BY <3>2 DEF TacOps, ReadsRhs
    <3> QED  BY <1>4, <2>1, <3>1, <3>2, <3>3, TacTypes
  <2> QED  BY <2>2, <2>3
<1> QED
  BY <1>5, <1>6, <1>7

\* A plain operation that a step emits nothing by.
LEMMA SomeTac == Jump(NoBlock) \in Tacs
BY NoLabels, OperandTypes DEF Jump, Tac3, Tacs, TacOps, NoBlock

LEMMA AtWork ==
  ASSUME IInv, agenda # <<>>, task.do = "visit" => task.node.kind # "Method"
  PROVE  /\ ~IsMethod(task) /\ task \in Tasks /\ task.node \in Nodes /\ Shaped(task)
         /\ Len(values) \in Nat /\ values \in Seq(Operands) /\ Len(values) >= Takes(task)
         /\ scope \in DOMAIN temps
<1>1. ~IsMethod(task)
  BY DEF IsMethod
<1> QED
  BY <1>1, Working DEF Tasks

LEMMA LeafStep == IInv /\ Leaf => IInv' /\ Quiet
<1> SUFFICES ASSUME IInv, Leaf
             PROVE  IInv' /\ Quiet
  OBVIOUS
<1>1. /\ agenda # <<>> /\ task.do = "visit" /\ task.node.kind \in ExpressionLeaves
      /\ values' = Append(values, LeafOperand(task.node)) /\ Proceed(<<>>)
      /\ SamePlace /\ UNCHANGED <<blocks, nextBlock>> /\ NoTemp
  BY DEF Leaf, Visiting, Doing, SameBlocks
<1>2. task.node.kind # "Method" /\ task.node.kind \in Expressions
  BY <1>1, Kinds
<1>3. /\ ~IsMethod(task) /\ task \in Tasks /\ task.node \in Nodes
      /\ Len(values) \in Nat /\ values \in Seq(Operands)
  BY <1>1, <1>2, AtWork
<1>4. task.node \in Inner
  BY <1>2, <1>3, Kinds, NodeOf
<1>5. task.node.num \in Int /\ task.node.text \in Texts
  BY <1>3, <1>4, InnerNode, NodeOf DEF WellFormed
<1>6. LeafOperand(task.node) \in Operands
  <2>1. Imm(task.node.num) \in Operands /\ Imm(1) \in Operands /\ Imm(0) \in Operands
    BY <1>5, OperandTypes
  <2>2. Name(This) \in Operands /\ Name(task.node.text) \in Operands
    BY <1>5, OperandTypes DEF Texts
  <2> QED  BY <1>1, <2>1, <2>2 DEF LeafOperand, ExpressionLeaves
<1>7. values' \in Seq(Operands) /\ Len(values') = Len(values) + 1
  BY <1>1, <1>3, <1>6, AppendProperties
<1>8. Takes(task) = 0 /\ Gives(task) = 1
  BY <1>1, <1>2 DEF Takes, Gives
<1>9. Runs(<<>>, Len(values'), (Len(values) - Takes(task)) + Gives(task))
  BY <1>3, <1>7, <1>8, RunsNone
<1>10. <<>> \in Seq(Tasks) /\ DOMAIN <<>> = {}
  BY EmptySeq
<1> QED
  BY <1>1, <1>3, <1>7, <1>9, <1>10, SomeTac, Calmly

LEMMA NewStep == IInv /\ New => IInv' /\ Quiet
<1> SUFFICES ASSUME IInv, New
             PROVE  IInv' /\ Quiet
  OBVIOUS
<1> DEFINE tac == Tac3("NEW", Temp, None, Name(task.node.text))
<1>1. /\ agenda # <<>> /\ task.do = "visit" /\ task.node.kind = "NEW"
      /\ values' = Append(values, Name(Temp)) /\ Proceed(<<>>)
      /\ SamePlace /\ UNCHANGED nextBlock /\ TakeTemp /\ Emit(<<tac>>)
  BY DEF New, Visiting, Doing
<1>2. task.node.kind # "Method" /\ task.node.kind \in Expressions
  BY <1>1, Kinds
<1>3. /\ ~IsMethod(task) /\ task \in Tasks /\ task.node \in Nodes /\ scope \in DOMAIN temps
      /\ Len(values) \in Nat /\ values \in Seq(Operands)
  BY <1>1, <1>2, AtWork
<1>4. Temp \in Texts /\ task.node.text \in Texts
  BY <1>1, <1>3, NodeOf, TempTaken DEF IInv, SamePlace
<1>5. tac \in Tacs /\ tac.op = "NEW"
  BY <1>4, OperandTypes, TacTypes DEF TacOps, Defines
<1> HIDE DEF tac
<1>6. values' \in Seq(Operands) /\ Len(values') = Len(values) + 1
  BY <1>1, <1>3, <1>4, OperandTypes, AppendProperties
<1>7. Takes(task) = 0 /\ Gives(task) = 1
  BY <1>1, <1>2 DEF Takes, Gives
<1>8. Runs(<<>>, Len(values'), (Len(values) - Takes(task)) + Gives(task))
  BY <1>3, <1>6, <1>7, RunsNone
<1>9. <<>> \in Seq(Tasks) /\ DOMAIN <<>> = {}
  BY EmptySeq
<1> QED
  BY <1>1, <1>3, <1>5, <1>6, <1>8, <1>9, Calmly

LEMMA PlainConcat ==
  ASSUME NEW s \in Seq(Tasks), NEW t \in Seq(Tasks), t # <<>>,
         \A i \in DOMAIN s : Calm(s[i]) /\ s[i].node \in Inner,
         \A i \in DOMAIN t : Calm(t[i]),
         \A i \in DOMAIN t : i # Len(t) => t[i].node \in Inner
  PROVE  /\ s \o t \in Seq(Tasks)
         /\ \A i \in DOMAIN (s \o t) : Calm((s \o t)[i])
         /\ \A i \in DOMAIN (s \o t) : i # Len(s \o t) => (s \o t)[i].node \in Inner
         /\ (\A i \in DOMAIN t : t[i].node \in Inner) => \A i \in DOMAIN (s \o t) : (s \o t)[i].node \in Inner
<1> DEFINE a == Len(s)
           z == Len(t)
           u == s \o t
<1>1. a \in Nat /\ z \in Nat /\ z >= 1 /\ DOMAIN s = 1 .. a /\ DOMAIN t = 1 .. z
  OBVIOUS
<1>2. /\ u \in Seq(Tasks) /\ Len(u) = a + z /\ DOMAIN u = 1 .. a + z
      /\ \A i \in 1 .. a + z : u[i] = IF i <= a THEN s[i] ELSE t[i - a]
  BY ConcatProperties
<1> HIDE DEF a, z, u
<1>3. \A i \in 1 .. a + z : \/ i \in 1 .. a /\ u[i] = s[i]
                            \/ i - a \in 1 .. z /\ u[i] = t[i - a] /\ (i # a + z => i - a # z)
  BY <1>1, <1>2
<1>4. \A i \in 1 .. a + z : Calm(u[i])
  BY <1>1, <1>3
<1>5. \A i \in 1 .. a + z : i # a + z => u[i].node \in Inner
  BY <1>1, <1>3 DEF z
<1>6. (\A i \in DOMAIN t : t[i].node \in Inner) => \A i \in 1 .. a + z : u[i].node \in Inner
  BY <1>1, <1>3
<1> QED
  BY <1>2, <1>4, <1>5, <1>6 DEF u

LEMMA FinishType ==
  ASSUME NEW n \in Nodes, n.kind \in Strict \cup Sized \cup Statements, NEW name \in Texts
  PROVE  LET t == Task("finish", n, <<>>, name) IN
         /\ t \in Tasks /\ Calm(t) /\ t.node = n
         /\ Takes(t) = Len(n.kids) /\ Gives(t) = IF n.kind \in Expressions THEN 1 ELSE 0
<1> DEFINE t == Task("finish", n, <<>>, name)
<1>1. t \in Tasks /\ t.do = "finish" /\ t.node = n /\ t.labels = <<>>
  BY NoLabels DEF Task, Tasks, Continuations
<1> HIDE DEF t
<1>2. Calm(t)
  BY <1>1, NoLabels DEF Calm, Shaped, IsMethod
<1>3. n.kind \in Statements <=> n.kind \notin Expressions
  BY Kinds
<1>4. Takes(t) = Len(n.kids) /\ Gives(t) = IF n.kind \in Expressions THEN 1 ELSE 0
  BY <1>1, <1>3 DEF Takes, Gives
<1> QED
  BY <1>1, <1>2, <1>4 DEF t

LEMMA OperandsThenFinish ==
  ASSUME NEW n \in Nodes, n.kind \in Strict \cup Sized \cup Statements, NEW name \in Texts, NEW v \in Nat
  PROVE  LET tasks == VisitAll(n.kids) \o <<Task("finish", n, <<>>, name)>> IN
         /\ tasks \in Seq(Tasks)
         /\ \A i \in DOMAIN tasks : Calm(tasks[i])
         /\ \A i \in DOMAIN tasks : i # Len(tasks) => tasks[i].node \in Inner
         /\ n \in Inner => \A i \in DOMAIN tasks : tasks[i].node \in Inner
         /\ Runs(tasks, v, IF n.kind \in Expressions THEN v + 1 ELSE v)
<1> DEFINE s == VisitAll(n.kids)
           f == Task("finish", n, <<>>, name)
           t == <<f>>
           k == Len(n.kids)
<1>1. n.kids \in Seq(Inner) /\ k \in Nat /\ \A i \in DOMAIN n.kids : n.kids[i].kind \in Expressions
  BY Operated
<1>2. s \in Seq(Tasks) /\ \A i \in DOMAIN s : Calm(s[i]) /\ s[i].node \in Inner
  BY <1>1, InnerVisits
<1>3. f \in Tasks /\ Calm(f) /\ f.node = n /\ Takes(f) = k
      /\ Gives(f) = IF n.kind \in Expressions THEN 1 ELSE 0
  BY FinishType
<1>4. Runs(s, v, v + k)
  BY <1>1, RunsVisits
<1> HIDE DEF s, f, k
<1>5. t \in Seq(Tasks) /\ t # <<>> /\ Len(t) = 1 /\ \A i \in DOMAIN t : i = 1 /\ t[i] = f
  BY <1>3
<1>6. Runs(t, v + k, IF n.kind \in Expressions THEN v + 1 ELSE v)
  <2>1. v + k \in Nat /\ Takes(f) \in 0 .. v + k /\ Gives(f) \in Nat
    BY <1>1, <1>3
  <2>2. Runs(t, v + k, ((v + k) - Takes(f)) + Gives(f))
    BY <2>1, RunsOne
  <2>3. ((v + k) - Takes(f)) + Gives(f) = IF n.kind \in Expressions THEN v + 1 ELSE v
    BY <1>1, <1>3
  <2> QED  BY <2>2, <2>3
<1> HIDE DEF t
<1>7. Runs(s \o t, v, IF n.kind \in Expressions THEN v + 1 ELSE v)
  BY <1>2, <1>4, <1>5, <1>6, RunsConcat
<1>8. /\ s \o t \in Seq(Tasks)
      /\ \A i \in DOMAIN (s \o t) : Calm((s \o t)[i])
      /\ \A i \in DOMAIN (s \o t) : i # Len(s \o t) => (s \o t)[i].node \in Inner
      /\ (\A i \in DOMAIN t : t[i].node \in Inner)
           => \A i \in DOMAIN (s \o t) : (s \o t)[i].node \in Inner
  BY <1>2, <1>3, <1>5, PlainConcat
<1> QED
  BY <1>3, <1>5, <1>7, <1>8 DEF s, t, f

LEMMA EvalOperandsStep == IInv /\ EvalOperands => IInv' /\ Quiet
<1> SUFFICES ASSUME IInv, EvalOperands
             PROVE  IInv' /\ Quiet
  OBVIOUS
<1> DEFINE tasks == VisitAll(task.node.kids) \o <<Task("finish", task.node, <<>>, <<>>)>>
<1>1. /\ agenda # <<>> /\ task.do = "visit" /\ task.node.kind \in Strict \cup Statements
      /\ Proceed(tasks) /\ values' = values
      /\ SamePlace /\ UNCHANGED <<blocks, nextBlock>> /\ NoTemp
  BY DEF EvalOperands, Visiting, Doing, SameBlocks
<1>2. task.node.kind # "Method"
  BY <1>1, Kinds
<1>3. /\ ~IsMethod(task) /\ task.node \in Nodes
      /\ Len(values) \in Nat /\ values \in Seq(Operands)
  BY <1>1, <1>2, AtWork
<1>4. /\ tasks \in Seq(Tasks)
      /\ \A i \in DOMAIN tasks : Calm(tasks[i])
      /\ \A i \in DOMAIN tasks : i # Len(tasks) => tasks[i].node \in Inner
      /\ task.node \in Inner => \A i \in DOMAIN tasks : tasks[i].node \in Inner
      /\ Runs(tasks, Len(values), IF task.node.kind \in Expressions THEN Len(values) + 1 ELSE Len(values))
  BY <1>1, <1>3, NoLabels, OperandsThenFinish
<1> HIDE DEF tasks
<1>5. Takes(task) = 0 /\ Gives(task) = IF task.node.kind \in Expressions THEN 1 ELSE 0
  BY <1>1 DEF Takes, Gives
<1>6. Runs(tasks, Len(values'), (Len(values) - Takes(task)) + Gives(task))
  <2>1. (Len(values) - Takes(task)) + Gives(task)
          = IF task.node.kind \in Expressions THEN Len(values) + 1 ELSE Len(values)
    BY <1>3, <1>5
  <2> QED  BY <1>1, <1>4, <2>1
<1> QED
  BY <1>1, <1>3, <1>4, <1>6, SomeTac, Calmly

LEMMA EvalSizeStep == IInv /\ EvalSize => IInv' /\ Quiet
<1> SUFFICES ASSUME IInv, EvalSize
             PROVE  IInv' /\ Quiet
  OBVIOUS
<1> DEFINE tasks == VisitAll(task.node.kids) \o <<Task("finish", task.node, <<>>, Temp)>>
<1>1. /\ agenda # <<>> /\ task.do = "visit" /\ task.node.kind \in Sized
      /\ Proceed(tasks) /\ values' = values
      /\ SamePlace /\ UNCHANGED <<blocks, nextBlock>> /\ TakeTemp
  BY DEF EvalSize, Visiting, Doing, SameBlocks
<1>2. task.node.kind # "Method" /\ task.node.kind \in Expressions
  BY <1>1, Kinds
<1>3. /\ ~IsMethod(task) /\ task.node \in Nodes /\ scope \in DOMAIN temps
      /\ Len(values) \in Nat /\ values \in Seq(Operands)
  BY <1>1, <1>2, AtWork
<1>4. Temp \in Texts
  BY <1>1, <1>3, TempTaken DEF IInv, SamePlace
<1>5. /\ tasks \in Seq(Tasks)
      /\ \A i \in DOMAIN tasks : Calm(tasks[i])
      /\ \A i \in DOMAIN tasks : i # Len(tasks) => tasks[i].node \in Inner
      /\ task.node \in Inner => \A i \in DOMAIN tasks : tasks[i].node \in Inner
      /\ Runs(tasks, Len(values), IF task.node.kind \in Expressions THEN Len(values) + 1 ELSE Len(values))
  BY <1>1, <1>3, <1>4, OperandsThenFinish
<1> HIDE DEF tasks
<1>6. Takes(task) = 0 /\ Gives(task) = 1
  BY <1>1, <1>2 DEF Takes, Gives
<1>7. Runs(tasks, Len(values'), (Len(values) - Takes(task)) + Gives(task))
  <2>1. (Len(values) - Takes(task)) + Gives(task) = Len(values) + 1
    BY <1>3, <1>6
  <2> QED  BY <1>1, <1>2, <1>5, <2>1
<1> QED
  BY <1>1, <1>3, <1>5, <1>7, SomeTac, Calmly

LEMMA FinishStrictStep == IInv /\ FinishStrict => IInv' /\ Quiet
<1> SUFFICES ASSUME IInv, FinishStrict
             PROVE  IInv' /\ Quiet
  OBVIOUS
<1> DEFINE tac == TacFor(task.node, Temp)
           k == Len(task.node.kids)
<1>1. /\ agenda # <<>> /\ task.do = "finish" /\ task.node.kind \in Strict
      /\ values' = Append(Without(k), Name(Temp)) /\ Proceed(<<>>)
      /\ SamePlace /\ UNCHANGED nextBlock /\ TakeTemp /\ Emit(<<tac>>)
  BY DEF FinishStrict, Doing
<1>2. task.node.kind \in Expressions /\ task.node.kind # "RET" /\ task.node.kind \notin Statements
  BY <1>1, Kinds
<1>3. /\ ~IsMethod(task) /\ task \in Tasks /\ task.node \in Nodes /\ scope \in DOMAIN temps
      /\ Len(values) \in Nat /\ values \in Seq(Operands) /\ Len(values) >= Takes(task)
  BY <1>1, AtWork
<1>4. Takes(task) = k /\ Gives(task) = 1 /\ k \in Nat
  <2>1. k \in Nat
    BY <1>1, <1>3, Operated
  <2> QED  BY <1>1, <1>2, <2>1 DEF Takes, Gives
<1>5. Temp \in Texts
  BY <1>1, <1>3, TempTaken DEF IInv, SamePlace
<1>6. tac \in Tacs /\ tac.op \notin {"JMP", "CJMP", "RET"}
  BY <1>1, <1>2, <1>3, <1>4, <1>5, TacForType
<1> HIDE DEF tac, k
<1>7. Without(k) \in Seq(Operands) /\ Len(Without(k)) = Len(values) - k
  BY <1>3, <1>4, ValuesLeft
<1>8. values' \in Seq(Operands) /\ Len(values') = (Len(values) - k) + 1
  BY <1>1, <1>5, <1>7, OperandTypes, AppendProperties
<1>9. Runs(<<>>, Len(values'), (Len(values) - Takes(task)) + Gives(task))
  BY <1>3, <1>4, <1>8, RunsNone
<1>10. <<>> \in Seq(Tasks) /\ DOMAIN <<>> = {}
  BY EmptySeq
<1> QED
  BY <1>1, <1>3, <1>6, <1>8, <1>9, <1>10, Calmly

LEMMA FinishSizedStep == IInv /\ FinishSized => IInv' /\ Quiet
<1> SUFFICES ASSUME IInv, FinishSized
             PROVE  IInv' /\ Quiet
  OBVIOUS
<1> DEFINE tac == TacFor(task.node, task.name)
<1>1. /\ agenda # <<>> /\ task.do = "finish" /\ task.node.kind \in Sized
      /\ values' = Append(Without(1), Name(task.name)) /\ Proceed(<<>>)
      /\ SamePlace /\ UNCHANGED nextBlock /\ NoTemp /\ Emit(<<tac>>)
  BY DEF FinishSized, Doing
<1>2. task.node.kind \in Expressions /\ task.node.kind # "RET" /\ task.node.kind \notin Statements
  BY <1>1, Kinds
<1>3. /\ ~IsMethod(task) /\ task \in Tasks /\ task.node \in Nodes
      /\ Len(values) \in Nat /\ values \in Seq(Operands) /\ Len(values) >= Takes(task)
  BY <1>1, AtWork
<1>4. Len(task.node.kids) = 1 /\ Takes(task) = 1 /\ Gives(task) = 1
  <2>1. task.node.kind \notin TwoOperands \cup {"ArrayAssign"}
    BY <1>1 DEF Sized, TwoOperands, BinaryOps
  <2>2. Len(task.node.kids) = 1
    BY <1>1, <1>3, <2>1, Operated
  <2> QED  BY <1>1, <1>2, <2>2 DEF Takes, Gives
<1>5. task.name \in Texts
  BY <1>3 DEF Tasks
<1>6. tac \in Tacs /\ tac.op \notin {"JMP", "CJMP", "RET"}
  BY <1>1, <1>2, <1>3, <1>4, <1>5, TacForType
<1> HIDE DEF tac
<1>7. Without(1) \in Seq(Operands) /\ Len(Without(1)) = Len(values) - 1
  BY <1>3, <1>4, ValuesLeft
<1>8. values' \in Seq(Operands) /\ Len(values') = (Len(values) - 1) + 1
  BY <1>1, <1>5, <1>7, OperandTypes, AppendProperties
<1>9. Runs(<<>>, Len(values'), (Len(values) - Takes(task)) + Gives(task))
  BY <1>3, <1>4, <1>8, RunsNone
<1>10. <<>> \in Seq(Tasks) /\ DOMAIN <<>> = {}
  BY EmptySeq
<1> QED
  BY <1>1, <1>3, <1>6, <1>8, <1>9, <1>10, Calmly

LEMMA FinishStatementStep == IInv /\ FinishStatement => IInv' /\ Quiet
<1> SUFFICES ASSUME IInv, FinishStatement
             PROVE  IInv' /\ Quiet
  OBVIOUS
<1> DEFINE tac == TacFor(task.node, <<>>)
           k == Len(task.node.kids)
<1>1. /\ agenda # <<>> /\ task.do = "finish" /\ task.node.kind \in Statements
      /\ values' = Without(k) /\ Proceed(<<>>)
      /\ SamePlace /\ UNCHANGED nextBlock /\ NoTemp /\ Emit(<<tac>>)
  BY DEF FinishStatement, Doing
<1>2. /\ ~IsMethod(task) /\ task \in Tasks /\ task.node \in Nodes
      /\ Len(values) \in Nat /\ values \in Seq(Operands) /\ Len(values) >= Takes(task)
  BY <1>1, AtWork
<1>3. Takes(task) = k /\ Gives(task) = 0 /\ k \in Nat
  <2>1. k \in Nat
    BY <1>1, <1>2, Operated
  <2> QED  BY <1>1, <2>1 DEF Takes, Gives
<1>4. /\ tac \in Tacs /\ tac.op \notin {"JMP", "CJMP"}
      /\ task.node.kind # "RET" => tac.op # "RET"
  BY <1>1, <1>2, <1>3, NoLabels, TacForType
<1>5. task.node.kind = "RET" => task.node \notin Inner
  BY InnerNode
<1> HIDE DEF tac, k
<1>6. values' \in Seq(Operands) /\ Len(values') = Len(values) - k
  BY <1>1, <1>2, <1>3, ValuesLeft
<1>7. Runs(<<>>, Len(values'), (Len(values) - Takes(task)) + Gives(task))
  BY <1>2, <1>3, <1>6, RunsNone
<1>8. <<>> \in Seq(Tasks) /\ DOMAIN <<>> = {}
  BY EmptySeq
<1> QED
  BY <1>1, <1>2, <1>4, <1>5, <1>6, <1>7, <1>8, Calmly

LEMMA StatementStep == IInv /\ Statement => IInv' /\ Quiet
<1> SUFFICES ASSUME IInv, Statement
             PROVE  IInv' /\ Quiet
  OBVIOUS
<1> DEFINE kids == task.node.kids
           tasks == VisitAll(kids)
<1>1. /\ agenda # <<>> /\ task.do = "visit" /\ task.node.kind = "List"
      /\ values' = values /\ Proceed(tasks)
      /\ SamePlace /\ UNCHANGED <<blocks, nextBlock>> /\ NoTemp
  BY DEF Statement, Visiting, Doing, SameBlocks
<1>2. task.node.kind # "Method" /\ task.node.kind \notin Expressions
  BY <1>1, Kinds
<1>3. /\ ~IsMethod(task) /\ task \in Tasks /\ task.node \in Nodes
      /\ Len(values) \in Nat /\ values \in Seq(Operands)
  BY <1>1, <1>2, AtWork
<1>4. Takes(task) = 0 /\ Gives(task) = 0
  BY <1>1, <1>2 DEF Takes, Gives
<1>5. /\ kids \in Seq(Nodes)
      /\ \A k \in DOMAIN kids : kids[k].kind # "Method" /\ kids[k].kind \notin Expressions
      /\ \A k \in DOMAIN kids : k # Len(kids) => kids[k] \in Inner
      /\ task.node \in Inner => \A k \in DOMAIN kids : kids[k] \in Inner
  <2>1. Inner \cup Returns \subseteq Nodes /\ Inner \subseteq Nodes
    BY DEF Nodes
  <2>2. CASE task.node \in Inner
    <3>1. kids \in Seq(Inner) /\ \A k \in DOMAIN kids : kids[k].kind \in Commands
      BY <1>1, <2>2, InnerNode DEF WellFormed
    <3>2. \A k \in DOMAIN kids : kids[k] \in Inner
      BY <3>1
    <3>3. kids \in Seq(Nodes)
      BY <2>1, <3>1, SeqMonotonic
    <3>4. \A k \in DOMAIN kids : kids[k].kind # "Method" /\ kids[k].kind \notin Expressions
      BY <3>1, <3>2, InnerNode, Kinds
    <3> QED  BY <3>2, <3>3, <3>4
  <2>3. CASE task.node \notin Inner
    <3>1. task.node \in Bodies
      BY <1>1, <1>3, <2>3, NodeOf
    <3>2. /\ kids \in Seq(Inner \cup Returns)
          /\ \A k \in DOMAIN kids : IF kids[k] \in Returns THEN k = Len(kids) ELSE kids[k].kind \in Commands
      BY <3>1, BodyNode
    <3>3. kids \in Seq(Nodes)
      BY <2>1, <3>2, SeqMonotonic
    <3>4. \A k \in DOMAIN kids : kids[k] \in Inner \cup Returns
      BY <3>2
    <3>5. \A k \in DOMAIN kids : IF kids[k] \in Returns THEN kids[k].kind = "RET" /\ k = Len(kids)
                                                       ELSE kids[k].kind \in Commands /\ kids[k] \in Inner
      BY <3>2, <3>4, ReturnNode
    <3>6. "RET" \notin Expressions
      BY Kinds
    <3>7. \A k \in DOMAIN kids : kids[k].kind # "Method" /\ kids[k].kind \notin Expressions
      BY <3>5, <3>6, InnerNode, Kinds
    <3> QED  BY <2>3, <3>3, <3>5, <3>7
  <2> QED  BY <2>2, <2>3
<1>6. Runs(tasks, Len(values), Len(values))
  BY <1>3, <1>5, RunsVisits
<1>7. /\ tasks \in Seq(Tasks) /\ Len(tasks) = Len(kids)
      /\ \A k \in DOMAIN kids : tasks[k].node = kids[k] /\ Calm(tasks[k])
  BY <1>5, VisitsType
<1>8. DOMAIN tasks = DOMAIN kids
  BY DEF VisitAll
<1> HIDE DEF tasks, kids
<1>9. /\ \A i \in DOMAIN tasks : Calm(tasks[i])
      /\ \A i \in DOMAIN tasks : i # Len(tasks) => tasks[i].node \in Inner
      /\ task.node \in Inner => \A i \in DOMAIN tasks : tasks[i].node \in Inner
  BY <1>5, <1>7, <1>8
<1>10. Runs(tasks, Len(values'), (Len(values) - Takes(task)) + Gives(task))
  <2>1. (Len(values) - Takes(task)) + Gives(task) = Len(values)
    BY <1>3, <1>4
  <2> QED  BY <1>1, <1>6, <2>1
<1> QED
  BY <1>1, <1>3, <1>7, <1>9, <1>10, SomeTac, Calmly

\* Tasks that own no block and have no return among them.
PlainTail == {s \in Seq(Tasks) : \A i \in DOMAIN s : Calm(s[i]) /\ s[i].node \in Inner}

LEMMA PlainTails ==
  ASSUME NEW s \in PlainTail, NEW t \in PlainTail
  PROVE  s \o t \in PlainTail
<1>1. s \in Seq(Tasks) /\ t \in Seq(Tasks)
  BY DEF PlainTail
<1>2. CASE t = <<>>
  <2>1. s \o t = s
    BY <1>1, <1>2, ConcatEmptySeq
  <2> QED  BY <2>1
<1>3. CASE t # <<>>
  BY <1>1, <1>3, PlainConcat DEF PlainTail
<1> QED  BY <1>2, <1>3

LEMMA PlainOne ==
  ASSUME NEW t \in Tasks, Calm(t), t.node \in Inner
  PROVE  <<t>> \in PlainTail
BY DEF PlainTail

\* Each argument is evaluated and pushed, and leaves the values as they were.
LEMMA ArgumentTasks ==
  ASSUME NEW n \in Inner, n.kind = "CALL", NEW k \in Inner, k.kind \in Expressions, NEW v \in Nat
  PROVE  LET tasks == <<Visit(k), Task("param", n, <<>>, <<>>)>> IN
         tasks \in PlainTail /\ Runs(tasks, v, v)
<1> DEFINE a == Visit(k)
           b == Task("param", n, <<>>, <<>>)
<1>1. k \in Nodes /\ k.kind # "Method" /\ n \in Nodes
  BY InnerNode
<1>2. a \in Tasks /\ Calm(a) /\ a.node = k /\ Takes(a) = 0 /\ Gives(a) = 1
  BY <1>1, VisitType
<1>3. b \in Tasks /\ b.do = "param" /\ b.node = n /\ b.labels = <<>>
  BY <1>1, NoLabels DEF Task, Tasks, Continuations
<1> HIDE DEF a, b
<1>4. Calm(b) /\ Takes(b) = 1 /\ Gives(b) = 0
  BY <1>3, NoLabels DEF Calm, Shaped, IsMethod, Takes, Gives
<1>5. <<a>> \in PlainTail /\ <<b>> \in PlainTail
  BY <1>2, <1>3, <1>4, PlainOne
<1>6. Runs(<<a>>, v, (v - 0) + 1) /\ Runs(<<b>>, v + 1, ((v + 1) - 1) + 0)
  <2>1. Takes(a) \in 0 .. v /\ Gives(a) \in Nat /\ Takes(b) \in 0 .. v + 1 /\ Gives(b) \in Nat /\ v + 1 \in Nat
    BY <1>2, <1>4
  <2> QED  BY <1>2, <1>4, <2>1, RunsOne
<1>7. (v - 0) + 1 = v + 1 /\ ((v + 1) - 1) + 0 = v
  OBVIOUS
<1>8. Runs(<<a>> \o <<b>>, v, v)
  <2>1. <<a>> \in Seq(Tasks) /\ <<b>> \in Seq(Tasks)
    BY <1>5 DEF PlainTail
  <2> QED  BY <1>6, <1>7, <2>1, RunsConcat
<1>9. <<a>> \o <<b>> = <<a, b>>
  <2> DEFINE s == <<a>>
             t == <<b>>
             u == s \o t
  <2>1. /\ s \in Seq(Tasks) /\ Len(s) = 1 /\ s[1] = a
        /\ t \in Seq(Tasks) /\ Len(t) = 1 /\ t[1] = b
    BY <1>2, <1>3
  <2> HIDE DEF s, t
  <2>2. /\ u \in Seq(Tasks) /\ Len(u) = 1 + 1
        /\ \A i \in 1 .. 1 + 1 : u[i] = IF i <= 1 THEN s[i] ELSE t[i - 1]
    <3>1. /\ u \in Seq(Tasks) /\ Len(u) = Len(s) + Len(t)
          /\ \A i \in 1 .. Len(s) + Len(t) : u[i] = IF i <= Len(s) THEN s[i] ELSE t[i - Len(s)]
      BY <2>1, ConcatProperties
    <3> QED  BY <2>1, <3>1
  <2> HIDE DEF u
  <2>3. u = <<a, b>>
    BY <2>1, <2>2
  <2> QED  BY <2>3 DEF u, s, t
<1> QED
  BY <1>5, <1>8, <1>9, PlainTails DEF a, b

LEMMA CallTasks ==
  ASSUME NEW n \in Inner, n.kind = "CALL", NEW v \in Nat
  PROVE  LET argument(k) == <<Visit(k), Task("param", n, <<>>, <<>>)>>
             tasks == <<Visit(Head(n.kids))>>
                        \o FlattenSeq([i \in 1 .. Len(n.kids) - 1 |-> argument(n.kids[i + 1])])
                        \o <<Task("call", n, <<>>, <<>>)>>
         IN  tasks \in PlainTail /\ Runs(tasks, v, v + 1)
<1> DEFINE argument(k) == <<Visit(k), Task("param", n, <<>>, <<>>)>>
           a == Len(n.kids) - 1
           parts == [i \in 1 .. a |-> argument(n.kids[i + 1])]
           first == Visit(Head(n.kids))
           last == Task("call", n, <<>>, <<>>)
           P == {p \in PlainTail : Runs(p, v + 1, v + 1)}
<1>1. /\ n.kids \in Seq(Inner) /\ n.kids # <<>> /\ n \in Nodes
      /\ \A k \in DOMAIN n.kids : n.kids[k].kind \in Expressions
  BY InnerNode, Kinds DEF WellFormed
<1>2. a \in Nat /\ \A i \in 1 .. a : n.kids[i + 1] \in Inner /\ n.kids[i + 1].kind \in Expressions
  BY <1>1
<1>3. Head(n.kids) \in Inner /\ Head(n.kids).kind \in Expressions
  BY <1>1
<1>4. \A i \in 1 .. a : parts[i] \in PlainTail /\ Runs(parts[i], v + 1, v + 1)
  <2>1. ASSUME NEW k \in Inner, k.kind \in Expressions
        PROVE  argument(k) \in PlainTail /\ Runs(argument(k), v + 1, v + 1)
    <3>1. v + 1 \in Nat
      OBVIOUS
    <3> QED  BY <2>1, <3>1, ArgumentTasks
  <2>2. \A i \in 1 .. a : parts[i] = argument(n.kids[i + 1])
    OBVIOUS
  <2> HIDE DEF a, parts, argument
  <2> QED  BY <1>2, <2>1, <2>2
<1>5. parts \in Seq(Seq(Tasks)) /\ DOMAIN parts = 1 .. a
  <2> DEFINE Q == Seq(Tasks)
  <2>1. parts = [i \in 1 .. a |-> parts[i]] /\ \A i \in 1 .. a : parts[i] \in Q
    BY <1>4 DEF PlainTail
  <2> HIDE DEF Q, parts, a
  <2>2. parts \in Seq(Q) /\ DOMAIN parts = 1 .. a
    BY <1>2, <2>1
  <2> QED  BY <2>2 DEF Q
<1>6. first \in Tasks /\ Calm(first) /\ first.node \in Inner /\ Takes(first) = 0 /\ Gives(first) = 1
  BY <1>3, InnerNode, VisitType
<1>7. last \in Tasks /\ last.do = "call" /\ last.node = n /\ last.labels = <<>>
  BY <1>1, NoLabels DEF Task, Tasks, Continuations
<1> HIDE DEF a, parts, first, last
<1>8. Calm(last) /\ Takes(last) = 1 /\ Gives(last) = 1
  BY <1>7, NoLabels DEF Calm, Shaped, IsMethod, Takes, Gives
<1>9. <<>> \in P
  <2>1. <<>> \in Seq(Tasks) /\ v + 1 \in Nat
    BY EmptySeq
  <2>2. <<>> \in PlainTail
    BY <2>1 DEF PlainTail
  <2> QED  BY <2>1, <2>2, RunsNone
<1>10. ASSUME NEW k \in DOMAIN parts, NEW p \in P
       PROVE  p \o parts[k] \in P
  <2>1. parts[k] \in PlainTail /\ Runs(parts[k], v + 1, v + 1) /\ p \in PlainTail /\ Runs(p, v + 1, v + 1)
    BY <1>4, <1>5
  <2>2. p \in Seq(Tasks) /\ parts[k] \in Seq(Tasks)
    BY <2>1 DEF PlainTail
  <2> QED  BY <2>1, <2>2, PlainTails, RunsConcat
<1> HIDE DEF P
<1>11. FlattenSeq(parts) \in P
  BY <1>5, <1>9, <1>10, FlattenKeeps
<1> DEFINE flat == FlattenSeq(parts)
<1> HIDE DEF flat
<1>12. flat \in PlainTail /\ Runs(flat, v + 1, v + 1)
  BY <1>11 DEF P, flat
<1>13. <<first>> \in PlainTail /\ Runs(<<first>>, v, v + 1)
  <2>1. Takes(first) \in 0 .. v /\ Gives(first) \in Nat /\ (v - Takes(first)) + Gives(first) = v + 1
    BY <1>6
  <2> QED  BY <1>6, <2>1, PlainOne, RunsOne
<1>14. <<last>> \in PlainTail /\ Runs(<<last>>, v + 1, v + 1)
  <2>1. v + 1 \in Nat /\ Takes(last) \in 0 .. v + 1 /\ Gives(last) \in Nat
        /\ ((v + 1) - Takes(last)) + Gives(last) = v + 1
    BY <1>8
  <2>2. Runs(<<last>>, v + 1, ((v + 1) - Takes(last)) + Gives(last))
    BY <2>1, RunsOne
  <2> QED  BY <1>7, <1>8, <2>1, <2>2, PlainOne
<1>15. <<first>> \o flat \in PlainTail /\ Runs(<<first>> \o flat, v, v + 1)
  <2>1. flat \in Seq(Tasks) /\ <<first>> \in Seq(Tasks)
    BY <1>12, <1>13 DEF PlainTail
  <2> QED  BY <1>12, <1>13, <2>1, PlainTails, RunsConcat
<1>16. (<<first>> \o flat) \o <<last>> \in PlainTail /\ Runs((<<first>> \o flat) \o <<last>>, v, v + 1)
  <2>1. <<first>> \o flat \in Seq(Tasks) /\ <<last>> \in Seq(Tasks)
    BY <1>14, <1>15 DEF PlainTail
  <2> QED  BY <1>14, <1>15, <2>1, PlainTails, RunsConcat
<1> QED
  BY <1>16 DEF flat, first, last, parts, a

LEMMA EvalCallStep == IInv /\ EvalCall => IInv' /\ Quiet
<1> SUFFICES ASSUME IInv, EvalCall
             PROVE  IInv' /\ Quiet
  OBVIOUS
<1> DEFINE node == task.node
           argument(k) == <<Visit(k), Task("param", node, <<>>, <<>>)>>
           tasks == <<Visit(Head(node.kids))>>
                      \o FlattenSeq([i \in 1 .. Len(node.kids) - 1 |-> argument(node.kids[i + 1])])
                      \o <<Task("call", node, <<>>, <<>>)>>
<1>1. /\ agenda # <<>> /\ task.do = "visit" /\ task.node.kind = "CALL"
      /\ values' = values /\ Proceed(tasks)
      /\ SamePlace /\ UNCHANGED <<blocks, nextBlock>> /\ NoTemp
  BY DEF EvalCall, Visiting, Doing, SameBlocks
<1>2. task.node.kind # "Method" /\ task.node.kind \in Expressions
  BY <1>1, Kinds
<1>3. /\ ~IsMethod(task) /\ task \in Tasks /\ task.node \in Nodes
      /\ Len(values) \in Nat /\ values \in Seq(Operands)
  BY <1>1, <1>2, AtWork
<1>4. task.node \in Inner
  BY <1>1, <1>3, NodeOf
<1>5. tasks \in PlainTail /\ Runs(tasks, Len(values), Len(values) + 1)
  BY <1>1, <1>3, <1>4, CallTasks
<1> HIDE DEF tasks
<1>6. Takes(task) = 0 /\ Gives(task) = 1
  BY <1>1, <1>2 DEF Takes, Gives
<1>7. Runs(tasks, Len(values'), (Len(values) - Takes(task)) + Gives(task))
  <2>1. (Len(values) - Takes(task)) + Gives(task) = Len(values) + 1
    BY <1>3, <1>6
  <2> QED  BY <1>1, <1>5, <2>1
<1>8. /\ tasks \in Seq(Tasks)
      /\ \A i \in DOMAIN tasks : Calm(tasks[i]) /\ tasks[i].node \in Inner
  BY <1>5 DEF PlainTail
<1> QED
  BY <1>1, <1>3, <1>7, <1>8, SomeTac, Calmly

LEMMA ParamStep == IInv /\ Param => IInv' /\ Quiet
<1> SUFFICES ASSUME IInv, Param
             PROVE  IInv' /\ Quiet
  OBVIOUS
<1> DEFINE tac == Tac3("PARAM", <<>>, None, Operand(0))
<1>1. /\ agenda # <<>> /\ task.do = "param" /\ values' = Without(1) /\ Proceed(<<>>)
      /\ SamePlace /\ UNCHANGED nextBlock /\ NoTemp /\ Emit(<<tac>>)
  BY DEF Param, Doing
<1>2. /\ ~IsMethod(task) /\ Len(values) \in Nat /\ values \in Seq(Operands)
      /\ Len(values) >= Takes(task)
  BY <1>1, AtWork
<1>3. Takes(task) = 1 /\ Gives(task) = 0
  BY <1>1 DEF Takes, Gives
<1>4. Operand(0) \in Operands /\ Without(1) \in Seq(Operands) /\ Len(Without(1)) = Len(values) - 1
  <2>1. 0 \in 0 .. Len(values) - 1 /\ 1 \in 0 .. Len(values)
    BY <1>2, <1>3
  <2> QED  BY <1>2, <2>1, ValuesLeft
<1>5. tac \in Tacs /\ tac.op = "PARAM"
  BY <1>4, NoLabels, OperandTypes, TacTypes DEF TacOps, ReadsRhs
<1> HIDE DEF tac
<1>6. Runs(<<>>, Len(values'), (Len(values) - Takes(task)) + Gives(task))
  <2>1. (Len(values) - Takes(task)) + Gives(task) = Len(values) - 1 /\ Len(values) - 1 \in Nat
    BY <1>2, <1>3
  <2> QED  BY <1>1, <1>4, <2>1, RunsNone
<1>7. <<>> \in Seq(Tasks) /\ DOMAIN <<>> = {}
  BY EmptySeq
<1> QED
  BY <1>1, <1>2, <1>4, <1>5, <1>6, <1>7, Calmly

LEMMA FinishCallStep == IInv /\ FinishCall => IInv' /\ Quiet
<1> SUFFICES ASSUME IInv, FinishCall
             PROVE  IInv' /\ Quiet
  OBVIOUS
<1> DEFINE tac == MethodCall(Temp, Operand(0), task.node.text)
<1>1. /\ agenda # <<>> /\ task.do = "call"
      /\ values' = Append(Without(1), Name(Temp)) /\ Proceed(<<>>)
      /\ SamePlace /\ UNCHANGED nextBlock /\ TakeTemp /\ Emit(<<tac>>)
  BY DEF FinishCall, Doing
<1>2. /\ ~IsMethod(task) /\ task \in Tasks /\ task.node \in Nodes /\ scope \in DOMAIN temps
      /\ Len(values) \in Nat /\ values \in Seq(Operands) /\ Len(values) >= Takes(task)
  BY <1>1, AtWork
<1>3. Takes(task) = 1 /\ Gives(task) = 1
  BY <1>1 DEF Takes, Gives
<1>4. Operand(0) \in Operands /\ Without(1) \in Seq(Operands) /\ Len(Without(1)) = Len(values) - 1
  <2>1. 0 \in 0 .. Len(values) - 1 /\ 1 \in 0 .. Len(values)
    BY <1>2, <1>3
  <2> QED  BY <1>2, <2>1, ValuesLeft
<1>5. Temp \in Texts /\ task.node.text \in Texts
  BY <1>1, <1>2, NodeOf, TempTaken DEF IInv, SamePlace
<1>6. tac \in Tacs /\ tac.op = "CALL"
  BY <1>4, <1>5, OperandTypes, TacTypes DEF MethodCall, TacOps, ReadsLhs
<1> HIDE DEF tac
<1>7. values' \in Seq(Operands) /\ Len(values') = (Len(values) - 1) + 1
  BY <1>1, <1>4, <1>5, OperandTypes, AppendProperties
<1>8. Runs(<<>>, Len(values'), (Len(values) - Takes(task)) + Gives(task))
  BY <1>2, <1>3, <1>7, RunsNone
<1>9. <<>> \in Seq(Tasks) /\ DOMAIN <<>> = {}
  BY EmptySeq
<1> QED
  BY <1>1, <1>2, <1>6, <1>7, <1>8, <1>9, Calmly

LEMMA TwoTasks ==
  ASSUME NEW a \in Tasks, NEW b \in Tasks, NEW n \in Nat,
         Takes(a) \in 0 .. n, Gives(a) \in Nat,
         Takes(b) \in 0 .. (n - Takes(a)) + Gives(a), Gives(b) \in Nat
  PROVE  /\ <<a, b>> \in Seq(Tasks) /\ Len(<<a, b>>) = 2 /\ DOMAIN <<a, b>> = {1, 2}
         /\ <<a, b>>[1] = a /\ <<a, b>>[2] = b
         /\ Runs(<<a, b>>, n, (((n - Takes(a)) + Gives(a)) - Takes(b)) + Gives(b))
<1> DEFINE m == (n - Takes(a)) + Gives(a)
           l == (m - Takes(b)) + Gives(b)
           h == [i \in 1 .. 3 |-> IF i = 1 THEN n ELSE IF i = 2 THEN m ELSE l]
           s == <<a, b>>
<1>1. m \in Nat /\ l \in Nat
  OBVIOUS
<1>2. s \in Seq(Tasks) /\ Len(s) = 2 /\ s[1] = a /\ s[2] = b /\ DOMAIN s = {1, 2}
  OBVIOUS
<1>3. h \in [1 .. 3 -> Nat] /\ h[1] = n /\ h[2] = m /\ h[3] = l
  BY <1>1
<1>4. n >= Takes(a) /\ m = (n - Takes(a)) + Gives(a) /\ m >= Takes(b) /\ l = (m - Takes(b)) + Gives(b)
  BY <1>1
<1> HIDE DEF h, s, m, l
<1>5. Levels(h, s, n, l)
  <2>1. \A i \in 1 .. 2 : i = 1 \/ i = 2
    OBVIOUS
  <2> QED  BY <1>2, <1>3, <1>4, <2>1 DEF Levels
<1> QED
  BY <1>2, <1>5 DEF Runs, s, m, l

LEMMA EvalLeftStep == IInv /\ EvalLeft => IInv' /\ Quiet
<1> SUFFICES ASSUME IInv, EvalLeft
             PROVE  IInv' /\ Quiet
  OBVIOUS
<1> DEFINE a == Visit(task.node.kids[1])
           b == Task("branch", task.node, <<>>, <<>>)
           tasks == <<a, b>>
<1>1. /\ agenda # <<>> /\ task.do = "visit" /\ task.node.kind \in ShortCircuit
      /\ values' = values /\ Proceed(tasks)
      /\ SamePlace /\ UNCHANGED <<blocks, nextBlock>> /\ NoTemp
  BY DEF EvalLeft, Visiting, Doing, SameBlocks
<1>2. task.node.kind \notin {"Method", "RET", "List"} /\ task.node.kind \in Expressions
  BY <1>1, Kinds
<1>3. /\ ~IsMethod(task) /\ task \in Tasks /\ task.node \in Nodes
      /\ Len(values) \in Nat /\ values \in Seq(Operands)
  BY <1>1, <1>2, AtWork
<1>4. task.node \in Inner
  BY <1>2, <1>3, NodeOf
<1>5. task.node.kids[1] \in Inner /\ task.node.kids[1].kind \in Expressions
  <2>1. task.node.kids \in Seq(Inner) /\ Len(task.node.kids) = 2
        /\ \A k \in DOMAIN task.node.kids : task.node.kids[k].kind \in Expressions
    BY <1>1, <1>2, <1>4, InnerNode, Kinds DEF WellFormed
  <2> QED  BY <2>1
<1>6. a \in Tasks /\ Calm(a) /\ a.node \in Inner /\ Takes(a) = 0 /\ Gives(a) = 1
  BY <1>5, InnerNode, VisitType
<1>7. b \in Tasks /\ b.do = "branch" /\ b.node = task.node /\ b.labels = <<>>
  BY <1>3, NoLabels DEF Task, Tasks, Continuations
<1> HIDE DEF a, b
<1>8. Calm(b) /\ Takes(b) = 1 /\ Gives(b) = 1
  BY <1>1, <1>7, NoLabels DEF Calm, Shaped, IsMethod, Takes, Gives
<1>9. /\ tasks \in Seq(Tasks) /\ DOMAIN tasks = {1, 2} /\ tasks[1] = a /\ tasks[2] = b
      /\ Runs(tasks, Len(values), Len(values) + 1)
  <2>1. /\ Takes(a) \in 0 .. Len(values) /\ Gives(a) \in Nat
        /\ Takes(b) \in 0 .. (Len(values) - Takes(a)) + Gives(a) /\ Gives(b) \in Nat
        /\ (((Len(values) - Takes(a)) + Gives(a)) - Takes(b)) + Gives(b) = Len(values) + 1
    BY <1>3, <1>6, <1>8
  <2> DEFINE v == Len(values)
             l == (((v - Takes(a)) + Gives(a)) - Takes(b)) + Gives(b)
  <2>2. v \in Nat /\ l = v + 1
    BY <1>3, <2>1
  <2> HIDE DEF tasks, l
  <2>3. /\ tasks \in Seq(Tasks) /\ DOMAIN tasks = {1, 2} /\ tasks[1] = a /\ tasks[2] = b
        /\ Runs(tasks, v, l)
    <3> HIDE DEF v
    <3>1. /\ Takes(a) \in 0 .. v /\ Gives(a) \in Nat
          /\ Takes(b) \in 0 .. (v - Takes(a)) + Gives(a) /\ Gives(b) \in Nat
      BY <2>1 DEF v
    <3> QED  BY <1>6, <1>7, <2>2, <3>1, TwoTasks DEF tasks, l
  <2> QED  BY <2>2, <2>3
<1> HIDE DEF tasks
<1>10. Runs(tasks, Len(values'), (Len(values) - Takes(task)) + Gives(task))
  <2>1. Takes(task) = 0 /\ Gives(task) = 1
    BY <1>1, <1>2 DEF Takes, Gives
  <2>2. (Len(values) - Takes(task)) + Gives(task) = Len(values) + 1
    BY <1>3, <2>1
  <2> QED  BY <1>1, <1>9, <2>2
<1>11. \A i \in DOMAIN tasks : Calm(tasks[i]) /\ tasks[i].node \in Inner
  BY <1>4, <1>6, <1>7, <1>8, <1>9
<1> QED
  BY <1>1, <1>3, <1>9, <1>10, <1>11, SomeTac, Calmly

-----------------------------------------------------------------------------
(***************************************************************************)
(* Steps that end a block.                                                 *)
(***************************************************************************)
LEMMA TwoJumps ==
  ASSUME NEW bs, AllSound(bs), NEW l \in DOMAIN bs, NEW c \in Operands,
         NEW t \in Texts \cap DOMAIN bs, NEW f \in Texts \cap DOMAIN bs
  PROVE  LET new == WithCode(bs, l, <<CondJump(f, c), Jump(t)>>) IN
         /\ DOMAIN new = DOMAIN bs /\ AllSound(new)
         /\ \A b \in DOMAIN bs \ {l} : new[b].code = bs[b].code
<1> DEFINE code == <<CondJump(f, c), Jump(t)>>
<1>1. /\ CondJump(f, c) \in Tacs /\ CondJump(f, c).op = "CJMP" /\ CondJump(f, c).rhs.name = f
      /\ Jump(t) \in Tacs /\ Jump(t).op = "JMP" /\ Jump(t).res = t
  <2>1. None \in Operands /\ "JMP" \in TacOps
    BY OperandTypes DEF TacOps
  <2> QED  BY <2>1, TacTypes
<1>2. Accept(code, DOMAIN bs)
  BY <1>1 DEF Accept
<1> DEFINE new == WithCode(bs, l, code)
<1> HIDE DEF code
<1>3. DOMAIN new = DOMAIN bs /\ AllSound(new) /\ \A b \in DOMAIN bs \ {l} : new[b] = bs[b]
  BY <1>2, WithCodeIs
<1> HIDE DEF new
<1>4. \A b \in DOMAIN bs \ {l} : new[b].code = bs[b].code
  BY <1>3
<1> QED
  BY <1>3, <1>4 DEF new, code

LEMMA Parted ==
  ASSUME NEW bs, AllSound(bs), NEW l \in DOMAIN bs, NEW x \in DOMAIN bs, NEW c \in Operands,
         NEW t \in Texts \cap DOMAIN bs, NEW f \in Texts \cap DOMAIN bs
  PROVE  LET new == WithExits(WithCode(bs, l, <<CondJump(f, c), Jump(t)>>), x, t, f) IN
         /\ DOMAIN new = DOMAIN bs /\ AllSound(new)
         /\ \A b \in DOMAIN bs \ {l} : new[b].code = bs[b].code
<1> DEFINE mid == WithCode(bs, l, <<CondJump(f, c), Jump(t)>>)
           new == WithExits(mid, x, t, f)
<1>1. /\ DOMAIN mid = DOMAIN bs /\ AllSound(mid)
      /\ \A b \in DOMAIN bs \ {l} : mid[b].code = bs[b].code
  BY TwoJumps
<1> HIDE DEF mid
<1>2. DOMAIN new = DOMAIN mid /\ AllSound(new) /\ \A b \in DOMAIN mid : new[b].code = mid[b].code
  BY <1>1, WithExitsIs
<1> HIDE DEF new
<1> QED
  BY <1>1, <1>2 DEF new, mid

\* A step that evaluates a part of its node, and then goes on with the node.
LEMMA VisitThen ==
  ASSUME IInv, agenda # <<>>, ~IsMethod(task), task.node \in Inner,
         NEW k \in Inner, NEW c \in Tasks, c.node = task.node, c.do # "visit", Shaped(c), Apart(c),
         \A i \in DOMAIN c.labels : c.labels[i] \in DOMAIN blocks',
         Owned(c) \subseteq Open(blocks') \ {currentBlock'},
         NEW fresh, Owned(c) \subseteq Owned(task) \cup fresh,
         UNCHANGED <<source, scope>>, Proceed(<<Visit(k), c>>),
         Counters', DOMAIN temps' = DOMAIN temps,
         DOMAIN blocks' = DOMAIN blocks \cup fresh, DOMAIN blocks' \subseteq MadeLabels',
         fresh \cap MadeLabels = {}, AllSound(blocks'),
         \A b \in DOMAIN blocks \ ({currentBlock} \cup Owned(task)) : blocks'[b].code = blocks[b].code,
         currentBlock' \in {currentBlock} \cup Owned(task) \cup fresh,
         currentBlock' \in Open(blocks'),
         values' \in Seq(Operands), NEW g, g = (IF k.kind \in Expressions THEN 1 ELSE 0),
         Takes(c) \in 0 .. Len(values') + g, Gives(c) \in Nat,
         ((Len(values') + g) - Takes(c)) + Gives(c) = (Len(values) - Takes(task)) + Gives(task)
  PROVE  IInv' /\ Quiet
<1> DEFINE a == Visit(k)
           tasks == <<a, c>>
           v == Len(values')
<1>1. a \in Tasks /\ Calm(a) /\ a.node \in Inner /\ Takes(a) = 0 /\ Gives(a) = g
  BY InnerNode, VisitType
<1>2. v \in Nat /\ g \in Nat
  OBVIOUS
<1>3. agenda' = tasks \o Tail(agenda)
  BY DEF Proceed
<1> HIDE DEF a
<1>4. /\ tasks \in Seq(Tasks) /\ DOMAIN tasks = {1, 2} /\ tasks[1] = a /\ tasks[2] = c
      /\ Runs(tasks, v, (Len(values) - Takes(task)) + Gives(task))
  <2>1. /\ Takes(a) \in 0 .. v /\ Gives(a) \in Nat
        /\ Takes(c) \in 0 .. (v - Takes(a)) + Gives(a)
        /\ (((v - Takes(a)) + Gives(a)) - Takes(c)) + Gives(c) = (Len(values) - Takes(task)) + Gives(task)
    BY <1>1, <1>2
  <2> DEFINE l == (((v - Takes(a)) + Gives(a)) - Takes(c)) + Gives(c)
  <2> HIDE DEF v
  <2>2. /\ tasks \in Seq(Tasks) /\ DOMAIN tasks = {1, 2} /\ tasks[1] = a /\ tasks[2] = c
        /\ Runs(tasks, v, l)
    <3>1. a \in Tasks /\ c \in Tasks /\ v \in Nat
      BY <1>1, <1>2
    <3>2. /\ <<a, c>> \in Seq(Tasks) /\ DOMAIN <<a, c>> = {1, 2}
          /\ <<a, c>>[1] = a /\ <<a, c>>[2] = c
          /\ Runs(<<a, c>>, v, (((v - Takes(a)) + Gives(a)) - Takes(c)) + Gives(c))
      BY <2>1, <3>1, TwoTasks
    <3> QED  BY <3>2, Zenon
  <2> HIDE DEF tasks, l
  <2>3. l = (Len(values) - Takes(task)) + Gives(task)
    BY <2>1 DEF l
  <2> QED  BY <2>2, <2>3
<1> HIDE DEF tasks
<1>5. /\ Ready(a, blocks', currentBlock', DOMAIN temps) /\ Owned(a) = {}
  <2>1. DOMAIN a.labels = {} /\ Places(a) = {}
    <3>1. a.labels \in Seq(Texts) /\ Len(a.labels) = 0
      BY <1>1 DEF Calm, Shaped, Tasks
    <3>2. Places(a) = {}
      BY <1>1 DEF Calm, Places
    <3> QED  BY <3>1, <3>2
  <2> QED  BY <1>1, <2>1 DEF Calm, Ready, Apart, Owned
<1>6. Ready(c, blocks', currentBlock', DOMAIN temps)
  BY DEF Ready, IsMethod
<1>7. Ordered(tasks)
  BY <1>1, <1>4, <1>5 DEF Ordered, Before
<1>8. /\ \A i \in DOMAIN tasks : Ready(tasks[i], blocks', currentBlock', DOMAIN temps)
      /\ \A i \in DOMAIN tasks : Owned(tasks[i]) \subseteq Owned(task) \cup fresh
      /\ \A i \in DOMAIN tasks : tasks[i].node \in Inner
  BY <1>1, <1>4, <1>5, <1>6
<1> QED
  BY <1>3, <1>4, <1>7, <1>8, Advance

\* A step after which nothing is left to do with its node.
LEMMA NodeDone ==
  ASSUME IInv, agenda # <<>>, ~IsMethod(task), UNCHANGED <<source, scope, nextBlock>>,
         Proceed(<<>>), NoTemp,
         DOMAIN blocks' = DOMAIN blocks, AllSound(blocks'),
         \A b \in DOMAIN blocks \ ({currentBlock} \cup Owned(task)) : blocks'[b].code = blocks[b].code,
         currentBlock' \in Owned(task), currentBlock' \in Open(blocks'),
         values' \in Seq(Operands), Len(values') = (Len(values) - Takes(task)) + Gives(task)
  PROVE  IInv' /\ Quiet
<1>1. Counters' /\ DOMAIN temps' = DOMAIN temps /\ MadeLabels' = MadeLabels
  BY NothingTaken DEF IInv
<1>2. DOMAIN blocks \subseteq MadeLabels
  BY Working
<1>3. <<>> \in Seq(Tasks) /\ DOMAIN <<>> = {} /\ Ordered(<<>>)
  BY EmptySeq DEF Ordered
<1>4. Runs(<<>>, Len(values'), (Len(values) - Takes(task)) + Gives(task))
  BY RunsNone
<1>5. DOMAIN blocks' = DOMAIN blocks \cup {} /\ DOMAIN blocks' \subseteq MadeLabels' /\ {} \cap MadeLabels = {}
      /\ currentBlock' \in {currentBlock} \cup Owned(task) \cup {}
  BY <1>1, <1>2
<1>6. agenda' = <<>> \o Tail(agenda)
  BY DEF Proceed
<1> QED
  BY <1>1, <1>3, <1>4, <1>5, <1>6, Advance

LEMMA StillOpen ==
  ASSUME NEW bs, NEW bs2, NEW b \in Open(bs), b \in DOMAIN bs2, bs2[b].code = bs[b].code
  PROVE  b \in Open(bs2)
BY DEF Open, EndsInJump

\* New blocks are empty, and no block that there was is one of them.
LEMMA Fresh ==
  ASSUME IInv, agenda # <<>>, ~IsMethod(task), NEW n \in Nat, NewBlocks(n), UNCHANGED source,
         NoTemp \/ TakeTemp
  PROVE  LET new == WithNew(blocks, ToSet(Labels(n))) IN
         /\ Counters' /\ DOMAIN temps' = DOMAIN temps
         /\ DOMAIN new = DOMAIN blocks \cup ToSet(Labels(n)) /\ AllSound(new)
         /\ DOMAIN new \subseteq MadeLabels' /\ DOMAIN new \subseteq Texts
         /\ ToSet(Labels(n)) \cap MadeLabels = {} /\ ToSet(Labels(n)) \cap DOMAIN blocks = {}
         /\ ToSet(Labels(n)) \subseteq Open(new)
         /\ \A b \in DOMAIN blocks : new[b].code = blocks[b].code
         /\ Labels(n) \in Seq(Texts) /\ Len(Labels(n)) = n
         /\ \A i \in 1 .. n : Labels(n)[i] \in ToSet(Labels(n)) /\ Labels(n)[i] = Label(i - 1)
         /\ \A i, j \in 1 .. n : Labels(n)[i] = Labels(n)[j] => i = j
<1> DEFINE L == Labels(n)
           fresh == ToSet(L)
           new == WithNew(blocks, fresh)
<1>1. /\ AllSound(blocks) /\ DOMAIN blocks \subseteq MadeLabels /\ DOMAIN blocks \subseteq Texts
      /\ scope \in DOMAIN temps
  BY Working
<1>2. /\ Counters' /\ DOMAIN temps' = DOMAIN temps
      /\ MadeLabels \cup fresh \subseteq MadeLabels'
      /\ fresh \cap (MadeLabels \cup {NoBlock}) = {} /\ fresh \subseteq Texts
  BY <1>1, BlocksTaken DEF IInv
<1>3. /\ L \in Seq(Texts) /\ Len(L) = n
      /\ \A i \in 1 .. n : L[i] = Label(i - 1)
      /\ \A i, j \in 1 .. n : L[i] = L[j] => i = j
  BY LabelsAre DEF IInv, Counters
<1> HIDE DEF L
<1>4. \A i \in 1 .. n : L[i] \in fresh
  BY <1>3 DEF ToSet
<1> HIDE DEF fresh
<1>5. /\ DOMAIN new = DOMAIN blocks \cup fresh /\ AllSound(new)
      /\ \A b \in fresh : ~EndsInJump(new[b])
      /\ \A b \in DOMAIN blocks \ fresh : new[b] = blocks[b]
  BY <1>1, WithNewIs
<1> HIDE DEF new
<1>6. fresh \cap DOMAIN blocks = {} /\ \A b \in DOMAIN blocks : new[b].code = blocks[b].code
  BY <1>1, <1>2, <1>5
<1>7. fresh \subseteq Open(new)
  BY <1>5 DEF Open
<1> QED
  BY <1>1, <1>2, <1>3, <1>4, <1>5, <1>6, <1>7 DEF new, fresh, L

LEMMA BranchStep == IInv /\ Branch => IInv' /\ Quiet
<1> SUFFICES ASSUME IInv, Branch
             PROVE  IInv' /\ Quiet
  OBVIOUS
<1> DEFINE L == Labels(4)
           fresh == ToSet(L)
           rhs == Label(0)
           exits == BranchExits(task.node.kind, rhs, Label(1), Label(2))
           built == WithNew(blocks, fresh)
           x == exits[1]
           y == exits[2]
           c == Task("merge", task.node, L, Temp)
           k == task.node.kids[2]
<1>1. /\ agenda # <<>> /\ task.do = "branch"
      /\ blocks' = WithExits(WithCode(built, currentBlock, <<CondJump(y, Operand(0)), Jump(x)>>),
                             currentBlock, x, y)
      /\ currentBlock' = rhs
      /\ Proceed(<<Visit(k), c>>)
      /\ TakeTemp /\ NewBlocks(4) /\ values' = Without(1)
      /\ UNCHANGED <<source, scope>>
  BY DEF Branch, Doing
<1>2. /\ ~IsMethod(task) /\ task \in Tasks /\ task.node \in Nodes /\ Shaped(task)
      /\ Len(values) \in Nat /\ values \in Seq(Operands) /\ Len(values) >= Takes(task)
      /\ scope \in DOMAIN temps
  BY <1>1, AtWork
<1>3. task.node.kind \in ShortCircuit /\ Takes(task) = 1 /\ Gives(task) = 1
  BY <1>1, <1>2 DEF Shaped, Takes, Gives
<1>4. task.node.kind \notin {"Method", "RET", "List"} /\ task.node.kind \in Expressions
  BY <1>3, Kinds
<1>5. task.node \in Inner
  BY <1>2, <1>4, NodeOf
<1>6. k \in Inner /\ k.kind \in Expressions
  <2>1. task.node.kids \in Seq(Inner) /\ Len(task.node.kids) = 2
        /\ \A i \in DOMAIN task.node.kids : task.node.kids[i].kind \in Expressions
    BY <1>3, <1>4, <1>5, InnerNode, Kinds DEF WellFormed
  <2> QED  BY <2>1
<1>7. currentBlock \in DOMAIN blocks
  BY <1>1, <1>2, Working
<1>8. /\ Counters' /\ DOMAIN temps' = DOMAIN temps
      /\ DOMAIN built = DOMAIN blocks \cup fresh /\ AllSound(built)
      /\ DOMAIN built \subseteq MadeLabels' /\ DOMAIN built \subseteq Texts
      /\ fresh \cap MadeLabels = {} /\ fresh \cap DOMAIN blocks = {}
      /\ fresh \subseteq Open(built)
      /\ \A b \in DOMAIN blocks : built[b].code = blocks[b].code
      /\ L \in Seq(Texts) /\ Len(L) = 4
      /\ \A i \in 1 .. 4 : L[i] \in fresh /\ L[i] = Label(i - 1)
      /\ \A i, j \in 1 .. 4 : L[i] = L[j] => i = j
  BY <1>1, <1>2, Fresh
<1>9. L[1] = rhs /\ L[2] = Label(1) /\ L[3] = Label(2) /\ x \in fresh /\ y \in fresh
  <2>1. L[1] = Label(0) /\ L[2] = Label(1) /\ L[3] = Label(2)
    BY <1>8
  <2>2. rhs \in fresh /\ Label(1) \in fresh /\ Label(2) \in fresh
    BY <1>8, <2>1
  <2> HIDE DEF fresh, L
  <2> QED  BY <2>1, <2>2 DEF BranchExits
<1>10. Operand(0) \in Operands /\ Without(1) \in Seq(Operands) /\ Len(Without(1)) = Len(values) - 1
  <2>1. 0 \in 0 .. Len(values) - 1 /\ 1 \in 0 .. Len(values)
    BY <1>2, <1>3
  <2> QED  BY <1>2, <2>1, ValuesLeft
<1>11. Temp \in Texts
  BY <1>2 DEF Temp, Texts, IInv, Counters
<1>12. /\ c \in Tasks /\ c.do = "merge" /\ c.node = task.node /\ c.labels = L
  BY <1>2, <1>8, <1>11 DEF Task, Tasks, Continuations
<1> HIDE DEF L, fresh, built, x, y, c, k, exits, rhs
<1>13. /\ DOMAIN blocks' = DOMAIN built /\ AllSound(blocks')
       /\ \A b \in DOMAIN built \ {currentBlock} : blocks'[b].code = built[b].code
  <2>1. /\ x \in Texts \cap DOMAIN built /\ y \in Texts \cap DOMAIN built
        /\ currentBlock \in DOMAIN built /\ AllSound(built)
    BY <1>7, <1>8, <1>9
  <2> DEFINE o == Operand(0)
             new == WithExits(WithCode(built, currentBlock, <<CondJump(y, o), Jump(x)>>), currentBlock, x, y)
  <2>2. o \in Operands /\ blocks' = new
    BY <1>1, <1>10
  <2> HIDE DEF o
  <2>3. /\ DOMAIN new = DOMAIN built /\ AllSound(new)
        /\ \A b \in DOMAIN built \ {currentBlock} : new[b].code = built[b].code
    BY <2>1, <2>2, Parted
  <2> HIDE DEF new
  <2> QED  BY <2>2, <2>3
<1>14. fresh \subseteq Open(blocks')
  <2> SUFFICES ASSUME NEW b \in fresh
               PROVE  b \in Open(blocks')
    OBVIOUS
  <2>1. b \in Open(built) /\ b \in DOMAIN blocks' /\ blocks'[b].code = built[b].code
    BY <1>7, <1>8, <1>13
  <2> QED  BY <2>1, StillOpen
<1>15. /\ Shaped(c) /\ Apart(c) /\ Owned(c) = {L[2], L[3], L[4]} /\ Takes(c) = 1 /\ Gives(c) = 1
  <2>1. Places(c) = {2, 3, 4}
    BY <1>12 DEF Places
  <2>2. Shaped(c)
    BY <1>3, <1>8, <1>12 DEF Shaped
  <2>3. Apart(c)
    BY <1>8, <1>12, <2>1 DEF Apart
  <2>4. Owned(c) = {L[2], L[3], L[4]}
    BY <1>12, <2>1 DEF Owned, IsMethod
  <2> QED  BY <1>12, <2>2, <2>3, <2>4 DEF Takes, Gives
<1>16. Owned(c) \subseteq fresh /\ currentBlock' \in fresh /\ currentBlock' \notin Owned(c)
  <2>1. 1 \in 1 .. 4 /\ 2 \in 1 .. 4 /\ 3 \in 1 .. 4 /\ 4 \in 1 .. 4
    OBVIOUS
  <2>2. L[1] # L[2] /\ L[1] # L[3] /\ L[1] # L[4]
    BY <1>8, <2>1
  <2> QED  BY <1>1, <1>8, <1>9, <1>15, <2>1, <2>2
<1>17. \A i \in DOMAIN c.labels : c.labels[i] \in DOMAIN blocks'
  BY <1>8, <1>12, <1>13
<1>18. \A b \in DOMAIN blocks \ ({currentBlock} \cup Owned(task)) : blocks'[b].code = blocks[b].code
  BY <1>8, <1>13
<1>19. /\ Takes(c) \in 0 .. Len(values') + 1 /\ Gives(c) \in Nat
       /\ ((Len(values') + 1) - Takes(c)) + Gives(c) = (Len(values) - Takes(task)) + Gives(task)
  BY <1>1, <1>2, <1>3, <1>10, <1>15
<1>20. /\ Owned(c) \subseteq Open(blocks') \ {currentBlock'} /\ currentBlock' \in Open(blocks')
       /\ Owned(c) \subseteq Owned(task) \cup fresh
       /\ currentBlock' \in {currentBlock} \cup Owned(task) \cup fresh
  BY <1>14, <1>16
<1>21. DOMAIN blocks' = DOMAIN blocks \cup fresh /\ DOMAIN blocks' \subseteq MadeLabels'
  BY <1>8, <1>13
<1>22. values' \in Seq(Operands) /\ 1 = IF k.kind \in Expressions THEN 1 ELSE 0
  BY <1>1, <1>6, <1>10
<1>23. c.do # "visit"
  BY <1>12
<1> QED
  BY <1>1, <1>2, <1>5, <1>6, <1>8, <1>12, <1>13, <1>15, <1>17, <1>18, <1>19, <1>20, <1>21, <1>22, <1>23,
     VisitThen

LEMMA DecidedIs ==
  ASSUME NEW bs, AllSound(bs), NEW l \in DOMAIN bs, NEW join \in Texts \cap DOMAIN bs, NEW n \in Int,
         task.name \in Texts
  PROVE  LET new == Decided(bs, l, n, join) IN
         /\ DOMAIN new = DOMAIN bs /\ AllSound(new)
         /\ \A b \in DOMAIN bs \ {l} : new[b].code = bs[b].code
<1> DEFINE tac == Copy(Imm(n), task.name)
           code == <<tac>>
           mid == WithCode(bs, l, code)
           new == Closed(mid, l, join)
<1>1. tac \in Tacs /\ tac.op = "COPY"
  <2>1. "COPY" \in TacOps /\ Imm(n) \in Operands
    BY OperandTypes DEF TacOps, Defines
  <2> QED  BY <2>1, TacTypes
<1> HIDE DEF tac
<1>2. Accept(code, DOMAIN bs)
  BY <1>1 DEF Accept
<1> HIDE DEF code
<1>3. DOMAIN mid = DOMAIN bs /\ AllSound(mid) /\ \A b \in DOMAIN bs \ {l} : mid[b] = bs[b]
  BY <1>2, WithCodeIs
<1> HIDE DEF mid
<1>4. DOMAIN new = DOMAIN mid /\ AllSound(new) /\ \A b \in DOMAIN mid \ {l} : new[b].code = mid[b].code
  BY <1>3, ClosedIs
<1> HIDE DEF new
<1>5. \A b \in DOMAIN bs \ {l} : new[b].code = bs[b].code
  BY <1>3, <1>4
<1> QED
  BY <1>3, <1>4, <1>5 DEF Decided, new, mid, code, tac

LEMMA MergeStep == IInv /\ Merge => IInv' /\ Quiet
<1> SUFFICES ASSUME IInv, Merge
             PROVE  IInv' /\ Quiet
  OBVIOUS
<1> DEFINE rhs == task.labels[1]
           true == task.labels[2]
           false == task.labels[3]
           join == task.labels[4]
           o == Operand(0)
           built == WithExits(WithCode(blocks, currentBlock, <<CondJump(false, o), Jump(true)>>),
                              rhs, true, false)
           one == Decided(built, true, 1, join)
           two == Decided(one, false, 0, join)
<1>1. /\ agenda # <<>> /\ task.do = "merge"
      /\ blocks' = two /\ currentBlock' = join
      /\ Proceed(<<>>) /\ values' = Append(Without(1), Name(task.name))
      /\ UNCHANGED <<source, scope, nextBlock>> /\ NoTemp
  BY DEF Merge, Doing
<1>2. /\ ~IsMethod(task) /\ task \in Tasks /\ Shaped(task)
      /\ Len(values) \in Nat /\ values \in Seq(Operands) /\ Len(values) >= Takes(task)
  BY <1>1, AtWork
<1>3. Takes(task) = 1 /\ Gives(task) = 1 /\ Places(task) = {2, 3, 4} /\ Len(task.labels) = 4
  BY <1>1, <1>2 DEF Shaped, Takes, Gives, Places
<1>4. /\ \A k \in DOMAIN task.labels : task.labels[k] \in Texts \cap DOMAIN blocks
      /\ Owned(task) \subseteq Open(blocks) \ {currentBlock}
      /\ currentBlock \in DOMAIN blocks /\ AllSound(blocks) /\ Apart(task)
  BY <1>1, <1>2, Working
<1>5. task.labels \in Seq(Texts) /\ task.name \in Texts
  BY <1>2 DEF Tasks
<1>6. /\ rhs \in Texts \cap DOMAIN blocks /\ true \in Texts \cap DOMAIN blocks
      /\ false \in Texts \cap DOMAIN blocks /\ join \in Texts \cap DOMAIN blocks
  <2>1. DOMAIN task.labels = 1 .. 4
    BY <1>3, <1>5
  <2> QED  BY <1>4, <2>1
<1>7. Owned(task) = {true, false, join} /\ join # true /\ join # false
  BY <1>2, <1>3, <1>4 DEF Owned, Apart
<1>8. o \in Operands /\ Without(1) \in Seq(Operands) /\ Len(Without(1)) = Len(values) - 1
  <2>1. 0 \in 0 .. Len(values) - 1 /\ 1 \in 0 .. Len(values)
    BY <1>2, <1>3
  <2> QED  BY <1>2, <2>1, ValuesLeft
<1> HIDE DEF rhs, true, false, join, o, two
<1>9. /\ DOMAIN built = DOMAIN blocks /\ AllSound(built)
      /\ \A b \in DOMAIN blocks \ {currentBlock} : built[b].code = blocks[b].code
  BY <1>4, <1>6, <1>8, Parted
<1> HIDE DEF built
<1>10. /\ DOMAIN one = DOMAIN blocks /\ AllSound(one)
       /\ \A b \in DOMAIN blocks \ {true} : one[b].code = built[b].code
  BY <1>5, <1>6, <1>9, DecidedIs
<1> HIDE DEF one
<1>11. /\ DOMAIN two = DOMAIN blocks /\ AllSound(two)
       /\ \A b \in DOMAIN blocks \ {false} : two[b].code = one[b].code
  <2> DEFINE new == Decided(one, false, 0, join)
  <2>1. false \in DOMAIN one /\ join \in Texts \cap DOMAIN one /\ 0 \in Int
    BY <1>6, <1>10
  <2>2. /\ DOMAIN new = DOMAIN one /\ AllSound(new)
        /\ \A b \in DOMAIN one \ {false} : new[b].code = one[b].code
    BY <1>5, <1>10, <2>1, DecidedIs
  <2> HIDE DEF new
  <2>3. two = new
    BY DEF two, new
  <2> QED  BY <1>10, <2>2, <2>3
<1>12. \A b \in DOMAIN blocks \ {currentBlock, true, false} : blocks'[b].code = blocks[b].code
  BY <1>1, <1>9, <1>10, <1>11
<1>13. DOMAIN blocks' = DOMAIN blocks /\ AllSound(blocks')
  BY <1>1, <1>11
<1>14. currentBlock' \in Owned(task) /\ currentBlock' \in Open(blocks')
  <2>1. join \in Open(blocks) /\ join # currentBlock
    BY <1>4, <1>7
  <2> QED  BY <1>1, <1>6, <1>7, <1>12, <1>13, <2>1, StillOpen
<1>15. \A b \in DOMAIN blocks \ ({currentBlock} \cup Owned(task)) : blocks'[b].code = blocks[b].code
  BY <1>7, <1>12
<1>16. values' \in Seq(Operands) /\ Len(values') = (Len(values) - Takes(task)) + Gives(task)
  <2>1. Name(task.name) \in Operands
    BY <1>5, OperandTypes
  <2> QED  BY <1>1, <1>3, <1>8, <2>1, AppendProperties
<1> QED
  BY <1>1, <1>2, <1>13, <1>14, <1>15, <1>16, NodeDone

LEMMA EvalConditionStep == IInv /\ EvalCondition => IInv' /\ Quiet
<1> SUFFICES ASSUME IInv, EvalCondition
             PROVE  IInv' /\ Quiet
  OBVIOUS
<1> DEFINE n == Len(task.node.kids)
           L == Labels(n)
           fresh == ToSet(L)
           c == Task("then", task.node, L, <<>>)
           k == task.node.kids[1]
<1>1. /\ agenda # <<>> /\ task.do = "visit" /\ task.node.kind \in {"If", "IfElse"}
      /\ blocks' = WithNew(blocks, fresh) /\ NewBlocks(n)
      /\ Proceed(<<Visit(k), c>>)
      /\ values' = values /\ UNCHANGED <<source, currentBlock, scope>> /\ NoTemp
  BY DEF EvalCondition, Visiting, Doing, SamePlace
<1>2. task.node.kind \notin {"Method", "RET", "List"} /\ task.node.kind \notin Expressions
  BY <1>1, Kinds
<1>3. /\ ~IsMethod(task) /\ task \in Tasks /\ task.node \in Nodes
      /\ Len(values) \in Nat /\ values \in Seq(Operands)
  BY <1>1, <1>2, AtWork
<1>4. task.node \in Inner
  BY <1>2, <1>3, NodeOf
<1>5. n \in {2, 3} /\ k \in Inner /\ k.kind \in Expressions
  <2>1. /\ task.node.kids \in Seq(Inner) /\ n \in {2, 3}
        /\ task.node.kids[1].kind \in Expressions
    BY <1>1, <1>4, InnerNode DEF WellFormed
  <2> QED  BY <2>1
<1>6. Takes(task) = 0 /\ Gives(task) = 0
  BY <1>1, <1>2 DEF Takes, Gives
<1>7. currentBlock \in Open(blocks)
  BY <1>1, <1>3, Working
<1> HIDE DEF n
<1>8. /\ Counters' /\ DOMAIN temps' = DOMAIN temps
      /\ DOMAIN blocks' = DOMAIN blocks \cup fresh /\ AllSound(blocks')
      /\ DOMAIN blocks' \subseteq MadeLabels' /\ fresh \cap MadeLabels = {} /\ fresh \cap DOMAIN blocks = {}
      /\ fresh \subseteq Open(blocks')
      /\ \A b \in DOMAIN blocks : blocks'[b].code = blocks[b].code
      /\ L \in Seq(Texts) /\ Len(L) = n
      /\ \A i \in 1 .. n : L[i] \in fresh
      /\ \A i, j \in 1 .. n : L[i] = L[j] => i = j
  <2>1. n \in Nat
    BY <1>5
  <2> QED  BY <1>1, <1>3, <2>1, Fresh
<1>9. c \in Tasks /\ c.do = "then" /\ c.node = task.node /\ c.labels = L
  BY <1>3, <1>8, NoLabels DEF Task, Tasks, Continuations
<1> HIDE DEF L, fresh, c, k
<1>10. DOMAIN L = 1 .. n
  BY <1>8
<1>11. Shaped(c) /\ Apart(c) /\ Owned(c) \subseteq fresh /\ Takes(c) = 1 /\ Gives(c) = 0
  <2>1. Places(c) = 1 .. n
    BY <1>9 DEF Places, n
  <2>2. Shaped(c)
    BY <1>1, <1>8, <1>9 DEF Shaped, n
  <2>3. Apart(c)
    BY <1>8, <1>9, <2>1 DEF Apart
  <2>4. Owned(c) \subseteq fresh
    BY <1>8, <1>9, <2>1 DEF Owned, IsMethod
  <2> QED  BY <1>9, <2>2, <2>3, <2>4 DEF Takes, Gives
<1>12. \A i \in DOMAIN c.labels : c.labels[i] \in DOMAIN blocks'
  BY <1>8, <1>9, <1>10
<1>13. currentBlock' \in Open(blocks') /\ currentBlock' \notin fresh
  <2>1. currentBlock \in DOMAIN blocks
    BY <1>7 DEF Open
  <2> QED  BY <1>1, <1>7, <1>8, <2>1, StillOpen
<1>14. /\ Owned(c) \subseteq Open(blocks') \ {currentBlock'}
       /\ Owned(c) \subseteq Owned(task) \cup fresh
       /\ currentBlock' \in {currentBlock} \cup Owned(task) \cup fresh
  BY <1>1, <1>8, <1>11, <1>13
<1>15. /\ Takes(c) \in 0 .. Len(values') + 1 /\ Gives(c) \in Nat
       /\ ((Len(values') + 1) - Takes(c)) + Gives(c) = (Len(values) - Takes(task)) + Gives(task)
  BY <1>1, <1>3, <1>6, <1>11
<1>16. values' \in Seq(Operands) /\ 1 = IF k.kind \in Expressions THEN 1 ELSE 0
  BY <1>1, <1>3, <1>5
<1>17. c.do # "visit" /\ UNCHANGED <<source, scope>>
  BY <1>1, <1>9
<1>18. \A b \in DOMAIN blocks \ ({currentBlock} \cup Owned(task)) : blocks'[b].code = blocks[b].code
  BY <1>8
<1> QED
  BY <1>1, <1>3, <1>4, <1>5, <1>8, <1>9, <1>11, <1>12, <1>13, <1>14, <1>15, <1>16, <1>17, <1>18, VisitThen

LEMMA EndType ==
  ASSUME NEW n \in Inner, n.kind \in {"If", "IfElse"}, NEW join \in Texts, NEW next \in Texts
  PROVE  LET t == Task("end", n, <<join, next>>, <<>>) IN
         /\ t \in Tasks /\ t.node = n /\ t.do = "end" /\ Shaped(t) /\ Apart(t) /\ Owned(t) = {next}
         /\ DOMAIN t.labels = {1, 2} /\ t.labels[1] = join /\ t.labels[2] = next
         /\ Takes(t) = 0 /\ Gives(t) = 0
<1> DEFINE L == <<join, next>>
           t == Task("end", n, L, <<>>)
<1>1. L \in Seq(Texts) /\ Len(L) = 2 /\ DOMAIN L = {1, 2} /\ L[1] = join /\ L[2] = next
  OBVIOUS
<1> HIDE DEF L
<1>2. n \in Nodes
  BY InnerNode
<1>3. t \in Tasks /\ t.node = n /\ t.do = "end" /\ t.labels = L
  BY <1>1, <1>2, NoLabels DEF Task, Tasks, Continuations
<1> HIDE DEF t
<1>4. Shaped(t)
  BY <1>1, <1>3 DEF Shaped
<1>5. Places(t) = {2}
  BY <1>3 DEF Places
<1>6. Owned(t) = {next} /\ Apart(t)
  BY <1>1, <1>3, <1>5 DEF Owned, Apart, IsMethod
<1>7. Takes(t) = 0 /\ Gives(t) = 0
  BY <1>3 DEF Takes, Gives
<1> QED
  BY <1>1, <1>3, <1>4, <1>6, <1>7 DEF t, L

LEMMA ThenStep == IInv /\ Then => IInv' /\ Quiet
<1> SUFFICES ASSUME IInv, Then
             PROVE  IInv' /\ Quiet
  OBVIOUS
<1> DEFINE node == task.node
           then == task.labels[1]
           otherwise == task.labels[2]
           join == Last(task.labels)
           o == Operand(0)
           b1 == Visit(node.kids[2])
           e1 == Task("end", node, <<join, otherwise>>, <<>>)
           b2 == Visit(node.kids[3])
           e2 == Task("end", node, <<join, join>>, <<>>)
           n == Len(node.kids)
<1>1. /\ agenda # <<>> /\ task.do = "then"
      /\ blocks' = WithExits(WithCode(blocks, currentBlock, <<CondJump(otherwise, o), Jump(then)>>),
                             currentBlock, then, otherwise)
      /\ currentBlock' = then
      /\ Proceed(<<b1, e1>> \o (IF node.kind = "If" THEN <<>> ELSE <<b2, e2>>))
      /\ values' = Without(1)
      /\ UNCHANGED <<source, scope, nextBlock>> /\ NoTemp
  BY DEF Then, Doing
<1>2. /\ ~IsMethod(task) /\ task \in Tasks /\ node \in Nodes /\ Shaped(task)
      /\ Len(values) \in Nat /\ values \in Seq(Operands) /\ Len(values) >= Takes(task)
  BY <1>1, AtWork
<1>3. /\ node.kind \in {"If", "IfElse"} /\ Takes(task) = 1 /\ Gives(task) = 0
      /\ Places(task) = 1 .. n /\ Len(task.labels) = n
  BY <1>1, <1>2 DEF Shaped, Takes, Gives, Places
<1>4. node.kind \notin {"Method", "RET", "List"}
  BY <1>3
<1>5. node \in Inner
  BY <1>2, <1>4, NodeOf
<1>6. /\ node.kind = "If" => n = 2
      /\ node.kind = "IfElse" => n = 3
      /\ \A i \in 2 .. n : node.kids[i] \in Inner /\ node.kids[i].kind \in Commands
  <2>1. /\ node.kids \in Seq(Inner)
        /\ node.kind = "If" => n = 2
        /\ node.kind = "IfElse" => n = 3
        /\ \A i \in DOMAIN node.kids : i # 1 => node.kids[i].kind \in Commands
    BY <1>3, <1>5, InnerNode DEF WellFormed
  <2> QED  BY <2>1
<1>7. /\ \A i \in DOMAIN task.labels : task.labels[i] \in Texts \cap DOMAIN blocks
      /\ Owned(task) \subseteq Open(blocks) \ {currentBlock}
      /\ currentBlock \in DOMAIN blocks /\ AllSound(blocks) /\ Apart(task)
      /\ DOMAIN blocks \subseteq MadeLabels
  BY <1>1, <1>2, Working
<1>8. task.labels \in Seq(Texts) /\ DOMAIN task.labels = 1 .. n /\ n \in {2, 3}
  <2>1. task.labels \in Seq(Texts)
    BY <1>2 DEF Tasks
  <2> QED  BY <1>3, <1>6, <2>1
<1>9. join = task.labels[n]
  BY <1>3 DEF Last
<1>10. Owned(task) = {task.labels[i] : i \in 1 .. n}
  BY <1>2, <1>3 DEF Owned
<1> HIDE DEF n
<1>11. /\ then \in Texts \cap DOMAIN blocks /\ otherwise \in Texts \cap DOMAIN blocks
       /\ join \in Texts \cap DOMAIN blocks
       /\ {then, otherwise, join} \subseteq Owned(task)
       /\ then # otherwise /\ then # join
       /\ node.kind = "If" => join = otherwise
       /\ node.kind = "IfElse" => join # otherwise
  <2>1. 1 \in 1 .. n /\ 2 \in 1 .. n /\ n \in 1 .. n /\ (node.kind = "IfElse" => n = 3)
    BY <1>6, <1>8
  <2>2. \A i, j \in 1 .. n : task.labels[i] = task.labels[j] => i = j
    BY <1>3, <1>7 DEF Apart
  <2>3. then \in Owned(task) /\ otherwise \in Owned(task) /\ join \in Owned(task)
    BY <1>9, <1>10, <2>1
  <2> QED  BY <1>6, <1>7, <1>8, <1>9, <2>1, <2>2, <2>3
<1>12. o \in Operands /\ Without(1) \in Seq(Operands) /\ Len(Without(1)) = Len(values) - 1
  <2>1. 0 \in 0 .. Len(values) - 1 /\ 1 \in 0 .. Len(values)
    BY <1>2, <1>3
  <2> QED  BY <1>2, <2>1, ValuesLeft
<1> HIDE DEF then, otherwise, join, o, b1, b2, e1, e2
<1>13. /\ DOMAIN blocks' = DOMAIN blocks /\ AllSound(blocks')
       /\ \A b \in DOMAIN blocks \ {currentBlock} : blocks'[b].code = blocks[b].code
  <2> DEFINE new == WithExits(WithCode(blocks, currentBlock, <<CondJump(otherwise, o), Jump(then)>>),
                              currentBlock, then, otherwise)
  <2>1. /\ DOMAIN new = DOMAIN blocks /\ AllSound(new)
        /\ \A b \in DOMAIN blocks \ {currentBlock} : new[b].code = blocks[b].code
    BY <1>7, <1>11, <1>12, Parted
  <2> HIDE DEF new
  <2>2. blocks' = new
    BY <1>1 DEF new
  <2> QED  BY <2>1, <2>2
<1>14. Owned(task) \subseteq Open(blocks')
  <2> SUFFICES ASSUME NEW b \in Owned(task)
               PROVE  b \in Open(blocks')
    OBVIOUS
  <2>1. b \in Open(blocks) /\ b # currentBlock /\ b \in DOMAIN blocks
    BY <1>7 DEF Open
  <2> QED  BY <1>13, <2>1, StillOpen
<1>15. Counters' /\ DOMAIN temps' = DOMAIN temps /\ MadeLabels' = MadeLabels
  BY <1>1, NothingTaken DEF IInv
<1>16. /\ e1 \in Tasks /\ e1.node = node /\ e1.do = "end" /\ Shaped(e1) /\ Apart(e1)
       /\ Owned(e1) = {otherwise} /\ Takes(e1) = 0 /\ Gives(e1) = 0
       /\ \A i \in DOMAIN e1.labels : e1.labels[i] \in DOMAIN blocks'
  <2>1. /\ e1 \in Tasks /\ e1.node = node /\ e1.do = "end" /\ Shaped(e1) /\ Apart(e1)
        /\ Owned(e1) = {otherwise} /\ Takes(e1) = 0 /\ Gives(e1) = 0
        /\ DOMAIN e1.labels = {1, 2} /\ e1.labels[1] = join /\ e1.labels[2] = otherwise
    BY <1>3, <1>5, <1>11, EndType DEF e1
  <2> QED  BY <1>11, <1>13, <2>1
<1>17. /\ e2 \in Tasks /\ e2.node = node /\ e2.do = "end" /\ Shaped(e2) /\ Apart(e2)
       /\ Owned(e2) = {join} /\ Takes(e2) = 0 /\ Gives(e2) = 0
       /\ \A i \in DOMAIN e2.labels : e2.labels[i] \in DOMAIN blocks'
  <2>1. /\ e2 \in Tasks /\ e2.node = node /\ e2.do = "end" /\ Shaped(e2) /\ Apart(e2)
        /\ Owned(e2) = {join} /\ Takes(e2) = 0 /\ Gives(e2) = 0
        /\ DOMAIN e2.labels = {1, 2} /\ e2.labels[1] = join /\ e2.labels[2] = join
    BY <1>3, <1>5, <1>11, EndType DEF e2
  <2> QED  BY <1>11, <1>13, <2>1
<1>18. /\ DOMAIN blocks' = DOMAIN blocks \cup {} /\ DOMAIN blocks' \subseteq MadeLabels'
       /\ {} \cap MadeLabels = {}
       /\ currentBlock' \in {currentBlock} \cup Owned(task) \cup {} /\ currentBlock' \in Open(blocks')
       /\ \A b \in DOMAIN blocks \ ({currentBlock} \cup Owned(task)) : blocks'[b].code = blocks[b].code
  BY <1>1, <1>7, <1>11, <1>13, <1>14, <1>15
<1>19. /\ values' \in Seq(Operands) /\ Len(values') = (Len(values) - Takes(task)) + Gives(task)
       /\ Len(values') \in Nat
  BY <1>1, <1>2, <1>3, <1>12
<1>20. node.kids[2] \in Inner /\ node.kids[2].kind \in Commands /\ node.kids[2].kind \notin Expressions
  <2>1. 2 \in 2 .. n
    BY <1>8
  <2> QED  BY <1>6, <2>1, Kinds
<1>21. CASE node.kind = "If"
  <2>1. Proceed(<<Visit(node.kids[2]), e1>>)
    <3> DEFINE s == <<b1, e1>>
    <3>1. b1 \in Tasks
      BY <1>20, InnerNode, VisitType DEF b1
    <3>2. s \in Seq(Tasks)
      BY <1>16, <3>1
    <3> HIDE DEF s
    <3>3. s \o <<>> = s
      BY <3>2, ConcatEmptySeq
    <3>4. Proceed(s)
      BY <1>1, <1>21, <3>3 DEF s
    <3> QED  BY <3>4 DEF s, b1
  <2>2. /\ Owned(e1) \subseteq Open(blocks') \ {currentBlock'}
        /\ Owned(e1) \subseteq Owned(task) \cup {}
    BY <1>1, <1>11, <1>14, <1>16
  <2>3. /\ 0 = IF node.kids[2].kind \in Expressions THEN 1 ELSE 0
        /\ Takes(e1) \in 0 .. Len(values') + 0 /\ Gives(e1) \in Nat
        /\ ((Len(values') + 0) - Takes(e1)) + Gives(e1) = (Len(values) - Takes(task)) + Gives(task)
    BY <1>16, <1>19, <1>20
  <2>4. e1.do # "visit" /\ UNCHANGED <<source, scope>>
    BY <1>1, <1>16
  <2> QED
    BY <1>1, <1>2, <1>5, <1>13, <1>15, <1>16, <1>18, <1>19, <1>20, <2>1, <2>2, <2>3, <2>4, VisitThen
<1>22. CASE node.kind = "IfElse"
  <2> DEFINE s == <<b1, e1>>
             t == <<b2, e2>>
             u == s \o t
             v == Len(values')
  <2>1. agenda' = u \o Tail(agenda)
    BY <1>1, <1>22 DEF Proceed
  <2>2. node.kids[3] \in Inner /\ node.kids[3].kind \notin Expressions
    <3>1. 3 \in 2 .. n
      BY <1>6, <1>22
    <3> QED  BY <1>6, <3>1, Kinds
  <2>3. /\ b1 \in Tasks /\ Calm(b1) /\ b1.node \in Inner /\ Takes(b1) = 0 /\ Gives(b1) = 0
        /\ b2 \in Tasks /\ Calm(b2) /\ b2.node \in Inner /\ Takes(b2) = 0 /\ Gives(b2) = 0
    BY <1>20, <2>2, InnerNode, VisitType DEF b1, b2
  <2>4. v \in Nat
    BY <1>19
  <2> HIDE DEF v
  <2>5. /\ s \in Seq(Tasks) /\ Len(s) = 2 /\ s[1] = b1 /\ s[2] = e1 /\ Runs(s, v, v)
        /\ t \in Seq(Tasks) /\ Len(t) = 2 /\ t[1] = b2 /\ t[2] = e2 /\ Runs(t, v, v)
    <3>1. 0 \in 0 .. v /\ 0 \in 0 .. (v - 0) + 0 /\ (((v - 0) + 0) - 0) + 0 = v /\ 0 \in Nat
      BY <2>4
    <3> QED  BY <1>16, <1>17, <2>3, <2>4, <3>1, TwoTasks
  <2> HIDE DEF s, t
  <2>6. Runs(u, v, v)
    BY <2>5, RunsConcat
  <2>7. /\ u \in Seq(Tasks) /\ Len(u) = 4 /\ DOMAIN u = 1 .. 4
        /\ u[1] = b1 /\ u[2] = e1 /\ u[3] = b2 /\ u[4] = e2
    <3>1. /\ u \in Seq(Tasks) /\ Len(u) = 2 + 2
          /\ \A i \in 1 .. 2 + 2 : u[i] = IF i <= 2 THEN s[i] ELSE t[i - 2]
      <4>1. /\ u \in Seq(Tasks) /\ Len(u) = Len(s) + Len(t)
            /\ \A i \in 1 .. Len(s) + Len(t) : u[i] = IF i <= Len(s) THEN s[i] ELSE t[i - Len(s)]
        BY <2>5, ConcatProperties
      <4> QED  BY <2>5, <4>1
    <3> HIDE DEF u
    <3> QED  BY <2>5, <3>1
  <2> HIDE DEF u
  <2>8. /\ Ready(b1, blocks', currentBlock', DOMAIN temps) /\ Owned(b1) = {}
        /\ Ready(b2, blocks', currentBlock', DOMAIN temps) /\ Owned(b2) = {}
    <3>1. ASSUME NEW b \in {b1, b2}
          PROVE  Ready(b, blocks', currentBlock', DOMAIN temps) /\ Owned(b) = {}
      <4>1. b.labels \in Seq(Texts) /\ Len(b.labels) = 0 /\ Places(b) = {} /\ Calm(b)
        BY <2>3 DEF Calm, Shaped, Tasks, Places
      <4>2. DOMAIN b.labels = {}
        BY <4>1
      <4> QED  BY <1>18, <4>1, <4>2 DEF Calm, Ready, Apart, Owned
    <3> QED  BY <3>1
  <2>9. /\ Ready(e1, blocks', currentBlock', DOMAIN temps)
        /\ Ready(e2, blocks', currentBlock', DOMAIN temps)
    <3>1. {otherwise, join} \subseteq Open(blocks') \ {currentBlock'} /\ currentBlock' \in Open(blocks')
      BY <1>1, <1>11, <1>14
    <3> QED  BY <1>16, <1>17, <3>1 DEF Ready, IsMethod
  <2>10. \A i \in DOMAIN u : i \in {1, 2, 3, 4} /\ u[i] \in {b1, e1, b2, e2}
    BY <2>7
  <2>11. /\ \A i \in DOMAIN u : Ready(u[i], blocks', currentBlock', DOMAIN temps)
         /\ \A i \in DOMAIN u : Owned(u[i]) \subseteq Owned(task) \cup {}
         /\ \A i \in DOMAIN u : u[i].node \in Inner
    BY <1>5, <1>11, <1>16, <1>17, <2>3, <2>8, <2>9, <2>10
  <2>12. Ordered(u)
    <3> SUFFICES ASSUME NEW i \in DOMAIN u, NEW j \in DOMAIN u, i < j
                 PROVE  Owned(u[i]) \cap Owned(u[j]) = {}
      BY <2>11 DEF Ordered, Before
    <3>1. \/ u[i] \in {b1, b2} \/ u[j] \in {b1, b2}
          \/ u[i] = e1 /\ u[j] = e2
      BY <2>7, <2>10
    <3> QED  BY <1>11, <1>16, <1>17, <1>22, <2>8, <3>1
  <2>13. Runs(u, Len(values'), (Len(values) - Takes(task)) + Gives(task))
    BY <1>19, <2>6 DEF v
  <2>14. UNCHANGED <<source, scope>>
    BY <1>1
  <2> QED
    BY <1>1, <1>2, <1>13, <1>15, <1>18, <1>19, <2>1, <2>7, <2>11, <2>12, <2>13, <2>14, Advance
<1> QED
  BY <1>3, <1>21, <1>22

LEMMA EndBranchStep == IInv /\ EndBranch => IInv' /\ Quiet
<1> SUFFICES ASSUME IInv, EndBranch
             PROVE  IInv' /\ Quiet
  OBVIOUS
<1> DEFINE join == task.labels[1]
           next == task.labels[2]
<1>1. /\ agenda # <<>> /\ task.do = "end"
      /\ blocks' = Closed(blocks, currentBlock, join) /\ currentBlock' = next
      /\ Proceed(<<>>) /\ values' = values
      /\ UNCHANGED <<source, scope, nextBlock>> /\ NoTemp
  BY DEF EndBranch, Doing
<1>2. /\ ~IsMethod(task) /\ task \in Tasks /\ Shaped(task)
      /\ Len(values) \in Nat /\ values \in Seq(Operands)
  BY <1>1, AtWork
<1>3. Takes(task) = 0 /\ Gives(task) = 0 /\ Places(task) = {2} /\ Len(task.labels) = 2
  BY <1>1, <1>2 DEF Shaped, Takes, Gives, Places
<1>4. /\ \A k \in DOMAIN task.labels : task.labels[k] \in Texts \cap DOMAIN blocks
      /\ Owned(task) \subseteq Open(blocks) \ {currentBlock}
      /\ currentBlock \in DOMAIN blocks /\ AllSound(blocks)
  BY <1>1, <1>2, Working
<1>5. join \in Texts \cap DOMAIN blocks /\ next \in Texts \cap DOMAIN blocks
  <2>1. task.labels \in Seq(Texts)
    BY <1>2 DEF Tasks
  <2>2. DOMAIN task.labels = 1 .. 2
    BY <1>3, <2>1
  <2> QED  BY <1>4, <2>2
<1>6. Owned(task) = {next}
  BY <1>2, <1>3 DEF Owned
<1> HIDE DEF join, next
<1>7. /\ DOMAIN blocks' = DOMAIN blocks /\ AllSound(blocks')
      /\ \A b \in DOMAIN blocks \ {currentBlock} : blocks'[b].code = blocks[b].code
  <2> DEFINE new == Closed(blocks, currentBlock, join)
  <2>1. /\ DOMAIN new = DOMAIN blocks /\ AllSound(new)
        /\ \A b \in DOMAIN blocks \ {currentBlock} : new[b].code = blocks[b].code
    BY <1>4, <1>5, ClosedIs
  <2>2. blocks' = new
    BY <1>1 DEF join
  <2> HIDE DEF new
  <2> QED  BY <2>1, <2>2
<1>8. currentBlock' \in Owned(task) /\ currentBlock' \in Open(blocks')
  BY <1>1, <1>4, <1>5, <1>6, <1>7, StillOpen
<1>9. /\ \A b \in DOMAIN blocks \ ({currentBlock} \cup Owned(task)) : blocks'[b].code = blocks[b].code
      /\ values' \in Seq(Operands) /\ Len(values') = (Len(values) - Takes(task)) + Gives(task)
  BY <1>1, <1>2, <1>3, <1>7
<1> QED
  BY <1>1, <1>2, <1>7, <1>8, <1>9, NodeDone

LEMMA LoopEndStep == IInv /\ LoopEnd => IInv' /\ Quiet
<1> SUFFICES ASSUME IInv, LoopEnd
             PROVE  IInv' /\ Quiet
  OBVIOUS
<1> DEFINE header == task.labels[1]
           body == task.labels[2]
           join == task.labels[3]
           condition == task.labels[4]
           mid == Closed(blocks, currentBlock, header)
<1>1. /\ agenda # <<>> /\ task.do = "loop end"
      /\ blocks' = WithExits(mid, condition, body, join) /\ currentBlock' = join
      /\ Proceed(<<>>) /\ values' = values
      /\ UNCHANGED <<source, scope, nextBlock>> /\ NoTemp
  BY DEF LoopEnd, Doing
<1>2. /\ ~IsMethod(task) /\ task \in Tasks /\ Shaped(task)
      /\ Len(values) \in Nat /\ values \in Seq(Operands)
  BY <1>1, AtWork
<1>3. Takes(task) = 0 /\ Gives(task) = 0 /\ Places(task) = {3} /\ Len(task.labels) = 4
  BY <1>1, <1>2 DEF Shaped, Takes, Gives, Places
<1>4. /\ \A k \in DOMAIN task.labels : task.labels[k] \in Texts \cap DOMAIN blocks
      /\ Owned(task) \subseteq Open(blocks) \ {currentBlock}
      /\ currentBlock \in DOMAIN blocks /\ AllSound(blocks)
  BY <1>1, <1>2, Working
<1>5. /\ header \in Texts \cap DOMAIN blocks /\ body \in Texts \cap DOMAIN blocks
      /\ join \in Texts \cap DOMAIN blocks /\ condition \in DOMAIN blocks
  <2>1. task.labels \in Seq(Texts)
    BY <1>2 DEF Tasks
  <2>2. DOMAIN task.labels = 1 .. 4
    BY <1>3, <2>1
  <2> QED  BY <1>4, <2>2
<1>6. Owned(task) = {join}
  BY <1>2, <1>3 DEF Owned
<1> HIDE DEF header, body, join, condition
<1>7. /\ DOMAIN mid = DOMAIN blocks /\ AllSound(mid)
      /\ \A b \in DOMAIN blocks \ {currentBlock} : mid[b].code = blocks[b].code
  BY <1>4, <1>5, ClosedIs
<1> HIDE DEF mid
<1>8. /\ DOMAIN blocks' = DOMAIN mid /\ AllSound(blocks')
      /\ \A b \in DOMAIN mid : blocks'[b].code = mid[b].code
  <2> DEFINE new == WithExits(mid, condition, body, join)
  <2>1. condition \in DOMAIN mid /\ body \in Texts \cap DOMAIN mid /\ join \in Texts \cap DOMAIN mid
    BY <1>5, <1>7
  <2>2. DOMAIN new = DOMAIN mid /\ AllSound(new) /\ \A b \in DOMAIN mid : new[b].code = mid[b].code
    BY <1>7, <2>1, WithExitsIs
  <2> HIDE DEF new
  <2>3. blocks' = new
    BY <1>1 DEF new
  <2> QED  BY <2>2, <2>3
<1>9. /\ DOMAIN blocks' = DOMAIN blocks
      /\ \A b \in DOMAIN blocks \ {currentBlock} : blocks'[b].code = blocks[b].code
  BY <1>7, <1>8
<1>10. currentBlock' \in Owned(task) /\ currentBlock' \in Open(blocks')
  BY <1>1, <1>4, <1>5, <1>6, <1>9, StillOpen
<1>11. \A b \in DOMAIN blocks \ ({currentBlock} \cup Owned(task)) : blocks'[b].code = blocks[b].code
  BY <1>9
<1>12. values' \in Seq(Operands) /\ Len(values') = (Len(values) - Takes(task)) + Gives(task)
  <2> DEFINE v == Len(values)
  <2>1. v \in Nat /\ Len(values') = v /\ values' \in Seq(Operands)
    BY <1>1, <1>2
  <2> HIDE DEF v
  <2>2. (v - Takes(task)) + Gives(task) = v
    BY <1>3, <2>1
  <2> QED  BY <2>1, <2>2 DEF v
<1> QED
  BY <1>1, <1>2, <1>8, <1>9, <1>10, <1>11, <1>12, NodeDone

LEMMA WhileNode ==
  ASSUME NEW n \in Nodes, n.kind = "While"
  PROVE  /\ n \in Inner /\ n.kind \notin Expressions
         /\ n.kids[1] \in Inner /\ n.kids[1].kind \in Expressions
         /\ n.kids[2] \in Inner /\ n.kids[2].kind \notin Expressions
<1>1. n.kind \notin {"Method", "RET", "List"}
  OBVIOUS
<1>2. n \in Inner
  BY <1>1, NodeOf
<1>3. /\ n.kids \in Seq(Inner) /\ Len(n.kids) = 2 /\ n.kids[1].kind \in Expressions
      /\ \A k \in DOMAIN n.kids : k # 1 => n.kids[k].kind \in Commands
  BY <1>2, InnerNode DEF WellFormed
<1>4. n.kids[1] \in Inner /\ n.kids[2] \in Inner /\ n.kids[2].kind \in Commands
  BY <1>3
<1> QED
  BY <1>2, <1>3, <1>4, Kinds

LEMMA BeginWhileStep == IInv /\ BeginWhile => IInv' /\ Quiet
<1> SUFFICES ASSUME IInv, BeginWhile
             PROVE  IInv' /\ Quiet
  OBVIOUS
<1> DEFINE L == Labels(3)
           fresh == ToSet(L)
           header == Label(0)
           body == Label(1)
           new == WithNew(blocks, fresh)
           built == WithTrueExit(new, body, header)
           c == Task("loop body", task.node, L, <<>>)
           k == task.node.kids[1]
<1>1. /\ agenda # <<>> /\ task.do = "visit" /\ task.node.kind = "While"
      /\ blocks' = Closed(built, currentBlock, header) /\ currentBlock' = header
      /\ Proceed(<<Visit(k), c>>) /\ NewBlocks(3)
      /\ values' = values /\ UNCHANGED <<source, scope>> /\ NoTemp
  BY DEF BeginWhile, Visiting, Doing
<1>2. task.node.kind # "Method"
  BY <1>1
<1>3. /\ ~IsMethod(task) /\ task \in Tasks /\ task.node \in Nodes
      /\ Len(values) \in Nat /\ values \in Seq(Operands)
  BY <1>1, <1>2, AtWork
<1>4. task.node \in Inner /\ task.node.kind \notin Expressions /\ k \in Inner /\ k.kind \in Expressions
  BY <1>1, <1>3, WhileNode
<1>5. Takes(task) = 0 /\ Gives(task) = 0
  BY <1>1, <1>4 DEF Takes, Gives
<1>6. currentBlock \in DOMAIN blocks
  BY <1>1, <1>3, Working
<1>7. /\ Counters' /\ DOMAIN temps' = DOMAIN temps
      /\ DOMAIN new = DOMAIN blocks \cup fresh /\ AllSound(new)
      /\ DOMAIN new \subseteq MadeLabels' /\ DOMAIN new \subseteq Texts
      /\ fresh \cap MadeLabels = {} /\ fresh \cap DOMAIN blocks = {}
      /\ fresh \subseteq Open(new)
      /\ \A b \in DOMAIN blocks : new[b].code = blocks[b].code
      /\ L \in Seq(Texts) /\ Len(L) = 3
      /\ \A i \in 1 .. 3 : L[i] \in fresh /\ L[i] = Label(i - 1)
      /\ \A i, j \in 1 .. 3 : L[i] = L[j] => i = j
  BY <1>1, <1>3, Fresh
<1>8. /\ L[1] = header /\ header \in fresh /\ body \in fresh
      /\ L[2] \in fresh /\ L[3] \in fresh /\ L[1] # L[2] /\ L[1] # L[3] /\ L[2] # L[3]
  <2>1. L[1] = Label(0) /\ L[2] = Label(1) /\ 1 \in 1 .. 3 /\ 2 \in 1 .. 3 /\ 3 \in 1 .. 3
    BY <1>7
  <2> HIDE DEF L, fresh
  <2> QED  BY <1>7, <2>1
<1>9. c \in Tasks /\ c.do = "loop body" /\ c.node = task.node /\ c.labels = L
  BY <1>3, <1>7, NoLabels DEF Task, Tasks, Continuations
<1> HIDE DEF L, fresh, header, body, new, c, k
<1>10. DOMAIN L = 1 .. 3
  BY <1>7
<1>11. /\ DOMAIN built = DOMAIN new /\ AllSound(built)
       /\ \A b \in DOMAIN new : built[b].code = new[b].code
  <2>1. header \in Texts \cap DOMAIN new /\ body \in DOMAIN new
    BY <1>7, <1>8
  <2>2. AllSound(new)
    BY <1>7
  <2> QED  BY <2>1, <2>2, WithTrueExitIs
<1> HIDE DEF built
<1>12. /\ DOMAIN blocks' = DOMAIN new /\ AllSound(blocks')
       /\ \A b \in DOMAIN new \ {currentBlock} : blocks'[b].code = new[b].code
  <2>1. header \in Texts \cap DOMAIN built /\ currentBlock \in DOMAIN built
    BY <1>6, <1>7, <1>8, <1>11
  <2>2. /\ DOMAIN blocks' = DOMAIN built /\ AllSound(blocks')
        /\ \A b \in DOMAIN built \ {currentBlock} : blocks'[b].code = built[b].code
    BY <1>1, <1>11, <2>1, ClosedIs
  <2> QED  BY <1>11, <2>2
<1>13. fresh \subseteq Open(blocks')
  <2> SUFFICES ASSUME NEW b \in fresh
               PROVE  b \in Open(blocks')
    OBVIOUS
  <2>1. b \in Open(new) /\ b \in DOMAIN blocks' /\ blocks'[b].code = new[b].code
    BY <1>6, <1>7, <1>12
  <2> QED  BY <2>1, StillOpen
<1>14. Shaped(c) /\ Apart(c) /\ Owned(c) = {L[2], L[3]} /\ Takes(c) = 1 /\ Gives(c) = 0
  <2>1. Places(c) = {2, 3}
    BY <1>9 DEF Places
  <2>2. Shaped(c)
    BY <1>1, <1>7, <1>9 DEF Shaped
  <2>3. Apart(c)
    BY <1>8, <1>9, <2>1 DEF Apart
  <2>4. Owned(c) = {L[2], L[3]}
    BY <1>9, <2>1 DEF Owned, IsMethod
  <2> QED  BY <1>9, <2>2, <2>3, <2>4 DEF Takes, Gives
<1>15. \A i \in DOMAIN c.labels : c.labels[i] \in DOMAIN blocks'
  BY <1>7, <1>9, <1>10, <1>12
<1>16. /\ Owned(c) \subseteq Open(blocks') \ {currentBlock'} /\ currentBlock' \in Open(blocks')
       /\ Owned(c) \subseteq Owned(task) \cup fresh
       /\ currentBlock' \in {currentBlock} \cup Owned(task) \cup fresh
  BY <1>1, <1>8, <1>13, <1>14
<1>17. /\ Takes(c) \in 0 .. Len(values') + 1 /\ Gives(c) \in Nat
       /\ ((Len(values') + 1) - Takes(c)) + Gives(c) = (Len(values) - Takes(task)) + Gives(task)
  BY <1>1, <1>3, <1>5, <1>14
<1>18. /\ values' \in Seq(Operands) /\ 1 = IF k.kind \in Expressions THEN 1 ELSE 0
       /\ c.do # "visit" /\ UNCHANGED <<source, scope>>
  BY <1>1, <1>3, <1>4, <1>9
<1>19. /\ DOMAIN blocks' = DOMAIN blocks \cup fresh /\ DOMAIN blocks' \subseteq MadeLabels'
       /\ \A b \in DOMAIN blocks \ ({currentBlock} \cup Owned(task)) : blocks'[b].code = blocks[b].code
  BY <1>7, <1>12
<1> QED
  BY <1>1, <1>3, <1>4, <1>7, <1>9, <1>12, <1>14, <1>15, <1>16, <1>17, <1>18, <1>19, VisitThen

LEMMA LoopBodyStep == IInv /\ LoopBody => IInv' /\ Quiet
<1> SUFFICES ASSUME IInv, LoopBody
             PROVE  IInv' /\ Quiet
  OBVIOUS
<1> DEFINE body == task.labels[2]
           join == task.labels[3]
           L == Append(task.labels, currentBlock)
           o == Operand(0)
           c == Task("loop end", task.node, L, <<>>)
           k == task.node.kids[2]
<1>1. /\ agenda # <<>> /\ task.do = "loop body"
      /\ blocks' = WithCode(blocks, currentBlock, <<CondJump(join, o), Jump(body)>>)
      /\ currentBlock' = body
      /\ Proceed(<<Visit(k), c>>) /\ values' = Without(1)
      /\ UNCHANGED <<source, scope, nextBlock>> /\ NoTemp
  BY DEF LoopBody, LoopJumps, ConditionBlock, Emit, Doing
<1>2. /\ ~IsMethod(task) /\ task \in Tasks /\ task.node \in Nodes /\ Shaped(task)
      /\ Len(values) \in Nat /\ values \in Seq(Operands) /\ Len(values) >= Takes(task)
  BY <1>1, AtWork
<1>3. /\ task.node.kind = "While" /\ Takes(task) = 1 /\ Gives(task) = 0
      /\ Places(task) = {2, 3} /\ Len(task.labels) = 3
  BY <1>1, <1>2 DEF Shaped, Takes, Gives, Places
<1>4. task.node \in Inner /\ k \in Inner /\ k.kind \notin Expressions
  BY <1>2, <1>3, WhileNode
<1>5. /\ \A i \in DOMAIN task.labels : task.labels[i] \in Texts \cap DOMAIN blocks
      /\ Owned(task) \subseteq Open(blocks) \ {currentBlock}
      /\ currentBlock \in Texts \cap DOMAIN blocks /\ AllSound(blocks) /\ Apart(task)
      /\ DOMAIN blocks \subseteq MadeLabels
  BY <1>1, <1>2, Working
<1>6. task.labels \in Seq(Texts) /\ DOMAIN task.labels = 1 .. 3
  <2>1. task.labels \in Seq(Texts)
    BY <1>2 DEF Tasks
  <2> QED  BY <1>3, <2>1
<1>7. body \in Texts \cap DOMAIN blocks /\ join \in Texts \cap DOMAIN blocks
  BY <1>5, <1>6
<1>8. Owned(task) = {body, join} /\ body # join
  BY <1>2, <1>3, <1>5 DEF Owned, Apart
<1>9. o \in Operands /\ Without(1) \in Seq(Operands) /\ Len(Without(1)) = Len(values) - 1
  <2>1. 0 \in 0 .. Len(values) - 1 /\ 1 \in 0 .. Len(values)
    BY <1>2, <1>3
  <2> QED  BY <1>2, <2>1, ValuesLeft
<1>10. L \in Seq(Texts) /\ Len(L) = 4 /\ L[3] = join /\ \A i \in DOMAIN L : L[i] \in DOMAIN blocks
  <2>1. /\ L \in Seq(Texts) /\ Len(L) = Len(task.labels) + 1
        /\ \A i \in 1 .. Len(task.labels) : L[i] = task.labels[i]
        /\ L[Len(task.labels) + 1] = currentBlock
    BY <1>5, <1>6, AppendProperties
  <2> HIDE DEF L
  <2>2. DOMAIN L = 1 .. 4 /\ \A i \in 1 .. 4 : i \in 1 .. 3 \/ i = 4
    BY <1>3, <2>1
  <2> QED  BY <1>3, <1>5, <1>6, <2>1, <2>2
<1>11. c \in Tasks /\ c.do = "loop end" /\ c.node = task.node /\ c.labels = L
  BY <1>2, <1>10, NoLabels DEF Task, Tasks, Continuations
<1> HIDE DEF body, join, L, o, c, k
<1>12. /\ DOMAIN blocks' = DOMAIN blocks /\ AllSound(blocks')
       /\ \A b \in DOMAIN blocks \ {currentBlock} : blocks'[b].code = blocks[b].code
  <2> DEFINE new == WithCode(blocks, currentBlock, <<CondJump(join, o), Jump(body)>>)
  <2>1. /\ DOMAIN new = DOMAIN blocks /\ AllSound(new)
        /\ \A b \in DOMAIN blocks \ {currentBlock} : new[b].code = blocks[b].code
    BY <1>5, <1>7, <1>9, TwoJumps
  <2> HIDE DEF new
  <2>2. blocks' = new
    BY <1>1 DEF new
  <2> QED  BY <2>1, <2>2
<1>13. Owned(task) \subseteq Open(blocks')
  <2> SUFFICES ASSUME NEW b \in Owned(task)
               PROVE  b \in Open(blocks')
    OBVIOUS
  <2>1. b \in Open(blocks) /\ b # currentBlock /\ b \in DOMAIN blocks
    BY <1>5 DEF Open
  <2> QED  BY <1>12, <2>1, StillOpen
<1>14. Shaped(c) /\ Apart(c) /\ Owned(c) = {join} /\ Takes(c) = 0 /\ Gives(c) = 0
  <2>1. Places(c) = {3}
    BY <1>11 DEF Places
  <2>2. Shaped(c)
    BY <1>3, <1>10, <1>11 DEF Shaped
  <2>3. Owned(c) = {join} /\ Apart(c)
    BY <1>10, <1>11, <2>1 DEF Owned, Apart, IsMethod
  <2> QED  BY <1>11, <2>2, <2>3 DEF Takes, Gives
<1>15. Counters' /\ DOMAIN temps' = DOMAIN temps /\ MadeLabels' = MadeLabels
  BY <1>1, NothingTaken DEF IInv
<1>16. /\ DOMAIN blocks' = DOMAIN blocks \cup {} /\ DOMAIN blocks' \subseteq MadeLabels'
       /\ {} \cap MadeLabels = {}
       /\ currentBlock' \in {currentBlock} \cup Owned(task) \cup {} /\ currentBlock' \in Open(blocks')
       /\ Owned(c) \subseteq Open(blocks') \ {currentBlock'}
       /\ Owned(c) \subseteq Owned(task) \cup {}
       /\ \A b \in DOMAIN blocks \ ({currentBlock} \cup Owned(task)) : blocks'[b].code = blocks[b].code
       /\ \A i \in DOMAIN c.labels : c.labels[i] \in DOMAIN blocks'
  BY <1>1, <1>5, <1>8, <1>10, <1>11, <1>12, <1>13, <1>14, <1>15
<1>17. /\ Takes(c) \in 0 .. Len(values') + 0 /\ Gives(c) \in Nat
       /\ ((Len(values') + 0) - Takes(c)) + Gives(c) = (Len(values) - Takes(task)) + Gives(task)
  <2> DEFINE v == Len(values)
             w == Len(values')
  <2>1. v \in Nat /\ v >= 1 /\ w = v - 1
    BY <1>1, <1>2, <1>3, <1>9
  <2> HIDE DEF v, w
  <2>2. /\ Takes(c) \in 0 .. w + 0 /\ Gives(c) \in Nat
        /\ ((w + 0) - Takes(c)) + Gives(c) = (v - Takes(task)) + Gives(task)
    BY <1>3, <1>14, <2>1
  <2> QED  BY <2>2 DEF v, w
<1>18. /\ values' \in Seq(Operands) /\ 0 = IF k.kind \in Expressions THEN 1 ELSE 0
       /\ c.do # "visit" /\ UNCHANGED <<source, scope>>
  BY <1>1, <1>4, <1>9, <1>11
<1> QED
  BY <1>1, <1>2, <1>4, <1>11, <1>12, <1>14, <1>15, <1>16, <1>17, <1>18, VisitThen

-----------------------------------------------------------------------------
(***************************************************************************)
(* The beginning of a method, and of the whole.                            *)
(***************************************************************************)
LEMMA BeginMethodStep == IInv /\ BeginMethod => IInv' /\ Quiet
<1> SUFFICES ASSUME IInv, BeginMethod
             PROVE  IInv' /\ Quiet
  OBVIOUS
<1> DEFINE name == task.node.text
           tasks == VisitAll(task.node.kids)
<1>1. /\ agenda # <<>> /\ task.do = "visit" /\ task.node.kind = "Method"
      /\ blocks' = WithNew(blocks, {name}) /\ currentBlock' = name /\ scope' = name
      /\ agenda' = tasks \o Tail(agenda)
      /\ UNCHANGED <<source, values, nextBlock>> /\ NoTemp
  BY DEF BeginMethod, Visiting, Doing, Proceed
<1>2. /\ agenda \in Seq(Tasks) /\ Ordered(agenda)
      /\ \A i \in DOMAIN agenda : Ready(agenda[i], blocks, currentBlock, DOMAIN temps)
  BY DEF IInv, Agenda
<1>3. /\ task \in Tasks /\ Tail(agenda) \in Seq(Tasks) /\ IsMethod(task)
      /\ Ready(task, blocks, currentBlock, DOMAIN temps)
  BY <1>1, <1>2 DEF task, IsMethod
<1>4. name \in DOMAIN temps \ DOMAIN blocks /\ Owned(task) = {name}
  BY <1>3, OwnedBy DEF Ready
<1>5. PICK m \in Methods : task.node = MethodNode(m)
  BY <1>1, <1>3, NodeOf DEF Tasks
<1>6. task.node.kids = <<m.body>> /\ m.body \in Bodies /\ m.body.kind = "List" /\ m.body \in Nodes
  BY <1>5, MethodsNode, BodyNode DEF Nodes
<1>7. task.node \notin Inner
  BY <1>1, InnerNode
<1>8. /\ tasks \in Seq(Tasks) /\ Len(tasks) = 1 /\ DOMAIN tasks = {1}
      /\ \A i \in DOMAIN tasks : Calm(tasks[i])
      /\ Runs(tasks, Len(values), Len(values))
  <2> DEFINE kids == <<m.body>>
  <2>1. kids \in Seq(Nodes) /\ Len(kids) = 1 /\ DOMAIN kids = {1} /\ kids[1] = m.body
    BY <1>6
  <2>2. "List" \notin Expressions
    BY Kinds
  <2>3. \A k \in DOMAIN kids : kids[k].kind # "Method" /\ kids[k].kind \notin Expressions
    BY <1>6, <2>1, <2>2
  <2>4. Len(values) \in Nat
    BY DEF IInv, Stack
  <2>5. DOMAIN VisitAll(kids) = DOMAIN kids
    BY DEF VisitAll
  <2>6. tasks = VisitAll(kids)
    BY <1>6
  <2> HIDE DEF kids, tasks
  <2> QED
    BY <2>1, <2>3, <2>4, <2>5, <2>6, VisitsType, RunsVisits
<1> HIDE DEF tasks, name
<1>9. AllSound(blocks) /\ DOMAIN blocks \subseteq MadeLabels
  BY LinkedIs DEF IInv
<1>10. /\ DOMAIN blocks' = DOMAIN blocks \cup {name} /\ AllSound(blocks')
       /\ name \in Open(blocks')
       /\ \A b \in DOMAIN blocks : blocks'[b] = blocks[b]
  <2> DEFINE new == WithNew(blocks, {name})
  <2>1. /\ DOMAIN new = DOMAIN blocks \cup {name} /\ AllSound(new)
        /\ \A b \in {name} : new[b] = EmptyBlock /\ ~EndsInJump(new[b])
        /\ \A b \in DOMAIN blocks \ {name} : new[b] = blocks[b]
    BY <1>9, WithNewIs
  <2> HIDE DEF new
  <2>2. blocks' = new
    BY <1>1 DEF new
  <2> QED  BY <1>4, <2>1, <2>2 DEF Open
<1>11. Counters' /\ DOMAIN temps' = DOMAIN temps /\ MadeLabels' = MadeLabels
  BY <1>1, NothingTaken DEF IInv
<1>12. /\ \A i \in DOMAIN tasks : Ready(tasks[i], blocks', name, DOMAIN temps)
       /\ \A i \in DOMAIN tasks : Owned(tasks[i]) = {}
       /\ Ordered(tasks)
  <2>1. \A i \in DOMAIN tasks : i # Len(tasks) => tasks[i].node \in Inner
    BY <1>8
  <2> QED  BY <1>8, <1>10, <2>1, PlainTasks
<1>13. /\ agenda' \in Seq(Tasks) /\ Ordered(agenda')
       /\ \A i \in DOMAIN agenda' : Ready(agenda'[i], blocks', name, DOMAIN temps)
  <2> DEFINE fresh == {}
             new == blocks'
  <2>1. /\ \A i \in DOMAIN tasks : Owned(tasks[i]) \subseteq Owned(Head(agenda)) \cup fresh
        /\ Head(agenda).node \notin Inner
        /\ fresh \cap (DOMAIN blocks \cup DOMAIN temps) = {}
        /\ DOMAIN blocks \subseteq DOMAIN new
        /\ DOMAIN new \subseteq DOMAIN blocks \cup fresh \cup Owned(Head(agenda))
        /\ \A b \in DOMAIN blocks \ ({currentBlock} \cup Owned(Head(agenda))) : new[b].code = blocks[b].code
        /\ name \in {currentBlock} \cup Owned(Head(agenda)) \cup fresh
    BY <1>4, <1>7, <1>10, <1>12 DEF task
  <2>2. \A i \in DOMAIN tasks : Ready(tasks[i], new, name, DOMAIN temps)
    BY <1>12
  <2> DEFINE all == tasks \o Tail(agenda)
  <2> HIDE DEF fresh, new
  <2>3. /\ all \in Seq(Tasks) /\ Ordered(all)
        /\ \A i \in DOMAIN all : Ready(all[i], new, name, DOMAIN temps)
    BY <1>1, <1>2, <1>8, <1>12, <2>1, <2>2, Onward
  <2> HIDE DEF all
  <2>4. agenda' = all
    BY <1>1 DEF all
  <2> QED  BY <2>3, <2>4 DEF new
<1>14. Agenda'
  BY <1>1, <1>4, <1>11, <1>13 DEF Agenda, Ordered
<1>15. Stack'
  <2>1. PICK l : Runs(agenda, Len(values), l)
    BY DEF IInv, Stack
  <2>2. Takes(task) = 0 /\ Gives(task) = 0
    <3>1. "Method" \notin Expressions
      BY Kinds
    <3> QED  BY <1>1, <3>1 DEF Takes, Gives
  <2>3. Len(values) \in Nat /\ values \in Seq(Operands)
    BY DEF IInv, Stack
  <2>4. Runs(Tail(agenda), (Len(values) - Takes(task)) + Gives(task), l)
    BY <1>1, <1>2, <2>1, RunsTail DEF task
  <2>5. (Len(values) - Takes(task)) + Gives(task) = Len(values)
    BY <2>2, <2>3
  <2>6. Runs(agenda', Len(values), l)
    BY <1>1, <1>3, <1>8, <2>4, <2>5, RunsConcat
  <2> QED  BY <1>1, <2>3, <2>6 DEF Stack
<1>16. Linked(blocks, MadeLabels)'
  <2>1. DOMAIN blocks' \subseteq MadeLabels'
    BY <1>4, <1>9, <1>10, <1>11 DEF MadeLabels
  <2>2. Linked(blocks', MadeLabels')
    BY <1>10, <2>1, LinkedIs
  <2> QED  BY <2>2 DEF Linked
<1>17. Quiet
  BY <1>10 DEF Quiet
<1> QED
  BY <1>1, <1>4, <1>10, <1>11, <1>14, <1>15, <1>16, <1>17 DEF IInv

LEMMA InitInv == Init => IInv
<1> SUFFICES ASSUME Init
             PROVE  IInv
  OBVIOUS
<1> DEFINE names == {source[i].name : i \in DOMAIN source}
           nodes == [i \in DOMAIN source |-> MethodNode(source[i])]
<1>1. /\ source \in Sources /\ agenda = [i \in DOMAIN source |-> Visit(MethodNode(source[i]))]
      /\ values = <<>> /\ blocks = NothingBuilt /\ currentBlock = NoBlock /\ scope = NoBlock
      /\ temps = [n \in names |-> {}] /\ nextTemp = 0 /\ nextBlock = 0
  BY DEF Init
<1>2. /\ source \in Seq(Methods) /\ DOMAIN source = 1 .. Len(source) /\ Len(source) \in Nat
      /\ \A i, j \in DOMAIN source : source[i].name = source[j].name => i = j
  <2>1. /\ source \in Seq(Methods)
        /\ \A i, j \in DOMAIN source : source[i].name = source[j].name => i = j
    BY <1>1, SourceAssumption
  <2> QED  BY <2>1
<1>3. \A i \in DOMAIN source : /\ MethodNode(source[i]) \in Nodes
                               /\ MethodNode(source[i]).kind = "Method"
                               /\ MethodNode(source[i]).text = source[i].name
  <2> TAKE i \in DOMAIN source
  <2>1. source[i] \in Methods
    BY <1>2
  <2> QED  BY <2>1, MethodsNode DEF Nodes
<1>4. Counters
  <2>1. MadeTemps = {}
    BY <1>1 DEF MadeTemps
  <2>2. AllOf(temps, DOMAIN temps) = {}
    BY <1>1 DEF AllOf
  <2> HIDE DEF names
  <2>3. temps = [n \in names |-> temps[n]]
    BY <1>1
  <2> QED  BY <1>1, <2>1, <2>2, <2>3 DEF Counters, names
<1>5. Linked(blocks, MadeLabels)
  BY <1>1 DEF Linked, NothingBuilt
<1>6. /\ nodes \in Seq(Nodes) /\ DOMAIN nodes = DOMAIN source /\ agenda = VisitAll(nodes)
      /\ Len(nodes) = Len(source)
  <2>1. nodes = [i \in 1 .. Len(source) |-> nodes[i]] /\ \A i \in 1 .. Len(source) : nodes[i] \in Nodes
    BY <1>2, <1>3
  <2>2. agenda = VisitAll(nodes)
    BY <1>1 DEF VisitAll
  <2> HIDE DEF nodes
  <2>3. nodes \in Seq(Nodes) /\ DOMAIN nodes = 1 .. Len(source) /\ Len(nodes) = Len(source)
    BY <1>2, <2>1
  <2> QED  BY <1>2, <2>2, <2>3
<1> HIDE DEF names
<1>7. ASSUME NEW i \in DOMAIN source
      PROVE  /\ agenda[i] \in Tasks /\ IsMethod(agenda[i]) /\ agenda[i].node.text = source[i].name
             /\ Places(agenda[i]) = {} /\ Shaped(agenda[i]) /\ DOMAIN agenda[i].labels = {}
  <2> DEFINE n == MethodNode(source[i])
             t == agenda[i]
  <2>1. n \in Nodes /\ n.kind = "Method" /\ n.text = source[i].name
    BY <1>3
  <2>2. t = Task("visit", n, <<>>, <<>>)
    BY <1>1 DEF Visit
  <2> HIDE DEF n, t
  <2>3. t \in Tasks /\ t.do = "visit" /\ t.node = n /\ t.labels = <<>>
    BY <2>1, <2>2, NoLabels DEF Task, Tasks
  <2>4. Shaped(t) /\ Places(t) = {} /\ IsMethod(t)
    BY <2>1, <2>3, NoLabels DEF Shaped, Places, IsMethod
  <2> QED  BY <2>1, <2>3, <2>4 DEF t
<1>8. agenda \in Seq(Tasks) /\ DOMAIN agenda = DOMAIN source
  <2>1. agenda = [i \in 1 .. Len(source) |-> agenda[i]] /\ \A i \in 1 .. Len(source) : agenda[i] \in Tasks
    BY <1>1, <1>2, <1>7
  <2> QED  BY <1>2, <2>1
<1>9. \A i \in DOMAIN agenda : Owned(agenda[i]) = {source[i].name}
  BY <1>7, <1>8 DEF Owned
<1>10. Agenda
  <2>1. DOMAIN temps = names /\ DOMAIN blocks = {}
    BY <1>1 DEF NothingBuilt
  <2>2. \A i \in DOMAIN source : source[i].name \in names
    BY DEF names
  <2>3. \A i \in DOMAIN agenda : Ready(agenda[i], blocks, currentBlock, DOMAIN temps)
    BY <1>7, <1>8, <2>1, <2>2 DEF Ready, Apart
  <2>4. Ordered(agenda)
    <3> SUFFICES ASSUME NEW i \in DOMAIN agenda, NEW j \in DOMAIN agenda, i < j
                 PROVE  Before(agenda[i], agenda[j])
      BY DEF Ordered
    <3>1. i # j /\ source[i].name # source[j].name
      BY <1>2, <1>8
    <3> QED  BY <1>7, <1>8, <1>9, <3>1 DEF Before
  <2> QED  BY <1>7, <1>8, <2>3, <2>4 DEF Agenda
<1>11. Stack
  <2>1. \A k \in DOMAIN nodes : nodes[k].kind = "Method"
    BY <1>3
  <2>2. "Method" \notin Expressions
    BY Kinds
  <2> HIDE DEF nodes
  <2>3. Runs(agenda, 0, 0)
    BY <1>6, <2>1, <2>2, RunsVisits
  <2>4. values \in Seq(Operands) /\ Len(values) = 0
    BY <1>1, EmptySeq
  <2> QED  BY <2>3, <2>4 DEF Stack
<1> QED
  BY <1>1, <1>4, <1>5, <1>10, <1>11 DEF IInv

-----------------------------------------------------------------------------
(***************************************************************************)
(* The theorems.                                                           *)
(***************************************************************************)
LEMMA StepKeeps == IInv /\ [Next]_irVars => IInv' /\ [Quiet]_irVars
<1> SUFFICES ASSUME IInv, [Next]_irVars
             PROVE  IInv' /\ [Quiet]_irVars
  OBVIOUS
<1>1. CASE BeginMethod
  BY <1>1, BeginMethodStep
<1>2. CASE Leaf \/ New \/ EvalOperands \/ EvalSize
  BY <1>2, LeafStep, NewStep, EvalOperandsStep, EvalSizeStep
<1>3. CASE FinishStrict \/ FinishSized \/ FinishStatement \/ Statement
  BY <1>3, FinishStrictStep, FinishSizedStep, FinishStatementStep, StatementStep
<1>4. CASE EvalCall \/ Param \/ FinishCall
  BY <1>4, EvalCallStep, ParamStep, FinishCallStep
<1>5. CASE EvalLeft \/ Branch \/ Merge
  BY <1>5, EvalLeftStep, BranchStep, MergeStep
<1>6. CASE EvalCondition \/ Then \/ EndBranch
  BY <1>6, EvalConditionStep, ThenStep, EndBranchStep
<1>7. CASE BeginWhile \/ LoopBody \/ LoopEnd
  BY <1>7, BeginWhileStep, LoopBodyStep, LoopEndStep
<1>8. CASE UNCHANGED irVars
  <2>1. /\ Counters' /\ MadeLabels' = MadeLabels
    BY <1>8 DEF irVars, IInv, Counters, MadeTemps, MadeLabels
  <2>2. Linked(blocks, MadeLabels)'
    BY <1>8, <2>1 DEF irVars, IInv, Linked
  <2>3. Agenda' /\ Stack'
    BY <1>8 DEF irVars, IInv, Agenda, Stack
  <2> QED  BY <1>8, <2>1, <2>2, <2>3 DEF irVars, IInv
<1> QED
  BY <1>1, <1>2, <1>3, <1>4, <1>5, <1>6, <1>7, <1>8 DEF Next, Generate

LEMMA Inductive == Spec => []IInv /\ [][Quiet]_irVars
<1>1. Spec => []IInv
  BY InitInv, StepKeeps, PTL DEF Spec
<1>2. Spec => [][Quiet]_irVars
  BY <1>1, StepKeeps, PTL DEF Spec
<1> QED
  BY <1>1, <1>2, PTL

LEMMA WellTyped == IInv => TypeOK
<1> SUFFICES ASSUME IInv
             PROVE  TypeOK
  OBVIOUS
<1>1. \A o \in Operands : IsOperand(o)
  BY DEF Operands, IsOperand
<1>2. \A v \in ToSet(values) : IsOperand(v)
  <2>1. values \in Seq(Operands)
    BY DEF IInv, Stack
  <2> QED  BY <1>1, <2>1 DEF ToSet
<1>3. ASSUME NEW b \in DOMAIN blocks
      PROVE  /\ Exits(blocks[b]) \cup Targets(blocks[b]) \subseteq DOMAIN blocks
             /\ \A t \in ToSet(blocks[b].code) : t.op \in TacOps /\ IsOperand(t.lhs) /\ IsOperand(t.rhs)
  <2>1. blocks[b] \in Blocks /\ Exits(blocks[b]) \cup Targets(blocks[b]) \subseteq DOMAIN blocks
    BY DEF IInv, Linked
  <2>2. blocks[b].code \in Seq(Tacs)
    BY <2>1 DEF Blocks
  <2>3. \A t \in ToSet(blocks[b].code) : t \in Tacs
    BY <2>2 DEF ToSet
  <2>4. \A t \in Tacs : t.op \in TacOps /\ t.lhs \in Operands /\ t.rhs \in Operands
    BY DEF Tacs
  <2> QED  BY <1>1, <2>1, <2>3, <2>4
<1>4. UNION {temps[n] : n \in DOMAIN temps} = MadeTemps
  BY DEF IInv, Counters, AllOf
<1>5. DOMAIN blocks \subseteq MadeLabels
  BY DEF IInv, Linked
<1> QED
  BY <1>2, <1>3, <1>4, <1>5 DEF IInv, TypeOK

\* Whatever the programs are, every label, exit, jump and temporary of the graph
\* is one that CFG::newBlock or CFG::getTemporaryName has made, and every
\* operand the visitor holds or emits is one.
THEOREM TypeCorrect == Spec => []TypeOK
BY Inductive, WellTyped, PTL

\* Whatever the programs are, IRGenerationVisitor appends nothing to a block that
\* it has ended with a jump or a return.
THEOREM ClosedStays == Spec => ClosedStaysClosed
<1>1. Quiet => \A b \in DOMAIN blocks : EndsInJump(blocks[b]) => blocks'[b].code = blocks[b].code
  BY DEF Quiet
<1>2. [][Quiet]_irVars => ClosedStaysClosed
  BY <1>1, PTL DEF ClosedStaysClosed
<1> QED
  BY <1>2, Inductive, PTL

-----------------------------------------------------------------------------
(***************************************************************************)
(* The nodes below a node.                                                 *)
(***************************************************************************)
IsLevels(f, root, d) ==
  f = [e \in 0 .. d |-> IF e = 0 THEN {root} ELSE UNION {Children(n) : n \in f[e - 1]}]

LEMMA LevelsExist ==
  ASSUME NEW root
  PROVE  \A d \in Nat : \E f : IsLevels(f, root, d)
<1> DEFINE S == {d \in Nat : \E f : IsLevels(f, root, d)}
<1>1. 0 \in S
  <2>1. IsLevels([e \in 0 .. 0 |-> {root}], root, 0)
    BY DEF IsLevels
  <2> QED  BY <2>1
<1>2. ASSUME NEW d \in Nat, d \in S
      PROVE  d + 1 \in S
  <2>1. PICK f : IsLevels(f, root, d)
    BY <1>2
  <2> DEFINE g == [e \in 0 .. d + 1 |->
                     IF e = 0 THEN {root} ELSE UNION {Children(n) : n \in f[e - 1]}]
  <2>2. ASSUME NEW e \in 0 .. d
        PROVE  g[e] = f[e]
    <3>1. e \in 0 .. d + 1
      OBVIOUS
    <3>2. f[e] = IF e = 0 THEN {root} ELSE UNION {Children(n) : n \in f[e - 1]}
      BY <2>1, Zenon DEF IsLevels
    <3> QED  BY <3>1, <3>2, Zenon
  <2>3. g = [e \in 0 .. d + 1 |->
               IF e = 0 THEN {root} ELSE UNION {Children(n) : n \in f[e - 1]}]
    OBVIOUS
  <2> HIDE DEF g
  <2>4. ASSUME NEW e \in 0 .. d + 1, e # 0
        PROVE  g[e - 1] = f[e - 1]
    <3>1. e - 1 \in 0 .. d
      BY <2>4
    <3> QED  BY <2>2, <3>1
  <2>5. IsLevels(g, root, d + 1)
    BY <2>3, <2>4 DEF IsLevels
  <2> QED  BY <2>5
<1> HIDE DEF S
<1>3. Nat \subseteq S
  BY <1>1, <1>2, Induction
<1> QED  BY <1>3 DEF S

LEMMA LevelsOf ==
  ASSUME NEW root
  PROVE  \E f : IsLevels(f, root, MaxDepth) /\ AllNodes(root) = UNION {f[d] : d \in 0 .. MaxDepth}
<1> DEFINE f == CHOOSE f : IsLevels(f, root, MaxDepth)
<1>1. IsLevels(f, root, MaxDepth)
  BY LevelsExist, DepthAssumption
<1>2. AllNodes(root) = UNION {f[d] : d \in 0 .. MaxDepth}
  BY DEF AllNodes, IsLevels
<1> QED  BY <1>1, <1>2

\* A set that holds a node and the children of its members holds all nodes below.
LEMMA NodesBelow ==
  ASSUME NEW root, NEW S, root \in S, \A n \in S : Children(n) \subseteq S
  PROVE  AllNodes(root) \subseteq S
<1>1. PICK f : IsLevels(f, root, MaxDepth) /\ AllNodes(root) = UNION {f[d] : d \in 0 .. MaxDepth}
  BY LevelsOf
<1>2. MaxDepth \in Nat
  BY DepthAssumption
<1>3. /\ f[0] = {root}
      /\ \A d \in 0 .. MaxDepth : d # 0 => f[d] = UNION {Children(n) : n \in f[d - 1]}
  <2>1. 0 \in 0 .. MaxDepth
    BY <1>2
  <2>2. \A d \in 0 .. MaxDepth :
          f[d] = IF d = 0 THEN {root} ELSE UNION {Children(n) : n \in f[d - 1]}
    BY <1>1, Zenon DEF IsLevels
  <2> QED  BY <2>1, <2>2, Zenon
<1> DEFINE D == {d \in Nat : d <= MaxDepth => f[d] \subseteq S}
<1>4. 0 \in D
  BY <1>3
<1>5. ASSUME NEW d \in Nat, d \in D
      PROVE  d + 1 \in D
  <2> SUFFICES ASSUME d + 1 <= MaxDepth
               PROVE  f[d + 1] \subseteq S
    OBVIOUS
  <2>1. d + 1 \in 0 .. MaxDepth /\ (d + 1) - 1 = d /\ d + 1 # 0 /\ d <= MaxDepth
    BY <1>2
  <2>2. f[d] \subseteq S
    BY <1>5, <2>1
  <2>3. f[d + 1] = UNION {Children(n) : n \in f[d]}
    BY <1>3, <2>1
  <2> QED  BY <2>2, <2>3
<1> HIDE DEF D
<1>6. Nat \subseteq D
  BY <1>4, <1>5, Induction
<1>7. \A d \in 0 .. MaxDepth : f[d] \subseteq S
  BY <1>2, <1>6 DEF D
<1> QED  BY <1>1, <1>7

LEMMA RootIsNode ==
  ASSUME NEW root
  PROVE  root \in AllNodes(root)
<1>1. PICK f : IsLevels(f, root, MaxDepth) /\ AllNodes(root) = UNION {f[d] : d \in 0 .. MaxDepth}
  BY LevelsOf
<1>2. 0 \in 0 .. MaxDepth
  BY DepthAssumption
<1>3. f[0] = {root}
  BY <1>1, <1>2 DEF IsLevels
<1> QED  BY <1>1, <1>2, <1>3

Work == Inner \cup Returns \cup Bodies

LEMMA NodesWithin ==
  ASSUME NEW root \in Work, NEW k \in DOMAIN root.kids
  PROVE  AllNodes(root.kids[k]) \subseteq AllNodes(root)
<1>1. \A n \in AllNodes(root) : Children(n) \subseteq AllNodes(root)
  BY DepthAssumption DEF Work
<1>2. root \in AllNodes(root)
  BY RootIsNode
<1>3. root.kids[k] \in AllNodes(root)
  BY <1>1, <1>2 DEF Children
<1> QED  BY <1>1, <1>3, NodesBelow

\* A tree without && and ||.
Connectiveless(n) == \A k \in AllNodes(n) : k.kind \notin ShortCircuit

LEMMA NestedWithin ==
  ASSUME NEW root \in Work, NEW k \in DOMAIN root.kids
  PROVE  /\ ~RightNested(root) => ~RightNested(root.kids[k])
         /\ Connectiveless(root) => Connectiveless(root.kids[k])
BY NodesWithin DEF RightNested, Connectiveless

LEMMA RightIsConnectiveless ==
  ASSUME NEW root \in Work, root.kind \in ShortCircuit, ~RightNested(root)
  PROVE  Connectiveless(root.kids[2])
BY RootIsNode DEF RightNested, Connectiveless

\* What is evaluated or done for an expression without && and ||.
Simple(t) == t.node.kind \in Expressions /\ Connectiveless(t.node)

-----------------------------------------------------------------------------
(***************************************************************************)
(* The jumps of a block, and its exits.                                    *)
(***************************************************************************)
Jumps(code) == {t \in ToSet(code) : t.op \in {"JMP", "CJMP"}}

Named(jumps) == {t.res : t \in {t \in jumps : t.op = "JMP"}}
                  \cup {t.rhs.name : t \in {t \in jumps : t.op = "CJMP"}}

\* The block has these jumps and these exits.
Has(block, jumps, t, f) ==
  Jumps(block.code) = jumps /\ block.trueExit = t /\ block.falseExit = f

LEMMA TargetsAre ==
  ASSUME NEW block, NEW jumps, NEW t, NEW f, Has(block, jumps, t, f)
  PROVE  /\ Targets(block) = Named(jumps)
         /\ (\A u \in ToSet(block.code) : u.op = "CJMP" => f = u.rhs.name)
              <=> (\A u \in jumps : u.op = "CJMP" => f = u.rhs.name)
<1>1. jumps = Jumps(block.code)
  BY DEF Has
<1>2. {u \in ToSet(block.code) : u.op = "JMP"} = {u \in jumps : u.op = "JMP"}
  BY <1>1 DEF Jumps
<1>3. {u \in ToSet(block.code) : u.op = "CJMP"} = {u \in jumps : u.op = "CJMP"}
  BY <1>1 DEF Jumps
<1>4. Targets(block) = Named(jumps)
  BY <1>2, <1>3 DEF Targets, Named
<1>5. \A u : u \in ToSet(block.code) /\ u.op = "CJMP" <=> u \in jumps /\ u.op = "CJMP"
  BY <1>3
<1> QED  BY <1>4, <1>5

LEMMA NoJumps ==
  ASSUME NEW block, NEW t, NEW f, Has(block, {}, t, f)
  PROVE  Targets(block) = {} /\ (t = NoBlock /\ f = NoBlock => ExitsFollowCode(block))
<1>1. Targets(block) = Named({})
  BY TargetsAre
<1>2. Named({}) = {}
  BY DEF Named
<1>3. \A u \in ToSet(block.code) : u.op # "CJMP"
  BY DEF Has, Jumps
<1>4. t = NoBlock /\ f = NoBlock => Exits(block) = {}
  BY DEF Has, Exits
<1> QED  BY <1>1, <1>2, <1>3, <1>4 DEF ExitsFollowCode

LEMMA OneJump ==
  ASSUME NEW block, NEW x \in Texts, x # NoBlock, Has(block, {Jump(x)}, x, NoBlock)
  PROVE  Targets(block) = {x} /\ ExitsFollowCode(block)
<1>1. Jump(x).op = "JMP" /\ Jump(x).res = x
  BY DEF Jump, Tac3
<1>2. Named({Jump(x)}) = {x}
  BY <1>1 DEF Named
<1>3. Exits(block) = {x}
  BY DEF Has, Exits
<1>4. \A u \in {Jump(x)} : u.op = "CJMP" => NoBlock = u.rhs.name
  BY <1>1
<1>5. Targets(block) = {x} /\ \A u \in ToSet(block.code) : u.op = "CJMP" => NoBlock = u.rhs.name
  BY <1>2, <1>4, TargetsAre
<1>6. block.falseExit = NoBlock
  BY DEF Has
<1> QED  BY <1>3, <1>5, <1>6 DEF ExitsFollowCode

\* What the block does is to go on at x or y, at y if the condition fails.
Forks(block, x, y) ==
  Targets(block) = {x, y} /\ \A u \in ToSet(block.code) : u.op = "CJMP" => y = u.rhs.name

LEMMA TwoTargets ==
  ASSUME NEW block, NEW x, NEW y, NEW c, NEW t, NEW f,
         Has(block, {CondJump(y, c), Jump(x)}, t, f)
  PROVE  Forks(block, x, y)
<1> DEFINE p == CondJump(y, c)
           q == Jump(x)
<1>1. q.op = "JMP" /\ q.res = x /\ p.op = "CJMP" /\ p.rhs.name = y
  BY DEF Jump, CondJump, Tac3, Name
<1> HIDE DEF p, q
<1>2. Named({p, q}) = {x, y}
  <2>1. {u \in {p, q} : u.op = "JMP"} = {q} /\ {u \in {p, q} : u.op = "CJMP"} = {p}
    BY <1>1
  <2> QED  BY <1>1, <2>1 DEF Named
<1>3. Has(block, {p, q}, t, f)
  BY DEF p, q
<1>4. Targets(block) = {x, y}
  BY <1>2, <1>3, TargetsAre
<1>5. \A u \in ToSet(block.code) : u.op = "CJMP" => u \in {p, q}
  BY <1>3 DEF Has, Jumps
<1>6. \A u \in ToSet(block.code) : u.op = "CJMP" => y = u.rhs.name
  BY <1>1, <1>5
<1> QED  BY <1>4, <1>6 DEF Forks

LEMMA TwoExits ==
  ASSUME NEW block, NEW x, NEW y, x # NoBlock, y # NoBlock, Forks(block, x, y),
         block.trueExit = x, block.falseExit = y
  PROVE  ExitsFollowCode(block)
BY DEF Forks, ExitsFollowCode, Exits

LEMMA JumpsConcat ==
  ASSUME NEW code \in Seq(Tacs), NEW more \in Seq(Tacs)
  PROVE  Jumps(code \o more) = Jumps(code) \cup Jumps(more)
<1> DEFINE a == Len(code)
           z == Len(more)
           all == code \o more
<1>1. a \in Nat /\ z \in Nat /\ DOMAIN code = 1 .. a /\ DOMAIN more = 1 .. z
  OBVIOUS
<1>2. /\ Len(all) = a + z /\ DOMAIN all = 1 .. a + z
      /\ \A i \in 1 .. a + z : all[i] = IF i <= a THEN code[i] ELSE more[i - a]
  BY <1>1, ConcatProperties
<1> HIDE DEF a, z, all
<1>3. ASSUME NEW i \in 1 .. a + z
      PROVE  all[i] \in ToSet(code) \cup ToSet(more)
  <2>1. CASE i <= a
    BY <1>1, <1>2, <2>1, SMTT(30) DEF ToSet
  <2>2. CASE ~(i <= a)
    <3>1. i - a \in 1 .. z
      BY <1>1, <2>2
    <3> QED  BY <1>1, <1>2, <2>2, <3>1 DEF ToSet
  <2> QED  BY <2>1, <2>2
<1>4. ASSUME NEW i \in 1 .. a
      PROVE  code[i] \in ToSet(all)
  <2>1. i \in 1 .. a + z /\ i <= a
    BY <1>1
  <2> QED  BY <1>2, <2>1 DEF ToSet
<1>5. ASSUME NEW i \in 1 .. z
      PROVE  more[i] \in ToSet(all)
  <2>1. a + i \in 1 .. a + z /\ ~(a + i <= a) /\ (a + i) - a = i
    BY <1>1
  <2> QED  BY <1>2, <2>1 DEF ToSet
<1>6. ToSet(all) = ToSet(code) \cup ToSet(more)
  BY <1>1, <1>2, <1>3, <1>4, <1>5, Zenon DEF ToSet
<1> QED  BY <1>6 DEF Jumps, all

-----------------------------------------------------------------------------
(***************************************************************************)
(* What becomes of a block that is filled.                                 *)
(***************************************************************************)
\* Only the block l is another one.
OnlyAt(bs, l, new) ==
  DOMAIN new = DOMAIN bs /\ AllSound(new) /\ \A b \in DOMAIN bs \ {l} : new[b] = bs[b]

LEMMA OnlyAtTwice ==
  ASSUME NEW bs, NEW l, NEW mid, NEW new, OnlyAt(bs, l, mid), OnlyAt(mid, l, new)
  PROVE  OnlyAt(bs, l, new)
BY DEF OnlyAt

LEMMA CodeAdded ==
  ASSUME NEW bs, AllSound(bs), NEW l \in DOMAIN bs, NEW code, Accept(code, DOMAIN bs),
         NEW jumps, NEW t, NEW f, Has(bs[l], jumps, t, f)
  PROVE  LET new == WithCode(bs, l, code) IN
         OnlyAt(bs, l, new) /\ Has(new[l], jumps \cup Jumps(code), t, f)
<1> DEFINE new == WithCode(bs, l, code)
           all == bs[l].code \o code
<1>1. OnlyAt(bs, l, new)
  BY WithCodeIs DEF OnlyAt
<1>2. bs[l] \in Blocks /\ bs[l].code \in Seq(Tacs) /\ code \in Seq(Tacs)
  BY DEF AllSound, Sound, Accept
<1>3. Jumps(all) = Jumps(bs[l].code) \cup Jumps(code)
  BY <1>2, JumpsConcat
<1>4. new[l] = [bs[l] EXCEPT !.code = all]
  BY DEF WithCode
<1> HIDE DEF new, all
<1>5. new[l].code = all /\ new[l].trueExit = bs[l].trueExit /\ new[l].falseExit = bs[l].falseExit
  BY <1>2, <1>4 DEF Blocks
<1>6. Has(new[l], jumps \cup Jumps(code), t, f)
  BY <1>3, <1>5 DEF Has
<1> QED  BY <1>1, <1>6 DEF new

LEMMA ExitsSet ==
  ASSUME NEW bs, AllSound(bs), NEW l \in DOMAIN bs, NEW x \in Texts \cap DOMAIN bs,
         NEW y \in Texts \cap DOMAIN bs, NEW jumps, NEW t, NEW f, Has(bs[l], jumps, t, f)
  PROVE  /\ LET new == WithExits(bs, l, x, y) IN
            OnlyAt(bs, l, new) /\ Has(new[l], jumps, x, y) /\ new[l].code = bs[l].code
         /\ LET new == WithTrueExit(bs, l, x) IN
            OnlyAt(bs, l, new) /\ Has(new[l], jumps, x, f) /\ new[l].code = bs[l].code
<1> DEFINE one == WithExits(bs, l, x, y)
           two == WithTrueExit(bs, l, x)
<1>1. DOMAIN one = DOMAIN bs /\ AllSound(one) /\ DOMAIN two = DOMAIN bs /\ AllSound(two)
  BY WithExitsIs
<1>2. bs[l] \in Blocks
  BY DEF AllSound, Sound
<1>3. /\ \A b \in DOMAIN bs \ {l} : one[b] = bs[b]
      /\ one[l] = [bs[l] EXCEPT !.trueExit = x, !.falseExit = y]
  BY DEF WithExits
<1>4. /\ \A b \in DOMAIN bs \ {l} : two[b] = bs[b]
      /\ two[l] = [bs[l] EXCEPT !.trueExit = x]
  BY DEF WithTrueExit
<1> HIDE DEF one, two
<1>5. one[l].code = bs[l].code /\ one[l].trueExit = x /\ one[l].falseExit = y
  BY <1>2, <1>3 DEF Blocks
<1>6. two[l].code = bs[l].code /\ two[l].trueExit = x /\ two[l].falseExit = bs[l].falseExit
  BY <1>2, <1>4 DEF Blocks
<1>7. Has(one[l], jumps, x, y) /\ Has(two[l], jumps, x, f)
  BY <1>5, <1>6 DEF Has
<1>8. OnlyAt(bs, l, one) /\ OnlyAt(bs, l, two)
  BY <1>1, <1>3, <1>4 DEF OnlyAt
<1> QED  BY <1>5, <1>6, <1>7, <1>8 DEF one, two

LEMMA TrueExitSet ==
  ASSUME NEW bs, AllSound(bs), NEW l \in DOMAIN bs, NEW x \in Texts \cap DOMAIN bs,
         NEW jumps, NEW t, NEW f, Has(bs[l], jumps, t, f)
  PROVE  LET new == WithTrueExit(bs, l, x) IN
         OnlyAt(bs, l, new) /\ Has(new[l], jumps, x, f) /\ new[l].code = bs[l].code
BY ExitsSet

LEMMA JumpTypes ==
  ASSUME NEW x \in Texts, NEW y \in Texts, NEW c \in Operands, NEW labels, x \in labels, y \in labels
  PROVE  /\ Accept(<<Jump(x)>>, labels) /\ Jumps(<<Jump(x)>>) = {Jump(x)}
         /\ Last(<<Jump(x)>>).op \in Ends
         /\ Accept(<<CondJump(y, c), Jump(x)>>, labels)
         /\ Jumps(<<CondJump(y, c), Jump(x)>>) = {CondJump(y, c), Jump(x)}
         /\ Last(<<CondJump(y, c), Jump(x)>>).op \in Ends
<1> DEFINE p == CondJump(y, c)
           q == Jump(x)
<1>1. p \in Tacs /\ p.op = "CJMP" /\ p.rhs.name = y /\ q \in Tacs /\ q.op = "JMP" /\ q.res = x
  <2>1. None \in Operands /\ "JMP" \in TacOps
    BY OperandTypes DEF TacOps
  <2> QED  BY <2>1, TacTypes
<1> HIDE DEF p, q
<1>2. Accept(<<q>>, labels) /\ Accept(<<p, q>>, labels)
  BY <1>1 DEF Accept
<1>3. Last(<<q>>) = q /\ Last(<<p, q>>) = q
  BY DEF Last
<1>4. ToSet(<<q>>) = {q} /\ ToSet(<<p, q>>) = {p, q}
  <2>1. DOMAIN <<q>> = {1} /\ DOMAIN <<p, q>> = {1, 2}
    OBVIOUS
  <2> QED  BY <2>1 DEF ToSet
<1>5. Jumps(<<q>>) = {q} /\ Jumps(<<p, q>>) = {p, q}
  BY <1>1, <1>4 DEF Jumps
<1> QED  BY <1>1, <1>2, <1>3, <1>5 DEF Ends, p, q

LEMMA ClosedHas ==
  ASSUME NEW bs, AllSound(bs), NEW l \in DOMAIN bs, NEW x \in Texts \cap DOMAIN bs,
         NEW jumps, NEW t, NEW f, Has(bs[l], jumps, t, f)
  PROVE  LET new == Closed(bs, l, x) IN
         OnlyAt(bs, l, new) /\ Has(new[l], jumps \cup {Jump(x)}, x, f) /\ EndsInJump(new[l])
<1> DEFINE code == <<Jump(x)>>
           mid == WithCode(bs, l, code)
           new == WithTrueExit(mid, l, x)
<1>1. Accept(code, DOMAIN bs) /\ Jumps(code) = {Jump(x)} /\ Last(code).op \in Ends /\ code # <<>>
  BY OperandTypes, JumpTypes
<1> HIDE DEF code
<1>2. OnlyAt(bs, l, mid) /\ Has(mid[l], jumps \cup {Jump(x)}, t, f)
  BY <1>1, CodeAdded
<1>3. EndsInJump(mid[l])
  BY <1>1, WithCodeIs
<1> HIDE DEF mid
<1>4. AllSound(mid) /\ DOMAIN mid = DOMAIN bs
  BY <1>2 DEF OnlyAt
<1>5. OnlyAt(mid, l, new) /\ Has(new[l], jumps \cup {Jump(x)}, x, f) /\ new[l].code = mid[l].code
  BY <1>2, <1>4, TrueExitSet
<1>6. EndsInJump(new[l])
  BY <1>3, <1>5 DEF EndsInJump
<1>7. OnlyAt(bs, l, new)
  BY <1>2, <1>5, OnlyAtTwice
<1>8. new = Closed(bs, l, x)
  BY DEF new, mid, code, Closed
<1> HIDE DEF new
<1> QED  BY <1>5, <1>6, <1>7, <1>8

LEMMA DecidedHas ==
  ASSUME NEW bs, AllSound(bs), NEW l \in DOMAIN bs, NEW x \in Texts \cap DOMAIN bs, NEW n \in Int,
         task.name \in Texts, NEW jumps, NEW t, NEW f, Has(bs[l], jumps, t, f)
  PROVE  LET new == Decided(bs, l, n, x) IN
         OnlyAt(bs, l, new) /\ Has(new[l], jumps \cup {Jump(x)}, x, f) /\ EndsInJump(new[l])
<1> DEFINE tac == Copy(Imm(n), task.name)
           code == <<tac>>
           mid == WithCode(bs, l, code)
           new == Closed(mid, l, x)
<1>1. tac \in Tacs /\ tac.op = "COPY"
  <2>1. "COPY" \in TacOps /\ Imm(n) \in Operands
    BY OperandTypes DEF TacOps, Defines
  <2> QED  BY <2>1, TacTypes
<1> HIDE DEF tac
<1>2. Accept(code, DOMAIN bs) /\ Jumps(code) = {}
  <2>1. Accept(code, DOMAIN bs)
    BY <1>1 DEF Accept
  <2>2. ToSet(code) = {tac}
    <3>1. DOMAIN code = {1}
      OBVIOUS
    <3> QED  BY <3>1 DEF ToSet
  <2> QED  BY <1>1, <2>1, <2>2 DEF Jumps
<1> HIDE DEF code
<1>3. OnlyAt(bs, l, mid) /\ Has(mid[l], jumps \cup {}, t, f)
  BY <1>2, CodeAdded
<1> HIDE DEF mid
<1>4. AllSound(mid) /\ DOMAIN mid = DOMAIN bs /\ Has(mid[l], jumps, t, f)
  BY <1>3 DEF OnlyAt
<1>5. OnlyAt(mid, l, new) /\ Has(new[l], jumps \cup {Jump(x)}, x, f) /\ EndsInJump(new[l])
  BY <1>4, ClosedHas
<1>6. OnlyAt(bs, l, new)
  BY <1>3, <1>5, OnlyAtTwice
<1>7. new = Decided(bs, l, n, x)
  BY DEF new, mid, code, tac, Decided
<1> HIDE DEF new
<1> QED  BY <1>5, <1>6, <1>7

LEMMA PartedHas ==
  ASSUME NEW bs, AllSound(bs), NEW l \in DOMAIN bs, NEW c \in Operands,
         NEW x \in Texts \cap DOMAIN bs, NEW y \in Texts \cap DOMAIN bs,
         NEW t, NEW f, Has(bs[l], {}, t, f)
  PROVE  /\ LET new == WithCode(bs, l, <<CondJump(y, c), Jump(x)>>) IN
            OnlyAt(bs, l, new) /\ Has(new[l], {CondJump(y, c), Jump(x)}, t, f) /\ EndsInJump(new[l])
         /\ LET new == WithExits(WithCode(bs, l, <<CondJump(y, c), Jump(x)>>), l, x, y) IN
            OnlyAt(bs, l, new) /\ Has(new[l], {CondJump(y, c), Jump(x)}, x, y) /\ EndsInJump(new[l])
<1> DEFINE code == <<CondJump(y, c), Jump(x)>>
           both == {CondJump(y, c), Jump(x)}
           mid == WithCode(bs, l, code)
           new == WithExits(mid, l, x, y)
<1>1. Accept(code, DOMAIN bs) /\ Jumps(code) = both /\ Last(code).op \in Ends /\ code # <<>>
  BY JumpTypes
<1> HIDE DEF code, both
<1>2. OnlyAt(bs, l, mid) /\ Has(mid[l], {} \cup both, t, f)
  BY <1>1, CodeAdded
<1>3. EndsInJump(mid[l])
  BY <1>1, WithCodeIs
<1> HIDE DEF mid
<1>4. AllSound(mid) /\ DOMAIN mid = DOMAIN bs /\ Has(mid[l], both, t, f)
  BY <1>2 DEF OnlyAt
<1>5. OnlyAt(mid, l, new) /\ Has(new[l], both, x, y) /\ new[l].code = mid[l].code
  BY <1>4, ExitsSet
<1>6. EndsInJump(new[l])
  BY <1>3, <1>5 DEF EndsInJump
<1>7. OnlyAt(bs, l, new)
  BY <1>2, <1>5, OnlyAtTwice
<1> HIDE DEF new
<1> QED  BY <1>2, <1>3, <1>4, <1>5, <1>6, <1>7 DEF new, mid, code, both

-----------------------------------------------------------------------------
(***************************************************************************)
(* The agenda when tasks take the place of the first one.                  *)
(***************************************************************************)
\* What was below s[1] is below all.
From(s, all, tasks) ==
  /\ \A j \in DOMAIN all : \/ j \in DOMAIN tasks /\ all[j] = tasks[j]
                           \/ j \notin DOMAIN tasks /\ \E i \in DOMAIN s : i > 1 /\ all[j] = s[i]
  /\ \A j \in DOMAIN tasks : \E i \in DOMAIN all : all[i] = tasks[j]
  /\ \A j \in DOMAIN s : j # 1 => \E i \in DOMAIN all : all[i] = s[j]

LEMMA Follows ==
  ASSUME NEW s \in Seq(Tasks), s # <<>>, NEW tasks \in Seq(Tasks)
  PROVE  LET all == tasks \o Tail(s) IN
         /\ From(s, all, tasks)
         /\ \A i, j \in DOMAIN all : i < j =>
              \/ i \in DOMAIN tasks
              \/ \E k, l \in DOMAIN s : k < l /\ all[i] = s[k] /\ all[j] = s[l]
<1> DEFINE all == tasks \o Tail(s)
           rest == Tail(s)
           a == Len(tasks)
           b == Len(s)
<1>1. /\ a \in Nat /\ b \in Nat /\ b >= 1 /\ DOMAIN tasks = 1 .. a /\ DOMAIN s = 1 .. b
      /\ rest \in Seq(Tasks) /\ Len(rest) = b - 1 /\ \A i \in 1 .. b - 1 : rest[i] = s[i + 1]
  BY HeadTailProperties
<1>2. /\ DOMAIN all = 1 .. a + (b - 1)
      /\ \A i \in 1 .. a + (b - 1) : all[i] = IF i <= a THEN tasks[i] ELSE rest[i - a]
  BY <1>1, ConcatProperties
<1> HIDE DEF all, rest, a, b
<1>3. ASSUME NEW j \in DOMAIN all, j \notin DOMAIN tasks
      PROVE  j > a /\ (j - a) + 1 \in DOMAIN s /\ (j - a) + 1 > 1 /\ all[j] = s[(j - a) + 1]
  <2>1. j \in 1 .. a + (b - 1) /\ ~(j <= a) /\ j - a \in 1 .. b - 1
    BY <1>1, <1>2, <1>3
  <2>2. all[j] = rest[j - a]
    BY <1>2, <2>1
  <2> QED  BY <1>1, <2>1, <2>2
<1>4. ASSUME NEW j \in DOMAIN tasks
      PROVE  j \in DOMAIN all /\ all[j] = tasks[j]
  <2>1. j \in 1 .. a + (b - 1) /\ j <= a
    BY <1>1
  <2> QED  BY <1>2, <2>1
<1>5. ASSUME NEW j \in DOMAIN s, j # 1
      PROVE  \E i \in DOMAIN all : all[i] = s[j]
  <2> DEFINE i == a + (j - 1)
  <2>1. i \in 1 .. a + (b - 1) /\ ~(i <= a) /\ i - a = j - 1 /\ j - 1 \in 1 .. b - 1 /\ (j - 1) + 1 = j
    BY <1>1, <1>5
  <2>2. all[i] = rest[j - 1]
    BY <1>2, <2>1
  <2>3. rest[j - 1] = s[j]
    BY <1>1, <2>1
  <2> HIDE DEF i
  <2> QED  BY <1>2, <2>1, <2>2, <2>3
<1>6. From(s, all, tasks)
  <2>1. \A j \in DOMAIN all : \/ j \in DOMAIN tasks /\ all[j] = tasks[j]
                              \/ j \notin DOMAIN tasks /\ \E i \in DOMAIN s : i > 1 /\ all[j] = s[i]
    BY <1>3, <1>4
  <2> QED  BY <1>4, <1>5, <2>1 DEF From
<1>7. ASSUME NEW i \in DOMAIN all, NEW j \in DOMAIN all, i < j, i \notin DOMAIN tasks
      PROVE  \E k, l \in DOMAIN s : k < l /\ all[i] = s[k] /\ all[j] = s[l]
  <2>1. i > a /\ i \in 1 .. a + (b - 1) /\ j \in 1 .. a + (b - 1)
    BY <1>2, <1>3, <1>7
  <2>2. j \notin DOMAIN tasks /\ (i - a) + 1 < (j - a) + 1
    BY <1>1, <1>7, <2>1
  <2> QED  BY <1>3, <1>7, <2>2
<1> QED  BY <1>6, <1>7 DEF all

-----------------------------------------------------------------------------
(***************************************************************************)
(* The invariant.                                                          *)
(***************************************************************************)
\* The loop whose condition ends in this block has still to end.
Awaited(tasks, l) == \E i \in DOMAIN tasks : tasks[i].do = "loop end" /\ tasks[i].labels[4] = l

\* The block has got its exit before its code: it starts the body of a loop.
Looping(tasks, current, l) ==
  \E i \in DOMAIN tasks : \/ tasks[i].do = "loop body" /\ tasks[i].labels[2] = l
                          \/ tasks[i].do = "loop end" /\ l = current

Blank(block) == Jumps(block.code) = {} /\ block.falseExit = NoBlock

\* The exits of the block are right, or will be.
Coherent(bs, tasks, current, l) ==
  IF EndsInJump(bs[l])
  THEN ExitsFollowCode(bs[l]) \/ Awaited(tasks, l)
  ELSE Blank(bs[l]) /\ (bs[l].trueExit = NoBlock \/ Looping(tasks, current, l))

\* A task of a method that fills the blocks S.
Fits(t, S, bs, current) ==
  ~IsMethod(t) =>
    /\ ToSet(t.labels) \subseteq S
    /\ ~RightNested(t.node)
    /\ t.do = "merge" => t.labels[1] = current
    /\ t.do = "loop end" =>
         EndsInJump(bs[t.labels[4]]) /\ Forks(bs[t.labels[4]], t.labels[2], t.labels[3])

\* Until the right operand is merged the visitor stays in one block.
Straight(tasks) ==
  \A i, j \in DOMAIN tasks : i < j /\ tasks[j].do = "merge" => Simple(tasks[i])

\* S holds the blocks of the method n, which is being visited or is not.
Visited(S, bs, tasks, current) ==
  /\ current \in S
  /\ \A i \in DOMAIN tasks : Fits(tasks[i], S, bs, current)
  /\ Straight(tasks)
  /\ \A l \in S : Coherent(bs, tasks, current, l)

Left(S, bs, tasks, current) ==
  /\ current \notin S
  /\ \A i \in DOMAIN tasks : ToSet(tasks[i].labels) \cap S = {}
  /\ \A l \in S : Coherent(bs, <<>>, NoBlock, l)

Region(S, n) ==
  /\ S \subseteq DOMAIN blocks /\ (n \in DOMAIN blocks => n \in S)
  /\ \A l \in S : Targets(blocks[l]) \subseteq S
  /\ IF scope = n THEN Visited(S, blocks, agenda, currentBlock)
                  ELSE Left(S, blocks, agenda, currentBlock)

NotNested(n) == \A k \in DOMAIN source : source[k].name = n => ~RightNested(source[k].body)

Regions == \A n \in DOMAIN temps : NotNested(n) => \E S : Region(S, n)

Pending ==
  \A i \in DOMAIN agenda : IsMethod(agenda[i]) => \E k \in DOMAIN source : agenda[i].node = MethodNode(source[k])

Begun ==
  \A n \in DOMAIN temps : \/ n \in DOMAIN blocks
                          \/ \E i \in DOMAIN agenda : IsMethod(agenda[i]) /\ agenda[i].node.text = n

Partition == Regions /\ Pending /\ Begun

-----------------------------------------------------------------------------
(***************************************************************************)
(* A step within a method: tasks take the place of the first, blocks are   *)
(* added, and of the blocks only some are touched.                         *)
(***************************************************************************)
Confined(tasks, fresh, touched) ==
  /\ agenda # <<>> /\ ~IsMethod(task)
  /\ tasks \in Seq(Tasks) /\ agenda' = tasks \o Tail(agenda)
  /\ UNCHANGED <<source, scope>> /\ DOMAIN temps' = DOMAIN temps
  /\ DOMAIN blocks' = DOMAIN blocks \cup fresh /\ fresh \cap (DOMAIN blocks \cup DOMAIN temps) = {}
  /\ \A b \in DOMAIN blocks \ touched : blocks'[b] = blocks[b]
  /\ touched \subseteq {currentBlock} \cup ToSet(task.labels)
  /\ currentBlock' \in {currentBlock} \cup ToSet(task.labels) \cup fresh
  /\ \A i \in DOMAIN tasks :
       /\ ~IsMethod(tasks[i])
       /\ ToSet(tasks[i].labels) \subseteq {currentBlock} \cup ToSet(task.labels) \cup fresh

\* What the step owes to the blocks S of the method it is in.
Keeps(S, tasks, fresh, touched) ==
  /\ currentBlock \in touched
  /\ task.do = "loop body" => task.labels[2] \in touched
  /\ task.do = "loop end" => task.labels[4] \in touched
  /\ \A l \in touched \cup fresh : /\ Targets(blocks'[l]) \subseteq S \cup fresh
                                   /\ Coherent(blocks', agenda', currentBlock', l)
  /\ \A i \in DOMAIN tasks : Fits(tasks[i], S \cup fresh, blocks', currentBlock')
  /\ Straight(tasks)
  /\ Simple(task) => \A i \in DOMAIN tasks : Simple(tasks[i])
  /\ currentBlock' = currentBlock \/ ~Simple(task)

Moves(tasks, fresh, touched) ==
  /\ Confined(tasks, fresh, touched)
  /\ \A S : S \subseteq DOMAIN blocks /\ Visited(S, blocks, agenda, currentBlock)
              => Keeps(S, tasks, fresh, touched)

LEMMA AfterStep ==
  ASSUME agenda \in Seq(Tasks), NEW tasks, NEW fresh, NEW touched, Confined(tasks, fresh, touched)
  PROVE  /\ From(agenda, agenda', tasks)
         /\ \A i, j \in DOMAIN agenda' : i < j =>
              \/ i \in DOMAIN tasks
              \/ \E k, l \in DOMAIN agenda : k < l /\ agenda'[i] = agenda[k] /\ agenda'[j] = agenda[l]
         /\ task = agenda[1] /\ 1 \in DOMAIN agenda /\ DOMAIN agenda \subseteq Nat
<1>1. agenda # <<>> /\ tasks \in Seq(Tasks) /\ agenda' = tasks \o Tail(agenda)
  BY DEF Confined
<1>2. task = agenda[1] /\ 1 \in DOMAIN agenda /\ DOMAIN agenda \subseteq Nat
  BY <1>1 DEF task
<1> DEFINE all == tasks \o Tail(agenda)
<1>3. /\ From(agenda, all, tasks)
      /\ \A i, j \in DOMAIN all : i < j =>
           \/ i \in DOMAIN tasks
           \/ \E k, l \in DOMAIN agenda : k < l /\ all[i] = agenda[k] /\ all[j] = agenda[l]
  BY <1>1, Follows, Zenon
<1>4. agenda' = all
  BY <1>1
<1> HIDE DEF all
<1> QED  BY <1>2, <1>3, <1>4

LEMMA Elsewhere ==
  ASSUME agenda \in Seq(Tasks), NEW tasks, NEW fresh, NEW touched, Confined(tasks, fresh, touched),
         NEW n \in DOMAIN temps, scope # n, NEW S, Region(S, n)
  PROVE  Region(S, n)'
<1>1. Left(S, blocks, agenda, currentBlock)
  BY DEF Region
<1>2. /\ task = agenda[1] /\ 1 \in DOMAIN agenda /\ From(agenda, agenda', tasks)
  BY AfterStep
<1>3. ToSet(task.labels) \cap S = {} /\ currentBlock \notin S
  BY <1>1, <1>2 DEF Left
<1>4. S \subseteq DOMAIN blocks /\ S \cap touched = {} /\ S \cap fresh = {}
  BY <1>3 DEF Region, Confined
<1>5. \A l \in S : blocks'[l] = blocks[l]
  BY <1>4 DEF Confined
<1>6. currentBlock' \notin S
  BY <1>3, <1>4 DEF Confined
<1>7. ASSUME NEW j \in DOMAIN agenda'
      PROVE  ToSet(agenda'[j].labels) \cap S = {}
  <2>1. CASE j \in DOMAIN tasks /\ agenda'[j] = tasks[j]
    <3>1. ToSet(tasks[j].labels) \subseteq {currentBlock} \cup ToSet(task.labels) \cup fresh
      BY <2>1 DEF Confined
    <3> QED  BY <1>3, <1>4, <2>1, <3>1
  <2>2. CASE \E i \in DOMAIN agenda : i > 1 /\ agenda'[j] = agenda[i]
    BY <1>1, <2>2 DEF Left
  <2> QED  BY <1>2, <2>1, <2>2 DEF From
<1>8. ASSUME NEW l \in S
      PROVE  Coherent(blocks', <<>>, NoBlock, l) /\ Targets(blocks'[l]) \subseteq S
  <2>1. Coherent(blocks, <<>>, NoBlock, l) /\ Targets(blocks[l]) \subseteq S
    BY <1>1 DEF Left, Region
  <2>2. blocks'[l] = blocks[l]
    BY <1>5
  <2> QED  BY <2>1, <2>2 DEF Coherent
<1>9. Left(S, blocks', agenda', currentBlock')
  BY <1>6, <1>7, <1>8 DEF Left
<1>10. S \subseteq DOMAIN blocks' /\ (n \in DOMAIN blocks' => n \in S) /\ scope' # n
  BY <1>4 DEF Confined, Region
<1> QED  BY <1>8, <1>9, <1>10 DEF Region

LEMMA StillFits ==
  ASSUME NEW t \in Tasks, NEW S, S \subseteq DOMAIN blocks, NEW fresh, Fits(t, S, blocks, currentBlock),
         Shaped(t), Quiet, DOMAIN blocks \subseteq DOMAIN blocks',
         t.do = "merge" => currentBlock' = currentBlock
  PROVE  Fits(t, S \cup fresh, blocks', currentBlock')
<1> SUFFICES ASSUME ~IsMethod(t)
             PROVE  Fits(t, S \cup fresh, blocks', currentBlock')
  BY DEF Fits
<1> DEFINE a == blocks[t.labels[4]]
           b == blocks'[t.labels[4]]
<1>1. t.do = "loop end" => EndsInJump(a) /\ Forks(a, t.labels[2], t.labels[3])
  BY DEF Fits
<1>2. ASSUME t.do = "loop end"
      PROVE  b.code = a.code
  <2>1. Len(t.labels) = 4 /\ t.labels \in Seq(Texts)
    BY <1>2 DEF Shaped, Tasks
  <2>2. t.labels[4] \in ToSet(t.labels)
    BY <2>1 DEF ToSet
  <2>3. t.labels[4] \in DOMAIN blocks
    BY <2>2 DEF Fits
  <2> QED  BY <1>1, <1>2, <2>3 DEF Quiet
<1> HIDE DEF a, b
<1>3. t.do = "loop end" => EndsInJump(b) /\ Forks(b, t.labels[2], t.labels[3])
  BY <1>1, <1>2 DEF EndsInJump, Forks, Targets
<1> QED  BY <1>3 DEF Fits, b

LEMMA Here ==
  ASSUME IInv, Quiet, NEW tasks, NEW fresh, NEW touched, Moves(tasks, fresh, touched),
         NEW n \in DOMAIN temps, scope = n, NEW S, Region(S, n)
  PROVE  Region(S \cup fresh, n)'
<1> DEFINE R == S \cup fresh
<1>1. Visited(S, blocks, agenda, currentBlock) /\ S \subseteq DOMAIN blocks
  BY DEF Region
<1>2. Keeps(S, tasks, fresh, touched) /\ Confined(tasks, fresh, touched)
  BY <1>1 DEF Moves
<1>3. agenda \in Seq(Tasks) /\ \A i \in DOMAIN agenda : agenda[i] \in Tasks /\ Shaped(agenda[i])
  BY DEF IInv, Agenda, Ready
<1>4. /\ From(agenda, agenda', tasks) /\ task = agenda[1] /\ 1 \in DOMAIN agenda
      /\ DOMAIN agenda \subseteq Nat
      /\ \A i, j \in DOMAIN agenda' : i < j =>
           \/ i \in DOMAIN tasks
           \/ \E k, l \in DOMAIN agenda : k < l /\ agenda'[i] = agenda[k] /\ agenda'[j] = agenda[l]
  BY <1>2, <1>3, AfterStep
<1>5. R \subseteq DOMAIN blocks' /\ (n \in DOMAIN blocks' => n \in R) /\ scope' = n
      /\ DOMAIN blocks \subseteq DOMAIN blocks'
  BY <1>1, <1>2 DEF Confined, Region
<1>6. currentBlock' \in R
  <2>1. Fits(task, S, blocks, currentBlock) /\ currentBlock \in S
    BY <1>1, <1>4 DEF Visited
  <2>2. ToSet(task.labels) \subseteq S
    BY <1>2, <2>1 DEF Fits, Confined
  <2> QED  BY <1>2, <2>1, <2>2 DEF Confined
<1>7. \A i \in DOMAIN agenda : i > 1 /\ agenda[i].do = "merge" => Simple(task) /\ currentBlock' = currentBlock
  BY <1>1, <1>2, <1>4 DEF Visited, Straight, Keeps
<1>8. ASSUME NEW j \in DOMAIN agenda'
      PROVE  Fits(agenda'[j], R, blocks', currentBlock')
  <2>1. CASE j \in DOMAIN tasks /\ agenda'[j] = tasks[j]
    BY <1>2, <2>1 DEF Keeps
  <2>2. CASE \E i \in DOMAIN agenda : i > 1 /\ agenda'[j] = agenda[i]
    <3>1. PICK i \in DOMAIN agenda : i > 1 /\ agenda'[j] = agenda[i]
      BY <2>2
    <3>2. Fits(agenda[i], S, blocks, currentBlock)
      BY <1>1 DEF Visited
    <3>3. Fits(agenda[i], R, blocks', currentBlock')
      BY <1>1, <1>3, <1>5, <1>7, <3>1, <3>2, StillFits
    <3> QED  BY <3>1, <3>3
  <2> QED  BY <1>4, <2>1, <2>2 DEF From
<1>9. Straight(agenda')
  <2> SUFFICES ASSUME NEW i \in DOMAIN agenda', NEW j \in DOMAIN agenda', i < j, agenda'[j].do = "merge"
               PROVE  Simple(agenda'[i])
    BY DEF Straight
  <2>1. CASE i \in DOMAIN tasks
    <3>1. agenda'[i] = tasks[i]
      BY <1>4, <2>1 DEF From
    <3>2. CASE j \in DOMAIN tasks
      <4>1. agenda'[j] = tasks[j]
        BY <1>4, <3>2 DEF From
      <4> QED  BY <1>2, <2>1, <3>1, <3>2, <4>1 DEF Keeps, Straight
    <3>3. CASE j \notin DOMAIN tasks
      <4>1. \E k \in DOMAIN agenda : k > 1 /\ agenda'[j] = agenda[k]
        BY <1>4, <3>3 DEF From
      <4>2. Simple(task)
        BY <1>7, <4>1
      <4> QED  BY <1>2, <2>1, <3>1, <4>2 DEF Keeps
    <3> QED  BY <3>2, <3>3
  <2>2. CASE \E k, l \in DOMAIN agenda : k < l /\ agenda'[i] = agenda[k] /\ agenda'[j] = agenda[l]
    BY <1>1, <2>2 DEF Visited, Straight
  <2> QED  BY <1>4, <2>1, <2>2
<1>10. ASSUME NEW l \in R
       PROVE  Targets(blocks'[l]) \subseteq R /\ Coherent(blocks', agenda', currentBlock', l)
  <2>1. CASE l \in touched \cup fresh
    BY <1>2, <2>1 DEF Keeps
  <2>2. CASE l \notin touched \cup fresh
    <3>1. l \in S /\ l \in DOMAIN blocks /\ l # currentBlock
      BY <1>1, <1>2, <2>2 DEF Keeps
    <3>2. blocks'[l] = blocks[l]
      BY <1>2, <2>2, <3>1 DEF Confined
    <3>3. Targets(blocks'[l]) \subseteq R
      BY <3>1, <3>2 DEF Region
    <3>4. Coherent(blocks, agenda, currentBlock, l)
      BY <1>1, <3>1 DEF Visited
    <3>5. Awaited(agenda, l) => Awaited(agenda', l)
      <4> SUFFICES ASSUME Awaited(agenda, l)
                   PROVE  Awaited(agenda', l)
        OBVIOUS
      <4>1. PICK i \in DOMAIN agenda : agenda[i].do = "loop end" /\ agenda[i].labels[4] = l
        BY DEF Awaited
      <4>2. i # 1
        BY <1>2, <1>4, <2>2, <4>1 DEF Keeps
      <4>3. \E j \in DOMAIN agenda' : agenda'[j] = agenda[i]
        BY <1>4, <4>2 DEF From
      <4> QED  BY <4>1, <4>3 DEF Awaited
    <3>6. Looping(agenda, currentBlock, l) => Looping(agenda', currentBlock', l)
      <4> SUFFICES ASSUME Looping(agenda, currentBlock, l)
                   PROVE  Looping(agenda', currentBlock', l)
        OBVIOUS
      <4>1. PICK i \in DOMAIN agenda : agenda[i].do = "loop body" /\ agenda[i].labels[2] = l
        BY <3>1 DEF Looping
      <4>2. i # 1
        BY <1>2, <1>4, <2>2, <4>1 DEF Keeps
      <4>3. \E j \in DOMAIN agenda' : agenda'[j] = agenda[i]
        BY <1>4, <4>2 DEF From
      <4> QED  BY <4>1, <4>3 DEF Looping
    <3>7. Coherent(blocks', agenda', currentBlock', l)
      BY <3>2, <3>4, <3>5, <3>6 DEF Coherent
    <3> QED  BY <3>3, <3>7
  <2> QED  BY <2>1, <2>2
<1>11. Visited(R, blocks', agenda', currentBlock')
  BY <1>6, <1>8, <1>9, <1>10 DEF Visited
<1> HIDE DEF R
<1>12. Region(R, n)'
  BY <1>5, <1>10, <1>11 DEF Region
<1> QED  BY <1>12 DEF R

LEMMA MovesOn ==
  ASSUME IInv, Quiet, Partition, NEW tasks, NEW fresh, NEW touched, Moves(tasks, fresh, touched)
  PROVE  Partition'
<1>1. Confined(tasks, fresh, touched) /\ agenda \in Seq(Tasks)
  BY DEF Moves, IInv, Agenda
<1>2. From(agenda, agenda', tasks) /\ task = agenda[1] /\ DOMAIN agenda \subseteq Nat
  BY <1>1, AfterStep
<1>3. Regions'
  <2> SUFFICES ASSUME NEW n \in DOMAIN temps', NotNested(n)'
               PROVE  \E S : Region(S, n)'
    BY DEF Regions
  <2>1. n \in DOMAIN temps /\ NotNested(n)
    BY <1>1 DEF Confined, NotNested
  <2>2. PICK S : Region(S, n)
    BY <2>1 DEF Partition, Regions
  <2>3. CASE scope = n
    BY <2>1, <2>2, <2>3, Here
  <2>4. CASE scope # n
    BY <1>1, <2>1, <2>2, <2>4, Elsewhere
  <2> QED  BY <2>3, <2>4
<1>4. Pending'
  <2> SUFFICES ASSUME NEW j \in DOMAIN agenda', IsMethod(agenda'[j])
               PROVE  \E k \in DOMAIN source' : agenda'[j].node = MethodNode(source'[k])
    BY DEF Pending, IsMethod
  <2>1. \E i \in DOMAIN agenda : agenda'[j] = agenda[i]
    BY <1>1, <1>2 DEF From, Confined
  <2>2. \E k \in DOMAIN source : agenda'[j].node = MethodNode(source[k])
    BY <2>1 DEF Partition, Pending
  <2> QED  BY <1>1, <2>2 DEF Confined
<1>5. Begun'
  <2> SUFFICES ASSUME NEW n \in DOMAIN temps', n \notin DOMAIN blocks'
               PROVE  \E j \in DOMAIN agenda' : IsMethod(agenda'[j]) /\ agenda'[j].node.text = n
    BY DEF Begun, IsMethod
  <2>1. n \in DOMAIN temps /\ n \notin DOMAIN blocks
    BY <1>1 DEF Confined
  <2>2. PICK i \in DOMAIN agenda : IsMethod(agenda[i]) /\ agenda[i].node.text = n
    BY <2>1 DEF Partition, Begun
  <2>3. i # 1
    BY <1>1, <1>2, <2>2 DEF Confined
  <2>4. PICK j \in DOMAIN agenda' : agenda'[j] = agenda[i]
    BY <1>2, <2>3 DEF From
  <2> QED  BY <2>2, <2>4
<1> QED  BY <1>3, <1>4, <1>5 DEF Partition

-----------------------------------------------------------------------------
(***************************************************************************)
(* The current block.                                                      *)
(***************************************************************************)
\* A block that is not ended has no jumps, and no false exit.
LEMMA OpenBlank ==
  ASSUME NEW S, Visited(S, blocks, agenda, currentBlock), NEW l \in S, ~EndsInJump(blocks[l])
  PROVE  /\ Has(blocks[l], {}, blocks[l].trueExit, NoBlock)
         /\ blocks[l].trueExit = NoBlock \/ Looping(agenda, currentBlock, l)
BY DEF Visited, Coherent, Blank, Has

LEMMA BlankIs ==
  ASSUME NEW bs, NEW tasks, NEW current, NEW l, NEW t, Has(bs[l], {}, t, NoBlock),
         t = NoBlock \/ Looping(tasks, current, l), ~EndsInJump(bs[l])
  PROVE  Targets(bs[l]) = {} /\ Coherent(bs, tasks, current, l)
<1>1. Targets(bs[l]) = {}
  BY NoJumps
<1> QED  BY <1>1 DEF Has, Coherent, Blank

LEMMA NewBlank ==
  ASSUME NEW bs, NEW tasks, NEW current, NEW l, bs[l] = EmptyBlock
  PROVE  Targets(bs[l]) = {} /\ Coherent(bs, tasks, current, l) /\ Has(bs[l], {}, NoBlock, NoBlock)
<1>1. ~EndsInJump(EmptyBlock) /\ EmptyBlock.code = <<>> /\ EmptyBlock.trueExit = NoBlock
      /\ EmptyBlock.falseExit = NoBlock
  BY EmptyIs DEF EmptyBlock, Block
<1>2. Jumps(<<>>) = {}
  BY DEF Jumps, ToSet
<1>3. Has(bs[l], {}, NoBlock, NoBlock)
  BY <1>1, <1>2 DEF Has
<1> QED  BY <1>1, <1>3, BlankIs

\* The visitor stays in the block, and a loop is still to end.
LEMMA LoopingOn ==
  ASSUME agenda \in Seq(Tasks), NEW tasks, NEW fresh, NEW touched, Confined(tasks, fresh, touched),
         task.do \notin {"loop body", "loop end"}, currentBlock' = currentBlock, NEW l,
         Looping(agenda, currentBlock, l)
  PROVE  Looping(agenda', currentBlock', l)
<1>1. From(agenda, agenda', tasks) /\ task = agenda[1]
  BY AfterStep
<1>2. PICK i \in DOMAIN agenda : \/ agenda[i].do = "loop body" /\ agenda[i].labels[2] = l
                                 \/ agenda[i].do = "loop end" /\ l = currentBlock
  BY DEF Looping
<1>3. i # 1
  BY <1>1, <1>2
<1>4. \E j \in DOMAIN agenda' : agenda'[j] = agenda[i]
  BY <1>1, <1>3 DEF From
<1> QED  BY <1>2, <1>4 DEF Looping

-----------------------------------------------------------------------------
(***************************************************************************)
(* Steps that go on with a node and its children in the same block.        *)
(***************************************************************************)
Relatives == {t \in Tasks : Calm(t) /\ t.node \in {task.node} \cup Children(task.node)}

LEMMA WorkNode ==
  ASSUME NEW t \in Tasks, Shaped(t), ~IsMethod(t)
  PROVE  t.node \in Work /\ t.node.kind # "Method" /\ (t.node.kind \in Expressions => t.node \in Inner)
<1>1. t.node \in Nodes /\ t.do \in Continuations \cup {"visit"}
  BY DEF Tasks
<1>2. t.node.kind # "Method"
  BY <1>1, Kinds DEF Shaped, IsMethod, Continuations, ShortCircuit
<1>3. \A m \in Methods : MethodNode(m).kind = "Method"
  BY MethodsNode
<1>4. t.node \in Work
  BY <1>1, <1>2, <1>3 DEF Nodes, Work
<1>5. t.node.kind \in Expressions => t.node \in Inner
  BY <1>1, NodeOf, Kinds
<1> QED  BY <1>2, <1>4, <1>5

LEMMA KidsOf ==
  ASSUME NEW n \in Inner, n.kind \in Expressions
  PROVE  /\ n.kids \in Seq(Inner) /\ \A k \in DOMAIN n.kids : n.kids[k] \in Inner /\ n.kids[k].kind \in Expressions
BY InnerNode DEF WellFormed

LEMMA NoLabelsIs ==
  ASSUME NEW t \in Tasks, Shaped(t), t.do \in {"visit", "finish", "param", "call", "branch"}
  PROVE  ToSet(t.labels) = {}
<1>1. Len(t.labels) = 0 /\ t.labels \in Seq(Texts)
  BY DEF Shaped, Tasks
<1> QED  BY <1>1 DEF ToSet

LEMMA RelativeFits ==
  ASSUME task \in Tasks, Shaped(task), ~IsMethod(task), NEW t \in Relatives
  PROVE  /\ ToSet(t.labels) = {} /\ ~IsMethod(t) /\ t.do \notin {"merge", "loop body", "loop end"}
         /\ ~RightNested(task.node) => ~RightNested(t.node)
         /\ Simple(task) => Simple(t)
<1>1. t \in Tasks /\ Calm(t) /\ t.node \in {task.node} \cup Children(task.node)
  BY DEF Relatives
<1>2. ToSet(t.labels) = {} /\ ~IsMethod(t) /\ t.do \notin {"merge", "loop body", "loop end"}
  BY <1>1, NoLabelsIs DEF Calm
<1>3. task.node \in Work
  BY WorkNode
<1>4. CASE t.node = task.node
  BY <1>2, <1>4 DEF Simple
<1>5. CASE t.node \in Children(task.node)
  <2>1. PICK k \in DOMAIN task.node.kids : t.node = task.node.kids[k]
    BY <1>5 DEF Children
  <2>2. /\ ~RightNested(task.node) => ~RightNested(t.node)
        /\ Connectiveless(task.node) => Connectiveless(t.node)
    BY <1>3, <2>1, NestedWithin
  <2>3. task.node.kind \in Expressions => t.node.kind \in Expressions
    BY <2>1, WorkNode, KidsOf
  <2> QED  BY <1>2, <2>2, <2>3 DEF Simple
<1> QED  BY <1>1, <1>4, <1>5

\* One more TAC that does not jump.
LEMMA TacAdded ==
  ASSUME NEW bs, NEW l \in DOMAIN bs, bs[l] \in Blocks, NEW tac, tac.op \notin {"JMP", "CJMP"},
         NEW jumps, NEW t, NEW f, Has(bs[l], jumps, t, f)
  PROVE  LET new == WithCode(bs, l, <<tac>>) IN
         /\ DOMAIN new = DOMAIN bs /\ \A b \in DOMAIN bs \ {l} : new[b] = bs[b]
         /\ Has(new[l], jumps, t, f)
         /\ EndsInJump(new[l]) <=> tac.op = "RET"
<1> DEFINE code == bs[l].code
           all == code \o <<tac>>
           new == WithCode(bs, l, <<tac>>)
           a == Len(code)
<1>1. /\ code \in Seq(Tacs) /\ a \in Nat /\ DOMAIN code = 1 .. a
      /\ Has(bs[l], jumps, t, f)
  BY DEF Blocks
<1>2. /\ DOMAIN new = DOMAIN bs /\ new[l] = [bs[l] EXCEPT !.code = all]
      /\ \A b \in DOMAIN bs \ {l} : new[b] = bs[b]
  BY DEF WithCode
<1>3. new[l].code = all /\ new[l].trueExit = bs[l].trueExit /\ new[l].falseExit = bs[l].falseExit
  BY <1>2 DEF Blocks
<1>4. /\ DOMAIN all = 1 .. a + 1 /\ Len(all) = a + 1 /\ all[a + 1] = tac
      /\ \A i \in 1 .. a : all[i] = code[i]
  <2> DEFINE T == Tacs \cup {tac}
             one == <<tac>>
  <2>1. code \in Seq(T) /\ one \in Seq(T) /\ Len(one) = 1 /\ one[1] = tac
    <3>1. code \in Seq(T)
      BY <1>1, SeqMonotonic
    <3> QED  BY <3>1
  <2> HIDE DEF T, one, code
  <2>2. /\ Len(code \o one) = a + 1 /\ DOMAIN (code \o one) = 1 .. a + 1
        /\ \A i \in 1 .. a + 1 : (code \o one)[i] = IF i <= a THEN code[i] ELSE one[i - a]
    <3>1. /\ code \o one \in Seq(T) /\ Len(code \o one) = Len(code) + Len(one)
          /\ \A i \in 1 .. Len(code) + Len(one) :
               (code \o one)[i] = IF i <= Len(code) THEN code[i] ELSE one[i - Len(code)]
      BY <2>1, ConcatProperties
    <3> QED  BY <1>1, <2>1, <3>1
  <2>3. /\ a + 1 \in 1 .. a + 1 /\ ~(a + 1 <= a) /\ (a + 1) - a = 1
        /\ \A i \in 1 .. a : i \in 1 .. a + 1 /\ i <= a
    BY <1>1
  <2> QED  BY <2>1, <2>2, <2>3 DEF one
<1> HIDE DEF all, new, a
<1>5. ToSet(all) = ToSet(code) \cup {tac}
  <2>1. \A i \in 1 .. a + 1 : i \in 1 .. a \/ i = a + 1
    BY <1>1
  <2>2. 1 .. a \subseteq 1 .. a + 1 /\ a + 1 \in 1 .. a + 1
    BY <1>1
  <2>3. ToSet(all) \subseteq ToSet(code) \cup {tac}
    BY <1>1, <1>4, <2>1 DEF ToSet
  <2>4. ToSet(code) \cup {tac} \subseteq ToSet(all)
    BY <1>1, <1>4, <2>2 DEF ToSet
  <2> QED  BY <2>3, <2>4
<1>6. Jumps(all) = Jumps(code)
  BY <1>5 DEF Jumps
<1>7. Has(new[l], jumps, t, f)
  BY <1>1, <1>3, <1>6 DEF Has
<1>8. all # <<>> /\ Last(all) = tac
  BY <1>1, <1>4 DEF Last
<1>9. EndsInJump(new[l]) <=> tac.op = "RET"
  BY <1>3, <1>8 DEF EndsInJump, Ends
<1> QED  BY <1>2, <1>7, <1>9 DEF new

LEMMA FirstTask ==
  ASSUME IInv, agenda # <<>>
  PROVE  agenda \in Seq(Tasks) /\ 1 \in DOMAIN agenda /\ task = agenda[1]
<1>1. agenda \in Seq(Tasks)
  BY DEF IInv, Agenda
<1> QED  BY <1>1 DEF task

\* After a return only other methods are left to do.
LEMMA LastOfMethod ==
  ASSUME IInv, agenda # <<>>, task.node \notin Inner, NEW i \in DOMAIN agenda, i # 1
  PROVE  IsMethod(agenda[i])
<1>1. agenda \in Seq(Tasks) /\ Ordered(agenda)
  BY DEF IInv, Agenda
<1>2. 1 \in DOMAIN agenda /\ 1 < i /\ task = agenda[1]
  BY <1>1 DEF task
<1>3. Before(agenda[1], agenda[i])
  BY <1>1, <1>2 DEF Ordered
<1> QED  BY <1>2, <1>3 DEF Before

\* The block stays as it is, or gets a TAC that does not jump.
Quietly(tac) ==
  \/ UNCHANGED blocks
  \/ /\ Emit(<<tac>>) /\ tac.op \notin {"JMP", "CJMP"}
     /\ tac.op = "RET" => task.node \notin Inner

LEMMA CurrentAfter ==
  ASSUME IInv, agenda # <<>>, ~IsMethod(task), NEW tac, Quietly(tac), UNCHANGED currentBlock,
         task.do \notin {"loop body", "loop end"},
         NEW tasks, Confined(tasks, {}, {currentBlock}),
         NEW S, Visited(S, blocks, agenda, currentBlock)
  PROVE  /\ Targets(blocks'[currentBlock]) = {}
         /\ Coherent(blocks', agenda', currentBlock', currentBlock)
<1> DEFINE cur == currentBlock
           t == blocks[cur].trueExit
<1>1. cur \in Open(blocks) /\ cur \in DOMAIN blocks /\ AllSound(blocks) /\ task \in Tasks /\ Shaped(task)
  BY Working
<1>2. ~EndsInJump(blocks[cur]) /\ blocks[cur] \in Blocks
  BY <1>1 DEF Open, AllSound, Sound
<1>3. Has(blocks[cur], {}, t, NoBlock) /\ (t = NoBlock \/ Looping(agenda, cur, cur))
  BY <1>2, OpenBlank DEF Visited
<1>4. agenda \in Seq(Tasks) /\ task = agenda[1]
  BY FirstTask
<1>5. t = NoBlock \/ Looping(agenda', currentBlock', cur)
  <2>1. Looping(agenda, currentBlock, cur) => Looping(agenda', currentBlock', cur)
    BY <1>4, LoopingOn
  <2> QED  BY <1>3, <2>1
<1>6. CASE UNCHANGED blocks
  BY <1>2, <1>3, <1>5, <1>6, BlankIs
<1>7. CASE Emit(<<tac>>) /\ tac.op \notin {"JMP", "CJMP"} /\ (tac.op = "RET" => task.node \notin Inner)
  <2>1. Has(blocks'[cur], {}, t, NoBlock) /\ (EndsInJump(blocks'[cur]) <=> tac.op = "RET")
    BY <1>1, <1>2, <1>3, <1>7, TacAdded, ZenonT(60) DEF Emit
  <2>2. CASE tac.op # "RET"
    BY <1>5, <2>1, <2>2, BlankIs
  <2>3. CASE tac.op = "RET"
    <3>1. task.node \notin Inner
      BY <1>7, <2>3
    <3>2. t = NoBlock
      <4> SUFFICES ASSUME Looping(agenda, cur, cur)
                   PROVE  FALSE
        BY <1>3
      <4>1. PICK i \in DOMAIN agenda : agenda[i].do \in {"loop body", "loop end"}
        BY DEF Looping
      <4>2. i # 1
        BY <1>4, <4>1
      <4>3. IsMethod(agenda[i])
        BY <3>1, <4>2, LastOfMethod
      <4> QED  BY <4>1, <4>3 DEF IsMethod
    <3>3. Targets(blocks'[cur]) = {} /\ ExitsFollowCode(blocks'[cur])
      BY <2>1, <3>2, NoJumps
    <3> QED  BY <2>1, <2>3, <3>3 DEF Coherent
  <2> QED  BY <2>2, <2>3
<1> QED  BY <1>6, <1>7 DEF Quietly

LEMMA RelativesAre ==
  ASSUME NEW tasks \in Seq(Relatives)
  PROVE  \A i \in DOMAIN tasks : tasks[i] \in Relatives
OBVIOUS

LEMMA CalmMoves ==
  ASSUME IInv, agenda # <<>>, ~IsMethod(task), task.do \notin {"loop body", "loop end"},
         NEW tasks \in Seq(Relatives), Proceed(tasks), SamePlace, TakeTemp \/ NoTemp,
         NEW tac, Quietly(tac)
  PROVE  Moves(tasks, {}, {currentBlock})
<1>1. /\ task \in Tasks /\ Shaped(task) /\ currentBlock \in DOMAIN blocks /\ scope \in DOMAIN temps
      /\ blocks[currentBlock] \in Blocks
  BY Working DEF AllSound, Sound
<1>2. \A i \in DOMAIN tasks : tasks[i] \in Relatives
  BY RelativesAre
<1>3. tasks \in Seq(Tasks)
  <2>1. Relatives \subseteq Tasks
    BY DEF Relatives
  <2> QED  BY <2>1, SeqMonotonic
<1>4. DOMAIN temps' = DOMAIN temps
  BY <1>1, TempsAfter DEF IInv, SamePlace
<1>5. DOMAIN blocks' = DOMAIN blocks /\ \A b \in DOMAIN blocks \ {currentBlock} : blocks'[b] = blocks[b]
  BY <1>1 DEF Quietly, Emit, WithCode
<1>6. \A i \in DOMAIN tasks :
        /\ ToSet(tasks[i].labels) = {} /\ ~IsMethod(tasks[i])
        /\ tasks[i].do \notin {"merge", "loop body", "loop end"}
        /\ ~RightNested(task.node) => ~RightNested(tasks[i].node)
        /\ Simple(task) => Simple(tasks[i])
  BY <1>1, <1>2, RelativeFits
<1>7. Confined(tasks, {}, {currentBlock})
  BY <1>3, <1>4, <1>5, <1>6 DEF Confined, Proceed, SamePlace
<1>8. ASSUME NEW S, S \subseteq DOMAIN blocks, Visited(S, blocks, agenda, currentBlock)
      PROVE  Keeps(S, tasks, {}, {currentBlock})
  <2>1. /\ Targets(blocks'[currentBlock]) = {}
        /\ Coherent(blocks', agenda', currentBlock', currentBlock)
    BY <1>7, <1>8, CurrentAfter DEF SamePlace
  <2>2. ~RightNested(task.node)
    <3>1. agenda \in Seq(Tasks) /\ 1 \in DOMAIN agenda /\ task = agenda[1]
      BY FirstTask
    <3> QED  BY <1>8, <3>1 DEF Visited, Fits
  <2>3. \A i \in DOMAIN tasks : Fits(tasks[i], S \cup {}, blocks', currentBlock')
    BY <1>6, <2>2 DEF Fits
  <2>4. Straight(tasks)
    BY <1>6 DEF Straight
  <2> QED  BY <1>6, <2>1, <2>3, <2>4 DEF Keeps, SamePlace
<1> QED  BY <1>7, <1>8 DEF Moves

\* Some tasks take the place of the first.
Moving == \E tasks, fresh, touched : Moves(tasks, fresh, touched)

\* Nothing is left to do of the task.
LEMMA NothingMoves ==
  ASSUME IInv, agenda # <<>>, task.do \in {"visit", "finish", "param", "call"},
         task.do = "visit" => task.node.kind # "Method",
         Proceed(<<>>), SamePlace, TakeTemp \/ NoTemp, NEW tac, Quietly(tac)
  PROVE  Moving
<1>1. ~IsMethod(task) /\ task.do \notin {"loop body", "loop end"}
  BY DEF IsMethod
<1>2. <<>> \in Seq(Relatives)
  BY EmptySeq
<1>3. Moves(<<>>, {}, {currentBlock})
  BY <1>1, <1>2, CalmMoves
<1> QED  BY <1>3 DEF Moving

LEMMA LeafMoves == IInv /\ (Leaf \/ New) => Moving
<1> SUFFICES ASSUME IInv, Leaf \/ New
             PROVE  Moving
  OBVIOUS
<1> DEFINE tac == Tac3("NEW", Temp, None, Name(task.node.text))
<1>1. tac.op = "NEW"
  BY DEF Tac3
<1>2. /\ agenda # <<>> /\ task.do = "visit" /\ task.node.kind \in ExpressionLeaves \cup {"NEW"}
      /\ Proceed(<<>>) /\ SamePlace /\ (TakeTemp \/ NoTemp)
      /\ UNCHANGED blocks \/ Emit(<<tac>>)
  BY DEF Leaf, New, Visiting, Doing, SameBlocks
<1> HIDE DEF tac
<1>3. task.node.kind # "Method" /\ Quietly(tac)
  BY <1>1, <1>2, Kinds DEF Quietly
<1> QED  BY <1>2, <1>3, NothingMoves

LEMMA TacForOp ==
  ASSUME NEW n, n.kind \in Strict \cup Sized \cup Statements, NEW res
  PROVE  /\ TacFor(n, res).op \notin {"JMP", "CJMP"}
         /\ TacFor(n, res).op = "RET" => n.kind = "RET"
<1> DEFINE tac == TacFor(n, res)
<1>1. CASE n.kind \in TwoOperands
  <2>1. n.kind \notin {"ArrayAssign", "Assign"}
    BY <1>1 DEF TwoOperands, BinaryOps
  <2>2. tac.op = n.kind
    BY <1>1, <2>1 DEF TacFor, Tac3
  <2> QED  BY <1>1, <2>2 DEF TwoOperands, BinaryOps
<1>2. CASE n.kind = "ArrayAssign"
  <2>1. n.kind \notin TwoOperands
    BY <1>2 DEF TwoOperands, BinaryOps
  <2>2. tac.op = "ARRAY_STORE"
    BY <1>2, <2>1 DEF TacFor, Tac3
  <2> QED  BY <2>2
<1>3. CASE n.kind = "Assign"
  <2>1. n.kind \notin TwoOperands
    BY <1>3 DEF TwoOperands, BinaryOps
  <2>2. tac.op = "COPY"
    BY <1>3, <2>1 DEF TacFor, Tac3, Copy
  <2> QED  BY <2>2
<1>4. CASE n.kind \notin TwoOperands \cup {"ArrayAssign", "Assign"}
  <2>1. tac.op = n.kind
    BY <1>4 DEF TacFor, Tac3
  <2> QED  BY <1>4, <2>1 DEF Strict, Sized, Statements
<1> QED  BY <1>1, <1>2, <1>3, <1>4

LEMMA FinishMoves == IInv /\ (FinishStrict \/ FinishSized \/ FinishStatement) => Moving
<1> SUFFICES ASSUME IInv, FinishStrict \/ FinishSized \/ FinishStatement
             PROVE  Moving
  OBVIOUS
<1>1. PICK res : /\ agenda # <<>> /\ task.do = "finish" /\ task.node.kind \in Strict \cup Sized \cup Statements
                 /\ Proceed(<<>>) /\ SamePlace /\ (TakeTemp \/ NoTemp)
                 /\ Emit(<<TacFor(task.node, res)>>)
  BY DEF FinishStrict, FinishSized, FinishStatement, Doing
<1> DEFINE tac == TacFor(task.node, res)
<1>2. tac.op \notin {"JMP", "CJMP"} /\ (tac.op = "RET" => task.node \notin Inner)
  BY <1>1, TacForOp, InnerNode
<1>3. Quietly(tac)
  BY <1>1, <1>2 DEF Quietly
<1> HIDE DEF tac
<1> QED  BY <1>1, <1>3, NothingMoves

LEMMA PushMoves == IInv /\ (Param \/ FinishCall) => Moving
<1> SUFFICES ASSUME IInv, Param \/ FinishCall
             PROVE  Moving
  OBVIOUS
<1>1. PICK tac : /\ agenda # <<>> /\ task.do \in {"param", "call"}
                 /\ Proceed(<<>>) /\ SamePlace /\ (TakeTemp \/ NoTemp)
                 /\ Emit(<<tac>>) /\ tac.op \in {"PARAM", "CALL"}
  BY DEF Param, FinishCall, Doing, Tac3, MethodCall
<1>2. Quietly(tac)
  BY <1>1 DEF Quietly
<1> QED  BY <1>1, <1>2, NothingMoves

\* The children of the task's node are visited.
LEMMA KidVisits ==
  ASSUME task.node.kids \in Seq(Nodes),
         \A k \in DOMAIN task.node.kids : task.node.kids[k].kind # "Method"
  PROVE  /\ VisitAll(task.node.kids) \in Seq(Relatives)
         /\ \A k \in DOMAIN task.node.kids : Visit(task.node.kids[k]) \in Relatives
<1> DEFINE kids == task.node.kids
           tasks == VisitAll(kids)
<1>1. ASSUME NEW k \in DOMAIN kids
      PROVE  Visit(kids[k]) \in Relatives
  <2>1. kids[k] \in Nodes /\ kids[k].kind # "Method" /\ kids[k] \in Children(task.node)
    BY DEF Children
  <2>2. Visit(kids[k]) \in Tasks /\ Calm(Visit(kids[k])) /\ Visit(kids[k]).node = kids[k]
    BY <2>1, VisitType
  <2> QED  BY <2>1, <2>2 DEF Relatives
<1>2. Len(kids) \in Nat /\ DOMAIN kids = 1 .. Len(kids)
  OBVIOUS
<1>3. tasks = [i \in 1 .. Len(kids) |-> tasks[i]] /\ \A i \in 1 .. Len(kids) : tasks[i] \in Relatives
  BY <1>1, <1>2 DEF VisitAll
<1> DEFINE a == Len(kids)
<1> HIDE DEF tasks, a
<1>4. tasks \in Seq(Relatives)
  <2> DEFINE R == Relatives
  <2>1. a \in Nat /\ tasks = [i \in 1 .. a |-> tasks[i]] /\ \A i \in 1 .. a : tasks[i] \in R
    BY <1>2, <1>3 DEF a
  <2> HIDE DEF R
  <2>2. tasks \in Seq(R)
    BY <2>1
  <2> QED  BY <2>2 DEF R
<1> QED  BY <1>1, <1>4 DEF tasks

LEMMA StatementMoves == IInv /\ Statement => Moving
<1> SUFFICES ASSUME IInv, Statement
             PROVE  Moving
  OBVIOUS
<1>1. /\ agenda # <<>> /\ task.do = "visit" /\ task.node.kind = "List"
      /\ Proceed(VisitAll(task.node.kids)) /\ SamePlace /\ UNCHANGED blocks /\ NoTemp
  BY DEF Statement, Visiting, Doing, SameBlocks
<1>2. task \in Tasks /\ task.node \in Nodes /\ ~IsMethod(task) /\ task.do \notin {"loop body", "loop end"}
  BY <1>1, AtWork DEF IsMethod
<1>3. task.node.kids \in Seq(Inner \cup Returns)
  <2>1. Inner \subseteq Inner \cup Returns
    OBVIOUS
  <2>2. CASE task.node \in Inner
    BY <2>1, <2>2, InnerNode, SeqMonotonic
  <2>3. CASE task.node \notin Inner
    BY <1>1, <1>2, <2>3, NodeOf, BodyNode
  <2> QED  BY <2>2, <2>3
<1>4. \A k \in DOMAIN task.node.kids : task.node.kids[k].kind # "Method"
  <2>1. \A k \in DOMAIN task.node.kids : task.node.kids[k] \in Inner \cup Returns
    BY <1>3
  <2> QED  BY <2>1, InnerNode, ReturnNode
<1>5. task.node.kids \in Seq(Nodes)
  <2>1. Inner \cup Returns \subseteq Nodes
    BY DEF Nodes
  <2> QED  BY <1>3, <2>1, SeqMonotonic
<1>6. VisitAll(task.node.kids) \in Seq(Relatives)
  BY <1>4, <1>5, KidVisits
<1>7. Quietly(0)
  BY <1>1 DEF Quietly
<1>8. Moves(VisitAll(task.node.kids), {}, {currentBlock})
  BY <1>1, <1>2, <1>6, <1>7, CalmMoves
<1> QED  BY <1>8 DEF Moving

\* The children that are trees are visited, and then something is done.
LEMMA InnerKids ==
  ASSUME task.node.kids \in Seq(Inner)
  PROVE  /\ VisitAll(task.node.kids) \in Seq(Relatives)
         /\ \A k \in DOMAIN task.node.kids : Visit(task.node.kids[k]) \in Relatives
<1>1. \A k \in DOMAIN task.node.kids : task.node.kids[k] \in Inner
  OBVIOUS
<1>2. \A k \in DOMAIN task.node.kids : task.node.kids[k].kind # "Method"
  BY <1>1, InnerNode
<1>3. task.node.kids \in Seq(Nodes)
  <2>1. Inner \subseteq Nodes
    BY DEF Nodes
  <2> QED  BY <2>1, SeqMonotonic
<1> QED  BY <1>2, <1>3, KidVisits

LEMMA OperandsMove == IInv /\ (EvalOperands \/ EvalSize) => Moving
<1> SUFFICES ASSUME IInv, EvalOperands \/ EvalSize
             PROVE  Moving
  OBVIOUS
<1>1. PICK name : /\ agenda # <<>> /\ task.do = "visit" /\ task.node.kind \in Strict \cup Sized \cup Statements
                  /\ Proceed(VisitAll(task.node.kids) \o <<Task("finish", task.node, <<>>, name)>>)
                  /\ SamePlace /\ UNCHANGED blocks /\ (TakeTemp \/ NoTemp)
                  /\ name = <<>> \/ (name = Temp /\ TakeTemp /\ UNCHANGED nextBlock)
  BY DEF EvalOperands, EvalSize, Visiting, Doing, SameBlocks
<1>2. task.node.kind # "Method"
  BY <1>1, Kinds
<1>3. /\ task \in Tasks /\ task.node \in Nodes /\ ~IsMethod(task) /\ task.do \notin {"loop body", "loop end"}
      /\ scope \in DOMAIN temps
  BY <1>1, <1>2, AtWork
<1>4. name \in Texts
  BY <1>1, <1>3, NoLabels, TempTaken DEF IInv, SamePlace
<1> DEFINE last == Task("finish", task.node, <<>>, name)
<1>5. last \in Relatives
  BY <1>1, <1>3, <1>4, FinishType DEF Relatives
<1>6. VisitAll(task.node.kids) \in Seq(Relatives)
  BY <1>1, <1>3, Operated, InnerKids
<1> DEFINE tasks == VisitAll(task.node.kids) \o <<last>>
<1>7. tasks \in Seq(Relatives)
  <2> DEFINE R == Relatives
             v == VisitAll(task.node.kids)
  <2> HIDE DEF R, v, last
  <2>1. v \in Seq(R) /\ last \in R
    BY <1>5, <1>6 DEF R, v
  <2>2. v \o <<last>> \in Seq(R)
    BY <2>1
  <2> QED  BY <2>2 DEF R, v
<1>8. Quietly(0)
  BY <1>1 DEF Quietly
<1>9. Proceed(tasks)
  BY <1>1
<1> HIDE DEF tasks
<1>10. Moves(tasks, {}, {currentBlock})
  BY <1>1, <1>3, <1>7, <1>8, <1>9, CalmMoves
<1> QED  BY <1>10 DEF Moving

LEMMA LeftMoves == IInv /\ EvalLeft => Moving
<1> SUFFICES ASSUME IInv, EvalLeft
             PROVE  Moving
  OBVIOUS
<1> DEFINE a == Visit(task.node.kids[1])
           b == Task("branch", task.node, <<>>, <<>>)
           tasks == <<a, b>>
<1>1. /\ agenda # <<>> /\ task.do = "visit" /\ task.node.kind \in ShortCircuit
      /\ Proceed(tasks) /\ SamePlace /\ UNCHANGED blocks /\ NoTemp
  BY DEF EvalLeft, Visiting, Doing, SameBlocks
<1>2. task.node.kind # "Method" /\ task.node.kind \in Expressions /\ task.node.kind \in TwoOperands
  BY <1>1, Kinds
<1>3. task \in Tasks /\ task.node \in Nodes /\ ~IsMethod(task) /\ Shaped(task)
      /\ task.do \notin {"loop body", "loop end"}
  BY <1>1, <1>2, AtWork
<1>4. task.node \in Inner
  BY <1>2, <1>3, WorkNode
<1>5. task.node.kids \in Seq(Inner) /\ 1 \in DOMAIN task.node.kids
  BY <1>2, <1>4, InnerNode DEF WellFormed
<1>6. a \in Relatives
  BY <1>5, InnerKids
<1>7. b \in Tasks /\ b.do = "branch" /\ b.node = task.node /\ b.labels = <<>>
  BY <1>3, NoLabels DEF Task, Tasks, Continuations
<1>8. b \in Relatives
  <2> HIDE DEF b
  <2>1. Calm(b)
    BY <1>1, <1>7, NoLabels DEF Calm, Shaped, IsMethod
  <2> QED  BY <1>7, <2>1 DEF Relatives
<1> HIDE DEF a, b
<1>9. tasks \in Seq(Relatives)
  BY <1>6, <1>8
<1>10. Quietly(0)
  BY <1>1 DEF Quietly
<1> HIDE DEF tasks
<1>11. Moves(tasks, {}, {currentBlock})
  BY <1>1, <1>3, <1>9, <1>10, CalmMoves
<1> QED  BY <1>11 DEF Moving

LEMMA CallTask ==
  ASSUME NEW n \in Nodes, n.kind = "CALL", NEW do \in {"param", "call"}
  PROVE  LET t == Task(do, n, <<>>, <<>>) IN t \in Tasks /\ Calm(t) /\ t.node = n
<1> DEFINE t == Task(do, n, <<>>, <<>>)
<1>1. t \in Tasks /\ t.do = do /\ t.node = n /\ t.labels = <<>>
  BY NoLabels DEF Task, Tasks, Continuations
<1> HIDE DEF t
<1>2. Len(t.labels) = 0
  BY <1>1, NoLabels
<1>3. Calm(t)
  <2>1. t.do \in {"param", "call"} /\ t.node.kind = "CALL"
    BY <1>1
  <2>2. CASE t.do = "param"
    BY <1>2, <2>1, <2>2 DEF Calm, Shaped, IsMethod
  <2>3. CASE t.do = "call"
    BY <1>2, <2>1, <2>3 DEF Calm, Shaped, IsMethod
  <2> QED  BY <2>1, <2>2, <2>3
<1> QED  BY <1>1, <1>3 DEF t

LEMMA CallMoves == IInv /\ EvalCall => Moving
<1> SUFFICES ASSUME IInv, EvalCall
             PROVE  Moving
  OBVIOUS
<1> DEFINE node == task.node
           argument(k) == <<Visit(k), Task("param", node, <<>>, <<>>)>>
           parts == [i \in 1 .. Len(node.kids) - 1 |-> argument(node.kids[i + 1])]
           first == Visit(Head(node.kids))
           last == Task("call", node, <<>>, <<>>)
           tasks == <<first>> \o FlattenSeq(parts) \o <<last>>
           R == Relatives
<1>1. /\ agenda # <<>> /\ task.do = "visit" /\ task.node.kind = "CALL"
      /\ Proceed(tasks) /\ SamePlace /\ UNCHANGED blocks /\ NoTemp
  BY DEF EvalCall, Visiting, Doing, SameBlocks
<1>2. task.node.kind # "Method" /\ task.node.kind \in Expressions
  BY <1>1, Kinds
<1>3. task \in Tasks /\ task.node \in Nodes /\ ~IsMethod(task) /\ Shaped(task)
      /\ task.do \notin {"loop body", "loop end"}
  BY <1>1, <1>2, AtWork
<1>4. task.node \in Inner
  BY <1>2, <1>3, WorkNode
<1>5. node.kids \in Seq(Inner) /\ Len(node.kids) \in Nat \ {0} /\ DOMAIN node.kids = 1 .. Len(node.kids)
      /\ Head(node.kids) = node.kids[1]
  BY <1>1, <1>4, InnerNode DEF WellFormed
<1>6. \A k \in DOMAIN node.kids : Visit(node.kids[k]) \in Relatives
  BY <1>5, InnerKids
<1>7. \A do \in {"param", "call"} : Task(do, node, <<>>, <<>>) \in Relatives
  BY <1>1, <1>3, CallTask DEF Relatives
<1>8. first \in R /\ last \in R
  BY <1>5, <1>6, <1>7
<1> HIDE DEF R, first, last
<1>9. \A i \in DOMAIN parts : parts[i] \in Seq(R)
  <2> TAKE i \in DOMAIN parts
  <2>1. i + 1 \in DOMAIN node.kids
    BY <1>5
  <2>2. Visit(node.kids[i + 1]) \in R /\ Task("param", node, <<>>, <<>>) \in R
    BY <1>6, <1>7, <2>1 DEF R
  <2>3. parts[i] = <<Visit(node.kids[i + 1]), Task("param", node, <<>>, <<>>)>>
    OBVIOUS
  <2> HIDE DEF parts
  <2> QED  BY <2>2, <2>3
<1>10. parts \in Seq(Seq(R))
  <2> DEFINE Q == Seq(R)
             a == Len(node.kids) - 1
  <2>1. a \in Nat /\ DOMAIN parts = 1 .. a
    BY <1>5
  <2>2. parts = [i \in 1 .. a |-> parts[i]] /\ \A i \in 1 .. a : parts[i] \in Q
    BY <1>9, <2>1
  <2> HIDE DEF Q, parts, a
  <2>3. parts \in Seq(Q)
    BY <2>1, <2>2
  <2> QED  BY <2>3 DEF Q
<1> HIDE DEF parts
<1>11. FlattenSeq(parts) \in Seq(R)
  <2> DEFINE Q == Seq(R)
  <2>1. <<>> \in Q
    BY EmptySeq
  <2>2. \A k \in DOMAIN parts : \A p \in Q : p \o parts[k] \in Q
    BY <1>9, ConcatProperties
  <2> HIDE DEF Q
  <2>3. FlattenSeq(parts) \in Q
    BY <1>10, <2>1, <2>2, FlattenKeeps
  <2> QED  BY <2>3 DEF Q
<1>12. tasks \in Seq(Relatives)
  <2> DEFINE v == FlattenSeq(parts)
  <2> HIDE DEF v
  <2>1. v \in Seq(R)
    BY <1>11 DEF v
  <2>2. <<first>> \o v \o <<last>> \in Seq(R)
    BY <1>8, <2>1
  <2> QED  BY <2>2 DEF v, R
<1>13. Quietly(0)
  BY <1>1 DEF Quietly
<1> HIDE DEF tasks
<1>14. Moves(tasks, {}, {currentBlock})
  BY <1>1, <1>3, <1>12, <1>13, CalmMoves
<1> QED  BY <1>14 DEF Moving

-----------------------------------------------------------------------------
(***************************************************************************)
(* Steps that end a block.                                                 *)
(***************************************************************************)
LEMMA RealBlocks == IInv => NoBlock \notin DOMAIN blocks
<1> SUFFICES ASSUME IInv
             PROVE  NoBlock \notin DOMAIN blocks
  OBVIOUS
<1>1. DOMAIN blocks \subseteq MadeLabels
  BY DEF IInv, Linked
<1>2. NoBlock \notin DOMAIN temps
  BY MethodNames DEF IInv
<1>3. \A n : <<"block", n>> # NoBlock
  BY DEF NoBlock
<1> QED  BY <1>1, <1>2, <1>3 DEF MadeLabels

LEMMA FreshBlocks ==
  ASSUME IInv, agenda # <<>>, ~IsMethod(task), NEW n \in Nat, NewBlocks(n), UNCHANGED source,
         NoTemp \/ TakeTemp
  PROVE  LET L == Labels(n)
             fresh == ToSet(L)
             new == WithNew(blocks, fresh)
         IN  /\ DOMAIN temps' = DOMAIN temps /\ fresh \cap (DOMAIN blocks \cup DOMAIN temps) = {}
             /\ DOMAIN new = DOMAIN blocks \cup fresh /\ AllSound(new)
             /\ DOMAIN new \subseteq Texts /\ NoBlock \notin fresh
             /\ \A b \in DOMAIN blocks : new[b] = blocks[b]
             /\ \A b \in fresh : new[b] = EmptyBlock
             /\ L \in Seq(Texts) /\ DOMAIN L = 1 .. n
             /\ \A i \in 1 .. n : L[i] \in fresh /\ L[i] = Label(i - 1)
             /\ \A i, j \in 1 .. n : L[i] = L[j] => i = j
<1> DEFINE L == Labels(n)
           fresh == ToSet(L)
           new == WithNew(blocks, fresh)
<1>1. /\ DOMAIN temps' = DOMAIN temps
      /\ DOMAIN new = DOMAIN blocks \cup fresh /\ AllSound(new) /\ DOMAIN new \subseteq Texts
      /\ fresh \cap MadeLabels = {} /\ fresh \cap DOMAIN blocks = {}
      /\ L \in Seq(Texts) /\ Len(L) = n
      /\ \A i \in 1 .. n : L[i] \in fresh /\ L[i] = Label(i - 1)
      /\ \A i, j \in 1 .. n : L[i] = L[j] => i = j
  BY Fresh
<1>3. /\ \A b \in fresh : new[b] = EmptyBlock
      /\ \A b \in DOMAIN blocks \ fresh : new[b] = blocks[b]
  <2> HIDE DEF fresh
  <2> QED  BY DEF WithNew
<1>4. NoBlock \notin fresh
  <2>1. Counters /\ scope \in DOMAIN temps
    BY Working DEF IInv
  <2>2. ToSet(Labels(n)) \cap (MadeLabels \cup {NoBlock}) = {}
    BY <2>1, BlocksTaken
  <2> QED  BY <2>2
<1>5. DOMAIN temps \subseteq MadeLabels
  BY DEF MadeLabels
<1>6. DOMAIN L = 1 .. n
  BY <1>1
<1> HIDE DEF L, fresh, new
<1>7. /\ fresh \cap (DOMAIN blocks \cup DOMAIN temps) = {}
      /\ \A b \in DOMAIN blocks : new[b] = blocks[b]
  BY <1>1, <1>3, <1>5
<1> QED  BY <1>1, <1>3, <1>4, <1>6, <1>7 DEF L, fresh, new

\* What the invariant says of the first task and the current block.
LEMMA InPlace ==
  ASSUME IInv, agenda # <<>>, ~IsMethod(task), NEW S, Visited(S, blocks, agenda, currentBlock)
  PROVE  /\ currentBlock \in S /\ ToSet(task.labels) \subseteq S /\ ~RightNested(task.node)
         /\ task.do = "merge" => task.labels[1] = currentBlock
         /\ task.do = "loop end" =>
              /\ EndsInJump(blocks[task.labels[4]])
              /\ Forks(blocks[task.labels[4]], task.labels[2], task.labels[3])
         /\ Has(blocks[currentBlock], {}, blocks[currentBlock].trueExit, NoBlock)
<1>1. 1 \in DOMAIN agenda /\ task = agenda[1]
  BY FirstTask
<1>2. Fits(task, S, blocks, currentBlock) /\ currentBlock \in S
  BY <1>1 DEF Visited
<1>3. currentBlock \in Open(blocks)
  BY Working
<1>4. ~EndsInJump(blocks[currentBlock])
  BY <1>3 DEF Open
<1>5. Has(blocks[currentBlock], {}, blocks[currentBlock].trueExit, NoBlock)
  BY <1>2, <1>4, OpenBlank
<1> QED  BY <1>2, <1>5 DEF Fits

LEMMA NotSimple ==
  ASSUME task.node.kind \in ShortCircuit \cup {"If", "IfElse", "While"}
  PROVE  ~Simple(task)
<1>1. task.node \in AllNodes(task.node)
  BY RootIsNode
<1>2. {"If", "IfElse", "While"} \cap Expressions = {}
  BY Kinds
<1> QED  BY <1>1, <1>2 DEF Simple, Connectiveless

LEMMA VisitFits ==
  ASSUME NEW n \in Work, NEW i \in DOMAIN n.kids, n.kids[i] \in Inner
  PROVE  LET t == Visit(n.kids[i]) IN
         /\ t \in Tasks /\ ~IsMethod(t) /\ ToSet(t.labels) = {} /\ t.do = "visit" /\ t.node = n.kids[i]
         /\ ~RightNested(n) => \A S, bs, current : Fits(t, S, bs, current)
<1> DEFINE t == Visit(n.kids[i])
<1>1. n.kids[i] \in Nodes /\ n.kids[i].kind # "Method"
  BY InnerNode
<1>2. t \in Tasks /\ Calm(t) /\ t.node = n.kids[i]
  BY <1>1, VisitType
<1>3. t.do = "visit"
  BY DEF Visit, Task
<1> HIDE DEF t
<1>4. ~IsMethod(t) /\ ToSet(t.labels) = {}
  BY <1>2, NoLabelsIs DEF Calm
<1>5. ~RightNested(n) => ~RightNested(t.node)
  BY <1>2, NestedWithin
<1>6. ~RightNested(n) => \A S, bs, current : Fits(t, S, bs, current)
  BY <1>3, <1>4, <1>5 DEF Fits
<1> QED  BY <1>2, <1>3, <1>4, <1>6 DEF t

\* A part is visited, and then something is done that has the labels of c.
LEMMA PartThen ==
  ASSUME NEW a \in Tasks, NEW c \in Tasks
  PROVE  LET tasks == <<a, c>> IN
         /\ tasks \in Seq(Tasks) /\ DOMAIN tasks = {1, 2} /\ tasks[1] = a /\ tasks[2] = c
         /\ \A i \in DOMAIN tasks : tasks[i] \in {a, c}
         /\ a.do = "visit" /\ (c.do = "merge" => Simple(a)) => Straight(tasks)
<1> DEFINE tasks == <<a, c>>
<1>1. tasks \in Seq(Tasks) /\ DOMAIN tasks = {1, 2} /\ tasks[1] = a /\ tasks[2] = c
  OBVIOUS
<1> HIDE DEF tasks
<1>2. \A i, j \in DOMAIN tasks : i < j => i = 1 /\ j = 2
  BY <1>1
<1>3. a.do = "visit" /\ (c.do = "merge" => Simple(a)) => Straight(tasks)
  BY <1>1, <1>2 DEF Straight
<1> QED  BY <1>1, <1>3 DEF tasks

LEMMA NoTasks == <<>> \in Seq(Tasks) /\ DOMAIN <<>> = {}
<1>1. <<>> \in Seq(Tasks)
  BY EmptySeq
<1> QED  BY <1>1

LEMMA InnerKid ==
  ASSUME NEW n \in Inner, NEW k \in DOMAIN n.kids
  PROVE  n.kids[k] \in Inner
<1>1. n.kids \in Seq(Inner)
  BY InnerNode
<1> QED  BY <1>1

\* What is left to show of a step, once the sets of its blocks are known.
Settled(S, tasks, fresh, touched) ==
  /\ \A l \in touched \cup fresh : /\ Targets(blocks'[l]) \subseteq S \cup fresh
                                   /\ Coherent(blocks', agenda', currentBlock', l)
  /\ \A i \in DOMAIN tasks :
       /\ tasks[i].do = "merge" => tasks[i].labels[1] = currentBlock'
       /\ tasks[i].do = "loop end" =>
            /\ EndsInJump(blocks'[tasks[i].labels[4]])
            /\ Forks(blocks'[tasks[i].labels[4]], tasks[i].labels[2], tasks[i].labels[3])

LEMMA Moved ==
  ASSUME IInv, agenda # <<>>, ~IsMethod(task), ~Simple(task),
         NEW tasks, NEW fresh, NEW touched, Confined(tasks, fresh, touched),
         currentBlock \in touched,
         task.do = "loop body" => task.labels[2] \in touched,
         task.do = "loop end" => task.labels[4] \in touched,
         ~RightNested(task.node) => Straight(tasks) /\ \A i \in DOMAIN tasks : ~RightNested(tasks[i].node),
         \A S : S \subseteq DOMAIN blocks /\ Visited(S, blocks, agenda, currentBlock)
                  => Settled(S, tasks, fresh, touched)
  PROVE  Moving
<1>1. ASSUME NEW S, S \subseteq DOMAIN blocks, Visited(S, blocks, agenda, currentBlock)
      PROVE  Keeps(S, tasks, fresh, touched)
  <2>1. currentBlock \in S /\ ToSet(task.labels) \subseteq S /\ ~RightNested(task.node)
    BY <1>1, InPlace
  <2>2. Settled(S, tasks, fresh, touched)
    BY <1>1
  <2>3. ASSUME NEW i \in DOMAIN tasks
        PROVE  Fits(tasks[i], S \cup fresh, blocks', currentBlock')
    <3>1. ToSet(tasks[i].labels) \subseteq S \cup fresh
      BY <2>1 DEF Confined
    <3> QED  BY <2>1, <2>2, <3>1 DEF Fits, Settled
  <2> QED  BY <2>1, <2>2, <2>3 DEF Keeps, Settled
<1>2. Moves(tasks, fresh, touched)
  BY <1>1 DEF Moves
<1> QED  BY <1>2 DEF Moving

\* A step that leaves nothing to do of its task, and makes no blocks.
LEMMA EndMoves ==
  ASSUME IInv, agenda # <<>>, ~IsMethod(task), ~Simple(task), Proceed(<<>>),
         UNCHANGED <<source, scope>>, NoTemp, DOMAIN blocks' = DOMAIN blocks, NEW touched,
         \A b \in DOMAIN blocks \ touched : blocks'[b] = blocks[b],
         touched \subseteq {currentBlock} \cup ToSet(task.labels), currentBlock \in touched,
         currentBlock' \in ToSet(task.labels),
         task.do # "loop body", task.do = "loop end" => task.labels[4] \in touched,
         \A S : S \subseteq DOMAIN blocks /\ Visited(S, blocks, agenda, currentBlock) =>
           \A l \in touched : Targets(blocks'[l]) \subseteq S /\ Coherent(blocks', agenda', currentBlock', l)
  PROVE  Moving
<1>1. <<>> \in Seq(Tasks) /\ DOMAIN <<>> = {}
  BY NoTasks
<1>2. Confined(<<>>, {}, touched)
  BY <1>1 DEF Confined, Proceed, NoTemp
<1>3. Straight(<<>>)
  BY <1>1 DEF Straight
<1>4. \A S : S \subseteq DOMAIN blocks /\ Visited(S, blocks, agenda, currentBlock) => Settled(S, <<>>, {}, touched)
  BY <1>1 DEF Settled
<1> QED  BY <1>1, <1>2, <1>3, <1>4, Moved

\* A step that has a part visited, and goes on with the node.
LEMMA PartMoves ==
  ASSUME IInv, agenda # <<>>, ~IsMethod(task), ~Simple(task),
         NEW k \in DOMAIN task.node.kids, task.node \in Inner, NEW c \in Tasks, c.node = task.node, c.do # "visit",
         Proceed(<<Visit(task.node.kids[k]), c>>),
         UNCHANGED <<source, scope>>, DOMAIN temps' = DOMAIN temps,
         NEW fresh, NEW touched, DOMAIN blocks' = DOMAIN blocks \cup fresh,
         fresh \cap (DOMAIN blocks \cup DOMAIN temps) = {},
         \A b \in DOMAIN blocks \ touched : blocks'[b] = blocks[b],
         touched \subseteq {currentBlock} \cup ToSet(task.labels), currentBlock \in touched,
         currentBlock' \in {currentBlock} \cup ToSet(task.labels) \cup fresh,
         ToSet(c.labels) \subseteq {currentBlock} \cup ToSet(task.labels) \cup fresh,
         task.do # "loop end", task.do = "loop body" => task.labels[2] \in touched,
         c.do = "merge" /\ ~RightNested(task.node) => Simple(Visit(task.node.kids[k])),
         c.do = "merge" => c.labels[1] = currentBlock',
         \A S : S \subseteq DOMAIN blocks /\ Visited(S, blocks, agenda, currentBlock) =>
           /\ \A l \in touched \cup fresh : /\ Targets(blocks'[l]) \subseteq S \cup fresh
                                            /\ Coherent(blocks', agenda', currentBlock', l)
           /\ c.do = "loop end" => /\ EndsInJump(blocks'[c.labels[4]])
                                   /\ Forks(blocks'[c.labels[4]], c.labels[2], c.labels[3])
  PROVE  Moving
<1> DEFINE a == Visit(task.node.kids[k])
           tasks == <<a, c>>
<1>1. task.node \in Work /\ task.node.kids[k] \in Inner
  <2>1. task.node.kids[k] \in Inner
    BY InnerKid
  <2> QED  BY <2>1 DEF Work
<1>2. /\ a \in Tasks /\ ~IsMethod(a) /\ ToSet(a.labels) = {} /\ a.do = "visit"
      /\ ~RightNested(task.node) => ~RightNested(a.node)
  <2>1. a.node = task.node.kids[k]
    BY DEF Visit, Task
  <2> QED  BY <1>1, <2>1, VisitFits, NestedWithin, ZenonT(60)
<1>3. Proceed(tasks) /\ (c.do = "merge" /\ ~RightNested(task.node) => Simple(a)) /\ ~IsMethod(c)
  BY DEF IsMethod
<1> HIDE DEF a
<1>4. /\ tasks \in Seq(Tasks) /\ DOMAIN tasks = {1, 2} /\ tasks[1] = a /\ tasks[2] = c
      /\ \A i \in DOMAIN tasks : tasks[i] \in {a, c}
      /\ a.do = "visit" /\ (c.do = "merge" => Simple(a)) => Straight(tasks)
  BY <1>2, PartThen
<1> HIDE DEF tasks
<1>5. Confined(tasks, fresh, touched)
  BY <1>2, <1>3, <1>4 DEF Confined, Proceed
<1>6. ~RightNested(task.node) => Straight(tasks) /\ \A i \in DOMAIN tasks : ~RightNested(tasks[i].node)
  BY <1>2, <1>3, <1>4
<1>7. ASSUME NEW S, S \subseteq DOMAIN blocks, Visited(S, blocks, agenda, currentBlock)
      PROVE  Settled(S, tasks, fresh, touched)
  BY <1>2, <1>4, <1>7 DEF Settled
<1> QED  BY <1>5, <1>6, <1>7, Moved

\* The labels of the first task name blocks.
LEMMA LabelOf ==
  ASSUME IInv, agenda # <<>>, ~IsMethod(task), NEW i \in DOMAIN task.labels
  PROVE  /\ task.labels[i] \in Texts \cap DOMAIN blocks /\ task.labels[i] # NoBlock
         /\ task.labels[i] \in ToSet(task.labels)
<1>1. task.labels[i] \in Texts \cap DOMAIN blocks
  BY Working
<1>2. NoBlock \notin DOMAIN blocks
  BY RealBlocks
<1>3. task.labels[i] \in ToSet(task.labels)
  BY DEF ToSet
<1> QED  BY <1>1, <1>2, <1>3

LEMMA HasOwn ==
  ASSUME NEW block
  PROVE  Has(block, Jumps(block.code), block.trueExit, block.falseExit)
BY DEF Has

LEMMA OneExit ==
  ASSUME NEW bs, NEW tasks, NEW current, NEW l, NEW x \in Texts, x # NoBlock,
         Has(bs[l], {Jump(x)}, x, NoBlock), EndsInJump(bs[l])
  PROVE  Targets(bs[l]) = {x} /\ Coherent(bs, tasks, current, l)
BY OneJump DEF Coherent

\* The current block goes to x, and that is all.
LEMMA ClosedMoves ==
  ASSUME NEW bs, AllSound(bs), NEW l \in DOMAIN bs, NEW x \in Texts \cap DOMAIN bs
  PROVE  LET new == Closed(bs, l, x) IN
         /\ OnlyAt(bs, l, new) /\ EndsInJump(new[l])
         /\ \A t : Has(bs[l], {}, t, NoBlock) => Has(new[l], {Jump(x)}, x, NoBlock)
<1> DEFINE new == Closed(bs, l, x)
<1>1. OnlyAt(bs, l, new) /\ EndsInJump(new[l])
  BY HasOwn, ClosedHas
<1>2. ASSUME NEW t, Has(bs[l], {}, t, NoBlock)
      PROVE  Has(new[l], {Jump(x)}, x, NoBlock)
  <2>1. Has(new[l], {} \cup {Jump(x)}, x, NoBlock)
    BY <1>2, ClosedHas
  <2>2. {} \cup {Jump(x)} = {Jump(x)}
    OBVIOUS
  <2> QED  BY <2>1, <2>2
<1> HIDE DEF new
<1> QED  BY <1>1, <1>2 DEF new

LEMMA EndBranchMoves == IInv /\ EndBranch => Moving
<1> SUFFICES ASSUME IInv, EndBranch
             PROVE  Moving
  OBVIOUS
<1> DEFINE join == task.labels[1]
           next == task.labels[2]
           cur == currentBlock
           new == Closed(blocks, cur, join)
<1>1. /\ agenda # <<>> /\ task.do = "end"
      /\ blocks' = new /\ currentBlock' = next
      /\ Proceed(<<>>) /\ UNCHANGED <<source, scope>> /\ NoTemp
  BY DEF EndBranch, Doing
<1>2. ~IsMethod(task) /\ task \in Tasks /\ Shaped(task)
  BY <1>1, AtWork
<1>3. task.node.kind \in {"If", "IfElse"} /\ DOMAIN task.labels = {1, 2}
  <2>1. task.labels \in Seq(Texts)
    BY <1>2 DEF Tasks
  <2>2. task.node.kind \in {"If", "IfElse"} /\ Len(task.labels) = 2
    BY <1>1, <1>2 DEF Shaped
  <2> QED  BY <2>1, <2>2
<1>4. ~Simple(task)
  BY <1>3, NotSimple
<1>5. /\ join \in Texts \cap DOMAIN blocks /\ join # NoBlock /\ join \in ToSet(task.labels)
      /\ next \in ToSet(task.labels)
  BY <1>1, <1>2, <1>3, LabelOf
<1>6. cur \in DOMAIN blocks /\ AllSound(blocks)
  BY <1>1, <1>2, Working
<1>7. /\ OnlyAt(blocks, cur, new) /\ EndsInJump(new[cur])
      /\ \A t : Has(blocks[cur], {}, t, NoBlock) => Has(new[cur], {Jump(join)}, join, NoBlock)
  BY <1>5, <1>6, ClosedMoves
<1> HIDE DEF new, join, next
<1>8. DOMAIN blocks' = DOMAIN blocks /\ \A b \in DOMAIN blocks \ {cur} : blocks'[b] = blocks[b]
  BY <1>1, <1>7 DEF OnlyAt
<1>9. ASSUME NEW S, S \subseteq DOMAIN blocks, Visited(S, blocks, agenda, currentBlock)
      PROVE  Targets(blocks'[cur]) \subseteq S /\ Coherent(blocks', agenda', currentBlock', cur)
  <2>1. ToSet(task.labels) \subseteq S /\ Has(blocks[cur], {}, blocks[cur].trueExit, NoBlock)
    BY <1>1, <1>2, <1>9, InPlace
  <2>2. Has(blocks'[cur], {Jump(join)}, join, NoBlock) /\ EndsInJump(blocks'[cur])
    BY <1>1, <1>7, <2>1
  <2>3. Targets(blocks'[cur]) = {join} /\ Coherent(blocks', agenda', currentBlock', cur)
    BY <1>5, <2>2, OneExit
  <2> QED  BY <1>5, <2>1, <2>3
<1>10. task.do # "loop body" /\ task.do # "loop end"
  BY <1>1
<1> QED  BY <1>1, <1>2, <1>4, <1>5, <1>8, <1>9, <1>10, EndMoves

\* The current block goes to x or to y, where c fails.
LEMMA JumpsMove ==
  ASSUME NEW bs, AllSound(bs), NEW l \in DOMAIN bs, NEW c \in Operands,
         NEW x \in Texts \cap DOMAIN bs, NEW y \in Texts \cap DOMAIN bs
  PROVE  LET new == WithCode(bs, l, <<CondJump(y, c), Jump(x)>>) IN
         /\ OnlyAt(bs, l, new) /\ EndsInJump(new[l])
         /\ \A t : Has(bs[l], {}, t, NoBlock) => Has(new[l], {CondJump(y, c), Jump(x)}, t, NoBlock)
<1> DEFINE code == <<CondJump(y, c), Jump(x)>>
           both == {CondJump(y, c), Jump(x)}
           new == WithCode(bs, l, code)
<1>1. Accept(code, DOMAIN bs) /\ Jumps(code) = both /\ Last(code).op \in Ends /\ code # <<>>
  BY JumpTypes
<1> HIDE DEF code, both
<1>2. OnlyAt(bs, l, new) /\ EndsInJump(new[l])
  <2>1. OnlyAt(bs, l, new)
    BY <1>1, HasOwn, CodeAdded
  <2>2. EndsInJump(new[l])
    BY <1>1, WithCodeIs
  <2> QED  BY <2>1, <2>2
<1>3. ASSUME NEW t, Has(bs[l], {}, t, NoBlock)
      PROVE  Has(new[l], both, t, NoBlock)
  <2>1. Has(new[l], {} \cup Jumps(code), t, NoBlock)
    BY <1>1, <1>3, CodeAdded
  <2>2. {} \cup Jumps(code) = both
    BY <1>1
  <2> QED  BY <2>1, <2>2
<1> HIDE DEF new
<1> QED  BY <1>2, <1>3 DEF new, code, both

LEMMA ExitsMove ==
  ASSUME NEW bs, AllSound(bs), NEW l \in DOMAIN bs,
         NEW x \in Texts \cap DOMAIN bs, NEW y \in Texts \cap DOMAIN bs
  PROVE  LET new == WithExits(bs, l, x, y) IN
         /\ OnlyAt(bs, l, new) /\ new[l].code = bs[l].code
         /\ new[l].trueExit = x /\ new[l].falseExit = y
         /\ \A jumps, t, f : Has(bs[l], jumps, t, f) => Has(new[l], jumps, x, y)
<1> DEFINE new == WithExits(bs, l, x, y)
<1>1. /\ OnlyAt(bs, l, new) /\ new[l].code = bs[l].code
      /\ Has(new[l], Jumps(bs[l].code), x, y)
  BY HasOwn, ExitsSet
<1>2. ASSUME NEW jumps, NEW t, NEW f, Has(bs[l], jumps, t, f)
      PROVE  Has(new[l], jumps, x, y)
  BY <1>2, ExitsSet
<1> HIDE DEF new
<1>3. new[l].trueExit = x /\ new[l].falseExit = y
  BY <1>1 DEF Has
<1> QED  BY <1>1, <1>2, <1>3 DEF new

LEMMA PartedMoves ==
  ASSUME NEW bs, AllSound(bs), NEW l \in DOMAIN bs, NEW c \in Operands,
         NEW x \in Texts \cap DOMAIN bs, NEW y \in Texts \cap DOMAIN bs
  PROVE  LET new == WithExits(WithCode(bs, l, <<CondJump(y, c), Jump(x)>>), l, x, y) IN
         /\ OnlyAt(bs, l, new) /\ EndsInJump(new[l])
         /\ \A t : Has(bs[l], {}, t, NoBlock) => Has(new[l], {CondJump(y, c), Jump(x)}, x, y)
<1> DEFINE mid == WithCode(bs, l, <<CondJump(y, c), Jump(x)>>)
           both == {CondJump(y, c), Jump(x)}
           new == WithExits(mid, l, x, y)
<1>1. /\ OnlyAt(bs, l, mid) /\ EndsInJump(mid[l])
      /\ \A t : Has(bs[l], {}, t, NoBlock) => Has(mid[l], both, t, NoBlock)
  BY JumpsMove
<1> HIDE DEF mid, both
<1>2. AllSound(mid) /\ DOMAIN mid = DOMAIN bs
  BY <1>1 DEF OnlyAt
<1>3. /\ OnlyAt(mid, l, new) /\ new[l].code = mid[l].code
      /\ \A jumps, t, f : Has(mid[l], jumps, t, f) => Has(new[l], jumps, x, y)
  BY <1>2, ExitsMove
<1> HIDE DEF new
<1>4. OnlyAt(bs, l, new)
  BY <1>1, <1>3, OnlyAtTwice
<1>5. EndsInJump(new[l])
  BY <1>1, <1>3 DEF EndsInJump
<1> QED  BY <1>1, <1>3, <1>4, <1>5 DEF new, mid, both

LEMMA TwoWays ==
  ASSUME NEW bs, NEW tasks, NEW current, NEW l, NEW x, NEW y, NEW c, x # NoBlock, y # NoBlock,
         Has(bs[l], {CondJump(y, c), Jump(x)}, x, y), EndsInJump(bs[l])
  PROVE  Targets(bs[l]) = {x, y} /\ Coherent(bs, tasks, current, l)
<1>1. Forks(bs[l], x, y)
  BY TwoTargets
<1>2. bs[l].trueExit = x /\ bs[l].falseExit = y
  BY DEF Has
<1>3. ExitsFollowCode(bs[l])
  BY <1>1, <1>2, TwoExits
<1> QED  BY <1>1, <1>3 DEF Forks, Coherent

\* The block l, if it was blank, goes on at x, and is all that changed.
GoesOn(bs, l, x, new) ==
  /\ OnlyAt(bs, l, new) /\ EndsInJump(new[l])
  /\ \A t : Has(bs[l], {}, t, NoBlock) => Has(new[l], {Jump(x)}, x, NoBlock)

LEMMA DecidedMoves ==
  ASSUME NEW bs, AllSound(bs), NEW l \in DOMAIN bs, NEW x \in Texts \cap DOMAIN bs, NEW n \in Int,
         task.name \in Texts
  PROVE  GoesOn(bs, l, x, Decided(bs, l, n, x))
<1> DEFINE new == Decided(bs, l, n, x)
<1>1. OnlyAt(bs, l, new) /\ EndsInJump(new[l])
  BY HasOwn, DecidedHas
<1>2. ASSUME NEW t, Has(bs[l], {}, t, NoBlock)
      PROVE  Has(new[l], {Jump(x)}, x, NoBlock)
  <2>1. Has(new[l], {} \cup {Jump(x)}, x, NoBlock)
    BY <1>2, DecidedHas
  <2>2. {} \cup {Jump(x)} = {Jump(x)}
    OBVIOUS
  <2> QED  BY <2>1, <2>2
<1> HIDE DEF new
<1> QED  BY <1>1, <1>2 DEF new, GoesOn

LEMMA LatestIs ==
  ASSUME IInv, agenda # <<>>, ~IsMethod(task), Takes(task) = 1
  PROVE  Operand(0) \in Operands
<1>1. Len(values) \in Nat /\ values \in Seq(Operands) /\ Len(values) >= 1
  BY Working
<1>2. 0 \in 0 .. Len(values) - 1 /\ 1 \in 0 .. Len(values)
  BY <1>1
<1> QED  BY <1>1, <1>2, ValuesLeft

\* A block that the visitor has still to fill and that no loop waits for.
LEMMA OwnedIs ==
  ASSUME IInv, agenda # <<>>, ~IsMethod(task), NEW S, Visited(S, blocks, agenda, currentBlock),
         NEW l \in Owned(task)
  PROVE  /\ l # currentBlock /\ ~EndsInJump(blocks[l])
         /\ l \in S => Has(blocks[l], {}, blocks[l].trueExit, NoBlock)
<1>1. l \in Open(blocks) \ {currentBlock}
  BY Working
<1> QED  BY <1>1, OpenBlank DEF Open

LEMMA MergeMoves == IInv /\ Merge => Moving
<1> SUFFICES ASSUME IInv, Merge
             PROVE  Moving
  OBVIOUS
<1> DEFINE rhs == task.labels[1]
           true == task.labels[2]
           false == task.labels[3]
           join == task.labels[4]
           cur == currentBlock
           o == Operand(0)
           both == {CondJump(false, o), Jump(true)}
           mid == WithCode(blocks, cur, <<CondJump(false, o), Jump(true)>>)
           built == WithExits(mid, rhs, true, false)
           one == Decided(built, true, 1, join)
           two == Decided(one, false, 0, join)
           touched == {cur, rhs, true, false}
<1>1. /\ agenda # <<>> /\ task.do = "merge"
      /\ blocks' = two /\ currentBlock' = join
      /\ Proceed(<<>>) /\ UNCHANGED <<source, scope>> /\ NoTemp
  BY DEF Merge, Doing
<1>2. ~IsMethod(task) /\ task \in Tasks /\ Shaped(task) /\ Apart(task)
  BY <1>1, AtWork, Working
<1>3. /\ task.node.kind \in ShortCircuit /\ DOMAIN task.labels = {1, 2, 3, 4} /\ task.name \in Texts
      /\ Places(task) = {2, 3, 4}
  <2>1. task.labels \in Seq(Texts) /\ task.name \in Texts
    BY <1>2 DEF Tasks
  <2>2. task.node.kind \in ShortCircuit /\ Len(task.labels) = 4 /\ Places(task) = {2, 3, 4}
    BY <1>1, <1>2 DEF Shaped, Places
  <2> QED  BY <2>1, <2>2
<1>4. ~Simple(task)
  BY <1>3, NotSimple
<1>5. /\ rhs \in Texts \cap DOMAIN blocks /\ rhs \in ToSet(task.labels)
      /\ true \in Texts \cap DOMAIN blocks /\ true # NoBlock /\ true \in ToSet(task.labels)
      /\ false \in Texts \cap DOMAIN blocks /\ false # NoBlock /\ false \in ToSet(task.labels)
      /\ join \in Texts \cap DOMAIN blocks /\ join # NoBlock /\ join \in ToSet(task.labels)
  BY <1>1, <1>2, <1>3, LabelOf
<1>6. Owned(task) = {true, false, join} /\ true # false
  BY <1>2, <1>3 DEF Owned, Apart
<1>7. cur \in DOMAIN blocks /\ AllSound(blocks) /\ o \in Operands
  <2>1. Takes(task) = 1
    BY <1>1 DEF Takes
  <2> QED  BY <1>1, <1>2, <2>1, Working, LatestIs
<1>8. /\ OnlyAt(blocks, cur, mid) /\ EndsInJump(mid[cur])
      /\ \A t : Has(blocks[cur], {}, t, NoBlock) => Has(mid[cur], both, t, NoBlock)
  <2> HIDE DEF o, true, false
  <2> QED  BY <1>5, <1>7, JumpsMove
<1> HIDE DEF rhs, true, false, join, o, mid, two, both
<1>9. AllSound(mid) /\ DOMAIN mid = DOMAIN blocks
  BY <1>8 DEF OnlyAt
<1>10. /\ OnlyAt(mid, rhs, built) /\ built[rhs].code = mid[rhs].code
       /\ \A jumps, t, f : Has(mid[rhs], jumps, t, f) => Has(built[rhs], jumps, true, false)
  BY <1>5, <1>9, ExitsMove
<1> HIDE DEF built
<1>11. AllSound(built) /\ DOMAIN built = DOMAIN blocks
  BY <1>9, <1>10 DEF OnlyAt
<1>12. GoesOn(built, true, join, one)
  <2>1. true \in DOMAIN built /\ join \in Texts \cap DOMAIN built /\ 1 \in Int
    BY <1>5, <1>11
  <2> QED  BY <1>3, <1>11, <2>1, DecidedMoves
<1> HIDE DEF one
<1>13. AllSound(one) /\ DOMAIN one = DOMAIN blocks
  BY <1>11, <1>12 DEF OnlyAt, GoesOn
<1>14. GoesOn(one, false, join, two)
  <2>1. false \in DOMAIN one /\ join \in Texts \cap DOMAIN one /\ 0 \in Int
    BY <1>5, <1>13
  <2>2. GoesOn(one, false, join, Decided(one, false, 0, join))
    BY <1>3, <1>13, <2>1, DecidedMoves
  <2> QED  BY <2>2 DEF two
<1>15. /\ DOMAIN two = DOMAIN blocks
       /\ \A b \in DOMAIN blocks \ {cur} : mid[b] = blocks[b]
       /\ \A b \in DOMAIN blocks \ {rhs} : built[b] = mid[b]
       /\ \A b \in DOMAIN blocks \ {true} : one[b] = built[b]
       /\ \A b \in DOMAIN blocks \ {false} : two[b] = one[b]
  BY <1>8, <1>9, <1>10, <1>11, <1>12, <1>13, <1>14 DEF OnlyAt, GoesOn
<1>16. ASSUME NEW S, S \subseteq DOMAIN blocks, Visited(S, blocks, agenda, currentBlock), NEW l \in touched
       PROVE  Targets(blocks'[l]) \subseteq S /\ Coherent(blocks', agenda', currentBlock', l)
  <2>1. /\ ToSet(task.labels) \subseteq S /\ rhs = cur
        /\ Has(blocks[cur], {}, blocks[cur].trueExit, NoBlock)
    BY <1>1, <1>2, <1>16, InPlace DEF rhs
  <2>2. /\ true # cur /\ Has(blocks[true], {}, blocks[true].trueExit, NoBlock)
        /\ false # cur /\ Has(blocks[false], {}, blocks[false].trueExit, NoBlock)
    BY <1>1, <1>2, <1>5, <1>6, <1>16, <2>1, OwnedIs
  <2>3. CASE l = cur
    <3>1. Has(built[cur], both, true, false)
      BY <1>8, <1>10, <2>1
    <3>2. EndsInJump(built[cur])
      BY <1>8, <1>10, <2>1 DEF EndsInJump
    <3>3. blocks'[cur] = built[cur]
      BY <1>1, <1>7, <1>15, <2>2
    <3>4. Targets(blocks'[cur]) = {true, false} /\ Coherent(blocks', agenda', currentBlock', cur)
      BY <1>5, <3>1, <3>2, <3>3, TwoWays DEF both
    <3> QED  BY <1>5, <2>1, <2>3, <3>4
  <2>4. CASE l = true
    <3>1. built[true] = blocks[true]
      BY <1>5, <1>15, <2>1, <2>2
    <3>2. Has(one[true], {Jump(join)}, join, NoBlock)
      BY <1>12, <2>2, <3>1 DEF GoesOn
    <3>3. blocks'[true] = one[true]
      BY <1>1, <1>5, <1>6, <1>15
    <3>4. Targets(blocks'[true]) = {join} /\ Coherent(blocks', agenda', currentBlock', true)
      BY <1>5, <1>12, <3>2, <3>3, OneExit DEF GoesOn
    <3> QED  BY <1>5, <2>1, <2>4, <3>4
  <2>5. CASE l = false
    <3>1. one[false] = blocks[false]
      BY <1>5, <1>6, <1>15, <2>1, <2>2
    <3>2. Has(blocks'[false], {Jump(join)}, join, NoBlock) /\ EndsInJump(blocks'[false])
      BY <1>1, <1>14, <2>2, <3>1 DEF GoesOn
    <3>3. Targets(blocks'[false]) = {join} /\ Coherent(blocks', agenda', currentBlock', false)
      BY <1>5, <3>2, OneExit
    <3> QED  BY <1>5, <2>1, <2>5, <3>3
  <2> QED  BY <1>16, <2>1, <2>3, <2>4, <2>5
<1>17. \A b \in DOMAIN blocks \ touched : blocks'[b] = blocks[b]
  BY <1>1, <1>15
<1>18. touched \subseteq {currentBlock} \cup ToSet(task.labels) /\ currentBlock \in touched
  BY <1>5
<1>19. DOMAIN blocks' = DOMAIN blocks /\ currentBlock' \in ToSet(task.labels)
  BY <1>1, <1>5, <1>15
<1> HIDE DEF touched
<1>20. task.do # "loop body" /\ task.do # "loop end"
  BY <1>1
<1> QED  BY <1>1, <1>2, <1>4, <1>16, <1>17, <1>18, <1>19, <1>20, EndMoves

LEMMA LoopEndMoves == IInv /\ LoopEnd => Moving
<1> SUFFICES ASSUME IInv, LoopEnd
             PROVE  Moving
  OBVIOUS
<1> DEFINE header == task.labels[1]
           body == task.labels[2]
           join == task.labels[3]
           condition == task.labels[4]
           cur == currentBlock
           mid == Closed(blocks, cur, header)
           new == WithExits(mid, condition, body, join)
           touched == {cur, condition}
<1>1. /\ agenda # <<>> /\ task.do = "loop end"
      /\ blocks' = new /\ currentBlock' = join
      /\ Proceed(<<>>) /\ UNCHANGED <<source, scope>> /\ NoTemp
  BY DEF LoopEnd, Doing
<1>2. ~IsMethod(task) /\ task \in Tasks /\ Shaped(task)
  BY <1>1, AtWork
<1>3. task.node.kind = "While" /\ DOMAIN task.labels = {1, 2, 3, 4}
  <2>1. task.labels \in Seq(Texts)
    BY <1>2 DEF Tasks
  <2>2. task.node.kind = "While" /\ Len(task.labels) = 4
    BY <1>1, <1>2 DEF Shaped
  <2> QED  BY <2>1, <2>2
<1>4. ~Simple(task)
  BY <1>3, NotSimple
<1>5. /\ header \in Texts \cap DOMAIN blocks /\ header # NoBlock /\ header \in ToSet(task.labels)
      /\ body \in Texts \cap DOMAIN blocks /\ body # NoBlock /\ body \in ToSet(task.labels)
      /\ join \in Texts \cap DOMAIN blocks /\ join # NoBlock /\ join \in ToSet(task.labels)
      /\ condition \in DOMAIN blocks /\ condition \in ToSet(task.labels)
  BY <1>1, <1>2, <1>3, LabelOf
<1>6. cur \in DOMAIN blocks /\ cur \in Open(blocks) /\ AllSound(blocks)
  BY <1>1, <1>2, Working
<1>7. /\ OnlyAt(blocks, cur, mid) /\ EndsInJump(mid[cur])
      /\ \A t : Has(blocks[cur], {}, t, NoBlock) => Has(mid[cur], {Jump(header)}, header, NoBlock)
  BY <1>5, <1>6, ClosedMoves
<1> HIDE DEF header, body, join, condition, mid
<1>8. AllSound(mid) /\ DOMAIN mid = DOMAIN blocks
  BY <1>7 DEF OnlyAt
<1>9. /\ OnlyAt(mid, condition, new) /\ new[condition].code = mid[condition].code
      /\ new[condition].trueExit = body /\ new[condition].falseExit = join
  BY <1>5, <1>8, ExitsMove
<1> HIDE DEF new
<1>10. /\ DOMAIN new = DOMAIN blocks
       /\ \A b \in DOMAIN blocks \ {cur} : mid[b] = blocks[b]
       /\ \A b \in DOMAIN blocks \ {condition} : new[b] = mid[b]
  BY <1>7, <1>8, <1>9 DEF OnlyAt
<1>11. ASSUME NEW S, S \subseteq DOMAIN blocks, Visited(S, blocks, agenda, currentBlock), NEW l \in touched
       PROVE  Targets(blocks'[l]) \subseteq S /\ Coherent(blocks', agenda', currentBlock', l)
  <2>1. /\ ToSet(task.labels) \subseteq S /\ Has(blocks[cur], {}, blocks[cur].trueExit, NoBlock)
        /\ EndsInJump(blocks[condition]) /\ Forks(blocks[condition], body, join)
    BY <1>1, <1>2, <1>11, InPlace DEF condition, body, join
  <2>2. condition # cur
    BY <1>6, <2>1 DEF Open
  <2>3. CASE l = cur
    <3>1. Has(blocks'[cur], {Jump(header)}, header, NoBlock) /\ EndsInJump(blocks'[cur])
      BY <1>1, <1>6, <1>7, <1>10, <2>1, <2>2
    <3>2. Targets(blocks'[cur]) = {header} /\ Coherent(blocks', agenda', currentBlock', cur)
      BY <1>5, <3>1, OneExit
    <3> QED  BY <1>5, <2>1, <2>3, <3>2
  <2>4. CASE l = condition
    <3> DEFINE b == blocks'[condition]
               a == blocks[condition]
    <3>1. b.code = a.code /\ b.trueExit = body /\ b.falseExit = join
      BY <1>1, <1>5, <1>9, <1>10, <2>2
    <3>2. EndsInJump(a) /\ Forks(a, body, join)
      BY <2>1
    <3> HIDE DEF a, b
    <3>3. EndsInJump(b) /\ Forks(b, body, join)
      BY <3>1, <3>2 DEF EndsInJump, Forks, Targets
    <3>4. ExitsFollowCode(b)
      BY <1>5, <3>1, <3>3, TwoExits
    <3>5. Targets(b) = {body, join}
      BY <3>3 DEF Forks
    <3> QED  BY <1>5, <2>1, <2>4, <3>3, <3>4, <3>5 DEF b, Coherent
  <2> QED  BY <1>11, <2>3, <2>4
<1>12. \A b \in DOMAIN blocks \ touched : blocks'[b] = blocks[b]
  BY <1>1, <1>10
<1>13. /\ touched \subseteq {currentBlock} \cup ToSet(task.labels) /\ currentBlock \in touched
       /\ task.labels[4] \in touched
  BY <1>5 DEF condition
<1>14. DOMAIN blocks' = DOMAIN blocks /\ currentBlock' \in ToSet(task.labels)
  BY <1>1, <1>5, <1>10
<1> HIDE DEF touched
<1>15. task.do # "loop body"
  BY <1>1
<1> QED  BY <1>1, <1>2, <1>4, <1>11, <1>12, <1>13, <1>14, <1>15, EndMoves

-----------------------------------------------------------------------------
(***************************************************************************)
(* Steps that go on in another block.                                      *)
(***************************************************************************)
\* What is put on the agenda is there.
LEMMA NowToDo ==
  ASSUME IInv, agenda # <<>>, NEW a \in Tasks, NEW c \in Tasks, Proceed(<<a, c>>)
  PROVE  \E i \in DOMAIN agenda' : agenda'[i] = c
<1> DEFINE tasks == <<a, c>>
           all == tasks \o Tail(agenda)
<1>1. tasks \in Seq(Tasks) /\ 2 \in DOMAIN tasks /\ tasks[2] = c
  OBVIOUS
<1>2. agenda \in Seq(Tasks) /\ agenda' = all
  BY DEF IInv, Agenda, Proceed
<1> HIDE DEF tasks
<1>3. From(agenda, all, tasks)
  BY <1>1, <1>2, Follows
<1> HIDE DEF all
<1>4. \E i \in DOMAIN all : all[i] = tasks[2]
  BY <1>1, <1>3 DEF From
<1> QED  BY <1>1, <1>2, <1>4

LEMMA KidCount ==
  ASSUME NEW n \in Inner
  PROVE  /\ n.kind \in ShortCircuit \cup {"If", "IfElse", "While"} => 1 \in DOMAIN n.kids /\ 2 \in DOMAIN n.kids
         /\ n.kind \in ShortCircuit \cup {"If", "While"} => Len(n.kids) = 2
         /\ n.kind = "IfElse" => Len(n.kids) = 3 /\ 3 \in DOMAIN n.kids
<1>1. n.kids \in Seq(Inner) /\ WellFormed(n)
  BY InnerNode
<1>2. /\ n.kind \in ShortCircuit \cup {"If", "While"} => Len(n.kids) = 2
      /\ n.kind = "IfElse" => Len(n.kids) = 3
  BY <1>1, Kinds DEF WellFormed
<1> QED  BY <1>1, <1>2

LEMMA Appended ==
  ASSUME NEW s \in Seq(Texts), NEW x \in Texts
  PROVE  /\ Append(s, x) \in Seq(Texts) /\ Len(Append(s, x)) = Len(s) + 1
         /\ \A i \in 1 .. Len(s) : Append(s, x)[i] = s[i]
         /\ Append(s, x)[Len(s) + 1] = x
BY AppendProperties

\* A label added behind three others.
LEMMA FourLabels ==
  ASSUME NEW s \in Seq(Texts), Len(s) = 3, NEW x \in Texts
  PROVE  /\ Append(s, x) \in Seq(Texts) /\ DOMAIN Append(s, x) = 1 .. 4
         /\ Append(s, x)[1] = s[1] /\ Append(s, x)[2] = s[2] /\ Append(s, x)[3] = s[3]
         /\ Append(s, x)[4] = x
         /\ ToSet(Append(s, x)) \subseteq {x} \cup ToSet(s)
<1> DEFINE L == Append(s, x)
<1>1. /\ L \in Seq(Texts) /\ Len(L) = 4 /\ L[4] = x /\ \A i \in 1 .. 3 : L[i] = s[i]
  <2>1. /\ L \in Seq(Texts) /\ Len(L) = Len(s) + 1
        /\ \A i \in 1 .. Len(s) : L[i] = s[i]
        /\ L[Len(s) + 1] = x
    BY Appended, Zenon
  <2> HIDE DEF L
  <2> QED  BY <2>1
<1> HIDE DEF L
<1>2. DOMAIN L = 1 .. 4 /\ DOMAIN s = 1 .. 3 /\ \A i \in 1 .. 4 : i \in 1 .. 3 \/ i = 4
  BY <1>1
<1>3. \A i \in DOMAIN L : L[i] \in {x} \cup ToSet(s)
  BY <1>1, <1>2 DEF ToSet
<1>4. ToSet(L) \subseteq {x} \cup ToSet(s)
  BY <1>3 DEF ToSet
<1>5. L[1] = s[1] /\ L[2] = s[2] /\ L[3] = s[3]
  BY <1>1
<1> QED  BY <1>1, <1>2, <1>4, <1>5 DEF L

LEMMA LoopBodyMoves == IInv /\ LoopBody => Moving
<1> SUFFICES ASSUME IInv, LoopBody
             PROVE  Moving
  OBVIOUS
<1> DEFINE body == task.labels[2]
           join == task.labels[3]
           cur == currentBlock
           L == Append(task.labels, cur)
           o == Operand(0)
           c == Task("loop end", task.node, L, <<>>)
           a == Visit(task.node.kids[2])
           new == WithCode(blocks, cur, <<CondJump(join, o), Jump(body)>>)
           both == {CondJump(join, o), Jump(body)}
           touched == {cur, body}
<1>1. /\ agenda # <<>> /\ task.do = "loop body"
      /\ blocks' = new /\ currentBlock' = body
      /\ Proceed(<<a, c>>) /\ UNCHANGED <<source, scope>> /\ NoTemp
  BY DEF LoopBody, LoopJumps, ConditionBlock, Emit, Doing
<1>2. ~IsMethod(task) /\ task \in Tasks /\ task.node \in Nodes /\ Shaped(task)
  BY <1>1, AtWork
<1>3. /\ task.node.kind = "While" /\ Takes(task) = 1 /\ Places(task) = {2, 3}
      /\ task.labels \in Seq(Texts) /\ Len(task.labels) = 3
  <2>1. task.labels \in Seq(Texts)
    BY <1>2 DEF Tasks
  <2> QED  BY <1>1, <1>2, <2>1 DEF Shaped, Takes, Places
<1>4. task.node \in Inner /\ 2 \in DOMAIN task.node.kids /\ task.node.kids[2] \in Inner /\ ~Simple(task)
  <2>1. task.node \in Inner
    BY <1>2, <1>3, WhileNode
  <2> QED  BY <1>3, <2>1, KidCount, InnerKid, NotSimple
<1>5. /\ body \in Texts \cap DOMAIN blocks /\ body # NoBlock /\ body \in ToSet(task.labels)
      /\ join \in Texts \cap DOMAIN blocks /\ join # NoBlock /\ join \in ToSet(task.labels)
  <2>1. 2 \in DOMAIN task.labels /\ 3 \in DOMAIN task.labels
    BY <1>3
  <2> QED  BY <1>1, <1>2, <2>1, LabelOf
<1>6. cur \in Texts \cap DOMAIN blocks /\ AllSound(blocks) /\ o \in Operands
  BY <1>1, <1>2, <1>3, Working, LatestIs
<1>7. body \in Owned(task)
  BY <1>3 DEF Owned
<1>8. /\ L \in Seq(Texts) /\ L[2] = body /\ L[3] = join /\ L[4] = cur
      /\ ToSet(L) \subseteq {cur} \cup ToSet(task.labels)
  BY <1>3, <1>6, FourLabels, Zenon
<1>9. a \in Tasks
  <2>1. task.node \in Work
    BY <1>4 DEF Work
  <2> QED  BY <1>4, <2>1, VisitFits
<1>10. c \in Tasks /\ c.do = "loop end" /\ c.node = task.node /\ c.labels = L
  BY <1>2, <1>8, NoLabels DEF Task, Tasks, Continuations
<1>11. /\ OnlyAt(blocks, cur, new) /\ EndsInJump(new[cur])
       /\ \A t : Has(blocks[cur], {}, t, NoBlock) => Has(new[cur], both, t, NoBlock)
  <2> HIDE DEF o, body, join
  <2> QED  BY <1>5, <1>6, JumpsMove
<1> HIDE DEF new, body, join, L, o, a, c, both
<1>12. DOMAIN blocks' = DOMAIN blocks /\ \A b \in DOMAIN blocks \ {cur} : blocks'[b] = blocks[b]
  BY <1>1, <1>11 DEF OnlyAt
<1>13. \E i \in DOMAIN agenda' : agenda'[i].do = "loop end" /\ agenda'[i].labels[4] = cur
  <2>1. \E i \in DOMAIN agenda' : agenda'[i] = c
    BY <1>1, <1>9, <1>10, NowToDo
  <2> QED  BY <1>8, <1>10, <2>1
<1>14. Awaited(agenda', cur) /\ Looping(agenda', currentBlock', body)
  BY <1>1, <1>13 DEF Awaited, Looping
<1>15. ASSUME NEW S, S \subseteq DOMAIN blocks, Visited(S, blocks, agenda, currentBlock)
       PROVE  /\ \A l \in touched : Targets(blocks'[l]) \subseteq S /\ Coherent(blocks', agenda', currentBlock', l)
              /\ EndsInJump(blocks'[cur]) /\ Forks(blocks'[cur], body, join)
  <2>1. /\ ToSet(task.labels) \subseteq S /\ cur \in S
        /\ Has(blocks[cur], {}, blocks[cur].trueExit, NoBlock)
    BY <1>1, <1>2, <1>15, InPlace
  <2>2. EndsInJump(blocks'[cur]) /\ Forks(blocks'[cur], body, join)
    <3>1. Has(blocks'[cur], both, blocks[cur].trueExit, NoBlock)
      BY <1>1, <1>11, <2>1
    <3> QED  BY <1>1, <1>11, <3>1, TwoTargets DEF both
  <2>3. Targets(blocks'[cur]) \subseteq S /\ Coherent(blocks', agenda', currentBlock', cur)
    BY <1>5, <1>14, <2>1, <2>2 DEF Forks, Coherent
  <2>4. Targets(blocks'[body]) \subseteq S /\ Coherent(blocks', agenda', currentBlock', body)
    <3>1. body # cur /\ ~EndsInJump(blocks[body]) /\ Has(blocks[body], {}, blocks[body].trueExit, NoBlock)
      BY <1>1, <1>2, <1>5, <1>7, <1>15, <2>1, OwnedIs
    <3>2. blocks'[body] = blocks[body]
      BY <1>5, <1>12, <3>1
    <3>3. Targets(blocks'[body]) = {} /\ Coherent(blocks', agenda', currentBlock', body)
      BY <1>14, <3>1, <3>2, BlankIs
    <3> QED  BY <3>3
  <2> QED  BY <2>2, <2>3, <2>4
<1>16. /\ \A b \in DOMAIN blocks \ touched : blocks'[b] = blocks[b]
       /\ touched \subseteq {currentBlock} \cup ToSet(task.labels) /\ currentBlock \in touched
       /\ task.labels[2] \in touched
  BY <1>5, <1>12 DEF body
<1>17. /\ DOMAIN blocks' = DOMAIN blocks \cup {} /\ {} \cap (DOMAIN blocks \cup DOMAIN temps) = {}
       /\ currentBlock' \in {currentBlock} \cup ToSet(task.labels) \cup {}
       /\ DOMAIN temps' = DOMAIN temps /\ task.do # "loop end"
  BY <1>1, <1>5, <1>12 DEF NoTemp
<1> HIDE DEF touched
<1>18. /\ c.do # "visit" /\ c.do # "merge"
       /\ ToSet(c.labels) \subseteq {currentBlock} \cup ToSet(task.labels) \cup {}
       /\ c.labels[2] = body /\ c.labels[3] = join /\ c.labels[4] = cur
  BY <1>8, <1>10
<1>19. \A S : S \subseteq DOMAIN blocks /\ Visited(S, blocks, agenda, currentBlock) =>
         /\ \A l \in touched \cup {} : /\ Targets(blocks'[l]) \subseteq S \cup {}
                                       /\ Coherent(blocks', agenda', currentBlock', l)
         /\ c.do = "loop end" => /\ EndsInJump(blocks'[c.labels[4]])
                                 /\ Forks(blocks'[c.labels[4]], c.labels[2], c.labels[3])
  BY <1>15, <1>18
<1>20. Proceed(<<Visit(task.node.kids[2]), c>>)
  BY <1>1 DEF a
<1> QED  BY <1>1, <1>2, <1>4, <1>10, <1>16, <1>17, <1>18, <1>19, <1>20, PartMoves

LEMMA BranchMoves == IInv /\ Branch => Moving
<1> SUFFICES ASSUME IInv, Branch
             PROVE  Moving
  OBVIOUS
<1> DEFINE L == Labels(4)
           fresh == ToSet(L)
           rhs == Label(0)
           exits == BranchExits(task.node.kind, rhs, Label(1), Label(2))
           built == WithNew(blocks, fresh)
           x == exits[1]
           y == exits[2]
           cur == currentBlock
           o == Operand(0)
           c == Task("merge", task.node, L, Temp)
           a == Visit(task.node.kids[2])
           new == WithExits(WithCode(built, cur, <<CondJump(y, o), Jump(x)>>), cur, x, y)
           both == {CondJump(y, o), Jump(x)}
           touched == {cur}
<1>1. /\ agenda # <<>> /\ task.do = "branch"
      /\ blocks' = new /\ currentBlock' = rhs
      /\ Proceed(<<a, c>>)
      /\ TakeTemp /\ NewBlocks(4) /\ UNCHANGED <<source, scope>>
  BY DEF Branch, Doing
<1>2. ~IsMethod(task) /\ task \in Tasks /\ task.node \in Nodes /\ Shaped(task) /\ scope \in DOMAIN temps
  BY <1>1, AtWork
<1>3. /\ task.node.kind \in ShortCircuit /\ Takes(task) = 1
      /\ task.node.kind \notin {"Method", "RET", "List"}
  <2>1. task.node.kind \in ShortCircuit /\ Takes(task) = 1
    BY <1>1, <1>2 DEF Shaped, Takes
  <2> QED  BY <2>1, Kinds
<1>4. task.node \in Inner /\ 2 \in DOMAIN task.node.kids /\ task.node.kids[2] \in Inner /\ ~Simple(task)
  <2>1. task.node \in Inner
    BY <1>2, <1>3, NodeOf
  <2> QED  BY <1>3, <2>1, KidCount, InnerKid, NotSimple
<1>5. cur \in Texts \cap DOMAIN blocks /\ o \in Operands
  BY <1>1, <1>2, <1>3, Working, LatestIs
<1>6. /\ DOMAIN temps' = DOMAIN temps /\ fresh \cap (DOMAIN blocks \cup DOMAIN temps) = {}
      /\ DOMAIN built = DOMAIN blocks \cup fresh /\ AllSound(built)
      /\ DOMAIN built \subseteq Texts /\ NoBlock \notin fresh
      /\ \A b \in DOMAIN blocks : built[b] = blocks[b]
      /\ \A b \in fresh : built[b] = EmptyBlock
      /\ L \in Seq(Texts) /\ DOMAIN L = 1 .. 4
      /\ \A i \in 1 .. 4 : L[i] \in fresh /\ L[i] = Label(i - 1)
  BY <1>1, <1>2, FreshBlocks, ZenonT(60)
<1>7. L[1] = rhs /\ rhs \in fresh /\ x \in fresh /\ y \in fresh
  <2>1. L[1] = Label(0) /\ L[2] = Label(1) /\ L[3] = Label(2)
    BY <1>6
  <2>2. rhs \in fresh /\ Label(1) \in fresh /\ Label(2) \in fresh
    BY <1>6, <2>1
  <2> HIDE DEF fresh, L
  <2> QED  BY <2>1, <2>2 DEF BranchExits
<1>8. Temp \in Texts
  BY <1>2 DEF Temp, Texts, IInv, Counters
<1>9. c \in Tasks /\ c.do = "merge" /\ c.node = task.node /\ c.labels = L
  BY <1>2, <1>6, <1>8 DEF Task, Tasks, Continuations
<1>10. ~RightNested(task.node) => Simple(a)
  <2>1. task.node \in Work /\ task.node.kids[2].kind \in Expressions /\ a.node = task.node.kids[2]
    <3>1. task.node.kids[2].kind \in Expressions
      BY <1>3, <1>4, InnerNode, Kinds DEF WellFormed
    <3> QED  BY <1>4, <3>1 DEF Work, Visit, Task
  <2> QED  BY <1>3, <2>1, RightIsConnectiveless DEF Simple
<1> HIDE DEF L, fresh, built, x, y, c, a, exits, rhs, o
<1>11. /\ OnlyAt(built, cur, new) /\ EndsInJump(new[cur])
       /\ \A t : Has(built[cur], {}, t, NoBlock) => Has(new[cur], both, x, y)
  <2>1. x \in Texts \cap DOMAIN built /\ y \in Texts \cap DOMAIN built /\ cur \in DOMAIN built
    BY <1>5, <1>6, <1>7
  <2> QED  BY <1>5, <1>6, <2>1, PartedMoves
<1> HIDE DEF new, both
<1>12. /\ DOMAIN blocks' = DOMAIN blocks \cup fresh
       /\ \A b \in DOMAIN blocks \ {cur} : blocks'[b] = blocks[b]
       /\ \A b \in fresh : blocks'[b] = EmptyBlock
  BY <1>1, <1>5, <1>6, <1>11 DEF OnlyAt
<1>13. ASSUME NEW S, S \subseteq DOMAIN blocks, Visited(S, blocks, agenda, currentBlock)
       PROVE  \A l \in touched \cup fresh : /\ Targets(blocks'[l]) \subseteq S \cup fresh
                                            /\ Coherent(blocks', agenda', currentBlock', l)
  <2>1. Has(blocks[cur], {}, blocks[cur].trueExit, NoBlock)
    BY <1>1, <1>2, <1>13, InPlace
  <2>2. Has(blocks'[cur], both, x, y) /\ EndsInJump(blocks'[cur])
    BY <1>1, <1>5, <1>6, <1>11, <2>1
  <2>3. Targets(blocks'[cur]) = {x, y} /\ Coherent(blocks', agenda', currentBlock', cur)
    <3>1. x # NoBlock /\ y # NoBlock
      BY <1>6, <1>7
    <3> QED  BY <2>2, <3>1, TwoWays DEF both
  <2>4. \A l \in fresh : Targets(blocks'[l]) = {} /\ Coherent(blocks', agenda', currentBlock', l)
    BY <1>12, NewBlank
  <2> QED  BY <1>7, <2>3, <2>4
<1>14. touched \subseteq {currentBlock} \cup ToSet(task.labels) /\ currentBlock \in touched
       /\ \A b \in DOMAIN blocks \ touched : blocks'[b] = blocks[b]
  BY <1>12
<1> HIDE DEF touched
<1>15. /\ ToSet(c.labels) \subseteq {currentBlock} \cup ToSet(task.labels) \cup fresh
       /\ c.labels[1] = currentBlock' /\ c.do # "visit" /\ c.do # "loop end"
       /\ task.do # "loop end" /\ task.do # "loop body"
  BY <1>1, <1>7, <1>9 DEF fresh
<1>16. currentBlock' \in {currentBlock} \cup ToSet(task.labels) \cup fresh
  BY <1>1, <1>7
<1>17. \A S : S \subseteq DOMAIN blocks /\ Visited(S, blocks, agenda, currentBlock) =>
         /\ \A l \in touched \cup fresh : /\ Targets(blocks'[l]) \subseteq S \cup fresh
                                          /\ Coherent(blocks', agenda', currentBlock', l)
         /\ c.do = "loop end" => /\ EndsInJump(blocks'[c.labels[4]])
                                 /\ Forks(blocks'[c.labels[4]], c.labels[2], c.labels[3])
  BY <1>13, <1>15
<1>18. /\ Proceed(<<Visit(task.node.kids[2]), c>>)
       /\ c.do = "merge" /\ ~RightNested(task.node) => Simple(Visit(task.node.kids[2]))
  BY <1>1, <1>10 DEF a
<1>19. /\ agenda # <<>> /\ ~IsMethod(task) /\ ~Simple(task) /\ UNCHANGED <<source, scope>>
       /\ task.node \in Inner /\ 2 \in DOMAIN task.node.kids /\ c \in Tasks /\ c.node = task.node
       /\ DOMAIN temps' = DOMAIN temps /\ fresh \cap (DOMAIN blocks \cup DOMAIN temps) = {}
  BY <1>1, <1>2, <1>4, <1>6, <1>9
<1> QED
  BY <1>12, <1>14, <1>15, <1>16, <1>17, <1>18, <1>19, PartMoves

LEMMA EvalConditionMoves == IInv /\ EvalCondition => Moving
<1> SUFFICES ASSUME IInv, EvalCondition
             PROVE  Moving
  OBVIOUS
<1> DEFINE n == Len(task.node.kids)
           L == Labels(n)
           fresh == ToSet(L)
           cur == currentBlock
           c == Task("then", task.node, L, <<>>)
           a == Visit(task.node.kids[1])
           new == WithNew(blocks, fresh)
           touched == {cur}
<1>1. /\ agenda # <<>> /\ task.do = "visit" /\ task.node.kind \in {"If", "IfElse"}
      /\ blocks' = new /\ NewBlocks(n)
      /\ Proceed(<<a, c>>)
      /\ UNCHANGED <<source, currentBlock, scope>> /\ NoTemp
  BY DEF EvalCondition, Visiting, Doing, SamePlace
<1>2. task.node.kind \notin {"Method", "RET", "List"}
  BY <1>1, Kinds
<1>3. ~IsMethod(task) /\ task \in Tasks /\ task.node \in Nodes
  BY <1>1, <1>2, AtWork
<1>4. task.node \in Inner /\ 1 \in DOMAIN task.node.kids /\ task.node.kids[1] \in Inner /\ ~Simple(task)
  <2>1. task.node \in Inner
    BY <1>2, <1>3, NodeOf
  <2> QED  BY <1>1, <2>1, KidCount, InnerKid, NotSimple
<1>5. n \in Nat
  BY <1>4, InnerNode
<1>6. cur \in DOMAIN blocks
  BY <1>1, <1>3, Working
<1> HIDE DEF n
<1>7. /\ DOMAIN temps' = DOMAIN temps /\ fresh \cap (DOMAIN blocks \cup DOMAIN temps) = {}
      /\ DOMAIN new = DOMAIN blocks \cup fresh
      /\ \A b \in DOMAIN blocks : new[b] = blocks[b]
      /\ \A b \in fresh : new[b] = EmptyBlock
      /\ L \in Seq(Texts)
  BY <1>1, <1>3, <1>5, FreshBlocks
<1>8. c \in Tasks /\ c.do = "then" /\ c.node = task.node /\ c.labels = L
  BY <1>3, <1>7, NoLabels DEF Task, Tasks, Continuations
<1>9. a \in Tasks
  <2>1. task.node \in Work
    BY <1>4 DEF Work
  <2> QED  BY <1>4, <2>1, VisitFits
<1>10. ToSet(c.labels) = fresh
  BY <1>8
<1> HIDE DEF L, fresh, c, a, new
<1>11. ASSUME NEW l, Looping(agenda, currentBlock, l)
       PROVE  Looping(agenda', currentBlock', l)
  <2> DEFINE tasks == <<a, c>>
  <2>1. tasks \in Seq(Tasks)
    BY <1>8, <1>9
  <2>2. agenda \in Seq(Tasks) /\ agenda' = tasks \o Tail(agenda) /\ task = agenda[1]
    BY <1>1, FirstTask DEF IInv, Agenda, Proceed
  <2> HIDE DEF tasks
  <2>3. From(agenda, agenda', tasks)
    BY <1>1, <2>1, <2>2, Follows
  <2>4. PICK i \in DOMAIN agenda : \/ agenda[i].do = "loop body" /\ agenda[i].labels[2] = l
                                   \/ agenda[i].do = "loop end" /\ l = currentBlock
    BY <1>11 DEF Looping
  <2>5. i # 1
    BY <1>1, <2>2, <2>4
  <2>6. \E j \in DOMAIN agenda' : agenda'[j] = agenda[i]
    BY <2>3, <2>5 DEF From
  <2> QED  BY <1>1, <2>4, <2>6 DEF Looping
<1>12. /\ DOMAIN blocks' = DOMAIN blocks \cup fresh
       /\ \A b \in DOMAIN blocks : blocks'[b] = blocks[b]
       /\ \A b \in fresh : blocks'[b] = EmptyBlock
  BY <1>1, <1>7
<1>13. ASSUME NEW S, S \subseteq DOMAIN blocks, Visited(S, blocks, agenda, currentBlock)
       PROVE  \A l \in touched \cup fresh : /\ Targets(blocks'[l]) \subseteq S \cup fresh
                                            /\ Coherent(blocks', agenda', currentBlock', l)
  <2>1. /\ Has(blocks[cur], {}, blocks[cur].trueExit, NoBlock) /\ ~EndsInJump(blocks[cur])
        /\ (blocks[cur].trueExit = NoBlock \/ Looping(agenda, currentBlock, cur))
    <3>1. cur \in Open(blocks) /\ cur \in S
      BY <1>1, <1>3, <1>13, Working, InPlace
    <3>2. ~EndsInJump(blocks[cur])
      BY <3>1 DEF Open
    <3> QED  BY <1>13, <3>1, <3>2, OpenBlank
  <2>2. Targets(blocks'[cur]) = {} /\ Coherent(blocks', agenda', currentBlock', cur)
    <3> DEFINE t == blocks[cur].trueExit
    <3>1. /\ Has(blocks'[cur], {}, t, NoBlock) /\ ~EndsInJump(blocks'[cur])
          /\ (t = NoBlock \/ Looping(agenda', currentBlock', cur))
      BY <1>6, <1>11, <1>12, <2>1
    <3> HIDE DEF t
    <3> QED  BY <3>1, BlankIs
  <2>3. \A l \in fresh : Targets(blocks'[l]) = {} /\ Coherent(blocks', agenda', currentBlock', l)
    BY <1>12, NewBlank
  <2> QED  BY <2>2, <2>3
<1>14. touched \subseteq {currentBlock} \cup ToSet(task.labels) /\ currentBlock \in touched
       /\ \A b \in DOMAIN blocks \ touched : blocks'[b] = blocks[b]
  BY <1>12
<1> HIDE DEF touched
<1>15. /\ ToSet(c.labels) \subseteq {currentBlock} \cup ToSet(task.labels) \cup fresh
       /\ c.do # "merge" /\ c.do # "visit" /\ c.do # "loop end"
       /\ task.do # "loop end" /\ task.do # "loop body"
       /\ currentBlock' \in {currentBlock} \cup ToSet(task.labels) \cup fresh
  BY <1>1, <1>8, <1>10
<1>16. \A S : S \subseteq DOMAIN blocks /\ Visited(S, blocks, agenda, currentBlock) =>
         /\ \A l \in touched \cup fresh : /\ Targets(blocks'[l]) \subseteq S \cup fresh
                                          /\ Coherent(blocks', agenda', currentBlock', l)
         /\ c.do = "loop end" => /\ EndsInJump(blocks'[c.labels[4]])
                                 /\ Forks(blocks'[c.labels[4]], c.labels[2], c.labels[3])
  BY <1>13, <1>15
<1>17. Proceed(<<Visit(task.node.kids[1]), c>>)
  BY <1>1 DEF a
<1> QED
  BY <1>1, <1>3, <1>4, <1>7, <1>8, <1>12, <1>14, <1>15, <1>16, <1>17, PartMoves

LEMMA FourTasks ==
  ASSUME NEW a \in Tasks, NEW b \in Tasks, NEW c \in Tasks, NEW d \in Tasks
  PROVE  LET tasks == <<a, b>> \o <<c, d>> IN
         tasks \in Seq(Tasks) /\ \A i \in DOMAIN tasks : tasks[i] \in {a, b, c, d}
<1> DEFINE s == <<a, b>>
           t == <<c, d>>
           tasks == s \o t
<1>1. /\ s \in Seq(Tasks) /\ Len(s) = 2 /\ s[1] = a /\ s[2] = b
      /\ t \in Seq(Tasks) /\ Len(t) = 2 /\ t[1] = c /\ t[2] = d
  OBVIOUS
<1> HIDE DEF s, t
<1>2. /\ tasks \in Seq(Tasks) /\ Len(tasks) = Len(s) + Len(t)
      /\ \A i \in 1 .. Len(s) + Len(t) : tasks[i] = IF i <= Len(s) THEN s[i] ELSE t[i - Len(s)]
  BY <1>1, ConcatProperties
<1> HIDE DEF tasks
<1>3. DOMAIN tasks = 1 .. 4 /\ \A i \in 1 .. 4 : tasks[i] = IF i <= 2 THEN s[i] ELSE t[i - 2]
  BY <1>1, <1>2
<1>4. \A i \in DOMAIN tasks : tasks[i] \in {a, b, c, d}
  BY <1>1, <1>3
<1> QED  BY <1>2, <1>4 DEF tasks, s, t

LEMMA TwoTasksOnly ==
  ASSUME NEW a \in Tasks, NEW b \in Tasks
  PROVE  LET tasks == <<a, b>> \o <<>> IN
         tasks \in Seq(Tasks) /\ \A i \in DOMAIN tasks : tasks[i] \in {a, b}
<1> DEFINE s == <<a, b>>
<1>1. s \in Seq(Tasks) /\ \A i \in DOMAIN s : s[i] \in {a, b}
  OBVIOUS
<1> HIDE DEF s
<1>2. s \o <<>> = s
  BY <1>1, ConcatEmptySeq
<1> QED  BY <1>1, <1>2 DEF s

\* A task that goes on with the node and has nothing to do with a join of
\* values or the end of a loop.
Follower(t) ==
  /\ ~IsMethod(t) /\ t.do \notin {"merge", "loop end"}
  /\ ToSet(t.labels) \subseteq {currentBlock} \cup ToSet(task.labels) \cup {}
  /\ ~RightNested(task.node) => ~RightNested(t.node)

LEMMA FollowersMove ==
  ASSUME IInv, agenda # <<>>, ~IsMethod(task), ~Simple(task), task.do \notin {"loop body", "loop end"},
         NEW tasks \in Seq(Tasks), \A i \in DOMAIN tasks : Follower(tasks[i]), Proceed(tasks),
         UNCHANGED <<source, scope>>, NoTemp, DOMAIN blocks' = DOMAIN blocks,
         \A b \in DOMAIN blocks \ {currentBlock} : blocks'[b] = blocks[b],
         currentBlock' \in ToSet(task.labels),
         \A S : S \subseteq DOMAIN blocks /\ Visited(S, blocks, agenda, currentBlock) =>
           /\ Targets(blocks'[currentBlock]) \subseteq S
           /\ Coherent(blocks', agenda', currentBlock', currentBlock)
  PROVE  Moving
<1> DEFINE touched == {currentBlock}
<1>1. Confined(tasks, {}, touched)
  BY DEF Confined, Proceed, NoTemp, Follower
<1>2. Straight(tasks) /\ (~RightNested(task.node) => \A i \in DOMAIN tasks : ~RightNested(tasks[i].node))
  BY DEF Straight, Follower
<1>3. \A S : S \subseteq DOMAIN blocks /\ Visited(S, blocks, agenda, currentBlock) => Settled(S, tasks, {}, touched)
  BY DEF Settled, Follower
<1>4. currentBlock \in touched
  OBVIOUS
<1> HIDE DEF touched
<1> QED  BY <1>1, <1>2, <1>3, <1>4, Moved

LEMMA LabelPlaces ==
  ASSUME NEW s \in Seq(Texts), Len(s) \in {2, 3}
  PROVE  1 \in DOMAIN s /\ 2 \in DOMAIN s /\ Len(s) \in DOMAIN s
OBVIOUS

LEMMA ThenMoves == IInv /\ Then => Moving
<1> SUFFICES ASSUME IInv, Then
             PROVE  Moving
  OBVIOUS
<1> DEFINE node == task.node
           then == task.labels[1]
           otherwise == task.labels[2]
           join == Last(task.labels)
           cur == currentBlock
           o == Operand(0)
           b1 == Visit(node.kids[2])
           e1 == Task("end", node, <<join, otherwise>>, <<>>)
           b2 == Visit(node.kids[3])
           e2 == Task("end", node, <<join, join>>, <<>>)
           tasks == <<b1, e1>> \o (IF node.kind = "If" THEN <<>> ELSE <<b2, e2>>)
           new == WithExits(WithCode(blocks, cur, <<CondJump(otherwise, o), Jump(then)>>), cur, then, otherwise)
           both == {CondJump(otherwise, o), Jump(then)}
<1>1. /\ agenda # <<>> /\ task.do = "then"
      /\ blocks' = new /\ currentBlock' = then /\ Proceed(tasks)
      /\ UNCHANGED <<source, scope>> /\ NoTemp
  BY DEF Then, Doing
<1>2. ~IsMethod(task) /\ task \in Tasks /\ node \in Nodes /\ Shaped(task)
  BY <1>1, AtWork
<1>3. /\ node.kind \in {"If", "IfElse"} /\ Takes(task) = 1 /\ Len(task.labels) = Len(node.kids)
      /\ node.kind \notin {"Method", "RET", "List"} /\ task.labels \in Seq(Texts)
  <2>1. node.kind \in {"If", "IfElse"} /\ Takes(task) = 1 /\ Len(task.labels) = Len(node.kids)
    BY <1>1, <1>2 DEF Shaped, Takes, Places
  <2>2. task.labels \in Seq(Texts)
    BY <1>2 DEF Tasks
  <2> QED  BY <2>1, <2>2
<1>4. /\ node \in Inner /\ node \in Work /\ ~Simple(task)
      /\ 2 \in DOMAIN node.kids /\ node.kids[2] \in Inner
      /\ node.kind = "IfElse" => 3 \in DOMAIN node.kids /\ node.kids[3] \in Inner
      /\ node.kind = "If" => Len(node.kids) = 2
      /\ node.kind = "IfElse" => Len(node.kids) = 3
  <2>1. node \in Inner /\ node \in Work
    BY <1>2, <1>3, NodeOf DEF Work
  <2>2. ~Simple(task)
    BY <1>3, NotSimple
  <2> QED  BY <1>3, <2>1, <2>2, KidCount, InnerKid
<1>5. /\ then \in Texts \cap DOMAIN blocks /\ then # NoBlock /\ then \in ToSet(task.labels)
      /\ otherwise \in Texts \cap DOMAIN blocks /\ otherwise # NoBlock /\ otherwise \in ToSet(task.labels)
      /\ join \in Texts /\ join \in ToSet(task.labels)
  <2>1. Len(task.labels) \in {2, 3}
    BY <1>3, <1>4
  <2>2. 1 \in DOMAIN task.labels /\ 2 \in DOMAIN task.labels /\ Len(task.labels) \in DOMAIN task.labels
    BY <1>3, <2>1, LabelPlaces
  <2> QED  BY <1>1, <1>2, <2>2, LabelOf DEF Last
<1>6. cur \in Texts \cap DOMAIN blocks /\ AllSound(blocks) /\ o \in Operands
  BY <1>1, <1>2, <1>3, Working, LatestIs
<1>7. /\ b1 \in Tasks /\ Follower(b1)
      /\ node.kind = "IfElse" => b2 \in Tasks /\ Follower(b2)
  <2>1. ASSUME NEW i \in DOMAIN node.kids, node.kids[i] \in Inner
        PROVE  Visit(node.kids[i]) \in Tasks /\ Follower(Visit(node.kids[i]))
    <3> DEFINE t == Visit(node.kids[i])
    <3>1. /\ t \in Tasks /\ ~IsMethod(t) /\ ToSet(t.labels) = {} /\ t.do = "visit" /\ t.node = node.kids[i]
      BY <1>4, <2>1, VisitFits
    <3>2. ~RightNested(node) => ~RightNested(node.kids[i])
      BY <1>4, NestedWithin
    <3> HIDE DEF t
    <3>3. t \in Tasks /\ Follower(t)
      BY <3>1, <3>2 DEF Follower
    <3> QED  BY <3>3 DEF t
  <2> QED  BY <1>4, <2>1
<1>8. /\ e1 \in Tasks /\ Follower(e1)
      /\ e2 \in Tasks /\ Follower(e2)
  <2>1. ASSUME NEW next \in ToSet(task.labels), next \in Texts
        PROVE  LET t == Task("end", node, <<join, next>>, <<>>) IN t \in Tasks /\ Follower(t)
    <3> DEFINE t == Task("end", node, <<join, next>>, <<>>)
    <3>1. /\ t \in Tasks /\ t.node = node /\ t.do = "end"
          /\ DOMAIN t.labels = {1, 2} /\ t.labels[1] = join /\ t.labels[2] = next
      <4> HIDE DEF join, node
      <4>1. node \in Inner /\ node.kind \in {"If", "IfElse"} /\ join \in Texts
        BY <1>3, <1>4, <1>5
      <4> QED  BY <2>1, <4>1, EndType
    <3> HIDE DEF t
    <3>2. ~IsMethod(t) /\ t.do \notin {"merge", "loop end"}
      BY <3>1 DEF IsMethod
    <3>3. ToSet(t.labels) \subseteq {currentBlock} \cup ToSet(task.labels) \cup {}
      BY <1>5, <2>1, <3>1 DEF ToSet
    <3>4. Follower(t)
      BY <3>1, <3>2, <3>3 DEF Follower
    <3> QED  BY <3>1, <3>4 DEF t
  <2>2. join \in ToSet(task.labels) /\ join \in Texts /\ otherwise \in ToSet(task.labels) /\ otherwise \in Texts
    BY <1>5
  <2> QED  BY <2>1, <2>2
<1> HIDE DEF b1, b2, e1, e2, then, otherwise, o
<1>9. tasks \in Seq(Tasks) /\ \A i \in DOMAIN tasks : Follower(tasks[i])
  <2>1. CASE node.kind = "If"
    <3>1. tasks = <<b1, e1>> \o <<>>
      BY <2>1
    <3>2. tasks \in Seq(Tasks) /\ \A i \in DOMAIN tasks : tasks[i] \in {b1, e1}
      BY <1>7, <1>8, <3>1, TwoTasksOnly
    <3> HIDE DEF tasks
    <3> QED  BY <1>7, <1>8, <3>2
  <2>2. CASE node.kind = "IfElse"
    <3>1. tasks = <<b1, e1>> \o <<b2, e2>>
      BY <2>2
    <3>2. tasks \in Seq(Tasks) /\ \A i \in DOMAIN tasks : tasks[i] \in {b1, e1, b2, e2}
      BY <1>7, <1>8, <2>2, <3>1, FourTasks
    <3> HIDE DEF tasks
    <3> QED  BY <1>7, <1>8, <2>2, <3>2
  <2> QED  BY <1>3, <2>1, <2>2
<1>10. /\ OnlyAt(blocks, cur, new) /\ EndsInJump(new[cur])
       /\ \A t : Has(blocks[cur], {}, t, NoBlock) => Has(new[cur], both, then, otherwise)
  BY <1>5, <1>6, PartedMoves
<1> HIDE DEF tasks, new, both
<1>11. DOMAIN blocks' = DOMAIN blocks /\ \A b \in DOMAIN blocks \ {cur} : blocks'[b] = blocks[b]
  BY <1>1, <1>10 DEF OnlyAt
<1>12. ASSUME NEW S, S \subseteq DOMAIN blocks, Visited(S, blocks, agenda, currentBlock)
       PROVE  Targets(blocks'[cur]) \subseteq S /\ Coherent(blocks', agenda', currentBlock', cur)
  <2>1. ToSet(task.labels) \subseteq S /\ Has(blocks[cur], {}, blocks[cur].trueExit, NoBlock)
    BY <1>1, <1>2, <1>12, InPlace
  <2>2. Has(blocks'[cur], both, then, otherwise) /\ EndsInJump(blocks'[cur])
    BY <1>1, <1>10, <2>1
  <2>3. Targets(blocks'[cur]) = {then, otherwise} /\ Coherent(blocks', agenda', currentBlock', cur)
    BY <1>5, <2>2, TwoWays DEF both
  <2> QED  BY <1>5, <2>1, <2>3
<1>13. currentBlock' \in ToSet(task.labels) /\ task.do \notin {"loop body", "loop end"}
  BY <1>1, <1>5
<1> QED  BY <1>1, <1>2, <1>4, <1>9, <1>11, <1>12, <1>13, FollowersMove

LEMMA BeginWhileMoves == IInv /\ BeginWhile => Moving
<1> SUFFICES ASSUME IInv, BeginWhile
             PROVE  Moving
  OBVIOUS
<1> DEFINE L == Labels(3)
           fresh == ToSet(L)
           header == Label(0)
           body == Label(1)
           cur == currentBlock
           blank == WithNew(blocks, fresh)
           built == WithTrueExit(blank, body, header)
           new == Closed(built, cur, header)
           c == Task("loop body", task.node, L, <<>>)
           a == Visit(task.node.kids[1])
           touched == {cur}
<1>1. /\ agenda # <<>> /\ task.do = "visit" /\ task.node.kind = "While"
      /\ blocks' = new /\ currentBlock' = header
      /\ Proceed(<<a, c>>) /\ NewBlocks(3)
      /\ UNCHANGED <<source, scope>> /\ NoTemp
  BY DEF BeginWhile, Visiting, Doing
<1>2. ~IsMethod(task) /\ task \in Tasks /\ task.node \in Nodes
  <2>1. task.node.kind # "Method"
    BY <1>1
  <2> QED  BY <1>1, <2>1, AtWork
<1>3. task.node \in Inner /\ 1 \in DOMAIN task.node.kids /\ task.node.kids[1] \in Inner /\ ~Simple(task)
  <2>1. task.node \in Inner
    BY <1>1, <1>2, WhileNode
  <2> QED  BY <1>1, <2>1, KidCount, InnerKid, NotSimple
<1>4. cur \in DOMAIN blocks
  BY <1>1, <1>2, Working
<1>5. /\ DOMAIN temps' = DOMAIN temps /\ fresh \cap (DOMAIN blocks \cup DOMAIN temps) = {}
      /\ DOMAIN blank = DOMAIN blocks \cup fresh /\ AllSound(blank)
      /\ DOMAIN blank \subseteq Texts /\ NoBlock \notin fresh
      /\ \A b \in DOMAIN blocks : blank[b] = blocks[b]
      /\ \A b \in fresh : blank[b] = EmptyBlock
      /\ L \in Seq(Texts) /\ DOMAIN L = 1 .. 3
      /\ \A i \in 1 .. 3 : L[i] \in fresh /\ L[i] = Label(i - 1)
  BY <1>1, <1>2, FreshBlocks
<1>6. L[2] = body /\ header \in fresh /\ body \in fresh
  <2>1. L[1] = Label(0) /\ L[2] = Label(1)
    BY <1>5
  <2>2. L[1] \in fresh /\ L[2] \in fresh
    BY <1>5
  <2> HIDE DEF fresh, L
  <2> QED  BY <2>1, <2>2
<1>7. c \in Tasks /\ c.do = "loop body" /\ c.node = task.node /\ c.labels = L
  BY <1>2, <1>5, NoLabels DEF Task, Tasks, Continuations
<1>8. a \in Tasks
  <2>1. task.node \in Work
    BY <1>3 DEF Work
  <2> QED  BY <1>3, <2>1, VisitFits
<1>9. ToSet(c.labels) = fresh
  BY <1>7
<1> HIDE DEF L, fresh, header, body, blank, c, a
<1>10. OnlyAt(blank, body, built) /\ Has(built[body], {}, header, NoBlock) /\ built[body].code = blank[body].code
  <2>1. Has(blank[body], {}, NoBlock, NoBlock)
    BY <1>5, <1>6, NewBlank
  <2>2. body \in DOMAIN blank /\ header \in Texts \cap DOMAIN blank /\ AllSound(blank)
    BY <1>5, <1>6
  <2> QED  BY <2>1, <2>2, TrueExitSet
<1> HIDE DEF built
<1>11. AllSound(built) /\ DOMAIN built = DOMAIN blocks \cup fresh /\ built[cur] = blocks[cur] /\ cur # body
  <2>1. cur # body
    BY <1>4, <1>5, <1>6
  <2> QED  BY <1>4, <1>5, <1>6, <1>10, <2>1 DEF OnlyAt
<1>12. /\ OnlyAt(built, cur, new) /\ EndsInJump(new[cur])
       /\ \A t : Has(built[cur], {}, t, NoBlock) => Has(new[cur], {Jump(header)}, header, NoBlock)
  <2>1. header \in Texts \cap DOMAIN built /\ cur \in DOMAIN built
    BY <1>4, <1>5, <1>6, <1>11
  <2> QED  BY <1>11, <2>1, ClosedMoves
<1> HIDE DEF new
<1>13. /\ DOMAIN blocks' = DOMAIN blocks \cup fresh
       /\ \A b \in DOMAIN blocks \ {cur} : blocks'[b] = blocks[b]
       /\ \A b \in fresh \ {body} : blocks'[b] = EmptyBlock
       /\ blocks'[body] = built[body]
  <2>1. DOMAIN new = DOMAIN built /\ \A b \in DOMAIN built \ {cur} : new[b] = built[b]
    BY <1>12 DEF OnlyAt
  <2>2. DOMAIN built = DOMAIN blank /\ \A b \in DOMAIN blank \ {body} : built[b] = blank[b]
    BY <1>10 DEF OnlyAt
  <2>3. cur \notin fresh /\ body \notin DOMAIN blocks
    BY <1>4, <1>5, <1>6
  <2> QED  BY <1>1, <1>5, <1>6, <2>1, <2>2, <2>3
<1>14. Looping(agenda', currentBlock', body)
  <2>1. \E i \in DOMAIN agenda' : agenda'[i] = c
    BY <1>1, <1>7, <1>8, NowToDo
  <2> QED  BY <1>6, <1>7, <2>1 DEF Looping
<1>15. ASSUME NEW S, S \subseteq DOMAIN blocks, Visited(S, blocks, agenda, currentBlock)
       PROVE  \A l \in touched \cup fresh : /\ Targets(blocks'[l]) \subseteq S \cup fresh
                                            /\ Coherent(blocks', agenda', currentBlock', l)
  <2>1. Has(blocks[cur], {}, blocks[cur].trueExit, NoBlock)
    BY <1>1, <1>2, <1>15, InPlace
  <2>2. Has(blocks'[cur], {Jump(header)}, header, NoBlock) /\ EndsInJump(blocks'[cur])
    BY <1>1, <1>11, <1>12, <2>1
  <2>3. Targets(blocks'[cur]) = {header} /\ Coherent(blocks', agenda', currentBlock', cur)
    <3>1. header \in Texts /\ header # NoBlock
      BY <1>5, <1>6
    <3> QED  BY <2>2, <3>1, OneExit
  <2>4. \A l \in fresh \ {body} : Targets(blocks'[l]) = {} /\ Coherent(blocks', agenda', currentBlock', l)
    BY <1>13, NewBlank
  <2>5. Targets(blocks'[body]) = {} /\ Coherent(blocks', agenda', currentBlock', body)
    <3>1. Has(blocks'[body], {}, header, NoBlock) /\ blocks'[body].code = EmptyBlock.code
      BY <1>5, <1>6, <1>10, <1>13
    <3>2. ~EndsInJump(blocks'[body])
      BY <3>1, EmptyIs DEF EndsInJump
    <3> QED  BY <1>14, <3>1, <3>2, BlankIs
  <2> QED  BY <1>6, <2>3, <2>4, <2>5
<1>16. touched \subseteq {currentBlock} \cup ToSet(task.labels) /\ currentBlock \in touched
       /\ \A b \in DOMAIN blocks \ touched : blocks'[b] = blocks[b]
  BY <1>13
<1> HIDE DEF touched
<1>17. /\ ToSet(c.labels) \subseteq {currentBlock} \cup ToSet(task.labels) \cup fresh
       /\ c.do # "merge" /\ c.do # "visit" /\ c.do # "loop end"
       /\ task.do # "loop end" /\ task.do # "loop body"
       /\ currentBlock' \in {currentBlock} \cup ToSet(task.labels) \cup fresh
  BY <1>1, <1>6, <1>7, <1>9
<1>18. \A S : S \subseteq DOMAIN blocks /\ Visited(S, blocks, agenda, currentBlock) =>
         /\ \A l \in touched \cup fresh : /\ Targets(blocks'[l]) \subseteq S \cup fresh
                                          /\ Coherent(blocks', agenda', currentBlock', l)
         /\ c.do = "loop end" => /\ EndsInJump(blocks'[c.labels[4]])
                                 /\ Forks(blocks'[c.labels[4]], c.labels[2], c.labels[3])
  BY <1>15, <1>17
<1>19. Proceed(<<Visit(task.node.kids[1]), c>>)
  BY <1>1 DEF a
<1>20. /\ agenda # <<>> /\ ~IsMethod(task) /\ ~Simple(task) /\ UNCHANGED <<source, scope>>
       /\ task.node \in Inner /\ 1 \in DOMAIN task.node.kids /\ c \in Tasks /\ c.node = task.node
       /\ DOMAIN temps' = DOMAIN temps /\ fresh \cap (DOMAIN blocks \cup DOMAIN temps) = {}
       /\ DOMAIN blocks' = DOMAIN blocks \cup fresh
  BY <1>1, <1>2, <1>3, <1>5, <1>7, <1>13
<1> QED  BY <1>16, <1>17, <1>18, <1>19, <1>20, PartMoves

-----------------------------------------------------------------------------
(***************************************************************************)
(* The first and the last of a method.                                     *)
(***************************************************************************)
MethodVisit(t) == IsMethod(t) /\ t.do = "visit" /\ ToSet(t.labels) = {}

\* A method begins with a body to visit, and only methods are left otherwise.
LEMMA BeginParts ==
  ASSUME IInv, Pending, BeginMethod
  PROVE  \E k \in DOMAIN source, t \in Tasks :
           LET name == source[k].name
               tasks == <<t>> IN
           /\ agenda # <<>> /\ task.node.text = name /\ name \in DOMAIN temps \ DOMAIN blocks
           /\ t = Visit(source[k].body)
           /\ t.node = source[k].body /\ t.do = "visit" /\ ToSet(t.labels) = {} /\ ~IsMethod(t)
           /\ From(agenda, agenda', tasks)
           /\ \A i \in DOMAIN agenda : MethodVisit(agenda[i])
           /\ blocks' = WithNew(blocks, {name}) /\ currentBlock' = name /\ scope' = name
           /\ UNCHANGED source /\ DOMAIN temps' = DOMAIN temps
<1>1. /\ agenda # <<>> /\ task.do = "visit" /\ task.node.kind = "Method"
      /\ blocks' = WithNew(blocks, {task.node.text})
      /\ currentBlock' = task.node.text /\ scope' = task.node.text
      /\ agenda' = VisitAll(task.node.kids) \o Tail(agenda)
      /\ UNCHANGED source /\ NoTemp
  BY DEF BeginMethod, Visiting, Doing, Proceed
<1>2. /\ agenda \in Seq(Tasks) /\ 1 \in DOMAIN agenda /\ task = agenda[1]
      /\ \A i \in DOMAIN agenda : Ready(agenda[i], blocks, currentBlock, DOMAIN temps)
  BY <1>1, FirstTask DEF IInv, Agenda
<1>3. IsMethod(task) /\ task \in Tasks /\ task.node \notin Inner
  <2>1. task.node \notin Inner
    BY <1>1, InnerNode
  <2> QED  BY <1>1, <1>2, <2>1 DEF IsMethod
<1>4. task.node.text \in DOMAIN temps \ DOMAIN blocks
  BY <1>2, <1>3 DEF Ready
<1>5. PICK k \in DOMAIN source : task.node = MethodNode(source[k])
  BY <1>2, <1>3 DEF Pending
<1>6. source[k] \in Methods
  <2>1. source \in Seq(Methods)
    BY SourceAssumption DEF IInv, Counters
  <2> QED  BY <2>1
<1> DEFINE name == source[k].name
           body == source[k].body
           t == Visit(body)
           tasks == <<t>>
<1>7. task.node.text = name /\ task.node.kids = <<body>> /\ body \in Bodies
  BY <1>5, <1>6, MethodsNode
<1>8. body \in Nodes /\ body.kind # "Method"
  BY <1>7, BodyNode DEF Nodes
<1>9. t \in Tasks /\ Calm(t) /\ t.node = body
  BY <1>8, VisitType
<1>10. t.do = "visit" /\ ToSet(t.labels) = {} /\ ~IsMethod(t)
  <2>1. t.do = "visit"
    BY DEF Visit, Task
  <2> HIDE DEF t
  <2> QED  BY <1>9, <2>1, NoLabelsIs DEF Calm
<1>11. VisitAll(task.node.kids) = tasks
  <2> HIDE DEF body
  <2>1. VisitAll(<<body>>) = <<Visit(body)>>
    BY DEF VisitAll
  <2> QED  BY <1>7, <2>1
<1>12. \A i \in DOMAIN agenda : MethodVisit(agenda[i])
  <2> SUFFICES ASSUME NEW i \in DOMAIN agenda
               PROVE  MethodVisit(agenda[i])
    OBVIOUS
  <2>1. IsMethod(agenda[i]) /\ agenda[i] \in Tasks /\ Shaped(agenda[i])
    BY <1>1, <1>2, <1>3, LastOfMethod DEF Ready
  <2>2. agenda[i].do = "visit"
    BY <2>1 DEF IsMethod
  <2> QED  BY <2>1, <2>2, NoLabelsIs DEF MethodVisit
<1> HIDE DEF t, name, body
<1>13. tasks \in Seq(Tasks)
  BY <1>9
<1> HIDE DEF tasks
<1>14. agenda' = tasks \o Tail(agenda)
  BY <1>1, <1>11
<1>15. From(agenda, agenda', tasks)
  BY <1>1, <1>2, <1>13, <1>14, Follows
<1>16. DOMAIN temps' = DOMAIN temps
  BY <1>1 DEF NoTemp
<1>17. /\ agenda # <<>> /\ task.node.text = name /\ name \in DOMAIN temps \ DOMAIN blocks
       /\ t = Visit(body)
       /\ t.node = body /\ t.do = "visit" /\ ToSet(t.labels) = {} /\ ~IsMethod(t)
       /\ From(agenda, agenda', <<t>>)
       /\ \A i \in DOMAIN agenda : MethodVisit(agenda[i])
       /\ blocks' = WithNew(blocks, {name}) /\ currentBlock' = name /\ scope' = name
       /\ UNCHANGED source /\ DOMAIN temps' = DOMAIN temps
  <2>1. t = Visit(body)
    BY DEF t
  <2>2. From(agenda, agenda', <<t>>)
    BY <1>15 DEF tasks
  <2> QED  BY <1>1, <1>4, <1>7, <1>9, <1>10, <1>12, <1>16, <2>1, <2>2
<1>18. k \in DOMAIN source /\ t \in Tasks
  BY <1>9
<1> QED  BY <1>17, <1>18, Zenon DEF name, body

LEMMA OneTask ==
  ASSUME NEW t
  PROVE  DOMAIN <<t>> = {1} /\ <<t>>[1] = t
OBVIOUS

\* Beginning a method makes a block of its own.
LEMMA BeginMoves == IInv /\ Partition /\ BeginMethod => Partition'
<1> SUFFICES ASSUME IInv, Partition, BeginMethod
             PROVE  Partition'
  OBVIOUS
<1>1. PICK k \in DOMAIN source, t \in Tasks :
           /\ agenda # <<>> /\ task.node.text = source[k].name /\ source[k].name \in DOMAIN temps \ DOMAIN blocks
           /\ t = Visit(source[k].body)
           /\ t.node = source[k].body /\ t.do = "visit" /\ ToSet(t.labels) = {} /\ ~IsMethod(t)
           /\ From(agenda, agenda', <<t>>)
           /\ \A i \in DOMAIN agenda : MethodVisit(agenda[i])
           /\ blocks' = WithNew(blocks, {source[k].name})
           /\ currentBlock' = source[k].name /\ scope' = source[k].name
           /\ UNCHANGED source /\ DOMAIN temps' = DOMAIN temps
  BY BeginParts DEF Partition
<1> DEFINE name == source[k].name
           tasks == <<t>>
<1>2. DOMAIN tasks = {1} /\ tasks[1] = t
  BY OneTask
<1>3. From(agenda, agenda', tasks)
  BY <1>1
<1> HIDE DEF tasks
<1>4. /\ \A j \in DOMAIN agenda' : agenda'[j] = t \/ \E i \in DOMAIN agenda : agenda'[j] = agenda[i]
      /\ \A i \in DOMAIN agenda : i # 1 => \E j \in DOMAIN agenda' : agenda'[j] = agenda[i]
  BY <1>2, <1>3 DEF From
<1>5. \A j \in DOMAIN agenda' : agenda'[j] = t \/ MethodVisit(agenda'[j])
  BY <1>1, <1>4
<1>6. \A j \in DOMAIN agenda' : agenda'[j].do = "visit" /\ ToSet(agenda'[j].labels) = {}
  BY <1>1, <1>5 DEF MethodVisit
<1>7. /\ DOMAIN blocks' = DOMAIN blocks \cup {name} /\ blocks'[name] = EmptyBlock
      /\ \A b \in DOMAIN blocks : blocks'[b] = blocks[b]
  <2> HIDE DEF name
  <2>1. name \notin DOMAIN blocks /\ blocks' = WithNew(blocks, {name})
    BY <1>1 DEF name
  <2> QED  BY <2>1 DEF WithNew
<1>8. Regions'
  <2> SUFFICES ASSUME NEW n \in DOMAIN temps', NotNested(n)'
               PROVE  \E S : Region(S, n)'
    BY DEF Regions
  <2>1. n \in DOMAIN temps /\ NotNested(n)
    BY <1>1 DEF NotNested
  <2>2. CASE n = name
    <3> DEFINE R == {name}
    <3>1. Targets(blocks'[name]) = {} /\ Coherent(blocks', agenda', currentBlock', name)
      BY <1>7, NewBlank
    <3>2. ~RightNested(t.node)
      BY <1>1, <2>1, <2>2 DEF NotNested
    <3>3. \A j \in DOMAIN agenda' : Fits(agenda'[j], R, blocks', currentBlock')
      <4> SUFFICES ASSUME NEW j \in DOMAIN agenda'
                   PROVE  Fits(agenda'[j], R, blocks', currentBlock')
        OBVIOUS
      <4>1. IsMethod(agenda'[j]) \/ ~RightNested(agenda'[j].node)
        BY <1>5, <3>2 DEF MethodVisit
      <4>2. agenda'[j].do # "merge" /\ agenda'[j].do # "loop end" /\ ToSet(agenda'[j].labels) \subseteq R
        BY <1>6
      <4> QED  BY <4>1, <4>2 DEF Fits
    <3>4. Straight(agenda')
      BY <1>6 DEF Straight
    <3>5. Visited(R, blocks', agenda', currentBlock')
      BY <1>1, <3>1, <3>3, <3>4 DEF Visited
    <3>6. R \subseteq DOMAIN blocks' /\ name \in R /\ scope' = n /\ \A l \in R : Targets(blocks'[l]) \subseteq R
      BY <1>1, <1>7, <2>2, <3>1
    <3> HIDE DEF R, name
    <3> QED  BY <2>2, <3>5, <3>6 DEF Region
  <2>3. CASE n # name
    <3>1. PICK S : Region(S, n)
      BY <2>1 DEF Partition, Regions
    <3>2. S \subseteq DOMAIN blocks /\ name \notin S /\ (n \in DOMAIN blocks' => n \in S)
      BY <1>1, <1>7, <2>3, <3>1 DEF Region
    <3>3. ASSUME NEW l \in S
          PROVE  Targets(blocks'[l]) \subseteq S /\ Coherent(blocks', <<>>, NoBlock, l)
      <4>1. blocks'[l] = blocks[l]
        BY <1>7, <3>2
      <4>2. Coherent(blocks, <<>>, NoBlock, l)
        <5>1. CASE scope # n
          BY <3>1, <5>1 DEF Region, Left
        <5>2. CASE scope = n
          <6>1. Coherent(blocks, agenda, currentBlock, l)
            BY <3>1, <5>2 DEF Region, Visited
          <6>2. ~Awaited(agenda, l) /\ ~Looping(agenda, currentBlock, l)
            BY <1>1 DEF Awaited, Looping, MethodVisit
          <6> QED  BY <6>1, <6>2 DEF Coherent
        <5> QED  BY <5>1, <5>2
      <4>3. Coherent(blocks', <<>>, NoBlock, l)
        BY <4>1, <4>2 DEF Coherent
      <4> QED  BY <3>1, <4>1, <4>3 DEF Region
    <3>4. Left(S, blocks', agenda', currentBlock')
      <4>1. currentBlock' \notin S
        BY <1>1, <3>2
      <4>2. \A i \in DOMAIN agenda' : ToSet(agenda'[i].labels) \cap S = {}
        BY <1>6
      <4> QED  BY <3>3, <4>1, <4>2 DEF Left
    <3>5. scope' # n /\ S \subseteq DOMAIN blocks'
      BY <1>1, <1>7, <2>3, <3>2
    <3> HIDE DEF name
    <3> QED  BY <3>2, <3>3, <3>4, <3>5 DEF Region
  <2> QED  BY <2>2, <2>3
<1>9. Pending'
  <2> SUFFICES ASSUME NEW j \in DOMAIN agenda', IsMethod(agenda'[j])
               PROVE  \E i \in DOMAIN source' : agenda'[j].node = MethodNode(source'[i])
    BY DEF Pending, IsMethod
  <2>1. \E i \in DOMAIN agenda : agenda'[j] = agenda[i]
    BY <1>1, <1>4
  <2>2. \E i \in DOMAIN source : agenda'[j].node = MethodNode(source[i])
    BY <2>1 DEF Partition, Pending
  <2> QED  BY <1>1, <2>2
<1>10. Begun'
  <2> SUFFICES ASSUME NEW n \in DOMAIN temps', n \notin DOMAIN blocks'
               PROVE  \E j \in DOMAIN agenda' : IsMethod(agenda'[j]) /\ agenda'[j].node.text = n
    BY DEF Begun, IsMethod
  <2>1. n \in DOMAIN temps /\ n \notin DOMAIN blocks /\ n # name
    BY <1>1, <1>7
  <2>2. PICK i \in DOMAIN agenda : IsMethod(agenda[i]) /\ agenda[i].node.text = n
    BY <2>1 DEF Partition, Begun
  <2>3. i # 1
    <3>1. task = agenda[1]
      BY <1>1, FirstTask
    <3> QED  BY <1>1, <2>1, <2>2, <3>1
  <2>4. PICK j \in DOMAIN agenda' : agenda'[j] = agenda[i]
    BY <1>4, <2>3
  <2> QED  BY <2>2, <2>4
<1> QED  BY <1>8, <1>9, <1>10 DEF Partition

LEMMA InitParts == Init => Partition
<1> SUFFICES ASSUME Init
             PROVE  Partition
  OBVIOUS
<1>1. /\ source \in Sources /\ agenda = [i \in DOMAIN source |-> Visit(MethodNode(source[i]))]
      /\ blocks = NothingBuilt /\ currentBlock = NoBlock /\ scope = NoBlock
      /\ DOMAIN temps = {source[i].name : i \in DOMAIN source}
  BY DEF Init
<1>2. IInv
  BY InitInv
<1>3. DOMAIN blocks = {}
  BY <1>1 DEF NothingBuilt
<1>4. NoBlock \notin DOMAIN temps
  BY <1>2, MethodNames DEF IInv
<1>5. Regions
  <2> SUFFICES ASSUME NEW n \in DOMAIN temps
               PROVE  Region({}, n)
    BY DEF Regions
  <2>1. Left({}, blocks, agenda, currentBlock)
    BY DEF Left
  <2> QED  BY <1>1, <1>3, <1>4, <2>1 DEF Region
<1>6. \A i \in DOMAIN source : i \in DOMAIN agenda /\ agenda[i].node = MethodNode(source[i]) /\ agenda[i].do = "visit"
  BY <1>1 DEF Visit, Task
<1>7. DOMAIN agenda = DOMAIN source
  BY <1>1
<1>8. Pending
  BY <1>6, <1>7 DEF Pending
<1>9. Begun
  <2> SUFFICES ASSUME NEW n \in DOMAIN temps
               PROVE  \E i \in DOMAIN agenda : IsMethod(agenda[i]) /\ agenda[i].node.text = n
    BY DEF Begun
  <2>1. PICK i \in DOMAIN source : source[i].name = n
    BY <1>1
  <2>2. source[i] \in Methods
    <3>1. source \in Seq(Methods)
      BY <1>1, SourceAssumption
    <3> QED  BY <3>1
  <2>3. MethodNode(source[i]).kind = "Method" /\ MethodNode(source[i]).text = n
    BY <2>1, <2>2, MethodsNode
  <2> QED  BY <1>6, <2>3 DEF IsMethod
<1> QED  BY <1>5, <1>8, <1>9 DEF Partition

-----------------------------------------------------------------------------
(***************************************************************************)
(* The blocks that can be reached.                                         *)
(***************************************************************************)
IsRounds(f, bs, root, d) ==
  f = [e \in 0 .. d |-> IF e = 0 THEN {root} ELSE UNION {{b} \cup Targets(bs[b]) : b \in f[e - 1]}]

LEMMA RoundsExist ==
  ASSUME NEW bs, NEW root
  PROVE  \A d \in Nat : \E f : IsRounds(f, bs, root, d)
<1> DEFINE S == {d \in Nat : \E f : IsRounds(f, bs, root, d)}
<1>1. 0 \in S
  <2>1. IsRounds([e \in 0 .. 0 |-> {root}], bs, root, 0)
    BY DEF IsRounds
  <2> QED  BY <2>1
<1>2. ASSUME NEW d \in Nat, d \in S
      PROVE  d + 1 \in S
  <2>1. PICK f : IsRounds(f, bs, root, d)
    BY <1>2
  <2> DEFINE g == [e \in 0 .. d + 1 |->
                     IF e = 0 THEN {root} ELSE UNION {{b} \cup Targets(bs[b]) : b \in f[e - 1]}]
  <2>2. ASSUME NEW e \in 0 .. d
        PROVE  g[e] = f[e]
    <3>1. e \in 0 .. d + 1
      OBVIOUS
    <3>2. f[e] = IF e = 0 THEN {root} ELSE UNION {{b} \cup Targets(bs[b]) : b \in f[e - 1]}
      BY <2>1, Zenon DEF IsRounds
    <3> QED  BY <3>1, <3>2, Zenon
  <2>3. g = [e \in 0 .. d + 1 |->
               IF e = 0 THEN {root} ELSE UNION {{b} \cup Targets(bs[b]) : b \in f[e - 1]}]
    OBVIOUS
  <2> HIDE DEF g
  <2>4. ASSUME NEW e \in 0 .. d + 1, e # 0
        PROVE  g[e - 1] = f[e - 1]
    <3>1. e - 1 \in 0 .. d
      BY <2>4
    <3> QED  BY <2>2, <3>1
  <2>5. IsRounds(g, bs, root, d + 1)
    BY <2>3, <2>4 DEF IsRounds
  <2> QED  BY <2>5
<1> HIDE DEF S
<1>3. Nat \subseteq S
  BY <1>1, <1>2, Induction
<1> QED  BY <1>3 DEF S

\* What leads nowhere else holds all that can be reached from it.
LEMMA ReachedWithin ==
  ASSUME NEW bs, IsFiniteSet(DOMAIN bs), NEW root, NEW S, root \in S,
         \A b \in S : Targets(bs[b]) \subseteq S
  PROVE  Reachable(bs, root, Targets) \subseteq S
<1> DEFINE c == Cardinality(DOMAIN bs)
           f == CHOOSE f : IsRounds(f, bs, root, c)
<1>1. c \in Nat
  BY FS_CardinalityType
<1>2. Reachable(bs, root, Targets) = f[c]
  BY DEF Reachable, IsRounds
<1>3. IsRounds(f, bs, root, c)
  BY <1>1, RoundsExist
<1> HIDE DEF f, c
<1>4. /\ f[0] = {root}
      /\ \A d \in 0 .. c : d # 0 => f[d] = UNION {{b} \cup Targets(bs[b]) : b \in f[d - 1]}
  <2>1. 0 \in 0 .. c
    BY <1>1
  <2>2. \A d \in 0 .. c :
          f[d] = IF d = 0 THEN {root} ELSE UNION {{b} \cup Targets(bs[b]) : b \in f[d - 1]}
    BY <1>3, Zenon DEF IsRounds
  <2> QED  BY <2>1, <2>2, Zenon
<1> DEFINE D == {d \in Nat : d <= c => f[d] \subseteq S}
<1>5. 0 \in D
  BY <1>4
<1>6. ASSUME NEW d \in Nat, d \in D
      PROVE  d + 1 \in D
  <2> SUFFICES ASSUME d + 1 <= c
               PROVE  f[d + 1] \subseteq S
    OBVIOUS
  <2>1. d + 1 \in 0 .. c /\ (d + 1) - 1 = d /\ d + 1 # 0 /\ d <= c
    BY <1>1
  <2>2. f[d] \subseteq S
    BY <1>6, <2>1
  <2>3. f[d + 1] = UNION {{b} \cup Targets(bs[b]) : b \in f[d]}
    BY <1>4, <2>1
  <2> QED  BY <2>2, <2>3
<1> HIDE DEF D
<1>7. Nat \subseteq D
  BY <1>5, <1>6, Induction
<1>8. f[c] \subseteq S
  BY <1>1, <1>7 DEF D
<1> QED  BY <1>2, <1>8

LEMMA RangeFinite ==
  ASSUME NEW f, IsFiniteSet(DOMAIN f)
  PROVE  IsFiniteSet({f[x] : x \in DOMAIN f})
<1> DEFINE T == {f[x] : x \in DOMAIN f}
           g == [x \in DOMAIN f |-> f[x]]
<1>1. g \in Surjection(DOMAIN f, T)
  BY DEF Surjection
<1> QED  BY <1>1, FS_Surjection

LEMMA FinitelyMany == IInv => IsFiniteSet(DOMAIN blocks)
<1> SUFFICES ASSUME IInv
             PROVE  IsFiniteSet(DOMAIN blocks)
  OBVIOUS
<1> DEFINE N == 0 .. nextBlock - 1
           f == [n \in N |-> <<"block", n>>]
           g == [i \in DOMAIN source |-> source[i].name]
<1>1. nextBlock \in Nat /\ source \in Seq(Methods) /\ DOMAIN temps = {source[i].name : i \in DOMAIN source}
  BY SourceAssumption DEF IInv, Counters
<1>2. IsFiniteSet(DOMAIN f) /\ IsFiniteSet(DOMAIN g)
  <2>1. nextBlock - 1 \in Int /\ Len(source) \in Int /\ DOMAIN source = 1 .. Len(source) /\ 0 \in Int /\ 1 \in Int
    BY <1>1
  <2>2. IsFiniteSet(0 .. nextBlock - 1) /\ IsFiniteSet(1 .. Len(source))
    BY <2>1, FS_Interval
  <2> QED  BY <2>1, <2>2
<1>3. {f[n] : n \in DOMAIN f} = {<<"block", n>> : n \in N} /\ {g[i] : i \in DOMAIN g} = DOMAIN temps
  BY <1>1
<1> HIDE DEF f, g, N
<1>4. IsFiniteSet({<<"block", n>> : n \in N}) /\ IsFiniteSet(DOMAIN temps)
  BY <1>2, <1>3, RangeFinite
<1>5. IsFiniteSet(MadeLabels)
  BY <1>4, FS_Union DEF MadeLabels, N
<1>6. DOMAIN blocks \subseteq MadeLabels
  BY DEF IInv, Linked
<1> QED  BY <1>5, <1>6, FS_Subset

\* At the end every block is as it should be.
LEMMA AtEnd ==
  ASSUME NEW l, Coherent(blocks, <<>>, NoBlock, l)
  PROVE  ExitsFollowCode(blocks[l])
<1>1. ~Awaited(<<>>, l) /\ ~Looping(<<>>, NoBlock, l)
  BY DEF Awaited, Looping
<1>2. CASE EndsInJump(blocks[l])
  BY <1>1, <1>2 DEF Coherent
<1>3. CASE ~EndsInJump(blocks[l])
  <2>1. Has(blocks[l], {}, NoBlock, NoBlock)
    BY <1>1, <1>3 DEF Coherent, Blank, Has
  <2> QED  BY <2>1, NoJumps
<1> QED  BY <1>2, <1>3

LEMMA RegionAtEnd ==
  ASSUME agenda = <<>>, NEW n, NEW S, Region(S, n), NEW b \in S
  PROVE  ExitsFollowCode(blocks[b])
<1>1. Coherent(blocks, <<>>, NoBlock, b)
  <2>1. CASE scope # n
    BY <2>1 DEF Region, Left
  <2>2. CASE scope = n
    <3>1. Coherent(blocks, agenda, currentBlock, b)
      BY <2>2 DEF Region, Visited
    <3>2. ~Awaited(agenda, b) /\ ~Looping(agenda, currentBlock, b)
      BY DEF Awaited, Looping
    <3> QED  BY <3>1, <3>2 DEF Coherent
  <2> QED  BY <2>1, <2>2
<1> QED  BY <1>1, AtEnd

LEMMA PartsAgree == IInv /\ Partition => ExitsAgree
<1> SUFFICES ASSUME IInv, Partition, agenda = <<>>, NEW i \in DOMAIN source, ~RightNested(source[i].body)
             PROVE  \A b \in Reachable(blocks, source[i].name, Targets) : ExitsFollowCode(blocks[b])
  BY DEF ExitsAgree, Generated
<1> DEFINE n == source[i].name
<1>1. DOMAIN temps = {source[k].name : k \in DOMAIN source} /\ \A k, l \in DOMAIN source : source[k].name = source[l].name => k = l
  BY SourceAssumption DEF IInv, Counters
<1>2. n \in DOMAIN temps /\ NotNested(n)
  BY <1>1 DEF NotNested
<1>3. PICK S : Region(S, n)
  BY <1>2 DEF Partition, Regions
<1>4. n \in S
  <2>1. DOMAIN agenda = {}
    OBVIOUS
  <2>2. n \in DOMAIN blocks
    BY <1>2, <2>1 DEF Partition, Begun
  <2> QED  BY <1>3, <2>2 DEF Region
<1>5. Reachable(blocks, n, Targets) \subseteq S
  BY <1>3, <1>4, FinitelyMany, ReachedWithin DEF Region
<1>6. \A b \in S : ExitsFollowCode(blocks[b])
  BY <1>3, RegionAtEnd
<1> QED  BY <1>5, <1>6

-----------------------------------------------------------------------------
LEMMA PartsStep == IInv /\ Partition /\ [Next]_irVars => Partition'
<1> SUFFICES ASSUME IInv, Partition, [Next]_irVars
             PROVE  Partition'
  OBVIOUS
<1>1. CASE BeginMethod
  BY <1>1, BeginMoves
<1>2. CASE UNCHANGED irVars
  <2>1. Regions' /\ Pending' /\ Begun'
    BY <1>2 DEF irVars, Partition, Regions, Region, NotNested, Pending, Begun
  <2> QED  BY <2>1 DEF Partition
<1>3. CASE Generate /\ ~BeginMethod
  <2>1. Quiet \/ UNCHANGED irVars
    BY StepKeeps
  <2>2. Moving
    <3>1. CASE Leaf \/ New \/ EvalOperands \/ EvalSize
      BY <3>1, LeafMoves, OperandsMove
    <3>2. CASE FinishStrict \/ FinishSized \/ FinishStatement \/ Statement
      BY <3>2, FinishMoves, StatementMoves
    <3>3. CASE EvalCall \/ Param \/ FinishCall
      BY <3>3, CallMoves, PushMoves
    <3>4. CASE EvalLeft \/ Branch \/ Merge
      BY <3>4, LeftMoves, BranchMoves, MergeMoves
    <3>5. CASE EvalCondition \/ Then \/ EndBranch
      BY <3>5, EvalConditionMoves, ThenMoves, EndBranchMoves
    <3>6. CASE BeginWhile \/ LoopBody \/ LoopEnd
      BY <3>6, BeginWhileMoves, LoopBodyMoves, LoopEndMoves
    <3> QED  BY <1>3, <3>1, <3>2, <3>3, <3>4, <3>5, <3>6 DEF Generate
  <2>3. CASE Quiet
    BY <2>2, <2>3, MovesOn DEF Moving
  <2> QED  BY <1>2, <2>1, <2>3
<1> QED  BY <1>1, <1>2, <1>3 DEF Next

LEMMA Parts == Spec => []Partition
<1>1. Spec => []IInv
  BY Inductive, PTL
<1>2. IInv /\ Partition /\ [Next]_irVars => Partition'
  BY PartsStep
<1>3. Init => Partition
  BY InitParts
<1> QED  BY <1>1, <1>2, <1>3, PTL DEF Spec

\* Whatever the programs nest in whatever else, the exits that the passes and
\* the code generator follow are the jumps that the machine follows, in every
\* method without a && or || in the right operand of another.
THEOREM ExitsFollow == Spec => []ExitsAgree
BY Parts, Inductive, PartsAgree, PTL

=============================================================================
