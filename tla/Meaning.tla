------------------------------ MODULE Meaning -------------------------------
(***************************************************************************)
(* What a source program means: a definitional interpreter for MiniJava,   *)
(* written from the language and not from the compiler, which serves as    *)
(* the reference the compiled program is compared with.  Operands are      *)
(* evaluated from left to right, && and || only as far as needed.          *)
(*                                                                         *)
(* A state has the local variables (vars) and receiver (this) of the       *)
(* method at work, the heap, the values printed (out), the value returned  *)
(* (result), and why execution failed (err, "" if it did not).             *)
(***************************************************************************)
EXTENDS Ast, Arithmetic, SequencesExt

MethodNamed(src, name) == CHOOSE m \in ToSet(src) : m.name = name

FieldsOf(src, class) ==
  (UNION {m.fields : m \in {m \in ToSet(src) : ClassOf(m.name) = class}}) \ {This}

Fail(s, why) == [v |-> 0, s |-> [s EXCEPT !.err = why]]
Give(s, v)   == [v |-> v, s |-> s]

Read(s, x) ==
  IF x \in DOMAIN s.vars THEN s.vars[x] ELSE s.objects[s.this].fields[x]

Write(s, x, v) ==
  IF x \in DOMAIN s.vars THEN [s EXCEPT !.vars[x] = v]
                         ELSE [s EXCEPT !.objects[s.this].fields[x] = v]

Fresh(src, class) == [class |-> class, fields |-> [x \in FieldsOf(src, class) |-> 0]]

IsElement(s, ref, i) == ref \in DOMAIN s.arrays /\ i \in 0 .. Len(s.arrays[ref]) - 1

\* The operation of a node on the values of its children.
Apply(src, node, vs, s) ==
  CASE node.kind = "DIV" /\ Traps(vs[1], vs[2]) -> Fail(s, "trap")
    [] node.kind \in BinaryOps /\ ~(node.kind = "DIV" /\ Traps(vs[1], vs[2])) ->
         Give(s, Compute(node.kind, vs[1], vs[2]))
    [] node.kind = "NOT" -> Give(s, Bool(vs[1] = 0))
    [] node.kind = "NEW" ->
         Give([s EXCEPT !.objects = Append(@, Fresh(src, node.text))], Len(s.objects) + 1)
    [] node.kind = "NEW_ARRAY" ->
         IF vs[1] < 0 THEN Fail(s, "negative length")
         ELSE Give([s EXCEPT !.arrays = Append(@, [i \in 1 .. vs[1] |-> 0])], Len(s.arrays) + 1)
    [] node.kind = "ARRAY_LENGTH" -> Give(s, Len(s.arrays[vs[1]]))
    [] node.kind = "ARRAY_LOAD" ->
         IF IsElement(s, vs[1], vs[2]) THEN Give(s, s.arrays[vs[1]][vs[2] + 1])
                                       ELSE Fail(s, "bad index")
    [] node.kind = "Assign" -> Give(Write(s, node.text, vs[1]), 0)
    [] node.kind = "ArrayAssign" ->
         LET ref == Read(s, node.text) IN
         IF IsElement(s, ref, vs[1])
         THEN Give([s EXCEPT !.arrays[ref][vs[1] + 1] = vs[2]], 0)
         ELSE Fail(s, "bad index")
    [] node.kind = "PRINT" -> Give([s EXCEPT !.out = Append(@, vs[1])], 0)
    [] node.kind = "RET"   -> Give([s EXCEPT !.result = vs[1]], 0)
    [] node.kind = "List"  -> Give(s, 0)

LeafValue(node, s) ==
  CASE node.kind = "Integer"    -> node.num
    [] node.kind = "True"       -> 1
    [] node.kind = "False"      -> 0
    [] node.kind = "This"       -> s.this
    [] node.kind = "Identifier" -> Read(s, node.text)

\* The state in which a method's body starts.
Entered(s, method, args) ==
  [s EXCEPT !.this = Head(args),
            !.vars = [x \in method.variables |->
              IF x \in ToSet(method.params)
              THEN args[1 + CHOOSE i \in DOMAIN method.params : method.params[i] = x]
              ELSE 0]]

RECURSIVE Eval(_, _, _), EvalAll(_, _, _)

\* The values of several nodes, evaluated one after the other.
EvalAll(src, nodes, s) ==
  IF nodes = <<>> THEN Give(s, <<>>)
  ELSE LET first == Eval(src, Head(nodes), s)
           rest  == EvalAll(src, Tail(nodes), first.s)
       IN  Give(rest.s, <<first.v>> \o rest.v)

Eval(src, node, s) ==
  IF s.err # "" THEN Give(s, 0)
  ELSE IF node.kind \in ExpressionLeaves THEN Give(s, LeafValue(node, s))
  ELSE IF node.kind \in ShortCircuit THEN
    LET left == Eval(src, node.kids[1], s) IN
    IF left.v = (IF node.kind = "AND" THEN 0 ELSE 1) THEN left
    ELSE Eval(src, node.kids[2], left.s)
  ELSE IF node.kind \in {"If", "IfElse"} THEN
    LET c == Eval(src, node.kids[1], s) IN
    IF c.v = 1 THEN Eval(src, node.kids[2], c.s)
    ELSE IF node.kind = "IfElse" THEN Eval(src, node.kids[3], c.s) ELSE c
  ELSE IF node.kind = "While" THEN
    LET c == Eval(src, node.kids[1], s) IN
    IF c.v = 1 THEN Eval(src, node, Eval(src, node.kids[2], c.s).s) ELSE c
  ELSE
    LET kids == EvalAll(src, node.kids, s) IN
    IF kids.s.err # "" THEN Give(kids.s, 0)
    ELSE IF node.kind = "CALL" THEN
      LET method == MethodNamed(src, node.text)
          done   == Eval(src, method.body, Entered(kids.s, method, kids.v)).s
      IN  Give([done EXCEPT !.this = s.this, !.vars = kids.s.vars], done.result)
    ELSE Apply(src, node, kids.v, kids.s)

Meaning(src) ==
  Eval(src, src[1].body,
       [vars |-> [x \in src[1].variables |-> 0], this |-> 0, objects |-> <<>>,
        arrays |-> <<>>, out |-> <<>>, result |-> 0, err |-> ""]).s
=============================================================================
