---------------------------- MODULE Certificates ----------------------------
(***************************************************************************)
(* A certificate for StackDiscipline, computed the way a verifier would: a *)
(* method's arity is the number of STOREs its first block begins with (the *)
(* prologue that takes the receiver and the arguments), and heights flow   *)
(* along falls-through and jumps.  StackDiscipline checks the result, so   *)
(* nothing depends on this module being right.                             *)
(***************************************************************************)
EXTENDS StackDiscipline, FiniteSets

LeadingStores(code) ==
  Cardinality({i \in 1 .. Len(code) : \A j \in 1 .. i : code[j].op = "STORE"})

ArityOf(p, name) == LeadingStores(p.methods[name].blocks[name])

\* The effect of an instruction on the height.
Change(p, instr) ==
  CASE instr.op \in {"JMP", "RET", "STOP"} -> 0
    [] instr.op = "CALL" ->
         IF instr.str \in DOMAIN p.methods THEN 1 - ArityOf(p, instr.str) ELSE 0
    [] OTHER -> Pushes(instr.op) - Pops(instr.op)

\* The heights along a block entered at height n.
Along(p, code, n) ==
  LET h[i \in 1 .. Len(code)] ==
        IF i = 1 THEN n
        ELSE IF code[i - 1].op \in {"JMP", "RET", "STOP"} THEN 0
        ELSE h[i - 1] + Change(p, code[i - 1])
  IN  h

\* The blocks a block entered at height n jumps to, with the heights on arrival.
Arrivals(p, code, n) ==
  { <<code[i].str, Along(p, code, n)[i] - Pops(code[i].op)>> :
      i \in {i \in 1 .. Len(code) : code[i].op \in {"JMP", "CJMP"}} }

\* Every block with the heights it can be entered at.
Entries(p, name) ==
  LET blocks == p.methods[name].blocks
      round[n \in 0 .. Cardinality(DOMAIN blocks)] ==
        IF n = 0 THEN {<<name, ArityOf(p, name)>>}
        ELSE UNION {{e} \cup (IF e[1] \in DOMAIN blocks
                              THEN Arrivals(p, blocks[e[1]], e[2]) ELSE {}) :
                    e \in round[n - 1]}
  IN  round[Cardinality(DOMAIN blocks)]

\* One of them, 0 for a block that is never entered.
HeightsOf(p) ==
  [name \in DOMAIN p.methods |->
     LET entries == Entries(p, name)
         entry(b) == IF \E e \in entries : e[1] = b
                     THEN (CHOOSE e \in entries : e[1] = b)[2] ELSE 0
     IN  [b \in DOMAIN p.methods[name].blocks |->
            Along(p, p.methods[name].blocks[b], entry(b))]]
=============================================================================
