---------------------------- MODULE JumpFolding -----------------------------
(***************************************************************************)
(* The conditional jump folding pass                                       *)
(* (src/ir/passes/ConditionalJumpFoldingPass.cpp): a conditional jump on   *)
(* an immediate becomes a jump, and the exit not taken disappears.  The    *)
(* label of the new jump comes from the code, its exit from the block's    *)
(* exits: the pass trusts the two to agree.                                *)
(***************************************************************************)
EXTENDS FlowGraph

VARIABLES
  blocks,  \* the blocks of the graph, by label
  names,   \* the blocks reachable when the pass began (BlockNameMap)
  left,    \* those of them the pass has not processed
  place    \* the block in work and its next instruction, or Nowhere

Nowhere == [block |-> NoBlock, at |-> 0]

block == blocks[place.block]
instr == block.code[place.at]

JumpsNext == place.at < Len(block.code) /\ block.code[place.at + 1].op = "JMP"

\* Where a conditional jump on an immediate goes: by name ...
TargetLabel ==
  IF instr.lhs.num = 0 THEN instr.rhs.name
  ELSE IF JumpsNext    THEN block.code[place.at + 1].res ELSE block.trueExit

\* ... and by exit; a name the block has no exit for is looked up.
TargetBlock ==
  LET exit == IF instr.lhs.num = 0 THEN block.falseExit ELSE block.trueExit IN
  IF exit # NoBlock THEN exit ELSE IF TargetLabel \in names THEN TargetLabel ELSE NoBlock

Decided ==
  /\ instr.op = "CJMP" /\ instr.lhs.imm
  /\ TargetLabel # NoBlock /\ TargetBlock # NoBlock

\* The blocks are collected before the first of them is changed (the methods
\* share none).
Start(methods) ==
  /\ names' = UNION {ReachableBlocks(blocks, m.name) : m \in ToSet(methods)}
  /\ left' = names'
  /\ place' = Nowhere

\* The outcome does not depend on the order of the blocks.
TakeBlock ==
  /\ place = Nowhere /\ left # {}
  /\ LET next == CHOOSE b \in left : TRUE IN
     /\ left' = left \ {next}
     /\ place' = [block |-> next, at |-> 1]
  /\ UNCHANGED <<blocks, names>>

Advance == place' = [place EXCEPT !.at = @ + 1]

\* A slip: the exit not taken stays.
FoldedKeepingExit(code) == Block(code, TargetBlock, block.falseExit)

\* The block with the code that is left.
Folded(code) == Block(code, TargetBlock, NoBlock)

FoldJump ==
  /\ place # Nowhere /\ place.at <= Len(block.code)
  /\ Decided
  /\ LET rest == place.at + (IF JumpsNext THEN 2 ELSE 1)
         code == SubSeq(block.code, 1, place.at - 1) \o <<Jump(TargetLabel)>>
                   \o SubSeq(block.code, rest, Len(block.code))
     IN blocks' = [blocks EXCEPT ![place.block] = Folded(code)]
  /\ Advance
  /\ UNCHANGED <<names, left>>

KeepInstruction ==
  /\ place # Nowhere /\ place.at <= Len(block.code)
  /\ ~Decided
  /\ Advance
  /\ UNCHANGED <<blocks, names, left>>

LeaveBlock ==
  /\ place # Nowhere /\ place.at > Len(block.code)
  /\ place' = Nowhere
  /\ UNCHANGED <<blocks, names, left>>

Pass == TakeBlock \/ FoldJump \/ KeepInstruction \/ LeaveBlock

PassDone == place = Nowhere /\ left = {}
=============================================================================
