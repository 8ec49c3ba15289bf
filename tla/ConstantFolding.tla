-------------------------- MODULE ConstantFolding ---------------------------
(***************************************************************************)
(* The constant folding pass (src/ir/passes/ConstantFoldingPass.cpp).  It  *)
(* visits the blocks reachable from the methods' roots, and goes through a *)
(* block instruction by instruction, with an environment that starts empty *)
(* in every block.                                                         *)
(***************************************************************************)
EXTENDS Folding

VARIABLES
  blocks,   \* the blocks of the graph, by label
  pending,  \* the stack of blocks to visit, top last
  visited,  \* the blocks visited
  place,    \* the block in work and its next instruction, or Nowhere
  env       \* the constants known there

Nowhere == [block |-> NoBlock, at |-> 0]

code == blocks[place.block].code

\* The pass starts on the graph of these methods; the methods share no block,
\* so one stack serves them all, the first method on top.
Start(methods) ==
  /\ pending' = Reverse([i \in DOMAIN methods |-> methods[i].name])
  /\ visited' = {}
  /\ place' = Nowhere
  /\ env' = NothingKnown

VisitBlock ==
  /\ place = Nowhere /\ pending # <<>>
  /\ LET block == Last(pending) IN
     /\ pending' = Front(pending)
     /\ visited' = visited \cup {block}
     /\ place' = IF block \in visited THEN Nowhere ELSE [block |-> block, at |-> 1]
  /\ env' = NothingKnown
  /\ UNCHANGED blocks

FoldInstruction ==
  /\ place # Nowhere /\ place.at <= Len(code)
  /\ LET t == Rewritten(env, code[place.at]) IN
     /\ blocks' = [blocks EXCEPT ![place.block].code[place.at] = t]
     /\ env' = KnownAfter(env, t)
  /\ place' = [place EXCEPT !.at = @ + 1]
  /\ UNCHANGED <<pending, visited>>

LeaveBlock ==
  /\ place # Nowhere /\ place.at > Len(code)
  /\ LET block == blocks[place.block] IN
     pending' = pending \o If(block.trueExit # NoBlock, block.trueExit)
                        \o If(block.falseExit # NoBlock, block.falseExit)
  /\ place' = Nowhere
  /\ UNCHANGED <<blocks, visited, env>>

Pass == VisitBlock \/ FoldInstruction \/ LeaveBlock

PassDone == place = Nowhere /\ pending = <<>>
=============================================================================
