SPECIFICATION Spec
CONSTANTS
  MaxDepth = 8
  Sources <- TestE
INVARIANT JumpsLand
