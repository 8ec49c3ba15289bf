SPECIFICATION Spec
CONSTANTS
  MaxDepth = 8
  Sources <- MCSources
INVARIANT TypeOK
INVARIANT ExitsAgree
INVARIANT TempsDefined
PROPERTY ClosedStaysClosed
