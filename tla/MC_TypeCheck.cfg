CONSTANTS
  MaxDepth = 9
  Programs <- MCPrograms
SPECIFICATION Spec
INVARIANT TypeOK
INVARIANT ScopesAreThoseDeclared
INVARIANT MessagesAreTheFaults
INVARIANT NeverGoesWrong
