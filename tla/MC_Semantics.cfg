SPECIFICATION Spec
CONSTANTS
  Builtin <- MCBuiltin
  Programs <- MCPrograms
INVARIANT TypeOK
INVARIANT ScopesBalanced
INVARIANT DuplicatesRejected
INVARIANT TableIsProgram
INVARIANT EmittedAsDeclared
INVARIANT UsesReachVariables
