SPECIFICATION Spec
CONSTANTS
  Builtin <- MCBuiltin
  Programs <- TestDuplicates
INVARIANT EveryDuplicateReported
