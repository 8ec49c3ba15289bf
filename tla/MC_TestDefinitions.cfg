SPECIFICATION Spec
CONSTANTS
  Builtin <- MCBuiltin
  Programs <- TestDefinitions
INVARIANT EarlyUsesReported
