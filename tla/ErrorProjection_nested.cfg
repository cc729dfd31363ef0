SPECIFICATION Spec
CONSTANT NestedExecutions = TRUE
INVARIANT
  DetailIsDisclosed
