SPECIFICATION Spec
CONSTANT NestedExecutions = FALSE
INVARIANTS
  ExactlyItsClass
  DetailIsDisclosed
