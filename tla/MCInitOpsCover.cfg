SPECIFICATION Spec
CONSTANTS
  N = 3
  OrderMax = 3
INVARIANT RollbackCoversSuccessful
