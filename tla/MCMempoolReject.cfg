SPECIFICATION Spec
CONSTANTS
  Thread = {t1}
  Slice = {s1}
  NULL = NULL
  Max = 1
  HasCtor = TRUE
  SizeArg = {9}
  Word = 2
  HeaderSize = 6
  UIntMod = 16
  MaxFail = 1
SYMMETRY Symmetry
INVARIANT
  RejectedAllocationExists
