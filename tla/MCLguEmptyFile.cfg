SPECIFICATION LguSpec
CONSTANTS
  ListHead = {h1, h2}
  Node = {n1, n2, n3}
  NIL = NIL
  LIST_POISON1 = LIST_POISON1
  LIST_POISON2 = LIST_POISON2
  UIntMod = 8
  MY_PAGE_SZ = 2
  BlockSize = 3
  Limits = {0, 4}
  MaxFile = 10
  NoBuf = NoBuf
  MaxBytes = 34
SYMMETRY Symmetry
INVARIANT EveryFileIsRead
