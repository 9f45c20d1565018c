SPECIFICATION Spec
CONSTANTS
  Pid = {p1, p2, p3}
  None = None
  Args <- MCArgs
  Slice = {s1, s2}
  Cpu = {c1, c2}
  TwqNum = 2
  NULL = NULL
  ULongMod = 4
SYMMETRY Symmetry
INVARIANT FreeAllLeavesNothing
