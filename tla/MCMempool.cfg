SPECIFICATION FairSpec
CONSTANTS
  Thread = {t1, t2}
  Slice = {s1, s2, s3}
  NULL = NULL
  Max = 2
  HasCtor = TRUE
  SizeArg = {0, 9, 15}
  Word = 2
  HeaderSize = 6
  UIntMod = 16
  MaxFail = 1
PROPERTY CallsReturn
INVARIANTS
  TypeOK
  RefCountsSlices
  WithinMax
  ExclusiveOwner
  MagicCheckNeverFires
  SliceFits
  ExitReportsLeaks
