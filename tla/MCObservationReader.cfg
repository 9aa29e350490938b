SPECIFICATION Spec
CONSTANTS
  a = a
  b = b
  c = c
  d = d
  e = e
  w = w
  bad = bad
  odd = odd
  masked = masked
  r1 = r1
  r2 = r2
  None = None
  Item = {a, b, c, d, e, w}
  KindOf <- MCKindOf
  Bare <- MCBare
  Bad = bad
  Odd = odd
  Masked = masked
  File <- MCFile
  Batch <- MCBatch
  Region = {r1, r2}
  Covers <- MCCovers
  MaxStarts = 2
INVARIANTS
  TypeOK
  
  WrittenIsReadBack
  NothingStale
  DefinedOnceStarted
  MixedOnlyIfUnseen
  OverflowOnlyIfRelinked
PROPERTIES
  ImplementsContract
  Ends
CHECK_DEADLOCK FALSE
