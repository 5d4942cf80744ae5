\* Two readers, two keys, two values; a file of nine cells holds three puts.
CONSTANTS
  k1 = k1
  k2 = k2
  v1 = v1
  v2 = v2
  r1 = r1
  r2 = r2
  Keys = {k1, k2}
  Values = {v1, v2}
  Readers = {r1, r2}
  NoKey = NoKey
  IntMax = 9
  MaxFile = 9
  MaxValues = 2
SPECIFICATION Spec
SYMMETRY DataSymmetry
INVARIANTS TypeOK AcknowledgedOnDisk NoTornGap MemoryMatchesLog
PROPERTIES IteratorStaysValid NeverAbortsItself
