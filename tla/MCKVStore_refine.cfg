\* The refinement and progress, without symmetry, in a file of which an int indexes
\* the first half: positions from IntMax + 1 on turn negative (2 to 4 GiB).
CONSTANTS
  k1 = k1
  k2 = k2
  v1 = v1
  v2 = v2
  r1 = r1
  Keys = {k1, k2}
  Values = {v1, v2}
  Readers = {r1}
  NoKey = NoKey
  IntMax = 3
  MaxFile = 7
  MaxValues = 2
SPECIFICATION FairSpec
PROPERTIES ImplementsDurableMap Progress
