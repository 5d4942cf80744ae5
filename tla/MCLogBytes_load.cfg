\* Two changes with strings of up to four bytes; the record of the last is cut anywhere, and
\* what is on the disk lags behind.
CONSTANTS
  GroupBits = 1
  IntBits = 3
  SizeBits = 6
  Keys <- SomeKeys
  Values <- SomeValues
  Faults = {"power"}
  MaxChanges = 2
SPECIFICATION FairSpec
INVARIANTS TypeOK FileIsRecords OnlyLongStringsThrow
PROPERTIES RestartsRight LoadEnds
