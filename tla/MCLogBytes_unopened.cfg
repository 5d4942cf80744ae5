\* The file holds a torn record, and a start cannot open it for reading.
CONSTANTS
  GroupBits = 1
  IntBits = 3
  SizeBits = 6
  Keys <- SomeKeys
  Values <- SomeValues
  Faults = {"open"}
  MaxChanges = 2
SPECIFICATION Spec
PROPERTIES RestartsRight
