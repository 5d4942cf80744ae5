\* The stream of a Get ends early while a thread is read.
CONSTANTS
  Users = {u1}
  Registered = {u1}
  Ids = {c1, c2}
  NoCaw = NoCaw
  BadId = BadId
  Threads = {t1, t2}
  Ops = {"Caw", "Read"}
  Faults = {"cut"}
  MaxCalls = 3
SPECIFICATION Spec
SYMMETRY Symmetry
INVARIANTS ReadWhole
CHECK_DEADLOCK FALSE
