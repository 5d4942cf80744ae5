\* Up to three caws and the reads of their threads, with every failure of a Put, and restarts.
CONSTANTS
  Users = {u1, u2}
  Registered = {u1}
  Ids = {c1, c2, c3}
  NoCaw = NoCaw
  BadId = BadId
  Threads = {t1, t2}
  Ops = {"Caw", "Read"}
  Faults = {"refused", "unreachable", "lost", "late", "kvrestart", "fazcrash", "collide"}
  MaxCalls = 5
SPECIFICATION Spec
SYMMETRY Symmetry
INVARIANTS AnsweredOkLasts NoDanglingReply SeenCawsLast ReadWhole ReadNeverRepeats ReadFinds
CHECK_DEADLOCK FALSE
