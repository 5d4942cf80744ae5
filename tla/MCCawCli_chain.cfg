\* Three command lines of two tools; the Faz server dies and comes back at any time.
CONSTANTS
  cpp = cpp
  go = go
  u1 = u1
  u2 = u2
  Nobody = Nobody
  Users = {u1, u2, Nobody}
  Registered = {u2}
  Ids = {}
  NoCaw = NoCaw
  BadId = BadId
  Threads = {t1, t2}
  Ops = {"RegisterUser", "Follow", "Profile"}
  Faults = {"fazcrash"}
  MaxCalls = 12
  Clis = {cpp, go}
  GoTools = {go}
  Lines <- CliLines
SPECIFICATION AllSpec
INVARIANTS Consistent ReportsAreTrue SuccessIsTrue HookingIsShared ProfileWhole 
PROPERTIES EveryLineEnds
CHECK_DEADLOCK FALSE
