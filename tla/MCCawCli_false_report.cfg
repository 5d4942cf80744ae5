\* The tool in C++ unhooks and hooks again while the one in Go follows.
CONSTANTS
  cpp = cpp
  go = go
  u1 = u1
  u2 = u2
  Nobody = Nobody
  Users = {u1, u2, Nobody}
  Registered = {u1, u2}
  Ids = {}
  NoCaw = NoCaw
  BadId = BadId
  Threads = {t1, t2}
  Ops = {"RegisterUser", "Follow"}
  Faults = {}
  MaxCalls = 12
  Clis = {cpp, go}
  GoTools = {go}
  Lines <- RehookLines
SPECIFICATION AllSpec
INVARIANTS SuccessIsTrue
CHECK_DEADLOCK FALSE
