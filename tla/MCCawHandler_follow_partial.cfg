\* A follow whose last Put does not reach the store, and its retry.
CONSTANTS
  Users = {u1, u2}
  Registered = {u1, u2}
  Ids = {}
  NoCaw = NoCaw
  BadId = BadId
  Threads = {t1, t2}
  Ops = {"Follow"}
  Faults = {"unreachable"}
  MaxCalls = 2
SPECIFICATION Spec
SYMMETRY Symmetry
INVARIANTS AlreadyMeansFollowing
CHECK_DEADLOCK FALSE
