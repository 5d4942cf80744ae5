\* Two users, one registered before; every failure of a Put, broken Gets, and restarts of both servers.
CONSTANTS
  Users = {u1, u2}
  Registered = {u1}
  Ids = {}
  NoCaw = NoCaw
  BadId = BadId
  Threads = {t1, t2}
  Ops = {"RegisterUser", "Follow", "Profile"}
  Faults = {"refused", "unreachable", "lost", "late", "cut", "kvrestart", "fazcrash"}
  MaxCalls = 3
SPECIFICATION Spec
SYMMETRY Symmetry
INVARIANTS TypeOK AnsweredOkLasts FollowInOrder ListsAgree StoredOnce NamesAreUsers
CHECK_DEADLOCK FALSE
