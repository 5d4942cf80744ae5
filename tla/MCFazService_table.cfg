\* One client hooks and unhooks, another sends events and gives up on some.
CONSTANTS
  Types = {e1, e2}
  Predefined = {e1, e2}
  Nodes = {n1, n2}
  None = None
  Threads = {t1, t2}
  Clients = {cpp, go}
  Admins = {cpp}
  Impatient = {go}
  MaxOps = 4
SPECIFICATION FairSpec
INVARIANTS TypeOK ReportIsTrue
PROPERTIES ImplementsHookTable CallsReturn
