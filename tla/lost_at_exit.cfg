SPECIFICATION Spec
CONSTANTS
  j1 = j1  j2 = j2  j3 = j3  c1 = c1
  s1 = s1  s2 = s2  u1 = u1  u2 = u2  o1 = o1  o2 = o2  o3 = o3
  db = db  db2 = db2
  None = None
  Originals = {o1, o2, o3}
  BlankURL = blank
  BlankShort = empty
  Shorts = {s1, s2}
  Users = {u1, u2}
  Jobs = {j1, j2}
  Creations = {}
  Servers = {"http"}
  Stores = {db}
  StoreOf <- OneDb
  Table0 <- OneRows
  GrpcUser = u1
  ShortLists <- Singles
  ChanCap = 2
  FlushAt = 2
  Faults = FALSE
SYMMETRY Symmetric
INVARIANT NothingLostAtExit
CHECK_DEADLOCK FALSE
