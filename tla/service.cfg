CONSTANTS
  Blank = Blank
  Bad = Bad
  DefaultFile = DefaultFile
  DefaultKey = DefaultKey
  DefaultGrpc = DefaultGrpc
  DefaultHttp = DefaultHttp
  DefaultHttps = DefaultHttps
  Paths = {}
  db1 = db1
  db2 = db2
  key1 = key1
  key2 = key2
  net = net
  Strings = {DefaultFile, DefaultKey, DefaultGrpc, DefaultHttp, DefaultHttps, db1, db2, key1, key2, net}
  Inputs <- Starts
  o1 = o1
  s1 = s1
  s2 = s2
  s3 = s3
  u1 = u1
  u2 = u2
  BlankURL = BlankURL
  BlankShort = BlankShort
  None = None
  Originals = {o1, BlankURL}
  Shorts = {s1, s2}
  Users = {u1, u2}
  JwtKeys = {DefaultFile, DefaultKey, DefaultGrpc, DefaultHttp, DefaultHttps, db1, db2, key1, key2, net}
  NoSubnet = Blank
  Subnets = {net}
  inside = inside
  outside = outside
  Hosts = {inside, outside}
  InSubnet <- Within
  NotAnIP = NotAnIP
  c1 = c1
  c2 = c2
  Clients = {c1}
  Databases = {db1, db2}
  Bodies <- Sent
  Garbled = o1
  GrpcUser = u1
  MaxBatch = 2
  MaxRows = 2
  MaxPending = 1
  MaxRestarts = 1
SYMMETRY Symmetric
SPECIFICATION ServiceSpec
INVARIANTS ServiceTypeOK NoListWithoutToken LeavesWithToken GoneForGood StatsCountResolvable
 
CHECK_DEADLOCK FALSE
