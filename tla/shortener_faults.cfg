SPECIFICATION FairSpec
CONSTANTS
  r1 = r1  r2 = r2  r3 = r3
  s1 = s1  s2 = s2  s3 = s3  s4 = s4  s5 = s5  s6 = s6
  now = now  later = later
  None = None
  Originals = {o1, o2}
  BlankURL = blank
  BlankShort = empty
  Shorts = {s1, s2, s3, s4, s5, s6}
  Users = {u1}
  Requests = {r1, r2}
  Kinds = {"create", "batch"}
  Seeds = {now, later}
  Stream <- TwoSeconds
  SharedSeeds = FALSE
  MaxBatch = 2
  MaxRestarts = 0
  PgConfigured = TRUE
  FileConfigured = TRUE
  Faults = TRUE
INVARIANT BatchAllOrNothing
PROPERTY EveryRequestAnswered
CHECK_DEADLOCK FALSE
