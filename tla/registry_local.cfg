SPECIFICATION Spec
CONSTANTS
  g1 = g1
  g2 = g2
  t1 = t1
  t2 = t2
  s1 = s1
  s2 = s2
  Gunicorns = {g1}
  Threads = {t1, t2}
  GunicornOf <- OneProcess
  Sessions = {s1, s2}
  Pids = {p1, p2}
  NoPid = None
  MaxWorkers = 1
  StrictMeta = TRUE
  Serialized = TRUE
  Requests <- Competing
  Faults = {"keyloss", "redisdown", "hang"}
SYMMETRY LocalSymmetry
INVARIANTS
  PrepSparesLive
  WithinLimit
PROPERTY StopLeavesNone
