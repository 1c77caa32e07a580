SPECIFICATION Spec
CONSTANTS
  g1 = g1
  g2 = g2
  t1 = t1
  t2 = t2
  s1 = s1
  s2 = s2
  Gunicorns = {g1, g2}
  Threads = {t1, t2}
  GunicornOf <- TwoProcesses
  Sessions = {s1}
  Pids = {p1, p2, p3}
  NoPid = None
  MaxWorkers = 1
  StrictMeta = FALSE
  Serialized = TRUE
  Requests <- AllRequests
  Faults = {"crash"}
SYMMETRY SerialSymmetry
INVARIANTS
  TypeOK
  AtMostOneWorker
  RegistryOwnsChildren
