SPECIFICATION Spec
CONSTANTS
  g1 = g1
  g2 = g2
  t1 = t1
  t2 = t2
  s1 = s1
  s2 = s2
  Gunicorns = {g1, g2}
  Threads = {t1, t2}
  GunicornOf <- TwoProcesses
  Sessions = {s1}
  Pids = {p1, p2}
  NoPid = None
  MaxWorkers = 6
  StrictMeta = FALSE
  Serialized = FALSE
  Requests <- AllRequests
  Faults = {}
SYMMETRY ProcessSymmetry
INVARIANT OneLiveWorker
