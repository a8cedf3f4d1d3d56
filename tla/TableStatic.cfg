\* The assertion of search() and qsearch(), of one thread.
SPECIFICATION Spec
CONSTANTS
  t0 = t0
  t1 = t1
  Threads = {t0}
  Main = t0
  k1 = k1
  k2 = k2
  k3 = k3
  Keys = {k1, k2, k3}
  NoKey = 0
  InCheck = {k3}
  ClusterSize = 2
  Generations = 2
  Moves <- MCMoves
  Results <- MCResults
  Dfpn = TRUE
VIEW LiveView
INVARIANTS
  StaticKnown
