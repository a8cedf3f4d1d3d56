\* Two threads and three positions for the two entries of a cluster, as long
\* as the threads have not met.
SPECIFICATION Spec
CONSTANTS
  t0 = t0
  t1 = t1
  Threads = {t0, t1}
  Main = t0
  k1 = k1
  k2 = k2
  k3 = k3
  Keys = {k1, k2, k3}
  NoKey = 0
  InCheck = {}
  ClusterSize = 2
  Generations = 2
  Moves <- MCMoves
  Results <- MCResults
  Dfpn = TRUE
SYMMETRY MCSymmetry
VIEW LiveView
CONSTRAINT NoRace
INVARIANTS
  TypeOK
  OneEntry
  LatestFound
  Victim
