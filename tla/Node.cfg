\* Three threads share the three moves of a node.
SPECIFICATION Spec
CONSTANTS
  m1 = m1
  m2 = m2
  m3 = m3
  t0 = t0
  t1 = t1
  t2 = t2
  Threads <- MCThreads
  Master = t0
  Moves <- MCMoves
  NoMove = NoMove
  Values <- MCValues
  Infinite = 9
  NoThread = NoThread
  MatedInMax = 0
SYMMETRY Interchangeable
VIEW LiveView
INVARIANTS
  TypeOK
  StoredSound
  Window
PROPERTIES
  SharedBoundsGrow
