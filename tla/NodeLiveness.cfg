\* Three threads share the two moves of a node; every search of it ends.
SPECIFICATION FairSpec
CONSTANTS
  m1 = m1
  m2 = m2
  m3 = m3
  t0 = t0
  t1 = t1
  t2 = t2
  Threads <- MCThreads
  Master = t0
  Moves <- MCTwoMoves
  NoMove = NoMove
  Values <- MCTwoValues
  Infinite = 9
  NoThread = NoThread
  MatedInMax = 0
PROPERTIES
  NodeReturns
