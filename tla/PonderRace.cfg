\* A stop may fall between the two halves of split_search.
SPECIFICATION PlayerSpec
CONSTANTS
  N = 2
  Nodes = 4
  Top = 1
  MaxKeys = 1
  MaxPly = 1
  StopBetween = TRUE
  Moves = 2
  Turns = 1
INVARIANTS
  NoRaise
\* The game ends.
CHECK_DEADLOCK FALSE
