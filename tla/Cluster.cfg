\* Three processes, so that objects have children with stubs to share; the client may stop.
SPECIFICATION FairSpec
CONSTANTS
  N = 3
  Nodes = 4
  Top = 2
  MaxKeys = 2
  MaxPly = 2
  StopBetween = FALSE
INVARIANTS
  StoppedOnce
  EndIsWhole
PROPERTIES
  FinalStands
  Ends
\* The client makes one search.
CHECK_DEADLOCK FALSE
