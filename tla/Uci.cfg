\* Every kind of request, with book, mate search, quit and closed pipe.
\* The engine really stops after it has left.
SPECIFICATION FairSpec
CONSTANTS
  Requests <- MCRequests
  MateRequests = TRUE
  OwnBook = TRUE
  UsingTcp = FALSE
  PlyMax = 3
  EarlyDepth = 2
  EasyDepth = 3
  MaxInbox = 2
CHECK_DEADLOCK FALSE
INVARIANTS
  TypeOK
  StopHasReason
PROPERTIES
  ImplementsDialogue
  BoundedAnswered
  StopAnswered
  LeavesWhenTold
