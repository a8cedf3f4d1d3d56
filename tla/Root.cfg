SPECIFICATION FairSpec
CONSTANTS
  Moves = {m1, m2}
  NoMove = NoMove
  Scores <- MCScores
  INF = 11
  MateIn2 = 9
  RootMates = {8, 10}
  MateInMax = 7
  KnownWin = 5
  MinDelta = 2
  MaxDelta = 3
  Grain = 1
  RetreatWidening = 2
  WindowDepth = 4
  MateDepth = 4
  MaxDepth = 5
  MaxCheckmates = 1
  MultiPVs = {1}
  SkillPV = 2
  SkillLevel = 2
  EasyMargin = 3
  Limits = {"clock"}
INVARIANTS
  TypeOK
  WindowOK
  HistoryWritten
  HeadIsBest
  StopNotPondering
PROPERTIES
  HeadKept
  WindowWidens
  Termination
CHECK_DEADLOCK FALSE
