\* Two processes, two moves of the opponent, three answers of the player.
SPECIFICATION FairPlayerSpec
CONSTANTS
  N = 2
  Nodes = 4
  Top = 1
  MaxKeys = 1
  MaxPly = 1
  StopBetween = FALSE
  Moves = 2
  Turns = 2
INVARIANTS
  PlayerTypeOK
  NoRaise
  AnswerFits
PROPERTIES
  Replies
\* The game ends.
CHECK_DEADLOCK FALSE
