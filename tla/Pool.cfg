\* Three threads, split points nested two deep, three splits in a search, sleeping or not.
SPECIFICATION Spec
CONSTANTS
  MaxThreads = 3
  MaxActive = 2
  MaxPerSplit = 3
  Sizes = {3}
  Modes = {TRUE, FALSE}
  MaxSplits = 3
VIEW LiveView
INVARIANTS
  TypeOK
  JoinComplete
  CutoffChain
  HelpfulMaster
  CodeAssertions
PROPERTIES
  ImplementsForkJoin
