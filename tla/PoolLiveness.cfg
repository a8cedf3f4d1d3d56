\* Sleeping threads: nobody sleeps for ever.
SPECIFICATION FairSpec
CONSTANTS
  MaxThreads = 2
  MaxActive = 2
  MaxPerSplit = 4
  Sizes = {1, 2}
  Modes = {TRUE}
  MaxSplits = 3
PROPERTIES
  OrderedWorkStarts
  SearchReturns
  ExitCompletes
