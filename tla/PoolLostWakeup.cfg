\* Spinning threads: a thread ordered to work may be asleep.
SPECIFICATION FairSpec
CONSTANTS
  MaxThreads = 2
  MaxActive = 1
  MaxPerSplit = 4
  Sizes = {2}
  Modes = {FALSE}
  MaxSplits = 1
PROPERTIES
  OrderedWorkStarts
