CONSTANTS
  c1 = c1
  c2 = c2
  Consumers = {c1, c2}
  Interval = 2
  SaveAfter = TRUE
  MaxEvents = 3
  MaxFaults = 1
SPECIFICATION FairSpec
PROPERTY ProgressSaved
