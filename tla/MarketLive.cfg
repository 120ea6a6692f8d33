SPECIFICATION ScheduledSpec
CONSTANTS
  Securities = {s1}
  Users = {}
  Refreshers = {w1}
  Submitters = {}
  Starters = {}
  Reporters = {b1}
  Savers = {}
  FeedReaders = {}
  DetailReaders = {d1}
  MaxSlot = 1
  MaxEvents = 1
  MaxProfile = 1
  MaxCrashes = 1
  MaxDepth = 2
  None = None
  b1 = b1
  s1 = s1
  w1 = w1
  d1 = d1
PROPERTIES JobsEnd OutcomesRepaired
