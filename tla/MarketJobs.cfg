SPECIFICATION FairSpec
CONSTANTS
  Securities = {s1}
  Users = {u1}
  Refreshers = {}
  Submitters = {e1}
  Starters = {b1}
  Reporters = {}
  Savers = {v1}
  FeedReaders = {}
  DetailReaders = {}
  MaxSlot = 1
  MaxEvents = 2
  MaxProfile = 1
  MaxCrashes = 0
  MaxDepth = 0
  None = None
  b1 = b1
  e1 = e1
  s1 = s1
  u1 = u1
  v1 = v1
PROPERTIES JobsEnd
