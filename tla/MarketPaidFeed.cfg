SPECIFICATION Spec
CONSTANTS
  Securities = {s1, s2}
  Users = {u1}
  Refreshers = {w1}
  Submitters = {e1}
  Starters = {}
  Reporters = {}
  Savers = {}
  FeedReaders = {}
  DetailReaders = {}
  MaxSlot = 2
  MaxEvents = 2
  MaxProfile = 1
  MaxCrashes = 0
  MaxDepth = 0
  None = None
  e1 = e1
  s1 = s1
  s2 = s2
  u1 = u1
  w1 = w1
INVARIANT PaidFeedPersonalised
