SPECIFICATION Spec
CONSTANTS
  Securities = {s1, s2}
  Users = {u1}
  Refreshers = {w1}
  Submitters = {}
  Starters = {}
  Reporters = {}
  Savers = {v1}
  FeedReaders = {f1}
  DetailReaders = {}
  MaxSlot = 2
  MaxEvents = 1
  MaxProfile = 1
  MaxCrashes = 0
  MaxDepth = 0
  None = None
  f1 = f1
  s1 = s1
  s2 = s2
  u1 = u1
  v1 = v1
  w1 = w1
SYMMETRY Symmetry
INVARIANT TypeOK
PROPERTY CacheNeverGoesBack
