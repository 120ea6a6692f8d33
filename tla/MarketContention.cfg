SPECIFICATION Spec
CONSTANTS
  Securities = {s1, s2}
  Users = {}
  Refreshers = {w1, w2}
  Submitters = {}
  Starters = {}
  Reporters = {}
  Savers = {}
  FeedReaders = {}
  DetailReaders = {d1}
  MaxSlot = 1
  MaxEvents = 1
  MaxProfile = 1
  MaxCrashes = 0
  MaxDepth = 0
  None = None
  d1 = d1
  s1 = s1
  s2 = s2
  w1 = w1
  w2 = w2
SYMMETRY Symmetry
INVARIANTS PublishedFresh OneSnapshotPerWindow
PROPERTY BoardSpec
