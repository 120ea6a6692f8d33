SPECIFICATION ScheduledSpec
CONSTANTS
  Securities = {s1, s2}
  Savers = {v1}
  Acknowledgers = {}
  Clickers = {k1}
  Refreshers = {r1}
  Profiles <- TwoProfiles
  Signals <- TwoInputs
  MaxOpen = 2
  FullPct = 10
  MaxSaves = 1
  MaxPublished = 1
  MaxCrashes = 1
  None = None
  s1 = s1
  s2 = s2
  v1 = v1
  k1 = k1
  r1 = r1
INVARIANTS TypeOK AllocationCap
PROPERTIES AloneIsExact NoInventedBuy RecsSettle
