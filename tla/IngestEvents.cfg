SPECIFICATION FairSpec
CONSTANTS
  Securities = {s1, s2}
  Seeded = {s1}
  Fed = s1
  Feeds = {"news"}
  Window <- NewestOnly
  NewsDays = 1
  Ingesters = {i1, i2}
  Submitters = {m1}
  Starters = {b1}
  MaxTime = 2
  MaxPosts = 1
  MaxManual = 1
  MaxCrashes = 1
  s1 = s1
  s2 = s2
  i1 = i1
  i2 = i2
  m1 = m1
  b1 = b1
INVARIANTS TypeOK RecordedOnce SourceShared ServingReady
PROPERTY CaughtUp
