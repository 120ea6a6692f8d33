SPECIFICATION FairSpec
CONSTANTS
  Logins = {l1}
  Changers = {}
  Admins = {a1}
  MaxAttempts = 1
  Lockout = 1
  TrialDays = 1
  InOrder = TRUE
  MaxTime = 0
  MaxMessages = 3
  MaxCrashes = 1
  l1 = l1
  a1 = a1
INVARIANTS AckedIsCounted CanceledMeansNoAccess
PROPERTIES AdminKept CancellationArrives
