SPECIFICATION Spec
CONSTANTS
  Logins = {l1, l2}
  Changers = {c1}
  Admins = {}
  MaxAttempts = 2
  Lockout = 1
  TrialDays = 1
  InOrder = FALSE
  MaxTime = 1
  MaxMessages = 2
  MaxCrashes = 0
  l1 = l1
  l2 = l2
  c1 = c1
SYMMETRY Symmetry
INVARIANTS TypeOK AttemptsBelowLimit AckedIsCounted
PROPERTY LockLiftedKnowingly
