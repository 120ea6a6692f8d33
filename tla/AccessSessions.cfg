SPECIFICATION Spec
CONSTANTS
  Users = {a1, u1}
  Admin = a1
  Forgetful = {u1}
  Requests = {r1, r2}
  MaxCsrf = 2
  MaxResets = 2
  MaxCrashes = 1
  None = None
  a1 = a1
  u1 = u1
  r1 = r1
  r2 = r2
SYMMETRY Symmetry
INVARIANTS TypeOK ActsForItsPage SpentStaysSpent LiveTokenMailed LogoutHolds
