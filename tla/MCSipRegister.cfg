CONSTANTS
  s1 = s1
  r1 = r1
  r2 = r2
  SipServer = {s1}
  Request = {r1, r2}
SPECIFICATION FairSpec
INVARIANTS TypeOK NoForgottenRegistration LoginIsTrue
PROPERTY DeletedTrunkLeaves
CHECK_DEADLOCK FALSE
