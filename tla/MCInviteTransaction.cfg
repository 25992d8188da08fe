CONSTANTS
  k1 = k1
  k2 = k2
  c1 = c1
  Key <- MCKey
  InviteKey <- MCKey
  Call <- MCCall
  CallOf <- MCCallOf
  CSeqOf <- MCCSeqOf
  Udp <- MCKey
  Status = {100, 200, 401}
  MAX_ICT_RESEND_COUNT = 2
  ReSendTime <- MCReSendTime
  Cap = 2
  MaxDelay = 1
  Thread = {t1}
  Stack = Stack
  TimerD = 2
  RingTimeout = 2
  StopTime = 2
  Disciplined = TRUE
SPECIFICATION Spec
INVARIANT NoFalseTimeout
PROPERTY KeepsContract
