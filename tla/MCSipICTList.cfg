CONSTANTS
  k1 = k1
  k2 = k2
  c1 = c1
  Key <- MCKey
  Call <- MCCall
  CallOf <- MCCallOf
  Udp <- MCUdp
  Status = {180, 200, 401, 660}
  MAX_ICT_RESEND_COUNT = 3
  ReSendTime <- MCReSendTime
  Cap = 3
  MaxDelay = 0
  Thread = {t1, t2}
  Stack = Stack
  TimerD = 2
  RingTimeout = 3
  Disciplined = TRUE
SPECIFICATION FairSpec
INVARIANTS TypeOK ReSendIndexInTable NoStrayAck NoSilentEnd
PROPERTIES EveryInviteReported NoTimeoutAfterAck
