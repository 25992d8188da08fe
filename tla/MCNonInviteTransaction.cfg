CONSTANTS
  k1 = k1
  c1 = c1
  Key <- MCKey
  Call <- MCCall
  CallOf <- MCCallOf
  Udp <- MCKey
  Status = {100, 200, 481}
  MAX_ICT_RESEND_COUNT = 4
  ReSendTime <- MCReSendTime
  Cap = 7
  MaxDelay = 1
  Thread = {t1}
  Stack = Stack
  Cancel = {k1}
  StopTime = 3
  TimerJ = 7
SPECIFICATION FairSpec
INVARIANT TypeOK
PROPERTIES KeepsContract EveryRequestReported
