CONSTANTS
  k1 = k1
  k2 = k2
  k3 = k3
  c1 = c1
  Key <- MCKey
  Call <- MCCall
  CallOf <- MCCallOf
  CSeqOf <- MCCSeqOf
  InviteKey <- MCInviteKey
  Udp <- MCUdp
  Status = {180, 200, 401, 487}
  MAX_ICT_RESEND_COUNT = 3
  ReSendTime <- MCReSendTime
  Cap = 3
  MaxDelay = 0
  StopTime = 2
SPECIFICATION FairSpec
INVARIANTS TypeOK AckedByOwnAck UnackedStillHeld
PROPERTIES NoLostAccept EveryAnsweredInviteEnds
