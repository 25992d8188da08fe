---------------------------- MODULE MCSipISTList ----------------------------
\* Two INVITEs of one call and the ACK k3, which has the Call-ID and the CSeq number of
\* k1 but a branch of its own.
EXTENDS SipISTList, TLC

CONSTANTS k1, k2, k3, c1

MCKey == {k1, k2, k3}
MCCall == {c1}
MCCallOf == [k \in MCKey |-> c1]
MCCSeqOf == [k \in MCKey |-> IF k = k2 THEN 2 ELSE 1]
MCInviteKey == {k1, k2}
MCUdp == {k1}
MCReSendTime == 0 :> 1 @@ 1 :> 2 @@ 2 :> 3
=============================================================================
