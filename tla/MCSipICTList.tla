---------------------------- MODULE MCSipICTList ----------------------------
\* Two INVITEs of one call, one over UDP and one over TCP; the table of 11 resend
\* times is cut to three, Timer D to 2 ticks and the ring timeout to 3.
EXTENDS SipICTList, TLC

CONSTANTS k1, k2, c1

MCKey == {k1, k2}
MCCall == {c1}
MCCallOf == [k \in MCKey |-> c1]
MCUdp == {k1}
MCReSendTime == 0 :> 1 @@ 1 :> 2 @@ 2 :> 3
=============================================================================
