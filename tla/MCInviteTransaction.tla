------------------------- MODULE MCInviteTransaction -------------------------
\* An INVITE k1 and a second one of the same call, which is the INVITE with credentials
\* after a 401 or a re-INVITE.
EXTENDS InviteTransaction, TLC

CONSTANTS k1, k2, c1

MCKey == {k1, k2}
MCCall == {c1}
MCCallOf == [k \in Key |-> c1]
MCCSeqOf == [k \in Key |-> IF k = k1 THEN 1 ELSE 2]
MCReSendTime == 0 :> 1 @@ 1 :> 2
=============================================================================
