----------------------- MODULE MCNonInviteTransaction -----------------------
\* One request (the lists keep requests apart by their keys, and no operation is about
\* two of them), which is also taken to be the CANCEL of an INVITE.  As in the code the
\* last entry of the table is half a second after the one before and equal to Timer J.
EXTENDS NonInviteTransaction, TLC

CONSTANTS k1, c1

MCKey == {k1}
MCCall == {c1}
MCCallOf == [k \in Key |-> c1]
MCReSendTime == 0 :> 1 @@ 1 :> 3 @@ 2 :> 6 @@ 3 :> 7
=============================================================================
