--------------------------- MODULE MCSipRegister ---------------------------
\* One trunk, and at most two REGISTERs of it that are open at a time: one that refreshes
\* or ends the registration, and another one sent a second later.  Trunks meet only at the
\* two mutexes, which one trunk is enough to contend for.
EXTENDS SipRegister

CONSTANTS s1, r1, r2
=============================================================================
