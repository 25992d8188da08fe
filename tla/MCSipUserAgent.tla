--------------------------- MODULE MCSipUserAgent ---------------------------
\* One call that the application or its peer starts, one thread that receives messages, two
\* of the application, and the INVITEs MaxInvites allows: the first one, then retries with
\* credentials and re-INVITEs of either side.
EXTENDS SipUserAgent, TLC

CONSTANT c1

MCCall == {c1}
=============================================================================
