--------------------------- MODULE MCSipTcpClient ---------------------------
\* Two messages to one peer, sent by two threads, one of them sent again; two connecting
\* threads, and one socket more than the polling thread takes.
EXTENDS SipTcpClient, TLC

CONSTANTS m1, m2, a1

MCMessage == {m1, m2}
MCResent == {m1}
MCAddressOf == [m \in Message |-> a1]

\* The threads, and the socket numbers, are alike.
MCSymmetry == Permutations(Sender) \cup Permutations(Client) \cup Permutations(Socket)
=============================================================================
