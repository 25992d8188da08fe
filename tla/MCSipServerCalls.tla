-------------------------- MODULE MCSipServerCalls --------------------------
(***************************************************************************)
(* Two phones call.  In the first instance two receiving threads and the   *)
(* stack thread compete over one block of RTP ports and one Call-ID of the *)
(* server; in the second one receiving thread and the stack thread handle  *)
(* two calls at a time with every service, three Call-IDs of the server    *)
(* and two blocks of ports.                                                *)
(***************************************************************************)
EXTENDS SipServerCalls

CONSTANTS i1, i2, o1, o2, o3, r1, r2
MCCaller == {i1, i2}
=============================================================================
