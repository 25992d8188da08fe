-------------------------- MODULE NonInviteContract --------------------------
(***************************************************************************)
(* What the non-INVITE transactions of two stacks promise to their user    *)
(* agents, whatever the network loses or duplicates: a request is carried  *)
(* out at most once, and its sender learns the answer that was given or    *)
(* that there was none in time, and never the one after the other.  There  *)
(* is no time, no message and no table here.                               *)
(***************************************************************************)
CONSTANT Key

VARIABLES
  client,   \* "idle", "waiting", "answered" or "failed"
  server    \* "idle", "working" or "done"

vars == <<client, server>>

Init ==
  /\ client = [k \in Key |-> "idle"]
  /\ server = [k \in Key |-> "idle"]

Ask(k) ==
  /\ client[k] = "idle"
  /\ client' = [client EXCEPT ![k] = "waiting"]
  /\ UNCHANGED server

\* The server may start on a request that its sender has given up.
Work(k) ==
  /\ client[k] # "idle"
  /\ server[k] = "idle"
  /\ server' = [server EXCEPT ![k] = "working"]
  /\ UNCHANGED client

Answer(k) ==
  /\ server[k] = "working"
  /\ server' = [server EXCEPT ![k] = "done"]
  /\ UNCHANGED client

Learn(k) ==
  /\ client[k] = "waiting"
  /\ server[k] = "done"
  /\ client' = [client EXCEPT ![k] = "answered"]
  /\ UNCHANGED server

Fail(k) ==
  /\ client[k] = "waiting"
  /\ client' = [client EXCEPT ![k] = "failed"]
  /\ UNCHANGED server

Next == \E k \in Key : Ask(k) \/ Work(k) \/ Answer(k) \/ Learn(k) \/ Fail(k)

Spec == Init /\ [][Next]_vars
=============================================================================
