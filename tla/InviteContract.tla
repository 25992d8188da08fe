--------------------------- MODULE InviteContract ---------------------------
(***************************************************************************)
(* What the INVITE transactions of two stacks promise to their user        *)
(* agents, whatever the network does with the datagrams.  Each INVITE has  *)
(* a caller and a callee; there is no time, no message and no table here.  *)
(*                                                                         *)
(* The callee is offered an INVITE and gives one answer.  The caller       *)
(* learns that answer and no other; it may give up at any time, even right *)
(* after it learned that the call was accepted, when the ring timeout      *)
(* expires just then.  The callee sees its answer confirmed only after the *)
(* caller learned how the INVITE ended.                                    *)
(***************************************************************************)
CONSTANT Key

VARIABLES
  caller,     \* "idle", "calling", "accepted", "rejected" or "failed"
  callee,     \* "idle", "offered", "accepted" or "rejected"
  confirmed   \* the INVITEs whose answer the callee saw confirmed

vars == <<caller, callee, confirmed>>

Init ==
  /\ caller = [k \in Key |-> "idle"]
  /\ callee = [k \in Key |-> "idle"]
  /\ confirmed = {}

Invite(k) ==
  /\ caller[k] = "idle"
  /\ caller' = [caller EXCEPT ![k] = "calling"]
  /\ UNCHANGED <<callee, confirmed>>

Offer(k) ==
  /\ caller[k] # "idle"
  /\ callee[k] = "idle"
  /\ callee' = [callee EXCEPT ![k] = "offered"]
  /\ UNCHANGED <<caller, confirmed>>

Answer(k, answer) ==
  /\ callee[k] = "offered"
  /\ answer \in {"accepted", "rejected"}
  /\ callee' = [callee EXCEPT ![k] = answer]
  /\ UNCHANGED <<caller, confirmed>>

Learn(k) ==
  /\ caller[k] = "calling"
  /\ callee[k] \in {"accepted", "rejected"}
  /\ caller' = [caller EXCEPT ![k] = callee[k]]
  /\ UNCHANGED <<callee, confirmed>>

Fail(k) ==
  /\ caller[k] \in {"calling", "accepted", "rejected"}
  /\ caller' = [caller EXCEPT ![k] = "failed"]
  /\ UNCHANGED <<callee, confirmed>>

Confirm(k) ==
  /\ caller[k] \in {"accepted", "rejected", "failed"}
  /\ confirmed' = confirmed \cup {k}
  /\ UNCHANGED <<caller, callee>>

Next ==
  \E k \in Key :
    \/ Invite(k) \/ Offer(k) \/ Learn(k) \/ Fail(k) \/ Confirm(k)
    \/ Answer(k, "accepted") \/ Answer(k, "rejected")

Spec == Init /\ [][Next]_vars
=============================================================================
