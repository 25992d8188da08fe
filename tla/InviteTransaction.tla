-------------------------- MODULE InviteTransaction --------------------------
(***************************************************************************)
(* A caller's CSipICTList and a callee's CSipISTList, two stacks that run  *)
(* this code, over UDP: datagrams are lost, duplicated and reordered.      *)
(*                                                                         *)
(* The stack threads are punctual: each runs Execute every 20 ms, so no    *)
(* 500 ms tick passes while a table or a timer is due or a callback is     *)
(* under way.  A datagram is delivered before it is MaxDelay ticks old,    *)
(* any number of times, or lost.                                           *)
(***************************************************************************)
EXTENDS SipTransactionList

CONSTANTS
  Thread, Stack, TimerD, RingTimeout, Disciplined,   \* of SipICTList
  InviteKey, CSeqOf, StopTime                        \* of SipISTList

ASSUME InviteTransactionAssumption ==
  /\ Udp = Key
  /\ InviteKey = Key
  /\ SIP_TRYING \in Status
  /\ CSeqOf \in [Key -> Nat]
  /\ Stack \notin Thread
  /\ TimerD \in 0 .. Cap
  /\ RingTimeout \in 0 .. Cap
  /\ StopTime \in 0 .. Cap
  /\ Disciplined \in BOOLEAN

VARIABLES
  ict, upcalls, timedOut, latest, begun, told, stray, stopped,   \* the caller's
  ist, unacked, timeouts, offered, acks, dropped,                \* the callee's
  net,
  answered,    \* <<INVITE, final status>> the callee sent
  confirmed,   \* INVITEs whose transaction took an ACK at the callee
  reoffered,   \* INVITEs the callee was offered more than once
  received,    \* datagrams of net received at least once
  lost,        \* TRUE when some datagram was never received
  overtaken    \* TRUE when a response to an INVITE overtook another one

callerVars == <<ict, upcalls, timedOut, latest, begun, told, stray, stopped>>
calleeVars == <<ist, unacked, timeouts, offered, acks, dropped>>
vars == <<callerVars, calleeVars, net, answered, confirmed, reoffered, received, lost, overtaken>>

Caller == INSTANCE SipICTList WITH abandoned <- stopped
Callee == INSTANCE SipISTList WITH abandoned <- dropped

Init ==
  /\ Caller!Init
  /\ Callee!Init
  /\ answered = {}
  /\ confirmed = {}
  /\ reoffered = {}
  /\ received = {}
  /\ lost = FALSE
  /\ overtaken = FALSE
-----------------------------------------------------------------------------
CallerStep == UNCHANGED <<calleeVars, answered, confirmed, reoffered, lost>>
CalleeStep == UNCHANGED <<callerVars, lost, overtaken>>

\* The datagram m arrives.
Receive(m) == m \in net /\ received' = received \cup {m}

\* A call that goes on with another INVITE is one whose responses came in order.
CallerSendsInvite ==
  /\ ~ overtaken
  /\ \E k \in Key : Caller!SendInvite(k)
  /\ CallerStep
  /\ UNCHANGED <<received, overtaken>>

\* The response m comes after one that was sent later.
Overtaken(m) == ~ Caller!Acceptable(m.key, m.status)

CallerReceives ==
  \E t \in Thread, m \in net :
    /\ m.method = "RESPONSE"
    /\ Overtaken(m) => Cardinality(begun) = 1
    /\ Receive(m)
    /\ \/ Caller!RecvResponse(t, m.key, m.status)
       \/ m.key \notin DOMAIN ict /\ UNCHANGED <<callerVars, net>>
    /\ overtaken' = (overtaken \/ Overtaken(m))
    /\ CallerStep

CallerIsTold ==
  \E t \in Thread \cup {Stack} : Caller!Tell(t) /\ CallerStep /\ UNCHANGED <<received, overtaken>>

CallerSendsAck ==
  \E t \in Thread \cup {Stack} : Caller!SendAck(t) /\ CallerStep /\ UNCHANGED <<received, overtaken>>

CallerHangsUp ==
  \E c \in Call : Caller!HangUp(c) /\ CallerStep /\ UNCHANGED <<received, overtaken>>

CallerExecutes == Caller!Execute /\ CallerStep /\ UNCHANGED <<received, overtaken>>

CallerTimesOut ==
  \E k \in Key : Caller!TellTimeout(k) /\ CallerStep /\ UNCHANGED <<received, overtaken>>

CalleeReceivesInvite ==
  \E m \in net :
    /\ m.method = "INVITE"
    /\ Receive(m)
    /\ Callee!RecvInvite(m.key)
    /\ reoffered' = reoffered \cup ({m.key} \cap offered)
    /\ CalleeStep
    /\ UNCHANGED <<answered, confirmed>>

CalleeReceivesInviteAgain ==
  \E m \in net :
    /\ m.method = "INVITE"
    /\ Receive(m)
    /\ Callee!RecvInviteAgain(m.key)
    /\ CalleeStep
    /\ UNCHANGED <<answered, confirmed, reoffered>>

CalleeReceivesAck ==
  \E m \in net :
    /\ m.method = "ACK"
    /\ Receive(m)
    /\ \/ Callee!RecvAck(m.key)
       \/ /\ \A j \in DOMAIN ist : Callee!IsEqualCallIdSeq(j, m.key) => ist[j].ack
          /\ UNCHANGED <<calleeVars, net>>
    /\ confirmed' = confirmed \cup
         {k \in DOMAIN ist : ~ ist[k].ack /\ (k \in DOMAIN ist' => ist'[k].ack)}
    /\ CalleeStep
    /\ UNCHANGED <<answered, reoffered>>

\* The callee's user agent answers an INVITE once, and one it challenged with a 401
\* in the same way when it is offered again: the INVITE carries no credentials.
CalleeAnswers ==
  \E k \in offered, s \in Status \ {SIP_TRYING} :
    /\ k \in DOMAIN ist
    /\ ~ Final(ist[k].status)
    /\ \A r \in Status : <<k, r>> \in answered => s = r
    /\ Callee!SendResponse(k, s)
    /\ answered' = IF Final(s) THEN answered \cup {<<k, s>>} ELSE answered
    /\ CalleeStep
    /\ UNCHANGED <<confirmed, reoffered, received>>

CalleeExecutes ==
  Callee!Execute /\ CalleeStep /\ UNCHANGED <<answered, confirmed, reoffered, received>>

CalleeTimesOut ==
  \E k \in Key :
    Callee!SendTimeout(k) /\ CalleeStep /\ UNCHANGED <<answered, confirmed, reoffered, received>>

\* Nothing is due in either stack.
Punctual ==
  /\ upcalls = {}
  /\ timedOut = {}
  /\ unacked = {}
  /\ \A k \in DOMAIN ict :
       ~ (Caller!Completed(ict[k]) \/ Caller!Unanswered(ict[k]) \/ Caller!RingsTooLong(ict[k]))
  /\ \A k \in DOMAIN ist : ~ (Callee!Completed(ist[k]) \/ Callee!AwaitsAck(ist[k]))

Tick ==
  /\ Punctual
  /\ Caller!Tick
  /\ Callee!Tick
  /\ received' = OlderNet(received)
  /\ lost' = (lost \/ \E m \in net \ received : m.age + 1 >= MaxDelay)
  /\ UNCHANGED <<answered, confirmed, reoffered, overtaken>>

Next ==
  \/ CallerSendsInvite \/ CallerReceives \/ CallerIsTold \/ CallerSendsAck
  \/ CallerHangsUp \/ CallerExecutes \/ CallerTimesOut
  \/ CalleeReceivesInvite \/ CalleeReceivesInviteAgain \/ CalleeReceivesAck
  \/ CalleeAnswers \/ CalleeExecutes \/ CalleeTimesOut
  \/ Tick

Spec == Init /\ [][Next]_vars
-----------------------------------------------------------------------------
\* When no datagram is lost, whatever is delayed, duplicated or reordered, nobody
\* times out for no reason: the caller never exhausts its retransmissions, and the
\* callee's 200 is reported as not acknowledged only if the caller gave up (its 408
\* says that the callee let it ring too long) or hung up.
NoFalseTimeout ==
  ~ lost =>
    /\ \A k \in DOMAIN ict : ict[k].resend + 1 < MAX_ICT_RESEND_COUNT
    /\ \A k \in timeouts :
         <<k, SIP_REQUEST_TIME_OUT>> \in told \/ CallOf[k] \notin DOMAIN latest

\* A copy of the INVITE came when its transaction was gone and calls the callee again.
\* After a 401, whose ACK deletes the transaction at once, that is what the code does.
CalledAgain(k) == k \in reoffered /\ <<k, SIP_UNAUTHORIZED>> \notin answered

\* The caller and the callee as the contract sees them.
contractCaller ==
  [k \in Key |->
    IF k \notin begun THEN "idle"
    ELSE IF <<k, SIP_REQUEST_TIME_OUT>> \in told THEN "failed"
    ELSE IF <<k, SIP_OK>> \in told THEN "accepted"
    ELSE IF Caller!ToldFinal(k) THEN "rejected"
    ELSE "calling"]

contractCallee ==
  [k \in Key |->
    IF k \notin offered THEN "idle"
    ELSE IF CalledAgain(k) \/ (\A s \in Status : <<k, s>> \notin answered) THEN "offered"
    ELSE IF <<k, SIP_OK>> \in answered THEN "accepted"
    ELSE "rejected"]

Contract == INSTANCE InviteContract WITH caller <- contractCaller, callee <- contractCallee

\* The two lists and the network between them keep the contract: no INVITE calls the
\* callee twice, and each side learns what the other one did.  A second call is no step
\* of the contract.
KeepsContract == Contract!Spec
=============================================================================
