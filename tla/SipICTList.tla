----------------------------- MODULE SipICTList -----------------------------
(***************************************************************************)
(* The INVITE client transactions of a SIP stack: CSipICTList, called by   *)
(* CSipStack::SendSipMessage (INVITE and ACK from the user agent), by      *)
(* CSipStack::RecvSipMessage (responses, in the receiving threads) and by  *)
(* the stack thread (Execute).                                             *)
(*                                                                         *)
(* The list's mutex makes Insert and the loop of Execute atomic.  What the *)
(* code does after it releases the mutex is a step of its own: the         *)
(* callback into the user agent (Tell), the ACK that the callback sends    *)
(* (SendAck), and the delivery of the 408 responses that Execute made up   *)
(* (TellTimeout).  The user agent is modelled as CSipUserAgent behaves:    *)
(* it answers a final response with an ACK that carries the branch and the *)
(* CSeq number of the LAST INVITE of the dialog (CSipDialog::CreateAck),   *)
(* or with nothing when the dialog is gone.                                *)
(*                                                                         *)
(* Disciplined assumes what RFC 3261 asks of the parties and the code does *)
(* not enforce: the user agent has one open INVITE per call, and an INVITE *)
(* gets its responses in order, with a single final one.                   *)
(***************************************************************************)
EXTENDS SipTransactionList

CONSTANTS
  Thread,       \* threads that receive responses
  Stack,        \* the stack thread
  TimerD,       \* m_iTimerD, in ticks
  RingTimeout,  \* SIP_RING_TIMEOUT, in ticks
  Disciplined   \* TRUE: the user agent and its peer are as described above

ASSUME ICTAssumption ==
  /\ Stack \notin Thread
  /\ TimerD \in 0 .. Cap
  /\ RingTimeout \in 0 .. Cap
  /\ Disciplined \in BOOLEAN

VARIABLES
  ict,       \* m_clsMap
  net,       \* datagrams on their way
  upcalls,   \* callbacks into the user agent under way
  timedOut,  \* Execute's clsResponseList: the INVITEs whose 408 is not delivered
  latest,    \* per call with a dialog, the INVITE whose branch and CSeq it holds
  begun,     \* INVITEs ever sent
  told,      \* <<INVITE, status>> the user agent was told
  stray,     \* transactions stopped by the ACK of another INVITE of the call
  abandoned  \* transactions dropped by CSipStack::Stop

vars == <<ict, net, upcalls, timedOut, latest, begun, told, stray, abandoned>>

\* A callback in a thread: telling the user agent about a response to key, then
\* sending an ACK built with the branch of via.
Upcall ==
  [thread : Thread \cup {Stack}, key : Key, via : Key,
   status : Status \cup {SIP_REQUEST_TIME_OUT}, phase : {"tell", "ack"}]

TypeOK ==
  /\ DOMAIN ict \subseteq begun
  /\ \A k \in DOMAIN ict : ict[k] \in CSipInviteTransaction
  /\ net \subseteq Datagram
  /\ upcalls \subseteq Upcall
  /\ \A u \in upcalls : u.key \in begun
  /\ timedOut \subseteq begun
  /\ DOMAIN latest \subseteq Call
  /\ \A c \in DOMAIN latest : latest[c] \in Key
  /\ begun \subseteq Key
  /\ told \subseteq begun \X (Status \cup {SIP_REQUEST_TIME_OUT})
  /\ stray \subseteq Key
  /\ abandoned \subseteq Key

Idle(t) == \A u \in upcalls : u.thread # t
Transmit(datagrams) == net' = Sent(net, datagrams)

ToldFinal(k) == \E s \in Status \cup {SIP_REQUEST_TIME_OUT} : Final(s) /\ <<k, s>> \in told

\* The user agent is about to be told how the INVITE ended.
BeingTold(k) ==
  \/ k \in timedOut
  \/ \E u \in upcalls : u.key = k /\ u.phase = "tell" /\ Final(u.status)

\* The INVITE is not over for its user agent.
Open(k) ==
  /\ k \in begun \ abandoned
  /\ \/ ~ ToldFinal(k)
     \/ k \in timedOut
     \/ \E u \in upcalls : u.key = k

Init ==
  /\ ict = EmptyMap
  /\ net = {}
  /\ upcalls = {}
  /\ timedOut = {}
  /\ latest = [c \in {} |-> CHOOSE k \in Key : TRUE]
  /\ begun = {}
  /\ told = {}
  /\ stray = {}
  /\ abandoned = {}
-----------------------------------------------------------------------------
\* SendSipMessage of an INVITE with a fresh branch: a new transaction.  The first
\* INVITE of a Call-ID creates the dialog, the others need it.
SendInvite(k) ==
  /\ k \notin begun
  /\ CallOf[k] \notin DOMAIN latest => \A j \in begun : CallOf[j] # CallOf[k]
  /\ Disciplined => \A j \in begun : CallOf[j] = CallOf[k] => ~ Open(j)
  /\ ict' = Insert(ict, k, NewTransaction)
  /\ begun' = begun \cup {k}
  /\ latest' = [c \in DOMAIN latest \cup {CallOf[k]} |->
                  IF c = CallOf[k] THEN k ELSE latest[c]]
  /\ Transmit({Request("INVITE", k)})
  /\ UNCHANGED <<upcalls, timedOut, told, stray, abandoned>>

\* Insert of a response to a transaction of the list: the response is stored when
\* the transaction has none or one with another status.
NewStatus(k, s) == ict[k].response = NoResponse \/ ict[k].status # s

Responded(tr, s) ==
  LET first == tr.response = NoResponse
      isNew == first \/ tr.status # s
  IN  [tr EXCEPT !.response = IF isNew THEN s ELSE @,
                 !.status = IF isNew THEN s ELSE @,
                 !.stop = IF first /\ s = SIP_CONNECT_ERROR THEN 0 ELSE @,
                 !.ring = IF @ = Off THEN 0 ELSE @]

\* Mutant: a response of no transaction makes one (operator[] instead of find).
RecvAnyResponse(t, k, s) ==
  /\ Idle(t)
  /\ ict' = Insert(ict, k, [NewTransaction EXCEPT !.response = s, !.status = s])
  /\ UNCHANGED <<net, upcalls, timedOut, latest, begun, told, stray, abandoned>>

\* RecvSipMessage of a response; it is dropped when its transaction is gone.  The
\* connect error is made by the thread that failed to connect, before the INVITE
\* reached anybody: no response comes before it.
RecvResponse(t, k, s) ==
  /\ Idle(t)
  /\ k \in DOMAIN ict
  /\ s = SIP_CONNECT_ERROR => k \notin Udp /\ ict[k].response = NoResponse
  /\ ict' = [ict EXCEPT ![k] = Responded(@, s)]
  /\ upcalls' = IF NewStatus(k, s)
                THEN upcalls \cup
                       {[thread |-> t, key |-> k, via |-> k, status |-> s, phase |-> "tell"]}
                ELSE upcalls
  /\ Transmit(IF ict[k].ack THEN {Request("ACK", k)} ELSE {})
  /\ UNCHANGED <<timedOut, latest, begun, told, stray, abandoned>>

\* What a disciplined peer sends: after a final response, only that one again.
Acceptable(k, s) ==
  Disciplined =>
    /\ \A r \in Status : Final(r) /\ <<k, r>> \in told => r = s
    /\ \A u \in upcalls : u.key = k /\ Final(u.status) => u.status = s

\* The user agent deletes the dialog: the call is over for it.
HangUp(c) ==
  /\ c \in DOMAIN latest
  /\ latest' = Restrict(latest, DOMAIN latest \ {c})
  /\ UNCHANGED <<ict, net, upcalls, timedOut, begun, told, stray, abandoned>>

\* The callback RecvResponse.  A final response is followed by an ACK, except a
\* connect error, or when the user agent has no dialog of that Call-ID any more.
Tell(t) ==
  \E u \in upcalls :
    /\ u.thread = t
    /\ u.phase = "tell"
    /\ told' = told \cup {<<u.key, u.status>>}
    /\ upcalls' =
         IF Final(u.status) /\ u.status # SIP_CONNECT_ERROR /\ CallOf[u.key] \in DOMAIN latest
         THEN (upcalls \ {u}) \cup {[u EXCEPT !.phase = "ack", !.via = latest[CallOf[u.key]]]}
         ELSE upcalls \ {u}
    /\ UNCHANGED <<ict, net, timedOut, latest, begun, stray, abandoned>>

\* Mutant: the stop time is not taken.
AckedWithoutStop(tr) == [tr EXCEPT !.ack = TRUE]

Acked(tr) == [tr EXCEPT !.ack = TRUE, !.stop = 0]

\* Insert of an ACK whose transaction is in the list.
AckFound(u) ==
  /\ u.via \in DOMAIN ict
  /\ ict' = [ict EXCEPT ![u.via] = Acked(@)]
  /\ stray' = IF u.via = u.key THEN stray ELSE stray \cup {u.via}
  /\ Transmit({Request("ACK", u.via)})

\* Insert of an ACK whose transaction is gone: any transaction of the same Call-ID
\* that has no ACK yet takes it (the first in the order of the random branches).
AckScan(u) ==
  /\ u.via \notin DOMAIN ict
  /\ \E j \in DOMAIN ict :
       /\ CallOf[j] = CallOf[u.via]
       /\ ~ ict[j].ack
       /\ ict' = IF ict[j].response = SIP_UNAUTHORIZED
                 THEN Erase(ict, {j})
                 ELSE [ict EXCEPT ![j] = Acked(@)]
       /\ stray' = stray \cup {j}
  /\ Transmit({Request("ACK", u.via)})

\* Insert of an ACK that no transaction takes: SendSipMessage deletes it unsent.
AckRefused(u) ==
  /\ u.via \notin DOMAIN ict
  /\ \A j \in DOMAIN ict : CallOf[j] = CallOf[u.via] => ict[j].ack
  /\ UNCHANGED <<ict, net, stray>>

SendAck(t) ==
  \E u \in upcalls :
    /\ u.thread = t
    /\ u.phase = "ack"
    /\ AckFound(u) \/ AckScan(u) \/ AckRefused(u)
    /\ upcalls' = upcalls \ {u}
    /\ UNCHANGED <<timedOut, latest, begun, told, abandoned>>
-----------------------------------------------------------------------------
\* The decisions of Execute on one transaction.
Stopped(tr)      == tr.stop # Off
Completed(tr)    == Stopped(tr) /\ tr.stop >= TimerD
Unanswered(tr)   == ~ Stopped(tr) /\ tr.status = NoResponse /\ ReSendDue(tr)
\* Mutant: the limit is off by one.
GiveUpLate(tr)   == Unanswered(tr) /\ tr.resend = MAX_ICT_RESEND_COUNT
GiveUp(tr)       == Unanswered(tr) /\ tr.resend + 1 = MAX_ICT_RESEND_COUNT
\* Mutant: the stop time is not looked at first.
RingsTooLongEvenStopped(tr) == tr.ring # Off /\ tr.ring >= RingTimeout
RingsTooLong(tr) == /\ ~ Stopped(tr)
                    /\ tr.status # NoResponse
                    /\ tr.ring # Off
                    /\ tr.ring >= RingTimeout
\* Mutant: an INVITE that rang too long is deleted without a 408.
TimesOutUnanswered(tr) == GiveUp(tr)
\* Mutant: an INVITE nobody answered is deleted without a 408.
TimesOutRinging(tr) == RingsTooLong(tr)
TimesOut(tr)     == GiveUp(tr) \/ RingsTooLong(tr)

\* One pass of Execute over the list: retransmit, give up, delete.
Execute ==
  LET chosen(P(_)) == {k \in DOMAIN ict : P(ict[k])}
      gone    == chosen(Completed) \cup chosen(GiveUp) \cup chosen(RingsTooLong)
      resends == chosen(Unanswered) \ gone
  IN  /\ Idle(Stack)
      /\ timedOut = {}
      /\ ict' = [k \in DOMAIN ict \ gone |->
                   IF k \in resends THEN [ict[k] EXCEPT !.resend = @ + 1] ELSE ict[k]]
      /\ timedOut' = chosen(TimesOut)
      /\ Transmit({Request("INVITE", k) : k \in resends \cap Udp})
      /\ UNCHANGED <<upcalls, latest, begun, told, stray, abandoned>>

\* Execute, after it released the mutex: a 408 response goes to the user agent.
TellTimeout(k) ==
  /\ Idle(Stack)
  /\ k \in timedOut
  /\ timedOut' = timedOut \ {k}
  /\ upcalls' = upcalls \cup
       {[thread |-> Stack, key |-> k, via |-> k,
         status |-> SIP_REQUEST_TIME_OUT, phase |-> "tell"]}
  /\ UNCHANGED <<ict, net, latest, begun, told, stray, abandoned>>

\* CSipStack::Stop: every thread has ended, the list is emptied.
DeleteAll ==
  /\ upcalls = {}
  /\ timedOut = {}
  /\ ict # EmptyMap
  /\ ict' = EmptyMap
  /\ abandoned' = abandoned \cup DOMAIN ict
  /\ UNCHANGED <<net, upcalls, timedOut, latest, begun, told, stray>>

\* Time passes.
Tick ==
  /\ ict' = OlderMap(ict)
  /\ net' = OlderNet(net)
  /\ UNCHANGED <<upcalls, timedOut, latest, begun, told, stray, abandoned>>

Next ==
  \/ \E k \in Key : SendInvite(k)
  \/ \E t \in Thread, k \in Key, s \in Status : Acceptable(k, s) /\ RecvResponse(t, k, s)
  \/ \E t \in Thread \cup {Stack} : Tell(t) \/ SendAck(t)
  \/ \E c \in Call : HangUp(c)
  \/ Execute
  \/ \E k \in Key : TellTimeout(k)
  \/ DeleteAll
  \/ Tick

Spec == Init /\ [][Next]_vars

\* The stack thread and the receiving threads keep running and the clock advances.
Fairness ==
  /\ WF_vars(Tick)
  /\ WF_vars(Execute)
  /\ \A k \in Key : WF_vars(TellTimeout(k))
  /\ \A t \in Thread \cup {Stack} : WF_vars(Tell(t)) /\ WF_vars(SendAck(t))

FairSpec == Spec /\ Fairness
-----------------------------------------------------------------------------
\* CSipICTList::Execute reads m_arrICTReSendTime at m_iReSendCount of every
\* transaction that is neither stopped nor answered: the index is inside the table.
ReSendIndexInTable ==
  \A k \in DOMAIN ict : ict[k].resend < MAX_ICT_RESEND_COUNT

\* An INVITE leaves the list only when the user agent has been told, or is being
\* told, how it ended, or the stack was stopped, or the ACK of another INVITE of
\* the same call stopped its transaction (see NoStrayAck).
NoSilentEnd ==
  \A k \in begun \ DOMAIN ict :
    ToldFinal(k) \/ BeingTold(k) \/ k \in stray \/ k \in abandoned

\* With one open INVITE per call and one final response per INVITE, no ACK is ever
\* bound to the transaction of another INVITE that is still waiting for its answer.
NoStrayAck ==
  Disciplined => \A k \in stray : ToldFinal(k)

\* Once a transaction holds an ACK the user agent is never told that the INVITE
\* timed out: neither the retransmission limit nor SIP_RING_TIMEOUT applies.
NoTimeoutAfterAck ==
  [][\A k \in DOMAIN ict : ict[k].ack => k \notin timedOut']_vars

\* Every INVITE of a disciplined user agent is answered by a final response, if
\* need be by the 408 of Execute, unless the stack is stopped.
EveryInviteReported ==
  \A k \in Key : k \in begun ~> (ToldFinal(k) \/ k \in abandoned)
=============================================================================
