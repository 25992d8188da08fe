----------------------------- MODULE SipISTList -----------------------------
(***************************************************************************)
(* The INVITE server transactions of a SIP stack: CSipISTList, called by   *)
(* CSipStack::RecvSipMessage (INVITE and ACK from the network), by         *)
(* CSipStack::SendSipMessage (responses of the user agent, from any        *)
(* thread) and by the stack thread (Execute).                              *)
(*                                                                         *)
(* The list's mutex makes Insert and the loop of Execute atomic; the       *)
(* SendTimeout callbacks follow after Execute released it.  The callback   *)
(* RecvRequest of a new INVITE is part of RecvInvite: the user agent       *)
(* answers in later steps only.                                            *)
(***************************************************************************)
EXTENDS SipTransactionList

CONSTANTS
  InviteKey,    \* the keys under which INVITEs arrive, the others are of ACKs only
  CSeqOf,       \* the CSeq number of each key
  StopTime      \* the 5000 ms a stopped transaction stays, in ticks

ASSUME ISTAssumption ==
  /\ InviteKey \subseteq Key
  /\ CSeqOf \in [Key -> Nat]
  /\ StopTime \in 0 .. Cap

SIP_REQUEST_TERMINATED == 487

VARIABLES
  ist,         \* m_clsMap
  net,         \* datagrams on their way
  unacked,     \* Execute's clsResponseList: the 200s whose SendTimeout is pending
  timeouts,    \* INVITEs whose 200 the user agent was told to have timed out, since
               \* their transaction was created
  offered,     \* INVITEs the user agent was told of
  acks,        \* keys of the ACKs received
  abandoned    \* transactions dropped by CSipStack::Stop

vars == <<ist, net, unacked, timeouts, offered, acks, abandoned>>

\* Execute reads m_arrICTReSendTime at m_iReSendCount of every transaction that waits for
\* an ACK: the index is inside the table.
TypeOK ==
  /\ \A k \in DOMAIN ist : ist[k].stop = Off => ist[k].resend < MAX_ICT_RESEND_COUNT
  /\ DOMAIN ist \subseteq offered
  /\ \A k \in DOMAIN ist : ist[k] \in CSipInviteTransaction
  /\ net \subseteq Datagram
  /\ unacked \subseteq offered
  /\ timeouts \subseteq offered
  /\ offered \subseteq InviteKey
  /\ acks \subseteq Key
  /\ abandoned \subseteq offered

Transmit(datagrams) == net' = Sent(net, datagrams)

\* IsEqualCallIdSeq of the requests of two keys.
IsEqualCallIdSeq(j, k) == CallOf[j] = CallOf[k] /\ CSeqOf[j] = CSeqOf[k]

Init ==
  /\ ist = EmptyMap
  /\ net = {}
  /\ unacked = {}
  /\ timeouts = {}
  /\ offered = {}
  /\ acks = {}
  /\ abandoned = {}
-----------------------------------------------------------------------------
\* A new transaction holds the 100 it sends at once, m_iStatusCode stays 0.
NewServerTransaction == [NewTransaction EXCEPT !.response = SIP_TRYING]

\* Insert of an INVITE that no transaction has: the user agent is told.
RecvInvite(k) ==
  /\ k \in InviteKey
  /\ k \notin DOMAIN ist
  /\ ist' = Insert(ist, k, NewServerTransaction)
  /\ Transmit({Response(k, SIP_TRYING)})
  /\ offered' = offered \cup {k}
  /\ timeouts' = timeouts \ {k}
  /\ abandoned' = abandoned \ {k}
  /\ UNCHANGED <<unacked, acks>>

\* Insert of a retransmitted INVITE: the last response goes out again.
RecvInviteAgain(k) ==
  /\ k \in DOMAIN ist
  /\ Transmit({Response(k, ist[k].response)})
  /\ UNCHANGED <<ist, unacked, timeouts, offered, acks, abandoned>>

\* Mutant: the stop time is not taken.
AckedWithoutStop(tr) == [tr EXCEPT !.ack = TRUE]

Acked(tr) == [tr EXCEPT !.ack = TRUE, !.stop = 0]

\* What an ACK does to the transaction j it belongs to.
TakeAck(j) ==
  ist' = IF ist[j].response = SIP_UNAUTHORIZED
         THEN Erase(ist, {j})
         ELSE [ist EXCEPT ![j] = IF @.ack THEN @ ELSE Acked(@)]

\* Insert of an ACK whose branch is the branch of a transaction.
AckFound(k) == k \in DOMAIN ist /\ TakeAck(k)

\* Mutant: the Call-IDs alone are compared.
AckScanByCallId(k) ==
  /\ k \notin DOMAIN ist
  /\ \E j \in DOMAIN ist : CallOf[j] = CallOf[k] /\ ~ ist[j].ack /\ TakeAck(j)

\* Insert of an ACK with a branch of its own: the first transaction with its Call-ID
\* and CSeq number that has no ACK yet takes it.
AckScan(k) ==
  /\ k \notin DOMAIN ist
  /\ \E j \in DOMAIN ist : IsEqualCallIdSeq(j, k) /\ ~ ist[j].ack /\ TakeAck(j)

\* Mutant: an ACK that belongs to no transaction makes one.
RecvAckAsRequest(k) ==
  /\ k \notin DOMAIN ist
  /\ ist' = Insert(ist, k, NewServerTransaction)
  /\ acks' = acks \cup {k}
  /\ UNCHANGED <<net, unacked, timeouts, offered, abandoned>>

RecvAck(k) ==
  /\ AckFound(k) \/ AckScan(k)
  /\ acks' = acks \cup {k}
  /\ UNCHANGED <<net, unacked, timeouts, offered, abandoned>>

\* Mutant: the start time of the INVITE is kept.
AnsweredWithoutStart(tr, s) == [tr EXCEPT !.response = s, !.status = s]

Answered(tr, s) ==
  [tr EXCEPT !.response = s, !.status = s, !.start = IF Final(s) THEN 0 ELSE @]

\* SendSipMessage of a response of the user agent.  It is dropped when its
\* transaction is gone or has a status at least as high.
SendResponse(k, s) ==
  /\ k \in DOMAIN ist
  /\ s > ist[k].status
  /\ ist' = [ist EXCEPT ![k] = Answered(@, s)]
  /\ Transmit({Response(k, s)})
  /\ UNCHANGED <<unacked, timeouts, offered, acks, abandoned>>

\* What the user agent sends: one final response, except that AcceptCall can race
\* the CANCEL of the call, which makes it send a 200 and a 487.  Both are decided before
\* either is sent, so the 487 is sent before the 200 is sent for the second time, 500 ms
\* later: no thread is suspended for that long.
Proper(k, s) ==
  k \in DOMAIN ist /\ Final(ist[k].status) =>
    s = SIP_REQUEST_TERMINATED /\ ist[k].resend = 0
-----------------------------------------------------------------------------
\* The decisions of Execute on one transaction.
Stopped(tr)      == tr.stop # Off
AwaitsAck(tr)    == ~ Stopped(tr) /\ Final(tr.status) /\ ~ tr.ack /\ ReSendDue(tr)
GiveUp(tr)       == AwaitsAck(tr) /\ tr.resend + 1 = MAX_ICT_RESEND_COUNT
\* Mutants: a 200 that is not acknowledged is reported by the wrong test of its status;
\* a transaction is deleted when Execute gives up.
ReportsError(tr) == GiveUp(tr) /\ tr.status > SIP_OK
CompletedOrGivenUp(tr) == (Stopped(tr) /\ tr.stop >= StopTime) \/ GiveUp(tr)
Reports(tr)      == GiveUp(tr) /\ tr.status = SIP_OK
Completed(tr)    == Stopped(tr) /\ tr.stop >= StopTime

Executed(tr) ==
  [tr EXCEPT !.resend = IF AwaitsAck(tr) THEN @ + 1 ELSE @,
             !.stop = IF GiveUp(tr) THEN 0 ELSE @]

\* One pass of Execute: delete, retransmit the final response, give up.
Execute ==
  LET chosen(P(_)) == {k \in DOMAIN ist : P(ist[k])}
      kept    == DOMAIN ist \ chosen(Completed)
      resends == chosen(AwaitsAck) \ chosen(GiveUp)
  IN  /\ unacked = {}
      /\ ist' = [k \in kept |-> Executed(ist[k])]
      /\ unacked' = chosen(Reports)
      /\ Transmit({Response(k, ist[k].response) : k \in resends \cap Udp})
      /\ UNCHANGED <<timeouts, offered, acks, abandoned>>

\* Execute, after it released the mutex: the callback SendTimeout.
SendTimeout(k) ==
  /\ k \in unacked
  /\ unacked' = unacked \ {k}
  /\ timeouts' = timeouts \cup {k}
  /\ UNCHANGED <<ist, net, offered, acks, abandoned>>

\* CSipStack::Stop: every thread has ended, the list is emptied.
DeleteAll ==
  /\ unacked = {}
  /\ ist # EmptyMap
  /\ ist' = EmptyMap
  /\ abandoned' = abandoned \cup DOMAIN ist
  /\ UNCHANGED <<net, unacked, timeouts, offered, acks>>

\* Time passes.
Tick ==
  /\ ist' = OlderMap(ist)
  /\ net' = OlderNet(net)
  /\ UNCHANGED <<unacked, timeouts, offered, acks, abandoned>>

Next ==
  \/ \E k \in Key : RecvInvite(k) \/ RecvInviteAgain(k) \/ RecvAck(k) \/ SendTimeout(k)
  \/ \E k \in Key, s \in Status : Proper(k, s) /\ SendResponse(k, s)
  \/ Execute
  \/ DeleteAll
  \/ Tick

Spec == Init /\ [][Next]_vars

\* The stack thread keeps running and the clock advances.
Fairness ==
  WF_vars(Tick) /\ WF_vars(Execute) /\ \A k \in Key : WF_vars(SendTimeout(k))

FairSpec == Spec /\ Fairness
-----------------------------------------------------------------------------
\* A transaction counts as acknowledged only after an ACK with its own Call-ID and
\* its own CSeq number arrived: the ACK of one re-INVITE never silences the
\* retransmission of the answer to another.
AckedByOwnAck ==
  \A k \in DOMAIN ist : ist[k].ack => \E a \in acks : IsEqualCallIdSeq(a, k)

\* The 200 whose SendTimeout is pending is still the response of its transaction: Execute
\* hands the callback a bare pointer, so until then the transaction must not be deleted and
\* no higher response may take the place of the 200, which would be deleted at once.
UnackedStillHeld ==
  \A k \in unacked : k \in DOMAIN ist /\ ist[k].response = SIP_OK

\* An accepted INVITE leaves the list only after an ACK or after the user agent was
\* told, or is about to be told, that none came.
NoLostAccept ==
  [][\A k \in DOMAIN ist \ DOMAIN ist' :
       ist[k].status = SIP_OK =>
         \/ ist[k].ack
         \/ k \in timeouts \cup unacked
         \/ k \in abandoned']_vars

\* An INVITE that got its final response is not kept for ever.
EveryAnsweredInviteEnds ==
  \A k \in Key :
    (k \in DOMAIN ist /\ Final(ist[k].status)) ~> k \notin DOMAIN ist
=============================================================================
