--------------------- MODULE NonInviteTransactionProofs ---------------------
(***************************************************************************)
(* Theorems about NonInviteTransaction, for every set of requests and      *)
(* every value of the retransmission table and of the timers: the types,   *)
(* and that the two lists implement NonInviteContract over any network     *)
(* that is fast enough for Timer J.                                        *)
(***************************************************************************)
EXTENDS NonInviteTransaction, TLAPS

\* The age a request has when it is sent for the last time.
LastSend == IF MAX_ICT_RESEND_COUNT = 1 THEN 0 ELSE ReSendTime[MAX_ICT_RESEND_COUNT - 2]

\* The table is sorted, and when Timer J ends no copy of a request is on its way any more.
\* In the code LastSend is 31.5 seconds and Timer J 32.
Timely ==
  /\ \A i, j \in 0 .. MAX_ICT_RESEND_COUNT - 1 : i <= j => ReSendTime[i] <= ReSendTime[j]
  /\ LastSend + MaxDelay <= TimerJ

\* The server's stack was called for nothing but requests that were sent.
OfferedWereBegun == offered \subseteq begun

\* A transaction without a response has heard and reported nothing.
SilentIsUntold ==
  \A k \in DOMAIN nict : nict[k].response = NoResponse =>
    /\ \A u \in upcalls : u.key # k
    /\ \A s : <<k, s>> \notin told

\* Execute's 408 is the only thing that is reported of its request.
TimedOutIsUntold ==
  \A k \in timedOut :
    /\ k \notin DOMAIN nict
    /\ \A u \in upcalls : u.key # k
    /\ \A s : <<k, s>> \notin told

StackUpcallIsAlone ==
  \A u \in upcalls : u.thread = Stack =>
    /\ u.status = SIP_REQUEST_TIME_OUT
    /\ u.key \in begun
    /\ u.key \notin DOMAIN nict \cup timedOut
    /\ \A v \in upcalls : v.key = u.key => v = u
    /\ \A s : <<u.key, s>> \notin told

\* Whatever else is received, called back or told is a response of the server's user agent.
HeldWasSent ==
  \A k \in DOMAIN nist : nist[k].response # NoResponse => <<k, nist[k].response>> \in responses

NetWasSent == \A m \in net : m.method = "RESPONSE" => <<m.key, m.status>> \in responses

UpcallWasSent == \A u \in upcalls : u.thread # Stack => <<u.key, u.status>> \in responses

ToldWasSent ==
  \A k \in Key, s \in Status \cup {SIP_REQUEST_TIME_OUT} : <<k, s>> \in told =>
    \/ <<k, s>> \in responses
    \/ /\ s = SIP_REQUEST_TIME_OUT
       /\ k \notin DOMAIN nict \cup timedOut
       /\ \A u \in upcalls : u.key # k

\* The user agent gives one final response, and the server holds it.
OneFinal ==
  /\ \A k \in Key, r, s \in Status :
       Final(r) /\ Final(s) /\ <<k, r>> \in responses /\ <<k, s>> \in responses => r = s
  /\ \A k \in DOMAIN nist, s \in Status :
       Final(s) /\ <<k, s>> \in responses => nist[k].response = s

\* What the client holds is not overdue, and it is not younger than the answer of the server.
NotOverdue ==
  \A k \in DOMAIN nict : nict[k].stop = Off => nict[k].start <= ReSendTime[nict[k].resend]

AnsweredAfterBegun ==
  \A k \in DOMAIN nict \cap DOMAIN nist : nist[k].stop <= nict[k].start

\* A copy of a request that is still on its way was sent in time.
RequestIsFresh ==
  \A m \in net : m.method = "REQUEST" /\ m.key \in DOMAIN nist =>
    nist[m.key].stop <= LastSend + m.age

\* When the server has forgotten a request no copy of it is left, and none will be sent.
ForgottenIsOver ==
  running =>
    \A k \in offered \ DOMAIN nist :
      /\ \A m \in net : m.method = "REQUEST" => m.key # k
      /\ k \in DOMAIN nict /\ nict[k].stop = Off => nict[k].start >= TimerJ

\* The inductive invariants: one of the client, one of both.
ReportInv ==
  /\ TypeOK
  /\ OfferedWereBegun
  /\ SilentIsUntold
  /\ TimedOutIsUntold
  /\ StackUpcallIsAlone
  /\ HeldWasSent
  /\ NetWasSent
  /\ UpcallWasSent
  /\ ToldWasSent

TimeInv ==
  /\ NotOverdue
  /\ AnsweredAfterBegun
  /\ RequestIsFresh
  /\ ForgottenIsOver
  /\ reoffered = {}

IInv == ReportInv /\ TimeInv /\ OneFinal
-----------------------------------------------------------------------------
LEMMA Ages ==
  /\ Off \in Age /\ 0 \in Age /\ Off < 0 /\ 0 \in 0 .. Cap
  /\ Cap \in Nat
  /\ \A x \in 0 .. Cap : x \in Age /\ x # Off
  BY ListAssumption DEF Age, Off

\* How an age grows.
LEMMA OlderAges ==
  /\ \A x \in 0 .. Cap : Client!Older(x) \in 0 .. Cap /\ Client!Older(x) >= x
                           /\ Client!Older(x) <= x + 1
                           /\ (x < Cap => Client!Older(x) = x + 1)
  /\ \A x \in Age : /\ Client!Older(x) \in Age
                    /\ Client!Older(x) = Off <=> x = Off
                    /\ Client!Older(x) = Server!Older(x)
                    /\ Client!Older(x) <= x + 1
  /\ \A x \in Age, y \in 0 .. Cap : x <= y => Client!Older(x) <= Client!Older(y)
  BY ListAssumption DEF Client!Older, Server!Older, Client!Off, Server!Off, Age, Off

LEMMA TableType ==
  \A r \in 0 .. MAX_ICT_RESEND_COUNT - 1 : ReSendTime[r] \in 0 .. Cap
  BY ListAssumption

LEMMA LastSendType == LastSend \in 0 .. Cap
  BY ListAssumption DEF LastSend

\* The fields of the records of the two lists.
LEMMA ClientFields ==
  ASSUME NEW tr \in Client!CSipNonInviteTransaction
  PROVE  /\ tr.response \in Status \cup {NoResponse}
         /\ tr.resend \in 0 .. MAX_ICT_RESEND_COUNT
         /\ tr.start \in 0 .. Cap
         /\ tr.stop \in Age
  BY DEF Client!CSipNonInviteTransaction, Client!NoResponse, NoResponse, Client!Age, Age,
         Client!Off, Off

LEMMA NewFields ==
  /\ Client!NewNonInvite \in Client!CSipNonInviteTransaction
  /\ Client!NewNonInvite.response = NoResponse
  /\ Client!NewNonInvite.resend = 0
  /\ Client!NewNonInvite.start = 0
  /\ Client!NewNonInvite.stop = Off
  BY ListAssumption DEF Client!NewNonInvite, Client!CSipNonInviteTransaction,
         Client!NoResponse, NoResponse, Client!Age, Client!Off, Off

LEMMA RespondedFields ==
  ASSUME NEW tr \in Client!CSipNonInviteTransaction, NEW s \in Status
  PROVE  /\ Client!Responded(tr, s) \in Client!CSipNonInviteTransaction
         /\ Client!Responded(tr, s).response = s
         /\ Client!Responded(tr, s).resend = tr.resend
         /\ Client!Responded(tr, s).start = tr.start
         /\ Client!Responded(tr, s).stop = Off => tr.stop = Off
  <1> DEFINE p == IF Client!NewStatus(tr, s) /\ Client!Final(s) THEN 0 ELSE tr.stop
  <1>1. p \in Age /\ (p = Off => tr.stop = Off)
    BY ClientFields, Ages
  <1>2. Client!Responded(tr, s) = [tr EXCEPT !.response = s, !.stop = p]
    BY DEF Client!Responded
  <1> HIDE DEF p
  <1>3. p \in Client!Age
    BY <1>1 DEF Age, Client!Age, Off, Client!Off
  <1> QED
    BY <1>1, <1>2, <1>3 DEF Client!CSipNonInviteTransaction

LEMMA ResentFields ==
  ASSUME NEW tr \in Client!CSipNonInviteTransaction, tr.resend < MAX_ICT_RESEND_COUNT,
         NEW e, e = [tr EXCEPT !.resend = @ + 1]
  PROVE  /\ e \in Client!CSipNonInviteTransaction
         /\ e.response = tr.response
         /\ e.resend = tr.resend + 1
         /\ e.start = tr.start
         /\ e.stop = tr.stop
  <1>1. tr.resend + 1 \in 0 .. MAX_ICT_RESEND_COUNT
    BY ListAssumption, ClientFields
  <1> QED
    BY <1>1 DEF Client!CSipNonInviteTransaction

LEMMA OlderFields ==
  ASSUME NEW tr \in Client!CSipNonInviteTransaction,
         NEW e, e = [tr EXCEPT !.start = Client!Older(@), !.stop = Client!Older(@)]
  PROVE  /\ e \in Client!CSipNonInviteTransaction
         /\ e.response = tr.response
         /\ e.resend = tr.resend
         /\ e.start = Client!Older(tr.start)
         /\ e.stop = Client!Older(tr.stop)
  <1>1. Client!Older(tr.start) \in 0 .. Cap /\ Client!Older(tr.stop) \in Client!Age
    BY ClientFields, OlderAges DEF Age, Client!Age, Off, Client!Off
  <1> QED
    BY <1>1 DEF Client!CSipNonInviteTransaction

LEMMA ServerFields ==
  ASSUME NEW tr \in Server!CSipNonInviteTransaction
  PROVE  tr.response \in Status \cup {NoResponse} /\ tr.stop \in Age
  BY DEF Server!CSipNonInviteTransaction, Server!NoResponse, NoResponse, Server!Age, Age,
         Server!Off, Off

LEMMA AnsweredFields ==
  ASSUME NEW tr \in Server!CSipNonInviteTransaction, NEW s \in Status
  PROVE  /\ Server!Answered(tr, s) \in Server!CSipNonInviteTransaction
         /\ Server!Answered(tr, s).response = s
         /\ Server!Answered(tr, s).stop \in {0, tr.stop}
  <1> DEFINE p == IF Server!Final(s) THEN 0 ELSE tr.stop
  <1>1. p \in {0, tr.stop} /\ p \in Server!Age
    BY ServerFields, Ages DEF Age, Server!Age, Off, Server!Off
  <1>2. Server!Answered(tr, s) = [tr EXCEPT !.response = s, !.stop = p]
    BY DEF Server!Answered
  <1> HIDE DEF p
  <1> QED
    BY <1>1, <1>2 DEF Server!CSipNonInviteTransaction

LEMMA OlderServerFields ==
  ASSUME NEW tr \in Server!CSipNonInviteTransaction,
         NEW e, e = [tr EXCEPT !.stop = Server!Older(@)]
  PROVE  /\ e \in Server!CSipNonInviteTransaction
         /\ e.response = tr.response
         /\ e.stop = Client!Older(tr.stop)
  <1>1. Server!Older(tr.stop) = Client!Older(tr.stop) /\ Server!Older(tr.stop) \in Server!Age
    BY ServerFields, OlderAges DEF Age, Server!Age, Off, Server!Off
  <1> QED
    BY <1>1 DEF Server!CSipNonInviteTransaction
-----------------------------------------------------------------------------
\* What a step does to the two lists and to the network, field by field.

LEMMA TypeFacts ==
  ASSUME TypeOK
  PROVE  /\ DOMAIN nict \subseteq begun /\ begun \subseteq Key
         /\ \A k \in DOMAIN nict : /\ nict[k] \in Client!CSipNonInviteTransaction
                                   /\ nict[k].resend < MAX_ICT_RESEND_COUNT
                                   /\ nict[k].response \in Status \cup {NoResponse}
                                   /\ nict[k].resend \in 0 .. MAX_ICT_RESEND_COUNT - 1
                                   /\ nict[k].start \in 0 .. Cap
                                   /\ nict[k].stop \in Age
         /\ \A k \in DOMAIN nist : /\ nist[k] \in Server!CSipNonInviteTransaction
                                   /\ nist[k].response \in Status \cup {NoResponse}
                                   /\ nist[k].stop \in Age
         /\ DOMAIN nist \subseteq offered
         /\ responses \subseteq offered \X Status
         /\ net \subseteq [method : {"REQUEST", "RESPONSE"}, key : begun,
                           status : Status \cup {NoResponse}, age : 0 .. MaxDelay - 1]
         /\ \A m \in net : m.key \in begun /\ m.age \in Nat /\ m.age < MaxDelay
         /\ \A s \in Status : s \in Nat /\ s # NoResponse
  <1>1. \A k \in DOMAIN nict : nict[k] \in Client!CSipNonInviteTransaction
    BY DEF TypeOK, Client!TypeOK
  <1>2. \A k \in DOMAIN nict : nict[k].resend < MAX_ICT_RESEND_COUNT
    BY DEF TypeOK, Client!TypeOK
  <1>3. \A k \in DOMAIN nict : nict[k].resend \in 0 .. MAX_ICT_RESEND_COUNT - 1
    BY <1>1, <1>2, ClientFields, ListAssumption
  <1>4. \A k \in DOMAIN nist : nist[k] \in Server!CSipNonInviteTransaction
    BY DEF TypeOK, Server!TypeOK
  <1>5. \A s \in Status : s \in Nat /\ s # NoResponse
    BY ListAssumption DEF NoResponse
  <1>6. /\ DOMAIN nict \subseteq begun /\ begun \subseteq Key
        /\ DOMAIN nist \subseteq offered
        /\ responses \subseteq offered \X Status
        /\ net \subseteq [method : {"REQUEST", "RESPONSE"}, key : begun,
                          status : Status \cup {NoResponse}, age : 0 .. MaxDelay - 1]
    BY DEF TypeOK, Client!TypeOK, Server!TypeOK
  <1>7. \A m \in net : m.key \in begun /\ m.age \in Nat /\ m.age < MaxDelay
    BY <1>6, ListAssumption
  <1> QED
    BY <1>1, <1>2, <1>3, <1>4, <1>5, <1>6, <1>7, ClientFields, ServerFields

LEMMA SendsEffect ==
  ASSUME TypeOK, NEW k \in Key, Client!SendRequest(k)
  PROVE  /\ k \notin begun
         /\ DOMAIN nict' = DOMAIN nict \cup {k}
         /\ \A j \in DOMAIN nict : nict'[j] = nict[j]
         /\ nict'[k] = Client!NewNonInvite
         /\ begun' = begun \cup {k}
         /\ \A m \in net' : \/ m \in net
                            \/ m = Client!Request("REQUEST", k) /\ m.age < MaxDelay
  <1>1. k \notin DOMAIN nict
    BY TypeFacts DEF Client!SendRequest
  <1> QED
    BY <1>1 DEF Client!SendRequest, Client!Insert, Client!Sent

LEMMA RespondsEffect ==
  ASSUME TypeOK, NEW t \in Thread, NEW k, NEW s \in Status, Client!RecvResponse(t, k, s)
  PROVE  /\ k \in DOMAIN nict
         /\ DOMAIN nict' = DOMAIN nict
         /\ \A j \in DOMAIN nict : j # k => nict'[j] = nict[j]
         /\ nict'[k] = Client!Responded(nict[k], s)
         /\ \A u \in upcalls' : \/ u \in upcalls
                                \/ u = [thread |-> t, key |-> k, status |-> s]
  BY DEF Client!RecvResponse

LEMMA ErasesEffect ==
  ASSUME NEW S, nict' = Client!Erase(nict, S)
  PROVE  DOMAIN nict' = DOMAIN nict \ S /\ \A j \in DOMAIN nict' : nict'[j] = nict[j]
  BY DEF Client!Erase, Client!Restrict

LEMMA ExecutesEffect ==
  ASSUME TypeOK, Client!Execute
  PROVE  /\ DOMAIN nict' \subseteq DOMAIN nict
         /\ \A k \in DOMAIN nict' :
              /\ nict'[k] \in Client!CSipNonInviteTransaction
              /\ nict'[k].response = nict[k].response
              /\ nict'[k].start = nict[k].start
              /\ nict'[k].stop = nict[k].stop
              /\ nict'[k].resend \in 0 .. MAX_ICT_RESEND_COUNT - 1
              /\ \/ nict'[k].resend = nict[k].resend
                 \/ nict'[k].resend = nict[k].resend + 1
         /\ timedOut = {}
         /\ \A k \in timedOut' : /\ k \in DOMAIN nict \ DOMAIN nict'
                                 /\ nict[k].response = NoResponse
         /\ \A m \in net' : \/ m \in net
                            \/ /\ m = Client!Request("REQUEST", m.key) /\ m.age < MaxDelay
                               /\ m.key \in DOMAIN nict
                               /\ nict[m.key].stop = Off
                               /\ nict[m.key].resend + 1 < MAX_ICT_RESEND_COUNT
  <1> DEFINE chosen(P(_)) == {k \in DOMAIN nict : P(nict[k])}
             gone    == chosen(Client!Completed) \cup chosen(Client!Exhausted)
             resends == chosen(Client!Due) \ gone
  <1>1. /\ nict' = [k \in DOMAIN nict \ gone |->
                     IF k \in resends THEN [nict[k] EXCEPT !.resend = @ + 1] ELSE nict[k]]
        /\ timedOut = {}
        /\ timedOut' = chosen(Client!TimesOut)
        /\ net' = Client!Sent(net, {Client!Request("REQUEST", k) : k \in resends \cap Udp})
    BY DEF Client!Execute
  <1>2. \A k \in resends :
          /\ k \in DOMAIN nict /\ nict[k].stop = Off
          /\ nict[k].resend + 1 < MAX_ICT_RESEND_COUNT
    <2> SUFFICES ASSUME NEW k \in resends
                 PROVE  /\ k \in DOMAIN nict /\ nict[k].stop = Off
                        /\ nict[k].resend + 1 < MAX_ICT_RESEND_COUNT
      OBVIOUS
    <2>1. k \in DOMAIN nict /\ Client!Due(nict[k]) /\ ~ Client!Exhausted(nict[k])
      OBVIOUS
    <2>2. nict[k].stop = Off
      BY <2>1 DEF Client!Due, Client!Stopped, Client!Off, Off
    <2>3. nict[k].resend + 1 # MAX_ICT_RESEND_COUNT
      BY <2>1 DEF Client!Exhausted
    <2> QED
      BY <2>1, <2>2, <2>3, TypeFacts, ListAssumption
  <1>3. \A k \in chosen(Client!TimesOut) :
          k \in DOMAIN nict /\ k \in gone /\ nict[k].response = NoResponse
    BY DEF Client!TimesOut, Client!NoResponse, NoResponse
  <1> HIDE DEF gone, resends, chosen
  <1>4. DOMAIN nict' = DOMAIN nict \ gone
    BY <1>1
  <1>5. ASSUME NEW k \in DOMAIN nict'
        PROVE  /\ nict'[k] \in Client!CSipNonInviteTransaction
               /\ nict'[k].response = nict[k].response
               /\ nict'[k].start = nict[k].start
               /\ nict'[k].stop = nict[k].stop
               /\ nict'[k].resend \in 0 .. MAX_ICT_RESEND_COUNT - 1
               /\ \/ nict'[k].resend = nict[k].resend
                  \/ nict'[k].resend = nict[k].resend + 1
    <2>1. CASE k \in resends
      <3>1. nict'[k] = [nict[k] EXCEPT !.resend = @ + 1]
        BY <1>1, <1>4, <2>1
      <3>2. k \in DOMAIN nict
        BY <1>4
      <3> QED
        BY <3>1, <3>2, <1>2, <2>1, ResentFields, TypeFacts, ListAssumption
    <2>2. CASE k \notin resends
      BY <1>1, <1>4, <2>2, TypeFacts
    <2> QED
      BY <2>1, <2>2
  <1>6. ASSUME NEW m \in net', m \notin net
        PROVE  \E k \in resends : m = Client!Request("REQUEST", k) /\ m.age < MaxDelay
    BY <1>1, <1>6 DEF Client!Sent
  <1>7. ASSUME NEW m \in net'
        PROVE  \/ m \in net
               \/ /\ m = Client!Request("REQUEST", m.key) /\ m.age < MaxDelay
                  /\ m.key \in DOMAIN nict
                  /\ nict[m.key].stop = Off
                  /\ nict[m.key].resend + 1 < MAX_ICT_RESEND_COUNT
    BY <1>6, <1>2 DEF Client!Request
  <1>8. \A k \in timedOut' : k \in DOMAIN nict \ DOMAIN nict' /\ nict[k].response = NoResponse
    BY <1>1, <1>3, <1>4
  <1> QED
    BY <1>1, <1>4, <1>5, <1>7, <1>8

LEMMA AnswersEffect ==
  ASSUME TypeOK, NEW k, NEW s \in Status, Server!SendResponse(k, s)
  PROVE  /\ k \in DOMAIN nist
         /\ DOMAIN nist' = DOMAIN nist
         /\ \A j \in DOMAIN nist : j # k => nist'[j] = nist[j]
         /\ nist'[k] = Server!Answered(nist[k], s)
         /\ \A m \in net' : \/ m \in net
                            \/ /\ m = Server!Response(k, s) /\ m.age < MaxDelay
         /\ responses' = responses \cup {<<k, s>>}
  BY DEF Server!SendResponse, Server!Sent

LEMMA OffersEffect ==
  ASSUME NEW k, Server!RecvRequest(k)
  PROVE  /\ k \notin DOMAIN nist
         /\ DOMAIN nist' = DOMAIN nist \cup {k}
         /\ \A j \in DOMAIN nist : nist'[j] = nist[j]
         /\ nist'[k] \in Server!CSipNonInviteTransaction
         /\ nist'[k].response = NoResponse
         /\ nist'[k].stop = Off
         /\ offered' = offered \cup {k}
  BY ListAssumption DEF Server!RecvRequest, Server!Insert, Server!CSipNonInviteTransaction,
         Server!NoResponse, NoResponse, Server!Age, Server!Off, Off

LEMMA RepeatsEffect ==
  ASSUME NEW k, Server!RecvRequestAgain(k)
  PROVE  \A m \in net' : \/ m \in net
                         \/ /\ m = Server!Response(k, nist[k].response) /\ m.age < MaxDelay
                            /\ k \in DOMAIN nist /\ nist[k].response # NoResponse
  BY DEF Server!RecvRequestAgain, Server!Sent, Server!NoResponse, NoResponse

LEMMA ServerExecutesEffect ==
  ASSUME Server!Execute
  PROVE  /\ DOMAIN nist' \subseteq DOMAIN nist
         /\ \A k \in DOMAIN nist' : nist'[k] = nist[k]
         /\ \A k \in DOMAIN nist \ DOMAIN nist' : nist[k].stop # Off /\ nist[k].stop >= TimerJ
  BY DEF Server!Execute, Server!Erase, Server!Restrict, Server!Completed, Server!Off, Off

\* A tick ages everything; what is too old leaves the network.
LEMMA TicksEffect ==
  ASSUME TypeOK, Tick
  PROVE  /\ DOMAIN nict' = DOMAIN nict /\ DOMAIN nist' = DOMAIN nist
         /\ upcalls = {} /\ timedOut = {}
         /\ \A k \in DOMAIN nict :
              /\ nict'[k] \in Client!CSipNonInviteTransaction
              /\ nict'[k].response = nict[k].response
              /\ nict'[k].resend = nict[k].resend
              /\ nict'[k].start = Client!Older(nict[k].start)
              /\ nict'[k].stop = Client!Older(nict[k].stop)
              /\ nict[k].stop = Off => nict[k].start < ReSendTime[nict[k].resend]
         /\ \A k \in DOMAIN nist :
              /\ nist'[k] \in Server!CSipNonInviteTransaction
              /\ nist'[k].response = nist[k].response
              /\ nist'[k].stop = Client!Older(nist[k].stop)
         /\ \A m \in net' : \E d \in net :
              /\ m = [d EXCEPT !.age = d.age + 1]
              /\ m.method = d.method /\ m.key = d.key /\ m.status = d.status
              /\ m.age = d.age + 1 /\ m.age < MaxDelay
  <1>1. /\ nict' = [k \in DOMAIN nict |->
                     [nict[k] EXCEPT !.start = Client!Older(@), !.stop = Client!Older(@)]]
        /\ nist' = [k \in DOMAIN nist |-> [nist[k] EXCEPT !.stop = Server!Older(@)]]
        /\ upcalls = {} /\ timedOut = {}
        /\ net' = Client!OlderNet(net)
    BY DEF Tick, Client!Tick, Server!Tick, Punctual
  <1>2. ASSUME NEW k \in DOMAIN nict
        PROVE  /\ nict'[k] \in Client!CSipNonInviteTransaction
               /\ nict'[k].response = nict[k].response
               /\ nict'[k].resend = nict[k].resend
               /\ nict'[k].start = Client!Older(nict[k].start)
               /\ nict'[k].stop = Client!Older(nict[k].stop)
    BY <1>1, TypeFacts, OlderFields
  <1>3. ASSUME NEW k \in DOMAIN nict, nict[k].stop = Off
        PROVE  nict[k].start < ReSendTime[nict[k].resend]
    <2>1. ~ Client!Due(nict[k])
      BY DEF Tick, Punctual
    <2>2. ~ (nict[k].start >= ReSendTime[nict[k].resend])
      BY <2>1, <1>3 DEF Client!Due, Client!Stopped, Client!ReSendDue, Client!Off, Off
    <2> QED
      BY <2>2, TypeFacts, TableType, ListAssumption
  <1>4. ASSUME NEW k \in DOMAIN nist
        PROVE  /\ nist'[k] \in Server!CSipNonInviteTransaction
               /\ nist'[k].response = nist[k].response
               /\ nist'[k].stop = Client!Older(nist[k].stop)
    BY <1>1, TypeFacts, OlderServerFields
  <1>5. ASSUME NEW m \in net'
        PROVE  \E d \in net : /\ m = [d EXCEPT !.age = d.age + 1]
                              /\ m.method = d.method /\ m.key = d.key /\ m.status = d.status
                              /\ m.age = d.age + 1 /\ m.age < MaxDelay
    <2>1. PICK d \in net : m = [d EXCEPT !.age = d.age + 1] /\ d.age + 1 < MaxDelay
      BY <1>1 DEF Client!OlderNet
    <2>2. d \in [method : {"REQUEST", "RESPONSE"}, key : begun,
                  status : Status \cup {NoResponse}, age : 0 .. MaxDelay - 1]
      BY TypeFacts
    <2> QED
      BY <2>1, <2>2
  <1> QED
    BY <1>1, <1>2, <1>3, <1>4, <1>5
-----------------------------------------------------------------------------
\* Nothing is reported of a request that was not sent.
LEMMA UnbegunIsUntold ==
  ASSUME ReportInv, NEW k, k \notin begun
  PROVE  /\ k \notin DOMAIN nict \cup timedOut \cup offered
         /\ \A u \in upcalls : u.key # k
         /\ \A s : <<k, s>> \notin told
  <1>1. TypeOK /\ OfferedWereBegun /\ StackUpcallIsAlone /\ UpcallWasSent
    BY DEF ReportInv
  <1>2. /\ k \notin DOMAIN nict \cup timedOut \cup offered
        /\ \A s : <<k, s>> \notin told
    BY <1>1 DEF OfferedWereBegun, TypeOK, Client!TypeOK
  <1>3. \A s : <<k, s>> \notin responses
    BY <1>1, <1>2, TypeFacts
  <1>4. \A u \in upcalls : u.key # k
    BY <1>1, <1>3 DEF StackUpcallIsAlone, UpcallWasSent
  <1> QED
    BY <1>2, <1>4

LEMMA SendsReport ==
  ASSUME ReportInv, ClientSends
  PROVE  ReportInv'
  <1>1. PICK k \in Key : Client!SendRequest(k) /\ ClientStep
    BY DEF ClientSends
  <1>2. /\ TypeOK /\ OfferedWereBegun /\ SilentIsUntold /\ TimedOutIsUntold
        /\ StackUpcallIsAlone /\ HeldWasSent /\ NetWasSent /\ UpcallWasSent /\ ToldWasSent
    BY DEF ReportInv
  <1>3. UNCHANGED <<upcalls, timedOut, told, dropped, nist, offered, responses>>
    BY <1>1 DEF Client!SendRequest, ClientStep, serverVars
  <1>4. /\ k \notin begun
        /\ DOMAIN nict' = DOMAIN nict \cup {k}
        /\ \A j \in DOMAIN nict : nict'[j] = nict[j]
        /\ nict'[k] = Client!NewNonInvite
        /\ begun' = begun \cup {k}
        /\ \A m \in net' : \/ m \in net
                           \/ m = Client!Request("REQUEST", k) /\ m.age < MaxDelay
    BY <1>1, <1>2, SendsEffect
  <1>5. /\ k \notin DOMAIN nict \cup timedOut \cup offered
        /\ \A u \in upcalls : u.key # k
        /\ \A s : <<k, s>> \notin told
    BY <1>4, UnbegunIsUntold
  <1>6. TypeOK'
    <2>1. net' \subseteq [method : {"REQUEST", "RESPONSE"}, key : begun',
                          status : Status \cup {NoResponse}, age : 0 .. MaxDelay - 1]
      <3>1. ASSUME Client!Request("REQUEST", k).age < MaxDelay
            PROVE  Client!Request("REQUEST", k) \in [method : {"REQUEST", "RESPONSE"},
                     key : begun', status : Status \cup {NoResponse}, age : 0 .. MaxDelay - 1]
        BY <1>4, <3>1, ListAssumption DEF Client!Request, Client!NoResponse, NoResponse
      <3> QED
        BY <1>2, <1>4, <3>1, TypeFacts
    <2>2. \A j \in DOMAIN nict' : /\ nict'[j] \in Client!CSipNonInviteTransaction
                                  /\ nict'[j].resend < MAX_ICT_RESEND_COUNT
      BY <1>2, <1>4, TypeFacts, NewFields, ListAssumption
    <2>3. begun' \subseteq Key /\ DOMAIN nict' \subseteq begun'
      BY <1>1, <1>2, <1>4, TypeFacts
    <2> QED
      BY <1>2, <1>3, <1>4, <2>1, <2>2, <2>3 DEF TypeOK, Client!TypeOK, Server!TypeOK
  <1>7. OfferedWereBegun'
    BY <1>2, <1>3, <1>4 DEF OfferedWereBegun
  <1>8. SilentIsUntold'
    BY <1>2, <1>3, <1>4, <1>5 DEF SilentIsUntold
  <1>9. TimedOutIsUntold'
    BY <1>2, <1>3, <1>4, <1>5 DEF TimedOutIsUntold
  <1>10. StackUpcallIsAlone'
    BY <1>2, <1>3, <1>4, <1>5 DEF StackUpcallIsAlone
  <1>11. HeldWasSent' /\ UpcallWasSent'
    BY <1>2, <1>3 DEF HeldWasSent, UpcallWasSent
  <1>12. NetWasSent'
    BY <1>2, <1>3, <1>4 DEF NetWasSent, Client!Request
  <1>13. ToldWasSent'
    BY <1>2, <1>3, <1>4, <1>5 DEF ToldWasSent
  <1> QED
    BY <1>6, <1>7, <1>8, <1>9, <1>10, <1>11, <1>12, <1>13 DEF ReportInv
LEMMA ReceivesReport ==
  ASSUME ReportInv, ClientReceives
  PROVE  ReportInv'
  <1>1. PICK t \in Thread, m \in net :
          m.method = "RESPONSE" /\ Client!RecvResponse(t, m.key, m.status) /\ ClientStep
    BY DEF ClientReceives
  <1>2. /\ TypeOK /\ OfferedWereBegun /\ SilentIsUntold /\ TimedOutIsUntold
        /\ StackUpcallIsAlone /\ HeldWasSent /\ NetWasSent /\ UpcallWasSent /\ ToldWasSent
    BY DEF ReportInv
  <1> DEFINE k == m.key
             s == m.status
  <1>3. <<k, s>> \in responses /\ s \in Status /\ s # NoResponse
    BY <1>1, <1>2, TypeFacts DEF NetWasSent
  <1> HIDE DEF k, s
  <1>4. Client!RecvResponse(t, k, s) /\ ClientStep
    BY <1>1 DEF k, s
  <1>5. UNCHANGED <<net, timedOut, begun, told, dropped, nist, offered, responses>>
    BY <1>4 DEF Client!RecvResponse, ClientStep, serverVars
  <1>6. /\ k \in DOMAIN nict
        /\ DOMAIN nict' = DOMAIN nict
        /\ \A j \in DOMAIN nict : j # k => nict'[j] = nict[j]
        /\ nict'[k] = Client!Responded(nict[k], s)
        /\ \A u \in upcalls' : \/ u \in upcalls
                               \/ u = [thread |-> t, key |-> k, status |-> s]
    BY <1>2, <1>3, <1>4, RespondsEffect
  <1>7. /\ nict'[k] \in Client!CSipNonInviteTransaction
        /\ nict'[k].response = s
        /\ nict'[k].resend = nict[k].resend
    BY <1>2, <1>3, <1>6, TypeFacts, RespondedFields
  <1>8. t # Stack /\ k \in Key /\ k \in begun /\ k \notin timedOut
    BY <1>2, <1>6, TypeFacts, NonInviteAssumption DEF TimedOutIsUntold
  <1>9. TypeOK'
    <2>1. upcalls' \subseteq Client!Upcall
      <3>1. [thread |-> t, key |-> k, status |-> s] \in Client!Upcall
        BY <1>3, <1>8 DEF Client!Upcall
      <3>2. upcalls \subseteq Client!Upcall
        BY <1>2 DEF TypeOK, Client!TypeOK
      <3> QED
        BY <1>6, <3>1, <3>2
    <2>2. \A j \in DOMAIN nict' : /\ nict'[j] \in Client!CSipNonInviteTransaction
                                  /\ nict'[j].resend < MAX_ICT_RESEND_COUNT
      BY <1>2, <1>6, <1>7, TypeFacts
    <2> QED
      BY <1>2, <1>5, <1>6, <2>1, <2>2 DEF TypeOK, Client!TypeOK, Server!TypeOK
  <1>10. OfferedWereBegun' /\ HeldWasSent' /\ NetWasSent'
    BY <1>2, <1>5 DEF OfferedWereBegun, HeldWasSent, NetWasSent
  <1>11. SilentIsUntold'
    BY <1>2, <1>3, <1>5, <1>6, <1>7 DEF SilentIsUntold
  <1>12. TimedOutIsUntold'
    BY <1>2, <1>5, <1>6, <1>8 DEF TimedOutIsUntold
  <1>13. StackUpcallIsAlone'
    BY <1>2, <1>5, <1>6, <1>8 DEF StackUpcallIsAlone
  <1>14. UpcallWasSent'
    BY <1>2, <1>3, <1>5, <1>6 DEF UpcallWasSent
  <1>15. ToldWasSent'
    BY <1>2, <1>3, <1>5, <1>6 DEF ToldWasSent
  <1> QED
    BY <1>9, <1>10, <1>11, <1>12, <1>13, <1>14, <1>15 DEF ReportInv

LEMMA TellsReport ==
  ASSUME ReportInv, NEW t \in Thread \cup {Stack}, ClientIsTold(t)
  PROVE  ReportInv'
  <1>1. PICK u \in upcalls : /\ told' = told \cup {<<u.key, u.status>>}
                             /\ upcalls' = upcalls \ {u}
                             /\ UNCHANGED <<nict, net, timedOut, begun, dropped>>
    BY DEF ClientIsTold, Client!Tell
  <1>2. /\ TypeOK /\ OfferedWereBegun /\ SilentIsUntold /\ TimedOutIsUntold
        /\ StackUpcallIsAlone /\ HeldWasSent /\ NetWasSent /\ UpcallWasSent /\ ToldWasSent
    BY DEF ReportInv
  <1>3. UNCHANGED <<nist, offered, responses>>
    BY DEF ClientIsTold, ClientStep, serverVars
  <1>4. /\ u.key \in begun
        /\ u.status \in Status \cup {SIP_REQUEST_TIME_OUT}
        /\ u.key \notin timedOut
        /\ u.key \in DOMAIN nict => nict[u.key].response # NoResponse
    <2>1. u.status \in Status \cup {SIP_REQUEST_TIME_OUT}
      BY <1>2 DEF TypeOK, Client!TypeOK, Client!Upcall, Client!SIP_REQUEST_TIME_OUT,
                  SIP_REQUEST_TIME_OUT
    <2>2. u.key \in begun
      BY UnbegunIsUntold
    <2> QED
      BY <1>2, <2>1, <2>2 DEF SilentIsUntold, TimedOutIsUntold
  <1>5. TypeOK'
    <2>1. told' \subseteq begun \X (Status \cup {Client!SIP_REQUEST_TIME_OUT})
      BY <1>1, <1>2, <1>4 DEF TypeOK, Client!TypeOK, Client!SIP_REQUEST_TIME_OUT,
                              SIP_REQUEST_TIME_OUT
    <2> QED
      BY <1>1, <1>2, <1>3, <2>1 DEF TypeOK, Client!TypeOK, Server!TypeOK
  <1>6. OfferedWereBegun' /\ HeldWasSent' /\ NetWasSent' /\ UpcallWasSent'
    BY <1>1, <1>2, <1>3 DEF OfferedWereBegun, HeldWasSent, NetWasSent, UpcallWasSent
  <1>7. SilentIsUntold'
    BY <1>1, <1>2, <1>4 DEF SilentIsUntold
  <1>8. TimedOutIsUntold'
    BY <1>1, <1>2, <1>4 DEF TimedOutIsUntold
  <1>9. StackUpcallIsAlone'
    BY <1>1, <1>2 DEF StackUpcallIsAlone
  <1>10. ToldWasSent'
    <2>1. \/ <<u.key, u.status>> \in responses
          \/ /\ u.status = SIP_REQUEST_TIME_OUT
             /\ u.key \notin DOMAIN nict \cup timedOut
             /\ \A v \in upcalls' : v.key # u.key
      BY <1>1, <1>2 DEF UpcallWasSent, StackUpcallIsAlone
    <2> QED
      BY <1>1, <1>2, <1>3, <2>1 DEF ToldWasSent
  <1> QED
    BY <1>5, <1>6, <1>7, <1>8, <1>9, <1>10 DEF ReportInv

LEMMA ExecutesReport ==
  ASSUME ReportInv, ClientExecutes
  PROVE  ReportInv'
  <1>1. Client!Execute
    BY DEF ClientExecutes
  <1>2. /\ TypeOK /\ OfferedWereBegun /\ SilentIsUntold /\ TimedOutIsUntold
        /\ StackUpcallIsAlone /\ HeldWasSent /\ NetWasSent /\ UpcallWasSent /\ ToldWasSent
    BY DEF ReportInv
  <1>3. UNCHANGED <<upcalls, begun, told, dropped, nist, offered, responses>>
    BY DEF ClientExecutes, Client!Execute, ClientStep, serverVars
  <1>4. /\ DOMAIN nict' \subseteq DOMAIN nict
        /\ \A k \in DOMAIN nict' :
              /\ nict'[k] \in Client!CSipNonInviteTransaction
              /\ nict'[k].response = nict[k].response
              /\ nict'[k].resend \in 0 .. MAX_ICT_RESEND_COUNT - 1
        /\ timedOut = {}
        /\ \A k \in timedOut' : /\ k \in DOMAIN nict \ DOMAIN nict'
                                /\ nict[k].response = NoResponse
        /\ \A m \in net' : \/ m \in net
                           \/ /\ m = Client!Request("REQUEST", m.key) /\ m.age < MaxDelay
                              /\ m.key \in DOMAIN nict
    BY <1>1, <1>2, ExecutesEffect
  <1>5. TypeOK'
    <2>1. net' \subseteq [method : {"REQUEST", "RESPONSE"}, key : begun',
                          status : Status \cup {NoResponse}, age : 0 .. MaxDelay - 1]
      <3>1. ASSUME NEW k \in DOMAIN nict, Client!Request("REQUEST", k).age < MaxDelay
            PROVE  Client!Request("REQUEST", k) \in [method : {"REQUEST", "RESPONSE"},
                     key : begun', status : Status \cup {NoResponse}, age : 0 .. MaxDelay - 1]
        BY <1>2, <1>3, <3>1, TypeFacts, ListAssumption
        DEF Client!Request, Client!NoResponse, NoResponse
      <3>2. ASSUME NEW m \in net', m \notin net
            PROVE  m \in [method : {"REQUEST", "RESPONSE"}, key : begun',
                          status : Status \cup {NoResponse}, age : 0 .. MaxDelay - 1]
        BY <1>4, <3>1, <3>2
      <3>3. net \subseteq [method : {"REQUEST", "RESPONSE"}, key : begun',
                          status : Status \cup {NoResponse}, age : 0 .. MaxDelay - 1]
        BY <1>2, <1>3, TypeFacts
      <3> QED
        BY <3>2, <3>3
    <2>2. \A j \in DOMAIN nict' : /\ nict'[j] \in Client!CSipNonInviteTransaction
                                  /\ nict'[j].resend < MAX_ICT_RESEND_COUNT
      BY <1>4, ListAssumption
    <2>3. DOMAIN nict' \subseteq begun' /\ timedOut' \subseteq begun'
      BY <1>2, <1>3, <1>4, TypeFacts
    <2> QED
      BY <1>2, <1>3, <2>1, <2>2, <2>3 DEF TypeOK, Client!TypeOK, Server!TypeOK
  <1>6. OfferedWereBegun' /\ HeldWasSent' /\ UpcallWasSent'
    BY <1>2, <1>3 DEF OfferedWereBegun, HeldWasSent, UpcallWasSent
  <1>7. SilentIsUntold'
    BY <1>2, <1>3, <1>4 DEF SilentIsUntold
  <1>8. TimedOutIsUntold'
    BY <1>2, <1>3, <1>4 DEF TimedOutIsUntold, SilentIsUntold
  <1>9. StackUpcallIsAlone'
    BY <1>2, <1>3, <1>4 DEF StackUpcallIsAlone
  <1>10. NetWasSent'
    BY <1>2, <1>3, <1>4 DEF NetWasSent, Client!Request
  <1>11. ToldWasSent'
    BY <1>2, <1>3, <1>4, <1>8 DEF ToldWasSent, TimedOutIsUntold
  <1> QED
    BY <1>5, <1>6, <1>7, <1>8, <1>9, <1>10, <1>11 DEF ReportInv

LEMMA TimesOutReport ==
  ASSUME ReportInv, NEW k \in Key, ClientTimesOut(k)
  PROVE  ReportInv'
  <1> DEFINE new == [thread |-> Stack, key |-> k, status |-> SIP_REQUEST_TIME_OUT]
  <1>1. /\ k \in timedOut /\ timedOut' = timedOut \ {k} /\ upcalls' = upcalls \cup {new}
        /\ UNCHANGED <<nict, net, begun, told, dropped, nist, offered, responses>>
    BY DEF ClientTimesOut, Client!TellTimeout, ClientStep, serverVars,
           Client!SIP_REQUEST_TIME_OUT, SIP_REQUEST_TIME_OUT
  <1>2. new.thread = Stack /\ new.key = k /\ new.status = SIP_REQUEST_TIME_OUT
        /\ new \in Client!Upcall
    BY DEF Client!Upcall, Client!SIP_REQUEST_TIME_OUT, SIP_REQUEST_TIME_OUT
  <1> HIDE DEF new
  <1>3. /\ TypeOK /\ OfferedWereBegun /\ SilentIsUntold /\ TimedOutIsUntold
        /\ StackUpcallIsAlone /\ HeldWasSent /\ NetWasSent /\ UpcallWasSent /\ ToldWasSent
    BY DEF ReportInv
  <1>4. /\ k \in begun /\ k \notin DOMAIN nict
        /\ \A u \in upcalls : u.key # k
        /\ \A s : <<k, s>> \notin told
    BY <1>1, <1>3 DEF TypeOK, Client!TypeOK, TimedOutIsUntold
  <1>5. TypeOK'
    BY <1>1, <1>2, <1>3 DEF TypeOK, Client!TypeOK, Server!TypeOK
  <1>6. OfferedWereBegun' /\ HeldWasSent' /\ NetWasSent'
    BY <1>1, <1>3 DEF OfferedWereBegun, HeldWasSent, NetWasSent
  <1>7. SilentIsUntold'
    BY <1>1, <1>2, <1>3, <1>4 DEF SilentIsUntold
  <1>8. TimedOutIsUntold'
    BY <1>1, <1>2, <1>3 DEF TimedOutIsUntold
  <1>9. StackUpcallIsAlone'
    BY <1>1, <1>2, <1>3, <1>4 DEF StackUpcallIsAlone
  <1>10. UpcallWasSent'
    BY <1>1, <1>2, <1>3 DEF UpcallWasSent
  <1>11. ToldWasSent'
    BY <1>1, <1>2, <1>3, <1>4 DEF ToldWasSent
  <1> QED
    BY <1>5, <1>6, <1>7, <1>8, <1>9, <1>10, <1>11 DEF ReportInv

\* Transactions are deleted, and the rest of the client is left alone but for dropped.
LEMMA DeletesReport ==
  ASSUME ReportInv, ClientDeletesCancel \/ ClientStops
  PROVE  ReportInv'
  <1>1. /\ DOMAIN nict' \subseteq DOMAIN nict
        /\ \A k \in DOMAIN nict' : nict'[k] = nict[k]
        /\ dropped' \subseteq dropped \cup DOMAIN nict
        /\ UNCHANGED <<net, upcalls, timedOut, begun, told, nist, offered, responses>>
    <2>1. CASE ClientDeletesCancel
      <3>1. PICK k \in Key : Client!DeleteCancel(k) /\ ClientStep
        BY <2>1 DEF ClientDeletesCancel
      <3>2. k \in DOMAIN nict /\ dropped' = dropped \cup {k}
            /\ nict' = Client!Erase(nict, {k})
            /\ UNCHANGED <<net, upcalls, timedOut, begun, told, nist, offered, responses>>
        BY <3>1 DEF Client!DeleteCancel, ClientStep, serverVars
      <3> QED
        BY <3>2, ErasesEffect
    <2>2. CASE ClientStops
      BY <2>2 DEF ClientStops, Client!DeleteAll, ClientStep, serverVars, Client!EmptyMap
    <2> QED
      BY <2>1, <2>2
  <1>2. /\ TypeOK /\ OfferedWereBegun /\ SilentIsUntold /\ TimedOutIsUntold
        /\ StackUpcallIsAlone /\ HeldWasSent /\ NetWasSent /\ UpcallWasSent /\ ToldWasSent
    BY DEF ReportInv
  <1>3. TypeOK'
    BY <1>1, <1>2 DEF TypeOK, Client!TypeOK, Server!TypeOK
  <1>4. OfferedWereBegun' /\ HeldWasSent' /\ NetWasSent' /\ UpcallWasSent'
    BY <1>1, <1>2 DEF OfferedWereBegun, HeldWasSent, NetWasSent, UpcallWasSent
  <1>5. SilentIsUntold' /\ TimedOutIsUntold'
    BY <1>1, <1>2 DEF SilentIsUntold, TimedOutIsUntold
  <1>6. StackUpcallIsAlone'
    BY <1>1, <1>2 DEF StackUpcallIsAlone
  <1>7. ToldWasSent'
    BY <1>1, <1>2 DEF ToldWasSent
  <1> QED
    BY <1>3, <1>4, <1>5, <1>6, <1>7 DEF ReportInv
\* The server's steps.
LEMMA ServerReceivesReport ==
  ASSUME ReportInv, ServerReceives
  PROVE  ReportInv'
  <1>1. PICK m \in net : /\ Server!RecvRequest(m.key) \/ Server!RecvRequestAgain(m.key)
                         /\ ServerStep
    BY DEF ServerReceives
  <1>2. /\ TypeOK /\ OfferedWereBegun /\ SilentIsUntold /\ TimedOutIsUntold
        /\ StackUpcallIsAlone /\ HeldWasSent /\ NetWasSent /\ UpcallWasSent /\ ToldWasSent
    BY DEF ReportInv
  <1>3. UNCHANGED <<nict, upcalls, timedOut, begun, told, dropped>>
    BY <1>1 DEF ServerStep, clientVars
  <1> DEFINE k == m.key
  <1>4. k \in begun
    BY <1>2, TypeFacts
  <1> HIDE DEF k
  <1>5. SilentIsUntold' /\ TimedOutIsUntold' /\ StackUpcallIsAlone'
    BY <1>2, <1>3 DEF SilentIsUntold, TimedOutIsUntold, StackUpcallIsAlone
  <1>6. CASE Server!RecvRequest(k)
    <2>1. /\ DOMAIN nist' = DOMAIN nist \cup {k}
          /\ \A j \in DOMAIN nist : nist'[j] = nist[j]
          /\ nist'[k] \in Server!CSipNonInviteTransaction
          /\ nist'[k].response = NoResponse
          /\ offered' = offered \cup {k}
          /\ k \notin DOMAIN nist
      BY <1>6, OffersEffect
    <2>2. UNCHANGED <<net, responses>>
      BY <1>6 DEF Server!RecvRequest
    <2>3. TypeOK'
      BY <1>2, <1>3, <1>4, <2>1, <2>2 DEF TypeOK, Client!TypeOK, Server!TypeOK
    <2>4. OfferedWereBegun'
      BY <1>2, <1>3, <1>4, <2>1 DEF OfferedWereBegun
    <2>5. HeldWasSent'
      BY <1>2, <2>1, <2>2 DEF HeldWasSent
    <2>6. NetWasSent' /\ UpcallWasSent' /\ ToldWasSent'
      BY <1>2, <1>3, <2>2 DEF NetWasSent, UpcallWasSent, ToldWasSent
    <2> QED
      BY <1>5, <2>3, <2>4, <2>5, <2>6 DEF ReportInv
  <1>7. CASE Server!RecvRequestAgain(k)
    <2>1. UNCHANGED <<nist, offered, responses>>
      BY <1>7 DEF Server!RecvRequestAgain
    <2>2. \A d \in net' : \/ d \in net
                          \/ /\ d = Server!Response(k, nist[k].response) /\ d.age < MaxDelay
                             /\ k \in DOMAIN nist /\ nist[k].response # NoResponse
      BY <1>7, RepeatsEffect
    <2>3. TypeOK'
      <3>1. ASSUME k \in DOMAIN nist, Server!Response(k, nist[k].response).age < MaxDelay
            PROVE  Server!Response(k, nist[k].response) \in
                     [method : {"REQUEST", "RESPONSE"}, key : begun',
                      status : Status \cup {NoResponse}, age : 0 .. MaxDelay - 1]
        BY <1>2, <1>3, <1>4, <3>1, TypeFacts, ListAssumption DEF Server!Response
      <3>2. net' \subseteq [method : {"REQUEST", "RESPONSE"}, key : begun',
                            status : Status \cup {NoResponse}, age : 0 .. MaxDelay - 1]
        BY <1>2, <1>3, <2>2, <3>1, TypeFacts
      <3> QED
        BY <1>2, <1>3, <2>1, <3>2 DEF TypeOK, Client!TypeOK, Server!TypeOK
    <2>4. OfferedWereBegun' /\ HeldWasSent' /\ UpcallWasSent' /\ ToldWasSent'
      BY <1>2, <1>3, <2>1 DEF OfferedWereBegun, HeldWasSent, UpcallWasSent, ToldWasSent
    <2>5. NetWasSent'
      BY <1>2, <2>1, <2>2 DEF NetWasSent, HeldWasSent, Server!Response
    <2> QED
      BY <1>5, <2>3, <2>4, <2>5 DEF ReportInv
  <1> QED
    BY <1>1, <1>6, <1>7 DEF k

LEMMA ServerAnswersReport ==
  ASSUME ReportInv, NEW k \in Key, ServerAnswers(k)
  PROVE  ReportInv'
  <1>1. PICK s \in Status : Server!SendResponse(k, s) /\ ServerStep
    BY DEF ServerAnswers
  <1>2. /\ TypeOK /\ OfferedWereBegun /\ SilentIsUntold /\ TimedOutIsUntold
        /\ StackUpcallIsAlone /\ HeldWasSent /\ NetWasSent /\ UpcallWasSent /\ ToldWasSent
    BY DEF ReportInv
  <1>3. UNCHANGED <<nict, upcalls, timedOut, begun, told, dropped, offered>>
    BY <1>1 DEF ServerStep, clientVars, Server!SendResponse
  <1>4. /\ k \in DOMAIN nist
        /\ DOMAIN nist' = DOMAIN nist
        /\ \A j \in DOMAIN nist : j # k => nist'[j] = nist[j]
        /\ nist'[k] = Server!Answered(nist[k], s)
        /\ \A m \in net' : m \in net \/ (m = Server!Response(k, s) /\ m.age < MaxDelay)
        /\ responses' = responses \cup {<<k, s>>}
    BY <1>1, <1>2, AnswersEffect
  <1>5. nist'[k] \in Server!CSipNonInviteTransaction /\ nist'[k].response = s
    BY <1>2, <1>4, AnsweredFields, TypeFacts
  <1>6. TypeOK'
    <2>1. k \in offered /\ k \in begun
      BY <1>2, <1>4, TypeFacts DEF OfferedWereBegun
    <2>2. ASSUME Server!Response(k, s).age < MaxDelay
          PROVE  Server!Response(k, s) \in
                   [method : {"REQUEST", "RESPONSE"}, key : begun',
                    status : Status \cup {NoResponse}, age : 0 .. MaxDelay - 1]
      BY <1>3, <2>1, <2>2, ListAssumption DEF Server!Response
    <2>3. net' \subseteq [method : {"REQUEST", "RESPONSE"}, key : begun',
                          status : Status \cup {NoResponse}, age : 0 .. MaxDelay - 1]
      BY <1>2, <1>3, <1>4, <2>2, TypeFacts
    <2>4. \A j \in DOMAIN nist' : nist'[j] \in Server!CSipNonInviteTransaction
      BY <1>2, <1>4, <1>5, TypeFacts
    <2> QED
      BY <1>2, <1>3, <1>4, <2>1, <2>3, <2>4 DEF TypeOK, Client!TypeOK, Server!TypeOK
  <1>7. OfferedWereBegun' /\ SilentIsUntold' /\ TimedOutIsUntold' /\ StackUpcallIsAlone'
    BY <1>2, <1>3 DEF OfferedWereBegun, SilentIsUntold, TimedOutIsUntold, StackUpcallIsAlone
  <1>8. HeldWasSent'
    BY <1>2, <1>4, <1>5 DEF HeldWasSent
  <1>9. NetWasSent'
    BY <1>2, <1>4 DEF NetWasSent, Server!Response
  <1>10. UpcallWasSent' /\ ToldWasSent'
    BY <1>2, <1>3, <1>4 DEF UpcallWasSent, ToldWasSent
  <1> QED
    BY <1>6, <1>7, <1>8, <1>9, <1>10 DEF ReportInv

LEMMA ServerDeletesReport ==
  ASSUME ReportInv, ServerExecutes \/ ServerStops
  PROVE  ReportInv'
  <1>1. /\ DOMAIN nist' \subseteq DOMAIN nist
        /\ \A k \in DOMAIN nist' : nist'[k] = nist[k]
        /\ UNCHANGED <<nict, upcalls, timedOut, begun, told, dropped, net, offered, responses>>
    <2>1. CASE ServerExecutes
      BY <2>1, ServerExecutesEffect DEF ServerExecutes, ServerStep, clientVars, Server!Execute
    <2>2. CASE ServerStops
      BY <2>2 DEF ServerStops, ServerStep, clientVars, Server!DeleteAll, Server!EmptyMap
    <2> QED
      BY <2>1, <2>2
  <1>2. /\ TypeOK /\ OfferedWereBegun /\ SilentIsUntold /\ TimedOutIsUntold
        /\ StackUpcallIsAlone /\ HeldWasSent /\ NetWasSent /\ UpcallWasSent /\ ToldWasSent
    BY DEF ReportInv
  <1>3. TypeOK'
    BY <1>1, <1>2 DEF TypeOK, Client!TypeOK, Server!TypeOK
  <1>4. OfferedWereBegun' /\ SilentIsUntold' /\ TimedOutIsUntold' /\ StackUpcallIsAlone'
    BY <1>1, <1>2 DEF OfferedWereBegun, SilentIsUntold, TimedOutIsUntold, StackUpcallIsAlone
  <1>5. HeldWasSent' /\ NetWasSent' /\ UpcallWasSent' /\ ToldWasSent'
    BY <1>1, <1>2 DEF HeldWasSent, NetWasSent, UpcallWasSent, ToldWasSent
  <1> QED
    BY <1>3, <1>4, <1>5 DEF ReportInv

LEMMA TicksReport ==
  ASSUME ReportInv, Tick
  PROVE  ReportInv'
  <1>1. /\ TypeOK /\ OfferedWereBegun /\ SilentIsUntold /\ TimedOutIsUntold
        /\ StackUpcallIsAlone /\ HeldWasSent /\ NetWasSent /\ UpcallWasSent /\ ToldWasSent
    BY DEF ReportInv
  <1>2. UNCHANGED <<upcalls, timedOut, begun, told, dropped, offered, responses>>
    BY DEF Tick, Client!Tick, Server!Tick
  <1>3. /\ DOMAIN nict' = DOMAIN nict /\ DOMAIN nist' = DOMAIN nist
        /\ \A k \in DOMAIN nict : /\ nict'[k] \in Client!CSipNonInviteTransaction
                                  /\ nict'[k].response = nict[k].response
                                  /\ nict'[k].resend = nict[k].resend
        /\ \A k \in DOMAIN nist : /\ nist'[k] \in Server!CSipNonInviteTransaction
                                  /\ nist'[k].response = nist[k].response
        /\ \A m \in net' : \E d \in net :
             /\ m = [d EXCEPT !.age = d.age + 1]
             /\ m.method = d.method /\ m.key = d.key /\ m.status = d.status
             /\ m.age = d.age + 1 /\ m.age < MaxDelay
    BY <1>1, TicksEffect
  <1>4. TypeOK'
    <2>1. ASSUME NEW m \in net'
          PROVE  m \in [method : {"REQUEST", "RESPONSE"}, key : begun,
                        status : Status \cup {NoResponse}, age : 0 .. MaxDelay - 1]
      <3>1. PICK d \in net : m = [d EXCEPT !.age = d.age + 1] /\ d.age + 1 < MaxDelay
        BY <1>3
      <3>2. d \in [method : {"REQUEST", "RESPONSE"}, key : begun,
                   status : Status \cup {NoResponse}, age : 0 .. MaxDelay - 1]
        BY <1>1, TypeFacts
      <3>3. d.age + 1 \in 0 .. MaxDelay - 1
        BY <3>1, <3>2, ListAssumption
      <3> QED
        BY <3>1, <3>2, <3>3
    <2> QED
      BY <1>1, <1>2, <1>3, <2>1 DEF TypeOK, Client!TypeOK, Server!TypeOK
  <1>5. OfferedWereBegun' /\ UpcallWasSent' /\ StackUpcallIsAlone'
    BY <1>1, <1>2, <1>3 DEF OfferedWereBegun, UpcallWasSent, StackUpcallIsAlone
  <1>6. SilentIsUntold' /\ TimedOutIsUntold' /\ ToldWasSent'
    BY <1>1, <1>2, <1>3 DEF SilentIsUntold, TimedOutIsUntold, ToldWasSent
  <1>7. HeldWasSent' /\ NetWasSent'
    BY <1>1, <1>2, <1>3 DEF HeldWasSent, NetWasSent
  <1> QED
    BY <1>4, <1>5, <1>6, <1>7 DEF ReportInv

LEMMA InitReport == Init => ReportInv
  <1> SUFFICES ASSUME Init PROVE ReportInv
    OBVIOUS
  <1>1. /\ DOMAIN nict = {} /\ DOMAIN nist = {} /\ net = {} /\ upcalls = {} /\ timedOut = {}
        /\ begun = {} /\ told = {} /\ dropped = {} /\ offered = {} /\ responses = {}
    BY DEF Init, Client!Init, Server!Init, Client!EmptyMap, Server!EmptyMap
  <1>2. TypeOK
    BY <1>1 DEF TypeOK, Client!TypeOK, Server!TypeOK
  <1> QED
    BY <1>1, <1>2 DEF ReportInv, OfferedWereBegun, SilentIsUntold, TimedOutIsUntold,
       StackUpcallIsAlone, HeldWasSent, NetWasSent, UpcallWasSent, ToldWasSent

LEMMA StutterReport ==
  ASSUME ReportInv, UNCHANGED vars
  PROVE  ReportInv'
  BY DEF vars, clientVars, serverVars, ReportInv, TypeOK, Client!TypeOK, Server!TypeOK,
     OfferedWereBegun, SilentIsUntold, TimedOutIsUntold, StackUpcallIsAlone, HeldWasSent,
     NetWasSent, UpcallWasSent, ToldWasSent

LEMMA StepReport ==
  ASSUME ReportInv, [Next]_vars
  PROVE  ReportInv'
  <1>1. CASE Next
    BY <1>1, SendsReport, ReceivesReport, TellsReport, ExecutesReport, TimesOutReport,
       DeletesReport, ServerReceivesReport, ServerAnswersReport, ServerDeletesReport,
       TicksReport DEF Next
  <1>2. CASE UNCHANGED vars
    BY <1>2, StutterReport
  <1> QED
    BY <1>1, <1>2

\* Both lists and the network between them keep their types: in particular a transaction of
\* the client never counts past the end of its retransmission table, and no response is on
\* its way, held or reported for a request that was not sent.
THEOREM TypeCorrect == Spec => []TypeOK
  <1>1. ReportInv => TypeOK
    BY DEF ReportInv
  <1> QED
    BY <1>1, InitReport, StepReport, PTL DEF Spec
-----------------------------------------------------------------------------
\* Time: no copy of a request comes after Timer J.

LEMMA EarlySend ==
  ASSUME Timely, NEW r \in 0 .. MAX_ICT_RESEND_COUNT - 1, r + 1 < MAX_ICT_RESEND_COUNT
  PROVE  ReSendTime[r] <= LastSend
  <1>1. MAX_ICT_RESEND_COUNT # 1 /\ MAX_ICT_RESEND_COUNT - 2 \in 0 .. MAX_ICT_RESEND_COUNT - 1
        /\ r <= MAX_ICT_RESEND_COUNT - 2
    BY ListAssumption
  <1> QED
    BY <1>1 DEF Timely, LastSend

LEMMA Limits ==
  LastSend \in Nat /\ MaxDelay \in Nat /\ TimerJ \in Nat /\ Cap \in Nat
  BY LastSendType, ListAssumption, NonInviteAssumption

\* A request is sent at LastSend the latest.
LEMMA UnexhaustedIsEarly ==
  ASSUME Timely, TypeOK, NotOverdue, NEW k \in DOMAIN nict, nict[k].stop = Off,
         nict[k].resend + 1 < MAX_ICT_RESEND_COUNT
  PROVE  nict[k].start <= LastSend
  <1>1. nict[k].resend \in 0 .. MAX_ICT_RESEND_COUNT - 1 /\ nict[k].start \in 0 .. Cap
    BY TypeFacts
  <1>2. nict[k].start <= ReSendTime[nict[k].resend]
    BY DEF NotOverdue
  <1>3. ReSendTime[nict[k].resend] <= LastSend /\ ReSendTime[nict[k].resend] \in 0 .. Cap
    BY <1>1, EarlySend, TableType
  <1> QED
    BY <1>1, <1>2, <1>3, Limits

LEMMA SendsTime ==
  ASSUME Timely, IInv, ClientSends
  PROVE  TimeInv' /\ OneFinal'
  <1>1. PICK k \in Key : Client!SendRequest(k) /\ ClientStep
    BY DEF ClientSends
  <1>2. /\ ReportInv /\ TypeOK /\ NotOverdue /\ AnsweredAfterBegun /\ RequestIsFresh
        /\ ForgottenIsOver /\ reoffered = {} /\ OneFinal
    BY DEF IInv, TimeInv, ReportInv
  <1>3. UNCHANGED <<nist, offered, responses, reoffered, running>>
    BY <1>1 DEF ClientStep, serverVars
  <1>4. /\ k \notin begun
        /\ DOMAIN nict' = DOMAIN nict \cup {k}
        /\ \A j \in DOMAIN nict : nict'[j] = nict[j]
        /\ nict'[k].start = 0 /\ nict'[k].resend = 0
        /\ \A m \in net' : m \in net \/ m.key = k
    BY <1>1, <1>2, SendsEffect, NewFields DEF Client!Request
  <1>5. k \notin DOMAIN nict \cup offered /\ k \notin DOMAIN nist
    BY <1>2, <1>4, UnbegunIsUntold, TypeFacts
  <1>6. NotOverdue'
    BY <1>2, <1>4, <1>5, TableType, ListAssumption DEF NotOverdue
  <1>7. AnsweredAfterBegun' /\ RequestIsFresh'
    BY <1>2, <1>3, <1>4, <1>5 DEF AnsweredAfterBegun, RequestIsFresh
  <1>8. ForgottenIsOver'
    BY <1>2, <1>3, <1>4, <1>5 DEF ForgottenIsOver
  <1>9. OneFinal'
    BY <1>2, <1>3 DEF OneFinal
  <1> QED
    BY <1>2, <1>3, <1>6, <1>7, <1>8, <1>9 DEF TimeInv

\* Steps of the client that send nothing and leave the ages alone.
LEMMA QuietTime ==
  ASSUME IInv,
         DOMAIN nict' \subseteq DOMAIN nict,
         \A k \in DOMAIN nict' :
           /\ nict'[k].start = nict[k].start
           /\ nict'[k].resend = nict[k].resend
           /\ nict'[k].stop = Off => nict[k].stop = Off,
         UNCHANGED <<net, nist, offered, responses, reoffered, running>>
  PROVE  TimeInv' /\ OneFinal'
  <1>1. /\ NotOverdue /\ AnsweredAfterBegun /\ RequestIsFresh
        /\ ForgottenIsOver /\ reoffered = {} /\ OneFinal
    BY DEF IInv, TimeInv
  <1>2. NotOverdue' /\ AnsweredAfterBegun'
    BY <1>1 DEF NotOverdue, AnsweredAfterBegun
  <1>3. RequestIsFresh' /\ OneFinal'
    BY <1>1 DEF RequestIsFresh, OneFinal
  <1>4. ForgottenIsOver'
    BY <1>1 DEF ForgottenIsOver
  <1> QED
    BY <1>1, <1>2, <1>3, <1>4 DEF TimeInv

LEMMA ReceivesTime ==
  ASSUME IInv, ClientReceives
  PROVE  TimeInv' /\ OneFinal'
  <1>1. PICK t \in Thread, m \in net :
          m.method = "RESPONSE" /\ Client!RecvResponse(t, m.key, m.status) /\ ClientStep
    BY DEF ClientReceives
  <1>2. TypeOK /\ NetWasSent
    BY DEF IInv, ReportInv
  <1>3. m.status \in Status
    BY <1>1, <1>2, TypeFacts DEF NetWasSent
  <1>4. /\ m.key \in DOMAIN nict
        /\ DOMAIN nict' = DOMAIN nict
        /\ \A j \in DOMAIN nict : j # m.key => nict'[j] = nict[j]
        /\ nict'[m.key] = Client!Responded(nict[m.key], m.status)
    BY <1>1, <1>2, <1>3, RespondsEffect
  <1>5. /\ nict'[m.key].start = nict[m.key].start
        /\ nict'[m.key].resend = nict[m.key].resend
        /\ nict'[m.key].stop = Off => nict[m.key].stop = Off
    BY <1>2, <1>3, <1>4, TypeFacts, RespondedFields
  <1>6. UNCHANGED <<net, nist, offered, responses, reoffered, running>>
    BY <1>1 DEF Client!RecvResponse, ClientStep, serverVars
  <1> QED
    BY <1>4, <1>5, <1>6, QuietTime

LEMMA ReportsTime ==
  ASSUME IInv,
         \/ \E t \in Thread \cup {Stack} : ClientIsTold(t)
         \/ \E k \in Key : ClientTimesOut(k)
  PROVE  TimeInv' /\ OneFinal'
  BY QuietTime DEF ClientIsTold, Client!Tell, ClientTimesOut, Client!TellTimeout, ClientStep,
     serverVars

LEMMA DeletesTime ==
  ASSUME IInv, ClientDeletesCancel \/ ClientStops
  PROVE  TimeInv' /\ OneFinal'
  <1>1. CASE ClientDeletesCancel
    <2>1. PICK k \in Key : Client!DeleteCancel(k) /\ ClientStep
      BY <1>1 DEF ClientDeletesCancel
    <2>2. /\ nict' = Client!Erase(nict, {k})
          /\ UNCHANGED <<net, nist, offered, responses, reoffered, running>>
      BY <2>1 DEF Client!DeleteCancel, ClientStep, serverVars
    <2> QED
      BY <2>2, ErasesEffect, QuietTime
  <1>2. CASE ClientStops
    BY <1>2, QuietTime DEF ClientStops, Client!DeleteAll, ClientStep, serverVars, Client!EmptyMap
  <1> QED
    BY <1>1, <1>2

LEMMA ExecutesTime ==
  ASSUME Timely, IInv, ClientExecutes
  PROVE  TimeInv' /\ OneFinal'
  <1>1. /\ ReportInv /\ TypeOK /\ NotOverdue /\ AnsweredAfterBegun /\ RequestIsFresh
        /\ ForgottenIsOver /\ reoffered = {} /\ OneFinal
    BY DEF IInv, TimeInv, ReportInv
  <1>2. UNCHANGED <<nist, offered, responses, reoffered, running>>
    BY DEF ClientExecutes, ClientStep, serverVars
  <1>3. /\ DOMAIN nict' \subseteq DOMAIN nict
        /\ \A k \in DOMAIN nict' :
             /\ nict'[k].start = nict[k].start
             /\ nict'[k].stop = nict[k].stop
             /\ nict'[k].resend \in 0 .. MAX_ICT_RESEND_COUNT - 1
             /\ \/ nict'[k].resend = nict[k].resend
                \/ nict'[k].resend = nict[k].resend + 1
        /\ \A m \in net' : \/ m \in net
                           \/ /\ m = Client!Request("REQUEST", m.key) /\ m.age < MaxDelay
                              /\ m.key \in DOMAIN nict
                              /\ nict[m.key].stop = Off
                              /\ nict[m.key].resend + 1 < MAX_ICT_RESEND_COUNT
    BY <1>1, ExecutesEffect DEF ClientExecutes
  <1>4. NotOverdue'
    <2> SUFFICES ASSUME NEW k \in DOMAIN nict', nict'[k].stop = Off
                 PROVE  nict'[k].start <= ReSendTime[nict'[k].resend]
      BY DEF NotOverdue
    <2>1. /\ nict[k].start <= ReSendTime[nict[k].resend]
          /\ nict[k].start \in 0 .. Cap
          /\ nict[k].resend \in 0 .. MAX_ICT_RESEND_COUNT - 1
      BY <1>1, <1>3, TypeFacts DEF NotOverdue
    <2>2. nict[k].resend <= nict'[k].resend
      BY <1>3, <2>1
    <2>3. ReSendTime[nict[k].resend] <= ReSendTime[nict'[k].resend]
      BY <1>3, <2>1, <2>2 DEF Timely
    <2> QED
      BY <1>3, <2>1, <2>3, TableType, ListAssumption
  <1>5. AnsweredAfterBegun'
    BY <1>1, <1>2, <1>3 DEF AnsweredAfterBegun
  <1>6. ASSUME NEW m \in net', m \notin net
        PROVE  /\ m.age = 0 /\ 0 < MaxDelay
               /\ m.key \in DOMAIN nict /\ nict[m.key].stop = Off
               /\ nict[m.key].start <= LastSend
    BY <1>1, <1>3, <1>6, UnexhaustedIsEarly DEF Client!Request
  <1>7. RequestIsFresh'
    <2> SUFFICES ASSUME NEW m \in net', m.method = "REQUEST", m.key \in DOMAIN nist
                 PROVE  nist[m.key].stop <= LastSend + m.age
      BY <1>2 DEF RequestIsFresh
    <2>1. CASE m \in net
      BY <1>1, <2>1 DEF RequestIsFresh
    <2>2. CASE m \notin net
      <3>1. nist[m.key].stop <= nict[m.key].start /\ nict[m.key].start <= LastSend /\ m.age = 0
        BY <1>1, <1>6, <2>2 DEF AnsweredAfterBegun
      <3>2. nist[m.key].stop \in Age /\ nict[m.key].start \in 0 .. Cap
        BY <1>1, <1>6, <2>2, TypeFacts
      <3> QED
        BY <3>1, <3>2, Limits DEF Age, Off
    <2> QED
      BY <2>1, <2>2
  <1>8. ForgottenIsOver'
    <2> SUFFICES ASSUME running, NEW k \in offered \ DOMAIN nist
                 PROVE  /\ \A m \in net' : m.method = "REQUEST" => m.key # k
                        /\ k \in DOMAIN nict' /\ nict'[k].stop = Off => nict'[k].start >= TimerJ
      BY <1>2 DEF ForgottenIsOver
    <2>1. /\ \A m \in net : m.method = "REQUEST" => m.key # k
          /\ k \in DOMAIN nict /\ nict[k].stop = Off => nict[k].start >= TimerJ
      BY <1>1 DEF ForgottenIsOver
    <2>2. ASSUME NEW m \in net', m \notin net, m.key = k
          PROVE  FALSE
      <3>1. /\ nict[k].start >= TimerJ /\ nict[k].start <= LastSend /\ 0 < MaxDelay
            /\ nict[k].start \in 0 .. Cap
        BY <1>1, <1>6, <2>1, <2>2, TypeFacts
      <3>2. LastSend + MaxDelay <= TimerJ
        BY DEF Timely
      <3> QED
        BY <3>1, <3>2, Limits
    <2> QED
      BY <1>3, <2>1, <2>2
  <1>9. OneFinal'
    BY <1>1, <1>2 DEF OneFinal
  <1> QED
    BY <1>1, <1>2, <1>4, <1>5, <1>7, <1>8, <1>9 DEF TimeInv
LEMMA ServerReceivesTime ==
  ASSUME Timely, IInv, ServerReceives
  PROVE  TimeInv' /\ OneFinal'
  <1>1. /\ ReportInv /\ TypeOK /\ NotOverdue /\ AnsweredAfterBegun /\ RequestIsFresh
        /\ ForgottenIsOver /\ reoffered = {} /\ OneFinal
    BY DEF IInv, TimeInv, ReportInv
  <1>2. PICK m \in net :
          /\ m.method = "REQUEST"
          /\ running
          /\ \/ Server!RecvRequest(m.key) /\ reoffered' = reoffered \cup ({m.key} \cap offered)
             \/ Server!RecvRequestAgain(m.key) /\ UNCHANGED reoffered
          /\ ServerStep
          /\ UNCHANGED running
    BY DEF ServerReceives
  <1>3. UNCHANGED <<nict, begun, running>>
    BY <1>2 DEF ServerStep, clientVars
  <1>4. NotOverdue'
    BY <1>1, <1>3 DEF NotOverdue
  <1>5. CASE Server!RecvRequest(m.key) /\ reoffered' = reoffered \cup ({m.key} \cap offered)
    <2> DEFINE k == m.key
    <2>1. /\ k \notin DOMAIN nist
          /\ DOMAIN nist' = DOMAIN nist \cup {k}
          /\ \A j \in DOMAIN nist : nist'[j] = nist[j]
          /\ nist'[k].stop = Off
          /\ offered' = offered \cup {k}
          /\ UNCHANGED <<net, responses>>
      BY <1>5, OffersEffect DEF Server!RecvRequest
    <2>2. k \notin offered
      BY <1>1, <1>2, <2>1 DEF ForgottenIsOver
    <2>3. reoffered' = {}
      BY <1>1, <1>5, <2>2
    <2> HIDE DEF k
    <2>4. AnsweredAfterBegun'
      <3>1. \A j \in DOMAIN nict : Off <= nict[j].start
        BY <1>1, TypeFacts, ListAssumption DEF Off
      <3> QED
        BY <1>1, <1>3, <2>1, <3>1 DEF AnsweredAfterBegun
    <2>5. RequestIsFresh'
      <3>1. \A d \in net : Off <= LastSend + d.age
        BY <1>1, TypeFacts, Limits DEF Off
      <3> QED
        BY <1>1, <2>1, <3>1 DEF RequestIsFresh
    <2>6. ForgottenIsOver'
      BY <1>1, <1>3, <2>1 DEF ForgottenIsOver
    <2>7. OneFinal'
      <3>1. \A s : <<k, s>> \notin responses
        BY <1>1, <2>2, TypeFacts
      <3> QED
        BY <1>1, <2>1, <3>1 DEF OneFinal
    <2> QED
      BY <1>4, <2>3, <2>4, <2>5, <2>6, <2>7 DEF TimeInv
  <1>6. CASE Server!RecvRequestAgain(m.key) /\ UNCHANGED reoffered
    <2>1. UNCHANGED <<nist, offered, responses, reoffered>>
      BY <1>6 DEF Server!RecvRequestAgain
    <2>2. \A d \in net' : d \in net \/ d.method = "RESPONSE"
      BY <1>6, RepeatsEffect DEF Server!Response
    <2>3. AnsweredAfterBegun' /\ OneFinal'
      BY <1>1, <1>3, <2>1 DEF AnsweredAfterBegun, OneFinal
    <2>4. RequestIsFresh'
      BY <1>1, <2>1, <2>2 DEF RequestIsFresh
    <2>5. ForgottenIsOver'
      BY <1>1, <1>3, <2>1, <2>2 DEF ForgottenIsOver
    <2> QED
      BY <1>1, <1>4, <2>1, <2>3, <2>4, <2>5 DEF TimeInv
  <1> QED
    BY <1>2, <1>5, <1>6

\* The user agent answers a request that it has not answered.
LEMMA UnansweredIsOpen ==
  ASSUME TypeOK, OneFinal, NEW k \in DOMAIN nist, ~ Final(nist[k].response),
         NEW r \in Status, <<k, r>> \in responses
  PROVE  ~ Final(r)
  BY DEF OneFinal

LEMMA ServerAnswersTime ==
  ASSUME Timely, IInv, NEW k \in Key, ServerAnswers(k)
  PROVE  TimeInv' /\ OneFinal'
  <1>1. /\ ReportInv /\ TypeOK /\ NotOverdue /\ AnsweredAfterBegun /\ RequestIsFresh
        /\ ForgottenIsOver /\ reoffered = {} /\ OneFinal
    BY DEF IInv, TimeInv, ReportInv
  <1>2. PICK s \in Status : Server!SendResponse(k, s) /\ ServerStep
                            /\ UNCHANGED <<reoffered, running>>
    BY DEF ServerAnswers
  <1>3. UNCHANGED <<nict, offered, reoffered, running>>
    BY <1>2 DEF ServerStep, clientVars, Server!SendResponse
  <1>4. k \in DOMAIN nist /\ ~ Final(nist[k].response)
    BY DEF ServerAnswers
  <1>5. /\ DOMAIN nist' = DOMAIN nist
        /\ \A j \in DOMAIN nist : j # k => nist'[j] = nist[j]
        /\ nist'[k] = Server!Answered(nist[k], s)
        /\ \A m \in net' : m \in net \/ (m = Server!Response(k, s) /\ m.age < MaxDelay)
        /\ responses' = responses \cup {<<k, s>>}
    BY <1>1, <1>2, AnswersEffect
  <1>6. nist'[k].response = s /\ nist'[k].stop \in {0, nist[k].stop}
    BY <1>1, <1>4, <1>5, AnsweredFields, TypeFacts
  <1>7. NotOverdue'
    BY <1>1, <1>3 DEF NotOverdue
  <1>8. AnsweredAfterBegun'
    <2>1. \A j \in DOMAIN nict : 0 <= nict[j].start
      BY <1>1, TypeFacts, ListAssumption
    <2> QED
      BY <1>1, <1>3, <1>4, <1>5, <1>6, <2>1 DEF AnsweredAfterBegun
  <1>9. \A m \in net' : m \in net \/ m.method = "RESPONSE"
    BY <1>5 DEF Server!Response
  <1>10. RequestIsFresh'
    <2>1. \A d \in net : 0 <= LastSend + d.age
      BY <1>1, TypeFacts, Limits
    <2> QED
      BY <1>1, <1>4, <1>5, <1>6, <1>9, <2>1 DEF RequestIsFresh
  <1>11. ForgottenIsOver'
    BY <1>1, <1>3, <1>5, <1>9 DEF ForgottenIsOver
  <1>12. OneFinal'
    <2>1. \A r \in Status : <<k, r>> \in responses => ~ Final(r)
      BY <1>1, <1>4, UnansweredIsOpen
    <2>2. \A j \in Key, r \in Status :
            <<j, r>> \in responses' => <<j, r>> \in responses \/ (j = k /\ r = s)
      BY <1>5
    <2>3. \A j \in Key, q, r \in Status :
            Final(q) /\ Final(r) /\ <<j, q>> \in responses' /\ <<j, r>> \in responses' => q = r
      BY <1>1, <2>1, <2>2 DEF OneFinal
    <2>4. \A j \in DOMAIN nist', r \in Status :
            Final(r) /\ <<j, r>> \in responses' => nist'[j].response = r
      BY <1>1, <1>4, <1>5, <1>6, <2>1 DEF OneFinal
    <2> QED
      BY <2>3, <2>4 DEF OneFinal
  <1> QED
    BY <1>1, <1>3, <1>7, <1>8, <1>10, <1>11, <1>12 DEF TimeInv

LEMMA ServerExecutesTime ==
  ASSUME Timely, IInv, ServerExecutes
  PROVE  TimeInv' /\ OneFinal'
  <1>1. /\ ReportInv /\ TypeOK /\ NotOverdue /\ AnsweredAfterBegun /\ RequestIsFresh
        /\ ForgottenIsOver /\ reoffered = {} /\ OneFinal
    BY DEF IInv, TimeInv, ReportInv
  <1>2. /\ UNCHANGED <<nict, net, offered, responses, reoffered, running>>
        /\ DOMAIN nist' \subseteq DOMAIN nist
        /\ \A k \in DOMAIN nist' : nist'[k] = nist[k]
        /\ \A k \in DOMAIN nist \ DOMAIN nist' : nist[k].stop # Off /\ nist[k].stop >= TimerJ
    BY ServerExecutesEffect DEF ServerExecutes, ServerStep, clientVars, Server!Execute
  <1>3. NotOverdue' /\ AnsweredAfterBegun' /\ RequestIsFresh' /\ OneFinal'
    BY <1>1, <1>2 DEF NotOverdue, AnsweredAfterBegun, RequestIsFresh, OneFinal
  <1>4. ASSUME NEW k \in DOMAIN nist \ DOMAIN nist'
        PROVE  /\ \A m \in net : m.method = "REQUEST" => m.key # k
               /\ k \in DOMAIN nict => nict[k].start >= TimerJ
    <2>1. nist[k].stop >= TimerJ /\ nist[k].stop \in Age
      BY <1>1, <1>2, TypeFacts
    <2>2. ASSUME NEW m \in net, m.method = "REQUEST", m.key = k
          PROVE  FALSE
      <3>1. nist[k].stop <= LastSend + m.age /\ m.age \in Nat /\ m.age < MaxDelay
        BY <1>1, <2>2, TypeFacts DEF RequestIsFresh
      <3>2. LastSend + MaxDelay <= TimerJ
        BY DEF Timely
      <3> QED
        BY <2>1, <3>1, <3>2, Limits DEF Age, Off
    <2>3. ASSUME k \in DOMAIN nict
          PROVE  nict[k].start >= TimerJ
      <3>1. nist[k].stop <= nict[k].start /\ nict[k].start \in 0 .. Cap
        BY <1>1, <2>3, TypeFacts DEF AnsweredAfterBegun
      <3> QED
        BY <2>1, <3>1, Limits DEF Age, Off
    <2> QED
      BY <2>2, <2>3
  <1>5. ForgottenIsOver'
    BY <1>1, <1>2, <1>4 DEF ForgottenIsOver
  <1> QED
    BY <1>1, <1>2, <1>3, <1>5 DEF TimeInv

LEMMA ServerStopsTime ==
  ASSUME IInv, ServerStops
  PROVE  TimeInv' /\ OneFinal'
  <1>1. /\ NotOverdue /\ AnsweredAfterBegun /\ RequestIsFresh
        /\ reoffered = {} /\ OneFinal
    BY DEF IInv, TimeInv
  <1>2. /\ UNCHANGED <<nict, net, offered, responses, reoffered>>
        /\ DOMAIN nist' = {} /\ running' = FALSE
    BY DEF ServerStops, Server!DeleteAll, Server!EmptyMap, ServerStep, clientVars
  <1> QED
    BY <1>1, <1>2 DEF TimeInv, NotOverdue, AnsweredAfterBegun, RequestIsFresh, OneFinal,
       ForgottenIsOver

LEMMA TicksTime ==
  ASSUME Timely, IInv, Tick
  PROVE  TimeInv' /\ OneFinal'
  <1>1. /\ TypeOK /\ NotOverdue /\ AnsweredAfterBegun /\ RequestIsFresh
        /\ ForgottenIsOver /\ reoffered = {} /\ OneFinal
    BY DEF IInv, TimeInv, ReportInv
  <1>2. UNCHANGED <<offered, responses, reoffered, running>>
    BY DEF Tick, Server!Tick
  <1>3. /\ DOMAIN nict' = DOMAIN nict /\ DOMAIN nist' = DOMAIN nist
        /\ \A k \in DOMAIN nict :
             /\ nict'[k].resend = nict[k].resend
             /\ nict'[k].start = Client!Older(nict[k].start)
             /\ nict'[k].stop = Client!Older(nict[k].stop)
             /\ nict[k].stop = Off => nict[k].start < ReSendTime[nict[k].resend]
        /\ \A k \in DOMAIN nist :
             /\ nist'[k].response = nist[k].response
             /\ nist'[k].stop = Client!Older(nist[k].stop)
        /\ \A m \in net' : \E d \in net :
             /\ m.method = d.method /\ m.key = d.key
             /\ m.age = d.age + 1
    BY <1>1, TicksEffect
  <1>4. \A k \in DOMAIN nict : /\ nict[k].start \in 0 .. Cap /\ nict[k].stop \in Age
                               /\ nict[k].resend \in 0 .. MAX_ICT_RESEND_COUNT - 1
    BY <1>1, TypeFacts
  <1>5. \A k \in DOMAIN nist : nist[k].stop \in Age
    BY <1>1, TypeFacts
  <1>6. NotOverdue'
    <2> SUFFICES ASSUME NEW k \in DOMAIN nict, nict'[k].stop = Off
                 PROVE  nict'[k].start <= ReSendTime[nict'[k].resend]
      BY <1>3 DEF NotOverdue
    <2>1. nict[k].stop = Off
      BY <1>3, <1>4, OlderAges
    <2>2. /\ nict[k].start < ReSendTime[nict[k].resend]
          /\ ReSendTime[nict[k].resend] \in 0 .. Cap
          /\ nict'[k].start <= nict[k].start + 1
          /\ nict'[k].start \in 0 .. Cap
      BY <1>3, <1>4, <2>1, TableType, OlderAges
    <2> QED
      BY <1>3, <1>4, <2>2, Limits
  <1>7. AnsweredAfterBegun'
    BY <1>1, <1>3, <1>4, <1>5, OlderAges DEF AnsweredAfterBegun
  <1>8. RequestIsFresh'
    <2> SUFFICES ASSUME NEW m \in net', m.method = "REQUEST", m.key \in DOMAIN nist
                 PROVE  nist'[m.key].stop <= LastSend + m.age
      BY <1>3 DEF RequestIsFresh
    <2>1. PICK d \in net : m.method = d.method /\ m.key = d.key /\ m.age = d.age + 1
      BY <1>3
    <2>2. nist[d.key].stop <= LastSend + d.age /\ d.age \in Nat
      BY <1>1, <2>1, TypeFacts DEF RequestIsFresh
    <2>3. nist'[m.key].stop <= nist[m.key].stop + 1 /\ nist'[m.key].stop \in Age
      BY <1>3, <1>5, OlderAges
    <2> QED
      BY <1>5, <2>1, <2>2, <2>3, Limits DEF Age, Off
  <1>9. ForgottenIsOver'
    <2> SUFFICES ASSUME running, NEW k \in offered \ DOMAIN nist
                 PROVE  /\ \A m \in net' : m.method = "REQUEST" => m.key # k
                        /\ k \in DOMAIN nict /\ nict'[k].stop = Off => nict'[k].start >= TimerJ
      BY <1>2, <1>3 DEF ForgottenIsOver
    <2>1. /\ \A m \in net : m.method = "REQUEST" => m.key # k
          /\ k \in DOMAIN nict /\ nict[k].stop = Off => nict[k].start >= TimerJ
      BY <1>1 DEF ForgottenIsOver
    <2>2. \A m \in net' : m.method = "REQUEST" => m.key # k
      BY <1>3, <2>1
    <2>3. ASSUME k \in DOMAIN nict, nict'[k].stop = Off
          PROVE  nict'[k].start >= TimerJ
      <3>1. nict[k].stop = Off
        BY <1>3, <1>4, <2>3, OlderAges
      <3>2. /\ nict[k].start >= TimerJ /\ nict[k].start \in 0 .. Cap
            /\ nict'[k].start >= nict[k].start /\ nict'[k].start \in 0 .. Cap
        BY <1>3, <1>4, <2>1, <2>3, <3>1, OlderAges
      <3> QED
        BY <3>2, Limits
    <2> QED
      BY <2>2, <2>3
  <1>10. OneFinal'
    BY <1>1, <1>2, <1>3 DEF OneFinal
  <1> QED
    BY <1>1, <1>2, <1>6, <1>7, <1>8, <1>9, <1>10 DEF TimeInv

LEMMA InitInv == Init => IInv
  <1> SUFFICES ASSUME Init PROVE IInv
    OBVIOUS
  <1>1. /\ DOMAIN nict = {} /\ DOMAIN nist = {} /\ net = {}
        /\ offered = {} /\ responses = {} /\ reoffered = {}
    BY DEF Init, Client!Init, Server!Init, Client!EmptyMap, Server!EmptyMap
  <1> QED
    BY <1>1, InitReport DEF IInv, TimeInv, NotOverdue, AnsweredAfterBegun, RequestIsFresh,
       ForgottenIsOver, OneFinal

LEMMA StepInv ==
  ASSUME Timely, IInv, [Next]_vars
  PROVE  IInv'
  <1>1. ReportInv'
    BY StepReport DEF IInv
  <1>2. CASE Next
    BY <1>1, <1>2, SendsTime, ReceivesTime, ReportsTime, DeletesTime, ExecutesTime,
       ServerReceivesTime, ServerAnswersTime, ServerExecutesTime, ServerStopsTime, TicksTime
    DEF Next, IInv
  <1>3. CASE UNCHANGED vars
    BY <1>1, <1>3, QuietTime DEF IInv, vars, clientVars, serverVars
  <1> QED
    BY <1>2, <1>3
-----------------------------------------------------------------------------
\* The refinement of NonInviteContract.

LEMMA Statuses ==
  /\ Client!SIP_REQUEST_TIME_OUT = SIP_REQUEST_TIME_OUT
  /\ Final(SIP_REQUEST_TIME_OUT)
  /\ \A s : Client!Final(s) <=> Final(s)
  BY DEF Client!SIP_REQUEST_TIME_OUT, SIP_REQUEST_TIME_OUT, Client!Final, Final,
         Client!SIP_OK, SIP_OK

LEMMA ContractUnchanged ==
  ASSUME UNCHANGED <<begun, told, offered, responses, reoffered>>
  PROVE  UNCHANGED Contract!vars
  BY DEF Contract!vars, contractClient, contractServer, Client!ToldFinal

\* What an upcall may tell: the final response of the server's user agent, if nothing else
\* final was told, or the 408 of Execute, if nothing was told at all.
LEMMA FinalIsNews ==
  ASSUME IInv, NEW u \in upcalls, NEW s \in Status \cup {SIP_REQUEST_TIME_OUT},
         Final(u.status), Final(s), <<u.key, s>> \in told
  PROVE  s = u.status
  <1>1. /\ TypeOK /\ UpcallWasSent /\ ToldWasSent /\ StackUpcallIsAlone /\ OneFinal
    BY DEF IInv, ReportInv
  <1>2. u.thread # Stack
    BY <1>1 DEF StackUpcallIsAlone
  <1>3. <<u.key, u.status>> \in responses
    BY <1>1, <1>2 DEF UpcallWasSent
  <1>4. u.key \in Key
    BY <1>1 DEF TypeOK, Client!TypeOK, Client!Upcall
  <1>5. <<u.key, s>> \in responses
    BY <1>1, <1>4 DEF ToldWasSent
  <1>6. s \in Status /\ u.status \in Status
    BY <1>1, <1>3, <1>5, TypeFacts
  <1> QED
    BY <1>1, <1>3, <1>4, <1>5, <1>6 DEF OneFinal

LEMMA SendsRefines ==
  ASSUME IInv, ClientSends
  PROVE  \E k \in Key : Contract!Ask(k)
  <1>1. PICK k \in Key : Client!SendRequest(k) /\ ClientStep
    BY DEF ClientSends
  <1>2. ReportInv /\ k \notin begun /\ begun' = begun \cup {k}
    BY <1>1 DEF IInv, Client!SendRequest
  <1>3. UNCHANGED <<told, offered, responses, reoffered>>
    BY <1>1 DEF Client!SendRequest, ClientStep, serverVars
  <1>4. \A s : <<k, s>> \notin told
    BY <1>2, UnbegunIsUntold
  <1>5. contractClient[k] = "idle" /\ UNCHANGED contractServer
    BY <1>2, <1>3 DEF contractClient, contractServer
  <1>6. contractClient' = [contractClient EXCEPT ![k] = "waiting"]
    BY <1>2, <1>3, <1>4 DEF contractClient, Client!ToldFinal
  <1> QED
    BY <1>5, <1>6 DEF Contract!Ask

LEMMA TellsRefines ==
  ASSUME IInv, NEW t \in Thread \cup {Stack}, ClientIsTold(t)
  PROVE  (\E k \in Key : Contract!Learn(k) \/ Contract!Fail(k)) \/ UNCHANGED Contract!vars
  <1>1. PICK u \in upcalls : told' = told \cup {<<u.key, u.status>>}
    BY DEF ClientIsTold, Client!Tell
  <1>2. UNCHANGED <<begun, offered, responses, reoffered>>
    BY DEF ClientIsTold, Client!Tell, ClientStep, serverVars
  <1> DEFINE k == u.key
             s == u.status
  <1>3. /\ k \in Key /\ k \in begun /\ s \in Status \cup {SIP_REQUEST_TIME_OUT}
        /\ told' = told \cup {<<k, s>>}
        /\ \A r \in Status \cup {SIP_REQUEST_TIME_OUT} :
             Final(s) /\ Final(r) /\ <<k, r>> \in told => r = s
    <2>1. u \in Client!Upcall
      BY DEF IInv, ReportInv, TypeOK, Client!TypeOK
    <2>2. k \in begun
      BY UnbegunIsUntold DEF IInv
    <2> QED
      BY <1>1, <2>1, <2>2, FinalIsNews, Statuses DEF Client!Upcall
  <1>4. s # SIP_REQUEST_TIME_OUT => <<k, s>> \in responses /\ s \in Status
    BY <1>1, <1>3 DEF IInv, ReportInv, UpcallWasSent, StackUpcallIsAlone
  <1>5. k \in offered \/ s = SIP_REQUEST_TIME_OUT
    BY <1>4, TypeFacts DEF IInv, ReportInv
  <1>6. reoffered = {} /\ UNCHANGED contractServer
    BY <1>2 DEF IInv, TimeInv, contractServer
  <1> HIDE DEF k, s
  <1>7. \A j \in Key \ {k} : contractClient'[j] = contractClient[j]
    BY <1>2, <1>3 DEF contractClient, Client!ToldFinal
  <1>8. /\ contractClient = [j \in Key |-> contractClient[j]]
        /\ contractClient' = [j \in Key |-> contractClient'[j]]
    BY DEF contractClient
  <1>9. CASE ~ Final(s) \/ <<k, s>> \in told
    <2>1. /\ Client!ToldFinal(k)' <=> Client!ToldFinal(k)
          /\ <<k, SIP_REQUEST_TIME_OUT>> \in told' <=> <<k, SIP_REQUEST_TIME_OUT>> \in told
      BY <1>3, <1>9, Statuses DEF Client!ToldFinal
    <2>2. contractClient'[k] = contractClient[k]
      BY <1>2, <1>3, <2>1 DEF contractClient
    <2>3. contractClient' = contractClient
      BY <1>7, <1>8, <2>2
    <2> QED
      BY <1>6, <2>3 DEF Contract!vars
  <1>10. CASE Final(s) /\ <<k, s>> \notin told
    <2>1. ~ Client!ToldFinal(k) /\ <<k, SIP_REQUEST_TIME_OUT>> \notin told
      BY <1>3, <1>10, Statuses DEF Client!ToldFinal
    <2>2. contractClient[k] = "waiting"
      BY <1>3, <2>1 DEF contractClient
    <2>3. CASE s = SIP_REQUEST_TIME_OUT
      <3>1. contractClient'[k] = "failed"
        BY <1>2, <1>3, <2>3 DEF contractClient
      <3>2. contractClient' = [contractClient EXCEPT ![k] = "failed"]
        BY <1>3, <1>7, <1>8, <3>1
      <3> QED
        BY <1>3, <1>6, <2>2, <3>2 DEF Contract!Fail
    <2>4. CASE s # SIP_REQUEST_TIME_OUT
      <3>1. contractClient'[k] = "answered"
        <4>1. <<k, SIP_REQUEST_TIME_OUT>> \notin told'
          BY <1>3, <2>1, <2>4
        <4>2. Client!ToldFinal(k)'
          BY <1>3, <1>10, Statuses DEF Client!ToldFinal
        <4> QED
          BY <1>2, <1>3, <4>1, <4>2 DEF contractClient
      <3>2. contractClient' = [contractClient EXCEPT ![k] = "answered"]
        BY <1>3, <1>7, <1>8, <3>1
      <3>3. contractServer[k] = "done"
        BY <1>3, <1>4, <1>5, <1>6, <1>10, <2>4 DEF contractServer
      <3> QED
        BY <1>3, <1>6, <2>2, <3>2, <3>3 DEF Contract!Learn
    <2> QED
      BY <2>3, <2>4
  <1> QED
    BY <1>9, <1>10

LEMMA ServerReceivesRefines ==
  ASSUME IInv, IInv', ServerReceives
  PROVE  (\E k \in Key : Contract!Work(k)) \/ UNCHANGED Contract!vars
  <1>1. PICK m \in net :
          /\ m.method = "REQUEST"
          /\ running
          /\ \/ Server!RecvRequest(m.key)
             \/ Server!RecvRequestAgain(m.key)
          /\ ServerStep
    BY DEF ServerReceives
  <1> DEFINE k == m.key
  <1>2. /\ TypeOK /\ k \in begun /\ k \in Key
        /\ reoffered = {} /\ reoffered' = {} /\ UNCHANGED <<begun, told>>
    BY <1>1, TypeFacts DEF IInv, TimeInv, ReportInv, ServerStep, clientVars
  <1>3. CASE Server!RecvRequest(k)
    <2>1. k \notin DOMAIN nist /\ offered' = offered \cup {k} /\ UNCHANGED responses
      BY <1>3 DEF Server!RecvRequest
    <2>2. k \notin offered
      BY <1>1, <2>1 DEF IInv, TimeInv, ForgottenIsOver
    <2>3. \A s : <<k, s>> \notin responses
      BY <1>2, <2>2, TypeFacts
    <2>4. UNCHANGED contractClient /\ contractClient[k] # "idle"
      BY <1>2 DEF contractClient, Client!ToldFinal
    <2>5. contractServer[k] = "idle"
      BY <1>2, <2>2 DEF contractServer
    <2>6. contractServer' = [contractServer EXCEPT ![k] = "working"]
      BY <1>2, <2>1, <2>3 DEF contractServer
    <2> QED
      BY <1>2, <2>4, <2>5, <2>6 DEF Contract!Work
  <1>4. CASE Server!RecvRequestAgain(k)
    BY <1>2, <1>4, ContractUnchanged DEF Server!RecvRequestAgain
  <1> QED
    BY <1>1, <1>3, <1>4

LEMMA ServerAnswersRefines ==
  ASSUME IInv, NEW k \in Key, ServerAnswers(k)
  PROVE  Contract!Answer(k) \/ UNCHANGED Contract!vars
  <1>1. PICK s \in Status : Server!SendResponse(k, s)
    BY DEF ServerAnswers
  <1>2. /\ k \in DOMAIN nist /\ ~ Final(nist[k].response)
        /\ responses' = responses \cup {<<k, s>>}
        /\ UNCHANGED <<begun, told, offered, reoffered>>
    BY <1>1 DEF ServerAnswers, ServerStep, clientVars, Server!SendResponse
  <1>3. TypeOK /\ OneFinal /\ reoffered = {} /\ k \in offered
    BY <1>2, TypeFacts DEF IInv, TimeInv, ReportInv
  <1>4. \A r \in Status : Final(r) => <<k, r>> \notin responses
    BY <1>2, <1>3, UnansweredIsOpen
  <1>5. UNCHANGED contractClient
    BY <1>2 DEF contractClient, Client!ToldFinal
  <1>6. \A j \in Key \ {k} : contractServer'[j] = contractServer[j]
    BY <1>2, <1>3 DEF contractServer
  <1>7. contractServer[k] = "working"
    BY <1>3, <1>4 DEF contractServer
  <1>8. /\ contractServer = [j \in Key |-> contractServer[j]]
        /\ contractServer' = [j \in Key |-> contractServer'[j]]
    BY DEF contractServer
  <1>9. CASE Final(s)
    <2>1. contractServer'[k] = "done"
      BY <1>2, <1>3, <1>9 DEF contractServer
    <2>2. contractServer' = [contractServer EXCEPT ![k] = "done"]
      BY <1>6, <1>8, <2>1
    <2> QED
      BY <1>5, <1>7, <2>2 DEF Contract!Answer
  <1>10. CASE ~ Final(s)
    <2>1. contractServer'[k] = "working"
      BY <1>2, <1>3, <1>4, <1>10 DEF contractServer
    <2>2. contractServer' = contractServer
      BY <1>6, <1>7, <1>8, <2>1
    <2> QED
      BY <1>5, <2>2 DEF Contract!vars
  <1> QED
    BY <1>9, <1>10

LEMMA StepRefines ==
  ASSUME IInv, IInv', [Next]_vars
  PROVE  [Contract!Next]_(Contract!vars)
  <1>1. CASE ClientSends
    BY <1>1, SendsRefines DEF Contract!Next
  <1>2. ASSUME NEW t \in Thread \cup {Stack}, ClientIsTold(t)
        PROVE  [Contract!Next]_(Contract!vars)
    BY <1>2, TellsRefines DEF Contract!Next
  <1>3. CASE ServerReceives
    BY <1>3, ServerReceivesRefines DEF Contract!Next
  <1>4. ASSUME NEW k \in Key, ServerAnswers(k)
        PROVE  [Contract!Next]_(Contract!vars)
    BY <1>4, ServerAnswersRefines DEF Contract!Next
  <1>5. CASE ClientReceives \/ ClientDeletesCancel \/ ClientExecutes \/ ClientStops
    BY <1>5, ContractUnchanged DEF ClientReceives, ClientDeletesCancel, ClientExecutes,
       ClientStops, ClientStep, serverVars, Client!RecvResponse, Client!DeleteCancel,
       Client!Execute, Client!DeleteAll
  <1>6. ASSUME NEW k \in Key, ClientTimesOut(k)
        PROVE  [Contract!Next]_(Contract!vars)
    BY <1>6, ContractUnchanged DEF ClientTimesOut, ClientStep, serverVars, Client!TellTimeout
  <1>7. CASE ServerExecutes \/ ServerStops
    <2>1. reoffered = {} /\ reoffered' = {}
      BY DEF IInv, TimeInv
    <2> QED
      BY <1>7, <2>1, ContractUnchanged DEF ServerExecutes, ServerStops, ServerStep, clientVars,
         Server!Execute, Server!DeleteAll
  <1>8. CASE Tick
    BY <1>8, ContractUnchanged DEF Tick, Client!Tick, Server!Tick
  <1>9. CASE UNCHANGED vars
    BY <1>9, ContractUnchanged DEF vars, clientVars, serverVars
  <1> QED
    BY <1>1, <1>2, <1>3, <1>4, <1>5, <1>6, <1>7, <1>8, <1>9 DEF Next

LEMMA InitRefines == Init => Contract!Init
  <1> SUFFICES ASSUME Init PROVE Contract!Init
    OBVIOUS
  <1>1. begun = {} /\ offered = {}
    BY DEF Init, Client!Init, Server!Init
  <1> QED
    BY <1>1 DEF Contract!Init, contractClient, contractServer

\* Over a network that loses every datagram that is older than Timer J allows, the two lists
\* implement NonInviteContract: the server's user agent is called at most once for a request
\* however often its datagrams are repeated, the client's user agent learns the answer that
\* was given or a 408, and never the one after the other.
THEOREM ContractKept ==
  ASSUME Timely
  PROVE  Spec => KeepsContract
  <1>1. Spec => []IInv
    BY InitInv, StepInv, PTL DEF Spec
  <1> QED
    BY <1>1, InitRefines, StepRefines, PTL DEF Spec, KeepsContract, Contract!Spec
=============================================================================
