----------------------- MODULE InviteTransactionProofs -----------------------
(***************************************************************************)
(* Theorems about InviteTransaction, for every set of INVITEs and calls    *)
(* and every value of the retransmission table and of the timers: the two  *)
(* lists implement InviteContract over any network that delivers no        *)
(* datagram later than the time a stopped server transaction stays.        *)
(***************************************************************************)
EXTENDS InviteTransaction, FiniteSetTheorems, TLAPS

\* The INVITEs of a call have CSeq numbers of their own: CSipDialog counts them.
Numbered ==
  \A j, k \in Key : CallOf[j] = CallOf[k] /\ CSeqOf[j] = CSeqOf[k] => j = k

\* The table is sorted, and no datagram is on its way longer than a stopped server
\* transaction stays, 5 seconds in the code.
Timely ==
  /\ \A i, j \in 0 .. MAX_ICT_RESEND_COUNT - 1 : i <= j => ReSendTime[i] <= ReSendTime[j]
  /\ MaxDelay <= StopTime
  /\ 0 < StopTime

\* Datagrams are delivered, and before the last retransmission: by then an INVITE and the
\* response to it, each on its way for less than MaxDelay ticks, have arrived.
\* In the code that retransmission is due after 31.5 s (SipTransactionList.cpp:22), and two
\* datagrams of at most StopTime take 10 s.
Prompt ==
  /\ 0 < MaxDelay /\ 2 <= MAX_ICT_RESEND_COUNT
  /\ 2 * MaxDelay - 1 <= ReSendTime[MAX_ICT_RESEND_COUNT - 2]

LastTime == ReSendTime[MAX_ICT_RESEND_COUNT - 1]
-----------------------------------------------------------------------------
\* Types, and what belongs to INVITEs that were sent.
CallerTypes ==
  /\ DOMAIN ict \subseteq begun /\ begun \subseteq Key /\ IsFiniteSet(begun)
  /\ \A k \in DOMAIN ict :
       ict[k] \in CSipInviteTransaction /\ ict[k].resend < MAX_ICT_RESEND_COUNT
  /\ upcalls \subseteq [thread : Thread \cup {Stack}, key : begun, via : begun,
                         status : (Status \cup {SIP_REQUEST_TIME_OUT}) \ {SIP_CONNECT_ERROR},
                         phase : {"tell", "ack"}]
  /\ timedOut \subseteq begun
  /\ told \subseteq begun \X (Status \cup {SIP_REQUEST_TIME_OUT})
  /\ \A c \in DOMAIN latest : latest[c] \in begun /\ CallOf[latest[c]] = c
  /\ stopped = {}

CalleeTypes ==
  /\ DOMAIN ist \subseteq offered /\ offered \subseteq begun
  /\ \A k \in DOMAIN ist :
       /\ ist[k] \in CSipInviteTransaction
       /\ ist[k].response \in Status
       /\ ist[k].stop = Off => ist[k].resend < MAX_ICT_RESEND_COUNT

NetTypes ==
  \A m \in net :
    /\ m \in [method : {"INVITE", "ACK", "RESPONSE"}, key : begun,
              status : Status \cup {NoResponse}, age : 0 .. MaxDelay]
    /\ m.age < MaxDelay
    /\ m.method = "RESPONSE" => m.status \in Status

Types == CallerTypes /\ CalleeTypes /\ NetTypes

\* A transaction without a response has told nothing, and one that timed out is gone.
SilentIsUntold ==
  \A k \in DOMAIN ict :
    /\ ict[k].response = ict[k].status
    /\ ict[k].status = NoResponse =>
         /\ \A u \in upcalls : u.key # k
         /\ \A x \in told : x[1] # k

TimedOutAreGone == \A k \in timedOut : k \notin DOMAIN ict

BasicInv == Types /\ SilentIsUntold /\ TimedOutAreGone
-----------------------------------------------------------------------------
\* An INVITE has one final answer, and whatever final response is held, on its way, called
\* back or told is that answer, or a 408.
OneAnswer ==
  /\ answered \subseteq offered \X Status
  /\ \A k \in Key, r, s \in Status :
       <<k, r>> \in answered => Final(r) /\ (<<k, s>> \in answered => r = s)

HeldWasAnswered ==
  \A k \in DOMAIN ist : Final(ist[k].response) => <<k, ist[k].response>> \in answered

SentWasAnswered ==
  \A m \in net : m.method = "RESPONSE" /\ Final(m.status) => <<m.key, m.status>> \in answered

UpcallWasAnswered ==
  \A u \in upcalls : Final(u.status) =>
    u.status = SIP_REQUEST_TIME_OUT \/ <<u.key, u.status>> \in answered

ToldWasAnswered ==
  \A k \in Key, s \in Status : Final(s) /\ <<k, s>> \in told =>
    s = SIP_REQUEST_TIME_OUT \/ <<k, s>> \in answered

AnswerInv ==
  OneAnswer /\ HeldWasAnswered /\ SentWasAnswered /\ UpcallWasAnswered /\ ToldWasAnswered
-----------------------------------------------------------------------------
\* The discipline of the caller's user agent: a call has one INVITE that is not over, the
\* dialog holds it, and its ACK carries its own branch.  Once a response overtook another
\* one there is one INVITE altogether.
Unstopped(k) == k \in DOMAIN ict /\ ict[k].stop = Off
Live(k) == Caller!Open(k) \/ Unstopped(k)

AloneIfOvertaken == overtaken => \A j, k \in begun : j = k

OneLive == \A j, k \in begun : CallOf[j] = CallOf[k] /\ Live(j) /\ Live(k) => j = k

LatestIsLive ==
  \A k \in begun : Live(k) /\ CallOf[k] \in DOMAIN latest => latest[CallOf[k]] = k

AckIsOwn == \A u \in upcalls : u.phase = "ack" => u.via = u.key

\* The final response the user agent was told of, or is being told of, is held, and after
\* it the ACK is on its way, unless the dialog is gone.
FinalIsHeld ==
  \A k \in DOMAIN ict, s \in Status \cup {SIP_REQUEST_TIME_OUT} :
    Final(s) /\ (<<k, s>> \in told \/ \E u \in upcalls : u.key = k /\ u.status = s) =>
      ict[k].status = s

AckIsPending ==
  \A k \in DOMAIN ict :
    ict[k].stop = Off /\ Caller!ToldFinal(k) =>
      \/ \E u \in upcalls : u.key = k /\ u.phase = "ack"
      \/ CallOf[k] \notin DOMAIN latest

\* Whatever ACK there is follows a final response.
AckIsOfTold ==
  /\ \A u \in upcalls : u.phase = "ack" => Caller!ToldFinal(u.key)
  /\ \A k \in DOMAIN ict : ict[k].ack => Caller!ToldFinal(k)
  /\ \A m \in net : m.method = "ACK" => Caller!ToldFinal(m.key)
  /\ \A k \in DOMAIN ist : ist[k].ack => Caller!ToldFinal(k)

DisciplineInv ==
  /\ AloneIfOvertaken
  /\ OneLive /\ LatestIsLive /\ AckIsOwn
  /\ ~ overtaken => FinalIsHeld /\ AckIsPending
  /\ AckIsOfTold
-----------------------------------------------------------------------------
\* Time.  What the caller holds is not overdue and not younger than what the callee holds.
Waits(k) == Unstopped(k) /\ ict[k].status = NoResponse

NotOverdue == \A k \in DOMAIN ict : Waits(k) => ict[k].start <= ReSendTime[ict[k].resend]

NotOlder == \A k \in DOMAIN ict \cap DOMAIN ist : ist[k].start <= ict[k].start

\* A callee that stopped before the caller heard of it has just given up; the caller is due.
StoppedIsDue ==
  \A k \in DOMAIN ist :
    ist[k].stop # Off /\ Waits(k) => ist[k].stop = 0 /\ ict[k].start >= LastTime

\* A copy of an INVITE that is on its way was sent before its transaction stopped.
InviteIsFresh ==
  \A m \in net : m.method = "INVITE" /\ m.key \in DOMAIN ist => ist[m.key].stop <= m.age

\* When the callee has forgotten an INVITE, other than by the ACK of a 401, no copy of it is
\* left, and none will be sent.
ForgottenIsOver ==
  \A k \in offered \ DOMAIN ist : <<k, SIP_UNAUTHORIZED>> \notin answered =>
    /\ \A m \in net : m.method = "INVITE" => m.key # k
    /\ ~ Waits(k)

ReofferedIsChallenged == \A k \in reoffered : <<k, SIP_UNAUTHORIZED>> \in answered

TimeInv ==
  /\ NotOverdue /\ NotOlder /\ StoppedIsDue
  /\ InviteIsFresh /\ ForgottenIsOver /\ ReofferedIsChallenged

IInv == BasicInv /\ AnswerInv /\ DisciplineInv /\ TimeInv
-----------------------------------------------------------------------------
\* The fields of a transaction keep their types when several are changed at once.
LEMMA FieldTypes ==
  ASSUME NEW tr \in CSipInviteTransaction
  PROVE  /\ tr.response \in Status \cup {NoResponse, SIP_TRYING}
         /\ tr.status \in Status \cup {NoResponse}
         /\ tr.ack \in BOOLEAN
         /\ tr.resend \in 0 .. MAX_ICT_RESEND_COUNT
         /\ tr.start \in 0 .. Cap
         /\ tr.ring \in Age
         /\ tr.stop \in Age
  BY DEF CSipInviteTransaction

LEMMA AckFields ==
  ASSUME NEW tr \in CSipInviteTransaction, NEW a \in BOOLEAN, NEW p \in Age
  PROVE  [tr EXCEPT !.ack = a, !.stop = p] \in CSipInviteTransaction
  BY DEF CSipInviteTransaction

LEMMA TimeFields ==
  ASSUME NEW tr \in CSipInviteTransaction,
         NEW x \in 0 .. Cap, NEW y \in Age, NEW p \in Age
  PROVE  [tr EXCEPT !.start = x, !.ring = y, !.stop = p] \in CSipInviteTransaction
  BY DEF CSipInviteTransaction

LEMMA ResponseFields ==
  ASSUME NEW tr \in CSipInviteTransaction,
         NEW x \in Status \cup {NoResponse, SIP_TRYING},
         NEW y \in Status \cup {NoResponse}, NEW p \in Age, NEW q \in Age
  PROVE  [tr EXCEPT !.response = x, !.status = y, !.stop = p, !.ring = q]
           \in CSipInviteTransaction
  BY DEF CSipInviteTransaction

\* Ages, and the records of a transaction that is new or grew older, have their types.
LEMMA Ages ==
  /\ Off \in Age
  /\ \A x \in 0 .. Cap : x \in Age /\ x # Off /\ Older(x) \in 0 .. Cap
  /\ \A x \in Age : Older(x) \in Age /\ (Older(x) = Off <=> x = Off)
  /\ 0 \in 0 .. Cap
  BY ListAssumption DEF Older, Age, Off

LEMMA NewType == NewTransaction \in CSipInviteTransaction
  BY ListAssumption DEF NewTransaction, CSipInviteTransaction, Age, Off

LEMMA OlderType ==
  ASSUME NEW tr \in CSipInviteTransaction
  PROVE  OlderTransaction(tr) \in CSipInviteTransaction
  BY TimeFields, FieldTypes, Ages DEF OlderTransaction

\* Numbers and records.
LEMMA Constants ==
  /\ SIP_TRYING \in Status /\ Udp = Key /\ Stack \notin Thread
  /\ MAX_ICT_RESEND_COUNT \in Nat \ {0} /\ Cap \in Nat /\ MaxDelay \in Nat
  /\ StopTime \in 0 .. Cap
  /\ \A r \in 0 .. MAX_ICT_RESEND_COUNT - 1 : ReSendTime[r] \in 0 .. Cap
  /\ \A s \in Status : s \in Nat /\ s # NoResponse
  /\ \A k \in Key : CallOf[k] \in Call
  /\ Off = -1 /\ NoResponse = 0
  /\ SIP_REQUEST_TIME_OUT # NoResponse
  /\ SIP_REQUEST_TIME_OUT # SIP_CONNECT_ERROR
  BY ListAssumption, InviteTransactionAssumption
     DEF Off, NoResponse, SIP_REQUEST_TIME_OUT, SIP_CONNECT_ERROR

LEMMA OlderAges ==
  /\ \A x \in 0 .. Cap : Older(x) >= x /\ Older(x) <= x + 1
  /\ \A x \in Age : Older(x) <= x + 1
  /\ \A x, y \in 0 .. Cap : x <= y => Older(x) <= Older(y)
  BY ListAssumption DEF Older, Age, Off

\* The fields of a transaction that a step changes.
LEMMA NewFields ==
  /\ NewTransaction \in CSipInviteTransaction
  /\ NewTransaction.response = NoResponse /\ NewTransaction.status = NoResponse
  /\ NewTransaction.ack = FALSE /\ NewTransaction.resend = 0
  /\ NewTransaction.start = 0 /\ NewTransaction.stop = Off
  BY NewType DEF NewTransaction

SameButResponse(e, tr) ==
  /\ e \in CSipInviteTransaction
  /\ e.ack = tr.ack /\ e.resend = tr.resend /\ e.start = tr.start /\ e.stop = tr.stop

LEMMA RespondedFields ==
  ASSUME NEW tr \in CSipInviteTransaction, NEW s \in Status, s # SIP_CONNECT_ERROR
  PROVE  /\ SameButResponse(Caller!Responded(tr, s), tr)
         /\ tr.response = NoResponse \/ tr.status # s =>
              Caller!Responded(tr, s).response = s /\ Caller!Responded(tr, s).status = s
         /\ ~ (tr.response = NoResponse \/ tr.status # s) =>
              /\ Caller!Responded(tr, s).response = tr.response
              /\ Caller!Responded(tr, s).status = tr.status
  <1> DEFINE isNew == tr.response = NoResponse \/ tr.status # s
             x == IF isNew THEN s ELSE tr.response
             y == IF isNew THEN s ELSE tr.status
             q == IF tr.ring = Off THEN 0 ELSE tr.ring
             e == [tr EXCEPT !.response = x, !.status = y, !.stop = tr.stop, !.ring = q]
  <1>1. Caller!Responded(tr, s) = e
    BY DEF Caller!Responded, Caller!NoResponse, NoResponse, Caller!Off, Off,
           Caller!SIP_CONNECT_ERROR, SIP_CONNECT_ERROR
  <1>2. /\ x \in Status \cup {NoResponse, SIP_TRYING}
        /\ y \in Status \cup {NoResponse} /\ q \in Age /\ tr.stop \in Age
    BY FieldTypes, Ages
  <1>3. (isNew => x = s /\ y = s) /\ (~ isNew => x = tr.response /\ y = tr.status)
    OBVIOUS
  <1> HIDE DEF x, y, q
  <1>4. e \in CSipInviteTransaction
    BY <1>2, ResponseFields
  <1>5. /\ e.response = x /\ e.status = y /\ e.ack = tr.ack /\ e.resend = tr.resend
        /\ e.start = tr.start /\ e.stop = tr.stop
    BY DEF CSipInviteTransaction
  <1> HIDE DEF e
  <1> QED
    BY <1>1, <1>3, <1>4, <1>5 DEF SameButResponse

\* Both lists take an ACK alike.
IsAcked(e, tr) ==
  /\ e \in CSipInviteTransaction
  /\ e.response = tr.response /\ e.status = tr.status
  /\ e.resend = tr.resend /\ e.start = tr.start
  /\ e.ack = TRUE /\ e.stop = 0

LEMMA AckedFields ==
  ASSUME NEW tr \in CSipInviteTransaction
  PROVE  IsAcked(Caller!Acked(tr), tr) /\ IsAcked(Callee!Acked(tr), tr)
  <1> DEFINE e == [tr EXCEPT !.ack = TRUE, !.stop = 0]
  <1>1. e \in CSipInviteTransaction
    BY AckFields, Ages
  <1>2. IsAcked(e, tr)
    BY <1>1 DEF IsAcked, CSipInviteTransaction
  <1> QED
    BY <1>2 DEF Caller!Acked, Callee!Acked

IsOlder(e, tr) ==
  /\ e \in CSipInviteTransaction
  /\ e.response = tr.response /\ e.status = tr.status /\ e.ack = tr.ack
  /\ e.resend = tr.resend
  /\ e.start = Older(tr.start) /\ e.stop = Older(tr.stop)

LEMMA OlderFields ==
  ASSUME NEW tr \in CSipInviteTransaction
  PROVE  /\ IsOlder(Caller!OlderTransaction(tr), tr)
         /\ IsOlder(Callee!OlderTransaction(tr), tr)
  <1> DEFINE e == [tr EXCEPT !.start = Older(@), !.ring = Older(@), !.stop = Older(@)]
  <1>1. e \in CSipInviteTransaction
    BY OlderType DEF OlderTransaction
  <1>2. IsOlder(e, tr)
    BY <1>1 DEF IsOlder, CSipInviteTransaction
  <1>3. \A x : Caller!Older(x) = Older(x) /\ Callee!Older(x) = Older(x)
    BY DEF Caller!Older, Callee!Older, Older, Caller!Off, Callee!Off, Off
  <1>4. Caller!OlderTransaction(tr) = e /\ Callee!OlderTransaction(tr) = e
    BY <1>3 DEF Caller!OlderTransaction, Callee!OlderTransaction
  <1> QED
    BY <1>2, <1>4

LEMMA ResentFields ==
  ASSUME NEW tr \in CSipInviteTransaction, tr.resend < MAX_ICT_RESEND_COUNT,
         NEW e, e = [tr EXCEPT !.resend = @ + 1]
  PROVE  /\ e \in CSipInviteTransaction
         /\ e.response = tr.response /\ e.status = tr.status /\ e.ack = tr.ack
         /\ e.start = tr.start /\ e.stop = tr.stop
         /\ e.resend = tr.resend + 1
  <1>1. tr.resend + 1 \in 0 .. MAX_ICT_RESEND_COUNT
    BY FieldTypes, Constants
  <1> QED
    BY <1>1 DEF CSipInviteTransaction

LEMMA AnsweredFields ==
  ASSUME NEW tr \in CSipInviteTransaction, NEW s \in Status
  PROVE  /\ Callee!Answered(tr, s) \in CSipInviteTransaction
         /\ Callee!Answered(tr, s).response = s /\ Callee!Answered(tr, s).status = s
         /\ Callee!Answered(tr, s).ack = tr.ack
         /\ Callee!Answered(tr, s).resend = tr.resend
         /\ Callee!Answered(tr, s).start \in {0, tr.start}
         /\ Callee!Answered(tr, s).stop = tr.stop
  <1> DEFINE x == IF Callee!Final(s) THEN 0 ELSE tr.start
             e == [tr EXCEPT !.response = s, !.status = s, !.start = x]
  <1>1. x \in {0, tr.start} /\ x \in 0 .. Cap
    BY FieldTypes, Ages
  <1>2. Callee!Answered(tr, s) = e
    BY DEF Callee!Answered
  <1> HIDE DEF x
  <1>3. /\ e \in CSipInviteTransaction
        /\ e.response = s /\ e.status = s /\ e.ack = tr.ack /\ e.resend = tr.resend
        /\ e.start = x /\ e.stop = tr.stop
    BY <1>1 DEF CSipInviteTransaction
  <1> QED
    BY <1>1, <1>2, <1>3

LEMMA ExecutedFields ==
  ASSUME NEW tr \in CSipInviteTransaction, tr.stop = Off => tr.resend < MAX_ICT_RESEND_COUNT,
         NEW e, e = Callee!Executed(tr)
  PROVE  /\ e \in CSipInviteTransaction
         /\ e.response = tr.response /\ e.status = tr.status
         /\ e.ack = tr.ack /\ e.start = tr.start
         /\ e.stop = Off => e.resend < MAX_ICT_RESEND_COUNT
         /\ \/ e.stop = tr.stop
            \/ tr.stop = Off /\ e.stop = 0 /\ tr.start >= LastTime
  <1> DEFINE n == IF Callee!AwaitsAck(tr) THEN tr.resend + 1 ELSE tr.resend
             p == IF Callee!GiveUp(tr) THEN 0 ELSE tr.stop
  <1>1. Callee!Executed(tr) = [tr EXCEPT !.resend = n, !.stop = p]
    BY DEF Callee!Executed
  <1>2. tr.resend \in 0 .. MAX_ICT_RESEND_COUNT /\ tr.stop \in Age /\ tr.start \in 0 .. Cap
    BY FieldTypes
  <1>3. Callee!AwaitsAck(tr) =>
          tr.stop = Off /\ tr.resend < MAX_ICT_RESEND_COUNT /\ tr.start >= ReSendTime[tr.resend]
    BY DEF Callee!AwaitsAck, Callee!Stopped, Callee!Off, Off, Callee!ReSendDue
  <1>4. Callee!GiveUp(tr) <=> Callee!AwaitsAck(tr) /\ tr.resend + 1 = MAX_ICT_RESEND_COUNT
    BY DEF Callee!GiveUp
  <1>5. n \in 0 .. MAX_ICT_RESEND_COUNT /\ p \in Age
    BY <1>2, <1>3, Constants, Ages
  <1>6. p = Off => n < MAX_ICT_RESEND_COUNT
    BY <1>2, <1>3, <1>4, Constants
  <1>7. p = tr.stop \/ (tr.stop = Off /\ p = 0 /\ tr.start >= LastTime)
    <2>1. CASE Callee!GiveUp(tr)
      <3>1. tr.resend = MAX_ICT_RESEND_COUNT - 1
        BY <1>2, <1>4, <2>1, Constants
      <3> QED
        BY <1>3, <1>4, <2>1, <3>1 DEF LastTime
    <2>2. CASE ~ Callee!GiveUp(tr)
      BY <2>2
    <2> QED
      BY <2>1, <2>2
  <1> HIDE DEF n, p
  <1> DEFINE f == [tr EXCEPT !.resend = n, !.stop = p]
  <1>8. /\ f \in CSipInviteTransaction
        /\ f.response = tr.response /\ f.status = tr.status
        /\ f.ack = tr.ack /\ f.start = tr.start
        /\ f.resend = n /\ f.stop = p
    BY <1>5 DEF CSipInviteTransaction
  <1>9. e = f
    BY <1>1
  <1> HIDE DEF f
  <1> QED
    BY <1>6, <1>7, <1>8, <1>9
-----------------------------------------------------------------------------
\* What a step does, transaction by transaction and datagram by datagram.

LEMMA SentFacts ==
  ASSUME NEW D
  PROVE  /\ \A m \in Caller!Sent(net, D) : m \in net \/ (m \in D /\ m.age < MaxDelay)
         /\ \A m \in Callee!Sent(net, D) : m \in net \/ (m \in D /\ m.age < MaxDelay)
  BY DEF Caller!Sent, Callee!Sent

\* A datagram that is sent by this step.
IsNew(m, method, k, s) ==
  /\ m \in [method : {"INVITE", "ACK", "RESPONSE"}, key : {k}, status : {s}, age : {0}]
  /\ m.method = method
  /\ 0 < MaxDelay

LEMMA DatagramFacts ==
  ASSUME NEW k, NEW s, NEW m
  PROVE  /\ m = Caller!Request("INVITE", k) /\ m.age < MaxDelay => IsNew(m, "INVITE", k, NoResponse)
         /\ m = Caller!Request("ACK", k) /\ m.age < MaxDelay => IsNew(m, "ACK", k, NoResponse)
         /\ m = Callee!Response(k, s) /\ m.age < MaxDelay => IsNew(m, "RESPONSE", k, s)
  BY DEF IsNew, Caller!Request, Callee!Response, Caller!NoResponse, NoResponse

LEMMA TypeFacts ==
  ASSUME Types
  PROVE  /\ DOMAIN ict \subseteq begun /\ begun \subseteq Key
         /\ \A k \in DOMAIN ict : /\ ict[k] \in CSipInviteTransaction
                                  /\ ict[k].resend < MAX_ICT_RESEND_COUNT
                                  /\ ict[k].status \in Status \cup {NoResponse}
                                  /\ ict[k].resend \in 0 .. MAX_ICT_RESEND_COUNT - 1
                                  /\ ict[k].start \in 0 .. Cap
                                  /\ ict[k].stop \in Age
         /\ DOMAIN ist \subseteq offered /\ offered \subseteq begun
         /\ \A k \in DOMAIN ist : /\ ist[k] \in CSipInviteTransaction
                                  /\ ist[k].response \in Status
                                  /\ ist[k].stop = Off => ist[k].resend < MAX_ICT_RESEND_COUNT
                                  /\ ist[k].start \in 0 .. Cap
                                  /\ ist[k].stop \in Age
         /\ \A u \in upcalls : /\ u.key \in begun /\ u.via \in begun
                               /\ u.thread \in Thread \cup {Stack}
                               /\ u.status \in Status \cup {SIP_REQUEST_TIME_OUT}
                               /\ u.status # SIP_CONNECT_ERROR
                               /\ u.phase \in {"tell", "ack"}
         /\ \A m \in net : /\ m.key \in begun /\ m.age \in Nat /\ m.age < MaxDelay
                           /\ m.method = "RESPONSE" => m.status \in Status
  <1>1. \A k \in DOMAIN ict :
          ict[k] \in CSipInviteTransaction /\ ict[k].resend < MAX_ICT_RESEND_COUNT
    BY DEF Types, CallerTypes
  <1>2. \A k \in DOMAIN ict : ict[k].resend \in 0 .. MAX_ICT_RESEND_COUNT - 1
    BY <1>1, FieldTypes, Constants
  <1>3. \A k \in DOMAIN ist : ist[k] \in CSipInviteTransaction
    BY DEF Types, CalleeTypes
  <1>4. \A m \in net : /\ m.key \in begun /\ m.age \in Nat /\ m.age < MaxDelay
                       /\ m.method = "RESPONSE" => m.status \in Status
    BY Constants DEF Types, NetTypes
  <1>5. \A u \in upcalls : /\ u.key \in begun /\ u.via \in begun
                           /\ u.thread \in Thread \cup {Stack}
                           /\ u.status \in Status \cup {SIP_REQUEST_TIME_OUT}
                           /\ u.status # SIP_CONNECT_ERROR
                           /\ u.phase \in {"tell", "ack"}
    BY DEF Types, CallerTypes
  <1>6. /\ DOMAIN ict \subseteq begun /\ begun \subseteq Key
        /\ DOMAIN ist \subseteq offered /\ offered \subseteq begun
        /\ \A k \in DOMAIN ist : /\ ist[k].response \in Status
                                 /\ ist[k].stop = Off => ist[k].resend < MAX_ICT_RESEND_COUNT
    BY DEF Types, CallerTypes, CalleeTypes
  <1> QED
    BY <1>1, <1>2, <1>3, <1>4, <1>5, <1>6, FieldTypes

LEMMA SendInviteEffect ==
  ASSUME Types, NEW k \in Key, Caller!SendInvite(k)
  PROVE  /\ k \notin begun /\ k \notin DOMAIN ict
         /\ Disciplined => \A j \in begun : CallOf[j] = CallOf[k] => ~ Caller!Open(j)
         /\ CallOf[k] \notin DOMAIN latest => \A j \in begun : CallOf[j] # CallOf[k]
         /\ DOMAIN ict' = DOMAIN ict \cup {k}
         /\ \A j \in DOMAIN ict : ict'[j] = ict[j]
         /\ ict'[k] = NewTransaction
         /\ begun' = begun \cup {k}
         /\ DOMAIN latest' = DOMAIN latest \cup {CallOf[k]}
         /\ latest'[CallOf[k]] = k
         /\ \A c \in DOMAIN latest : c # CallOf[k] => latest'[c] = latest[c]
         /\ UNCHANGED <<upcalls, timedOut, told, stopped>>
         /\ \A m \in net' : m \in net \/ IsNew(m, "INVITE", k, NoResponse)
  <1>1. k \notin begun /\ k \notin DOMAIN ict
    BY TypeFacts DEF Caller!SendInvite
  <1>2. Caller!NewTransaction = NewTransaction
    BY DEF Caller!NewTransaction, NewTransaction, Caller!NoResponse, NoResponse, Caller!Off, Off
  <1>3. /\ DOMAIN ict' = DOMAIN ict \cup {k}
        /\ \A j \in DOMAIN ict : ict'[j] = ict[j]
        /\ ict'[k] = NewTransaction
    BY <1>1, <1>2 DEF Caller!SendInvite, Caller!Insert
  <1>4. net' = Caller!Sent(net, {Caller!Request("INVITE", k)})
    BY DEF Caller!SendInvite, Caller!Transmit
  <1>5. \A m \in net' : m \in net \/ IsNew(m, "INVITE", k, NoResponse)
    BY <1>4, SentFacts, DatagramFacts
  <1>6. /\ Disciplined => \A j \in begun : CallOf[j] = CallOf[k] => ~ Caller!Open(j)
        /\ CallOf[k] \notin DOMAIN latest => \A j \in begun : CallOf[j] # CallOf[k]
        /\ begun' = begun \cup {k}
        /\ DOMAIN latest' = DOMAIN latest \cup {CallOf[k]}
        /\ latest'[CallOf[k]] = k
        /\ \A c \in DOMAIN latest : c # CallOf[k] => latest'[c] = latest[c]
        /\ UNCHANGED <<upcalls, timedOut, told, stopped>>
    BY DEF Caller!SendInvite
  <1> QED
    BY <1>1, <1>3, <1>5, <1>6

LEMMA RespondEffect ==
  ASSUME Types, NEW t \in Thread, NEW k, NEW s \in Status, Caller!RecvResponse(t, k, s)
  PROVE  /\ k \in DOMAIN ict /\ s # SIP_CONNECT_ERROR
         /\ DOMAIN ict' = DOMAIN ict
         /\ \A j \in DOMAIN ict : j # k => ict'[j] = ict[j]
         /\ SameButResponse(ict'[k], ict[k])
         /\ \/ ict'[k].response = s /\ ict'[k].status = s
            \/ /\ ict'[k].response = ict[k].response /\ ict'[k].status = ict[k].status
               /\ ict[k].response # NoResponse /\ ict[k].status = s
         /\ upcalls \subseteq upcalls'
         /\ \A u \in upcalls' : u \notin upcalls =>
              /\ ict[k].response = NoResponse \/ ict[k].status # s
              /\ ict'[k].response = s /\ ict'[k].status = s
              /\ u = [thread |-> t, key |-> k, via |-> k, status |-> s, phase |-> "tell"]
         /\ UNCHANGED <<timedOut, latest, begun, told, stopped>>
         /\ \A m \in net' : m \in net \/ (ict[k].ack /\ IsNew(m, "ACK", k, NoResponse))
  <1>1. k \in DOMAIN ict /\ k \in Key /\ ict[k] \in CSipInviteTransaction
    BY TypeFacts DEF Caller!RecvResponse
  <1>2. s # SIP_CONNECT_ERROR
    BY <1>1, Constants DEF Caller!RecvResponse, Caller!SIP_CONNECT_ERROR, SIP_CONNECT_ERROR
  <1>3. ict' = [ict EXCEPT ![k] = Caller!Responded(ict[k], s)]
    BY DEF Caller!RecvResponse
  <1>4. /\ DOMAIN ict' = DOMAIN ict
        /\ \A j \in DOMAIN ict : j # k => ict'[j] = ict[j]
        /\ ict'[k] = Caller!Responded(ict[k], s)
    BY <1>1, <1>3
  <1>5. Caller!NewStatus(k, s) <=> ict[k].response = NoResponse \/ ict[k].status # s
    BY DEF Caller!NewStatus, Caller!NoResponse, NoResponse
  <1>6. /\ upcalls \subseteq upcalls'
        /\ \A u \in upcalls' : u \notin upcalls =>
             /\ ict[k].response = NoResponse \/ ict[k].status # s
             /\ u = [thread |-> t, key |-> k, via |-> k, status |-> s, phase |-> "tell"]
        /\ UNCHANGED <<timedOut, latest, begun, told, stopped>>
    BY <1>5 DEF Caller!RecvResponse
  <1>7. net' = Caller!Sent(net, IF ict[k].ack THEN {Caller!Request("ACK", k)} ELSE {})
    BY DEF Caller!RecvResponse, Caller!Transmit
  <1>8. \A m \in net' : m \in net \/ (ict[k].ack /\ IsNew(m, "ACK", k, NoResponse))
    BY <1>7, SentFacts, DatagramFacts
  <1> QED
    BY <1>1, <1>2, <1>4, <1>6, <1>8, RespondedFields

\* The upcall u goes on with the ACK.
IsAckOf(v, u, k) ==
  v \in [thread : Thread \cup {Stack}, key : {u.key}, via : {k}, status : {u.status},
         phase : {"ack"}]

LEMMA TellEffect ==
  ASSUME Types, NEW t, Caller!Tell(t)
  PROVE  /\ \E u \in upcalls :
              /\ u.phase = "tell"
              /\ told' = told \cup {<<u.key, u.status>>}
              /\ upcalls \ {u} \subseteq upcalls'
              /\ \A v \in upcalls' : v \notin upcalls =>
                   /\ Final(u.status) /\ CallOf[u.key] \in DOMAIN latest
                   /\ IsAckOf(v, u, latest[CallOf[u.key]])
              /\ Final(u.status) /\ CallOf[u.key] \in DOMAIN latest =>
                   \E v \in upcalls' : v.key = u.key /\ v.phase = "ack"
         /\ UNCHANGED <<ict, net, timedOut, latest, begun, stopped>>
  <1>1. PICK u \in upcalls :
          /\ u.phase = "tell"
          /\ told' = told \cup {<<u.key, u.status>>}
          /\ upcalls' =
               IF Caller!Final(u.status) /\ u.status # Caller!SIP_CONNECT_ERROR
                    /\ CallOf[u.key] \in DOMAIN latest
               THEN (upcalls \ {u}) \cup {[u EXCEPT !.phase = "ack", !.via = latest[CallOf[u.key]]]}
               ELSE upcalls \ {u}
    BY DEF Caller!Tell
  <1>2. Caller!Final(u.status) <=> Final(u.status)
    BY DEF Caller!Final, Final, Caller!SIP_OK, SIP_OK
  <1>3. u.status # Caller!SIP_CONNECT_ERROR
    BY TypeFacts DEF Caller!SIP_CONNECT_ERROR, SIP_CONNECT_ERROR
  <1>4. u \in [thread : Thread \cup {Stack}, key : begun, via : begun,
               status : (Status \cup {SIP_REQUEST_TIME_OUT}) \ {SIP_CONNECT_ERROR},
               phase : {"tell", "ack"}]
    BY DEF Types, CallerTypes
  <1> DEFINE l == latest[CallOf[u.key]]
             a == [u EXCEPT !.phase = "ack", !.via = l]
  <1>5. IsAckOf(a, u, l) /\ a.key = u.key /\ a.phase = "ack"
    <2> HIDE DEF l
    <2> QED
      BY <1>4 DEF IsAckOf
  <1>6. /\ upcalls \ {u} \subseteq upcalls'
        /\ \A w \in upcalls' : w \notin upcalls =>
             Final(u.status) /\ CallOf[u.key] \in DOMAIN latest /\ w = a
        /\ Final(u.status) /\ CallOf[u.key] \in DOMAIN latest => a \in upcalls'
    BY <1>1, <1>2, <1>3
  <1>7. UNCHANGED <<ict, net, timedOut, latest, begun, stopped>>
    BY DEF Caller!Tell
  <1> HIDE DEF a
  <1> QED
    BY <1>1, <1>5, <1>6, <1>7

LEMMA AckEffect ==
  ASSUME Types, NEW t, Caller!SendAck(t)
  PROVE  /\ \E u \in upcalls :
              /\ u.phase = "ack"
              /\ upcalls' = upcalls \ {u}
              /\ DOMAIN ict' \subseteq DOMAIN ict
              /\ \A k \in DOMAIN ict' :
                   \/ ict'[k] = ict[k]
                   \/ /\ IsAcked(ict'[k], ict[k])
                      /\ \/ k = u.via
                         \/ u.via \notin DOMAIN ict /\ CallOf[k] = CallOf[u.via]
              /\ u.via \in DOMAIN ict => u.via \in DOMAIN ict' /\ ict'[u.via].stop = 0
              /\ \A m \in net' : m \in net \/ IsNew(m, "ACK", u.via, NoResponse)
         /\ UNCHANGED <<timedOut, latest, begun, told, stopped>>
  <1>1. PICK u \in upcalls :
          /\ u.phase = "ack"
          /\ upcalls' = upcalls \ {u}
          /\ Caller!AckFound(u) \/ Caller!AckScan(u) \/ Caller!AckRefused(u)
    BY DEF Caller!SendAck
  <1>2. UNCHANGED <<timedOut, latest, begun, told, stopped>>
    BY DEF Caller!SendAck
  <1> DEFINE New == \A m \in net' : m \in net \/ IsNew(m, "ACK", u.via, NoResponse)
  <1>3. net' = Caller!Sent(net, {Caller!Request("ACK", u.via)}) => New
    BY SentFacts, DatagramFacts
  <1> HIDE DEF New
  <1>4. CASE Caller!AckFound(u)
    <2>1. u.via \in DOMAIN ict /\ ict' = [ict EXCEPT ![u.via] = Caller!Acked(ict[u.via])] /\ New
      BY <1>3, <1>4 DEF Caller!AckFound, Caller!Transmit
    <2>2. /\ DOMAIN ict' = DOMAIN ict
          /\ \A k \in DOMAIN ict : k # u.via => ict'[k] = ict[k]
          /\ ict'[u.via] = Caller!Acked(ict[u.via])
      BY <2>1
    <2>3. IsAcked(ict'[u.via], ict[u.via])
      BY <2>1, <2>2, AckedFields, TypeFacts
    <2> QED
      BY <1>1, <1>2, <2>1, <2>2, <2>3 DEF IsAcked, New
  <1>5. CASE Caller!AckScan(u)
    <2>1. PICK j \in DOMAIN ict :
            /\ CallOf[j] = CallOf[u.via]
            /\ \/ ict' = Caller!Erase(ict, {j})
               \/ ict' = [ict EXCEPT ![j] = Caller!Acked(ict[j])]
      BY <1>5 DEF Caller!AckScan
    <2>2. u.via \notin DOMAIN ict /\ New
      BY <1>3, <1>5 DEF Caller!AckScan, Caller!Transmit
    <2>3. CASE ict' = Caller!Erase(ict, {j})
      <3>1. DOMAIN ict' \subseteq DOMAIN ict /\ \A k \in DOMAIN ict' : ict'[k] = ict[k]
        BY <2>3 DEF Caller!Erase, Caller!Restrict
      <3> QED
        BY <1>1, <1>2, <2>2, <3>1 DEF New
    <2>4. CASE ict' = [ict EXCEPT ![j] = Caller!Acked(ict[j])]
      <3>1. /\ DOMAIN ict' = DOMAIN ict
            /\ \A k \in DOMAIN ict : k # j => ict'[k] = ict[k]
            /\ ict'[j] = Caller!Acked(ict[j])
        BY <2>4
      <3>2. IsAcked(ict'[j], ict[j])
        BY <3>1, AckedFields, TypeFacts
      <3> QED
        BY <1>1, <1>2, <2>1, <2>2, <3>1, <3>2 DEF New
    <2> QED
      BY <2>1, <2>3, <2>4
  <1>6. CASE Caller!AckRefused(u)
    <2>1. ict' = ict /\ net' = net /\ u.via \notin DOMAIN ict
      BY <1>6 DEF Caller!AckRefused
    <2> QED
      BY <1>1, <1>2, <2>1
  <1> QED
    BY <1>1, <1>4, <1>5, <1>6

LEMMA HangUpEffect ==
  ASSUME NEW c \in Call, Caller!HangUp(c)
  PROVE  /\ DOMAIN latest' \subseteq DOMAIN latest
         /\ \A d \in DOMAIN latest' : latest'[d] = latest[d]
         /\ UNCHANGED <<ict, net, upcalls, timedOut, begun, told, stopped>>
  BY DEF Caller!HangUp, Caller!Restrict

LEMMA TellTimeoutEffect ==
  ASSUME NEW k \in Key, Caller!TellTimeout(k)
  PROVE  /\ k \in timedOut /\ timedOut' = timedOut \ {k}
         /\ upcalls \subseteq upcalls'
         /\ \A u \in upcalls' : u \notin upcalls =>
              u = [thread |-> Stack, key |-> k, via |-> k,
                   status |-> SIP_REQUEST_TIME_OUT, phase |-> "tell"]
         /\ UNCHANGED <<ict, net, latest, begun, told, stopped>>
  BY DEF Caller!TellTimeout, Caller!SIP_REQUEST_TIME_OUT, SIP_REQUEST_TIME_OUT

LEMMA CallerExecuteEffect ==
  ASSUME Types, Caller!Execute
  PROVE  /\ DOMAIN ict' \subseteq DOMAIN ict
         /\ \A k \in DOMAIN ict' :
              /\ ict'[k] \in CSipInviteTransaction
              /\ ict'[k].response = ict[k].response /\ ict'[k].status = ict[k].status
              /\ ict'[k].ack = ict[k].ack
              /\ ict'[k].start = ict[k].start /\ ict'[k].stop = ict[k].stop
              /\ ict'[k].resend \in 0 .. MAX_ICT_RESEND_COUNT - 1
              /\ ict'[k].resend = ict[k].resend \/ ict'[k].resend = ict[k].resend + 1
         /\ \A k \in timedOut' : k \in DOMAIN ict \ DOMAIN ict' /\ Unstopped(k)
         /\ UNCHANGED <<upcalls, latest, begun, told, stopped>>
         /\ \A m \in net' : \/ m \in net
                            \/ \E k \in DOMAIN ict : /\ IsNew(m, "INVITE", k, NoResponse)
                                                     /\ Waits(k)
  <1> DEFINE chosen(P(_)) == {k \in DOMAIN ict : P(ict[k])}
             gone    == chosen(Caller!Completed) \cup chosen(Caller!GiveUp)
                          \cup chosen(Caller!RingsTooLong)
             resends == chosen(Caller!Unanswered) \ gone
  <1>1. /\ ict' = [k \in DOMAIN ict \ gone |->
                    IF k \in resends THEN [ict[k] EXCEPT !.resend = @ + 1] ELSE ict[k]]
        /\ timedOut' = chosen(Caller!TimesOut)
        /\ net' = Caller!Sent(net, {Caller!Request("INVITE", k) : k \in resends \cap Udp})
        /\ UNCHANGED <<upcalls, latest, begun, told, stopped>>
    BY DEF Caller!Execute, Caller!Transmit
  <1>2. ASSUME NEW k \in resends
        PROVE  k \in DOMAIN ict /\ Waits(k) /\ ict[k].resend + 1 < MAX_ICT_RESEND_COUNT
    <2>1. k \in DOMAIN ict /\ Caller!Unanswered(ict[k]) /\ ~ Caller!GiveUp(ict[k])
      OBVIOUS
    <2>2. ict[k].stop = Off /\ ict[k].status = NoResponse
      BY <2>1 DEF Caller!Unanswered, Caller!Stopped, Caller!Off, Off, Caller!NoResponse, NoResponse
    <2>3. ict[k].resend + 1 # MAX_ICT_RESEND_COUNT
      BY <2>1 DEF Caller!GiveUp
    <2>4. ict[k].resend + 1 < MAX_ICT_RESEND_COUNT
      BY <2>1, <2>3, TypeFacts, Constants
    <2> QED
      BY <2>1, <2>2, <2>4 DEF Waits, Unstopped
  <1>3. ASSUME NEW k \in chosen(Caller!TimesOut)
        PROVE  k \in DOMAIN ict /\ k \in gone /\ Unstopped(k)
    BY DEF Caller!TimesOut, Caller!GiveUp, Caller!Unanswered, Caller!RingsTooLong,
           Caller!Stopped, Caller!Off, Off, Unstopped
  <1> HIDE DEF gone, resends, chosen
  <1>4. DOMAIN ict' = DOMAIN ict \ gone
    BY <1>1
  <1>5. ASSUME NEW k \in DOMAIN ict'
        PROVE  /\ ict'[k] \in CSipInviteTransaction
               /\ ict'[k].response = ict[k].response /\ ict'[k].status = ict[k].status
               /\ ict'[k].ack = ict[k].ack
               /\ ict'[k].start = ict[k].start /\ ict'[k].stop = ict[k].stop
               /\ ict'[k].resend \in 0 .. MAX_ICT_RESEND_COUNT - 1
               /\ ict'[k].resend = ict[k].resend \/ ict'[k].resend = ict[k].resend + 1
    <2>1. CASE k \in resends
      <3>1. ict'[k] = [ict[k] EXCEPT !.resend = @ + 1] /\ k \in DOMAIN ict
        BY <1>1, <1>4, <2>1
      <3>2. ict[k].resend + 1 \in 0 .. MAX_ICT_RESEND_COUNT - 1
        BY <1>2, <2>1, <3>1, TypeFacts, Constants
      <3> QED
        BY <3>1, <3>2, ResentFields, TypeFacts
    <2>2. CASE k \notin resends
      BY <1>1, <1>4, <2>2, TypeFacts
    <2> QED
      BY <2>1, <2>2
  <1>6. ASSUME NEW m \in net', m \notin net
        PROVE  \E k \in DOMAIN ict : IsNew(m, "INVITE", k, NoResponse) /\ Waits(k)
    <2>1. PICK k \in resends : m = Caller!Request("INVITE", k) /\ m.age < MaxDelay
      BY <1>1, <1>6 DEF Caller!Sent
    <2> QED
      BY <1>2, <2>1, DatagramFacts
  <1>7. \A k \in timedOut' : k \in DOMAIN ict \ DOMAIN ict' /\ Unstopped(k)
    BY <1>1, <1>3, <1>4
  <1> QED
    BY <1>1, <1>4, <1>5, <1>6, <1>7

LEMMA OfferEffect ==
  ASSUME Types, NEW k, Callee!RecvInvite(k)
  PROVE  /\ k \notin DOMAIN ist
         /\ DOMAIN ist' = DOMAIN ist \cup {k}
         /\ \A j \in DOMAIN ist : ist'[j] = ist[j]
         /\ ist'[k] \in CSipInviteTransaction
         /\ ist'[k].response = SIP_TRYING /\ ist'[k].ack = FALSE
         /\ ist'[k].resend = 0 /\ ist'[k].start = 0 /\ ist'[k].stop = Off
         /\ offered' = offered \cup {k}
         /\ \A m \in net' : m \in net \/ IsNew(m, "RESPONSE", k, SIP_TRYING)
  <1> DEFINE e == [NewTransaction EXCEPT !.response = SIP_TRYING]
  <1>1. Callee!NewServerTransaction = e
    BY DEF Callee!NewServerTransaction, Callee!NewTransaction, NewTransaction,
           Callee!NoResponse, NoResponse, Callee!Off, Off, Callee!SIP_TRYING, SIP_TRYING
  <1>2. /\ e \in CSipInviteTransaction /\ e.response = SIP_TRYING
        /\ e.ack = FALSE /\ e.resend = 0 /\ e.start = 0 /\ e.stop = Off
    BY NewFields DEF CSipInviteTransaction
  <1> HIDE DEF e
  <1>3. /\ k \notin DOMAIN ist
        /\ DOMAIN ist' = DOMAIN ist \cup {k}
        /\ \A j \in DOMAIN ist : ist'[j] = ist[j]
        /\ ist'[k] = e
        /\ offered' = offered \cup {k}
    BY <1>1 DEF Callee!RecvInvite, Callee!Insert
  <1>4. net' = Callee!Sent(net, {Callee!Response(k, SIP_TRYING)})
    BY DEF Callee!RecvInvite, Callee!Transmit, Callee!SIP_TRYING, SIP_TRYING
  <1>5. \A m \in net' : m \in net \/ IsNew(m, "RESPONSE", k, SIP_TRYING)
    BY <1>4, SentFacts, DatagramFacts
  <1> QED
    BY <1>2, <1>3, <1>5

LEMMA RepeatEffect ==
  ASSUME NEW k, Callee!RecvInviteAgain(k)
  PROVE  /\ k \in DOMAIN ist
         /\ \A m \in net' : m \in net \/ IsNew(m, "RESPONSE", k, ist[k].response)
         /\ UNCHANGED <<ist, offered>>
  <1>1. net' = Callee!Sent(net, {Callee!Response(k, ist[k].response)})
    BY DEF Callee!RecvInviteAgain, Callee!Transmit
  <1>2. \A m \in net' : m \in net \/ IsNew(m, "RESPONSE", k, ist[k].response)
    BY <1>1, SentFacts, DatagramFacts
  <1> QED
    BY <1>2 DEF Callee!RecvInviteAgain

LEMMA TakeAckEffect ==
  ASSUME Types, Numbered, NEW k \in Key, Callee!RecvAck(k)
  PROVE  /\ k \in DOMAIN ist
         /\ DOMAIN ist' \subseteq DOMAIN ist /\ DOMAIN ist \subseteq DOMAIN ist' \cup {k}
         /\ k \notin DOMAIN ist' => ist[k].response = SIP_UNAUTHORIZED
         /\ \A j \in DOMAIN ist' : j # k => ist'[j] = ist[j]
         /\ k \in DOMAIN ist' => ist'[k] = ist[k] \/ IsAcked(ist'[k], ist[k])
         /\ UNCHANGED <<net, offered>>
  <1>1. k \in DOMAIN ist /\ Callee!TakeAck(k)
    <2>1. CASE Callee!AckScan(k)
      <3>1. PICK j \in DOMAIN ist : Callee!IsEqualCallIdSeq(j, k)
        BY <2>1 DEF Callee!AckScan
      <3>2. j \in Key /\ CallOf[j] = CallOf[k] /\ CSeqOf[j] = CSeqOf[k]
        BY <3>1, TypeFacts DEF Callee!IsEqualCallIdSeq
      <3>3. j = k
        BY <3>2 DEF Numbered
      <3> QED
        BY <2>1, <3>1, <3>3 DEF Callee!AckScan
    <2>2. CASE Callee!AckFound(k)
      BY <2>2 DEF Callee!AckFound
    <2> QED
      BY <2>1, <2>2 DEF Callee!RecvAck
  <1>2. CASE ist[k].response = SIP_UNAUTHORIZED
    <2>1. ist' = Callee!Erase(ist, {k})
      BY <1>1, <1>2 DEF Callee!TakeAck, Callee!SIP_UNAUTHORIZED, SIP_UNAUTHORIZED
    <2>2. DOMAIN ist' = DOMAIN ist \ {k} /\ \A j \in DOMAIN ist' : ist'[j] = ist[j]
      BY <2>1 DEF Callee!Erase, Callee!Restrict
    <2> QED
      BY <1>1, <1>2, <2>2 DEF Callee!RecvAck
  <1>3. CASE ist[k].response # SIP_UNAUTHORIZED
    <2>1. ist' = [ist EXCEPT ![k] = IF ist[k].ack THEN ist[k] ELSE Callee!Acked(ist[k])]
      BY <1>1, <1>3 DEF Callee!TakeAck, Callee!SIP_UNAUTHORIZED, SIP_UNAUTHORIZED
    <2>2. /\ DOMAIN ist' = DOMAIN ist /\ \A j \in DOMAIN ist : j # k => ist'[j] = ist[j]
          /\ ist'[k] = ist[k] \/ ist'[k] = Callee!Acked(ist[k])
      BY <1>1, <2>1
    <2> QED
      BY <1>1, <2>2, AckedFields, TypeFacts DEF Callee!RecvAck
  <1> QED
    BY <1>2, <1>3

LEMMA AnswerEffect ==
  ASSUME Types, NEW k, NEW s \in Status, Callee!SendResponse(k, s)
  PROVE  /\ k \in DOMAIN ist
         /\ DOMAIN ist' = DOMAIN ist
         /\ \A j \in DOMAIN ist : j # k => ist'[j] = ist[j]
         /\ ist'[k] \in CSipInviteTransaction
         /\ ist'[k].response = s
         /\ ist'[k].ack = ist[k].ack /\ ist'[k].resend = ist[k].resend
         /\ ist'[k].start \in {0, ist[k].start} /\ ist'[k].stop = ist[k].stop
         /\ offered' = offered
         /\ \A m \in net' : m \in net \/ IsNew(m, "RESPONSE", k, s)
  <1>1. k \in DOMAIN ist /\ offered' = offered
    BY DEF Callee!SendResponse
  <1>2. ist' = [ist EXCEPT ![k] = Callee!Answered(ist[k], s)]
    BY DEF Callee!SendResponse
  <1>3. /\ DOMAIN ist' = DOMAIN ist /\ \A j \in DOMAIN ist : j # k => ist'[j] = ist[j]
        /\ ist'[k] = Callee!Answered(ist[k], s)
    BY <1>1, <1>2
  <1>4. net' = Callee!Sent(net, {Callee!Response(k, s)})
    BY DEF Callee!SendResponse, Callee!Transmit
  <1>5. \A m \in net' : m \in net \/ IsNew(m, "RESPONSE", k, s)
    BY <1>4, SentFacts, DatagramFacts
  <1> QED
    BY <1>1, <1>3, <1>5, AnsweredFields, TypeFacts

LEMMA CalleeExecuteEffect ==
  ASSUME Types, Callee!Execute
  PROVE  /\ DOMAIN ist' \subseteq DOMAIN ist
         /\ \A k \in DOMAIN ist \ DOMAIN ist' : ist[k].stop # Off /\ ist[k].stop >= StopTime
         /\ \A k \in DOMAIN ist' :
              /\ ist'[k] \in CSipInviteTransaction
              /\ ist'[k].response = ist[k].response
              /\ ist'[k].ack = ist[k].ack /\ ist'[k].start = ist[k].start
              /\ ist'[k].stop = Off => ist'[k].resend < MAX_ICT_RESEND_COUNT
              /\ \/ ist'[k].stop = ist[k].stop
                 \/ ist[k].stop = Off /\ ist'[k].stop = 0 /\ ist[k].start >= LastTime
         /\ UNCHANGED offered
         /\ \A m \in net' : \/ m \in net
                            \/ \E k \in DOMAIN ist : IsNew(m, "RESPONSE", k, ist[k].response)
  <1> DEFINE chosen(P(_)) == {k \in DOMAIN ist : P(ist[k])}
             kept    == DOMAIN ist \ chosen(Callee!Completed)
             resends == chosen(Callee!AwaitsAck) \ chosen(Callee!GiveUp)
  <1>1. /\ ist' = [k \in kept |-> Callee!Executed(ist[k])]
        /\ net' = Callee!Sent(net, {Callee!Response(k, ist[k].response) : k \in resends \cap Udp})
        /\ UNCHANGED offered
    BY DEF Callee!Execute, Callee!Transmit
  <1>2. \A k \in DOMAIN ist : k \notin kept => ist[k].stop # Off /\ ist[k].stop >= StopTime
    BY DEF Callee!Completed, Callee!Stopped, Callee!Off, Off
  <1>3. kept \subseteq DOMAIN ist /\ resends \subseteq DOMAIN ist
    OBVIOUS
  <1> HIDE DEF kept, resends, chosen
  <1>4. DOMAIN ist' = kept /\ \A k \in kept : ist'[k] = Callee!Executed(ist[k])
    BY <1>1
  <1>5. ASSUME NEW m \in net', m \notin net
        PROVE  \E k \in DOMAIN ist : IsNew(m, "RESPONSE", k, ist[k].response)
    <2>1. PICK k \in resends : m = Callee!Response(k, ist[k].response) /\ m.age < MaxDelay
      BY <1>1, <1>5 DEF Callee!Sent
    <2> QED
      BY <1>3, <2>1, DatagramFacts
  <1>6. ASSUME NEW k \in DOMAIN ist'
        PROVE  /\ ist'[k] \in CSipInviteTransaction
               /\ ist'[k].response = ist[k].response
               /\ ist'[k].ack = ist[k].ack /\ ist'[k].start = ist[k].start
               /\ ist'[k].stop = Off => ist'[k].resend < MAX_ICT_RESEND_COUNT
               /\ \/ ist'[k].stop = ist[k].stop
                  \/ ist[k].stop = Off /\ ist'[k].stop = 0 /\ ist[k].start >= LastTime
    BY <1>3, <1>4, ExecutedFields, TypeFacts
  <1> QED
    BY <1>1, <1>2, <1>3, <1>4, <1>5, <1>6

\* A tick ages everything, nothing being due; what is too old leaves the network.
LEMMA TickEffect ==
  ASSUME Types, Tick
  PROVE  /\ upcalls = {} /\ timedOut = {}
         /\ DOMAIN ict' = DOMAIN ict /\ DOMAIN ist' = DOMAIN ist
         /\ \A k \in DOMAIN ict : IsOlder(ict'[k], ict[k])
         /\ \A k \in DOMAIN ist : IsOlder(ist'[k], ist[k])
         /\ \A k \in DOMAIN ict : Waits(k) => ict[k].start < ReSendTime[ict[k].resend]
         /\ \A m \in net' : \E n \in net :
              /\ m \in [method : {n.method}, key : {n.key}, status : {n.status},
                        age : {n.age + 1}]
              /\ n.age + 1 < MaxDelay
         /\ UNCHANGED <<upcalls, timedOut, latest, begun, told, stopped, offered, answered,
                        confirmed, reoffered, overtaken>>
  <1>1. /\ ict' = Caller!OlderMap(ict) /\ ist' = Callee!OlderMap(ist)
        /\ net' = Caller!OlderNet(net)
        /\ upcalls = {} /\ timedOut = {}
        /\ \A k \in DOMAIN ict : ~ Caller!Unanswered(ict[k])
        /\ UNCHANGED <<upcalls, timedOut, latest, begun, told, stopped, offered, answered,
                       confirmed, reoffered, overtaken>>
    BY DEF Tick, Punctual, Caller!Tick, Callee!Tick
  <1>2. /\ DOMAIN ict' = DOMAIN ict /\ DOMAIN ist' = DOMAIN ist
        /\ \A k \in DOMAIN ict : ict'[k] = Caller!OlderTransaction(ict[k])
        /\ \A k \in DOMAIN ist : ist'[k] = Callee!OlderTransaction(ist[k])
    BY <1>1 DEF Caller!OlderMap, Callee!OlderMap
  <1>3. /\ \A k \in DOMAIN ict : IsOlder(ict'[k], ict[k])
        /\ \A k \in DOMAIN ist : IsOlder(ist'[k], ist[k])
    BY <1>2, OlderFields, TypeFacts
  <1>4. ASSUME NEW k \in DOMAIN ict, Waits(k)
        PROVE  ict[k].start < ReSendTime[ict[k].resend]
    <2>1. ~ (ict[k].start >= ReSendTime[ict[k].resend])
      BY <1>1, <1>4 DEF Waits, Unstopped, Caller!Unanswered, Caller!Stopped, Caller!Off, Off,
                        Caller!NoResponse, NoResponse, Caller!ReSendDue
    <2> QED
      BY <2>1, TypeFacts, Constants
  <1>5. ASSUME NEW m \in net'
        PROVE  \E n \in net :
                 /\ m \in [method : {n.method}, key : {n.key}, status : {n.status},
                           age : {n.age + 1}]
                 /\ n.age + 1 < MaxDelay
    <2>1. PICK n \in net : m = [n EXCEPT !.age = n.age + 1] /\ n.age + 1 < MaxDelay
      BY <1>1 DEF Caller!OlderNet
    <2>2. n \in [method : {"INVITE", "ACK", "RESPONSE"}, key : begun,
                 status : Status \cup {NoResponse}, age : 0 .. MaxDelay]
      BY DEF Types, NetTypes
    <2> QED
      BY <2>1, <2>2
  <1> QED
    BY <1>1, <1>2, <1>3, <1>4, <1>5
-----------------------------------------------------------------------------
\* The steps, with what they leave alone.

callerState == <<ict, upcalls, timedOut, latest, begun, told, stopped>>
calleeState == <<ist, offered, answered, reoffered>>

CallerActs == UNCHANGED <<calleeState, confirmed, overtaken>>
CalleeActs == UNCHANGED <<callerState, overtaken>>

Invites(k) == Caller!SendInvite(k) /\ ~ overtaken /\ CallerActs

\* A response is received, or comes too late; either may overtake another one.
Overtakes(m) ==
  /\ m.method = "RESPONSE"
  /\ Overtaken(m) => Cardinality(begun) = 1
  /\ overtaken' = (overtaken \/ Overtaken(m))
  /\ UNCHANGED <<calleeState, confirmed>>

Hears(t, m) == Overtakes(m) /\ Caller!RecvResponse(t, m.key, m.status)
HearsLate(m) == Overtakes(m) /\ UNCHANGED <<callerState, net>>

IsTold(t)   == Caller!Tell(t) /\ CallerActs
SendsAck(t) == Caller!SendAck(t) /\ CallerActs
HangsUp(c)  == Caller!HangUp(c) /\ CallerActs
Executes    == Caller!Execute /\ CallerActs
TimesOut(k) == Caller!TellTimeout(k) /\ CallerActs

IsOffered(m) ==
  /\ m.method = "INVITE"
  /\ Callee!RecvInvite(m.key)
  /\ reoffered' = reoffered \cup ({m.key} \cap offered)
  /\ UNCHANGED <<answered, confirmed>>
  /\ CalleeActs

Repeats(m) ==
  Callee!RecvInviteAgain(m.key) /\ UNCHANGED <<answered, confirmed, reoffered>> /\ CalleeActs

TakesAck(m) ==
  /\ m.method = "ACK"
  /\ Callee!RecvAck(m.key)
  /\ confirmed' = confirmed \cup
       {k \in DOMAIN ist : ~ ist[k].ack /\ (k \in DOMAIN ist' => ist'[k].ack)}
  /\ UNCHANGED <<answered, reoffered>>
  /\ CalleeActs

Answers(k, s) ==
  /\ \A r \in Status : <<k, r>> \in answered => s = r
  /\ Callee!SendResponse(k, s)
  /\ answered' = IF Final(s) THEN answered \cup {<<k, s>>} ELSE answered
  /\ UNCHANGED <<confirmed, reoffered>>
  /\ CalleeActs

CalleeWorks == Callee!Execute /\ UNCHANGED <<answered, confirmed, reoffered>> /\ CalleeActs

Rests == UNCHANGED <<callerState, calleeState, net, confirmed, overtaken>>

LEMMA StepCases ==
  ASSUME Types, [Next]_vars
  PROVE  \/ \E k \in Key : Invites(k)
         \/ \E t \in Thread, m \in net : Hears(t, m)
         \/ \E m \in net : HearsLate(m)
         \/ \E t \in Thread \cup {Stack} : IsTold(t)
         \/ \E t \in Thread \cup {Stack} : SendsAck(t)
         \/ \E c \in Call : HangsUp(c)
         \/ Executes
         \/ \E k \in Key : TimesOut(k)
         \/ \E m \in net : IsOffered(m)
         \/ \E m \in net : Repeats(m)
         \/ \E m \in net : TakesAck(m)
         \/ \E k \in offered, s \in Status : Answers(k, s)
         \/ CalleeWorks
         \/ Tick
         \/ Rests
  <1> USE DEF callerState, calleeState, CallerStep, CalleeStep, callerVars, calleeVars,
              CallerActs, CalleeActs
  <1>1. CASE CallerSendsInvite
    BY <1>1 DEF CallerSendsInvite, Invites
  <1>2. CASE CallerReceives
    <2>1. PICK t \in Thread, m \in net :
            /\ Overtakes(m)
            /\ \/ Caller!RecvResponse(t, m.key, m.status)
               \/ UNCHANGED <<callerVars, net>>
      BY <1>2 DEF CallerReceives, Overtakes
    <2> QED
      BY <2>1 DEF Hears, HearsLate
  <1>3. CASE CallerIsTold
    BY <1>3 DEF CallerIsTold, IsTold
  <1>4. CASE CallerSendsAck
    BY <1>4 DEF CallerSendsAck, SendsAck
  <1>5. CASE CallerHangsUp
    BY <1>5 DEF CallerHangsUp, HangsUp
  <1>6. CASE CallerExecutes
    BY <1>6 DEF CallerExecutes, Executes
  <1>7. CASE CallerTimesOut
    BY <1>7 DEF CallerTimesOut, TimesOut
  <1>8. CASE CalleeReceivesInvite
    BY <1>8 DEF CalleeReceivesInvite, IsOffered
  <1>9. CASE CalleeReceivesInviteAgain
    BY <1>9 DEF CalleeReceivesInviteAgain, Repeats
  <1>10. CASE CalleeReceivesAck
    <2>1. PICK m \in net :
            /\ m.method = "ACK"
            /\ Callee!RecvAck(m.key) \/ UNCHANGED <<calleeVars, net>>
            /\ confirmed' = confirmed \cup
                 {k \in DOMAIN ist : ~ ist[k].ack /\ (k \in DOMAIN ist' => ist'[k].ack)}
            /\ CalleeStep
            /\ UNCHANGED <<answered, reoffered>>
      BY <1>10 DEF CalleeReceivesAck
    <2>2. CASE Callee!RecvAck(m.key)
      BY <2>1, <2>2 DEF TakesAck
    <2>3. CASE UNCHANGED <<calleeVars, net>>
      BY <2>1, <2>3 DEF Rests
    <2> QED
      BY <2>1, <2>2, <2>3
  <1>11. CASE CalleeAnswers
    BY <1>11 DEF CalleeAnswers, Answers
  <1>12. CASE CalleeExecutes
    BY <1>12 DEF CalleeExecutes, CalleeWorks
  <1>13. CASE CalleeTimesOut
    BY <1>13 DEF CalleeTimesOut, Callee!SendTimeout, Rests
  <1>14. CASE UNCHANGED vars
    BY <1>14 DEF vars, Rests
  <1> QED
    BY <1>1, <1>2, <1>3, <1>4, <1>5, <1>6, <1>7, <1>8, <1>9, <1>10, <1>11, <1>12, <1>13,
       <1>14 DEF Next
-----------------------------------------------------------------------------
\* Types.

LEMMA NetTypesKept ==
  ASSUME Types, begun \subseteq begun',
         \A m \in net' :
           \/ m \in net
           \/ \E k \in begun', s \in Status \cup {NoResponse},
                 method \in {"INVITE", "ACK", "RESPONSE"} :
                /\ IsNew(m, method, k, s)
                /\ method = "RESPONSE" => s \in Status
  PROVE  NetTypes'
  <1> SUFFICES ASSUME NEW m \in net'
               PROVE  /\ m \in [method : {"INVITE", "ACK", "RESPONSE"}, key : begun',
                                status : Status \cup {NoResponse}, age : 0 .. MaxDelay]
                      /\ m.age < MaxDelay
                      /\ m.method = "RESPONSE" => m.status \in Status
    BY DEF NetTypes
  <1>1. CASE m \in net
    BY <1>1 DEF Types, NetTypes
  <1>2. CASE m \notin net
    <2>1. PICK k \in begun', s \in Status \cup {NoResponse},
               method \in {"INVITE", "ACK", "RESPONSE"} :
            /\ IsNew(m, method, k, s)
            /\ method = "RESPONSE" => s \in Status
      BY <1>2
    <2>2. 0 \in 0 .. MaxDelay
      BY <2>1, Constants
    <2> QED
      BY <2>1, <2>2 DEF IsNew
  <1> QED
    BY <1>1, <1>2

LEMMA CallerTypesKept ==
  ASSUME Types, begun' = begun, stopped' = stopped, DOMAIN latest' \subseteq DOMAIN latest,
         \A c \in DOMAIN latest' : latest'[c] = latest[c],
         DOMAIN ict' \subseteq DOMAIN ict,
         \A k \in DOMAIN ict' :
           ict'[k] \in CSipInviteTransaction /\ ict'[k].resend < MAX_ICT_RESEND_COUNT,
         told' \subseteq begun \X (Status \cup {SIP_REQUEST_TIME_OUT}),
         timedOut' \subseteq begun,
         \A u \in upcalls' : u \notin upcalls =>
           u \in [thread : Thread \cup {Stack}, key : begun, via : begun,
                  status : (Status \cup {SIP_REQUEST_TIME_OUT}) \ {SIP_CONNECT_ERROR},
                  phase : {"tell", "ack"}]
  PROVE  CallerTypes'
  BY DEF Types, CallerTypes

LEMMA TypesInit == Init => Types
  <1> SUFFICES ASSUME Init PROVE Types
    OBVIOUS
  <1>1. CallerTypes /\ net = {}
    BY FS_EmptySet DEF Init, Caller!Init, Caller!EmptyMap, CallerTypes
  <1>2. CalleeTypes
    <2>1. DOMAIN ist = {} /\ offered = {}
      BY DEF Init, Callee!Init, Callee!EmptyMap
    <2> QED
      BY <2>1 DEF CalleeTypes
  <1> QED
    BY <1>1, <1>2 DEF Types, NetTypes

LEMMA TypesStep ==
  ASSUME Types, Numbered, [Next]_vars
  PROVE  Types'
  <1> USE DEF callerState, calleeState, CallerActs, CalleeActs
  <1> DEFINE Upcalls ==
        [thread : Thread \cup {Stack}, key : begun, via : begun,
         status : (Status \cup {SIP_REQUEST_TIME_OUT}) \ {SIP_CONNECT_ERROR},
         phase : {"tell", "ack"}]
  <1>1. \A k \in DOMAIN ict :
          ict[k] \in CSipInviteTransaction /\ ict[k].resend < MAX_ICT_RESEND_COUNT
    BY DEF Types, CallerTypes
  <1>2. told \subseteq begun \X (Status \cup {SIP_REQUEST_TIME_OUT}) /\ timedOut \subseteq begun
    BY DEF Types, CallerTypes
  <1>3. UNCHANGED callerState => CallerTypes'
    BY DEF Types, CallerTypes
  <1>4. UNCHANGED calleeState /\ begun \subseteq begun' => CalleeTypes'
    BY DEF Types, CalleeTypes
  <1>5. UNCHANGED net /\ begun \subseteq begun' => NetTypes'
    BY DEF Types, NetTypes
  <1>6. \A r \in 0 .. MAX_ICT_RESEND_COUNT - 1 : r < MAX_ICT_RESEND_COUNT
    BY Constants
  <1> USE DEF Types
  <1>7. ASSUME NEW k \in Key, Invites(k)
        PROVE  Types'
    <2>0. Caller!SendInvite(k) /\ UNCHANGED calleeState
      BY <1>7 DEF Invites
    <2>2. begun' = begun \cup {k}
      BY <2>0, SendInviteEffect
    <2>1. CallerTypes'
      <3>1. IsFiniteSet(begun')
        BY <2>2, FS_AddElement DEF CallerTypes
      <3>2. \A j \in DOMAIN ict' :
              ict'[j] \in CSipInviteTransaction /\ ict'[j].resend < MAX_ICT_RESEND_COUNT
        <4>1. /\ DOMAIN ict' = DOMAIN ict \cup {k}
              /\ \A j \in DOMAIN ict : ict'[j] = ict[j]
              /\ ict'[k] = NewTransaction
          BY <2>0, SendInviteEffect
        <4>2. 0 < MAX_ICT_RESEND_COUNT
          BY Constants
        <4> QED
          BY <1>1, <4>1, <4>2, NewFields
      <3>3. \A c \in DOMAIN latest' : latest'[c] \in begun' /\ CallOf[latest'[c]] = c
        <4>1. /\ DOMAIN latest' = DOMAIN latest \cup {CallOf[k]}
              /\ latest'[CallOf[k]] = k
              /\ \A c \in DOMAIN latest : c # CallOf[k] => latest'[c] = latest[c]
          BY <2>0, SendInviteEffect
        <4>2. \A c \in DOMAIN latest : latest[c] \in begun /\ CallOf[latest[c]] = c
          BY DEF CallerTypes
        <4> QED
          BY <2>2, <4>1, <4>2
      <3>4. DOMAIN ict' \subseteq begun' /\ begun' \subseteq Key /\ begun \subseteq begun'
        <4>1. DOMAIN ict' = DOMAIN ict \cup {k}
          BY <2>0, SendInviteEffect
        <4> QED
          BY <2>2, <4>1, TypeFacts
      <3>5. UNCHANGED <<upcalls, timedOut, told, stopped>>
        BY <2>0, SendInviteEffect
      <3>6. /\ upcalls \subseteq [thread : Thread \cup {Stack}, key : begun', via : begun',
                         status : (Status \cup {SIP_REQUEST_TIME_OUT}) \ {SIP_CONNECT_ERROR},
                         phase : {"tell", "ack"}]
            /\ timedOut \subseteq begun'
            /\ told \subseteq begun' \X (Status \cup {SIP_REQUEST_TIME_OUT})
            /\ stopped = {}
        BY <3>4 DEF CallerTypes
      <3> QED
        BY <3>1, <3>2, <3>3, <3>4, <3>5, <3>6 DEF CallerTypes
    <2>3. NetTypes'
      <3>1. \A m \in net' : m \in net \/ IsNew(m, "INVITE", k, NoResponse)
        BY <2>0, SendInviteEffect
      <3> QED
        BY <2>2, <3>1, NetTypesKept
    <2> QED
      BY <1>4, <2>0, <2>1, <2>2, <2>3
  <1>8. ASSUME NEW t \in Thread, NEW m \in net, Hears(t, m)
        PROVE  Types'
    <2> DEFINE k == m.key
               s == m.status
    <2>1. s \in Status /\ Caller!RecvResponse(t, k, s) /\ m.method = "RESPONSE"
          /\ UNCHANGED calleeState
      BY <1>8, TypeFacts DEF Hears, Overtakes
    <2> HIDE DEF k, s
    <2>2. k \in DOMAIN ict /\ k \in begun /\ s # SIP_CONNECT_ERROR /\ begun' = begun
      BY <2>1, RespondEffect, TypeFacts
    <2>3. \A u \in upcalls' : u \notin upcalls => u \in Upcalls
      <3> SUFFICES ASSUME NEW u \in upcalls', u \notin upcalls PROVE u \in Upcalls
        OBVIOUS
      <3>1. u = [thread |-> t, key |-> k, via |-> k, status |-> s, phase |-> "tell"]
        BY <2>1, RespondEffect
      <3> QED
        BY <2>1, <2>2, <3>1
    <2>4. \A j \in DOMAIN ict' :
            ict'[j] \in CSipInviteTransaction /\ ict'[j].resend < MAX_ICT_RESEND_COUNT
      BY <1>1, <2>1, RespondEffect DEF SameButResponse
    <2>5. /\ DOMAIN ict' \subseteq DOMAIN ict
          /\ UNCHANGED <<timedOut, latest, begun, told, stopped>>
      BY <2>1, RespondEffect
    <2>6. CallerTypes'
      BY <1>2, <2>3, <2>4, <2>5, CallerTypesKept
    <2>7. NetTypes'
      BY <2>1, <2>2, RespondEffect, NetTypesKept
    <2> QED
      BY <1>4, <2>1, <2>2, <2>6, <2>7
  <1>9. ASSUME NEW m \in net, HearsLate(m)
        PROVE  Types'
    BY <1>3, <1>4, <1>5, <1>9 DEF HearsLate, Overtakes
  <1>10. ASSUME NEW t \in Thread \cup {Stack}, IsTold(t)
         PROVE  Types'
    <2>1. UNCHANGED <<ict, net, timedOut, latest, begun, stopped, calleeState>>
      BY <1>10, TellEffect DEF IsTold
    <2>2. PICK u \in upcalls :
            /\ told' = told \cup {<<u.key, u.status>>}
            /\ \A v \in upcalls' : v \notin upcalls =>
                 /\ Final(u.status) /\ CallOf[u.key] \in DOMAIN latest
                 /\ IsAckOf(v, u, latest[CallOf[u.key]])
      BY <1>10, TellEffect DEF IsTold
    <2>3. \A v \in upcalls' : v \notin upcalls => v \in Upcalls
      <3> SUFFICES ASSUME NEW v \in upcalls', v \notin upcalls PROVE v \in Upcalls
        OBVIOUS
      <3>1. CallOf[u.key] \in DOMAIN latest /\ IsAckOf(v, u, latest[CallOf[u.key]])
        BY <2>2
      <3>2. latest[CallOf[u.key]] \in begun
        BY <3>1 DEF CallerTypes
      <3>3. u.key \in begun
            /\ u.status \in (Status \cup {SIP_REQUEST_TIME_OUT}) \ {SIP_CONNECT_ERROR}
        BY TypeFacts
      <3> QED
        BY <3>1, <3>2, <3>3 DEF IsAckOf
    <2>4. told' \subseteq begun \X (Status \cup {SIP_REQUEST_TIME_OUT})
      BY <1>2, <2>2, TypeFacts
    <2>5. CallerTypes'
      BY <1>1, <1>2, <2>1, <2>3, <2>4, CallerTypesKept
    <2> QED
      BY <1>4, <1>5, <2>1, <2>5
  <1>11. ASSUME NEW t \in Thread \cup {Stack}, SendsAck(t)
         PROVE  Types'
    <2>1. UNCHANGED <<timedOut, latest, begun, told, stopped, calleeState>>
      BY <1>11, AckEffect DEF SendsAck
    <2>2. PICK u \in upcalls :
            /\ upcalls' = upcalls \ {u}
            /\ DOMAIN ict' \subseteq DOMAIN ict
            /\ \A k \in DOMAIN ict' : ict'[k] = ict[k] \/ IsAcked(ict'[k], ict[k])
            /\ \A m \in net' : m \in net \/ IsNew(m, "ACK", u.via, NoResponse)
      BY <1>11, AckEffect DEF SendsAck
    <2>3. \A k \in DOMAIN ict' :
            ict'[k] \in CSipInviteTransaction /\ ict'[k].resend < MAX_ICT_RESEND_COUNT
      BY <1>1, <2>2 DEF IsAcked
    <2>4. CallerTypes'
      BY <1>2, <2>1, <2>2, <2>3, CallerTypesKept
    <2>5. NetTypes'
      BY <2>1, <2>2, TypeFacts, NetTypesKept
    <2> QED
      BY <1>4, <2>1, <2>4, <2>5
  <1>12. ASSUME NEW c \in Call, HangsUp(c)
         PROVE  Types'
    <2>1. CallerTypes'
      BY <1>1, <1>2, <1>12, HangUpEffect, CallerTypesKept DEF HangsUp
    <2> QED
      BY <1>4, <1>5, <1>12, <2>1, HangUpEffect DEF HangsUp
  <1>13. CASE Executes
    <2>1. CallerTypes'
      BY <1>2, <1>6, <1>13, CallerExecuteEffect, CallerTypesKept, TypeFacts DEF Executes
    <2>2. begun' = begun
      BY <1>13, CallerExecuteEffect DEF Executes
    <2>3. NetTypes'
      BY <1>13, <2>2, CallerExecuteEffect, NetTypesKept, TypeFacts DEF Executes
    <2> QED
      BY <1>4, <1>13, <2>1, <2>2, <2>3 DEF Executes
  <1>14. ASSUME NEW k \in Key, TimesOut(k)
         PROVE  Types'
    <2>1. /\ k \in timedOut /\ timedOut' \subseteq begun
          /\ UNCHANGED <<ict, net, latest, begun, told, stopped, calleeState>>
      BY <1>2, <1>14, TellTimeoutEffect DEF TimesOut
    <2>2. \A u \in upcalls' : u \notin upcalls => u \in Upcalls
      BY <1>2, <1>14, TellTimeoutEffect, Constants DEF TimesOut
    <2>3. CallerTypes'
      BY <1>1, <1>2, <2>1, <2>2, CallerTypesKept
    <2> QED
      BY <1>4, <1>5, <2>1, <2>3
  <1>15. ASSUME NEW m \in net, IsOffered(m)
         PROVE  Types'
    <2>1. m.key \in begun /\ Callee!RecvInvite(m.key) /\ UNCHANGED callerState
      BY <1>15, TypeFacts DEF IsOffered
    <2>2. CalleeTypes'
      <3>1. /\ DOMAIN ist' = DOMAIN ist \cup {m.key}
            /\ \A j \in DOMAIN ist : ist'[j] = ist[j]
            /\ ist'[m.key] \in CSipInviteTransaction
            /\ ist'[m.key].response = SIP_TRYING /\ ist'[m.key].resend = 0
            /\ offered' = offered \cup {m.key}
        BY <2>1, OfferEffect
      <3>2. SIP_TRYING \in Status /\ 0 < MAX_ICT_RESEND_COUNT
        BY Constants
      <3> QED
        BY <2>1, <3>1, <3>2 DEF CalleeTypes
    <2>3. NetTypes'
      BY <2>1, OfferEffect, Constants, NetTypesKept
    <2> QED
      BY <1>3, <2>1, <2>2, <2>3
  <1>16. ASSUME NEW m \in net, Repeats(m)
         PROVE  Types'
    <2>1. /\ UNCHANGED callerState /\ UNCHANGED calleeState
          /\ m.key \in DOMAIN ist
          /\ \A n \in net' : n \in net \/ IsNew(n, "RESPONSE", m.key, ist[m.key].response)
      BY <1>16, RepeatEffect DEF Repeats
    <2>2. NetTypes'
      BY <2>1, TypeFacts, NetTypesKept
    <2> QED
      BY <1>3, <1>4, <2>1, <2>2
  <1>17. ASSUME NEW m \in net, TakesAck(m)
         PROVE  Types'
    <2>1. m.key \in Key /\ Callee!RecvAck(m.key) /\ UNCHANGED callerState
      BY <1>17, TypeFacts DEF TakesAck
    <2>2. UNCHANGED <<net, offered>>
      BY <2>1, TakeAckEffect
    <2>3. CalleeTypes'
      <3>1. DOMAIN ist' \subseteq DOMAIN ist
        BY <2>1, TakeAckEffect
      <3>2. \A k \in DOMAIN ist' : ist'[k] = ist[k] \/ IsAcked(ist'[k], ist[k])
        BY <2>1, TakeAckEffect
      <3>3. 0 # Off
        BY Constants
      <3> QED
        BY <2>1, <2>2, <3>1, <3>2, <3>3 DEF CalleeTypes, IsAcked
    <2> QED
      BY <1>3, <1>5, <2>1, <2>2, <2>3
  <1>18. ASSUME NEW k \in offered, NEW s \in Status, Answers(k, s)
         PROVE  Types'
    <2>1. Callee!SendResponse(k, s) /\ UNCHANGED callerState
      BY <1>18 DEF Answers
    <2>2. CalleeTypes'
      BY <2>1, AnswerEffect DEF CalleeTypes
    <2>3. NetTypes'
      BY <2>1, AnswerEffect, TypeFacts, NetTypesKept
    <2> QED
      BY <1>3, <2>1, <2>2, <2>3
  <1>19. CASE CalleeWorks
    <2>1. Callee!Execute /\ UNCHANGED callerState
      BY <1>19 DEF CalleeWorks
    <2>2. CalleeTypes'
      BY <2>1, CalleeExecuteEffect DEF CalleeTypes
    <2>3. NetTypes'
      BY <2>1, CalleeExecuteEffect, TypeFacts, NetTypesKept
    <2> QED
      BY <1>3, <2>1, <2>2, <2>3
  <1>20. CASE Tick
    <2>1. CallerTypes'
      BY <1>1, <1>2, <1>20, TickEffect, CallerTypesKept DEF IsOlder
    <2>2. CalleeTypes'
      <3>1. \A k \in DOMAIN ist : ist'[k].stop = Off => ist[k].stop = Off
        BY <1>20, TickEffect, TypeFacts, Ages DEF IsOlder
      <3> QED
        BY <1>20, <3>1, TickEffect DEF CalleeTypes, IsOlder
    <2>3. NetTypes'
      <3> SUFFICES ASSUME NEW m \in net'
                   PROVE  /\ m \in [method : {"INVITE", "ACK", "RESPONSE"}, key : begun',
                                    status : Status \cup {NoResponse}, age : 0 .. MaxDelay]
                          /\ m.age < MaxDelay
                          /\ m.method = "RESPONSE" => m.status \in Status
        BY DEF NetTypes
      <3>1. PICK n \in net :
              /\ m \in [method : {n.method}, key : {n.key}, status : {n.status},
                        age : {n.age + 1}]
              /\ n.age + 1 < MaxDelay
        BY <1>20, TickEffect
      <3>2. n \in [method : {"INVITE", "ACK", "RESPONSE"}, key : begun,
                   status : Status \cup {NoResponse}, age : 0 .. MaxDelay]
            /\ (n.method = "RESPONSE" => n.status \in Status)
        BY DEF NetTypes
      <3>3. n.age + 1 \in 0 .. MaxDelay
        BY <3>1, <3>2, Constants
      <3>4. begun' = begun
        BY <1>20, TickEffect
      <3> QED
        BY <3>1, <3>2, <3>3, <3>4
    <2> QED
      BY <2>1, <2>2, <2>3
  <1>21. CASE Rests
    BY <1>3, <1>4, <1>5, <1>21 DEF Rests
  <1> QED
    BY <1>7, <1>8, <1>9, <1>10, <1>11, <1>12, <1>13, <1>14, <1>15, <1>16, <1>17, <1>18, <1>19,
       <1>20, <1>21, StepCases
-----------------------------------------------------------------------------
\* What a step changes, table by table.

\* The steps that change each list.
LEMMA IctUntouched ==
  ASSUME Types, [Next]_vars
  PROVE  \/ UNCHANGED ict
         \/ \E k \in Key : Invites(k)
         \/ \E t \in Thread, m \in net : Hears(t, m)
         \/ \E t \in Thread \cup {Stack} : SendsAck(t)
         \/ Executes
         \/ Tick
  BY StepCases, TellEffect, HangUpEffect, TellTimeoutEffect
     DEF HearsLate, IsTold, HangsUp, TimesOut, IsOffered, Repeats, TakesAck, Answers, CalleeWorks,
         Rests, CalleeActs, callerState

LEMMA IstUntouched ==
  ASSUME Types, [Next]_vars
  PROVE  \/ UNCHANGED ist
         \/ \E m \in net : IsOffered(m)
         \/ \E m \in net : TakesAck(m)
         \/ \E k \in offered, s \in Status : Answers(k, s)
         \/ CalleeWorks
         \/ Tick
  BY StepCases, RepeatEffect
     DEF Invites, Hears, HearsLate, Overtakes, IsTold, SendsAck, HangsUp, Executes, TimesOut,
         Repeats, Rests, CallerActs, calleeState

\* A client transaction begins with SendInvite, is not started again once it stopped, and
\* gets its response from the network.
LEMMA HeldStep ==
  ASSUME Types, [Next]_vars, NEW k \in DOMAIN ict'
  PROVE  \/ Invites(k) /\ k \notin begun /\ ict'[k] = NewTransaction
         \/ /\ k \in DOMAIN ict
            /\ ict'[k].stop = Off => ict[k].stop = Off
            /\ \/ /\ ict'[k].response = ict[k].response
                  /\ ict'[k].status = ict[k].status
               \/ \E t \in Thread, m \in net :
                    /\ Hears(t, m) /\ m.key = k
                    /\ ict'[k].response = m.status /\ ict'[k].status = m.status
            /\ Tick \/ ict'[k].start = ict[k].start
            /\ ict'[k].resend = ict[k].resend \/ ict'[k].resend = ict[k].resend + 1
  <1> DEFINE Kept == /\ k \in DOMAIN ict
                     /\ ict'[k].stop = Off => ict[k].stop = Off
                     /\ ict'[k].response = ict[k].response
                     /\ ict'[k].status = ict[k].status
                     /\ Tick \/ ict'[k].start = ict[k].start
                     /\ ict'[k].resend = ict[k].resend \/ ict'[k].resend = ict[k].resend + 1
  <1>1. CASE UNCHANGED ict
    BY <1>1
  <1>2. ASSUME NEW i \in Key, Invites(i)
        PROVE  \/ Invites(k) /\ k \notin begun /\ ict'[k] = NewTransaction
               \/ Kept
    <2>1. /\ i \notin begun /\ DOMAIN ict' = DOMAIN ict \cup {i}
          /\ \A j \in DOMAIN ict : ict'[j] = ict[j]
          /\ ict'[i] = NewTransaction
      BY <1>2, SendInviteEffect DEF Invites
    <2> QED
      BY <1>2, <2>1
  <1>3. ASSUME NEW t \in Thread, NEW m \in net, Hears(t, m), ~ Kept
        PROVE  /\ k \in DOMAIN ict
               /\ ict'[k].stop = Off => ict[k].stop = Off
               /\ m.key = k
               /\ ict'[k].response = m.status /\ ict'[k].status = m.status
               /\ ict'[k].start = ict[k].start
               /\ ict'[k].resend = ict[k].resend
    <2>1. m.status \in Status /\ Caller!RecvResponse(t, m.key, m.status)
      BY <1>3, TypeFacts DEF Hears, Overtakes
    <2>2. /\ DOMAIN ict' = DOMAIN ict
          /\ \A j \in DOMAIN ict : j # m.key => ict'[j] = ict[j]
      BY <2>1, RespondEffect
    <2>3. m.key = k
      BY <1>3, <2>2
    <2>4. /\ SameButResponse(ict'[m.key], ict[m.key])
          /\ \/ ict'[m.key].response = m.status /\ ict'[m.key].status = m.status
             \/ /\ ict'[m.key].response = ict[m.key].response
                /\ ict'[m.key].status = ict[m.key].status
      BY <2>1, RespondEffect
    <2> QED
      BY <1>3, <2>2, <2>3, <2>4 DEF SameButResponse
  <1>4. ASSUME NEW t \in Thread \cup {Stack}, SendsAck(t)
        PROVE  Kept
    <2>1. /\ DOMAIN ict' \subseteq DOMAIN ict
          /\ \A j \in DOMAIN ict' : ict'[j] = ict[j] \/ IsAcked(ict'[j], ict[j])
      BY <1>4, AckEffect DEF SendsAck
    <2>2. 0 # Off
      BY Constants
    <2> QED
      BY <2>1, <2>2 DEF IsAcked
  <1>5. CASE Executes
    BY <1>5, CallerExecuteEffect DEF Executes
  <1>6. CASE Tick
    <2>1. k \in DOMAIN ict /\ IsOlder(ict'[k], ict[k]) /\ ict[k].stop \in Age
      BY <1>6, TickEffect, TypeFacts
    <2> QED
      BY <1>6, <2>1, Ages DEF IsOlder
  <1> QED
    BY <1>1, <1>2, <1>3, <1>4, <1>5, <1>6, IctUntouched

\* It takes its own ACK or, when the transaction of that is gone, one of its call.
LEMMA AckedStep ==
  ASSUME Types, [Next]_vars, NEW k \in DOMAIN ict', ict'[k].ack
  PROVE  \/ k \in DOMAIN ict /\ ict[k].ack
         \/ /\ k \in DOMAIN ict
            /\ \E u \in upcalls :
                 /\ u.phase = "ack"
                 /\ \/ k = u.via
                    \/ u.via \notin DOMAIN ict /\ CallOf[k] = CallOf[u.via]
  <1> DEFINE Kept == k \in DOMAIN ict /\ ict[k].ack = ict'[k].ack
  <1>1. CASE UNCHANGED ict
    BY <1>1
  <1>2. ASSUME NEW i \in Key, Invites(i)
        PROVE  Kept
    <2>1. /\ DOMAIN ict' = DOMAIN ict \cup {i}
          /\ \A j \in DOMAIN ict : ict'[j] = ict[j]
          /\ ict'[i] = NewTransaction
      BY <1>2, SendInviteEffect DEF Invites
    <2>2. k # i
      BY <2>1, NewFields
    <2> QED
      BY <2>1, <2>2
  <1>3. ASSUME NEW t \in Thread, NEW m \in net, Hears(t, m)
        PROVE  Kept
    <2>1. m.status \in Status /\ Caller!RecvResponse(t, m.key, m.status)
      BY <1>3, TypeFacts DEF Hears, Overtakes
    <2> QED
      BY <2>1, RespondEffect DEF SameButResponse
  <1>4. ASSUME NEW t \in Thread \cup {Stack}, SendsAck(t), ~ Kept
        PROVE  /\ k \in DOMAIN ict
               /\ \E u \in upcalls :
                    /\ u.phase = "ack"
                    /\ \/ k = u.via
                       \/ u.via \notin DOMAIN ict /\ CallOf[k] = CallOf[u.via]
    <2>1. PICK u \in upcalls :
            /\ u.phase = "ack"
            /\ DOMAIN ict' \subseteq DOMAIN ict
            /\ \A j \in DOMAIN ict' :
                 \/ ict'[j] = ict[j]
                 \/ j = u.via
                 \/ u.via \notin DOMAIN ict /\ CallOf[j] = CallOf[u.via]
      BY <1>4, AckEffect DEF SendsAck
    <2> QED
      BY <1>4, <2>1
  <1>5. CASE Executes
    BY <1>5, CallerExecuteEffect DEF Executes
  <1>6. CASE Tick
    BY <1>6, TickEffect DEF IsOlder
  <1> QED
    BY <1>1, <1>2, <1>3, <1>4, <1>5, <1>6, IctUntouched

\* A server transaction begins with RecvInvite, gets its response from the user agent, and
\* stops by its ACK or when Execute gives up.
Served(k) ==
  \/ /\ \E m \in net : IsOffered(m) /\ m.key = k
     /\ k \notin DOMAIN ist
     /\ ist'[k].response = SIP_TRYING /\ ist'[k].ack = FALSE
     /\ ist'[k].start = 0 /\ ist'[k].stop = Off
  \/ /\ k \in DOMAIN ist
     /\ \/ ist'[k].response = ist[k].response
        \/ \E s \in Status : Answers(k, s) /\ ist'[k].response = s
     /\ \/ ist'[k].ack = ist[k].ack /\ ist'[k].stop = ist[k].stop
        \/ ist'[k].ack /\ ist'[k].stop = 0 /\ \E m \in net : TakesAck(m) /\ m.key = k
        \/ /\ ist'[k].ack = ist[k].ack
           /\ CalleeWorks /\ ist[k].stop = Off /\ ist'[k].stop = 0
           /\ ist[k].start >= LastTime
        \/ Tick /\ ist'[k].ack = ist[k].ack
     /\ Tick \/ ist'[k].start \in {0, ist[k].start}

LEMMA ServedStep ==
  ASSUME Types, Numbered, [Next]_vars, NEW k \in DOMAIN ist'
  PROVE  Served(k)
  <1> USE DEF Served
  <1>1. CASE UNCHANGED ist
    BY <1>1
  <1>2. ASSUME NEW m \in net, IsOffered(m)
        PROVE  Served(k)
    <2>1. Callee!RecvInvite(m.key)
      BY <1>2 DEF IsOffered
    <2>2. /\ m.key \notin DOMAIN ist
          /\ DOMAIN ist' = DOMAIN ist \cup {m.key}
          /\ \A j \in DOMAIN ist : ist'[j] = ist[j]
          /\ ist'[m.key].response = SIP_TRYING /\ ist'[m.key].ack = FALSE
          /\ ist'[m.key].start = 0 /\ ist'[m.key].stop = Off
      BY <2>1, OfferEffect
    <2>3. CASE m.key = k
      BY <1>2, <2>2, <2>3
    <2>4. CASE m.key # k
      BY <2>2, <2>4
    <2> QED
      BY <2>3, <2>4
  <1>3. ASSUME NEW m \in net, TakesAck(m)
        PROVE  Served(k)
    <2>1. m.key \in Key /\ Callee!RecvAck(m.key)
      BY <1>3, TypeFacts DEF TakesAck
    <2>2. /\ DOMAIN ist' \subseteq DOMAIN ist
          /\ \A j \in DOMAIN ist' : j # m.key => ist'[j] = ist[j]
          /\ m.key \in DOMAIN ist' =>
               ist'[m.key] = ist[m.key] \/ IsAcked(ist'[m.key], ist[m.key])
      BY <2>1, TakeAckEffect
    <2>3. CASE ist'[k] = ist[k]
      BY <2>2, <2>3
    <2>4. CASE m.key = k /\ IsAcked(ist'[k], ist[k])
      BY <1>3, <2>2, <2>4 DEF IsAcked
    <2> QED
      BY <2>2, <2>3, <2>4
  <1>4. ASSUME NEW j \in offered, NEW s \in Status, Answers(j, s)
        PROVE  Served(k)
    <2>1. Callee!SendResponse(j, s)
      BY <1>4 DEF Answers
    <2>2. /\ j \in DOMAIN ist /\ DOMAIN ist' = DOMAIN ist
          /\ \A i \in DOMAIN ist : i # j => ist'[i] = ist[i]
          /\ ist'[j].response = s
          /\ ist'[j].ack = ist[j].ack
          /\ ist'[j].start \in {0, ist[j].start} /\ ist'[j].stop = ist[j].stop
      BY <2>1, AnswerEffect
    <2>3. CASE j = k
      BY <1>4, <2>2, <2>3
    <2>4. CASE j # k
      BY <2>2, <2>4
    <2> QED
      BY <2>3, <2>4
  <1>5. CASE CalleeWorks
    <2>1. Callee!Execute
      BY <1>5 DEF CalleeWorks
    <2>2. /\ k \in DOMAIN ist
          /\ ist'[k].response = ist[k].response
          /\ ist'[k].ack = ist[k].ack /\ ist'[k].start = ist[k].start
          /\ \/ ist'[k].stop = ist[k].stop
             \/ ist[k].stop = Off /\ ist'[k].stop = 0 /\ ist[k].start >= LastTime
      BY <2>1, CalleeExecuteEffect
    <2> QED
      BY <1>5, <2>2
  <1>6. CASE Tick
    BY <1>6, TickEffect DEF IsOlder
  <1> QED
    BY <1>1, <1>2, <1>3, <1>4, <1>5, <1>6, IstUntouched

\* It is deleted by the ACK of a 401, or after it stopped.
LEMMA ForgottenStep ==
  ASSUME Types, Numbered, [Next]_vars, NEW k \in DOMAIN ist, k \notin DOMAIN ist'
  PROVE  \/ ist[k].response = SIP_UNAUTHORIZED /\ \E m \in net : TakesAck(m) /\ m.key = k
         \/ CalleeWorks /\ ist[k].stop # Off /\ ist[k].stop >= StopTime
  <1>1. ASSUME NEW m \in net, IsOffered(m)
        PROVE  FALSE
    BY <1>1, OfferEffect DEF IsOffered
  <1>2. ASSUME NEW m \in net, TakesAck(m)
        PROVE  m.key = k /\ ist[k].response = SIP_UNAUTHORIZED
    <2>1. m.key \in Key /\ Callee!RecvAck(m.key)
      BY <1>2, TypeFacts DEF TakesAck
    <2> QED
      BY <2>1, TakeAckEffect
  <1>3. ASSUME NEW j \in offered, NEW s \in Status, Answers(j, s)
        PROVE  FALSE
    BY <1>3, AnswerEffect DEF Answers
  <1>4. CASE CalleeWorks
    BY <1>4, CalleeExecuteEffect DEF CalleeWorks
  <1>5. CASE Tick
    BY <1>5, TickEffect
  <1> QED
    BY <1>1, <1>2, <1>3, <1>4, <1>5, IstUntouched

LEMMA UpcallsUntouched ==
  ASSUME Types, [Next]_vars
  PROVE  \/ UNCHANGED <<upcalls, told>>
         \/ \E t \in Thread, m \in net : Hears(t, m)
         \/ \E t \in Thread \cup {Stack} : IsTold(t)
         \/ \E t \in Thread \cup {Stack} : SendsAck(t)
         \/ \E k \in Key : TimesOut(k)
  BY StepCases, SendInviteEffect, HangUpEffect, CallerExecuteEffect, TickEffect
     DEF Invites, HearsLate, HangsUp, Executes, IsOffered, Repeats, TakesAck, Answers,
         CalleeWorks, Rests, CalleeActs, callerState

\* A callback begins with a response or with the 408 of Execute, and goes on with the ACK
\* of a final response.
LEMMA NewUpcall ==
  ASSUME Types, [Next]_vars, NEW u \in upcalls', u \notin upcalls
  PROVE  \/ /\ u.phase = "tell" /\ u.via = u.key
            /\ u.key \in DOMAIN ict
            /\ ict[u.key].response = NoResponse \/ ict[u.key].status # u.status
            /\ u.key \in DOMAIN ict'
            /\ ict'[u.key].response = u.status /\ ict'[u.key].status = u.status
            /\ \E t \in Thread, m \in net : Hears(t, m) /\ m.key = u.key /\ m.status = u.status
         \/ /\ u.phase = "ack"
            /\ \E w \in upcalls :
                 /\ u.key = w.key /\ u.status = w.status
                 /\ w.phase = "tell" /\ Final(w.status)
                 /\ CallOf[w.key] \in DOMAIN latest /\ u.via = latest[CallOf[w.key]]
                 /\ told' = told \cup {<<w.key, w.status>>}
         \/ /\ u.phase = "tell" /\ u.via = u.key
            /\ u.status = SIP_REQUEST_TIME_OUT
            /\ u.key \in timedOut
            /\ \E k \in Key : TimesOut(k) /\ k = u.key
  <1>1. ASSUME NEW t \in Thread, NEW m \in net, Hears(t, m)
        PROVE  /\ u.phase = "tell" /\ u.via = u.key
               /\ u.key \in DOMAIN ict
               /\ ict[u.key].response = NoResponse \/ ict[u.key].status # u.status
               /\ u.key \in DOMAIN ict'
               /\ ict'[u.key].response = u.status /\ ict'[u.key].status = u.status
               /\ m.key = u.key /\ m.status = u.status
    <2> DEFINE k == m.key
               s == m.status
    <2>1. s \in Status /\ Caller!RecvResponse(t, k, s)
      BY <1>1, TypeFacts DEF Hears, Overtakes
    <2>2. u.key = k /\ u.status = s => m.key = u.key /\ m.status = u.status
      OBVIOUS
    <2> HIDE DEF k, s
    <2>3. /\ k \in DOMAIN ict /\ DOMAIN ict' = DOMAIN ict
          /\ ict[k].response = NoResponse \/ ict[k].status # s
          /\ ict'[k].response = s /\ ict'[k].status = s
          /\ u = [thread |-> t, key |-> k, via |-> k, status |-> s, phase |-> "tell"]
      BY <2>1, RespondEffect
    <2>4. u.key = k /\ u.status = s /\ u.via = k /\ u.phase = "tell"
      BY <2>3
    <2> QED
      BY <2>2, <2>3, <2>4
  <1>2. ASSUME NEW t \in Thread \cup {Stack}, IsTold(t)
        PROVE  /\ u.phase = "ack"
               /\ \E w \in upcalls :
                    /\ u.key = w.key /\ u.status = w.status
                    /\ w.phase = "tell" /\ Final(w.status)
                    /\ CallOf[w.key] \in DOMAIN latest /\ u.via = latest[CallOf[w.key]]
                    /\ told' = told \cup {<<w.key, w.status>>}
    <2>1. PICK w \in upcalls :
            /\ w.phase = "tell"
            /\ told' = told \cup {<<w.key, w.status>>}
            /\ Final(w.status) /\ CallOf[w.key] \in DOMAIN latest
            /\ IsAckOf(u, w, latest[CallOf[w.key]])
      BY <1>2, TellEffect DEF IsTold
    <2> QED
      BY <2>1 DEF IsAckOf
  <1>3. ASSUME NEW t \in Thread \cup {Stack}, SendsAck(t)
        PROVE  FALSE
    BY <1>3, AckEffect DEF SendsAck
  <1>4. ASSUME NEW k \in Key, TimesOut(k)
        PROVE  /\ u.phase = "tell" /\ u.via = u.key
               /\ u.status = SIP_REQUEST_TIME_OUT
               /\ u.key \in timedOut
               /\ k = u.key
    <2>1. k \in timedOut
          /\ u = [thread |-> Stack, key |-> k, via |-> k,
                  status |-> SIP_REQUEST_TIME_OUT, phase |-> "tell"]
      BY <1>4, TellTimeoutEffect DEF TimesOut
    <2> QED
      BY <2>1
  <1>5. CASE UNCHANGED upcalls
    BY <1>5
  <1> QED
    BY <1>1, <1>2, <1>3, <1>4, <1>5, UpcallsUntouched

\* What is told was called back, and stays told.
LEMMA ToldStep ==
  ASSUME Types, [Next]_vars
  PROVE  \/ told' = told
         \/ \E t \in Thread \cup {Stack}, u \in upcalls :
              /\ IsTold(t) /\ u.phase = "tell"
              /\ told' = told \cup {<<u.key, u.status>>}
              /\ upcalls \ {u} \subseteq upcalls'
              /\ Final(u.status) /\ CallOf[u.key] \in DOMAIN latest =>
                   \E v \in upcalls' : v.key = u.key /\ v.phase = "ack"
  <1>1. ASSUME NEW t \in Thread, NEW m \in net, Hears(t, m)
        PROVE  told' = told
    <2>1. m.status \in Status /\ Caller!RecvResponse(t, m.key, m.status)
      BY <1>1, TypeFacts DEF Hears, Overtakes
    <2> QED
      BY <2>1, RespondEffect
  <1>2. ASSUME NEW t \in Thread \cup {Stack}, IsTold(t)
        PROVE  \E u \in upcalls :
                 /\ u.phase = "tell"
                 /\ told' = told \cup {<<u.key, u.status>>}
                 /\ upcalls \ {u} \subseteq upcalls'
                 /\ Final(u.status) /\ CallOf[u.key] \in DOMAIN latest =>
                      \E v \in upcalls' : v.key = u.key /\ v.phase = "ack"
    BY <1>2, TellEffect DEF IsTold
  <1>3. ASSUME NEW t \in Thread \cup {Stack}, SendsAck(t)
        PROVE  told' = told
    BY <1>3, AckEffect DEF SendsAck
  <1>4. ASSUME NEW k \in Key, TimesOut(k)
        PROVE  told' = told
    BY <1>4, TellTimeoutEffect DEF TimesOut
  <1> QED
    BY <1>1, <1>2, <1>3, <1>4, UpcallsUntouched

LEMMA ToldStays ==
  ASSUME Types, [Next]_vars
  PROVE  /\ told \subseteq told'
         /\ \A k \in Key : Caller!ToldFinal(k) => Caller!ToldFinal(k)'
  <1>1. told \subseteq told'
    BY ToldStep
  <1> QED
    BY <1>1 DEF Caller!ToldFinal

\* Execute alone makes an INVITE time out.
LEMMA TimedOutStep ==
  ASSUME Types, [Next]_vars, NEW k \in timedOut', k \notin timedOut
  PROVE  k \in DOMAIN ict /\ k \notin DOMAIN ict' /\ Unstopped(k)
  <1>1. CASE UNCHANGED timedOut
    BY <1>1
  <1>2. ASSUME NEW t \in Thread, NEW m \in net, Hears(t, m)
        PROVE  UNCHANGED timedOut
    <2>1. m.status \in Status /\ Caller!RecvResponse(t, m.key, m.status)
      BY <1>2, TypeFacts DEF Hears, Overtakes
    <2> QED
      BY <2>1, RespondEffect
  <1>3. CASE Executes
    BY <1>3, CallerExecuteEffect DEF Executes
  <1>4. ASSUME NEW j \in Key, TimesOut(j)
        PROVE  FALSE
    BY <1>4, TellTimeoutEffect DEF TimesOut
  <1>5. \/ UNCHANGED timedOut
        \/ \E t \in Thread, m \in net : Hears(t, m)
        \/ Executes
        \/ \E j \in Key : TimesOut(j)
    BY StepCases, SendInviteEffect, TellEffect, AckEffect, HangUpEffect, TickEffect
       DEF Invites, HearsLate, IsTold, SendsAck, HangsUp, IsOffered, Repeats, TakesAck, Answers,
           CalleeWorks, Rests, CalleeActs, callerState
  <1> QED
    BY <1>1, <1>2, <1>3, <1>4, <1>5

\* INVITEs begin with SendInvite, which is what changes the dialogs but for their end.
LEMMA BegunStep ==
  ASSUME Types, [Next]_vars
  PROVE  \/ \E k \in Key : Invites(k)
         \/ /\ begun' = begun
            /\ DOMAIN latest' \subseteq DOMAIN latest
            /\ \A c \in DOMAIN latest' : latest'[c] = latest[c]
  <1>1. ASSUME NEW t \in Thread, NEW m \in net, Hears(t, m)
        PROVE  UNCHANGED <<begun, latest>>
    <2>1. m.status \in Status /\ Caller!RecvResponse(t, m.key, m.status)
      BY <1>1, TypeFacts DEF Hears, Overtakes
    <2> QED
      BY <2>1, RespondEffect
  <1>2. ASSUME NEW c \in Call, HangsUp(c)
        PROVE  /\ begun' = begun
               /\ DOMAIN latest' \subseteq DOMAIN latest
               /\ \A d \in DOMAIN latest' : latest'[d] = latest[d]
    BY <1>2, HangUpEffect DEF HangsUp
  <1>3. \/ UNCHANGED <<begun, latest>>
        \/ \E k \in Key : Invites(k)
        \/ \E t \in Thread, m \in net : Hears(t, m)
        \/ \E c \in Call : HangsUp(c)
    BY StepCases, TellEffect, AckEffect, CallerExecuteEffect, TellTimeoutEffect, TickEffect
       DEF HearsLate, IsTold, SendsAck, Executes, TimesOut, IsOffered, Repeats, TakesAck, Answers,
           CalleeWorks, Rests, CalleeActs, callerState
  <1> QED
    BY <1>1, <1>2, <1>3

\* What the callee answered and what it was offered stays, and only its user agent and the
\* INVITEs that come add to it.
Recorded ==
  /\ answered \subseteq answered' /\ offered \subseteq offered'
  /\ \A x \in answered' : x \notin answered =>
       \E k \in offered, s \in Status : Answers(k, s) /\ Final(s) /\ x = <<k, s>>
  /\ \A k \in offered' : k \notin offered =>
       \E m \in net : IsOffered(m) /\ m.key = k
  /\ \A k \in reoffered' : k \notin reoffered =>
       k \in offered /\ \E m \in net : IsOffered(m) /\ m.key = k

LEMMA AnsweredStep ==
  ASSUME Types, Numbered, [Next]_vars
  PROVE  Recorded
  <1> USE DEF Recorded
  <1>1. CASE UNCHANGED <<answered, offered, reoffered>>
    BY <1>1
  <1>2. ASSUME NEW m \in net, IsOffered(m)
        PROVE  Recorded
    <2>1. /\ answered' = answered /\ offered' = offered \cup {m.key}
          /\ reoffered' = reoffered \cup ({m.key} \cap offered)
      BY <1>2, OfferEffect DEF IsOffered
    <2> QED
      BY <1>2, <2>1
  <1>3. ASSUME NEW k \in offered, NEW s \in Status, Answers(k, s)
        PROVE  Recorded
    <2>1. offered' = offered /\ reoffered' = reoffered
      BY <1>3, AnswerEffect DEF Answers
    <2>2. answered' = IF Final(s) THEN answered \cup {<<k, s>>} ELSE answered
      BY <1>3 DEF Answers
    <2> QED
      BY <1>3, <2>1, <2>2
  <1>4. ASSUME NEW m \in net, TakesAck(m)
        PROVE  UNCHANGED <<answered, offered, reoffered>>
    <2>1. m.key \in Key /\ Callee!RecvAck(m.key)
      BY <1>4, TypeFacts DEF TakesAck
    <2> QED
      BY <1>4, <2>1, TakeAckEffect DEF TakesAck
  <1>5. \/ UNCHANGED <<answered, offered, reoffered>>
        \/ \E m \in net : IsOffered(m)
        \/ \E m \in net : TakesAck(m)
        \/ \E k \in offered, s \in Status : Answers(k, s)
    BY StepCases, RepeatEffect, CalleeExecuteEffect, TickEffect
       DEF Invites, Hears, HearsLate, Overtakes, IsTold, SendsAck, HangsUp, Executes, TimesOut,
           Repeats, CalleeWorks, Rests, CallerActs, calleeState
  <1> QED
    BY <1>1, <1>2, <1>3, <1>4, <1>5
\* A datagram was sent before, or is sent by this step.
LEMMA NetStep ==
  ASSUME Types, Numbered, [Next]_vars, ~ Tick, NEW m \in net', m \notin net
  PROVE  /\ m.age = 0
         /\ \/ m.method = "INVITE" /\ (Invites(m.key) \/ (Executes /\ Waits(m.key)))
            \/ /\ m.method = "ACK"
               /\ \/ m.key \in DOMAIN ict /\ ict[m.key].ack
                  \/ \E u \in upcalls : u.phase = "ack" /\ u.via = m.key
            \/ /\ m.method = "RESPONSE"
               /\ \/ m.status = SIP_TRYING
                  \/ m.key \in DOMAIN ist /\ m.status = ist[m.key].response
                  \/ m.key \in offered /\ m.status \in Status /\ Answers(m.key, m.status)
  <1> USE DEF IsNew
  <1>1. ASSUME NEW k \in Key, Invites(k)
        PROVE  m.age = 0 /\ m.method = "INVITE" /\ m.key = k
    BY <1>1, SendInviteEffect DEF Invites
  <1>2. ASSUME NEW t \in Thread, NEW n \in net, Hears(t, n)
        PROVE  m.age = 0 /\ m.method = "ACK" /\ m.key \in DOMAIN ict /\ ict[m.key].ack
    <2>1. n.status \in Status /\ Caller!RecvResponse(t, n.key, n.status)
      BY <1>2, TypeFacts DEF Hears, Overtakes
    <2>2. n.key \in DOMAIN ict /\ ict[n.key].ack /\ IsNew(m, "ACK", n.key, NoResponse)
      BY <2>1, RespondEffect
    <2> QED
      BY <2>2
  <1>3. ASSUME NEW t \in Thread \cup {Stack}, SendsAck(t)
        PROVE  /\ m.age = 0 /\ m.method = "ACK"
               /\ \E u \in upcalls : u.phase = "ack" /\ u.via = m.key
    <2>1. PICK u \in upcalls : u.phase = "ack" /\ IsNew(m, "ACK", u.via, NoResponse)
      BY <1>3, AckEffect DEF SendsAck
    <2> QED
      BY <2>1
  <1>4. CASE Executes
    <2>1. PICK k \in DOMAIN ict : IsNew(m, "INVITE", k, NoResponse) /\ Waits(k)
      BY <1>4, CallerExecuteEffect DEF Executes
    <2> QED
      BY <1>4, <2>1
  <1>5. ASSUME NEW n \in net, IsOffered(n)
        PROVE  m.age = 0 /\ m.method = "RESPONSE" /\ m.status = SIP_TRYING
    BY <1>5, OfferEffect DEF IsOffered
  <1>6. ASSUME NEW n \in net, Repeats(n)
        PROVE  /\ m.age = 0 /\ m.method = "RESPONSE"
               /\ m.key \in DOMAIN ist /\ m.status = ist[m.key].response
    <2>1. n.key \in DOMAIN ist /\ IsNew(m, "RESPONSE", n.key, ist[n.key].response)
      BY <1>6, RepeatEffect DEF Repeats
    <2> QED
      BY <2>1
  <1>7. ASSUME NEW n \in net, TakesAck(n)
        PROVE  FALSE
    <2>1. n.key \in Key /\ Callee!RecvAck(n.key)
      BY <1>7, TypeFacts DEF TakesAck
    <2> QED
      BY <2>1, TakeAckEffect
  <1>8. ASSUME NEW k \in offered, NEW s \in Status, Answers(k, s)
        PROVE  /\ m.age = 0 /\ m.method = "RESPONSE"
               /\ m.key \in offered /\ m.status \in Status /\ Answers(m.key, m.status)
    <2>1. IsNew(m, "RESPONSE", k, s)
      BY <1>8, AnswerEffect DEF Answers
    <2>2. m.key = k /\ m.status = s
      BY <2>1
    <2> QED
      BY <1>8, <2>1, <2>2
  <1>9. CASE CalleeWorks
    <2>1. PICK k \in DOMAIN ist : IsNew(m, "RESPONSE", k, ist[k].response)
      BY <1>9, CalleeExecuteEffect DEF CalleeWorks
    <2> QED
      BY <2>1
  <1>10. CASE UNCHANGED net
    BY <1>10
  <1>11. \/ \E k \in Key : Invites(k)
         \/ \E t \in Thread, n \in net : Hears(t, n)
         \/ \E t \in Thread \cup {Stack} : SendsAck(t)
         \/ Executes
         \/ \E n \in net : IsOffered(n)
         \/ \E n \in net : Repeats(n)
         \/ \E n \in net : TakesAck(n)
         \/ \E k \in offered, s \in Status : Answers(k, s)
         \/ CalleeWorks
         \/ UNCHANGED net
    BY StepCases, TellEffect, HangUpEffect, TellTimeoutEffect
       DEF HearsLate, IsTold, HangsUp, TimesOut, Rests
  <1> HIDE DEF IsNew
  <1>12. CASE \E k \in Key : Invites(k)
    BY <1>1, <1>12
  <1>13. CASE \E t \in Thread, n \in net : Hears(t, n)
    BY <1>2, <1>13
  <1>14. CASE \E t \in Thread \cup {Stack} : SendsAck(t)
    BY <1>3, <1>14
  <1>15. CASE \E n \in net : IsOffered(n) \/ Repeats(n) \/ TakesAck(n)
    BY <1>5, <1>6, <1>7, <1>15
  <1>16. CASE \E k \in offered, s \in Status : Answers(k, s)
    BY <1>8, <1>16
  <1> QED
    BY <1>4, <1>9, <1>10, <1>11, <1>12, <1>13, <1>14, <1>15, <1>16
-----------------------------------------------------------------------------
\* The basic part of the invariant.
-----------------------------------------------------------------------------
\* The basic part of the invariant.

\* What an upcall or the list of timeouts is about was sent.
LEMMA BegunFacts ==
  ASSUME Types
  PROVE  /\ \A u \in upcalls : u.key \in begun
         /\ timedOut \subseteq begun
         /\ \A x \in told : x[1] \in begun
  BY DEF Types, CallerTypes

LEMMA SilentIsUntoldStep ==
  ASSUME BasicInv, [Next]_vars
  PROVE  SilentIsUntold'
  <1> SUFFICES ASSUME NEW k \in DOMAIN ict'
               PROVE  /\ ict'[k].response = ict'[k].status
                      /\ ict'[k].status = NoResponse =>
                           /\ \A u \in upcalls' : u.key # k
                           /\ \A x \in told' : x[1] # k
    BY DEF SilentIsUntold
  <1>1. Types
    BY DEF BasicInv
  <1>2. CASE Invites(k) /\ k \notin begun /\ ict'[k] = NewTransaction
    <2>1. UNCHANGED <<upcalls, told>>
      BY <1>2 DEF Invites, Caller!SendInvite
    <2> QED
      BY <1>1, <1>2, <2>1, NewFields, BegunFacts
  <1>3. CASE k \in DOMAIN ict
    <2>1. ict[k].response = ict[k].status /\ k \in begun
      BY <1>1, <1>3, TypeFacts DEF BasicInv, SilentIsUntold
    <2>2. ict'[k].response = ict'[k].status
      BY <1>1, <2>1, HeldStep
    <2>3. ASSUME ict'[k].status = NoResponse
          PROVE  /\ \A u \in upcalls' : u.key # k
                 /\ \A x \in told' : x[1] # k
      <3>1. ASSUME NEW t \in Thread, NEW m \in net, Hears(t, m)
            PROVE  m.status # NoResponse
        BY <1>1, <3>1, TypeFacts, Constants DEF Hears, Overtakes
      <3>2. ict[k].status = NoResponse
        BY <1>1, <2>1, <2>3, <3>1, HeldStep
      <3>3. (\A u \in upcalls : u.key # k) /\ (\A x \in told : x[1] # k)
        BY <1>3, <3>2 DEF BasicInv, SilentIsUntold
      <3>4. ASSUME NEW u \in upcalls', u.key = k
            PROVE  FALSE
        <4>1. u \notin upcalls
          BY <3>3, <3>4
        <4>2. ~ \E t \in Thread, m \in net : Hears(t, m) /\ m.key = u.key /\ m.status = u.status
                  /\ ict'[u.key].status = u.status
          BY <2>3, <3>1, <3>4
        <4>3. k \notin timedOut
          BY <1>3 DEF BasicInv, TimedOutAreGone
        <4>4. ~ \E w \in upcalls : u.key = w.key
          BY <3>3, <3>4
        <4> QED
          BY <1>1, <3>4, <4>1, <4>2, <4>3, <4>4, NewUpcall
      <3>5. \A x \in told' : x[1] # k
        <4>1. told' = told \/ \E u \in upcalls : told' = told \cup {<<u.key, u.status>>}
          BY <1>1, ToldStep
        <4> QED
          BY <3>3, <4>1
      <3> QED
        BY <3>4, <3>5
    <2> QED
      BY <2>2, <2>3
  <1> QED
    BY <1>1, <1>2, <1>3, HeldStep

LEMMA TimedOutAreGoneStep ==
  ASSUME BasicInv, [Next]_vars
  PROVE  TimedOutAreGone'
  <1> SUFFICES ASSUME NEW k \in timedOut', k \in DOMAIN ict'
               PROVE  FALSE
    BY DEF TimedOutAreGone
  <1>1. Types
    BY DEF BasicInv
  <1>2. k \in timedOut
    BY <1>1, TimedOutStep
  <1>3. k \notin DOMAIN ict /\ k \in begun
    BY <1>1, <1>2, BegunFacts DEF BasicInv, TimedOutAreGone
  <1> QED
    BY <1>1, <1>3, HeldStep

LEMMA BasicStep ==
  ASSUME BasicInv, Numbered, [Next]_vars
  PROVE  BasicInv'
  BY TypesStep, SilentIsUntoldStep, TimedOutAreGoneStep DEF BasicInv

LEMMA BasicInit == Init => BasicInv
  BY TypesInit DEF Init, Caller!Init, Caller!EmptyMap, BasicInv, SilentIsUntold, TimedOutAreGone
-----------------------------------------------------------------------------
\* The answers.

LEMMA OneAnswerStep ==
  ASSUME BasicInv, OneAnswer, Numbered, [Next]_vars
  PROVE  OneAnswer'
  <1>1. Types
    BY DEF BasicInv
  <1>2. answered' \subseteq offered' \X Status
    BY <1>1, AnsweredStep DEF Recorded, OneAnswer
  <1>3. ASSUME NEW k \in Key, NEW r \in Status, NEW s \in Status,
               <<k, r>> \in answered', <<k, s>> \in answered'
        PROVE  r = s
    <2>1. ASSUME NEW x \in Status, NEW y \in Status,
                 <<k, x>> \in answered, <<k, y>> \notin answered, <<k, y>> \in answered'
          PROVE  y = x
      <3>1. PICK j \in offered, z \in Status : Answers(j, z) /\ <<k, y>> = <<j, z>>
        BY <1>1, <2>1, AnsweredStep DEF Recorded
      <3> QED
        BY <2>1, <3>1 DEF Answers
    <2>2. ASSUME <<k, r>> \notin answered, <<k, s>> \notin answered
          PROVE  r = s
      <3>1. PICK j \in offered, z \in Status : Answers(j, z) /\ Final(z)
                                               /\ <<k, r>> = <<j, z>>
        BY <1>1, <1>3, <2>2, AnsweredStep DEF Recorded
      <3>2. answered' = answered \cup {<<j, z>>}
        BY <3>1 DEF Answers
      <3> QED
        BY <1>3, <2>2, <3>1, <3>2
    <2> QED
      BY <1>3, <2>1, <2>2 DEF OneAnswer
  <1>4. ASSUME NEW k \in Key, NEW r \in Status, <<k, r>> \in answered'
        PROVE  Final(r)
    <2>1. CASE <<k, r>> \in answered
      BY <2>1 DEF OneAnswer
    <2>2. CASE <<k, r>> \notin answered
      <3>1. PICK j \in offered, z \in Status : Final(z) /\ <<k, r>> = <<j, z>>
        BY <1>1, <1>4, <2>2, AnsweredStep DEF Recorded
      <3> QED
        BY <3>1
    <2> QED
      BY <2>1, <2>2
  <1> QED
    BY <1>2, <1>3, <1>4 DEF OneAnswer

\* An answer that is given is recorded.
LEMMA AnswersFacts ==
  ASSUME NEW k, NEW s, Answers(k, s), Final(s)
  PROVE  <<k, s>> \in answered'
  BY DEF Answers

LEMMA HeldWasAnsweredStep ==
  ASSUME BasicInv, AnswerInv, Numbered, [Next]_vars
  PROVE  HeldWasAnswered'
  <1> SUFFICES ASSUME NEW k \in DOMAIN ist', Final(ist'[k].response)
               PROVE  <<k, ist'[k].response>> \in answered'
    BY DEF HeldWasAnswered
  <1>1. Types /\ answered \subseteq answered'
    BY AnsweredStep DEF Recorded, BasicInv
  <1>2. ist'[k].response # SIP_TRYING
    BY DEF Final, SIP_OK, SIP_TRYING
  <1>3. CASE k \in DOMAIN ist /\ ist'[k].response = ist[k].response
    BY <1>1, <1>3 DEF AnswerInv, HeldWasAnswered
  <1>4. CASE \E s \in Status : Answers(k, s) /\ ist'[k].response = s
    BY <1>4, AnswersFacts
  <1> QED
    BY <1>1, <1>2, <1>3, <1>4, ServedStep DEF Served

LEMMA SentWasAnsweredStep ==
  ASSUME BasicInv, AnswerInv, Numbered, [Next]_vars
  PROVE  SentWasAnswered'
  <1> SUFFICES ASSUME NEW m \in net', m.method = "RESPONSE", Final(m.status)
               PROVE  <<m.key, m.status>> \in answered'
    BY DEF SentWasAnswered
  <1>1. Types /\ answered \subseteq answered'
    BY AnsweredStep DEF Recorded, BasicInv
  <1>2. m.status # SIP_TRYING
    BY DEF Final, SIP_OK, SIP_TRYING
  <1>3. CASE m \in net
    BY <1>1, <1>3 DEF AnswerInv, SentWasAnswered
  <1>4. CASE Tick
    <2>1. PICK n \in net : m.method = n.method /\ m.key = n.key /\ m.status = n.status
      BY <1>1, <1>4, TickEffect
    <2> QED
      BY <1>1, <2>1 DEF AnswerInv, SentWasAnswered
  <1>5. CASE m \notin net /\ ~ Tick
    <2>1. \/ m.key \in DOMAIN ist /\ m.status = ist[m.key].response
          \/ Answers(m.key, m.status)
      BY <1>1, <1>2, <1>5, NetStep
    <2> QED
      BY <1>1, <2>1, AnswersFacts DEF AnswerInv, HeldWasAnswered
  <1> QED
    BY <1>3, <1>4, <1>5

LEMMA UpcallWasAnsweredStep ==
  ASSUME BasicInv, AnswerInv, Numbered, [Next]_vars
  PROVE  UpcallWasAnswered'
  <1> SUFFICES ASSUME NEW u \in upcalls', Final(u.status), u.status # SIP_REQUEST_TIME_OUT
               PROVE  <<u.key, u.status>> \in answered'
    BY DEF UpcallWasAnswered
  <1>1. Types /\ answered \subseteq answered'
    BY AnsweredStep DEF Recorded, BasicInv
  <1>2. CASE u \in upcalls
    BY <1>1, <1>2 DEF AnswerInv, UpcallWasAnswered
  <1>3. ASSUME NEW t \in Thread, NEW m \in net, Hears(t, m), m.key = u.key, m.status = u.status
        PROVE  <<u.key, u.status>> \in answered'
    BY <1>1, <1>3 DEF AnswerInv, SentWasAnswered, Hears, Overtakes
  <1>4. ASSUME NEW w \in upcalls, u.key = w.key, u.status = w.status
        PROVE  <<u.key, u.status>> \in answered'
    BY <1>1, <1>4 DEF AnswerInv, UpcallWasAnswered
  <1> QED
    BY <1>1, <1>2, <1>3, <1>4, NewUpcall

LEMMA ToldWasAnsweredStep ==
  ASSUME BasicInv, AnswerInv, Numbered, [Next]_vars
  PROVE  ToldWasAnswered'
  <1> SUFFICES ASSUME NEW k \in Key, NEW s \in Status, Final(s), <<k, s>> \in told',
                      s # SIP_REQUEST_TIME_OUT
               PROVE  <<k, s>> \in answered'
    BY DEF ToldWasAnswered
  <1>1. Types /\ answered \subseteq answered'
    BY AnsweredStep DEF Recorded, BasicInv
  <1>2. CASE <<k, s>> \in told
    BY <1>1, <1>2 DEF AnswerInv, ToldWasAnswered
  <1>3. ASSUME NEW u \in upcalls, told' = told \cup {<<u.key, u.status>>}, <<k, s>> \notin told
        PROVE  <<k, s>> \in answered'
    <2>1. u.key = k /\ u.status = s
      BY <1>3
    <2> QED
      BY <1>1, <2>1 DEF AnswerInv, UpcallWasAnswered
  <1> QED
    BY <1>1, <1>2, <1>3, ToldStep

LEMMA AnswerStep ==
  ASSUME BasicInv, AnswerInv, Numbered, [Next]_vars
  PROVE  AnswerInv'
  BY OneAnswerStep, HeldWasAnsweredStep, SentWasAnsweredStep, UpcallWasAnsweredStep,
     ToldWasAnsweredStep DEF Recorded, AnswerInv

LEMMA AnswerInit == Init => AnswerInv
  BY DEF Init, Caller!Init, Callee!Init, Callee!EmptyMap, AnswerInv, OneAnswer, HeldWasAnswered,
         SentWasAnswered, UpcallWasAnswered, ToldWasAnswered
-----------------------------------------------------------------------------
\* The discipline.

\* As long as no response overtakes another one, what is heard is acceptable.
LEMMA HeardInOrder ==
  ASSUME Disciplined, NEW t \in Thread, NEW m \in net, Hears(t, m), ~ overtaken'
  PROVE  /\ \A r \in Status : Final(r) /\ <<m.key, r>> \in told => r = m.status
         /\ \A u \in upcalls : u.key = m.key /\ Final(u.status) => u.status = m.status
  <1>1. Caller!Acceptable(m.key, m.status)
    BY DEF Hears, Overtakes, Overtaken
  <1>2. \A s : Caller!Final(s) <=> Final(s)
    BY DEF Caller!Final, Final, Caller!SIP_OK, SIP_OK
  <1> QED
    BY <1>1, <1>2 DEF Caller!Acceptable

LEMMA InOrderBefore ==
  ASSUME Types, [Next]_vars, ~ overtaken'
  PROVE  ~ overtaken
  BY StepCases, TickEffect
     DEF Invites, Hears, HearsLate, Overtakes, IsTold, SendsAck, HangsUp, Executes, TimesOut,
         IsOffered, Repeats, TakesAck, Answers, CalleeWorks, Rests, CallerActs, CalleeActs

LEMMA AloneIfOvertakenStep ==
  ASSUME BasicInv, DisciplineInv, [Next]_vars
  PROVE  AloneIfOvertaken'
  <1> SUFFICES ASSUME overtaken', NEW j \in begun', NEW k \in begun'
               PROVE  j = k
    BY DEF AloneIfOvertaken
  <1>1. Types /\ IsFiniteSet(begun)
    BY DEF BasicInv, Types, CallerTypes
  <1>2. overtaken => begun' = begun
    BY <1>1, BegunStep DEF Invites
  <1>3. CASE overtaken
    BY <1>2, <1>3 DEF DisciplineInv, AloneIfOvertaken
  <1>4. CASE ~ overtaken
    <2>1. Cardinality(begun) = 1
      BY <1>1, <1>4, StepCases, TickEffect
         DEF Invites, Hears, HearsLate, Overtakes, IsTold, SendsAck, HangsUp, Executes, TimesOut,
             IsOffered, Repeats, TakesAck, Answers, CalleeWorks, Rests, CallerActs, CalleeActs
    <2>2. PICK x : begun = {x}
      BY <1>1, <2>1, FS_Singleton
    <2>3. begun' = begun
      BY <1>1, <1>4, BegunStep DEF Invites, CallerActs
    <2> QED
      BY <2>2, <2>3
  <1> QED
    BY <1>3, <1>4

\* An INVITE that is over stays over.
LEMMA LiveBefore ==
  ASSUME BasicInv, DisciplineInv, Disciplined, [Next]_vars, ~ overtaken',
         NEW k \in begun, Live(k)'
  PROVE  Live(k)
  <1>1. Types /\ k \in Key /\ stopped = {} /\ ~ overtaken
    BY TypeFacts, InOrderBefore DEF BasicInv, Types, CallerTypes
  <1>2. CASE Unstopped(k)'
    BY <1>1, <1>2, HeldStep DEF Live, Unstopped
  <1>3. CASE Caller!Open(k)' /\ ~ Caller!Open(k)
    <2>1. Caller!ToldFinal(k) /\ k \notin timedOut /\ \A u \in upcalls : u.key # k
      BY <1>1, <1>3 DEF Caller!Open
    <2>2. Caller!ToldFinal(k)'
      BY <1>1, <2>1, ToldStays
    <2>3. CASE k \in timedOut'
      BY <1>1, <2>1, <2>3, TimedOutStep DEF Live
    <2>4. ASSUME NEW u \in upcalls', u.key = k
          PROVE  FALSE
      <3>1. u \notin upcalls
        BY <2>1, <2>4
      <3>2. PICK t \in Thread, m \in net :
              /\ Hears(t, m) /\ m.key = k /\ m.status = u.status
              /\ k \in DOMAIN ict
              /\ ict[k].response = NoResponse \/ ict[k].status # u.status
        BY <1>1, <2>1, <2>4, <3>1, NewUpcall
      <3>3. PICK r \in Status \cup {SIP_REQUEST_TIME_OUT} : Final(r) /\ <<k, r>> \in told
        BY <2>1 DEF Caller!ToldFinal, Caller!Final, Final, Caller!SIP_OK, SIP_OK,
                    Caller!SIP_REQUEST_TIME_OUT, SIP_REQUEST_TIME_OUT
      <3>4. ict[k].status = r /\ ict[k].response = r
        BY <1>1, <3>2, <3>3 DEF DisciplineInv, FinalIsHeld, BasicInv, SilentIsUntold
      <3>5. r # NoResponse
        BY <3>3 DEF Final, SIP_OK, NoResponse
      <3>6. r \in Status
        BY <1>1, <3>2, <3>4, <3>5, TypeFacts
      <3>7. r = m.status
        BY <3>2, <3>3, <3>6, HeardInOrder
      <3> QED
        BY <3>2, <3>4, <3>5, <3>7
    <2> QED
      BY <1>3, <2>2, <2>3, <2>4 DEF Caller!Open
  <1> QED
    BY <1>2, <1>3 DEF Live

\* INVITEs begin with SendInvite, and only when no other one of the call is live.
LEMMA NewInvite ==
  ASSUME BasicInv, DisciplineInv, Disciplined, [Next]_vars, NEW k \in begun', k \notin begun
  PROVE  /\ k \in Key /\ Invites(k) /\ Caller!SendInvite(k)
         /\ \A j \in begun : CallOf[j] = CallOf[k] => ~ Live(j)
  <1>1. Types /\ stopped = {}
    BY DEF BasicInv, Types, CallerTypes
  <1>2. PICK i \in Key : Invites(i)
    BY <1>1, BegunStep
  <1>3. Caller!SendInvite(i) /\ ~ overtaken
    BY <1>2 DEF Invites
  <1>4. i = k
    <2>1. begun' = begun \cup {i}
      BY <1>3 DEF Caller!SendInvite
    <2> QED
      BY <2>1
  <1>5. ASSUME NEW j \in begun, CallOf[j] = CallOf[k], Live(j)
        PROVE  FALSE
    <2>1. ~ Caller!Open(j) /\ CallOf[k] \in DOMAIN latest
      BY <1>1, <1>3, <1>4, <1>5, SendInviteEffect
    <2>2. j \in DOMAIN ict /\ ict[j].stop = Off
      BY <1>5, <2>1 DEF Live, Unstopped
    <2>3. Caller!ToldFinal(j) /\ \A u \in upcalls : u.key # j
      BY <1>1, <2>1 DEF Caller!Open
    <2> QED
      BY <1>3, <1>5, <2>1, <2>2, <2>3 DEF DisciplineInv, AckIsPending
  <1> QED
    BY <1>2, <1>3, <1>4, <1>5

LEMMA OneLiveStep ==
  ASSUME BasicInv, DisciplineInv, Disciplined, [Next]_vars
  PROVE  OneLive'
  <1> SUFFICES ASSUME NEW j \in begun', NEW k \in begun', CallOf[j] = CallOf[k],
                      Live(j)', Live(k)'
               PROVE  j = k
    BY DEF OneLive
  <1>1. CASE overtaken'
    BY <1>1, AloneIfOvertakenStep DEF AloneIfOvertaken
  <1>2. CASE ~ overtaken'
    <2>1. \A i \in begun : Live(i)' => Live(i)
      BY <1>2, LiveBefore
    <2>2. CASE j \in begun /\ k \in begun
      BY <2>1, <2>2 DEF DisciplineInv, OneLive
    <2>3. CASE j \notin begun /\ k \in begun
      BY <2>1, <2>3, NewInvite
    <2>4. CASE k \notin begun /\ j \in begun
      BY <2>1, <2>4, NewInvite
    <2>5. CASE j \notin begun /\ k \notin begun
      BY <2>5, NewInvite, SendInviteEffect DEF BasicInv
    <2> QED
      BY <2>2, <2>3, <2>4, <2>5
  <1> QED
    BY <1>1, <1>2

LEMMA LatestIsLiveStep ==
  ASSUME BasicInv, DisciplineInv, Numbered, Disciplined, [Next]_vars
  PROVE  LatestIsLive'
  <1> SUFFICES ASSUME NEW k \in begun', Live(k)', CallOf[k] \in DOMAIN latest'
               PROVE  latest'[CallOf[k]] = k
    BY DEF LatestIsLive
  <1>1. Types /\ Types'
    BY BasicStep DEF BasicInv
  <1>2. CASE overtaken'
    <2>1. latest'[CallOf[k]] \in begun'
      BY <1>1 DEF Types, CallerTypes
    <2> QED
      BY <1>2, <2>1, AloneIfOvertakenStep DEF AloneIfOvertaken
  <1>3. CASE ~ overtaken' /\ k \notin begun
    BY <1>1, <1>3, NewInvite, SendInviteEffect
  <1>4. CASE ~ overtaken' /\ k \in begun
    <2>1. Live(k)
      BY <1>4, LiveBefore
    <2>2. CallOf[k] \in DOMAIN latest /\ latest'[CallOf[k]] = latest[CallOf[k]]
      <3>1. ASSUME NEW i \in Key, Invites(i)
            PROVE  CallOf[k] \in DOMAIN latest /\ latest'[CallOf[k]] = latest[CallOf[k]]
        <4>1. Caller!SendInvite(i)
          BY <3>1 DEF Invites
        <4>2. /\ i \notin begun /\ i \in begun'
              /\ DOMAIN latest' = DOMAIN latest \cup {CallOf[i]}
              /\ \A c \in DOMAIN latest : c # CallOf[i] => latest'[c] = latest[c]
          BY <1>1, <4>1, SendInviteEffect
        <4>3. CallOf[i] # CallOf[k]
          BY <1>4, <2>1, <4>2, NewInvite
        <4> QED
          BY <4>2, <4>3
      <3> QED
        BY <1>1, <3>1, BegunStep
    <2> QED
      BY <1>4, <2>1, <2>2 DEF DisciplineInv, LatestIsLive
  <1> QED
    BY <1>2, <1>3, <1>4

LEMMA UpcallIsLive ==
  ASSUME Types, NEW u \in upcalls
  PROVE  u.key \in begun /\ Live(u.key)
  BY DEF Types, CallerTypes, Caller!Open, Live

LEMMA AckIsOwnStep ==
  ASSUME BasicInv, DisciplineInv, [Next]_vars
  PROVE  AckIsOwn'
  <1> SUFFICES ASSUME NEW u \in upcalls', u.phase = "ack"
               PROVE  u.via = u.key
    BY DEF AckIsOwn
  <1>1. Types
    BY DEF BasicInv
  <1>2. CASE u \in upcalls
    BY <1>2 DEF DisciplineInv, AckIsOwn
  <1>3. CASE u \notin upcalls
    <2>1. PICK w \in upcalls : /\ CallOf[w.key] \in DOMAIN latest
                               /\ u.key = w.key /\ u.via = latest[CallOf[w.key]]
      BY <1>1, <1>3, NewUpcall
    <2> QED
      BY <1>1, <2>1, UpcallIsLive DEF DisciplineInv, LatestIsLive
  <1> QED
    BY <1>2, <1>3

LEMMA FinalIsHeldStep ==
  ASSUME BasicInv, DisciplineInv, Numbered, Disciplined, [Next]_vars, ~ overtaken'
  PROVE  FinalIsHeld'
  <1> DEFINE Known(k, s) == <<k, s>> \in told \/ \E u \in upcalls : u.key = k /\ u.status = s
  <1> SUFFICES ASSUME NEW k \in DOMAIN ict', NEW s \in Status \cup {SIP_REQUEST_TIME_OUT},
                      Final(s), Known(k, s)'
               PROVE  ict'[k].status = s
    BY DEF FinalIsHeld
  <1>1. Types /\ ~ overtaken
    BY InOrderBefore DEF BasicInv
  <1>2. CASE Invites(k) /\ k \notin begun
    <2>1. told' = told /\ upcalls' = upcalls
      BY <1>2 DEF Invites, Caller!SendInvite
    <2> QED
      BY <1>1, <1>2, <2>1, BegunFacts
  <1>3. CASE k \in DOMAIN ict /\ Known(k, s)
    <2>1. ict[k].status = s /\ k \in begun
      BY <1>1, <1>3, TypeFacts DEF DisciplineInv, FinalIsHeld
    <2>2. s # NoResponse
      BY DEF Final, SIP_OK, NoResponse
    <2>3. s \in Status
      BY <1>1, <1>3, <2>1, <2>2, TypeFacts
    <2>4. ASSUME NEW t \in Thread, NEW m \in net, Hears(t, m), m.key = k
          PROVE  m.status = s
      BY <1>3, <2>3, <2>4, HeardInOrder
    <2> QED
      BY <1>1, <2>1, <2>4, HeldStep
  <1>4. CASE k \in DOMAIN ict /\ ~ Known(k, s)
    <2>1. <<k, s>> \notin told'
      <3>1. told' = told \/ \E u \in upcalls : told' = told \cup {<<u.key, u.status>>}
        BY <1>1, ToldStep
      <3> QED
        BY <1>4, <3>1
    <2>2. PICK u \in upcalls' : u.key = k /\ u.status = s /\ u \notin upcalls
      BY <1>4, <2>1
    <2>3. k \notin timedOut
      BY <1>4 DEF BasicInv, TimedOutAreGone
    <2>4. ~ \E w \in upcalls : u.key = w.key /\ u.status = w.status
      BY <1>4, <2>2
    <2> QED
      BY <1>1, <2>2, <2>3, <2>4, NewUpcall
  <1> QED
    BY <1>1, <1>2, <1>3, <1>4, HeldStep

\* The upcalls that end are those that tell, and those whose ACK is sent.
LEMMA EndedUpcall ==
  ASSUME Types, [Next]_vars, NEW u \in upcalls, u \notin upcalls', u.phase = "ack"
  PROVE  u.via \in DOMAIN ict => u.via \in DOMAIN ict' /\ ict'[u.via].stop = 0
  <1>1. ASSUME NEW t \in Thread, NEW m \in net, Hears(t, m)
        PROVE  FALSE
    <2>1. m.status \in Status /\ Caller!RecvResponse(t, m.key, m.status)
      BY <1>1, TypeFacts DEF Hears, Overtakes
    <2>2. upcalls \subseteq upcalls'
      BY <2>1, RespondEffect
    <2> QED
      BY <2>2
  <1>2. ASSUME NEW t \in Thread \cup {Stack}, IsTold(t)
        PROVE  FALSE
    <2>1. PICK w \in upcalls : w.phase = "tell" /\ upcalls \ {w} \subseteq upcalls'
      BY <1>2, TellEffect DEF IsTold
    <2> QED
      BY <2>1
  <1>3. ASSUME NEW t \in Thread \cup {Stack}, SendsAck(t)
        PROVE  u.via \in DOMAIN ict => u.via \in DOMAIN ict' /\ ict'[u.via].stop = 0
    <2>1. PICK w \in upcalls :
            /\ upcalls' = upcalls \ {w}
            /\ w.via \in DOMAIN ict => w.via \in DOMAIN ict' /\ ict'[w.via].stop = 0
      BY <1>3, AckEffect DEF SendsAck
    <2> QED
      BY <2>1
  <1>4. ASSUME NEW k \in Key, TimesOut(k)
        PROVE  FALSE
    BY <1>4, TellTimeoutEffect DEF TimesOut
  <1> QED
    BY <1>1, <1>2, <1>3, <1>4, UpcallsUntouched

LEMMA AckIsPendingStep ==
  ASSUME BasicInv, DisciplineInv, Numbered, Disciplined, [Next]_vars, ~ overtaken'
  PROVE  AckIsPending'
  <1> SUFFICES ASSUME NEW k \in DOMAIN ict', ict'[k].stop = Off, Caller!ToldFinal(k)',
                      CallOf[k] \in DOMAIN latest'
               PROVE  \E u \in upcalls' : u.key = k /\ u.phase = "ack"
    BY DEF AckIsPending
  <1>1. Types /\ ~ overtaken
    BY InOrderBefore DEF BasicInv
  <1>2. CASE Invites(k) /\ k \notin begun
    <2>1. told' = told
      BY <1>2 DEF Invites, Caller!SendInvite
    <2> QED
      BY <1>1, <1>2, <2>1, BegunFacts DEF Caller!ToldFinal
  <1>3. CASE k \in DOMAIN ict /\ ict[k].stop = Off
    <2>1. k \in begun
      BY <1>1, <1>3, TypeFacts
    <2>2. CallOf[k] \in DOMAIN latest
      <3>1. ASSUME NEW i \in Key, Invites(i), CallOf[k] \notin DOMAIN latest
            PROVE  FALSE
        <4>1. Caller!SendInvite(i)
          BY <3>1 DEF Invites
        <4>2. /\ CallOf[i] \notin DOMAIN latest => \A j \in begun : CallOf[j] # CallOf[i]
              /\ DOMAIN latest' = DOMAIN latest \cup {CallOf[i]}
          BY <1>1, <4>1, SendInviteEffect
        <4> QED
          BY <2>1, <3>1, <4>2
      <3> QED
        BY <1>1, <3>1, BegunStep
    <2>3. CASE Caller!ToldFinal(k)
      <3>1. PICK u \in upcalls : u.key = k /\ u.phase = "ack"
        BY <1>1, <1>3, <2>2, <2>3 DEF DisciplineInv, AckIsPending
      <3>2. u.via = k
        BY <3>1 DEF DisciplineInv, AckIsOwn
      <3>3. 0 # Off
        BY Constants
      <3> QED
        BY <1>1, <1>3, <3>1, <3>2, <3>3, EndedUpcall
    <2>4. CASE ~ Caller!ToldFinal(k)
      <3>1. told' # told
        BY <2>4 DEF Caller!ToldFinal
      <3>2. PICK u \in upcalls :
              /\ told' = told \cup {<<u.key, u.status>>}
              /\ Final(u.status) /\ CallOf[u.key] \in DOMAIN latest =>
                   \E v \in upcalls' : v.key = u.key /\ v.phase = "ack"
        BY <1>1, <3>1, ToldStep
      <3>3. u.key = k /\ Final(u.status)
        BY <2>4, <3>2 DEF Caller!ToldFinal, Caller!Final, Final, Caller!SIP_OK, SIP_OK
      <3> QED
        BY <2>2, <3>2, <3>3
    <2> QED
      BY <2>3, <2>4
  <1> QED
    BY <1>1, <1>2, <1>3, HeldStep

LEMMA AckIsOfToldStep ==
  ASSUME BasicInv, DisciplineInv, Numbered, Disciplined, [Next]_vars
  PROVE  AckIsOfTold'
  <1>1. /\ Types /\ stopped = {}
        /\ \A k \in Key : Caller!ToldFinal(k) => Caller!ToldFinal(k)'
    BY ToldStays DEF BasicInv, Types, CallerTypes
  <1>2. ASSUME NEW u \in upcalls', u.phase = "ack"
        PROVE  Caller!ToldFinal(u.key)'
    <2>1. CASE u \in upcalls
      BY <1>1, <1>2, <2>1, TypeFacts DEF DisciplineInv, AckIsOfTold
    <2>2. CASE u \notin upcalls
      <3>1. PICK w \in upcalls : /\ u.key = w.key /\ Final(w.status)
                                 /\ told' = told \cup {<<w.key, w.status>>}
        BY <1>1, <1>2, <2>2, NewUpcall
      <3>2. w.status \in Status \cup {SIP_REQUEST_TIME_OUT}
        BY <1>1, TypeFacts
      <3> QED
        BY <3>1, <3>2 DEF Caller!ToldFinal, Caller!Final, Final, Caller!SIP_OK, SIP_OK,
                          Caller!SIP_REQUEST_TIME_OUT, SIP_REQUEST_TIME_OUT
    <2> QED
      BY <2>1, <2>2
  <1>3. ASSUME NEW k \in DOMAIN ict', ict'[k].ack
        PROVE  Caller!ToldFinal(k)'
    <2>1. k \in DOMAIN ict /\ k \in begun /\ k \in Key
      BY <1>1, <1>3, AckedStep, TypeFacts
    <2>2. CASE ict[k].ack
      BY <1>1, <2>1, <2>2 DEF DisciplineInv, AckIsOfTold
    <2>3. ASSUME NEW u \in upcalls, u.phase = "ack",
                 \/ k = u.via
                 \/ u.via \notin DOMAIN ict /\ CallOf[k] = CallOf[u.via]
          PROVE  Caller!ToldFinal(k)
      <3>1. u.via = u.key /\ Caller!ToldFinal(u.key)
        BY <2>3 DEF DisciplineInv, AckIsOwn, AckIsOfTold
      <3>2. CASE u.via \notin DOMAIN ict /\ CallOf[k] = CallOf[u.via] /\ ~ Caller!ToldFinal(k)
        <4>1. Live(k)
          BY <1>1, <2>1, <3>2 DEF Caller!Open, Live
        <4>2. u.key \in begun /\ Live(u.key)
          BY <1>1, UpcallIsLive
        <4>3. k = u.key
          BY <2>1, <3>1, <3>2, <4>1, <4>2 DEF DisciplineInv, OneLive
        <4> QED
          BY <2>1, <3>1, <3>2, <4>3
      <3> QED
        BY <2>3, <3>1, <3>2
    <2> QED
      BY <1>1, <1>3, <2>1, <2>2, <2>3, AckedStep
  <1>4. ASSUME NEW m \in net', m.method = "ACK"
        PROVE  Caller!ToldFinal(m.key)'
    <2>1. CASE m \in net
      BY <1>1, <1>4, <2>1, TypeFacts DEF DisciplineInv, AckIsOfTold
    <2>2. CASE Tick
      <3>1. PICK n \in net : m.method = n.method /\ m.key = n.key
        BY <1>1, <2>2, TickEffect
      <3> QED
        BY <1>1, <1>4, <3>1, TypeFacts DEF DisciplineInv, AckIsOfTold
    <2>3. CASE m \notin net /\ ~ Tick
      <3>1. \/ m.key \in DOMAIN ict /\ ict[m.key].ack
            \/ \E u \in upcalls : u.phase = "ack" /\ u.via = m.key
        BY <1>1, <1>4, <2>3, NetStep
      <3>2. Caller!ToldFinal(m.key) /\ m.key \in Key
        BY <1>1, <3>1, TypeFacts DEF DisciplineInv, AckIsOwn, AckIsOfTold
      <3> QED
        BY <1>1, <3>2
    <2> QED
      BY <2>1, <2>2, <2>3
  <1>5. ASSUME NEW k \in DOMAIN ist', ist'[k].ack
        PROVE  Caller!ToldFinal(k)'
    <2>1. \/ k \in DOMAIN ist /\ ist[k].ack
          \/ \E m \in net : m.method = "ACK" /\ m.key = k
      BY <1>1, <1>5, ServedStep DEF Served, TakesAck
    <2>2. Caller!ToldFinal(k) /\ k \in Key
      BY <1>1, <2>1, TypeFacts DEF DisciplineInv, AckIsOfTold
    <2> QED
      BY <1>1, <2>2
  <1> QED
    BY <1>2, <1>3, <1>4, <1>5 DEF AckIsOfTold

LEMMA DisciplineStep ==
  ASSUME BasicInv, DisciplineInv, Numbered, Disciplined, [Next]_vars
  PROVE  DisciplineInv'
  BY AloneIfOvertakenStep, OneLiveStep, LatestIsLiveStep, AckIsOwnStep, FinalIsHeldStep,
     AckIsPendingStep, AckIsOfToldStep DEF DisciplineInv

LEMMA DisciplineInit == Init => DisciplineInv
  BY DEF Init, Caller!Init, Callee!Init, Caller!EmptyMap, Callee!EmptyMap, DisciplineInv,
         AloneIfOvertaken, OneLive, LatestIsLive, AckIsOwn, FinalIsHeld, AckIsPending, AckIsOfTold
-----------------------------------------------------------------------------
\* Time.

LEMMA SortedTable ==
  ASSUME Timely
  PROVE  /\ MaxDelay \in Nat /\ StopTime \in Nat /\ MaxDelay <= StopTime /\ 0 < StopTime
         /\ ReSendTime[0] >= 0
         /\ \A i \in 0 .. MAX_ICT_RESEND_COUNT - 1 :
              ReSendTime[i] \in Nat /\ ReSendTime[i] <= LastTime
         /\ \A i, j \in 0 .. MAX_ICT_RESEND_COUNT - 1 : i <= j => ReSendTime[i] <= ReSendTime[j]
  <1>1. /\ MAX_ICT_RESEND_COUNT - 1 \in 0 .. MAX_ICT_RESEND_COUNT - 1
        /\ 0 \in 0 .. MAX_ICT_RESEND_COUNT - 1
    BY Constants
  <1> QED
    BY <1>1, Constants DEF Timely, LastTime

\* A transaction that waits has waited since its INVITE was sent.
LEMMA WaitedBefore ==
  ASSUME Types, [Next]_vars, NEW k, Waits(k)'
  PROVE  \/ Invites(k) /\ k \notin begun /\ ict'[k] = NewTransaction
         \/ /\ k \in DOMAIN ict /\ k \in DOMAIN ict' /\ Waits(k)
            /\ Tick \/ ict'[k].start = ict[k].start
            /\ ict'[k].resend = ict[k].resend \/ ict'[k].resend = ict[k].resend + 1
  <1>1. k \in DOMAIN ict' /\ ict'[k].stop = Off /\ ict'[k].status = NoResponse
    BY DEF Waits, Unstopped
  <1>2. ASSUME NEW t \in Thread, NEW m \in net, Hears(t, m)
        PROVE  m.status # NoResponse
    BY <1>2, TypeFacts, Constants DEF Hears, Overtakes
  <1> QED
    BY <1>1, <1>2, HeldStep DEF Waits, Unstopped

\* The callee does not know an INVITE that was not sent.
LEMMA UnknownBefore ==
  ASSUME Types, Numbered, [Next]_vars, NEW k \in DOMAIN ist'
  PROVE  k \in begun
  BY ServedStep, TypeFacts DEF Served

LEMMA NotOverdueStep ==
  ASSUME BasicInv, TimeInv, Numbered, Timely, [Next]_vars
  PROVE  NotOverdue'
  <1> SUFFICES ASSUME NEW k \in DOMAIN ict', Waits(k)'
               PROVE  ict'[k].start <= ReSendTime[ict'[k].resend]
    BY DEF NotOverdue
  <1>1. Types /\ ict'[k].resend \in 0 .. MAX_ICT_RESEND_COUNT - 1
    <2>1. ict'[k] \in CSipInviteTransaction /\ ict'[k].resend < MAX_ICT_RESEND_COUNT
      BY BasicStep DEF BasicInv, Types, CallerTypes
    <2> QED
      BY <2>1, FieldTypes, Constants DEF BasicInv
  <1>2. CASE ict'[k] = NewTransaction
    BY <1>2, NewFields, SortedTable
  <1>3. CASE /\ k \in DOMAIN ict /\ Waits(k)
             /\ Tick \/ ict'[k].start = ict[k].start
             /\ ict'[k].resend = ict[k].resend \/ ict'[k].resend = ict[k].resend + 1
    <2>1. /\ ict[k].start <= ReSendTime[ict[k].resend]
          /\ ict[k].start \in 0 .. Cap
          /\ ict[k].resend \in 0 .. MAX_ICT_RESEND_COUNT - 1
      BY <1>1, <1>3, TypeFacts DEF TimeInv, NotOverdue
    <2>2. CASE Tick
      <3>1. /\ ict'[k].start = Older(ict[k].start) /\ ict'[k].resend = ict[k].resend
            /\ ict[k].start < ReSendTime[ict[k].resend]
        BY <1>1, <1>3, <2>2, TickEffect DEF IsOlder
      <3>2. Older(ict[k].start) <= ict[k].start + 1 /\ Older(ict[k].start) \in Nat
        BY <2>1, OlderAges, Ages, Constants
      <3>3. ReSendTime[ict[k].resend] \in Nat
        BY <2>1, SortedTable
      <3> QED
        BY <2>1, <3>1, <3>2, <3>3, Constants
    <2>3. CASE ict'[k].start = ict[k].start
      <3>1. ict[k].resend <= ict'[k].resend
        BY <1>3, <2>1, Constants
      <3>2. /\ ReSendTime[ict[k].resend] <= ReSendTime[ict'[k].resend]
            /\ ReSendTime[ict[k].resend] \in Nat /\ ReSendTime[ict'[k].resend] \in Nat
        BY <1>1, <2>1, <3>1, SortedTable
      <3> QED
        BY <2>1, <2>3, <3>2, Constants
    <2> QED
      BY <1>3, <2>2, <2>3
  <1> QED
    BY <1>1, <1>2, <1>3, WaitedBefore

LEMMA NotOlderStep ==
  ASSUME BasicInv, TimeInv, Numbered, [Next]_vars
  PROVE  NotOlder'
  <1> SUFFICES ASSUME NEW k \in DOMAIN ict', k \in DOMAIN ist'
               PROVE  ist'[k].start <= ict'[k].start
    BY DEF NotOlder
  <1>1. Types /\ ict'[k].start \in 0 .. Cap
    <2>1. ict'[k] \in CSipInviteTransaction
      BY BasicStep DEF BasicInv, Types, CallerTypes
    <2> QED
      BY <2>1, FieldTypes DEF BasicInv
  <1>2. k \in DOMAIN ict
    BY <1>1, HeldStep, UnknownBefore
  <1>3. ict[k].start \in 0 .. Cap /\ (Tick \/ ict'[k].start = ict[k].start)
    BY <1>1, <1>2, HeldStep, TypeFacts, UnknownBefore
  <1>4. CASE k \notin DOMAIN ist
    <2>1. ist'[k].start = 0
      BY <1>1, <1>4, ServedStep DEF Served
    <2> QED
      BY <1>1, <2>1, Constants
  <1>5. CASE k \in DOMAIN ist
    <2>1. ist[k].start <= ict[k].start /\ ist[k].start \in 0 .. Cap
      BY <1>1, <1>2, <1>5, TypeFacts DEF TimeInv, NotOlder
    <2>2. CASE Tick
      BY <1>1, <1>2, <1>3, <1>5, <2>1, <2>2, TickEffect, OlderAges DEF IsOlder
    <2>3. CASE ~ Tick
      <3>1. ist'[k].start \in {0, ist[k].start}
        BY <1>1, <1>5, <2>3, ServedStep DEF Served
      <3> QED
        BY <1>1, <1>3, <2>1, <2>3, <3>1, Constants
    <2> QED
      BY <2>2, <2>3
  <1> QED
    BY <1>4, <1>5

LEMMA StoppedIsDueStep ==
  ASSUME BasicInv, DisciplineInv, TimeInv, Numbered, Timely, Disciplined, [Next]_vars
  PROVE  StoppedIsDue'
  <1> SUFFICES ASSUME NEW k \in DOMAIN ist', ist'[k].stop # Off, Waits(k)'
               PROVE  ist'[k].stop = 0 /\ ict'[k].start >= LastTime
    BY DEF StoppedIsDue
  <1>1. Types /\ k \in begun
    BY UnknownBefore DEF BasicInv
  <1>2. k \in DOMAIN ict /\ k \in DOMAIN ict' /\ Waits(k) /\ (Tick \/ ict'[k].start = ict[k].start)
    BY <1>1, WaitedBefore
  <1>3. k \in DOMAIN ist
    BY <1>1, ServedStep DEF Served
  <1>4. ict[k].start \in Nat /\ ist[k].start \in Nat /\ LastTime \in Nat
    <2>1. MAX_ICT_RESEND_COUNT - 1 \in 0 .. MAX_ICT_RESEND_COUNT - 1
      BY Constants
    <2> QED
      BY <1>1, <1>2, <1>3, <2>1, TypeFacts, SortedTable, Constants DEF LastTime
  <1>5. CASE Tick
    <2>1. ist[k].stop # Off
      <3>1. ist'[k].stop = Older(ist[k].stop) /\ ist[k].stop \in Age
        BY <1>1, <1>3, <1>5, TickEffect, TypeFacts DEF IsOlder
      <3> QED
        BY <3>1, Ages
    <2>2. ict[k].start >= LastTime
      BY <1>2, <1>3, <2>1 DEF TimeInv, StoppedIsDue
    <2>3. ict[k].start < ReSendTime[ict[k].resend]
      BY <1>1, <1>2, <1>5, TickEffect
    <2>4. ReSendTime[ict[k].resend] \in Nat /\ ReSendTime[ict[k].resend] <= LastTime
      BY <1>1, <1>2, TypeFacts, SortedTable
    <2> QED
      BY <1>4, <2>2, <2>3, <2>4
  <1>6. CASE ~ Tick /\ ist'[k].stop = ist[k].stop
    BY <1>2, <1>3, <1>6 DEF TimeInv, StoppedIsDue
  <1>7. CASE ist'[k].ack
    <2>1. Caller!ToldFinal(k)'
      BY <1>7, AckIsOfToldStep DEF AckIsOfTold
    <2>2. PICK s : <<k, s>> \in told'
      BY <2>1 DEF Caller!ToldFinal
    <2>3. SilentIsUntold' /\ <<k, s>>[1] = k
      BY SilentIsUntoldStep
    <2>4. ict'[k].status # NoResponse
      BY <1>2, <2>2, <2>3 DEF SilentIsUntold
    <2> QED
      BY <2>4 DEF Waits
  <1>8. CASE ~ Tick /\ ist'[k].stop = 0 /\ ist[k].start >= LastTime
    <2>1. ist[k].start <= ict[k].start
      BY <1>2, <1>3 DEF TimeInv, NotOlder
    <2> QED
      BY <1>2, <1>4, <1>8, <2>1
  <1> QED
    BY <1>1, <1>3, <1>5, <1>6, <1>7, <1>8, ServedStep DEF Served

LEMMA InviteIsFreshStep ==
  ASSUME BasicInv, TimeInv, Numbered, [Next]_vars
  PROVE  InviteIsFresh'
  <1> SUFFICES ASSUME NEW m \in net', m.method = "INVITE", m.key \in DOMAIN ist'
               PROVE  ist'[m.key].stop <= m.age
    BY DEF InviteIsFresh
  <1> DEFINE k == m.key
  <1>1. Types /\ m.age \in Nat /\ k \in begun
    BY BasicStep, TypesStep, UnknownBefore, Constants DEF BasicInv, Types, NetTypes
  <1>2. CASE Tick
    <2>1. PICK n \in net : m.method = n.method /\ m.key = n.key /\ m.age = n.age + 1
      BY <1>1, <1>2, TickEffect
    <2>2. /\ k \in DOMAIN ist /\ ist[k].stop \in Age
          /\ ist'[k].stop = Older(ist[k].stop)
      BY <1>1, <1>2, TickEffect, TypeFacts DEF IsOlder
    <2>3. ist[k].stop <= n.age /\ n.age \in Nat
      BY <1>1, <2>1, <2>2, TypeFacts DEF TimeInv, InviteIsFresh
    <2>4. Older(ist[k].stop) <= ist[k].stop + 1
      BY <2>2, OlderAges
    <2>5. ist[k].stop \in Int /\ Older(ist[k].stop) \in Int
      BY <2>2, Ages, Constants DEF Age
    <2> QED
      BY <2>1, <2>2, <2>3, <2>4, <2>5
  <1>3. CASE ~ Tick /\ m \in net
    <2>1. \/ ist'[k].stop = Off \/ ist'[k].stop = 0
          \/ k \in DOMAIN ist /\ ist'[k].stop = ist[k].stop
      BY <1>1, <1>3, ServedStep DEF Served
    <2>2. k \in DOMAIN ist => ist[k].stop <= m.age
      BY <1>3 DEF TimeInv, InviteIsFresh
    <2> QED
      BY <1>1, <2>1, <2>2, Constants
  <1>4. CASE ~ Tick /\ m \notin net
    <2>1. m.age = 0 /\ (Invites(k) \/ Waits(k))
      BY <1>1, <1>4, NetStep
    <2>2. ~ Invites(k)
      BY <1>1 DEF Invites, Caller!SendInvite
    <2>3. \/ ist'[k].stop = Off \/ ist'[k].stop = 0
          \/ k \in DOMAIN ist /\ ist'[k].stop = ist[k].stop
      BY <1>1, <1>4, ServedStep DEF Served
    <2>4. k \in DOMAIN ist => ist[k].stop \in {Off, 0}
      BY <2>1, <2>2 DEF TimeInv, StoppedIsDue
    <2> QED
      BY <2>1, <2>3, <2>4, Constants
  <1> QED
    BY <1>2, <1>3, <1>4

LEMMA ForgottenIsOverStep ==
  ASSUME BasicInv, AnswerInv, TimeInv, Numbered, Timely, [Next]_vars
  PROVE  ForgottenIsOver'
  <1> SUFFICES ASSUME NEW k \in offered', k \notin DOMAIN ist',
                      <<k, SIP_UNAUTHORIZED>> \notin answered'
               PROVE  /\ \A m \in net' : m.method = "INVITE" => m.key # k
                      /\ ~ Waits(k)'
    BY DEF ForgottenIsOver
  <1>1. Types /\ <<k, SIP_UNAUTHORIZED>> \notin answered
    BY AnsweredStep DEF Recorded, BasicInv
  <1>2. k \in offered /\ k \in begun
    <2>1. ASSUME NEW m \in net, IsOffered(m)
          PROVE  m.key \in DOMAIN ist'
      BY <2>1 DEF IsOffered, Callee!RecvInvite, Callee!Insert
    <2> QED
      BY <1>1, <2>1, AnsweredStep, TypeFacts DEF Recorded
  <1>3. (\A m \in net : m.method = "INVITE" => m.key # k) /\ ~ Waits(k)
    <2>1. CASE k \notin DOMAIN ist
      BY <1>1, <1>2, <2>1 DEF TimeInv, ForgottenIsOver
    <2>2. CASE k \in DOMAIN ist
      <3>1. ist[k].response # SIP_UNAUTHORIZED
        BY <1>1, <2>2 DEF AnswerInv, HeldWasAnswered, Final, SIP_OK, SIP_UNAUTHORIZED
      <3>2. ist[k].stop # Off /\ ist[k].stop >= StopTime /\ ist[k].stop \in Age
        BY <1>1, <2>2, <3>1, ForgottenStep, TypeFacts
      <3>3. ist[k].stop \in Int
        BY <3>2, Constants DEF Age
      <3>4. ~ Waits(k)
        <4>1. ist[k].stop # 0
          BY <3>2, <3>3, SortedTable
        <4> QED
          BY <2>2, <3>2, <4>1 DEF TimeInv, StoppedIsDue
      <3>5. ASSUME NEW m \in net, m.method = "INVITE", m.key = k
            PROVE  FALSE
        <4>1. ist[k].stop <= m.age /\ m.age \in Nat /\ m.age < MaxDelay
          BY <1>1, <2>2, <3>5, TypeFacts DEF TimeInv, InviteIsFresh
        <4> QED
          BY <3>2, <3>3, <4>1, SortedTable
      <3> QED
        BY <3>4, <3>5
    <2> QED
      BY <2>1, <2>2
  <1>4. ~ Invites(k)
    BY <1>2 DEF Invites, Caller!SendInvite
  <1>5. ~ Waits(k)'
    BY <1>1, <1>3, <1>4, WaitedBefore
  <1>6. ASSUME NEW m \in net', m.method = "INVITE", m.key = k
        PROVE  FALSE
    <2>1. CASE Tick
      <3>1. PICK n \in net : m.method = n.method /\ m.key = n.key
        BY <1>1, <2>1, TickEffect
      <3> QED
        BY <1>3, <1>6, <3>1
    <2>2. CASE ~ Tick /\ m \notin net
      <3>1. Invites(k) \/ Waits(k)
        BY <1>1, <1>6, <2>2, NetStep
      <3> QED
        BY <1>3, <1>4, <3>1
    <2> QED
      BY <1>3, <1>6, <2>1, <2>2
  <1> QED
    BY <1>5, <1>6

LEMMA ReofferedIsChallengedStep ==
  ASSUME BasicInv, TimeInv, Numbered, [Next]_vars
  PROVE  ReofferedIsChallenged'
  <1> SUFFICES ASSUME NEW k \in reoffered'
               PROVE  <<k, SIP_UNAUTHORIZED>> \in answered'
    BY DEF ReofferedIsChallenged
  <1>1. Types /\ answered \subseteq answered'
    BY AnsweredStep DEF Recorded, BasicInv
  <1>2. CASE k \in reoffered
    BY <1>1, <1>2 DEF TimeInv, ReofferedIsChallenged
  <1>3. CASE k \notin reoffered
    <2>1. PICK m \in net : IsOffered(m) /\ m.key = k /\ k \in offered
      BY <1>1, <1>3, AnsweredStep DEF Recorded
    <2>2. m.method = "INVITE" /\ k \notin DOMAIN ist
      BY <2>1 DEF IsOffered, Callee!RecvInvite
    <2> QED
      BY <1>1, <2>1, <2>2 DEF TimeInv, ForgottenIsOver
  <1> QED
    BY <1>2, <1>3

LEMMA TimeStep ==
  ASSUME BasicInv, AnswerInv, DisciplineInv, TimeInv, Numbered, Timely, Disciplined, [Next]_vars
  PROVE  TimeInv'
  BY NotOverdueStep, NotOlderStep, StoppedIsDueStep, InviteIsFreshStep, ForgottenIsOverStep,
     ReofferedIsChallengedStep DEF TimeInv

LEMMA TimeInit == Init => TimeInv
  BY DEF Init, Caller!Init, Callee!Init, Caller!EmptyMap, Callee!EmptyMap, TimeInv, NotOverdue,
         NotOlder, StoppedIsDue, InviteIsFresh, ForgottenIsOver, ReofferedIsChallenged
-----------------------------------------------------------------------------
\* The invariant, and the contract.

LEMMA InvInit == Init => IInv
  BY BasicInit, AnswerInit, DisciplineInit, TimeInit DEF IInv

LEMMA InvStep ==
  ASSUME IInv, Numbered, Timely, Disciplined, [Next]_vars
  PROVE  IInv'
  BY BasicStep, AnswerStep, DisciplineStep, TimeStep DEF IInv

\* With a disciplined user agent, INVITEs that are numbered, and a network that delivers in
\* time, the invariant holds.
THEOREM Invariance ==
  ASSUME Disciplined, Numbered, Timely
  PROVE  Spec => []IInv
  <1>1. IInv /\ [Next]_vars => IInv'
    BY InvStep
  <1> QED
    BY <1>1, InvInit, PTL DEF Spec

\* What the contract sees of the caller depends on what was sent and told, and what it sees of
\* the callee on what was offered and answered.
CallerSees(b, t, k) ==
  IF k \notin b THEN "idle"
  ELSE IF <<k, SIP_REQUEST_TIME_OUT>> \in t THEN "failed"
  ELSE IF <<k, SIP_OK>> \in t THEN "accepted"
  ELSE IF \E s \in Status \cup {SIP_REQUEST_TIME_OUT} : Final(s) /\ <<k, s>> \in t THEN "rejected"
  ELSE "calling"

CalleeSees(o, a, k) ==
  IF k \notin o THEN "idle"
  ELSE IF \A s \in Status : <<k, s>> \notin a THEN "offered"
  ELSE IF <<k, SIP_OK>> \in a THEN "accepted"
  ELSE "rejected"

LEMMA CallerView ==
  /\ contractCaller = [k \in Key |-> CallerSees(begun, told, k)]
  /\ contractCaller' = [k \in Key |-> CallerSees(begun', told', k)]
  <1>1. \A s : Caller!Final(s) <=> Final(s)
    BY DEF Caller!Final, Final, Caller!SIP_OK, SIP_OK
  <1>2. Caller!SIP_REQUEST_TIME_OUT = SIP_REQUEST_TIME_OUT
    BY DEF Caller!SIP_REQUEST_TIME_OUT, SIP_REQUEST_TIME_OUT
  <1>3. \A k \in Key : Caller!ToldFinal(k) <=>
          \E s \in Status \cup {SIP_REQUEST_TIME_OUT} : Final(s) /\ <<k, s>> \in told
    BY <1>1, <1>2 DEF Caller!ToldFinal
  <1>4. \A k \in Key : Caller!ToldFinal(k)' <=>
          \E s \in Status \cup {SIP_REQUEST_TIME_OUT} : Final(s) /\ <<k, s>> \in told'
    BY <1>1, <1>2 DEF Caller!ToldFinal
  <1>5. contractCaller = [k \in Key |-> CallerSees(begun, told, k)]
    BY <1>3 DEF contractCaller, CallerSees
  <1>6. contractCaller' = [k \in Key |-> CallerSees(begun', told', k)]
    BY <1>4 DEF contractCaller, CallerSees
  <1> QED
    BY <1>5, <1>6

LEMMA CalleeView ==
  /\ ReofferedIsChallenged => contractCallee = [k \in Key |-> CalleeSees(offered, answered, k)]
  /\ ReofferedIsChallenged' =>
       contractCallee' = [k \in Key |-> CalleeSees(offered', answered', k)]
  <1>1. ReofferedIsChallenged => contractCallee = [k \in Key |-> CalleeSees(offered, answered, k)]
    BY DEF contractCallee, CalleeSees, CalledAgain, ReofferedIsChallenged
  <1>2. ReofferedIsChallenged' =>
          contractCallee' = [k \in Key |-> CalleeSees(offered', answered', k)]
    BY DEF contractCallee, CalleeSees, CalledAgain, ReofferedIsChallenged
  <1> QED
    BY <1>1, <1>2

LEMMA InitRefines == Init => Contract!Init
  <1> SUFFICES ASSUME Init PROVE Contract!Init
    OBVIOUS
  <1>1. begun = {} /\ offered = {} /\ answered = {} /\ reoffered = {} /\ confirmed = {}
    BY DEF Init, Caller!Init, Callee!Init
  <1>2. contractCaller = [k \in Key |-> "idle"]
    BY <1>1 DEF contractCaller
  <1>3. contractCallee = [k \in Key |-> "idle"]
    BY <1>1 DEF contractCallee
  <1> QED
    BY <1>1, <1>2, <1>3 DEF Contract!Init

\* An INVITE begins.
LEMMA InviteRefines ==
  ASSUME IInv, NEW k \in Key, Invites(k), UNCHANGED contractCallee
  PROVE  Contract!Invite(k)
  <1>1. /\ k \notin begun /\ begun' = begun \cup {k} /\ told' = told
        /\ \A s : <<k, s>> \notin told
    <2>1. k \notin begun /\ begun' = begun \cup {k} /\ told' = told
      BY DEF Invites, Caller!SendInvite
    <2>2. \A s : <<k, s>>[1] = k
      OBVIOUS
    <2> QED
      BY <2>1, <2>2, BegunFacts DEF IInv, BasicInv
  <1>2. CallerSees(begun, told, k) = "idle" /\ CallerSees(begun', told', k) = "calling"
    BY <1>1 DEF CallerSees
  <1>3. \A j \in Key : j # k => CallerSees(begun', told', j) = CallerSees(begun, told, j)
    BY <1>1 DEF CallerSees
  <1>4. contractCaller' = [contractCaller EXCEPT ![k] = "calling"]
    BY <1>2, <1>3, CallerView
  <1>5. contractCaller[k] = "idle" /\ confirmed' = confirmed
    BY <1>2, CallerView DEF Invites, CallerActs
  <1> QED
    BY <1>4, <1>5 DEF Contract!Invite

\* A caller that is told of a final response learns it or fails.
LEMMA TellRefines ==
  ASSUME IInv, NEW u \in upcalls, told' = told \cup {<<u.key, u.status>>}, begun' = begun,
         UNCHANGED <<contractCallee, confirmed>>
  PROVE  \/ UNCHANGED contractCaller
         \/ Contract!Learn(u.key)
         \/ Contract!Fail(u.key)
  <1> DEFINE k == u.key
             s == u.status
             sees(j) == CallerSees(begun, told, j)
             seesNow(j) == CallerSees(begun', told', j)
  <1>1. /\ k \in begun /\ k \in Key /\ s \in Status \cup {SIP_REQUEST_TIME_OUT}
        /\ told' = told \cup {<<k, s>>}
    BY TypeFacts DEF IInv, BasicInv
  <1>2. Final(s) => s = SIP_REQUEST_TIME_OUT \/ <<k, s>> \in answered
    BY DEF IInv, AnswerInv, UpcallWasAnswered
  <1>3. Final(SIP_OK) /\ Final(SIP_REQUEST_TIME_OUT) /\ SIP_OK # SIP_REQUEST_TIME_OUT
    BY DEF Final, SIP_OK, SIP_REQUEST_TIME_OUT
  <1> HIDE DEF k, s
  <1>4. \A j \in Key : j # k => seesNow(j) = sees(j)
    BY <1>1 DEF CallerSees
  <1>5. CASE ~ Final(s)
    <2>1. seesNow(k) = sees(k)
      BY <1>1, <1>3, <1>5 DEF CallerSees
    <2> QED
      BY <1>4, <2>1, CallerView
  <1>6. CASE s = SIP_REQUEST_TIME_OUT
    <2>1. seesNow(k) = "failed"
      BY <1>1, <1>6 DEF CallerSees
    <2>2. sees(k) \in {"calling", "accepted", "rejected", "failed"}
      BY <1>1 DEF CallerSees
    <2>3. CASE sees(k) = "failed"
      BY <1>4, <2>1, <2>3, CallerView
    <2>4. CASE sees(k) # "failed"
      <3>1. contractCaller' = [contractCaller EXCEPT ![k] = "failed"]
        BY <1>1, <1>4, <2>1, CallerView
      <3>2. contractCaller[k] \in {"calling", "accepted", "rejected"}
        BY <1>1, <2>2, <2>4, CallerView
      <3> QED
        BY <3>1, <3>2 DEF Contract!Fail, k
    <2> QED
      BY <2>3, <2>4
  <1>7. CASE Final(s) /\ s # SIP_REQUEST_TIME_OUT
    <2>1. <<k, s>> \in answered /\ s \in Status
      BY <1>1, <1>2, <1>7
    <2>2. CASE <<k, SIP_REQUEST_TIME_OUT>> \in told
      <3>1. sees(k) = "failed" /\ seesNow(k) = "failed"
        BY <1>1, <2>2 DEF CallerSees
      <3> QED
        BY <1>4, <3>1, CallerView
    <2>3. CASE \E r \in Status : Final(r) /\ r # SIP_REQUEST_TIME_OUT /\ <<k, r>> \in told
      <3>1. PICK r \in Status : Final(r) /\ r # SIP_REQUEST_TIME_OUT /\ <<k, r>> \in told
        BY <2>3
      <3>2. <<k, r>> \in answered
        BY <1>1, <3>1 DEF IInv, AnswerInv, ToldWasAnswered
      <3>3. r = s
        BY <1>1, <2>1, <3>1, <3>2 DEF IInv, AnswerInv, OneAnswer
      <3>4. told' = told
        BY <1>1, <3>1, <3>3
      <3> QED
        BY <3>4, CallerView
    <2>4. CASE /\ <<k, SIP_REQUEST_TIME_OUT>> \notin told
               /\ ~ \E r \in Status : Final(r) /\ r # SIP_REQUEST_TIME_OUT /\ <<k, r>> \in told
      <3>1. \A r \in Status \cup {SIP_REQUEST_TIME_OUT} : Final(r) => <<k, r>> \notin told
        BY <2>4
      <3>2. <<k, SIP_OK>> \notin told
        <4>1. \A x \in told : x[2] \in Status \cup {SIP_REQUEST_TIME_OUT}
          BY DEF IInv, BasicInv, Types, CallerTypes
        <4>2. <<k, SIP_OK>>[2] = SIP_OK
          OBVIOUS
        <4> QED
          BY <1>3, <3>1, <4>1, <4>2
      <3>3. sees(k) = "calling"
        BY <1>1, <1>3, <3>1, <3>2 DEF CallerSees
      <3>4. seesNow(k) = IF s = SIP_OK THEN "accepted" ELSE "rejected"
        BY <1>1, <1>3, <1>7, <3>1, <3>2 DEF CallerSees
      <3>5. k \in offered /\ (s # SIP_OK => <<k, SIP_OK>> \notin answered)
        <4>1. answered \subseteq offered \X Status
          BY DEF IInv, AnswerInv, OneAnswer
        <4>2. ASSUME <<k, SIP_OK>> \in answered
              PROVE  s = SIP_OK
          <5>1. SIP_OK \in Status
            BY <4>1, <4>2
          <5> QED
            BY <1>1, <2>1, <4>2, <5>1 DEF IInv, AnswerInv, OneAnswer
        <4> QED
          BY <2>1, <4>1, <4>2
      <3>6. CalleeSees(offered, answered, k) = IF s = SIP_OK THEN "accepted" ELSE "rejected"
        BY <2>1, <3>5 DEF CalleeSees
      <3>7. contractCallee[k] = IF s = SIP_OK THEN "accepted" ELSE "rejected"
        BY <1>1, <3>6, CalleeView DEF IInv, TimeInv
      <3>8. contractCaller' = [contractCaller EXCEPT ![k] = contractCallee[k]]
        BY <1>1, <1>4, <3>4, <3>7, CallerView
      <3>9. contractCaller[k] = "calling"
        BY <1>1, <3>3, CallerView
      <3> QED
        BY <3>7, <3>8, <3>9 DEF Contract!Learn, k
    <2> QED
      BY <2>1, <2>2, <2>3, <2>4
  <1> QED
    BY <1>5, <1>6, <1>7

\* An INVITE that is offered again is offered once to the contract.
LEMMA OfferRefines ==
  ASSUME IInv, IInv', NEW m \in net, IsOffered(m), UNCHANGED contractCaller
  PROVE  UNCHANGED contractCallee \/ Contract!Offer(m.key)
  <1> DEFINE k == m.key
             sees(j) == CalleeSees(offered, answered, j)
             seesNow(j) == CalleeSees(offered', answered', j)
  <1>1. k \in begun /\ k \in Key
    BY TypeFacts DEF IInv, BasicInv
  <1>2. offered' = offered \cup {k} /\ answered' = answered /\ confirmed' = confirmed
    BY DEF IsOffered, Callee!RecvInvite
  <1>3. answered \subseteq offered \X Status
    BY DEF IInv, AnswerInv, OneAnswer
  <1> HIDE DEF k
  <1>4. contractCallee = [j \in Key |-> sees(j)] /\ contractCallee' = [j \in Key |-> seesNow(j)]
    BY CalleeView DEF IInv, TimeInv
  <1>5. \A j \in Key : j # k => seesNow(j) = sees(j)
    BY <1>2 DEF CalleeSees
  <1>6. CASE k \in offered
    <2>1. offered' = offered
      BY <1>2, <1>6
    <2> QED
      BY <1>2, <1>4, <2>1
  <1>7. CASE k \notin offered
    <2>1. sees(k) = "idle" /\ seesNow(k) = "offered"
      BY <1>2, <1>3, <1>7 DEF CalleeSees
    <2>2. contractCallee' = [contractCallee EXCEPT ![k] = "offered"] /\ contractCallee[k] = "idle"
      BY <1>1, <1>4, <1>5, <2>1
    <2>3. contractCaller[k] # "idle"
      BY <1>1, CallerView DEF CallerSees
    <2> QED
      BY <1>2, <2>2, <2>3 DEF Contract!Offer, k
  <1> QED
    BY <1>6, <1>7

\* The callee's first final response is its answer.
LEMMA AnswerRefines ==
  ASSUME IInv, IInv', NEW k \in offered, NEW s \in Status, Answers(k, s), UNCHANGED contractCaller
  PROVE  \/ UNCHANGED contractCallee
         \/ Contract!Answer(k, "accepted")
         \/ Contract!Answer(k, "rejected")
  <1> DEFINE sees(j) == CalleeSees(offered, answered, j)
             seesNow(j) == CalleeSees(offered', answered', j)
             how == IF s = SIP_OK THEN "accepted" ELSE "rejected"
  <1>1. k \in Key
    BY TypeFacts DEF IInv, BasicInv
  <1>2. /\ offered' = offered /\ confirmed' = confirmed
        /\ answered' = IF Final(s) THEN answered \cup {<<k, s>>} ELSE answered
        /\ \A r \in Status : <<k, r>> \in answered => s = r
    BY DEF Answers, Callee!SendResponse
  <1>3. answered \subseteq offered \X Status
    BY DEF IInv, AnswerInv, OneAnswer
  <1>4. contractCallee = [j \in Key |-> sees(j)] /\ contractCallee' = [j \in Key |-> seesNow(j)]
    BY CalleeView DEF IInv, TimeInv
  <1>5. CASE answered' = answered
    BY <1>2, <1>4, <1>5
  <1>6. CASE Final(s) /\ <<k, s>> \notin answered
    <2>1. answered' = answered \cup {<<k, s>>} /\ \A r : <<k, r>> \notin answered
      <3>1. ASSUME NEW r, <<k, r>> \in answered
            PROVE  FALSE
        <4>1. r \in Status
          BY <1>3, <3>1
        <4> QED
          BY <1>2, <1>6, <3>1, <4>1
      <3> QED
        BY <1>2, <1>6, <3>1
    <2>2. sees(k) = "offered" /\ seesNow(k) = how
      BY <1>2, <2>1 DEF CalleeSees
    <2>3. \A j \in Key : j # k => seesNow(j) = sees(j)
      BY <1>2, <2>1 DEF CalleeSees
    <2>4. contractCallee' = [contractCallee EXCEPT ![k] = how] /\ contractCallee[k] = "offered"
      BY <1>1, <1>4, <2>2, <2>3
    <2> QED
      BY <1>2, <2>4 DEF Contract!Answer
  <1> QED
    BY <1>2, <1>5, <1>6

\* An ACK that the callee takes confirms what the caller was told.
LEMMA ConfirmRefines ==
  ASSUME IInv, Numbered, NEW m \in net, TakesAck(m), UNCHANGED <<contractCaller, contractCallee>>
  PROVE  UNCHANGED confirmed \/ Contract!Confirm(m.key)
  <1> DEFINE k == m.key
             taken == {j \in DOMAIN ist : ~ ist[j].ack /\ (j \in DOMAIN ist' => ist'[j].ack)}
  <1>1. k \in begun /\ k \in Key /\ Callee!RecvAck(k) /\ Types
    BY TypeFacts DEF IInv, BasicInv, TakesAck
  <1>2. confirmed' = confirmed \cup taken
    BY DEF TakesAck
  <1> HIDE DEF k
  <1>3. taken \subseteq {k}
    <2>1. /\ DOMAIN ist \subseteq DOMAIN ist' \cup {k}
          /\ \A j \in DOMAIN ist' : j # k => ist'[j] = ist[j]
      BY <1>1, TakeAckEffect
    <2> QED
      BY <2>1
  <1>4. contractCaller[k] \in {"accepted", "rejected", "failed"}
    <2>1. Caller!ToldFinal(k)
      BY DEF IInv, DisciplineInv, AckIsOfTold, TakesAck, k
    <2> QED
      BY <1>1, <2>1 DEF contractCaller
  <1> HIDE DEF taken
  <1>5. CASE taken = {}
    BY <1>2, <1>5
  <1>6. CASE taken = {k}
    BY <1>2, <1>4, <1>6 DEF Contract!Confirm, k
  <1> QED
    BY <1>3, <1>5, <1>6

\* What neither the user agents send nor are told leaves the contract alone.
LEMMA ViewsUntouched ==
  /\ UNCHANGED <<begun, told>> => UNCHANGED contractCaller
  /\ UNCHANGED <<offered, answered, reoffered>> => UNCHANGED contractCallee
  BY CallerView DEF contractCallee, CalledAgain

LEMMA StepRefines ==
  ASSUME IInv, IInv', Numbered, [Next]_vars
  PROVE  [Contract!Next]_(Contract!vars)
  <1>1. Types
    BY DEF IInv, BasicInv
  <1>2. ASSUME NEW k \in Key, Invites(k)
        PROVE  Contract!Next
    <2>1. UNCHANGED contractCallee
      BY <1>2, ViewsUntouched DEF Invites, CallerActs, calleeState
    <2> QED
      BY <1>2, <2>1, InviteRefines DEF Contract!Next
  <1>3. ASSUME NEW t \in Thread \cup {Stack}, IsTold(t)
        PROVE  Contract!Next \/ UNCHANGED Contract!vars
    <2>1. UNCHANGED <<contractCallee, confirmed, begun>>
      BY <1>1, <1>3, TellEffect, ViewsUntouched DEF IsTold, CallerActs, calleeState
    <2>2. PICK u \in upcalls : told' = told \cup {<<u.key, u.status>>} /\ u.key \in Key
      BY <1>1, <1>3, TellEffect, TypeFacts DEF IsTold
    <2> QED
      BY <2>1, <2>2, TellRefines DEF Contract!Next, Contract!vars
  <1>4. ASSUME NEW m \in net, IsOffered(m)
        PROVE  Contract!Next \/ UNCHANGED Contract!vars
    <2>1. UNCHANGED <<contractCaller, confirmed>> /\ m.key \in Key
      BY <1>1, <1>4, TypeFacts, ViewsUntouched DEF IsOffered, CalleeActs, callerState
    <2> QED
      BY <1>4, <2>1, OfferRefines DEF Contract!Next, Contract!vars
  <1>5. ASSUME NEW k \in offered, NEW s \in Status, Answers(k, s)
        PROVE  Contract!Next \/ UNCHANGED Contract!vars
    <2>1. UNCHANGED <<contractCaller, confirmed>> /\ k \in Key
      BY <1>1, <1>5, TypeFacts, ViewsUntouched DEF Answers, CalleeActs, callerState
    <2> QED
      BY <1>5, <2>1, AnswerRefines DEF Contract!Next, Contract!vars
  <1>6. ASSUME NEW m \in net, TakesAck(m)
        PROVE  Contract!Next \/ UNCHANGED Contract!vars
    <2>1. m.key \in Key /\ UNCHANGED <<begun, told, offered, answered, reoffered>>
      BY <1>1, <1>6, TypeFacts DEF TakesAck, Callee!RecvAck, CalleeActs, callerState
    <2>2. UNCHANGED <<contractCaller, contractCallee>>
      BY <2>1, ViewsUntouched
    <2> QED
      BY <1>6, <2>1, <2>2, ConfirmRefines DEF Contract!Next, Contract!vars
  <1>7. CASE UNCHANGED <<begun, told, offered, answered, reoffered, confirmed>>
    BY <1>7, ViewsUntouched DEF Contract!vars
  <1>8. ASSUME NEW t \in Thread, NEW m \in net, Hears(t, m)
        PROVE  UNCHANGED <<begun, told, offered, answered, reoffered, confirmed>>
    BY <1>8 DEF Hears, Overtakes, Caller!RecvResponse, calleeState
  <1>9. CASE \/ \E m \in net : HearsLate(m) \/ Repeats(m)
             \/ \E t \in Thread \cup {Stack} : SendsAck(t)
             \/ \E c \in Call : HangsUp(c)
             \/ Executes
             \/ \E k \in Key : TimesOut(k)
             \/ CalleeWorks \/ Tick \/ Rests
    <2>1. UNCHANGED <<begun, told, offered, answered, reoffered, confirmed>>
      BY <1>1, <1>9, AckEffect, HangUpEffect, CallerExecuteEffect, TellTimeoutEffect, RepeatEffect,
         CalleeExecuteEffect, TickEffect
         DEF HearsLate, Overtakes, SendsAck, HangsUp, Executes, TimesOut, Repeats, CalleeWorks,
             Rests, CallerActs, CalleeActs, callerState, calleeState
    <2> QED
      BY <1>7, <2>1
  <1> QED
    BY <1>1, <1>2, <1>3, <1>4, <1>5, <1>6, <1>7, <1>8, <1>9, StepCases

\* The two lists and a network that loses, repeats and reorders datagrams keep the contract:
\* an INVITE calls the callee once, except after the ACK of a 401, the callee's answer is the
\* one the caller learns, and an ACK confirms only what the caller was told.
THEOREM ContractKept ==
  ASSUME Disciplined, Numbered, Timely
  PROVE  Spec => KeepsContract
  <1>1. IInv /\ IInv' /\ [Next]_vars => [Contract!Next]_(Contract!vars)
    BY StepRefines
  <1> QED
    BY <1>1, InitRefines, Invariance, PTL DEF Spec, KeepsContract, Contract!Spec
-----------------------------------------------------------------------------
\* Timeouts.  When no datagram is lost, what the caller and the callee wait for is on its way.

\* The datagram m is on its way, and was not received yet.
Coming(m) == m \in net /\ m \notin received

\* The user agent was told, or is being told, that the INVITE was accepted.
Heard(k) ==
  \/ <<k, SIP_OK>> \in told
  \/ \E u \in upcalls : u.key = k /\ u.phase = "tell" /\ u.status = SIP_OK

\* The user agent is about to be told that the INVITE timed out.
Fails(k) ==
  \/ k \in timedOut
  \/ \E u \in upcalls : u.key = k /\ u.phase = "tell" /\ u.status = SIP_REQUEST_TIME_OUT

ReceivedWasSent == received \subseteq net

\* A step that is no tick takes nothing off the network and forgets nothing.
LEMMA NothingExpires ==
  ASSUME [Next]_vars, ~ Tick
  PROVE  net \subseteq net' /\ received \subseteq received' /\ lost' = lost
  <1> USE DEF callerVars, calleeVars, CallerStep, CalleeStep, Caller!Transmit, Callee!Transmit,
              Caller!Sent, Callee!Sent, Receive
  <1>1. CASE CallerSendsInvite
    BY <1>1 DEF CallerSendsInvite, Caller!SendInvite
  <1>2. CASE CallerReceives
    BY <1>2 DEF CallerReceives, Caller!RecvResponse
  <1>3. CASE CallerIsTold
    BY <1>3 DEF CallerIsTold, Caller!Tell
  <1>4. CASE CallerSendsAck
    BY <1>4 DEF CallerSendsAck, Caller!SendAck, Caller!AckFound, Caller!AckScan,
                Caller!AckRefused
  <1>5. CASE CallerHangsUp
    BY <1>5 DEF CallerHangsUp, Caller!HangUp
  <1>6. CASE CallerExecutes
    BY <1>6 DEF CallerExecutes, Caller!Execute
  <1>7. CASE CallerTimesOut
    BY <1>7 DEF CallerTimesOut, Caller!TellTimeout
  <1>8. CASE CalleeReceivesInvite
    BY <1>8 DEF CalleeReceivesInvite, Callee!RecvInvite
  <1>9. CASE CalleeReceivesInviteAgain
    BY <1>9 DEF CalleeReceivesInviteAgain, Callee!RecvInviteAgain
  <1>10. CASE CalleeReceivesAck
    BY <1>10 DEF CalleeReceivesAck, Callee!RecvAck
  <1>11. CASE CalleeAnswers
    BY <1>11 DEF CalleeAnswers, Callee!SendResponse
  <1>12. CASE CalleeExecutes
    BY <1>12 DEF CalleeExecutes, Callee!Execute
  <1>13. CASE CalleeTimesOut
    BY <1>13 DEF CalleeTimesOut, Callee!SendTimeout
  <1>14. CASE UNCHANGED vars
    BY <1>14 DEF vars
  <1> QED
    BY <1>1, <1>2, <1>3, <1>4, <1>5, <1>6, <1>7, <1>8, <1>9, <1>10, <1>11, <1>12, <1>13,
       <1>14 DEF Next

\* Who receives a datagram, and what it does with it.
IsReceived(m) ==
  \/ IsOffered(m)
  \/ m.method = "INVITE" /\ Repeats(m)
  \/ m.method = "RESPONSE" /\ \E t \in Thread : Hears(t, m)
  \/ m.method = "RESPONSE" /\ m.key \notin DOMAIN ict /\ ict' = ict
  \/ TakesAck(m)
  \/ m.method = "ACK" /\ (m.key \in DOMAIN ist => ist[m.key].ack) /\ ist' = ist

LEMMA ReceivedStep ==
  ASSUME [Next]_vars, ~ Tick, NEW m \in received', m \notin received
  PROVE  m \in net /\ IsReceived(m)
  <1> USE DEF callerState, calleeState, callerVars, calleeVars, CallerStep, CalleeStep,
              CallerActs, CalleeActs, Receive
  <1>1. CASE CallerReceives
    <2>1. PICK t \in Thread, n \in net :
            /\ Overtakes(n)
            /\ Receive(n)
            /\ \/ Caller!RecvResponse(t, n.key, n.status)
               \/ n.key \notin DOMAIN ict /\ UNCHANGED <<callerVars, net>>
      BY <1>1 DEF CallerReceives, Overtakes
    <2>2. n = m /\ m \in net /\ m.method = "RESPONSE"
      BY <2>1 DEF Overtakes
    <2> QED
      BY <2>1, <2>2 DEF IsReceived, Hears
  <1>2. CASE CalleeReceivesInvite
    BY <1>2 DEF CalleeReceivesInvite, IsOffered, IsReceived
  <1>3. CASE CalleeReceivesInviteAgain
    BY <1>3 DEF CalleeReceivesInviteAgain, Repeats, IsReceived
  <1>4. CASE CalleeReceivesAck
    <2>1. PICK n \in net :
            /\ n.method = "ACK"
            /\ Receive(n)
            /\ \/ Callee!RecvAck(n.key)
               \/ /\ \A j \in DOMAIN ist : Callee!IsEqualCallIdSeq(j, n.key) => ist[j].ack
                  /\ UNCHANGED <<calleeVars, net>>
            /\ confirmed' = confirmed \cup
                 {k \in DOMAIN ist : ~ ist[k].ack /\ (k \in DOMAIN ist' => ist'[k].ack)}
            /\ CalleeStep
            /\ UNCHANGED <<answered, reoffered>>
      BY <1>4 DEF CalleeReceivesAck
    <2>2. n = m /\ m \in net
      BY <2>1
    <2>3. CASE Callee!RecvAck(m.key)
      BY <2>1, <2>2, <2>3 DEF TakesAck, IsReceived
    <2>4. CASE /\ \A j \in DOMAIN ist : Callee!IsEqualCallIdSeq(j, m.key) => ist[j].ack
               /\ UNCHANGED <<calleeVars, net>>
      BY <2>1, <2>2, <2>4 DEF IsReceived, Callee!IsEqualCallIdSeq
    <2> QED
      BY <2>1, <2>2, <2>3, <2>4
  <1>5. CASE UNCHANGED received
    BY <1>5
  <1>6. \/ UNCHANGED received
        \/ CallerReceives \/ CalleeReceivesInvite \/ CalleeReceivesInviteAgain
        \/ CalleeReceivesAck
    BY DEF Next, CallerSendsInvite, CallerIsTold, CallerSendsAck, CallerHangsUp, CallerExecutes,
           CallerTimesOut, CalleeAnswers, CalleeExecutes, CalleeTimesOut, vars
  <1> QED
    BY <1>1, <1>2, <1>3, <1>4, <1>5, <1>6

LEMMA ReceivedWasSentStep ==
  ASSUME ReceivedWasSent, [Next]_vars
  PROVE  ReceivedWasSent'
  <1>1. CASE Tick
    BY <1>1 DEF ReceivedWasSent, Tick, Caller!Tick, Caller!OlderNet, OlderNet
  <1>2. CASE ~ Tick
    BY <1>2, NothingExpires, ReceivedStep DEF ReceivedWasSent
  <1> QED
    BY <1>1, <1>2

\* A tick changes the age of the datagrams, those received and those that are still coming.
SameDatagram(m, n) == m.method = n.method /\ m.key = n.key /\ m.status = n.status

LEMMA OlderDatagram ==
  ASSUME Types, NEW m \in net
  PROVE  LET n == [m EXCEPT !.age = m.age + 1]
         IN  SameDatagram(m, n) /\ n.age = m.age + 1
  <1>1. m \in [method : {"INVITE", "ACK", "RESPONSE"}, key : begun,
               status : Status \cup {NoResponse}, age : 0 .. MaxDelay]
    BY DEF Types, NetTypes
  <1> QED
    BY <1>1 DEF SameDatagram

LEMMA ReceivedGrowsOld ==
  ASSUME Types, ReceivedWasSent, Tick, NEW m \in received'
  PROVE  \E n \in received : SameDatagram(n, m)
  <1>1. PICK n \in received : m = [n EXCEPT !.age = n.age + 1]
    BY DEF Tick, OlderNet
  <1>2. n \in net
    BY DEF ReceivedWasSent
  <1> QED
    BY <1>1, <1>2, OlderDatagram

LEMMA ComingGrowsOld ==
  ASSUME Types, ReceivedWasSent, Tick, ~ lost', NEW m, Coming(m)
  PROVE  \E n \in net' : /\ n \notin received'
                         /\ SameDatagram(m, n) /\ n.age = m.age + 1
  <1>1. m \in net /\ m \notin received /\ m.age \in Nat
    BY TypeFacts DEF Coming
  <1>2. m.age + 1 < MaxDelay
    <2>1. ~ (m.age + 1 >= MaxDelay)
      BY <1>1 DEF Tick
    <2> QED
      BY <1>1, <2>1, Constants
  <1> DEFINE n == [m EXCEPT !.age = m.age + 1]
  <1>3. n \in net'
    BY <1>1, <1>2 DEF Tick, Caller!Tick, Caller!OlderNet
  <1>4. n \notin received'
    <2>1. SUFFICES ASSUME NEW p \in received, n = [p EXCEPT !.age = p.age + 1]
                   PROVE  FALSE
      BY DEF Tick, OlderNet
    <2>2. /\ m \in [method : {"INVITE", "ACK", "RESPONSE"}, key : begun,
                    status : Status \cup {NoResponse}, age : 0 .. MaxDelay]
          /\ p \in [method : {"INVITE", "ACK", "RESPONSE"}, key : begun,
                    status : Status \cup {NoResponse}, age : 0 .. MaxDelay]
      BY <1>1 DEF Types, NetTypes, ReceivedWasSent
    <2>3. n.method = p.method /\ n.key = p.key /\ n.status = p.status /\ n.age = p.age + 1
      BY <2>1, <2>2
    <2>4. n.method = m.method /\ n.key = m.key /\ n.status = m.status /\ n.age = m.age + 1
      BY <2>2
    <2>5. m.age = p.age
      BY <2>2, <2>3, <2>4, Constants
    <2>6. m = p
      BY <2>2, <2>3, <2>4, <2>5
    <2> QED
      BY <1>1, <2>6
  <1>5. SameDatagram(m, n) /\ n.age = m.age + 1
    BY <1>1, OlderDatagram
  <1> QED
    BY <1>3, <1>4, <1>5

\* A datagram that is coming goes on unless it is received.
LEMMA ComingStays ==
  ASSUME Types, [Next]_vars, ~ Tick, NEW m, Coming(m)
  PROVE  \/ m \in net' /\ m \notin received'
         \/ m \in received' /\ m \in net' /\ IsReceived(m)
  BY NothingExpires, ReceivedStep DEF Coming

\* A stopped client transaction holds an ACK, and the final status it holds was answered.
StoppedIsAcked ==
  \A k \in DOMAIN ict : ict[k].stop # Off => ict[k].ack

HeardWasAnswered ==
  \A k \in DOMAIN ict : Final(ict[k].status) => <<k, ict[k].status>> \in answered

\* What the callee answered is held, except what it challenged and was offered again.
AnswerIsHeld ==
  \A k \in DOMAIN ist :
    /\ \A s \in Status : <<k, s>> \in answered /\ s # SIP_UNAUTHORIZED => ist[k].response = s
    /\ \/ ist[k].status = ist[k].response
       \/ ist[k].status = NoResponse /\ ist[k].response = SIP_TRYING

\* An INVITE that left the caller's list is over for the user agent, or times out.
GoneIsTold ==
  \A k \in begun \ DOMAIN ict : Caller!ToldFinal(k) \/ Fails(k)

\* A 200 the transaction holds is told.
AcceptedIsHeard ==
  \A k \in DOMAIN ict : ict[k].status = SIP_OK => Heard(k)

\* Who received a response knows it.
ReceivedIsHeard ==
  \A m \in received : m.method = "RESPONSE" /\ m.key \in DOMAIN ict =>
    /\ ict[m.key].status # NoResponse
    /\ m.status = SIP_OK => Heard(m.key)

\* Who received an ACK holds it, unless it belongs to an INVITE that was offered again.
ReceivedIsAcked ==
  \A m \in received : m.method = "ACK" /\ m.key \in DOMAIN ist =>
    \/ ist[m.key].ack
    \/ <<m.key, SIP_REQUEST_TIME_OUT>> \in told
    \/ <<m.key, SIP_UNAUTHORIZED>> \in answered

DeliveryInv ==
  /\ ReceivedWasSent /\ StoppedIsAcked /\ HeardWasAnswered /\ AnswerIsHeld
  /\ GoneIsTold /\ AcceptedIsHeard /\ ReceivedIsHeard /\ ReceivedIsAcked

\* A callback that tells ends when the user agent was told, and goes on with the ACK.
LEMMA TellEnds ==
  ASSUME Types, [Next]_vars, NEW u \in upcalls, u \notin upcalls', u.phase = "tell"
  PROVE  /\ <<u.key, u.status>> \in told'
         /\ Final(u.status) /\ CallOf[u.key] \in DOMAIN latest =>
              \E v \in upcalls' : v.key = u.key /\ v.status = u.status /\ v.phase = "ack"
         /\ UNCHANGED <<ict, latest>>
  <1>1. CASE UNCHANGED <<upcalls, told>>
    BY <1>1
  <1>2. ASSUME NEW t \in Thread, NEW m \in net, Hears(t, m)
        PROVE  FALSE
    BY <1>2, RespondEffect, TypeFacts DEF Hears, Overtakes
  <1>3. ASSUME NEW t \in Thread \cup {Stack}, IsTold(t)
        PROVE  /\ <<u.key, u.status>> \in told'
               /\ Final(u.status) /\ CallOf[u.key] \in DOMAIN latest =>
                    \E v \in upcalls' : v.key = u.key /\ v.status = u.status /\ v.phase = "ack"
               /\ UNCHANGED <<ict, latest>>
    <2>1. PICK w \in upcalls :
            /\ told' = told \cup {<<w.key, w.status>>}
            /\ upcalls' =
                 IF Caller!Final(w.status) /\ w.status # Caller!SIP_CONNECT_ERROR
                      /\ CallOf[w.key] \in DOMAIN latest
                 THEN (upcalls \ {w})
                        \cup {[w EXCEPT !.phase = "ack", !.via = latest[CallOf[w.key]]]}
                 ELSE upcalls \ {w}
      BY <1>3 DEF IsTold, Caller!Tell
    <2>2. w = u
      BY <2>1
    <2>3. u.status # Caller!SIP_CONNECT_ERROR
      BY TypeFacts DEF Caller!SIP_CONNECT_ERROR, SIP_CONNECT_ERROR
    <2>4. u \in [thread : Thread \cup {Stack}, key : begun, via : begun,
                 status : (Status \cup {SIP_REQUEST_TIME_OUT}) \ {SIP_CONNECT_ERROR},
                 phase : {"tell", "ack"}]
      BY DEF Types, CallerTypes
    <2> DEFINE l == latest[CallOf[u.key]]
               a == [u EXCEPT !.phase = "ack", !.via = l]
    <2>5. a.key = u.key /\ a.status = u.status /\ a.phase = "ack"
      <3> HIDE DEF l
      <3> QED
        BY <2>4
    <2>6. Final(u.status) /\ CallOf[u.key] \in DOMAIN latest => a \in upcalls'
      BY <2>1, <2>2, <2>3 DEF Caller!Final, Final, Caller!SIP_OK, SIP_OK
    <2>7. UNCHANGED <<ict, latest>>
      BY <1>3, TellEffect DEF IsTold
    <2> HIDE DEF a
    <2> QED
      BY <2>1, <2>2, <2>5, <2>6, <2>7
  <1>4. ASSUME NEW t \in Thread \cup {Stack}, SendsAck(t)
        PROVE  FALSE
    BY <1>4, AckEffect DEF SendsAck
  <1>5. ASSUME NEW k \in Key, TimesOut(k)
        PROVE  FALSE
    BY <1>5, TellTimeoutEffect DEF TimesOut
  <1> QED
    BY <1>1, <1>2, <1>3, <1>4, <1>5, UpcallsUntouched

LEMMA HeardStays ==
  ASSUME Types, [Next]_vars, NEW k, Heard(k)
  PROVE  Heard(k)'
  <1>1. CASE <<k, SIP_OK>> \in told
    BY <1>1, ToldStays DEF Heard
  <1>2. CASE \E u \in upcalls : u.key = k /\ u.phase = "tell" /\ u.status = SIP_OK
    <2>1. PICK u \in upcalls : u.key = k /\ u.phase = "tell" /\ u.status = SIP_OK
      BY <1>2
    <2>2. CASE u \in upcalls'
      BY <2>1, <2>2 DEF Heard
    <2>3. CASE u \notin upcalls'
      BY <2>1, <2>3, TellEnds DEF Heard
    <2> QED
      BY <2>2, <2>3
  <1> QED
    BY <1>1, <1>2 DEF Heard

\* A response with another status than the one held is told.
LEMMA HearsTells ==
  ASSUME Types, NEW t \in Thread, NEW m \in net, Hears(t, m)
  PROVE  /\ m.key \in DOMAIN ict /\ m.status \in Status
         /\ \/ ict[m.key].status = m.status
            \/ \E u \in upcalls' : u.key = m.key /\ u.phase = "tell" /\ u.status = m.status
  <1>1. m.status \in Status /\ Caller!RecvResponse(t, m.key, m.status)
    BY TypeFacts DEF Hears, Overtakes
  <1>2. m.key \in DOMAIN ict
    BY <1>1, RespondEffect
  <1>3. Caller!NewStatus(m.key, m.status) =>
          [thread |-> t, key |-> m.key, via |-> m.key, status |-> m.status, phase |-> "tell"]
            \in upcalls'
    BY <1>1 DEF Caller!RecvResponse
  <1>4. ~ Caller!NewStatus(m.key, m.status) => ict[m.key].status = m.status
    BY DEF Caller!NewStatus
  <1> QED
    BY <1>1, <1>2, <1>3, <1>4

LEMMA AcceptedIsHeardStep ==
  ASSUME Types, AcceptedIsHeard, [Next]_vars
  PROVE  AcceptedIsHeard'
  <1> SUFFICES ASSUME NEW k \in DOMAIN ict', ict'[k].status = SIP_OK
               PROVE  Heard(k)'
    BY DEF AcceptedIsHeard
  <1>1. CASE ict'[k] = NewTransaction
    BY <1>1, NewFields, Constants DEF SIP_OK
  <1>2. CASE k \in DOMAIN ict /\ ict'[k].status = ict[k].status
    BY <1>2, HeardStays DEF AcceptedIsHeard
  <1>3. ASSUME NEW t \in Thread, NEW m \in net, Hears(t, m), m.key = k, ict'[k].status = m.status
        PROVE  Heard(k)'
    <2>1. CASE ict[k].status = SIP_OK
      <3>1. k \in DOMAIN ict
        BY <1>3, HearsTells
      <3> QED
        BY <2>1, <3>1, HeardStays DEF AcceptedIsHeard
    <2>2. CASE ict[k].status # SIP_OK
      BY <1>3, <2>2, HearsTells DEF Heard
    <2> QED
      BY <2>1, <2>2
  <1> QED
    BY <1>1, <1>2, <1>3, HeldStep

LEMMA HeardWasAnsweredStep ==
  ASSUME BasicInv, AnswerInv, HeardWasAnswered, Numbered, [Next]_vars
  PROVE  HeardWasAnswered'
  <1> SUFFICES ASSUME NEW k \in DOMAIN ict', Final(ict'[k].status)
               PROVE  <<k, ict'[k].status>> \in answered'
    BY DEF HeardWasAnswered
  <1>0. Types
    BY DEF BasicInv
  <1>1. CASE ict'[k] = NewTransaction
    BY <1>1, NewFields, Constants DEF Final, SIP_OK
  <1>4. answered \subseteq answered'
    BY <1>0, AnsweredStep DEF Recorded
  <1>2. CASE k \in DOMAIN ict /\ ict'[k].status = ict[k].status
    BY <1>2, <1>4 DEF HeardWasAnswered
  <1>3. ASSUME NEW t \in Thread, NEW m \in net, Hears(t, m), m.key = k, ict'[k].status = m.status
        PROVE  <<k, ict'[k].status>> \in answered'
    <2>1. m.method = "RESPONSE"
      BY <1>3 DEF Hears, Overtakes
    <2> QED
      BY <1>3, <1>4, <2>1 DEF AnswerInv, SentWasAnswered
  <1> QED
    BY <1>0, <1>1, <1>2, <1>3, HeldStep

LEMMA ReceivedIsHeardStep ==
  ASSUME Types, ReceivedWasSent, ReceivedIsHeard, AcceptedIsHeard', [Next]_vars
  PROVE  ReceivedIsHeard'
  <1> SUFFICES ASSUME NEW m \in received', m.method = "RESPONSE", m.key \in DOMAIN ict'
               PROVE  /\ ict'[m.key].status # NoResponse
                      /\ m.status = SIP_OK => Heard(m.key)'
    BY DEF ReceivedIsHeard
  <1> DEFINE k == m.key
  <1>1. CASE Tick
    <2>1. PICK n \in received : SameDatagram(n, m)
      BY <1>1, ReceivedGrowsOld
    <2>2. k \in DOMAIN ict /\ ict'[k].status = ict[k].status
      BY <1>1, TickEffect DEF IsOlder
    <2> QED
      BY <2>1, <2>2, HeardStays DEF SameDatagram, ReceivedIsHeard
  <1>2. CASE ~ Tick /\ m \in received
    <2>1. m.key \in begun
      BY <1>2, TypeFacts DEF ReceivedWasSent
    <2>2. k \in DOMAIN ict /\ (m.status = SIP_OK => Heard(k)')
      <3>1. k \in DOMAIN ict
        BY <2>1, HeldStep
      <3> QED
        BY <1>2, <3>1, HeardStays DEF ReceivedIsHeard
    <2>3. ict[k].status # NoResponse
      BY <1>2, <2>2 DEF ReceivedIsHeard
    <2>4. ict'[k].status = ict[k].status \/ ict'[k].status \in Status
      BY <2>1, HeldStep, HearsTells
    <2> QED
      BY <2>2, <2>3, <2>4, Constants
  <1>3. CASE ~ Tick /\ m \notin received
    <2>1. m \in net /\ IsReceived(m)
      BY <1>3, ReceivedStep
    <2>2. CASE \E t \in Thread : Hears(t, m)
      <3>1. PICK t \in Thread : Hears(t, m)
        BY <2>2
      <3>2. m.status \in Status /\ Caller!RecvResponse(t, k, m.status)
        BY <2>1, <3>1, TypeFacts DEF Hears, Overtakes
      <3>3. ict'[k].status = m.status
        BY <3>2, RespondEffect
      <3> QED
        BY <3>2, <3>3, Constants DEF AcceptedIsHeard
    <2>3. CASE m.key \notin DOMAIN ict /\ ict' = ict
      BY <2>3
    <2> QED
      BY <2>1, <2>2, <2>3 DEF IsReceived, IsOffered, TakesAck
  <1> QED
    BY <1>1, <1>2, <1>3

\* No ACK is bound to the transaction of another INVITE.
LEMMA NoScan ==
  ASSUME BasicInv, DisciplineInv, StoppedIsAcked, NEW u \in upcalls, u.phase = "ack",
         u.via \notin DOMAIN ict, NEW j \in DOMAIN ict, CallOf[j] = CallOf[u.via]
  PROVE  ict[j].ack
  <1>1. u.via = u.key
    BY DEF DisciplineInv, AckIsOwn
  <1>2. u.key \in begun /\ Live(u.key) /\ j \in begun
    BY UpcallIsLive, TypeFacts DEF BasicInv
  <1>3. CASE ict[j].stop = Off
    <2>1. Live(j)
      BY <1>3 DEF Live, Unstopped
    <2> QED
      BY <1>1, <1>2, <2>1 DEF DisciplineInv, OneLive
  <1>4. CASE ict[j].stop # Off
    BY <1>4 DEF StoppedIsAcked
  <1> QED
    BY <1>3, <1>4

LEMMA OwnAckSent ==
  ASSUME BasicInv, DisciplineInv, StoppedIsAcked, Prompt,
         NEW t \in Thread \cup {Stack}, SendsAck(t)
  PROVE  \E u \in upcalls :
           /\ u.phase = "ack" /\ u.via = u.key
           /\ upcalls' = upcalls \ {u}
           /\ u.key \notin DOMAIN ict => ict' = ict
           /\ u.key \in DOMAIN ict =>
                /\ DOMAIN ict' = DOMAIN ict
                /\ \A j \in DOMAIN ict : j # u.key => ict'[j] = ict[j]
                /\ IsAcked(ict'[u.key], ict[u.key])
                /\ \E m \in net' : m.method = "ACK" /\ m.key = u.key /\ m.age = 0
  <1>1. PICK u \in upcalls :
          /\ u.phase = "ack"
          /\ upcalls' = upcalls \ {u}
          /\ Caller!AckFound(u) \/ Caller!AckScan(u) \/ Caller!AckRefused(u)
    BY DEF SendsAck, Caller!SendAck
  <1>2. u.via = u.key /\ Types
    BY <1>1 DEF DisciplineInv, AckIsOwn, BasicInv
  <1>3. CASE Caller!AckFound(u)
    <2>1. /\ u.key \in DOMAIN ict /\ ict' = [ict EXCEPT ![u.key] = Caller!Acked(ict[u.key])]
          /\ net' = Caller!Sent(net, {Caller!Request("ACK", u.key)})
      BY <1>2, <1>3 DEF Caller!AckFound, Caller!Transmit
    <2>2. /\ DOMAIN ict' = DOMAIN ict
          /\ \A k \in DOMAIN ict : k # u.key => ict'[k] = ict[k]
          /\ ict'[u.key] = Caller!Acked(ict[u.key])
      BY <2>1
    <2>3. IsAcked(ict'[u.key], ict[u.key])
      BY <1>2, <2>1, <2>2, AckedFields, TypeFacts
    <2> DEFINE m == Caller!Request("ACK", u.key)
    <2>4. m.method = "ACK" /\ m.key = u.key /\ m.age = 0
      BY DEF Caller!Request
    <2>5. m \in net'
      BY <2>1, <2>4 DEF Prompt, Caller!Sent
    <2> HIDE DEF m
    <2> QED
      BY <1>1, <1>2, <2>1, <2>2, <2>3, <2>4, <2>5
  <1>4. CASE Caller!AckScan(u)
    BY <1>1, <1>4, NoScan DEF Caller!AckScan
  <1>5. CASE Caller!AckRefused(u)
    BY <1>1, <1>2, <1>5 DEF Caller!AckRefused
  <1> QED
    BY <1>1, <1>3, <1>4, <1>5

\* A client transaction takes an ACK only as it is sent.
LEMMA AckIsSent ==
  ASSUME BasicInv, DisciplineInv, StoppedIsAcked, Prompt, [Next]_vars,
         NEW k \in DOMAIN ict, k \in DOMAIN ict'
  PROVE  \/ ict'[k].ack = ict[k].ack /\ (ict'[k].stop = Off <=> ict[k].stop = Off)
         \/ /\ ict'[k].ack
            /\ \E m \in net' : m.method = "ACK" /\ m.key = k /\ m.age = 0
  <1>0. Types
    BY DEF BasicInv
  <1>1. CASE UNCHANGED ict
    BY <1>1
  <1>2. ASSUME NEW i \in Key, Invites(i)
        PROVE  ict'[k] = ict[k]
    BY <1>0, <1>2, SendInviteEffect DEF Invites
  <1>3. ASSUME NEW t \in Thread, NEW m \in net, Hears(t, m)
        PROVE  ict'[k].ack = ict[k].ack /\ ict'[k].stop = ict[k].stop
    <2>1. m.status \in Status /\ Caller!RecvResponse(t, m.key, m.status)
      BY <1>0, <1>3, TypeFacts DEF Hears, Overtakes
    <2> QED
      BY <1>0, <2>1, RespondEffect DEF SameButResponse
  <1>4. ASSUME NEW t \in Thread \cup {Stack}, SendsAck(t)
        PROVE  \/ ict'[k] = ict[k]
               \/ /\ ict'[k].ack
                  /\ \E m \in net' : m.method = "ACK" /\ m.key = k /\ m.age = 0
    <2>1. PICK u \in upcalls :
            /\ u.key \notin DOMAIN ict => ict' = ict
            /\ u.key \in DOMAIN ict =>
                 /\ DOMAIN ict' = DOMAIN ict
                 /\ \A j \in DOMAIN ict : j # u.key => ict'[j] = ict[j]
                 /\ IsAcked(ict'[u.key], ict[u.key])
                 /\ \E m \in net' : m.method = "ACK" /\ m.key = u.key /\ m.age = 0
      BY <1>4, OwnAckSent
    <2> QED
      BY <2>1 DEF IsAcked
  <1>5. CASE Executes
    BY <1>0, <1>5, CallerExecuteEffect DEF Executes
  <1>6. CASE Tick
    <2>1. IsOlder(ict'[k], ict[k]) /\ ict[k].stop \in Age
      BY <1>0, <1>6, TickEffect, TypeFacts
    <2> QED
      BY <2>1, Ages DEF IsOlder
  <1> QED
    BY <1>0, <1>1, <1>2, <1>3, <1>4, <1>5, <1>6, IctUntouched

LEMMA StoppedIsAckedStep ==
  ASSUME BasicInv, DisciplineInv, StoppedIsAcked, Prompt, [Next]_vars
  PROVE  StoppedIsAcked'
  <1> SUFFICES ASSUME NEW k \in DOMAIN ict', ict'[k].stop # Off
               PROVE  ict'[k].ack
    BY DEF StoppedIsAcked
  <1>1. CASE ict'[k] = NewTransaction
    BY <1>1, NewFields
  <1>2. CASE k \in DOMAIN ict
    BY <1>2, AckIsSent DEF StoppedIsAcked
  <1> QED
    BY <1>1, <1>2, HeldStep DEF BasicInv

\* A client transaction leaves the list after it stopped, or when it times out.
LEMMA GoneStep ==
  ASSUME BasicInv, DisciplineInv, StoppedIsAcked, Prompt, [Next]_vars,
         NEW k \in DOMAIN ict, k \notin DOMAIN ict'
  PROVE  k \in timedOut' \/ ict[k].stop # Off
  <1>0. Types
    BY DEF BasicInv
  <1>1. CASE UNCHANGED ict
    BY <1>1
  <1>2. ASSUME NEW i \in Key, Invites(i)
        PROVE  FALSE
    BY <1>0, <1>2, SendInviteEffect DEF Invites
  <1>3. ASSUME NEW t \in Thread, NEW m \in net, Hears(t, m)
        PROVE  FALSE
    <2>1. m.status \in Status /\ Caller!RecvResponse(t, m.key, m.status)
      BY <1>0, <1>3, TypeFacts DEF Hears, Overtakes
    <2> QED
      BY <1>0, <2>1, RespondEffect
  <1>4. ASSUME NEW t \in Thread \cup {Stack}, SendsAck(t)
        PROVE  FALSE
    BY <1>4, OwnAckSent
  <1>5. CASE Executes
    BY <1>5 DEF Executes, Caller!Execute, Caller!Completed, Caller!Stopped, Caller!TimesOut,
                Caller!Off, Off
  <1>6. CASE Tick
    BY <1>0, <1>6, TickEffect
  <1> QED
    BY <1>0, <1>1, <1>2, <1>3, <1>4, <1>5, <1>6, IctUntouched

\* What Execute made up goes on with the callback that tells it.
LEMMA TimedOutEnds ==
  ASSUME Types, [Next]_vars, NEW k \in timedOut, k \notin timedOut'
  PROVE  \E u \in upcalls' :
           u.key = k /\ u.phase = "tell" /\ u.status = SIP_REQUEST_TIME_OUT
  <1>1. CASE UNCHANGED timedOut
    BY <1>1
  <1>2. ASSUME NEW j \in Key, TimesOut(j)
        PROVE  \E u \in upcalls' :
                 u.key = k /\ u.phase = "tell" /\ u.status = SIP_REQUEST_TIME_OUT
    <2>1. Caller!TellTimeout(j) /\ j = k
      BY <1>2 DEF TimesOut, Caller!TellTimeout
    <2> DEFINE u == [thread |-> Stack, key |-> k, via |-> k,
                     status |-> SIP_REQUEST_TIME_OUT, phase |-> "tell"]
    <2>2. u \in upcalls'
      BY <2>1 DEF Caller!TellTimeout, Caller!SIP_REQUEST_TIME_OUT, SIP_REQUEST_TIME_OUT
    <2>3. u.key = k /\ u.phase = "tell" /\ u.status = SIP_REQUEST_TIME_OUT
      OBVIOUS
    <2> HIDE DEF u
    <2> QED
      BY <2>2, <2>3
  <1>3. CASE Executes
    BY <1>3 DEF Executes, Caller!Execute
  <1>4. \/ UNCHANGED timedOut
        \/ \E j \in Key : TimesOut(j)
        \/ Executes
    <2>1. /\ \A j \in Key : Invites(j) => timedOut' = timedOut
          /\ \A t \in Thread \cup {Stack} : IsTold(t) \/ SendsAck(t) => timedOut' = timedOut
          /\ \A c \in Call : HangsUp(c) => timedOut' = timedOut
          /\ Tick => timedOut' = timedOut
      BY SendInviteEffect, TellEffect, AckEffect, HangUpEffect, TickEffect
         DEF Invites, IsTold, SendsAck, HangsUp
    <2>2. \A t \in Thread, m \in net : Hears(t, m) => timedOut' = timedOut
      BY DEF Hears, Caller!RecvResponse
    <2> QED
      BY <2>1, <2>2, StepCases
         DEF HearsLate, IsOffered, Repeats, TakesAck, Answers, CalleeWorks, Rests, CalleeActs,
             callerState
  <1> QED
    BY <1>1, <1>2, <1>3, <1>4

LEMMA FailsStays ==
  ASSUME Types, [Next]_vars, NEW k, Fails(k)
  PROVE  Fails(k)' \/ <<k, SIP_REQUEST_TIME_OUT>> \in told'
  <1>1. CASE k \in timedOut
    <2>1. CASE k \in timedOut'
      BY <2>1 DEF Fails
    <2>2. CASE k \notin timedOut'
      BY <1>1, <2>2, TimedOutEnds DEF Fails
    <2> QED
      BY <2>1, <2>2
  <1>2. CASE \E u \in upcalls :
               u.key = k /\ u.phase = "tell" /\ u.status = SIP_REQUEST_TIME_OUT
    <2>1. PICK u \in upcalls : u.key = k /\ u.phase = "tell" /\ u.status = SIP_REQUEST_TIME_OUT
      BY <1>2
    <2>2. CASE u \in upcalls'
      BY <2>1, <2>2 DEF Fails
    <2>3. CASE u \notin upcalls'
      BY <2>1, <2>3, TellEnds
    <2> QED
      BY <2>2, <2>3
  <1> QED
    BY <1>1, <1>2 DEF Fails

LEMMA TimeOutIsFinal ==
  \A k : <<k, SIP_REQUEST_TIME_OUT>> \in told => Caller!ToldFinal(k)
  BY DEF Caller!ToldFinal, Caller!Final, Caller!SIP_OK, Caller!SIP_REQUEST_TIME_OUT,
         SIP_REQUEST_TIME_OUT

LEMMA GoneIsToldStep ==
  ASSUME BasicInv, DisciplineInv, StoppedIsAcked, GoneIsTold, Prompt, [Next]_vars
  PROVE  GoneIsTold'
  <1> SUFFICES ASSUME NEW k \in begun', k \notin DOMAIN ict'
               PROVE  Caller!ToldFinal(k)' \/ Fails(k)'
    BY DEF GoneIsTold
  <1>0. Types
    BY DEF BasicInv
  <1>1. k \in begun /\ k \in Key
    <2>1. ASSUME NEW i \in Key, Invites(i)
          PROVE  begun' = begun \cup {i} /\ i \in DOMAIN ict'
      BY <1>0, <2>1, SendInviteEffect DEF Invites
    <2> QED
      BY <1>0, <2>1, BegunStep, TypeFacts
  <1>2. Caller!ToldFinal(k) => Caller!ToldFinal(k)'
    BY <1>0, <1>1, ToldStays
  <1>3. CASE k \notin DOMAIN ict
    <2>1. Caller!ToldFinal(k) \/ Fails(k)
      BY <1>1, <1>3 DEF GoneIsTold
    <2>2. <<k, SIP_REQUEST_TIME_OUT>> \in told' => Caller!ToldFinal(k)'
      BY DEF Caller!ToldFinal, Caller!Final, Caller!SIP_OK, Caller!SIP_REQUEST_TIME_OUT,
             SIP_REQUEST_TIME_OUT
    <2> QED
      BY <1>0, <1>2, <2>1, <2>2, FailsStays
  <1>4. CASE k \in DOMAIN ict
    <2>1. k \in timedOut' \/ ict[k].stop # Off
      BY <1>4, GoneStep
    <2>2. ict[k].stop # Off => Caller!ToldFinal(k)
      BY <1>4 DEF StoppedIsAcked, DisciplineInv, AckIsOfTold
    <2> QED
      BY <1>2, <2>1, <2>2 DEF Fails
  <1> QED
    BY <1>3, <1>4

\* What a server transaction holds: a 100 at first, then the answers of the user agent.
LEMMA StatusStep ==
  ASSUME Types, Numbered, [Next]_vars, NEW k \in DOMAIN ist'
  PROVE  \/ /\ k \notin DOMAIN ist
            /\ \E m \in net : IsOffered(m) /\ m.key = k
            /\ ist'[k].status = NoResponse /\ ist'[k].response = SIP_TRYING
         \/ /\ k \in DOMAIN ist
            /\ ist'[k].status = ist[k].status /\ ist'[k].response = ist[k].response
         \/ /\ k \in DOMAIN ist
            /\ \E s \in Status : /\ Answers(k, s) /\ s > ist[k].status
                                 /\ ist'[k].status = s /\ ist'[k].response = s
                                 /\ ist'[k].start = IF Final(s) THEN 0 ELSE ist[k].start
  <1> DEFINE Same == /\ k \in DOMAIN ist
                     /\ ist'[k].status = ist[k].status /\ ist'[k].response = ist[k].response
  <1>1. CASE UNCHANGED ist
    BY <1>1
  <1>2. ASSUME NEW m \in net, IsOffered(m)
        PROVE  \/ Same
               \/ /\ k \notin DOMAIN ist /\ m.key = k
                  /\ ist'[k].status = NoResponse /\ ist'[k].response = SIP_TRYING
    <2>1. /\ m.key \notin DOMAIN ist
          /\ DOMAIN ist' = DOMAIN ist \cup {m.key}
          /\ \A j \in DOMAIN ist : ist'[j] = ist[j]
      BY <1>2, OfferEffect DEF IsOffered
    <2>2. ist'[m.key] = Callee!NewServerTransaction
      BY <1>2 DEF IsOffered, Callee!RecvInvite, Callee!Insert
    <2>3. ist'[m.key].status = NoResponse /\ ist'[m.key].response = SIP_TRYING
      BY <2>2 DEF Callee!NewServerTransaction, Callee!NewTransaction, Callee!NoResponse,
                  NoResponse, Callee!SIP_TRYING, SIP_TRYING
    <2> QED
      BY <2>1, <2>3
  <1>3. ASSUME NEW m \in net, TakesAck(m)
        PROVE  Same
    <2>1. /\ DOMAIN ist' \subseteq DOMAIN ist
          /\ \A j \in DOMAIN ist' : ist'[j] = ist[j] \/ IsAcked(ist'[j], ist[j])
      <3>1. m.key \in Key
        BY TypeFacts
      <3> QED
        BY <1>3, <3>1, TakeAckEffect DEF TakesAck
    <2> QED
      BY <2>1 DEF IsAcked
  <1>4. ASSUME NEW i \in offered, NEW s \in Status, Answers(i, s)
        PROVE  \/ Same
               \/ /\ k \in DOMAIN ist /\ i = k /\ s > ist[k].status
                  /\ ist'[k].status = s /\ ist'[k].response = s
                  /\ ist'[k].start = IF Final(s) THEN 0 ELSE ist[k].start
    <2>1. /\ i \in DOMAIN ist /\ s > ist[i].status
          /\ ist' = [ist EXCEPT ![i] = Callee!Answered(ist[i], s)]
      BY <1>4 DEF Answers, Callee!SendResponse
    <2>2. /\ DOMAIN ist' = DOMAIN ist
          /\ \A j \in DOMAIN ist : j # i => ist'[j] = ist[j]
          /\ ist'[i] = Callee!Answered(ist[i], s)
      BY <2>1
    <2>3. ist[i] \in CSipInviteTransaction
      BY <2>1, TypeFacts
    <2>4. Callee!Answered(ist[i], s).response = s /\ Callee!Answered(ist[i], s).status = s
      BY <2>3, AnsweredFields
    <2>5. Callee!Answered(ist[i], s).start = IF Final(s) THEN 0 ELSE ist[i].start
      BY <2>3 DEF Callee!Answered, Callee!Final, Callee!SIP_OK, Final, SIP_OK,
                  CSipInviteTransaction
    <2> QED
      BY <2>1, <2>2, <2>4, <2>5
  <1>5. CASE CalleeWorks
    <2>1. DOMAIN ist' \subseteq DOMAIN ist /\ ist'[k] = Callee!Executed(ist[k])
      BY <1>5 DEF CalleeWorks, Callee!Execute
    <2>2. ist[k] \in CSipInviteTransaction
      BY <2>1, TypeFacts
    <2>3. ist[k].stop = Off => ist[k].resend < MAX_ICT_RESEND_COUNT
      BY <2>1, TypeFacts
    <2>4. ist'[k].status = ist[k].status /\ ist'[k].response = ist[k].response
      BY <2>1, <2>2, <2>3, ExecutedFields
    <2> QED
      BY <2>1, <2>4
  <1>6. CASE Tick
    BY <1>6, TickEffect DEF IsOlder
  <1> QED
    BY <1>1, <1>2, <1>3, <1>4, <1>5, <1>6, IstUntouched

LEMMA AnswerIsHeldStep ==
  ASSUME BasicInv, AnswerInv, TimeInv, AnswerIsHeld, Numbered, [Next]_vars
  PROVE  AnswerIsHeld'
  <1>0. Types
    BY DEF BasicInv
  <1> SUFFICES ASSUME NEW k \in DOMAIN ist'
               PROVE  /\ \A s \in Status : <<k, s>> \in answered' /\ s # SIP_UNAUTHORIZED
                                             => ist'[k].response = s
                      /\ \/ ist'[k].status = ist'[k].response
                         \/ ist'[k].status = NoResponse /\ ist'[k].response = SIP_TRYING
    BY DEF AnswerIsHeld
  <1>1. ASSUME NEW s \in Status, <<k, s>> \in answered', <<k, s>> \notin answered
        PROVE  ist'[k].response = s
    <2>1. PICK i \in offered, r \in Status : Answers(i, r) /\ <<k, s>> = <<i, r>>
      BY <1>0, <1>1, AnsweredStep DEF Recorded
    <2>2. Answers(k, s)
      BY <2>1
    <2> QED
      BY <1>0, <2>2, AnswerEffect DEF Answers
  <1>2. CASE /\ k \notin DOMAIN ist
             /\ \E m \in net : IsOffered(m) /\ m.key = k
             /\ ist'[k].status = NoResponse /\ ist'[k].response = SIP_TRYING
    <2>1. ASSUME NEW s \in Status, <<k, s>> \in answered, s # SIP_UNAUTHORIZED
          PROVE  FALSE
      <3>1. PICK m \in net : m.method = "INVITE" /\ m.key = k
        BY <1>2 DEF IsOffered
      <3>2. k \in offered /\ k \in Key
        BY <1>0, <2>1, TypeFacts DEF AnswerInv, OneAnswer
      <3>3. <<k, SIP_UNAUTHORIZED>> \in answered
        BY <1>2, <3>1, <3>2 DEF TimeInv, ForgottenIsOver
      <3>4. SIP_UNAUTHORIZED \in Status
        BY <3>3 DEF AnswerInv, OneAnswer
      <3> QED
        BY <2>1, <3>2, <3>3, <3>4 DEF AnswerInv, OneAnswer
    <2> QED
      BY <1>1, <1>2, <2>1
  <1>3. CASE /\ k \in DOMAIN ist
             /\ ist'[k].status = ist[k].status /\ ist'[k].response = ist[k].response
    BY <1>1, <1>3 DEF AnswerIsHeld
  <1>4. ASSUME NEW r \in Status, Answers(k, r), ist'[k].status = r, ist'[k].response = r
        PROVE  \A s \in Status : <<k, s>> \in answered' => ist'[k].response = s
    BY <1>1, <1>4 DEF Answers
  <1> QED
    BY <1>0, <1>2, <1>3, <1>4, StatusStep

\* An ACK that is taken is held, if its transaction is.
LEMMA TakenIsHeld ==
  ASSUME Types, Numbered, NEW m \in net, TakesAck(m), m.key \in DOMAIN ist'
  PROVE  ist'[m.key].ack
  <1> DEFINE k == m.key
  <1>1. k \in Key
    BY TypeFacts
  <1>2. k \in DOMAIN ist
    BY <1>1, TakeAckEffect DEF TakesAck
  <1>3. Callee!TakeAck(k)
    BY <1>2 DEF TakesAck, Callee!RecvAck, Callee!AckFound, Callee!AckScan
  <1>4. CASE ist' = Callee!Erase(ist, {k})
    BY <1>4 DEF Callee!Erase, Callee!Restrict
  <1>5. CASE ist' = [ist EXCEPT ![k] = IF @.ack THEN @ ELSE Callee!Acked(@)]
    <2>1. ist'[k] = IF ist[k].ack THEN ist[k] ELSE Callee!Acked(ist[k])
      BY <1>2, <1>5
    <2>2. Callee!Acked(ist[k]).ack
      BY <1>2, AckedFields, TypeFacts DEF IsAcked
    <2> QED
      BY <2>1, <2>2
  <1> QED
    BY <1>3, <1>4, <1>5 DEF Callee!TakeAck

LEMMA ReceivedIsAckedStep ==
  ASSUME BasicInv, AnswerInv, DisciplineInv, TimeInv, ReceivedWasSent, ReceivedIsAcked,
         Numbered, [Next]_vars
  PROVE  ReceivedIsAcked'
  <1> DEFINE Excuse(k) == \/ <<k, SIP_REQUEST_TIME_OUT>> \in told
                          \/ <<k, SIP_UNAUTHORIZED>> \in answered
  <1>0. Types
    BY DEF BasicInv
  <1> SUFFICES ASSUME NEW m \in received', m.method = "ACK", m.key \in DOMAIN ist'
               PROVE  \/ ist'[m.key].ack
                      \/ <<m.key, SIP_REQUEST_TIME_OUT>> \in told'
                      \/ <<m.key, SIP_UNAUTHORIZED>> \in answered'
    BY DEF ReceivedIsAcked
  <1> DEFINE k == m.key
  <1>1. told \subseteq told' /\ answered \subseteq answered'
    BY <1>0, ToldStays, AnsweredStep DEF Recorded
  <1>2. CASE Tick
    <2>1. PICK n \in received : SameDatagram(n, m)
      BY <1>0, <1>2, ReceivedGrowsOld
    <2>2. k \in DOMAIN ist /\ ist'[k].ack = ist[k].ack
      BY <1>0, <1>2, TickEffect DEF IsOlder
    <2> QED
      BY <1>1, <2>1, <2>2 DEF SameDatagram, ReceivedIsAcked
  <1>3. CASE ~ Tick /\ m \in received
    <2>1. m \in net
      BY <1>3 DEF ReceivedWasSent
    <2>2. CASE k \notin DOMAIN ist
      <3>1. PICK n \in net : IsOffered(n) /\ n.key = k
        BY <1>0, <2>2, ServedStep DEF Served
      <3>2. n.method = "INVITE"
        BY <3>1 DEF IsOffered
      <3>3. Caller!ToldFinal(k)
        BY <2>1 DEF DisciplineInv, AckIsOfTold
      <3>4. PICK s \in Status \cup {SIP_REQUEST_TIME_OUT} : Final(s) /\ <<k, s>> \in told
        BY <3>3 DEF Caller!ToldFinal, Caller!Final, Caller!SIP_OK, Final, SIP_OK,
                    Caller!SIP_REQUEST_TIME_OUT, SIP_REQUEST_TIME_OUT
      <3>5. CASE s # SIP_REQUEST_TIME_OUT
        <4>1. <<k, s>> \in answered /\ k \in offered
          <5>1. k \in Key
            BY <1>0, <2>1, TypeFacts
          <5>2. <<k, s>> \in answered
            BY <3>4, <3>5, <5>1 DEF AnswerInv, ToldWasAnswered
          <5> QED
            BY <5>2 DEF AnswerInv, OneAnswer
        <4> QED
          BY <1>1, <2>2, <3>1, <3>2, <4>1 DEF TimeInv, ForgottenIsOver
      <3> QED
        BY <1>1, <3>4, <3>5
    <2>3. CASE k \in DOMAIN ist
      <3>1. ist[k].ack => ist'[k].ack
        BY <1>0, <1>3, <2>3, ServedStep DEF Served
      <3> QED
        BY <1>1, <1>3, <2>3, <3>1 DEF ReceivedIsAcked
    <2> QED
      BY <2>2, <2>3
  <1>4. CASE ~ Tick /\ m \notin received
    <2>1. m \in net /\ IsReceived(m)
      BY <1>4, ReceivedStep
    <2>2. TakesAck(m) \/ ((k \in DOMAIN ist => ist[k].ack) /\ ist' = ist)
      BY <2>1 DEF IsReceived, IsOffered
    <2> QED
      BY <1>0, <2>1, <2>2, TakenIsHeld
  <1> QED
    BY <1>2, <1>3, <1>4

LEMMA DeliveryInit == Init => DeliveryInv
  <1> SUFFICES ASSUME Init PROVE DeliveryInv
    OBVIOUS
  <1>1. DOMAIN ict = {} /\ begun = {} /\ DOMAIN ist = {} /\ received = {}
    BY DEF Init, Caller!Init, Caller!EmptyMap, Callee!Init, Callee!EmptyMap
  <1> QED
    BY <1>1 DEF DeliveryInv, ReceivedWasSent, StoppedIsAcked, HeardWasAnswered, AnswerIsHeld,
                GoneIsTold, AcceptedIsHeard, ReceivedIsHeard, ReceivedIsAcked

LEMMA DeliveryStep ==
  ASSUME IInv, DeliveryInv, Numbered, Prompt, [Next]_vars
  PROVE  DeliveryInv'
  <1>1. BasicInv /\ AnswerInv /\ DisciplineInv /\ TimeInv /\ Types
    BY DEF IInv, BasicInv
  <1>2. /\ ReceivedWasSent /\ StoppedIsAcked /\ HeardWasAnswered /\ AnswerIsHeld
        /\ GoneIsTold /\ AcceptedIsHeard /\ ReceivedIsHeard /\ ReceivedIsAcked
    BY DEF DeliveryInv
  <1>3. ReceivedWasSent' /\ StoppedIsAcked' /\ HeardWasAnswered' /\ AnswerIsHeld'
    BY <1>1, <1>2, ReceivedWasSentStep, StoppedIsAckedStep, HeardWasAnsweredStep,
       AnswerIsHeldStep
  <1>4. AcceptedIsHeard' /\ GoneIsTold'
    BY <1>1, <1>2, AcceptedIsHeardStep, GoneIsToldStep
  <1>5. ReceivedIsHeard' /\ ReceivedIsAcked'
    BY <1>1, <1>2, <1>4, ReceivedIsHeardStep, ReceivedIsAckedStep
  <1> QED
    BY <1>3, <1>4, <1>5 DEF DeliveryInv

Steady == IInv /\ DeliveryInv

\* The INVITE or a response to it is on its way to who waits for it.
AnswerComing(k) ==
  \E m \in net :
    /\ Coming(m) /\ m.key = k
    /\ \/ m.method = "INVITE" /\ ict[k].start <= m.age
       \/ m.method = "RESPONSE" /\ ict[k].start < m.age + MaxDelay

AnswerIsDue == ~ lost => \A k \in DOMAIN ict : Waits(k) => AnswerComing(k)

NotTired == ~ lost => \A k \in DOMAIN ict : ict[k].resend + 1 < MAX_ICT_RESEND_COUNT

\* The callee holds a 200 whose ACK did not come.  It comes, and before the callee gives up:
\* the 200 is on its way, or the user agent is being told of it, or the ACK is on its way.
\* Otherwise the caller gave up or is about to, or hung up.
Awaits(k) ==
  k \in DOMAIN ist /\ ist[k].response = SIP_OK /\ ist[k].stop = Off /\ ~ ist[k].ack

Excused(k) == <<k, SIP_REQUEST_TIME_OUT>> \in told \/ CallOf[k] \notin DOMAIN latest

Failing(k) == Fails(k) /\ ist[k].start < MaxDelay

Telling(k) ==
  /\ k \in DOMAIN ict /\ ~ ict[k].ack
  /\ \E u \in upcalls : u.key = k /\ u.status = SIP_OK
  /\ ist[k].start < MaxDelay

AckComing(k) ==
  \E m \in net :
    Coming(m) /\ m.method = "ACK" /\ m.key = k /\ ist[k].start < m.age + MaxDelay

AcceptComing(k) ==
  /\ k \in DOMAIN ict /\ ~ Heard(k)
  /\ \E m \in net :
       /\ Coming(m) /\ m.method = "RESPONSE" /\ m.key = k /\ m.status = SIP_OK
       /\ ist[k].start <= m.age

AckDue(k) ==
  Excused(k) \/ Failing(k) \/ Telling(k) \/ AckComing(k) \/ AcceptComing(k)

AckIsDue == ~ lost => \A k \in DOMAIN ist : Awaits(k) => AckDue(k)

OnlyExcused ==
  /\ unacked \cup timeouts \subseteq begun
  /\ ~ lost => \A k \in unacked \cup timeouts : Excused(k)

LEMMA LostStays ==
  ASSUME [Next]_vars, ~ lost'
  PROVE  ~ lost
  BY NothingExpires DEF Tick

\* What is sent is on its way.
LEMMA InviteIsSent ==
  ASSUME Prompt, NEW k \in Key, Invites(k)
  PROVE  \E n \in net' : n.method = "INVITE" /\ n.key = k /\ n.age = 0
  <1> DEFINE n == Caller!Request("INVITE", k)
  <1>1. n.method = "INVITE" /\ n.key = k /\ n.age = 0
    BY DEF Caller!Request
  <1>2. n \in net'
    BY <1>1 DEF Prompt, Invites, Caller!SendInvite, Caller!Transmit, Caller!Sent
  <1> QED
    BY <1>1, <1>2

LEMMA AnswerIsSent ==
  ASSUME Prompt, NEW k, NEW s, net' = Callee!Sent(net, {Callee!Response(k, s)})
  PROVE  \E n \in net' :
           n.method = "RESPONSE" /\ n.key = k /\ n.status = s /\ n.age = 0
  <1> DEFINE n == Callee!Response(k, s)
  <1>1. n.method = "RESPONSE" /\ n.key = k /\ n.status = s /\ n.age = 0
    BY DEF Callee!Response
  <1>2. n \in net'
    BY <1>1 DEF Prompt, Callee!Sent
  <1> QED
    BY <1>1, <1>2

LEMMA InviteIsAnswered ==
  ASSUME Prompt, NEW m \in net, m.method = "INVITE", IsReceived(m)
  PROVE  \E n \in net' : n.method = "RESPONSE" /\ n.key = m.key /\ n.age = 0
  <1>1. IsOffered(m) \/ Repeats(m)
    BY DEF IsReceived, TakesAck
  <1>2. CASE IsOffered(m)
    <2>1. net' = Callee!Sent(net, {Callee!Response(m.key, Callee!SIP_TRYING)})
      BY <1>2 DEF IsOffered, Callee!RecvInvite, Callee!Transmit
    <2> QED
      BY <2>1, AnswerIsSent
  <1>3. CASE Repeats(m)
    <2>1. net' = Callee!Sent(net, {Callee!Response(m.key, ist[m.key].response)})
      BY <1>3 DEF Repeats, Callee!RecvInviteAgain, Callee!Transmit
    <2> QED
      BY <2>1, AnswerIsSent
  <1> QED
    BY <1>1, <1>2, <1>3

LEMMA AnswerIsDueStep ==
  ASSUME Steady, Steady', AnswerIsDue, Prompt, [Next]_vars
  PROVE  AnswerIsDue'
  <1> SUFFICES ASSUME ~ lost', NEW k \in DOMAIN ict', Waits(k)'
               PROVE  AnswerComing(k)'
    BY DEF AnswerIsDue
  <1>0. Types /\ ReceivedWasSent /\ ~ lost
    BY LostStays DEF Steady, IInv, BasicInv, DeliveryInv
  <1>1. ASSUME NEW n \in net', n.method = "INVITE" \/ n.method = "RESPONSE", n.key = k,
               n \notin received',
               n.method = "INVITE" => ict'[k].start <= n.age,
               n.method = "RESPONSE" => ict'[k].start < n.age + MaxDelay
        PROVE  AnswerComing(k)'
    BY <1>1 DEF AnswerComing, Coming
  <1>2. ASSUME NEW n \in received', n.method = "RESPONSE", n.key = k
        PROVE  FALSE
    BY <1>2 DEF Steady, DeliveryInv, ReceivedIsHeard, Waits
  <1>3. CASE Invites(k) /\ k \notin begun /\ ict'[k] = NewTransaction
    <2>1. k \in Key /\ ~ Tick
      <3>1. k \in Key
        BY DEF Steady, IInv, BasicInv, Types, CallerTypes
      <3>2. begun' # begun
        BY <1>0, <1>3, <3>1, SendInviteEffect DEF Invites
      <3> QED
        BY <1>0, <3>1, <3>2, TickEffect
    <2>2. PICK n \in net' : n.method = "INVITE" /\ n.key = k /\ n.age = 0
      BY <1>3, <2>1, InviteIsSent
    <2>3. n \notin net
      BY <1>0, <1>3, <2>2, TypeFacts
    <2>4. n \notin received'
      BY <1>0, <2>1, <2>3, ReceivedStep DEF ReceivedWasSent
    <2>5. ict'[k].start = 0
      BY <1>3, NewFields
    <2> QED
      BY <1>1, <2>2, <2>4, <2>5
  <1>4. CASE /\ k \in DOMAIN ict /\ Waits(k)
             /\ Tick \/ ict'[k].start = ict[k].start
    <2>1. AnswerComing(k)
      BY <1>0, <1>4 DEF AnswerIsDue
    <2>2. PICK m \in net :
            /\ Coming(m) /\ m.key = k
            /\ \/ m.method = "INVITE" /\ ict[k].start <= m.age
               \/ m.method = "RESPONSE" /\ ict[k].start < m.age + MaxDelay
      BY <2>1 DEF AnswerComing
    <2>3. m.age \in Nat /\ m.age < MaxDelay /\ ict[k].start \in Nat /\ MaxDelay \in Nat
      BY <1>0, <1>4, TypeFacts, Constants
    <2>4. CASE Tick
      <3>1. PICK n \in net' : n \notin received' /\ SameDatagram(m, n) /\ n.age = m.age + 1
        BY <1>0, <2>2, <2>4, ComingGrowsOld
      <3>2. ict'[k].start = Older(ict[k].start) /\ ict[k].start \in 0 .. Cap
        BY <1>0, <1>4, <2>4, TickEffect, TypeFacts DEF IsOlder
      <3>3. ict'[k].start <= ict[k].start + 1 /\ ict'[k].start \in Nat
        BY <3>2, OlderAges, Ages, Constants
      <3>4. /\ m.method = "INVITE" /\ ict[k].start <= m.age => ict'[k].start <= n.age
            /\ m.method = "RESPONSE" /\ ict[k].start < m.age + MaxDelay =>
                 ict'[k].start < n.age + MaxDelay
        BY <2>3, <3>1, <3>3
      <3>5. n.method = m.method /\ n.key = m.key
        BY <3>1 DEF SameDatagram
      <3> QED
        BY <1>1, <2>2, <3>1, <3>4, <3>5
    <2>5. CASE ~ Tick
      <3>0. ict'[k].start = ict[k].start
        BY <1>4, <2>5
      <3>1. CASE m \in net' /\ m \notin received'
        BY <1>1, <2>2, <3>0, <3>1
      <3>2. CASE m \in received' /\ m \in net' /\ IsReceived(m)
        <4>1. m.method = "INVITE" /\ ict[k].start <= m.age
          BY <1>2, <2>2, <3>2
        <4>2. PICK n \in net' : n.method = "RESPONSE" /\ n.key = k /\ n.age = 0
          BY <2>2, <3>2, <4>1, InviteIsAnswered
        <4>3. n \notin received'
          BY <1>2, <4>2
        <4>4. ict'[k].start < n.age + MaxDelay
          BY <2>3, <3>0, <4>1, <4>2
        <4> QED
          BY <1>1, <4>2, <4>3, <4>4
      <3> QED
        BY <1>0, <2>2, <2>5, <3>1, <3>2, ComingStays
    <2> QED
      BY <2>4, <2>5
  <1> QED
    BY <1>0, <1>3, <1>4, WaitedBefore

\* The caller does not exhaust its retransmissions.
LEMMA ResendStep ==
  ASSUME Types, [Next]_vars, NEW k \in DOMAIN ict, k \in DOMAIN ict',
         ict'[k].resend # ict[k].resend
  PROVE  Waits(k) /\ ict[k].start >= ReSendTime[ict[k].resend]
  <1>1. CASE UNCHANGED ict
    BY <1>1
  <1>2. ASSUME NEW i \in Key, Invites(i)
        PROVE  FALSE
    BY <1>2, SendInviteEffect DEF Invites
  <1>3. ASSUME NEW t \in Thread, NEW m \in net, Hears(t, m)
        PROVE  FALSE
    <2>1. m.status \in Status /\ Caller!RecvResponse(t, m.key, m.status)
      BY <1>3, TypeFacts DEF Hears, Overtakes
    <2> QED
      BY <2>1, RespondEffect DEF SameButResponse
  <1>4. ASSUME NEW t \in Thread \cup {Stack}, SendsAck(t)
        PROVE  FALSE
    <2>1. \A j \in DOMAIN ict' : ict'[j] = ict[j] \/ IsAcked(ict'[j], ict[j])
      BY <1>4, AckEffect DEF SendsAck
    <2> QED
      BY <2>1 DEF IsAcked
  <1>5. CASE Executes
    <2> DEFINE chosen(P(_)) == {j \in DOMAIN ict : P(ict[j])}
               gone    == chosen(Caller!Completed) \cup chosen(Caller!GiveUp)
                            \cup chosen(Caller!RingsTooLong)
               resends == chosen(Caller!Unanswered) \ gone
    <2>1. ict' = [j \in DOMAIN ict \ gone |->
                    IF j \in resends THEN [ict[j] EXCEPT !.resend = @ + 1] ELSE ict[j]]
      BY <1>5 DEF Executes, Caller!Execute
    <2>2. k \in resends => Caller!Unanswered(ict[k])
      OBVIOUS
    <2> HIDE DEF gone, resends, chosen
    <2>3. k \in resends
      BY <2>1
    <2> QED
      BY <2>2, <2>3 DEF Caller!Unanswered, Caller!Stopped, Caller!Off, Off, Caller!NoResponse,
                        NoResponse, Caller!ReSendDue, Waits, Unstopped
  <1>6. CASE Tick
    BY <1>6, TickEffect DEF IsOlder
  <1> QED
    BY <1>1, <1>2, <1>3, <1>4, <1>5, <1>6, IctUntouched

LEMMA NotTiredStep ==
  ASSUME Steady, AnswerIsDue, NotTired, Prompt, [Next]_vars
  PROVE  NotTired'
  <1> SUFFICES ASSUME ~ lost', NEW k \in DOMAIN ict'
               PROVE  ict'[k].resend + 1 < MAX_ICT_RESEND_COUNT
    BY DEF NotTired
  <1>0. Types /\ ~ lost
    BY LostStays DEF Steady, IInv, BasicInv
  <1>1. MAX_ICT_RESEND_COUNT \in Nat /\ 2 <= MAX_ICT_RESEND_COUNT /\ MaxDelay \in Nat
    BY Constants DEF Prompt
  <1>2. CASE ict'[k] = NewTransaction
    BY <1>1, <1>2, NewFields
  <1>3. CASE k \in DOMAIN ict /\ ict'[k].resend = ict[k].resend
    BY <1>0, <1>3 DEF NotTired
  <1>4. CASE k \in DOMAIN ict /\ ict'[k].resend # ict[k].resend
    <2>1. Waits(k) /\ ict[k].start >= ReSendTime[ict[k].resend]
      BY <1>0, <1>4, ResendStep
    <2>2. AnswerComing(k)
      BY <1>0, <1>4, <2>1 DEF AnswerIsDue
    <2>3. PICK m \in net : ict[k].start <= m.age \/ ict[k].start < m.age + MaxDelay
      BY <2>2 DEF AnswerComing
    <2>4. m.age \in Nat /\ m.age < MaxDelay /\ ict[k].start \in Nat
      BY <1>0, <1>4, TypeFacts, Constants
    <2>5. ict[k].start < 2 * MaxDelay - 1
      BY <1>1, <2>3, <2>4
    <2>6. ict[k].resend # MAX_ICT_RESEND_COUNT - 2
      <3>1. ReSendTime[MAX_ICT_RESEND_COUNT - 2] \in Nat
        <4>1. MAX_ICT_RESEND_COUNT - 2 \in 0 .. MAX_ICT_RESEND_COUNT - 1
          BY <1>1
        <4> QED
          BY <4>1, Constants
      <3>2. 2 * MaxDelay - 1 <= ReSendTime[MAX_ICT_RESEND_COUNT - 2]
        BY DEF Prompt
      <3> QED
        BY <1>1, <2>1, <2>4, <2>5, <3>1, <3>2
    <2>7. ict[k].resend + 1 < MAX_ICT_RESEND_COUNT /\ ict[k].resend \in Nat
      BY <1>0, <1>1, <1>4, TypeFacts DEF NotTired
    <2>8. ict'[k].resend = ict[k].resend + 1
      <3>1. ict'[k] # NewTransaction \/ ~ Invites(k) \/ k \in begun
        BY <1>0, <1>4, TypeFacts
      <3> QED
        BY <1>0, <1>4, <3>1, HeldStep
    <2> QED
      BY <1>1, <2>6, <2>7, <2>8
  <1> QED
    BY <1>0, <1>2, <1>3, <1>4, HeldStep

\* The callee's 200.
LEMMA ExcusedStays ==
  ASSUME Types, [Next]_vars, NEW k \in begun, Excused(k)
  PROVE  Excused(k)'
  <1>1. CASE <<k, SIP_REQUEST_TIME_OUT>> \in told
    BY <1>1, ToldStays DEF Excused
  <1>2. CASE CallOf[k] \notin DOMAIN latest
    <2>1. ASSUME NEW j \in Key, Invites(j)
          PROVE  CallOf[k] \notin DOMAIN latest'
      <3>1. /\ CallOf[j] \notin DOMAIN latest => \A i \in begun : CallOf[i] # CallOf[j]
            /\ DOMAIN latest' = DOMAIN latest \cup {CallOf[j]}
        BY <2>1, SendInviteEffect DEF Invites
      <3> QED
        BY <1>2, <3>1
    <2>2. CallOf[k] \notin DOMAIN latest'
      BY <1>2, <2>1, BegunStep
    <2> QED
      BY <2>2 DEF Excused
  <1> QED
    BY <1>1, <1>2 DEF Excused

LEMMA AwaitedBefore ==
  ASSUME Types, Numbered, [Next]_vars, NEW k, Awaits(k)'
  PROVE  \/ /\ Awaits(k)
            /\ Tick => ist'[k].start <= ist[k].start + 1
            /\ ~ Tick => ist'[k].start <= ist[k].start
         \/ /\ k \in DOMAIN ist
            /\ Answers(k, SIP_OK) /\ SIP_OK \in Status /\ SIP_OK > ist[k].status
            /\ ist'[k].start = 0
  <1>1. /\ k \in DOMAIN ist' /\ ist'[k].response = SIP_OK /\ ist'[k].stop = Off
        /\ ~ ist'[k].ack
    BY DEF Awaits
  <1>2. SIP_TRYING # SIP_OK /\ Final(SIP_OK) /\ 0 # Off
    BY Constants DEF SIP_TRYING, SIP_OK, Final
  <1>3. CASE k \in DOMAIN ist /\ ist'[k].response = ist[k].response
    <2>1. ist[k].start \in 0 .. Cap /\ ist[k].stop \in Age
      BY <1>3, TypeFacts
    <2>2. CASE Tick
      <3>1. IsOlder(ist'[k], ist[k])
        BY <1>3, <2>2, TickEffect
      <3>2. ist[k].stop = Off /\ ist'[k].start <= ist[k].start + 1
        BY <1>1, <2>1, <3>1, Ages, OlderAges DEF IsOlder
      <3> QED
        BY <1>1, <1>3, <2>2, <3>1, <3>2 DEF Awaits, IsOlder
    <2>3. CASE ~ Tick
      <3>1. /\ ist'[k].ack = ist[k].ack /\ ist'[k].stop = ist[k].stop
            /\ ist'[k].start \in {0, ist[k].start}
        BY <1>1, <1>2, <1>3, <2>3, ServedStep DEF Served
      <3>2. ist'[k].start <= ist[k].start
        BY <2>1, <3>1, Constants
      <3> QED
        BY <1>1, <1>3, <2>3, <3>1, <3>2 DEF Awaits
    <2> QED
      BY <2>2, <2>3
  <1>4. CASE /\ k \in DOMAIN ist
             /\ \E s \in Status : /\ Answers(k, s) /\ s > ist[k].status
                                  /\ ist'[k].status = s /\ ist'[k].response = s
                                  /\ ist'[k].start = IF Final(s) THEN 0 ELSE ist[k].start
    BY <1>1, <1>2, <1>4
  <1> QED
    BY <1>1, <1>2, <1>3, <1>4, StatusStep

\* What the callee did not answer yet, nobody knows.
LEMMA NewAccept ==
  ASSUME Steady, Steady', Prompt, Numbered, [Next]_vars, NEW k \in DOMAIN ist,
         Answers(k, SIP_OK), SIP_OK \in Status, SIP_OK > ist[k].status, ist'[k].start = 0
  PROVE  AckDue(k)'
  <1>0. Types /\ AnswerInv /\ k \in begun /\ k \in Key /\ Final(SIP_OK)
    BY TypeFacts, Constants DEF Steady, IInv, BasicInv, Final, SIP_OK
  <1>1. <<k, SIP_OK>> \notin answered
    <2>1. /\ <<k, SIP_OK>> \in answered => ist[k].response = SIP_OK
          /\ \/ ist[k].status = ist[k].response
             \/ ist[k].status = NoResponse /\ ist[k].response = SIP_TRYING
      BY DEF Steady, DeliveryInv, AnswerIsHeld, SIP_OK, SIP_UNAUTHORIZED
    <2> QED
      BY <2>1 DEF SIP_OK, SIP_TRYING
  <1>2. ~ Heard(k)
    <2>1. SIP_OK # SIP_REQUEST_TIME_OUT
      BY DEF SIP_OK, SIP_REQUEST_TIME_OUT
    <2> QED
      BY <1>0, <1>1, <2>1 DEF Heard, AnswerInv, UpcallWasAnswered, ToldWasAnswered
  <1>3. UNCHANGED <<ict, upcalls, timedOut, told>>
    BY DEF Answers, CalleeActs, callerState
  <1>4. ~ Heard(k)'
    BY <1>2, <1>3 DEF Heard
  <1>5. CASE k \in DOMAIN ict
    <2>1. net' = Callee!Sent(net, {Callee!Response(k, SIP_OK)})
      BY DEF Answers, Callee!SendResponse, Callee!Transmit
    <2>2. \E n \in net' :
            n.method = "RESPONSE" /\ n.key = k /\ n.status = SIP_OK /\ n.age = 0
      <3>1. ASSUME NEW s, s = SIP_OK
            PROVE  \E n \in net' :
                     n.method = "RESPONSE" /\ n.key = k /\ n.status = s /\ n.age = 0
        <4>1. net' = Callee!Sent(net, {Callee!Response(k, s)})
          BY <2>1, <3>1
        <4> QED
          BY <4>1, AnswerIsSent
      <3> QED
        BY <3>1
    <2>3. PICK n \in net' : /\ n.method = "RESPONSE" /\ n.key = k /\ n.status = SIP_OK
                            /\ n.age = 0
      BY <2>2
    <2>4. n \notin net
      BY <1>0, <1>1, <2>3 DEF AnswerInv, SentWasAnswered
    <2>5. ~ Tick
      BY <1>0, <1>1, TickEffect, AnswersFacts
    <2>6. n \notin received'
      BY <2>4, <2>5, ReceivedStep DEF Steady, DeliveryInv, ReceivedWasSent
    <2>7. AcceptComing(k)'
      BY <1>3, <1>4, <1>5, <2>3, <2>6, Constants DEF AcceptComing, Coming
    <2> QED
      BY <2>7 DEF AckDue
  <1>6. CASE k \notin DOMAIN ict
    <2>1. Caller!ToldFinal(k) \/ Fails(k)
      BY <1>0, <1>6 DEF Steady, DeliveryInv, GoneIsTold
    <2>2. CASE Fails(k)
      <3>1. Fails(k)'
        BY <1>3, <2>2 DEF Fails
      <3> QED
        BY <3>1 DEF AckDue, Failing, Prompt
    <2>3. CASE Caller!ToldFinal(k)
      <3>1. PICK s \in Status \cup {SIP_REQUEST_TIME_OUT} : Final(s) /\ <<k, s>> \in told
        BY <2>3 DEF Caller!ToldFinal, Caller!Final, Caller!SIP_OK, Final, SIP_OK,
                    Caller!SIP_REQUEST_TIME_OUT, SIP_REQUEST_TIME_OUT
      <3>2. s # SIP_REQUEST_TIME_OUT => <<k, s>> \in answered
        BY <1>0, <3>1 DEF AnswerInv, ToldWasAnswered
      <3>3. s = SIP_REQUEST_TIME_OUT
        BY <1>1, <3>1, <3>2 DEF Answers
      <3> QED
        BY <1>3, <3>1, <3>3 DEF AckDue, Excused
    <2> QED
      BY <2>1, <2>2, <2>3
  <1> QED
    BY <1>5, <1>6

\* An ACK that the callee received, it holds.
LEMMA AckIsComing ==
  ASSUME Steady', NEW k, Awaits(k)',
         NEW m \in net', m.method = "ACK", m.key = k, ist'[k].start < m.age + MaxDelay
  PROVE  AckDue(k)'
  <1>1. CASE m \notin received'
    <2>1. AckComing(k)'
      BY <1>1 DEF AckComing, Coming
    <2> QED
      BY <2>1 DEF AckDue
  <1>2. CASE m \in received'
    <2>1. /\ k \in DOMAIN ist' /\ ~ ist'[k].ack /\ ist'[k].response = SIP_OK
      BY DEF Awaits
    <2>2. \/ <<k, SIP_REQUEST_TIME_OUT>> \in told'
          \/ <<k, SIP_UNAUTHORIZED>> \in answered'
      BY <1>2, <2>1 DEF Steady, DeliveryInv, ReceivedIsAcked
    <2>3. <<k, SIP_UNAUTHORIZED>> \notin answered'
      <3>1. <<k, SIP_OK>> \in answered'
        <4>1. Final(SIP_OK)
          BY DEF Final, SIP_OK
        <4> QED
          BY <2>1, <4>1 DEF Steady, IInv, AnswerInv, HeldWasAnswered
      <3>2. SUFFICES ASSUME <<k, SIP_UNAUTHORIZED>> \in answered' PROVE FALSE
        OBVIOUS
      <3>3. /\ SIP_OK \in Status /\ SIP_UNAUTHORIZED \in Status /\ k \in Key
            /\ SIP_OK # SIP_UNAUTHORIZED
        <4>1. k \in offered' /\ SIP_OK \in Status /\ SIP_UNAUTHORIZED \in Status
          BY <3>1, <3>2 DEF Steady, IInv, AnswerInv, OneAnswer
        <4>2. offered' \subseteq Key
          BY DEF Steady, IInv, BasicInv, Types, CalleeTypes, CallerTypes
        <4> QED
          BY <4>1, <4>2 DEF SIP_OK, SIP_UNAUTHORIZED
      <3> QED
        BY <3>1, <3>2, <3>3 DEF Steady, IInv, AnswerInv, OneAnswer
    <2> QED
      BY <2>2, <2>3 DEF AckDue, Excused
  <1> QED
    BY <1>1, <1>2

\* An INVITE that times out is excused until the user agent is told.
LEMMA FailingIsDue ==
  ASSUME Types, [Next]_vars, NEW k, Fails(k) \/ k \in timedOut', ist'[k].start < MaxDelay
  PROVE  AckDue(k)'
  <1>1. CASE k \in timedOut'
    BY <1>1 DEF AckDue, Failing, Fails
  <1>2. CASE Fails(k)
    <2>1. Fails(k)' \/ <<k, SIP_REQUEST_TIME_OUT>> \in told'
      BY <1>2, FailsStays
    <2> QED
      BY <2>1 DEF AckDue, Failing, Excused
  <1> QED
    BY <1>1, <1>2

\* The user agent that is being told of a 200 sends its ACK.
LEMMA TellingStep ==
  ASSUME Steady, Steady', Prompt, Numbered, [Next]_vars, ~ Tick, NEW k \in DOMAIN ist,
         Awaits(k)', ist'[k].start <= ist[k].start, Telling(k), ~ Excused(k)
  PROVE  AckDue(k)'
  <1>0. /\ Types /\ BasicInv /\ DisciplineInv /\ StoppedIsAcked
        /\ k \in DOMAIN ict /\ ~ ict[k].ack
        /\ CallOf[k] \in DOMAIN latest
    BY DEF Steady, IInv, BasicInv, DeliveryInv, Telling, Excused
  <1>1. /\ ist'[k].start < MaxDelay /\ ist'[k].start < 0 + MaxDelay
    <2>1. ist[k].start \in Nat /\ ist'[k].start \in Nat /\ MaxDelay \in Nat
      <3>1. Types' /\ k \in DOMAIN ist'
        BY DEF Steady, IInv, BasicInv, Awaits
      <3>2. ist'[k] \in CSipInviteTransaction
        BY <3>1 DEF Types, CalleeTypes
      <3> QED
        BY <1>0, <3>2, TypeFacts, FieldTypes, Constants
    <2> QED
      BY <2>1 DEF Telling
  <1>2. PICK u \in upcalls : u.key = k /\ u.status = SIP_OK
    BY DEF Telling
  <1>3. CASE k \notin DOMAIN ict'
    <2>1. k \in timedOut'
      BY <1>0, <1>3, GoneStep DEF StoppedIsAcked
    <2> QED
      BY <1>0, <1>1, <2>1, FailingIsDue
  <1>4. CASE k \in DOMAIN ict' /\ ict'[k].ack
    <2>1. PICK m \in net' : m.method = "ACK" /\ m.key = k /\ m.age = 0
      BY <1>0, <1>4, AckIsSent
    <2> QED
      BY <1>1, <2>1, AckIsComing
  <1>5. CASE k \in DOMAIN ict' /\ ~ ict'[k].ack
    <2>1. (\E v \in upcalls' : v.key = k /\ v.status = SIP_OK) => AckDue(k)'
      BY <1>1, <1>5 DEF AckDue, Telling
    <2>2. CASE u \in upcalls'
      BY <1>2, <2>1, <2>2
    <2>3. CASE u \notin upcalls' /\ u.phase = "tell"
      <3>1. Final(SIP_OK)
        BY DEF Final, SIP_OK
      <3> QED
        BY <1>0, <1>2, <2>1, <2>3, <3>1, TellEnds
    <2>4. CASE u \notin upcalls' /\ u.phase = "ack"
      <3>1. u.via = k
        BY <1>0, <1>2, <2>4 DEF DisciplineInv, AckIsOwn
      <3>2. ict'[k].stop = 0
        BY <1>0, <2>4, <3>1, EndedUpcall
      <3>3. StoppedIsAcked' /\ 0 # Off
        BY Constants DEF Steady, DeliveryInv
      <3> QED
        BY <1>5, <3>2, <3>3 DEF StoppedIsAcked
    <2>5. u.phase \in {"tell", "ack"}
      BY <1>0, TypeFacts
    <2> QED
      BY <2>2, <2>3, <2>4, <2>5
  <1> QED
    BY <1>3, <1>4, <1>5

\* What the user agent is told first is called back.
LEMMA HeardBegins ==
  ASSUME Types, [Next]_vars, NEW k, ~ Heard(k), Heard(k)'
  PROVE  \E u \in upcalls' : u.key = k /\ u.status = SIP_OK
  <1>1. CASE <<k, SIP_OK>> \in told'
    <2>1. <<k, SIP_OK>> \notin told
      BY DEF Heard
    <2>2. PICK u \in upcalls : u.phase = "tell" /\ told' = told \cup {<<u.key, u.status>>}
      BY <1>1, <2>1, ToldStep
    <2> QED
      BY <1>1, <2>1, <2>2 DEF Heard
  <1> QED
    BY <1>1 DEF Heard

\* What a transaction that holds an ACK was told is the answer, or a 408.
LEMMA ToldTheAnswer ==
  ASSUME IInv, NEW k \in Key, Caller!ToldFinal(k), <<k, SIP_OK>> \in answered
  PROVE  Heard(k) \/ Excused(k)
  <1>1. PICK s \in Status \cup {SIP_REQUEST_TIME_OUT} : Final(s) /\ <<k, s>> \in told
    BY DEF Caller!ToldFinal, Caller!Final, Caller!SIP_OK, Final, SIP_OK,
           Caller!SIP_REQUEST_TIME_OUT, SIP_REQUEST_TIME_OUT
  <1>2. CASE s = SIP_REQUEST_TIME_OUT
    BY <1>1, <1>2 DEF Excused
  <1>3. CASE s # SIP_REQUEST_TIME_OUT
    <2>1. <<k, s>> \in answered /\ s \in Status
      BY <1>1, <1>3 DEF IInv, AnswerInv, ToldWasAnswered
    <2>2. s = SIP_OK
      BY <2>1 DEF IInv, AnswerInv, OneAnswer
    <2> QED
      BY <1>1, <2>2 DEF Heard
  <1> QED
    BY <1>2, <1>3

\* The 200 that comes is told.
LEMMA AcceptComingStep ==
  ASSUME Steady, Steady', Prompt, Numbered, [Next]_vars, ~ Tick, NEW k \in DOMAIN ist,
         Awaits(k)', ist'[k].start <= ist[k].start, AcceptComing(k), ~ Excused(k)
  PROVE  AckDue(k)'
  <1>0. /\ Types /\ BasicInv /\ DisciplineInv /\ StoppedIsAcked /\ IInv
        /\ k \in DOMAIN ict /\ ~ Heard(k) /\ k \in Key
    BY TypeFacts DEF Steady, IInv, BasicInv, DeliveryInv, AcceptComing
  <1>1. PICK m \in net :
          /\ Coming(m) /\ m.method = "RESPONSE" /\ m.key = k /\ m.status = SIP_OK
          /\ ist[k].start <= m.age
    BY DEF AcceptComing
  <1>2. /\ ist'[k].start < MaxDelay /\ ist'[k].start < 0 + MaxDelay
        /\ ist'[k].start <= m.age
    <2>1. ist[k].start \in Nat /\ ist'[k].start \in Nat /\ MaxDelay \in Nat
      <3>1. Types' /\ k \in DOMAIN ist'
        BY DEF Steady, IInv, BasicInv, Awaits
      <3>2. ist'[k] \in CSipInviteTransaction
        BY <3>1 DEF Types, CalleeTypes
      <3> QED
        BY <1>0, <3>2, TypeFacts, FieldTypes, Constants
    <2>2. m.age \in Nat /\ m.age < MaxDelay
      BY <1>0, TypeFacts
    <2> QED
      BY <1>1, <2>1, <2>2
  <1>3. ~ ict[k].ack
    <2>1. Final(SIP_OK)
      BY DEF Final, SIP_OK
    <2>2. <<k, SIP_OK>> \in answered
      BY <1>1, <2>1 DEF Steady, IInv, AnswerInv, SentWasAnswered
    <2>3. ict[k].ack => Caller!ToldFinal(k)
      BY <1>0 DEF DisciplineInv, AckIsOfTold
    <2> QED
      BY <1>0, <2>2, <2>3, ToldTheAnswer
  <1>4. CASE k \notin DOMAIN ict'
    <2>1. k \in timedOut'
      BY <1>0, <1>3, <1>4, GoneStep DEF StoppedIsAcked
    <2> QED
      BY <1>0, <1>2, <2>1, FailingIsDue
  <1>5. CASE k \in DOMAIN ict' /\ ict'[k].ack
    <2>1. PICK n \in net' : n.method = "ACK" /\ n.key = k /\ n.age = 0
      BY <1>0, <1>3, <1>5, AckIsSent
    <2> QED
      BY <1>2, <2>1, AckIsComing
  <1>6. CASE k \in DOMAIN ict' /\ ~ ict'[k].ack /\ Heard(k)'
    <2>1. \E u \in upcalls' : u.key = k /\ u.status = SIP_OK
      BY <1>0, <1>6, HeardBegins
    <2> QED
      BY <1>2, <1>6, <2>1 DEF AckDue, Telling
  <1>7. CASE k \in DOMAIN ict' /\ ~ Heard(k)'
    <2>1. m \notin received'
      BY <1>1, <1>7 DEF Steady, DeliveryInv, ReceivedIsHeard
    <2>2. m \in net'
      BY NothingExpires
    <2>3. AcceptComing(k)'
      BY <1>1, <1>2, <1>7, <2>1, <2>2 DEF AcceptComing, Coming
    <2> QED
      BY <2>3 DEF AckDue
  <1> QED
    BY <1>4, <1>5, <1>6, <1>7

LEMMA AckComingStep ==
  ASSUME Steady, Steady', [Next]_vars, ~ Tick, NEW k \in DOMAIN ist,
         Awaits(k)', ist'[k].start <= ist[k].start, AckComing(k)
  PROVE  AckDue(k)'
  <1>0. Types
    BY DEF Steady, IInv, BasicInv
  <1>1. PICK m \in net :
          m.method = "ACK" /\ m.key = k /\ ist[k].start < m.age + MaxDelay
    BY DEF AckComing
  <1>2. ist'[k].start < m.age + MaxDelay
    <2>1. ist[k].start \in Nat /\ ist'[k].start \in Nat /\ MaxDelay \in Nat /\ m.age \in Nat
      <3>1. Types' /\ k \in DOMAIN ist'
        BY DEF Steady, IInv, BasicInv, Awaits
      <3>2. ist'[k] \in CSipInviteTransaction
        BY <3>1 DEF Types, CalleeTypes
      <3> QED
        BY <1>0, <3>2, TypeFacts, FieldTypes, Constants
    <2> QED
      BY <1>1, <2>1
  <1>3. m \in net'
    BY NothingExpires
  <1> QED
    BY <1>1, <1>2, <1>3, AckIsComing

\* Between two ticks no callback is under way: what is due is on the network.
LEMMA TickIsDue ==
  ASSUME Steady, Steady', Tick, ~ lost', NEW k \in DOMAIN ist, AckDue(k),
         ist'[k].start <= ist[k].start + 1
  PROVE  AckDue(k)'
  <1>0. Types /\ ReceivedWasSent
    BY DEF Steady, IInv, BasicInv, DeliveryInv
  <1>1. /\ upcalls = {} /\ timedOut = {} /\ DOMAIN ict' = DOMAIN ict
        /\ UNCHANGED <<upcalls, told, latest>>
    BY <1>0, TickEffect
  <1>2. ist[k].start \in Nat /\ ist'[k].start \in Nat /\ MaxDelay \in Nat
    <2>1. Types' /\ k \in DOMAIN ist'
      BY <1>0, TickEffect DEF Steady, IInv, BasicInv
    <2>2. ist'[k] \in CSipInviteTransaction
      BY <2>1 DEF Types, CalleeTypes
    <2> QED
      BY <1>0, <2>2, TypeFacts, FieldTypes, Constants
  <1>3. ~ Failing(k) /\ ~ Telling(k)
    BY <1>1 DEF Failing, Fails, Telling
  <1>4. CASE Excused(k)
    BY <1>1, <1>4 DEF AckDue, Excused
  <1>5. ASSUME NEW m \in net, Coming(m)
        PROVE  \E n \in net' :
                 /\ Coming(n)' /\ n.method = m.method /\ n.key = m.key /\ n.status = m.status
                 /\ ist[k].start < m.age + MaxDelay => ist'[k].start < n.age + MaxDelay
                 /\ ist[k].start <= m.age => ist'[k].start <= n.age
    <2>1. PICK n \in net' : n \notin received' /\ SameDatagram(m, n) /\ n.age = m.age + 1
      BY <1>0, <1>5, ComingGrowsOld
    <2>2. m.age \in Nat
      BY <1>0, TypeFacts
    <2>3. /\ ist[k].start < m.age + MaxDelay => ist'[k].start < n.age + MaxDelay
          /\ ist[k].start <= m.age => ist'[k].start <= n.age
      BY <1>2, <2>1, <2>2
    <2> QED
      BY <2>1, <2>3 DEF SameDatagram, Coming
  <1>6. CASE AckComing(k)
    <2>1. AckComing(k)'
      BY <1>5, <1>6 DEF AckComing
    <2> QED
      BY <2>1 DEF AckDue
  <1>7. CASE AcceptComing(k)
    <2>1. AcceptComing(k)'
      BY <1>1, <1>5, <1>7 DEF AcceptComing, Heard
    <2> QED
      BY <2>1 DEF AckDue
  <1> QED
    BY <1>3, <1>4, <1>6, <1>7 DEF AckDue

LEMMA AckIsDueStep ==
  ASSUME Steady, Steady', AckIsDue, Prompt, Numbered, [Next]_vars
  PROVE  AckIsDue'
  <1> SUFFICES ASSUME ~ lost', NEW k \in DOMAIN ist', Awaits(k)'
               PROVE  AckDue(k)'
    BY DEF AckIsDue
  <1>0. Types /\ ~ lost
    BY LostStays DEF Steady, IInv, BasicInv
  <1>1. CASE /\ k \in DOMAIN ist
             /\ Answers(k, SIP_OK) /\ SIP_OK \in Status /\ SIP_OK > ist[k].status
             /\ ist'[k].start = 0
    BY <1>1, NewAccept
  <1>2. CASE /\ Awaits(k)
             /\ Tick => ist'[k].start <= ist[k].start + 1
             /\ ~ Tick => ist'[k].start <= ist[k].start
    <2>1. k \in DOMAIN ist /\ AckDue(k) /\ k \in begun
      <3>1. k \in DOMAIN ist
        BY <1>2 DEF Awaits
      <3> QED
        BY <1>0, <1>2, <3>1, TypeFacts DEF AckIsDue
    <2>2. CASE Tick
      BY <1>2, <2>1, <2>2, TickIsDue
    <2>3. CASE ~ Tick
      <3>1. CASE Excused(k)
        BY <1>0, <2>1, <3>1, ExcusedStays DEF AckDue
      <3>2. CASE Failing(k)
        <4>1. ist'[k].start < MaxDelay
          <5>1. ist[k].start \in Nat /\ ist'[k].start \in Nat /\ MaxDelay \in Nat
            <6>1. Types'
              BY DEF Steady, IInv, BasicInv
            <6>2. ist'[k] \in CSipInviteTransaction
              BY <6>1 DEF Types, CalleeTypes
            <6> QED
              BY <1>0, <2>1, <6>2, TypeFacts, FieldTypes, Constants
          <5> QED
            BY <1>2, <2>3, <3>2, <5>1 DEF Failing
        <4> QED
          BY <1>0, <3>2, <4>1, FailingIsDue DEF Failing
      <3>3. CASE Telling(k) /\ ~ Excused(k)
        BY <1>2, <2>1, <2>3, <3>3, TellingStep
      <3>4. CASE AckComing(k)
        BY <1>2, <2>1, <2>3, <3>4, AckComingStep
      <3>5. CASE AcceptComing(k) /\ ~ Excused(k)
        BY <1>2, <2>1, <2>3, <3>5, AcceptComingStep
      <3> QED
        BY <2>1, <3>1, <3>2, <3>3, <3>4, <3>5 DEF AckDue
    <2> QED
      BY <2>2, <2>3
  <1> QED
    BY <1>0, <1>1, <1>2, AwaitedBefore

\* Execute of the callee reports a 200 for which it waited to the end of the table.
LEMMA ReportStep ==
  ASSUME Types, [Next]_vars, NEW k \in unacked' \cup timeouts', k \notin unacked \cup timeouts
  PROVE  /\ k \in DOMAIN ist
         /\ ist[k].status = SIP_OK /\ ist[k].stop = Off /\ ~ ist[k].ack
         /\ ist[k].start >= LastTime
  <1> USE DEF callerVars, calleeVars, CallerStep, CalleeStep
  <1>1. CASE CalleeReceivesInvite
    BY <1>1 DEF CalleeReceivesInvite, Callee!RecvInvite
  <1>2. CASE CalleeReceivesInviteAgain
    BY <1>2 DEF CalleeReceivesInviteAgain, Callee!RecvInviteAgain
  <1>3. CASE CalleeReceivesAck
    BY <1>3 DEF CalleeReceivesAck, Callee!RecvAck
  <1>4. CASE CalleeAnswers
    BY <1>4 DEF CalleeAnswers, Callee!SendResponse
  <1>5. CASE CalleeExecutes
    <2>1. k \in DOMAIN ist /\ Callee!Reports(ist[k])
      BY <1>5 DEF CalleeExecutes, Callee!Execute
    <2>2. /\ ist[k].status = SIP_OK /\ ist[k].stop = Off /\ ~ ist[k].ack
          /\ ist[k].resend + 1 = MAX_ICT_RESEND_COUNT
          /\ ist[k].start >= ReSendTime[ist[k].resend]
      BY <2>1 DEF Callee!Reports, Callee!GiveUp, Callee!AwaitsAck, Callee!Stopped, Callee!Off,
                  Off, Callee!SIP_OK, SIP_OK, Callee!ReSendDue
    <2>3. ist[k].resend = MAX_ICT_RESEND_COUNT - 1
      <3>1. ist[k].resend \in Int
        BY <2>1, TypeFacts, FieldTypes
      <3> QED
        BY <2>2, <3>1, Constants
    <2> QED
      BY <2>1, <2>2, <2>3 DEF LastTime
  <1>6. CASE CalleeTimesOut
    BY <1>6 DEF CalleeTimesOut, Callee!SendTimeout
  <1>7. CASE Tick
    BY <1>7 DEF Tick, Callee!Tick
  <1>8. CASE UNCHANGED <<unacked, timeouts>>
    BY <1>8
  <1> QED
    BY <1>1, <1>2, <1>3, <1>4, <1>5, <1>6, <1>7, <1>8
       DEF Next, CallerSendsInvite, CallerReceives, CallerIsTold, CallerSendsAck, CallerHangsUp,
           CallerExecutes, CallerTimesOut, vars

LEMMA OnlyExcusedStep ==
  ASSUME Steady, AckIsDue, OnlyExcused, Prompt, Timely, [Next]_vars
  PROVE  OnlyExcused'
  <1>0. Types
    BY DEF Steady, IInv, BasicInv
  <1>1. begun \subseteq begun'
    <2>1. \A k \in Key : Invites(k) => begun \subseteq begun'
      BY <1>0, SendInviteEffect DEF Invites
    <2> QED
      BY <1>0, <2>1, BegunStep
  <1>2. ASSUME NEW k \in unacked' \cup timeouts', k \notin unacked \cup timeouts
        PROVE  k \in begun /\ (~ lost => Excused(k))
    <2>1. /\ k \in DOMAIN ist
          /\ ist[k].status = SIP_OK /\ ist[k].stop = Off /\ ~ ist[k].ack
          /\ ist[k].start >= LastTime
      BY <1>0, <1>2, ReportStep
    <2>2. k \in begun
      BY <1>0, <2>1, TypeFacts
    <2>3. Awaits(k)
      <3>1. \/ ist[k].status = ist[k].response
            \/ ist[k].status = NoResponse
        BY <2>1 DEF Steady, DeliveryInv, AnswerIsHeld
      <3>2. SIP_OK # NoResponse
        BY DEF SIP_OK, NoResponse
      <3> QED
        BY <2>1, <3>1, <3>2 DEF Awaits
    <2>4. ASSUME ~ lost
          PROVE  Excused(k)
      <3>1. AckDue(k)
        BY <2>1, <2>3, <2>4 DEF AckIsDue
      <3>2. ist[k].start >= 2 * MaxDelay - 1 /\ ist[k].start \in Nat
            /\ MaxDelay \in Nat /\ 0 < MaxDelay
        <4>1. /\ MAX_ICT_RESEND_COUNT \in Nat /\ 2 <= MAX_ICT_RESEND_COUNT /\ MaxDelay \in Nat
              /\ 0 < MaxDelay
              /\ 2 * MaxDelay - 1 <= ReSendTime[MAX_ICT_RESEND_COUNT - 2]
          BY Constants DEF Prompt
        <4>2. MAX_ICT_RESEND_COUNT - 2 \in 0 .. MAX_ICT_RESEND_COUNT - 1
          BY <4>1
        <4>3. /\ ReSendTime[MAX_ICT_RESEND_COUNT - 2] \in Nat
              /\ ReSendTime[MAX_ICT_RESEND_COUNT - 2] <= LastTime
          BY <4>2, SortedTable
        <4>4. LastTime \in Nat
          <5>1. MAX_ICT_RESEND_COUNT - 1 \in 0 .. MAX_ICT_RESEND_COUNT - 1
            BY <4>1
          <5> QED
            BY <5>1, SortedTable DEF LastTime
        <4>5. ist[k].start \in Nat
          BY <1>0, <2>1, TypeFacts, Constants
        <4> QED
          BY <2>1, <4>1, <4>3, <4>4, <4>5
      <3>3. \A m \in net : m.age \in Nat /\ m.age < MaxDelay
        BY <1>0, TypeFacts
      <3>4. ~ Failing(k) /\ ~ Telling(k)
        BY <3>2 DEF Failing, Telling
      <3>5. ~ AckComing(k)
        BY <3>2, <3>3 DEF AckComing
      <3>6. ~ AcceptComing(k)
        BY <3>2, <3>3 DEF AcceptComing
      <3> QED
        BY <3>1, <3>4, <3>5, <3>6 DEF AckDue
    <2> QED
      BY <2>2, <2>4
  <1>3. \A k \in unacked' \cup timeouts' : k \in begun /\ (~ lost => Excused(k))
    BY <1>2 DEF OnlyExcused
  <1>4. ASSUME ~ lost', NEW k \in unacked' \cup timeouts'
        PROVE  Excused(k)'
    <2>1. ~ lost
      BY <1>4, LostStays
    <2> QED
      BY <1>0, <1>3, <2>1, ExcusedStays
  <1> QED
    BY <1>1, <1>3, <1>4 DEF OnlyExcused

PunctualInv ==
  Steady /\ AnswerIsDue /\ NotTired /\ AckIsDue /\ OnlyExcused

LEMMA PunctualInit == Init => PunctualInv
  <1> SUFFICES ASSUME Init PROVE PunctualInv
    OBVIOUS
  <1>1. DOMAIN ict = {} /\ DOMAIN ist = {} /\ unacked = {} /\ timeouts = {}
    BY DEF Init, Caller!Init, Caller!EmptyMap, Callee!Init, Callee!EmptyMap
  <1>2. Steady
    BY InvInit, DeliveryInit DEF Steady
  <1> QED
    BY <1>1, <1>2 DEF PunctualInv, AnswerIsDue, NotTired, AckIsDue, OnlyExcused

LEMMA PunctualStep ==
  ASSUME PunctualInv, Disciplined, Numbered, Timely, Prompt, [Next]_vars
  PROVE  PunctualInv'
  <1>1. /\ Steady /\ IInv /\ DeliveryInv
        /\ AnswerIsDue /\ NotTired /\ AckIsDue /\ OnlyExcused
    BY DEF PunctualInv, Steady
  <1>2. Steady'
    BY <1>1, InvStep, DeliveryStep DEF Steady
  <1>3. AnswerIsDue' /\ NotTired'
    BY <1>1, <1>2, AnswerIsDueStep, NotTiredStep
  <1>4. AckIsDue' /\ OnlyExcused'
    BY <1>1, <1>2, AckIsDueStep, OnlyExcusedStep
  <1> QED
    BY <1>2, <1>3, <1>4 DEF PunctualInv

\* When no datagram is lost nobody times out for no reason, whatever the network delays,
\* repeats and reorders: the caller does not exhaust its retransmissions, and the callee's
\* 200 is reported as not acknowledged only if the caller gave up or hung up.
THEOREM NobodyTimesOutFalsely ==
  ASSUME Disciplined, Numbered, Timely, Prompt
  PROVE  Spec => []NoFalseTimeout
  <1>1. Init => PunctualInv
    BY PunctualInit
  <1>2. PunctualInv /\ [Next]_vars => PunctualInv'
    BY PunctualStep
  <1>3. PunctualInv => NoFalseTimeout
    BY DEF PunctualInv, NotTired, OnlyExcused, Excused, NoFalseTimeout
  <1> QED
    BY <1>1, <1>2, <1>3, PTL DEF Spec
=============================================================================
