-------------------------- MODULE SipICTListProofs --------------------------
(***************************************************************************)
(* Theorems about SipICTList, for every set of INVITEs, every number of    *)
(* receiving threads and every value of the timers.                        *)
(***************************************************************************)
EXTENDS SipICTList, TLAPS

\* The fields of a transaction keep their types when several are changed at once.
LEMMA FieldTypes ==
  ASSUME NEW tr \in CSipInviteTransaction
  PROVE  /\ tr.response \in Status \cup {NoResponse, SIP_TRYING}
         /\ tr.status \in Status \cup {NoResponse}
         /\ tr.ack \in BOOLEAN
         /\ tr.resend \in 0 .. MAX_ICT_RESEND_COUNT
         /\ tr.start \in 0 .. Cap
         /\ tr.ring \in Age
         /\ tr.stop \in Age
  BY DEF CSipInviteTransaction

LEMMA AckFields ==
  ASSUME NEW tr \in CSipInviteTransaction, NEW a \in BOOLEAN, NEW p \in Age
  PROVE  [tr EXCEPT !.ack = a, !.stop = p] \in CSipInviteTransaction
  BY DEF CSipInviteTransaction

LEMMA TimeFields ==
  ASSUME NEW tr \in CSipInviteTransaction,
         NEW x \in 0 .. Cap, NEW y \in Age, NEW p \in Age
  PROVE  [tr EXCEPT !.start = x, !.ring = y, !.stop = p] \in CSipInviteTransaction
  BY DEF CSipInviteTransaction

LEMMA ResponseFields ==
  ASSUME NEW tr \in CSipInviteTransaction,
         NEW x \in Status \cup {NoResponse, SIP_TRYING},
         NEW y \in Status \cup {NoResponse}, NEW p \in Age, NEW q \in Age
  PROVE  [tr EXCEPT !.response = x, !.status = y, !.stop = p, !.ring = q]
           \in CSipInviteTransaction
  BY DEF CSipInviteTransaction

\* Ages, and the records of a transaction that is new or grew older, have their types.
LEMMA Ages ==
  /\ Off \in Age
  /\ \A x \in 0 .. Cap : x \in Age /\ x # Off /\ Older(x) \in 0 .. Cap
  /\ \A x \in Age : Older(x) \in Age /\ (Older(x) = Off <=> x = Off)
  /\ 0 \in 0 .. Cap
  BY ListAssumption DEF Older, Age, Off

LEMMA NewType == NewTransaction \in CSipInviteTransaction
  BY ListAssumption DEF NewTransaction, CSipInviteTransaction, Age, Off

\* A transaction keeps its type when it is changed the way the code changes it.
LEMMA TransactionTypes ==
  ASSUME NEW tr \in CSipInviteTransaction
  PROVE  /\ Acked(tr) \in CSipInviteTransaction
         /\ OlderTransaction(tr) \in CSipInviteTransaction
         /\ \A s \in Status : Responded(tr, s) \in CSipInviteTransaction
         /\ tr.resend < MAX_ICT_RESEND_COUNT =>
              [tr EXCEPT !.resend = @ + 1] \in CSipInviteTransaction
  <1>2. Acked(tr) \in CSipInviteTransaction
    BY AckFields, Ages DEF Acked
  <1>3. OlderTransaction(tr) \in CSipInviteTransaction
    BY TimeFields, FieldTypes, Ages DEF OlderTransaction
  <1>4. ASSUME NEW s \in Status PROVE Responded(tr, s) \in CSipInviteTransaction
    BY ResponseFields, FieldTypes, Ages DEF Responded
  <1>5. ASSUME tr.resend < MAX_ICT_RESEND_COUNT
        PROVE  [tr EXCEPT !.resend = @ + 1] \in CSipInviteTransaction
    BY <1>5, ListAssumption DEF CSipInviteTransaction
  <1> QED BY <1>2, <1>3, <1>4, <1>5

\* Datagrams keep their type when they are sent and when they grow older.
LEMMA NetTypes ==
  ASSUME net \subseteq Datagram
  PROVE  /\ \A k \in Key : Sent(net, {Request("INVITE", k)}) \subseteq Datagram
         /\ \A k \in Key : Sent(net, {Request("ACK", k)}) \subseteq Datagram
         /\ \A S \in SUBSET Key :
              Sent(net, {Request("INVITE", k) : k \in S}) \subseteq Datagram
         /\ Sent(net, {}) \subseteq Datagram
         /\ OlderNet(net) \subseteq Datagram
  <1> USE ListAssumption DEF Sent, Request, Datagram, NoResponse
  <1>1. \A k \in Key : Sent(net, {Request("INVITE", k)}) \subseteq Datagram
    OBVIOUS
  <1>2. \A k \in Key : Sent(net, {Request("ACK", k)}) \subseteq Datagram
    OBVIOUS
  <1>3. ASSUME NEW S \in SUBSET Key
        PROVE  Sent(net, {Request("INVITE", k) : k \in S}) \subseteq Datagram
    OBVIOUS
  <1>4. Sent(net, {}) \subseteq Datagram
    OBVIOUS
  <1>5. OlderNet(net) \subseteq Datagram
    BY DEF OlderNet
  <1> QED BY <1>1, <1>2, <1>3, <1>4, <1>5

LEMMA TypeInit == Init => TypeOK
  BY DEF Init, TypeOK, EmptyMap

LEMMA TypeStep == TypeOK /\ ReSendIndexInTable /\ [Next]_vars => TypeOK'
  <1> SUFFICES ASSUME TypeOK, ReSendIndexInTable, [Next]_vars PROVE TypeOK'
    OBVIOUS
  <1> USE DEF TypeOK
  <1>1. ASSUME NEW k \in Key, SendInvite(k) PROVE TypeOK'
    <2>1. ict'[k] = NewTransaction /\ DOMAIN ict' = DOMAIN ict \cup {k}
      BY <1>1 DEF SendInvite, Insert
    <2>2. \A j \in DOMAIN ict' : ict'[j] \in CSipInviteTransaction
      BY <1>1, <2>1, NewType DEF SendInvite, Insert
    <2>3. net' \subseteq Datagram
      BY <1>1, NetTypes DEF SendInvite, Transmit
    <2>4. DOMAIN latest' \subseteq Call /\ \A c \in DOMAIN latest' : latest'[c] \in Key
      BY <1>1, ListAssumption DEF SendInvite
    <2> QED BY <1>1, <2>1, <2>2, <2>3, <2>4 DEF SendInvite
  <1>2. ASSUME NEW t \in Thread, NEW k \in Key, NEW s \in Status, RecvResponse(t, k, s)
        PROVE  TypeOK'
    <2>1. Responded(ict[k], s) \in CSipInviteTransaction
      BY <1>2, TransactionTypes DEF RecvResponse
    <2>0. k \in DOMAIN ict /\ ict' = [ict EXCEPT ![k] = Responded(ict[k], s)]
      BY <1>2 DEF RecvResponse
    <2>2. \A j \in DOMAIN ict' : ict'[j] \in CSipInviteTransaction
      BY <2>0, <2>1
    <2>3. net' \subseteq Datagram
      BY <1>2, NetTypes DEF RecvResponse, Transmit
    <2>4. upcalls' \subseteq Upcall
      BY <1>2 DEF RecvResponse, Upcall
    <2> QED BY <1>2, <2>2, <2>3, <2>4 DEF RecvResponse
  <1>3. ASSUME NEW t \in Thread \cup {Stack}, Tell(t) PROVE TypeOK'
    <2>1. PICK u \in upcalls :
            /\ told' = told \cup {<<u.key, u.status>>}
            /\ \/ upcalls' \subseteq upcalls
               \/ /\ CallOf[u.key] \in DOMAIN latest
                  /\ upcalls' \subseteq upcalls \cup
                       {[u EXCEPT !.phase = "ack", !.via = latest[CallOf[u.key]]]}
            /\ UNCHANGED <<ict, net, timedOut, latest, begun, stray, abandoned>>
      BY <1>3 DEF Tell
    <2>2. u \in Upcall
      OBVIOUS
    <2>3. ASSUME NEW v \in Key
          PROVE  [u EXCEPT !.phase = "ack", !.via = v] \in Upcall
      BY <2>2 DEF Upcall
    <2>4. upcalls' \subseteq Upcall
      BY <2>1, <2>2, <2>3
    <2>5. told' \subseteq begun' \X (Status \cup {SIP_REQUEST_TIME_OUT})
      BY <2>1, <2>2 DEF Upcall
    <2>6. \A v \in upcalls' : v.key \in begun'
      BY <2>1, <2>2 DEF Upcall
    <2> QED BY <2>1, <2>4, <2>5, <2>6
  <1>4. ASSUME NEW t \in Thread \cup {Stack}, SendAck(t) PROVE TypeOK'
    <2>1. PICK u \in upcalls :
            /\ AckFound(u) \/ AckScan(u) \/ AckRefused(u)
            /\ upcalls' = upcalls \ {u}
            /\ UNCHANGED <<timedOut, latest, begun, told, abandoned>>
      BY <1>4 DEF SendAck
    <2>2. u.via \in Key
      BY <2>1 DEF Upcall
    <2>3. ASSUME NEW j \in DOMAIN ict
          PROVE  /\ j \in Key
                 /\ \A i \in DOMAIN [ict EXCEPT ![j] = Acked(ict[j])] :
                      [ict EXCEPT ![j] = Acked(ict[j])][i] \in CSipInviteTransaction
      BY TransactionTypes
    <2>4. CASE AckFound(u)
      <3>1. ict' = [ict EXCEPT ![u.via] = Acked(ict[u.via])] /\ u.via \in DOMAIN ict
        BY <2>4 DEF AckFound
      <3>2. net' \subseteq Datagram
        BY <2>4, <2>2, NetTypes DEF AckFound, Transmit
      <3>3. stray' \subseteq Key
        BY <2>4, <2>2 DEF AckFound
      <3> QED BY <2>1, <2>3, <3>1, <3>2, <3>3
    <2>5. CASE AckScan(u)
      <3>1. PICK j \in DOMAIN ict :
              /\ \/ ict' = Erase(ict, {j})
                 \/ ict' = [ict EXCEPT ![j] = Acked(ict[j])]
              /\ stray' = stray \cup {j}
        BY <2>5 DEF AckScan
      <3>2. net' \subseteq Datagram
        BY <2>5, <2>2, NetTypes DEF AckScan, Transmit
      <3>3. DOMAIN ict' \subseteq DOMAIN ict /\ \A i \in DOMAIN ict' : ict'[i] \in CSipInviteTransaction
        BY <3>1, <2>3 DEF Erase, Restrict
      <3> QED BY <2>1, <2>3, <3>1, <3>2, <3>3
    <2>6. CASE AckRefused(u)
      BY <2>1, <2>6 DEF AckRefused
    <2> QED BY <2>1, <2>4, <2>5, <2>6
  <1>5. ASSUME NEW c \in Call, HangUp(c) PROVE TypeOK'
    BY <1>5 DEF HangUp, Restrict
  <1>6. ASSUME Execute PROVE TypeOK'
    <2>1. /\ DOMAIN ict' \subseteq DOMAIN ict
          /\ \A j \in DOMAIN ict' :
               \/ ict'[j] = ict[j]
               \/ /\ Unanswered(ict[j])
                  /\ ict'[j] = [ict[j] EXCEPT !.resend = @ + 1]
          /\ timedOut' \subseteq DOMAIN ict
          /\ UNCHANGED <<upcalls, latest, begun, told, stray, abandoned>>
      BY <1>6 DEF Execute
    <2>2. ASSUME NEW j \in DOMAIN ict' PROVE ict'[j] \in CSipInviteTransaction
      BY <2>1, TransactionTypes DEF ReSendIndexInTable
    <2>3. net' \subseteq Datagram
      <3>1. PICK S \in SUBSET Key : Transmit({Request("INVITE", k) : k \in S})
        BY <1>6 DEF Execute
      <3> QED BY <3>1, NetTypes DEF Transmit
    <2> QED BY <2>1, <2>2, <2>3
  <1>7. ASSUME NEW k \in Key, TellTimeout(k) PROVE TypeOK'
    BY <1>7 DEF TellTimeout, Upcall
  <1>8. ASSUME DeleteAll PROVE TypeOK'
    BY <1>8 DEF DeleteAll, EmptyMap
  <1>9. ASSUME Tick PROVE TypeOK'
    <2>1. \A k \in DOMAIN ict' : ict'[k] \in CSipInviteTransaction
      BY <1>9, TransactionTypes DEF Tick, OlderMap
    <2>2. DOMAIN ict' = DOMAIN ict /\ net' \subseteq Datagram
      BY <1>9, NetTypes DEF Tick, OlderMap
    <2> QED BY <1>9, <2>1, <2>2 DEF Tick
  <1>10. CASE UNCHANGED vars
    BY <1>10 DEF vars
  <1> QED BY <1>1, <1>2, <1>3, <1>4, <1>5, <1>6, <1>7, <1>8, <1>9, <1>10 DEF Next
-----------------------------------------------------------------------------
\* A transaction that holds an ACK is stopped.
AckedIsStopped == \A k \in DOMAIN ict : ict[k].ack => ict[k].stop # Off

\* An INVITE whose 408 is not delivered yet is not in the list.
TimedOutAreGone == \A k \in timedOut : k \notin DOMAIN ict

\* The user agent sends an ACK after it was told of the final response.
AckIsOfTold == \A u \in upcalls : u.phase = "ack" => ToldFinal(u.key)

\* A transaction is stopped only when its end is known to the user agent, or is
\* about to be, or by the ACK of another INVITE.
StoppedIsTold ==
  \A k \in DOMAIN ict :
    ict[k].stop # Off => ToldFinal(k) \/ BeingTold(k) \/ k \in stray

\* The inductive invariant.
IInv ==
  /\ TypeOK
  /\ ReSendIndexInTable
  /\ AckedIsStopped
  /\ TimedOutAreGone
  /\ AckIsOfTold
  /\ StoppedIsTold
  /\ NoSilentEnd

LEMMA IInvInit == Init => IInv
  BY TypeInit DEF Init, IInv, EmptyMap, ReSendIndexInTable, AckedIsStopped,
     TimedOutAreGone, AckIsOfTold, StoppedIsTold, NoSilentEnd

\* What one step does to the transactions of the list.
LEMMA ListStep ==
  ASSUME TypeOK, [Next]_vars, NEW j \in DOMAIN ict'
  PROVE  \/ j \notin begun /\ ict'[j] = NewTransaction
         \/ j \in DOMAIN ict /\ ict'[j] = ict[j]
         \/ j \in DOMAIN ict /\ ict'[j] = OlderTransaction(ict[j])
         \/ j \in DOMAIN ict /\ ict'[j] = Acked(ict[j])
         \/ j \in DOMAIN ict /\ \E s \in Status : ict'[j] = Responded(ict[j], s)
         \/ /\ j \in DOMAIN ict
            /\ Unanswered(ict[j]) /\ ~ GiveUp(ict[j])
            /\ ict'[j] = [ict[j] EXCEPT !.resend = @ + 1]
  <1>1. ASSUME NEW k \in Key, SendInvite(k)
        PROVE  \/ j \notin begun /\ ict'[j] = NewTransaction
               \/ j \in DOMAIN ict /\ ict'[j] = ict[j]
    BY <1>1 DEF SendInvite, Insert
  <1>2. ASSUME NEW t \in Thread, NEW k \in Key, NEW s \in Status, RecvResponse(t, k, s)
        PROVE  /\ j \in DOMAIN ict
               /\ ict'[j] = ict[j] \/ ict'[j] = Responded(ict[j], s)
    <2>1. k \in DOMAIN ict /\ ict' = [ict EXCEPT ![k] = Responded(ict[k], s)]
      BY <1>2 DEF RecvResponse
    <2> QED BY <2>1
  <1>3. ASSUME NEW t \in Thread \cup {Stack}, SendAck(t)
        PROVE  /\ j \in DOMAIN ict
               /\ ict'[j] = ict[j] \/ ict'[j] = Acked(ict[j])
    <2>1. PICK u \in upcalls : AckFound(u) \/ AckScan(u) \/ AckRefused(u)
      BY <1>3 DEF SendAck
    <2>2. CASE AckFound(u)
      <3>1. u.via \in DOMAIN ict /\ ict' = [ict EXCEPT ![u.via] = Acked(ict[u.via])]
        BY <2>2 DEF AckFound
      <3> QED BY <3>1
    <2>3. CASE AckScan(u)
      <3>1. PICK i \in DOMAIN ict :
              ict' = Erase(ict, {i}) \/ ict' = [ict EXCEPT ![i] = Acked(ict[i])]
        BY <2>3 DEF AckScan
      <3> QED BY <3>1 DEF Erase, Restrict
    <2>4. CASE AckRefused(u)
      BY <2>4 DEF AckRefused
    <2> QED BY <2>1, <2>2, <2>3, <2>4
  <1>4. ASSUME Execute
        PROVE  /\ j \in DOMAIN ict
               /\ \/ ict'[j] = ict[j]
                  \/ /\ Unanswered(ict[j]) /\ ~ GiveUp(ict[j])
                     /\ ict'[j] = [ict[j] EXCEPT !.resend = @ + 1]
    BY <1>4 DEF Execute
  <1>5. CASE Tick
    BY <1>5 DEF Tick, OlderMap
  <1>6. CASE DeleteAll
    BY <1>6 DEF DeleteAll, EmptyMap
  <1>7. CASE \/ \E t \in Thread \cup {Stack} : Tell(t)
             \/ \E c \in Call : HangUp(c)
             \/ \E k \in Key : TellTimeout(k)
             \/ UNCHANGED vars
    BY <1>7 DEF Tell, HangUp, TellTimeout, vars
  <1> QED BY <1>1, <1>2, <1>3, <1>4, <1>5, <1>6, <1>7 DEF Next

LEMMA ReSendIndexStep ==
  TypeOK /\ ReSendIndexInTable /\ [Next]_vars => ReSendIndexInTable'
  <1> SUFFICES ASSUME TypeOK, ReSendIndexInTable, [Next]_vars, NEW j \in DOMAIN ict'
               PROVE  ict'[j].resend < MAX_ICT_RESEND_COUNT
    BY DEF ReSendIndexInTable
  <1>1. CASE ict'[j] = NewTransaction
    BY <1>1, ListAssumption DEF NewTransaction
  <1>2. ASSUME j \in DOMAIN ict
        PROVE  /\ ict[j] \in CSipInviteTransaction
               /\ ict[j].resend < MAX_ICT_RESEND_COUNT
    BY <1>2 DEF TypeOK, ReSendIndexInTable
  <1>3. ASSUME j \in DOMAIN ict
        PROVE  /\ OlderTransaction(ict[j]).resend = ict[j].resend
               /\ Acked(ict[j]).resend = ict[j].resend
               /\ \A s \in Status : Responded(ict[j], s).resend = ict[j].resend
    BY <1>2, <1>3 DEF OlderTransaction, Acked, Responded, CSipInviteTransaction
  <1>4. ASSUME j \in DOMAIN ict, ~ GiveUp(ict[j]), Unanswered(ict[j]),
               ict'[j] = [ict[j] EXCEPT !.resend = @ + 1]
        PROVE  ict'[j].resend < MAX_ICT_RESEND_COUNT
    BY <1>2, <1>4, ListAssumption DEF GiveUp, CSipInviteTransaction
  <1> QED BY <1>1, <1>2, <1>3, <1>4, ListStep

LEMMA AckedIsStoppedStep == TypeOK /\ AckedIsStopped /\ [Next]_vars => AckedIsStopped'
  <1> SUFFICES ASSUME TypeOK, AckedIsStopped, [Next]_vars, NEW j \in DOMAIN ict',
                      ict'[j].ack
               PROVE  ict'[j].stop # Off
    BY DEF AckedIsStopped
  <1>1. ict'[j] # NewTransaction
    BY DEF NewTransaction
  <1>2. ASSUME j \in DOMAIN ict
        PROVE  /\ ict[j] \in CSipInviteTransaction
               /\ ict[j].stop \in Age
               /\ ict[j].ack => ict[j].stop # Off
    BY <1>2, FieldTypes DEF TypeOK, AckedIsStopped
  <1>3. ASSUME j \in DOMAIN ict, ict'[j] = OlderTransaction(ict[j]) PROVE ict'[j].stop # Off
    <2>1. ict'[j].ack = ict[j].ack /\ ict'[j].stop = Older(ict[j].stop)
      BY <1>2, <1>3 DEF OlderTransaction, CSipInviteTransaction
    <2> QED BY <1>2, <1>3, <2>1, Ages
  <1>4. ASSUME j \in DOMAIN ict, ict'[j] = Acked(ict[j]) PROVE ict'[j].stop # Off
    BY <1>2, <1>4 DEF Acked, CSipInviteTransaction, Off
  <1>5. ASSUME j \in DOMAIN ict, NEW s \in Status, ict'[j] = Responded(ict[j], s)
        PROVE  ict'[j].stop # Off
    <2>1. /\ ict'[j].ack = ict[j].ack
          /\ ict'[j].stop = 0 \/ ict'[j].stop = ict[j].stop
      BY <1>2, <1>5 DEF Responded, CSipInviteTransaction
    <2> QED BY <1>2, <1>5, <2>1 DEF Off
  <1>6. ASSUME j \in DOMAIN ict, ict'[j] = [ict[j] EXCEPT !.resend = @ + 1]
        PROVE  ict'[j].stop # Off
    BY <1>2, <1>6 DEF CSipInviteTransaction
  <1> QED BY <1>1, <1>2, <1>3, <1>4, <1>5, <1>6, ListStep

LEMMA TimedOutStep ==
  TypeOK /\ TimedOutAreGone /\ [Next]_vars => TimedOutAreGone'
  <1> SUFFICES ASSUME TypeOK, TimedOutAreGone, [Next]_vars, NEW k \in timedOut'
               PROVE  k \notin DOMAIN ict'
    BY DEF TimedOutAreGone
  <1>1. CASE Execute
    BY <1>1 DEF Execute, TimesOut
  <1>2. ASSUME k \in timedOut PROVE k \notin DOMAIN ict'
    <2>1. k \notin DOMAIN ict /\ k \in begun
      BY <1>2 DEF TimedOutAreGone, TypeOK
    <2> QED BY <2>1, ListStep
  <1>3. CASE ~ Execute
    <2>1. k \in timedOut
      BY <1>3 DEF Next, SendInvite, RecvResponse, Tell, SendAck, HangUp, TellTimeout,
                  DeleteAll, Tick, vars
    <2> QED BY <1>2, <2>1
  <1> QED BY <1>1, <1>3

\* What the user agent was told, it was told.
LEMMA ToldStays == TypeOK /\ [Next]_vars => told \subseteq told'
  BY DEF Next, SendInvite, RecvResponse, Tell, SendAck, HangUp, TellTimeout, Execute,
         DeleteAll, Tick, vars

LEMMA AckIsOfToldStep == TypeOK /\ AckIsOfTold /\ [Next]_vars => AckIsOfTold'
  <1> SUFFICES ASSUME TypeOK, AckIsOfTold, [Next]_vars, NEW u \in upcalls',
                      u.phase = "ack"
               PROVE  ToldFinal(u.key)'
    BY DEF AckIsOfTold
  <1>1. ASSUME u \in upcalls PROVE ToldFinal(u.key)'
    BY <1>1, ToldStays DEF AckIsOfTold, ToldFinal
  <1>2. ASSUME NEW t \in Thread \cup {Stack}, Tell(t) PROVE ToldFinal(u.key)'
    <2>1. PICK w \in upcalls :
            /\ told' = told \cup {<<w.key, w.status>>}
            /\ \/ upcalls' \subseteq upcalls
               \/ /\ Final(w.status)
                  /\ upcalls' \subseteq upcalls \cup
                       {[w EXCEPT !.phase = "ack", !.via = latest[CallOf[w.key]]]}
      BY <1>2 DEF Tell
    <2>2. w \in Upcall
      BY DEF TypeOK
    <2>3. CASE u = [w EXCEPT !.phase = "ack", !.via = latest[CallOf[w.key]]] /\ Final(w.status)
      <3>1. u.key = w.key /\ w.status \in Status \cup {SIP_REQUEST_TIME_OUT}
        BY <2>2, <2>3 DEF Upcall
      <3> QED BY <2>1, <2>3, <3>1 DEF ToldFinal
    <2> QED BY <1>1, <2>1, <2>3
  <1>3. CASE \A t \in Thread \cup {Stack} : ~ Tell(t)
    <2>1. ASSUME NEW t \in Thread, NEW k \in Key, NEW s \in Status, RecvResponse(t, k, s)
          PROVE  u \in upcalls
      <3> DEFINE w == [thread |-> t, key |-> k, via |-> k, status |-> s, phase |-> "tell"]
      <3>1. upcalls' \subseteq upcalls \cup {w}
        BY <2>1 DEF RecvResponse
      <3>2. w.phase # "ack"
        OBVIOUS
      <3> QED BY <3>1, <3>2
    <2>2. ASSUME NEW k \in Key, TellTimeout(k) PROVE u \in upcalls
      <3> DEFINE w == [thread |-> Stack, key |-> k, via |-> k,
                       status |-> SIP_REQUEST_TIME_OUT, phase |-> "tell"]
      <3>1. upcalls' \subseteq upcalls \cup {w}
        BY <2>2 DEF TellTimeout
      <3>2. w.phase # "ack"
        OBVIOUS
      <3> QED BY <3>1, <3>2
    <2>3. u \in upcalls
      BY <1>3, <2>1, <2>2 DEF Next, SendInvite, SendAck, HangUp, Execute, DeleteAll, Tick,
                              vars
    <2> QED BY <1>1, <2>3
  <1> QED BY <1>2, <1>3

\* That the user agent knows how an INVITE ended, or is about to be told, is not
\* undone by any step.
LEMMA KnownStays ==
  TypeOK /\ [Next]_vars =>
    \A k \in Key : ToldFinal(k) \/ BeingTold(k) => ToldFinal(k)' \/ BeingTold(k)'
  <1> SUFFICES ASSUME TypeOK, [Next]_vars, NEW k \in Key, ToldFinal(k) \/ BeingTold(k)
               PROVE  ToldFinal(k)' \/ BeingTold(k)'
    OBVIOUS
  <1>1. CASE ToldFinal(k)
    BY <1>1, ToldStays DEF ToldFinal
  <1>2. CASE k \in timedOut
    <2>1. ASSUME NEW j \in Key, TellTimeout(j) PROVE BeingTold(k)'
      <3>1. CASE j = k
        <4> DEFINE w == [thread |-> Stack, key |-> k, via |-> k,
                         status |-> SIP_REQUEST_TIME_OUT, phase |-> "tell"]
        <4>1. w \in upcalls'
          BY <2>1, <3>1 DEF TellTimeout
        <4>2. w.key = k /\ w.phase = "tell" /\ Final(w.status)
          BY DEF Final, SIP_OK, SIP_REQUEST_TIME_OUT
        <4> QED BY <4>1, <4>2 DEF BeingTold
      <3>2. CASE j # k
        BY <1>2, <2>1, <3>2 DEF TellTimeout, BeingTold
      <3> QED BY <3>1, <3>2
    <2>2. CASE \A j \in Key : ~ TellTimeout(j)
      <3>1. k \in timedOut'
        BY <1>2, <2>2 DEF Next, SendInvite, RecvResponse, Tell, SendAck, HangUp, Execute,
                          DeleteAll, Tick, vars
      <3> QED BY <3>1 DEF BeingTold
    <2> QED BY <2>1, <2>2
  <1>3. ASSUME NEW u \in upcalls, u.key = k, u.phase = "tell", Final(u.status)
        PROVE  ToldFinal(k)' \/ BeingTold(k)'
    <2>1. CASE u \in upcalls'
      BY <1>3, <2>1 DEF BeingTold
    <2>2. CASE u \notin upcalls'
      <3>1. PICK t \in Thread \cup {Stack} : Tell(t) \/ SendAck(t)
        BY <2>2 DEF Next, SendInvite, RecvResponse, HangUp, TellTimeout, Execute,
                    DeleteAll, Tick, vars
      <3>2. CASE SendAck(t)
        BY <1>3, <2>2, <3>2 DEF SendAck
      <3>3. CASE Tell(t)
        <4>1. <<u.key, u.status>> \in told'
          BY <2>2, <3>3 DEF Tell
        <4>2. u.status \in Status \cup {SIP_REQUEST_TIME_OUT}
          BY DEF TypeOK, Upcall
        <4> QED BY <1>3, <4>1, <4>2 DEF ToldFinal
      <3> QED BY <3>1, <3>2, <3>3
    <2> QED BY <2>1, <2>2
  <1> QED BY <1>1, <1>2, <1>3 DEF BeingTold

LEMMA StrayStays == TypeOK /\ [Next]_vars => stray \subseteq stray' /\ abandoned \subseteq abandoned'
  <1> SUFFICES ASSUME TypeOK, [Next]_vars
               PROVE  stray \subseteq stray' /\ abandoned \subseteq abandoned'
    OBVIOUS
  <1>1. ASSUME NEW t \in Thread \cup {Stack}, SendAck(t)
        PROVE  stray \subseteq stray' /\ abandoned \subseteq abandoned'
    BY <1>1 DEF SendAck, AckFound, AckScan, AckRefused
  <1> QED BY <1>1 DEF Next, SendInvite, RecvResponse, Tell, HangUp, TellTimeout, Execute,
                      DeleteAll, Tick, vars

LEMMA StoppedIsToldStep == IInv /\ [Next]_vars => StoppedIsTold'
  <1> SUFFICES ASSUME IInv, [Next]_vars, NEW k \in DOMAIN ict', ict'[k].stop # Off
               PROVE  ToldFinal(k)' \/ BeingTold(k)' \/ k \in stray'
    BY DEF StoppedIsTold
  <1> USE DEF IInv
  <1>1. ict'[k] # NewTransaction
    BY DEF NewTransaction
  <1>2. ASSUME k \in DOMAIN ict
        PROVE  k \in Key /\ ict[k] \in CSipInviteTransaction /\ ict[k].stop \in Age
    BY <1>2, FieldTypes DEF TypeOK
  <1>3. ASSUME k \in DOMAIN ict, ict[k].stop # Off
        PROVE  ToldFinal(k)' \/ BeingTold(k)' \/ k \in stray'
    BY <1>2, <1>3, KnownStays, StrayStays DEF StoppedIsTold
  <1>4. ASSUME k \in DOMAIN ict, ict'[k] = OlderTransaction(ict[k])
        PROVE  ict[k].stop # Off
    <2>1. ict'[k].stop = Older(ict[k].stop)
      BY <1>2, <1>4 DEF OlderTransaction, CSipInviteTransaction
    <2> QED BY <1>2, <1>4, <2>1, Ages
  <1>5. ASSUME k \in DOMAIN ict, ict'[k] = [ict[k] EXCEPT !.resend = @ + 1]
        PROVE  ict[k].stop # Off
    BY <1>2, <1>5 DEF CSipInviteTransaction
  <1>6. ASSUME NEW t \in Thread \cup {Stack}, SendAck(t), k \in DOMAIN ict, ict[k].stop = Off
        PROVE  ToldFinal(k)' \/ k \in stray'
    <2>1. PICK u \in upcalls :
            /\ u.phase = "ack"
            /\ AckFound(u) \/ AckScan(u) \/ AckRefused(u)
      BY <1>6 DEF SendAck
    <2>2. CASE AckFound(u)
      <3>1. /\ u.via \in DOMAIN ict
            /\ ict' = [ict EXCEPT ![u.via] = Acked(ict[u.via])]
            /\ u.via = u.key \/ u.via \in stray'
        BY <2>2 DEF AckFound
      <3>2. k = u.via
        BY <1>6, <3>1
      <3>3. ToldFinal(u.key)'
        BY <2>1, ToldStays DEF AckIsOfTold, ToldFinal
      <3> QED BY <3>1, <3>2, <3>3
    <2>3. CASE AckScan(u)
      <3>1. PICK j \in DOMAIN ict :
              /\ ict' = Erase(ict, {j}) \/ ict' = [ict EXCEPT ![j] = Acked(ict[j])]
              /\ j \in stray'
        BY <2>3 DEF AckScan
      <3> QED BY <1>6, <3>1 DEF Erase, Restrict
    <2>4. CASE AckRefused(u)
      BY <1>6, <2>4 DEF AckRefused
    <2> QED BY <2>1, <2>2, <2>3, <2>4
  <1>7. ASSUME NEW t \in Thread, NEW j \in Key, NEW s \in Status, RecvResponse(t, j, s),
               k \in DOMAIN ict, ict[k].stop = Off
        PROVE  BeingTold(k)'
    <2>1. j \in DOMAIN ict /\ ict' = [ict EXCEPT ![j] = Responded(ict[j], s)]
      BY <1>7 DEF RecvResponse
    <2>2. k = j
      BY <1>7, <2>1
    <2>3. ict[k].response = NoResponse /\ s = SIP_CONNECT_ERROR
      BY <1>2, <1>7, <2>1, <2>2 DEF Responded, CSipInviteTransaction
    <2> DEFINE w == [thread |-> t, key |-> j, via |-> j, status |-> s, phase |-> "tell"]
    <2>4. w \in upcalls'
      BY <1>7, <2>2, <2>3 DEF RecvResponse, NewStatus
    <2>5. w.key = k /\ w.phase = "tell" /\ Final(w.status)
      BY <2>2, <2>3 DEF Final, SIP_OK, SIP_CONNECT_ERROR
    <2> QED BY <2>4, <2>5 DEF BeingTold
  <1>8. ASSUME NEW t \in Thread \cup {Stack}, Tell(t) PROVE ict' = ict
    BY <1>8 DEF Tell
  <1>9. CASE k \in DOMAIN ict /\ ict[k].stop = Off
    <2>1. CASE \/ \E j \in Key : SendInvite(j)
               \/ \E c \in Call : HangUp(c)
               \/ Execute \/ DeleteAll \/ Tick
               \/ \E j \in Key : TellTimeout(j)
               \/ UNCHANGED vars
      <3>1. \/ ict'[k] = ict[k]
            \/ ict'[k] = OlderTransaction(ict[k])
            \/ ict'[k] = [ict[k] EXCEPT !.resend = @ + 1]
        BY <1>1, <1>9, <2>1 DEF SendInvite, Insert, HangUp, Execute, DeleteAll, EmptyMap,
                                Tick, OlderMap, TellTimeout, vars
      <3> QED BY <1>4, <1>5, <1>9, <3>1
    <2> QED BY <1>6, <1>7, <1>8, <1>9, <2>1 DEF Next
  <1>10. k \in DOMAIN ict
    BY <1>1, ListStep
  <1> QED BY <1>3, <1>9, <1>10

LEMMA NoSilentEndStep == IInv /\ [Next]_vars => NoSilentEnd'
  <1> SUFFICES ASSUME IInv, [Next]_vars, NEW k \in begun', k \notin DOMAIN ict'
               PROVE  ToldFinal(k)' \/ BeingTold(k)' \/ k \in stray' \/ k \in abandoned'
    BY DEF NoSilentEnd
  <1> USE DEF IInv
  <1>1. k \in begun
    BY DEF Next, SendInvite, Insert, RecvResponse, Tell, SendAck, HangUp, TellTimeout,
           Execute, DeleteAll, Tick, vars
  <1>2. k \in Key
    BY <1>1 DEF TypeOK
  <1>3. CASE ToldFinal(k) \/ BeingTold(k) \/ k \in stray \/ k \in abandoned
    BY <1>2, <1>3, KnownStays, StrayStays
  <1>4. CASE k \in DOMAIN ict
    <2>1. CASE Execute
      <3>1. CASE k \in timedOut'
        BY <3>1 DEF BeingTold
      <3>2. CASE k \notin timedOut'
        <4>1. Completed(ict[k])
          BY <1>4, <2>1, <3>2 DEF Execute, TimesOut
        <4> QED BY <1>3, <1>4, <4>1 DEF Completed, Stopped, StoppedIsTold
      <3> QED BY <3>1, <3>2
    <2>2. CASE DeleteAll
      BY <1>4, <2>2 DEF DeleteAll
    <2>3. ASSUME NEW t \in Thread \cup {Stack}, SendAck(t) PROVE k \in stray'
      <3>1. PICK u \in upcalls : AckFound(u) \/ AckScan(u) \/ AckRefused(u)
        BY <2>3 DEF SendAck
      <3>2. AckScan(u)
        BY <1>4, <3>1 DEF AckFound, AckRefused
      <3> QED BY <1>4, <3>2 DEF AckScan, Erase, Restrict
    <2>4. CASE ~ Execute /\ ~ DeleteAll /\ \A t \in Thread \cup {Stack} : ~ SendAck(t)
      <3>1. k \in DOMAIN ict'
        BY <1>4, <2>4 DEF Next, SendInvite, Insert, RecvResponse, Tell, HangUp,
                          TellTimeout, Tick, OlderMap, vars
      <3> QED BY <3>1
    <2> QED BY <2>1, <2>2, <2>3, <2>4
  <1> QED BY <1>1, <1>3, <1>4 DEF NoSilentEnd

LEMMA IInvStep == IInv /\ [Next]_vars => IInv'
  BY TypeStep, ReSendIndexStep, AckedIsStoppedStep, TimedOutStep, AckIsOfToldStep,
     StoppedIsToldStep, NoSilentEndStep DEF IInv

THEOREM Invariance == Spec => []IInv
  BY IInvInit, IInvStep, PTL DEF Spec
-----------------------------------------------------------------------------
\* The state of the list is well typed.
THEOREM TypeCorrect == Spec => []TypeOK
  BY Invariance, PTL DEF IInv

\* Execute never reads past the end of the retransmission table m_arrICTReSendTime,
\* whatever the length of the table is.
THEOREM NoReadPastTable == Spec => []ReSendIndexInTable
  BY Invariance, PTL DEF IInv

\* No INVITE disappears without its user agent learning how it ended, except by Stop
\* or by the ACK of another INVITE of the call.
THEOREM NoInviteLost == Spec => []NoSilentEnd
  BY Invariance, PTL DEF IInv

\* An INVITE whose transaction holds an ACK never times out.
THEOREM AckStopsTimers == Spec => NoTimeoutAfterAck
  <1>1. ASSUME IInv, [Next]_vars, NEW k \in DOMAIN ict, ict[k].ack
        PROVE  k \notin timedOut'
    <2>1. ict[k].stop # Off /\ k \notin timedOut
      BY <1>1 DEF IInv, AckedIsStopped, TimedOutAreGone
    <2>2. CASE Execute
      BY <1>1, <2>1, <2>2 DEF Execute, TimesOut, GiveUp, Unanswered, RingsTooLong, Stopped
    <2>3. CASE ~ Execute
      BY <1>1, <2>1, <2>3 DEF Next, SendInvite, RecvResponse, Tell, SendAck, HangUp,
                              TellTimeout, DeleteAll, Tick, vars
    <2> QED BY <2>2, <2>3
  <1>2. IInv /\ [Next]_vars => [\A k \in DOMAIN ict : ict[k].ack => k \notin timedOut']_vars
    BY <1>1
  <1> QED BY <1>2, Invariance, PTL DEF Spec, NoTimeoutAfterAck
-----------------------------------------------------------------------------
\* What the discipline of the user agent and of its peer gives, and why no ACK goes astray
\* then.  A call has one INVITE that is not over for the user agent or still runs in the
\* list; if there is a dialog it is the latest one, and its ACK carries its own branch.
Unstopped(k) == k \in DOMAIN ict /\ ict[k].stop = Off
Live(k) == Open(k) \/ Unstopped(k)

OneLive == \A j, k \in begun : CallOf[j] = CallOf[k] /\ Live(j) /\ Live(k) => j = k

LatestIsLive ==
  \A k \in begun : Live(k) /\ CallOf[k] \in DOMAIN latest => latest[CallOf[k]] = k

AckIsOwn == \A u \in upcalls : u.phase = "ack" => u.via = u.key

\* The final response the user agent was told of, or is being told of, is the one the
\* transaction holds.
FinalIsHeld ==
  \A k \in DOMAIN ict, s \in Status \cup {SIP_REQUEST_TIME_OUT} :
    Final(s) /\ (<<k, s>> \in told \/ \E u \in upcalls : u.key = k /\ u.status = s) =>
      ict[k].response # NoResponse /\ ict[k].status = s

ConnectErrorStops == \A k \in DOMAIN ict : ict[k].status = SIP_CONNECT_ERROR => ict[k].stop # Off

\* After the final response the ACK is on its way, unless the dialog is gone.
AckIsPending ==
  \A k \in DOMAIN ict :
    ict[k].stop = Off /\ ToldFinal(k) =>
      \/ \E u \in upcalls : u.key = k /\ u.phase = "ack"
      \/ CallOf[k] \notin DOMAIN latest

AbandonedIsOver ==
  /\ abandoned \subseteq begun
  /\ \A k \in abandoned : k \notin DOMAIN ict \cup timedOut /\ \A u \in upcalls : u.key # k

StrayIsTold == \A k \in stray : ToldFinal(k)

\* The inductive invariant of a disciplined user agent.
DInv ==
  /\ OneLive
  /\ LatestIsLive
  /\ AckIsOwn
  /\ FinalIsHeld
  /\ ConnectErrorStops
  /\ AckIsPending
  /\ AbandonedIsOver
  /\ StrayIsTold

\* How a step changes the fields of a transaction.
LEMMA RespondedFields ==
  ASSUME NEW tr \in CSipInviteTransaction, NEW s \in Status
  PROVE  /\ tr.response = NoResponse \/ tr.status # s =>
              Responded(tr, s).response = s /\ Responded(tr, s).status = s
         /\ ~ (tr.response = NoResponse \/ tr.status # s) =>
              Responded(tr, s).response = tr.response /\ Responded(tr, s).status = tr.status
         /\ Responded(tr, s).stop = Off =>
              tr.stop = Off /\ ~ (tr.response = NoResponse /\ s = SIP_CONNECT_ERROR)
  BY DEF Responded, CSipInviteTransaction, Off

LEMMA KeptFields ==
  ASSUME NEW tr \in CSipInviteTransaction,
         NEW e, e = OlderTransaction(tr) \/ e = Acked(tr) \/ e = [tr EXCEPT !.resend = @ + 1]
  PROVE  /\ e.response = tr.response
         /\ e.status = tr.status
         /\ e.stop = Off => tr.stop = Off /\ e # Acked(tr)
  <1>1. CASE e = OlderTransaction(tr)
    <2>1. e.response = tr.response /\ e.status = tr.status /\ e.stop = Older(tr.stop)
      BY <1>1 DEF OlderTransaction, CSipInviteTransaction
    <2>2. e.stop = Off => tr.stop = Off
      BY <2>1, FieldTypes, Ages
    <2>3. Acked(tr).stop # Off
      BY DEF Acked, CSipInviteTransaction, Off
    <2> QED
      BY <2>1, <2>2, <2>3
  <1>2. CASE e = Acked(tr)
    BY <1>2 DEF Acked, CSipInviteTransaction, Off
  <1>3. CASE e = [tr EXCEPT !.resend = @ + 1]
    <2>1. e.response = tr.response /\ e.status = tr.status /\ e.stop = tr.stop
      BY <1>3 DEF CSipInviteTransaction
    <2>2. Acked(tr).stop # Off
      BY DEF Acked, CSipInviteTransaction, Off
    <2> QED
      BY <2>1, <2>2
  <1> QED
    BY <1>1, <1>2, <1>3

\* A transaction is not started again.
LEMMA UnstoppedBefore ==
  ASSUME TypeOK, [Next]_vars, NEW k \in begun, Unstopped(k)'
  PROVE  Unstopped(k)
  <1>1. k \in DOMAIN ict' /\ ict'[k].stop = Off
    BY DEF Unstopped
  <1>2. k \in DOMAIN ict
    BY <1>1, ListStep
  <1>3. ict[k] \in CSipInviteTransaction
    BY <1>2 DEF TypeOK
  <1>4. ict[k].stop = Off
    BY <1>1, <1>2, <1>3, ListStep, RespondedFields, KeptFields
  <1> QED
    BY <1>2, <1>4 DEF Unstopped

\* What a step adds to the upcalls.
LEMMA NewUpcall ==
  ASSUME IInv, [Next]_vars, NEW u \in upcalls', u \notin upcalls
  PROVE  \/ \E t \in Thread, k \in Key, s \in Status :
              /\ Acceptable(k, s) /\ RecvResponse(t, k, s) /\ NewStatus(k, s)
              /\ u = [thread |-> t, key |-> k, via |-> k, status |-> s, phase |-> "tell"]
              /\ u.key = k /\ u.status = s /\ u.phase = "tell"
         \/ \E t \in Thread \cup {Stack}, w \in upcalls :
              /\ Tell(t) /\ w.phase = "tell" /\ Final(w.status)
              /\ w.status # SIP_CONNECT_ERROR
              /\ CallOf[w.key] \in DOMAIN latest
              /\ told' = told \cup {<<w.key, w.status>>}
              /\ u = [w EXCEPT !.phase = "ack", !.via = latest[CallOf[w.key]]]
              /\ u.key = w.key /\ u.status = w.status /\ u.phase = "ack"
              /\ u.via = latest[CallOf[w.key]]
         \/ \E k \in Key :
              /\ TellTimeout(k)
              /\ u = [thread |-> Stack, key |-> k, via |-> k,
                      status |-> SIP_REQUEST_TIME_OUT, phase |-> "tell"]
              /\ u.key = k /\ u.status = SIP_REQUEST_TIME_OUT /\ u.phase = "tell"
  <1>1. ASSUME NEW t \in Thread \cup {Stack}, Tell(t)
        PROVE  \E w \in upcalls :
                 /\ w.phase = "tell" /\ Final(w.status)
                 /\ w.status # SIP_CONNECT_ERROR
                 /\ CallOf[w.key] \in DOMAIN latest
                 /\ told' = told \cup {<<w.key, w.status>>}
                 /\ u = [w EXCEPT !.phase = "ack", !.via = latest[CallOf[w.key]]]
                 /\ u.key = w.key /\ u.status = w.status /\ u.phase = "ack"
                 /\ u.via = latest[CallOf[w.key]]
    <2>1. PICK w \in upcalls :
            /\ w.phase = "tell"
            /\ told' = told \cup {<<w.key, w.status>>}
            /\ Final(w.status) /\ w.status # SIP_CONNECT_ERROR
            /\ CallOf[w.key] \in DOMAIN latest
            /\ u = [w EXCEPT !.phase = "ack", !.via = latest[CallOf[w.key]]]
      BY <1>1 DEF Tell
    <2>2. w \in Upcall
      BY DEF IInv, TypeOK
    <2>3. u.key = w.key /\ u.status = w.status /\ u.phase = "ack"
          /\ u.via = latest[CallOf[w.key]]
      BY <2>1, <2>2 DEF Upcall
    <2> QED
      BY <2>1, <2>3
  <1>2. ASSUME NEW t \in Thread, NEW k \in Key, NEW s \in Status, RecvResponse(t, k, s)
        PROVE  /\ NewStatus(k, s)
               /\ u = [thread |-> t, key |-> k, via |-> k, status |-> s, phase |-> "tell"]
               /\ u.key = k /\ u.status = s /\ u.phase = "tell"
    BY <1>2 DEF RecvResponse
  <1>3. ASSUME NEW k \in Key, TellTimeout(k)
        PROVE  /\ u = [thread |-> Stack, key |-> k, via |-> k,
                       status |-> SIP_REQUEST_TIME_OUT, phase |-> "tell"]
               /\ u.key = k /\ u.status = SIP_REQUEST_TIME_OUT /\ u.phase = "tell"
    BY <1>3 DEF TellTimeout
  <1>4. ASSUME NEW t \in Thread \cup {Stack}, SendAck(t)
        PROVE  FALSE
    BY <1>4 DEF SendAck
  <1>5. CASE \/ \E k \in Key : SendInvite(k)
             \/ \E c \in Call : HangUp(c)
             \/ Execute \/ DeleteAll \/ Tick \/ UNCHANGED vars
    BY <1>5 DEF SendInvite, HangUp, Execute, DeleteAll, Tick, vars
  <1> QED
    BY <1>1, <1>2, <1>3, <1>4, <1>5 DEF Next

\* An INVITE that is over stays over.
LEMMA LiveBefore ==
  ASSUME IInv, Disciplined, FinalIsHeld, AbandonedIsOver, [Next]_vars,
         NEW k \in begun, Live(k)'
  PROVE  Live(k)
  <1>1. CASE Unstopped(k)'
    BY <1>1, UnstoppedBefore DEF IInv, Live
  <1>2. CASE Open(k)' /\ ~ Open(k)
    <2>1. TypeOK /\ told \subseteq told' /\ abandoned \subseteq abandoned'
      BY ToldStays, StrayStays DEF IInv
    <2>2. k \notin abandoned
      BY <1>2, <2>1 DEF Open
    <2>3. ToldFinal(k) /\ k \notin timedOut /\ \A u \in upcalls : u.key # k
      BY <1>2, <2>2 DEF Open
    <2>4. ToldFinal(k)'
      BY <2>1, <2>3 DEF ToldFinal
    <2>5. CASE k \in timedOut'
      <3>1. Execute
        BY <2>3, <2>5 DEF Next, SendInvite, RecvResponse, Tell, SendAck, HangUp, TellTimeout,
                          DeleteAll, Tick, vars
      <3>2. k \in DOMAIN ict /\ TimesOut(ict[k])
        BY <2>5, <3>1 DEF Execute
      <3> QED
        BY <3>2 DEF TimesOut, GiveUp, Unanswered, RingsTooLong, Stopped, Unstopped, Live
    <2>6. ASSUME NEW u \in upcalls', u.key = k
          PROVE  FALSE
      <3>1. u \notin upcalls
        BY <2>3, <2>6
      <3>2. CASE \E t \in Thread, j \in Key, s \in Status :
                   /\ Acceptable(j, s) /\ RecvResponse(t, j, s) /\ NewStatus(j, s)
                   /\ u = [thread |-> t, key |-> j, via |-> j, status |-> s, phase |-> "tell"]
        <4>1. PICK t \in Thread, s \in Status :
                Acceptable(k, s) /\ RecvResponse(t, k, s) /\ NewStatus(k, s)
          BY <2>6, <3>2
        <4>2. k \in DOMAIN ict
          BY <4>1 DEF RecvResponse
        <4>3. PICK r \in Status \cup {SIP_REQUEST_TIME_OUT} : Final(r) /\ <<k, r>> \in told
          BY <2>3 DEF ToldFinal
        <4>4. ict[k].response # NoResponse /\ ict[k].status = r
          BY <4>2, <4>3 DEF FinalIsHeld
        <4>5. r # NoResponse
          BY <4>3 DEF Final, SIP_OK, NoResponse
        <4>6. r \in Status
          BY <2>1, <4>2, <4>4, <4>5, FieldTypes DEF TypeOK
        <4>7. r = s
          BY <4>1, <4>3, <4>6 DEF Acceptable
        <4> QED
          BY <4>1, <4>4, <4>7 DEF NewStatus
      <3>3. CASE \E t \in Thread \cup {Stack}, w \in upcalls : u.key = w.key
        BY <2>3, <2>6, <3>3
      <3>4. CASE \E j \in Key :
                   /\ TellTimeout(j)
                   /\ u = [thread |-> Stack, key |-> j, via |-> j,
                           status |-> SIP_REQUEST_TIME_OUT, phase |-> "tell"]
        BY <2>3, <2>6, <3>4 DEF TellTimeout
      <3> QED
        BY <3>1, <3>2, <3>3, <3>4, NewUpcall
    <2> QED
      BY <1>2, <2>4, <2>5, <2>6 DEF Open
  <1> QED
    BY <1>1, <1>2 DEF Live
\* INVITEs begin with SendInvite, and only when no other one of the call is live.
LEMMA NewInvite ==
  ASSUME IInv, DInv, Disciplined, [Next]_vars, NEW k \in begun', k \notin begun
  PROVE  /\ SendInvite(k) /\ begun' = begun \cup {k}
         /\ \A j \in begun : CallOf[j] = CallOf[k] => ~ Live(j)
  <1>1. SendInvite(k) /\ begun' = begun \cup {k}
    BY DEF Next, SendInvite, RecvResponse, Tell, SendAck, HangUp, TellTimeout, Execute,
           DeleteAll, Tick, vars
  <1>2. ASSUME NEW j \in begun, CallOf[j] = CallOf[k], Live(j)
        PROVE  FALSE
    <2>1. ~ Open(j) /\ CallOf[k] \in DOMAIN latest
      BY <1>1, <1>2 DEF SendInvite
    <2>2. Unstopped(j)
      BY <1>2, <2>1 DEF Live
    <2>3. j \notin abandoned
      BY <2>2 DEF DInv, AbandonedIsOver, Unstopped
    <2>4. ToldFinal(j) /\ \A u \in upcalls : u.key # j
      BY <2>1, <2>3 DEF Open
    <2> QED
      BY <1>2, <2>1, <2>2, <2>4 DEF DInv, AckIsPending, Unstopped
  <1> QED
    BY <1>1, <1>2

LEMMA OneLiveStep ==
  ASSUME IInv, DInv, Disciplined, [Next]_vars
  PROVE  OneLive'
  <1> SUFFICES ASSUME NEW j \in begun', NEW k \in begun', CallOf[j] = CallOf[k],
                      Live(j)', Live(k)'
               PROVE  j = k
    BY DEF OneLive
  <1>1. \A i \in begun : Live(i)' => Live(i)
    BY LiveBefore DEF DInv
  <1>2. CASE j \in begun /\ k \in begun
    BY <1>1, <1>2 DEF DInv, OneLive
  <1>3. CASE j \notin begun
    BY <1>1, <1>3, NewInvite
  <1>4. CASE k \notin begun
    BY <1>1, <1>4, NewInvite
  <1> QED
    BY <1>2, <1>3, <1>4

LEMMA LatestIsLiveStep ==
  ASSUME IInv, DInv, Disciplined, [Next]_vars
  PROVE  LatestIsLive'
  <1> SUFFICES ASSUME NEW k \in begun', Live(k)', CallOf[k] \in DOMAIN latest'
               PROVE  latest'[CallOf[k]] = k
    BY DEF LatestIsLive
  <1>1. CASE k \notin begun
    <2>1. SendInvite(k)
      BY <1>1, NewInvite
    <2> QED
      BY <2>1 DEF SendInvite
  <1>2. CASE k \in begun
    <2>1. Live(k)
      BY <1>2, LiveBefore DEF DInv
    <2>2. ASSUME NEW i \in Key, SendInvite(i)
          PROVE  CallOf[i] # CallOf[k]
      <3>1. i \notin begun /\ i \in begun'
        BY <2>2 DEF SendInvite
      <3> QED
        BY <1>2, <2>1, <3>1, NewInvite
    <2>3. CallOf[k] \in DOMAIN latest /\ latest'[CallOf[k]] = latest[CallOf[k]]
      <3>1. ASSUME NEW i \in Key, SendInvite(i)
            PROVE  CallOf[k] \in DOMAIN latest /\ latest'[CallOf[k]] = latest[CallOf[k]]
        BY <2>2, <3>1 DEF SendInvite
      <3>2. ASSUME NEW c \in Call, HangUp(c)
            PROVE  CallOf[k] \in DOMAIN latest /\ latest'[CallOf[k]] = latest[CallOf[k]]
        BY <3>2 DEF HangUp, Restrict
      <3> QED
        BY <3>1, <3>2 DEF Next, RecvResponse, Tell, SendAck, TellTimeout, Execute, DeleteAll,
                          Tick, vars
    <2> QED
      BY <1>2, <2>1, <2>3 DEF DInv, LatestIsLive
  <1> QED
    BY <1>1, <1>2

LEMMA UpcallIsOpen ==
  ASSUME IInv, DInv, NEW u \in upcalls
  PROVE  u.key \in begun /\ Open(u.key)
  BY DEF IInv, TypeOK, DInv, AbandonedIsOver, Open

LEMMA AckIsOwnStep ==
  ASSUME IInv, DInv, Disciplined, [Next]_vars
  PROVE  AckIsOwn'
  <1> SUFFICES ASSUME NEW u \in upcalls', u.phase = "ack"
               PROVE  u.via = u.key
    BY DEF AckIsOwn
  <1>1. CASE u \in upcalls
    BY <1>1 DEF DInv, AckIsOwn
  <1>2. CASE u \notin upcalls
    <2>1. PICK w \in upcalls : /\ CallOf[w.key] \in DOMAIN latest
                               /\ u.key = w.key /\ u.via = latest[CallOf[w.key]]
      BY <1>2, NewUpcall
    <2> QED
      BY <2>1, UpcallIsOpen DEF DInv, LatestIsLive, Live
  <1> QED
    BY <1>1, <1>2

\* A transaction gets a response by RecvResponse only, and it is one of a disciplined peer.
LEMMA HeldStep ==
  ASSUME TypeOK, [Next]_vars, NEW k \in DOMAIN ict, k \in DOMAIN ict'
  PROVE  \/ \E t \in Thread, s \in Status :
              /\ Acceptable(k, s) /\ RecvResponse(t, k, s)
              /\ ict'[k] = Responded(ict[k], s)
         \/ /\ ict'[k].response = ict[k].response
            /\ ict'[k].status = ict[k].status
  <1>1. ict[k] \in CSipInviteTransaction /\ k \in Key /\ k \in begun
    BY DEF TypeOK
  <1> DEFINE Same == ict'[k].response = ict[k].response /\ ict'[k].status = ict[k].status
  <1>2. ASSUME ict'[k] = ict[k] \/ ict'[k] = OlderTransaction(ict[k]) \/ ict'[k] = Acked(ict[k])
                 \/ ict'[k] = [ict[k] EXCEPT !.resend = @ + 1]
        PROVE  Same
    BY <1>1, <1>2, KeptFields
  <1>3. ASSUME NEW t \in Thread, NEW j \in Key, NEW s \in Status,
               Acceptable(j, s), RecvResponse(t, j, s), ~ Same
        PROVE  j = k /\ ict'[k] = Responded(ict[k], s)
    <2>1. j \in DOMAIN ict /\ ict' = [ict EXCEPT ![j] = Responded(ict[j], s)]
      BY <1>3 DEF RecvResponse
    <2> QED
      BY <1>3, <2>1
  <1>4. ASSUME NEW t \in Thread \cup {Stack}, SendAck(t)
        PROVE  ict'[k] = ict[k] \/ ict'[k] = Acked(ict[k])
    <2>1. PICK u \in upcalls : AckFound(u) \/ AckScan(u) \/ AckRefused(u)
      BY <1>4 DEF SendAck
    <2>2. CASE AckFound(u)
      BY <2>2 DEF AckFound
    <2>3. CASE AckScan(u)
      <3>1. PICK i \in DOMAIN ict :
              ict' = Erase(ict, {i}) \/ ict' = [ict EXCEPT ![i] = Acked(ict[i])]
        BY <2>3 DEF AckScan
      <3> QED
        BY <3>1 DEF Erase, Restrict
    <2>4. CASE AckRefused(u)
      BY <2>4 DEF AckRefused
    <2> QED
      BY <2>1, <2>2, <2>3, <2>4
  <1>5. CASE \/ \E j \in Key : SendInvite(j)
             \/ \E t \in Thread \cup {Stack} : Tell(t)
             \/ \E c \in Call : HangUp(c)
             \/ Execute \/ DeleteAll \/ Tick
             \/ \E j \in Key : TellTimeout(j)
             \/ UNCHANGED vars
    <2>1. ict'[k] = ict[k] \/ ict'[k] = OlderTransaction(ict[k])
             \/ ict'[k] = [ict[k] EXCEPT !.resend = @ + 1]
      BY <1>1, <1>5 DEF SendInvite, Insert, Tell, HangUp, Execute, DeleteAll, EmptyMap, Tick,
                        OlderMap, TellTimeout, vars
    <2> QED
      BY <1>2, <2>1
  <1> QED
    BY <1>2, <1>3, <1>4, <1>5 DEF Next

LEMMA ConnectErrorStopsStep ==
  ASSUME IInv, DInv, [Next]_vars
  PROVE  ConnectErrorStops'
  <1> SUFFICES ASSUME NEW k \in DOMAIN ict', ict'[k].status = SIP_CONNECT_ERROR,
                      ict'[k].stop = Off
               PROVE  FALSE
    BY DEF ConnectErrorStops
  <1>1. TypeOK
    BY DEF IInv
  <1>2. ict'[k] # NewTransaction
    BY DEF NewTransaction, NoResponse, SIP_CONNECT_ERROR
  <1>3. k \in DOMAIN ict
    BY <1>1, <1>2, ListStep
  <1>4. ict[k] \in CSipInviteTransaction /\ k \in begun
    BY <1>1, <1>3 DEF TypeOK
  <1>5. ict[k].stop = Off
    <2>1. Unstopped(k)'
      BY DEF Unstopped
    <2> QED
      BY <1>1, <1>4, <2>1, UnstoppedBefore DEF Unstopped
  <1>6. ict[k].status # SIP_CONNECT_ERROR
    BY <1>3, <1>5 DEF DInv, ConnectErrorStops
  <1>7. PICK t \in Thread, s \in Status :
          RecvResponse(t, k, s) /\ ict'[k] = Responded(ict[k], s)
    BY <1>1, <1>3, <1>6, HeldStep
  <1>8. s = SIP_CONNECT_ERROR /\ ict[k].response # NoResponse
    BY <1>4, <1>6, <1>7, RespondedFields
  <1> QED
    BY <1>7, <1>8 DEF RecvResponse

LEMMA AbandonedIsOverStep ==
  ASSUME IInv, DInv, Disciplined, [Next]_vars
  PROVE  AbandonedIsOver'
  <1>1. /\ TypeOK /\ abandoned \subseteq begun /\ begun \subseteq begun'
        /\ \A k \in abandoned : k \notin DOMAIN ict \cup timedOut /\ \A u \in upcalls : u.key # k
    BY DEF IInv, DInv, AbandonedIsOver, Next, SendInvite, RecvResponse, Tell, SendAck, HangUp,
           TellTimeout, Execute, DeleteAll, Tick, vars
  <1>2. CASE DeleteAll
    BY <1>1, <1>2 DEF DeleteAll, EmptyMap, AbandonedIsOver, TypeOK
  <1>3. CASE ~ DeleteAll
    <2>1. abandoned' = abandoned
      BY <1>3 DEF Next, SendInvite, RecvResponse, Tell, SendAck, HangUp, TellTimeout, Execute,
                  Tick, vars
    <2>2. ASSUME NEW k \in abandoned
          PROVE  /\ k \notin DOMAIN ict' \cup timedOut'
                 /\ \A u \in upcalls' : u.key # k
      <3>1. k \notin DOMAIN ict'
        BY <1>1, ListStep
      <3>2. k \notin timedOut'
        BY <1>1 DEF Next, SendInvite, RecvResponse, Tell, SendAck, HangUp, TellTimeout, Execute,
                    DeleteAll, Tick, vars, TimesOut
      <3>3. ASSUME NEW u \in upcalls', u.key = k
            PROVE  FALSE
        <4>1. u \notin upcalls
          BY <1>1, <3>3
        <4>2. ASSUME NEW t \in Thread, NEW j \in Key, NEW s \in Status, RecvResponse(t, j, s)
              PROVE  j # k
          BY <1>1, <4>2 DEF RecvResponse
        <4>3. ASSUME NEW j \in Key, TellTimeout(j)
              PROVE  j # k
          BY <1>1, <4>3 DEF TellTimeout
        <4> QED
          BY <1>1, <3>3, <4>1, <4>2, <4>3, NewUpcall
      <3> QED
        BY <3>1, <3>2, <3>3
    <2> QED
      BY <1>1, <2>1, <2>2 DEF AbandonedIsOver
  <1> QED
    BY <1>2, <1>3

LEMMA StrayIsToldStep ==
  ASSUME IInv, DInv, [Next]_vars
  PROVE  StrayIsTold'
  <1> SUFFICES ASSUME NEW k \in stray'
               PROVE  ToldFinal(k)'
    BY DEF StrayIsTold
  <1>1. told \subseteq told'
    BY ToldStays DEF IInv
  <1>2. CASE k \in stray
    BY <1>1, <1>2 DEF DInv, StrayIsTold, ToldFinal
  <1>3. CASE k \notin stray
    <2>1. PICK t \in Thread \cup {Stack} : SendAck(t)
      BY <1>3 DEF Next, SendInvite, RecvResponse, Tell, HangUp, TellTimeout, Execute, DeleteAll,
                  Tick, vars
    <2>2. PICK u \in upcalls : u.phase = "ack" /\ (AckFound(u) \/ AckScan(u) \/ AckRefused(u))
      BY <2>1 DEF SendAck
    <2>3. u.via = u.key
      BY <2>2 DEF DInv, AckIsOwn
    <2>4. AckScan(u)
      BY <1>3, <2>2, <2>3 DEF AckFound, AckRefused
    <2>5. k \in DOMAIN ict /\ CallOf[k] = CallOf[u.key] /\ u.key \notin DOMAIN ict
      BY <1>3, <2>3, <2>4 DEF AckScan
    <2>6. k \in begun /\ k \notin abandoned
      BY <2>5 DEF IInv, TypeOK, DInv, AbandonedIsOver
    <2>7. ~ Open(k)
      BY <2>5, <2>6, UpcallIsOpen DEF DInv, OneLive, Live
    <2> QED
      BY <1>1, <2>6, <2>7 DEF Open, ToldFinal
  <1> QED
    BY <1>2, <1>3
LEMMA FinalIsHeldStep ==
  ASSUME IInv, DInv, Disciplined, [Next]_vars
  PROVE  FinalIsHeld'
  <1> DEFINE Known(k, s) == <<k, s>> \in told \/ \E u \in upcalls : u.key = k /\ u.status = s
  <1> SUFFICES ASSUME NEW k \in DOMAIN ict', NEW s \in Status \cup {SIP_REQUEST_TIME_OUT},
                      Final(s), Known(k, s)'
               PROVE  ict'[k].response # NoResponse /\ ict'[k].status = s
    BY DEF FinalIsHeld
  <1>1. TypeOK /\ TimedOutAreGone
    BY DEF IInv
  <1>2. CASE k \notin begun
    <2>1. k \in begun'
      BY <1>1, TypeStep DEF IInv, TypeOK
    <2>2. SendInvite(k)
      BY <1>2, <2>1, NewInvite
    <2>3. told' = told /\ upcalls' = upcalls
      BY <2>2 DEF SendInvite
    <2> QED
      BY <1>1, <1>2, <2>3 DEF TypeOK
  <1>3. ASSUME k \in begun
        PROVE  k \in DOMAIN ict /\ ict[k] \in CSipInviteTransaction
    BY <1>1, <1>3, ListStep DEF TypeOK
  <1>4. ASSUME k \in begun, Known(k, s)
        PROVE  ict'[k].response # NoResponse /\ ict'[k].status = s
    <2>1. ict[k].response # NoResponse /\ ict[k].status = s
      BY <1>3, <1>4 DEF DInv, FinalIsHeld
    <2>2. s \in Status
      <3>1. s # NoResponse
        BY DEF Final, SIP_OK, NoResponse
      <3> QED
        BY <1>3, <1>4, <2>1, <3>1, FieldTypes
    <2>3. ASSUME NEW r \in Status, Acceptable(k, r)
          PROVE  r = s
      BY <1>4, <2>2, <2>3 DEF Acceptable
    <2> QED
      BY <1>1, <1>3, <1>4, <2>1, <2>3, HeldStep, RespondedFields
  <1>5. ASSUME k \in begun, ~ Known(k, s)
        PROVE  ict'[k].response # NoResponse /\ ict'[k].status = s
    <2>1. <<k, s>> \notin told'
      <3>1. ASSUME NEW t \in Thread \cup {Stack}, Tell(t)
            PROVE  <<k, s>> \notin told'
        BY <1>5, <3>1 DEF Tell
      <3> QED
        BY <1>5, <3>1 DEF Next, SendInvite, RecvResponse, SendAck, HangUp, TellTimeout, Execute,
                          DeleteAll, Tick, vars
    <2>2. PICK u \in upcalls' : u.key = k /\ u.status = s /\ u \notin upcalls
      BY <1>5, <2>1
    <2>3. ~ \E j \in Key : TellTimeout(j) /\ u.key = j
      BY <1>1, <1>3, <1>5, <2>2 DEF TellTimeout, TimedOutAreGone
    <2>4. ~ \E w \in upcalls : u.key = w.key /\ u.status = w.status
      BY <1>5, <2>2
    <2>5. PICK t \in Thread : RecvResponse(t, k, s) /\ NewStatus(k, s) /\ s \in Status
      BY <2>2, <2>3, <2>4, NewUpcall
    <2>6. ict'[k] = Responded(ict[k], s) /\ s # NoResponse
      BY <1>3, <1>5, <2>5 DEF RecvResponse, Final, SIP_OK, NoResponse
    <2> QED
      BY <1>3, <1>5, <2>5, <2>6, RespondedFields DEF NewStatus
  <1> QED
    BY <1>2, <1>4, <1>5

LEMMA AckIsPendingStep ==
  ASSUME IInv, DInv, Disciplined, [Next]_vars
  PROVE  AckIsPending'
  <1> SUFFICES ASSUME NEW k \in DOMAIN ict', ict'[k].stop = Off, ToldFinal(k)',
                      CallOf[k] \in DOMAIN latest'
               PROVE  \E u \in upcalls' : u.key = k /\ u.phase = "ack"
    BY DEF AckIsPending
  <1>1. TypeOK
    BY DEF IInv
  <1>2. k \in begun
    <2>1. CASE k \notin begun
      <3>1. SendInvite(k)
        BY <1>1, <2>1, TypeStep, NewInvite DEF IInv, TypeOK
      <3> QED
        BY <1>1, <2>1, <3>1 DEF SendInvite, ToldFinal, TypeOK
    <2> QED
      BY <2>1
  <1>3. /\ k \in DOMAIN ict /\ ict[k].stop = Off /\ ict[k] \in CSipInviteTransaction
        /\ k \in Key
    <2>1. Unstopped(k)'
      BY DEF Unstopped
    <2> QED
      BY <1>1, <1>2, <2>1, UnstoppedBefore DEF Unstopped, TypeOK
  <1>4. CallOf[k] \in DOMAIN latest
    <2>1. ASSUME NEW i \in Key, SendInvite(i), CallOf[k] \notin DOMAIN latest
          PROVE  FALSE
      <3>1. CallOf[i] # CallOf[k]
        BY <1>2, <2>1 DEF SendInvite
      <3> QED
        BY <2>1, <3>1 DEF SendInvite
    <2>2. ASSUME NEW c \in Call, HangUp(c)
          PROVE  CallOf[k] \in DOMAIN latest
      BY <2>2 DEF HangUp, Restrict
    <2>3. CASE UNCHANGED latest
      BY <2>3
    <2>4. \/ UNCHANGED latest
          \/ \E i \in Key : SendInvite(i)
          \/ \E c \in Call : HangUp(c)
      BY DEF Next, RecvResponse, Tell, SendAck, TellTimeout, Execute, DeleteAll, Tick, vars
    <2> QED
      BY <2>1, <2>2, <2>3, <2>4
  <1>5. CASE ToldFinal(k)
    <2>1. PICK u \in upcalls : u.key = k /\ u.phase = "ack"
      BY <1>3, <1>4, <1>5 DEF DInv, AckIsPending
    <2>2. CASE u \notin upcalls'
      <3>1. PICK t \in Thread \cup {Stack} : SendAck(t)
        BY <2>1, <2>2 DEF Next, SendInvite, RecvResponse, Tell, HangUp, TellTimeout, Execute,
                          DeleteAll, Tick, vars
      <3>2. AckFound(u) \/ AckScan(u) \/ AckRefused(u)
        BY <2>2, <3>1 DEF SendAck
      <3>3. u.via = k
        BY <2>1 DEF DInv, AckIsOwn
      <3>4. ict' = [ict EXCEPT ![k] = Acked(ict[k])]
        BY <1>3, <3>2, <3>3 DEF AckFound, AckScan, AckRefused
      <3>5. ict'[k] = Acked(ict[k])
        BY <1>3, <3>4
      <3> QED
        BY <1>3, <3>5, KeptFields
    <2> QED
      BY <2>1, <2>2
  <1>6. CASE ~ ToldFinal(k)
    <2>1. PICK s \in Status \cup {SIP_REQUEST_TIME_OUT} : Final(s) /\ <<k, s>> \in told' \ told
      BY <1>6 DEF ToldFinal
    <2>2. PICK t \in Thread \cup {Stack} : Tell(t)
      BY <2>1 DEF Next, SendInvite, RecvResponse, SendAck, HangUp, TellTimeout, Execute,
                  DeleteAll, Tick, vars
    <2>3. PICK w \in upcalls :
            /\ told' = told \cup {<<w.key, w.status>>}
            /\ upcalls' =
                 IF Final(w.status) /\ w.status # SIP_CONNECT_ERROR
                      /\ CallOf[w.key] \in DOMAIN latest
                 THEN (upcalls \ {w}) \cup {[w EXCEPT !.phase = "ack", !.via = latest[CallOf[w.key]]]}
                 ELSE upcalls \ {w}
      BY <2>2 DEF Tell
    <2>4. w.key = k /\ w.status = s /\ w \in Upcall
      BY <1>1, <2>1, <2>3 DEF TypeOK
    <2>5. s # SIP_CONNECT_ERROR
      BY <1>3, <2>1, <2>4 DEF DInv, FinalIsHeld, ConnectErrorStops
    <2> DEFINE a == [w EXCEPT !.phase = "ack", !.via = latest[CallOf[w.key]]]
    <2>6. a.key = k /\ a.phase = "ack"
      BY <2>4 DEF Upcall
    <2>7. a \in upcalls'
      BY <1>4, <2>1, <2>3, <2>4, <2>5
    <2> QED
      BY <2>6, <2>7
  <1> QED
    BY <1>5, <1>6

LEMMA DInvInit == Init => DInv
  BY DEF Init, EmptyMap, DInv, OneLive, LatestIsLive, AckIsOwn, FinalIsHeld, ConnectErrorStops,
     AckIsPending, AbandonedIsOver, StrayIsTold

LEMMA DInvStep ==
  ASSUME IInv, DInv, Disciplined, [Next]_vars
  PROVE  DInv'
  BY OneLiveStep, LatestIsLiveStep, AckIsOwnStep, FinalIsHeldStep, ConnectErrorStopsStep,
     AckIsPendingStep, AbandonedIsOverStep, StrayIsToldStep DEF DInv

\* With one open INVITE per call, and responses that come in order, the ACK of an INVITE is
\* never bound to the transaction of another one that still waits for its answer, although
\* Insert takes any transaction of the same Call-ID when the ACK's own one is gone.
THEOREM NoAckGoesAstray == Spec => []NoStrayAck
  <1>1. (Disciplined => DInv) => NoStrayAck
    BY DEF NoStrayAck, DInv, StrayIsTold
  <1>2. IInv /\ (Disciplined => DInv) /\ [Next]_vars => (Disciplined => DInv)'
    BY DInvStep
  <1>3. Init => (Disciplined => DInv)
    BY DInvInit
  <1> QED
    BY <1>1, <1>2, <1>3, Invariance, PTL DEF Spec
=============================================================================
