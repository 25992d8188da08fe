-------------------------- MODULE SipISTListProofs --------------------------
(***************************************************************************)
(* Theorems about SipISTList, for every set of INVITEs and every value of  *)
(* the retransmission table and of the timers.                             *)
(***************************************************************************)
EXTENDS SipISTList, TLAPS

\* A final status is the status of the stored response.
FinalIsResponse ==
  \A k \in DOMAIN ist : Final(ist[k].status) => ist[k].response = ist[k].status

\* A transaction is stopped by an ACK or because Execute gave it up, and then a 200 is
\* reported.
StoppedIsSettled ==
  \A k \in DOMAIN ist :
    Stopped(ist[k]) /\ ~ ist[k].ack =>
      /\ Final(ist[k].status)
      /\ ist[k].status = SIP_OK => k \in timeouts \cup unacked

\* What is to be reported was accepted and sent again, after which the user agent sends no
\* other answer.
UnackedIsAccepted ==
  \A k \in unacked :
    k \in DOMAIN ist /\ ist[k].status = SIP_OK /\ ist[k].response = SIP_OK /\ ist[k].resend # 0

\* The inductive invariant.
IInv ==
  /\ TypeOK
  /\ FinalIsResponse
  /\ StoppedIsSettled
  /\ UnackedIsAccepted
  /\ AckedByOwnAck
-----------------------------------------------------------------------------
\* The fields of a transaction keep their types when several are changed at once.
LEMMA FieldTypes ==
  ASSUME NEW tr \in CSipInviteTransaction
  PROVE  /\ tr.response \in Status \cup {NoResponse, SIP_TRYING}
         /\ tr.status \in Status \cup {NoResponse}
         /\ tr.ack \in BOOLEAN
         /\ tr.resend \in 0 .. MAX_ICT_RESEND_COUNT
         /\ tr.start \in 0 .. Cap
         /\ tr.ring \in Age
         /\ tr.stop \in Age
  BY DEF CSipInviteTransaction

LEMMA AckFields ==
  ASSUME NEW tr \in CSipInviteTransaction, NEW a \in BOOLEAN, NEW p \in Age
  PROVE  [tr EXCEPT !.ack = a, !.stop = p] \in CSipInviteTransaction
  BY DEF CSipInviteTransaction

LEMMA TimeFields ==
  ASSUME NEW tr \in CSipInviteTransaction,
         NEW x \in 0 .. Cap, NEW y \in Age, NEW p \in Age
  PROVE  [tr EXCEPT !.start = x, !.ring = y, !.stop = p] \in CSipInviteTransaction
  BY DEF CSipInviteTransaction

\* Ages, and the records of a transaction that is new or grew older, have their types.
LEMMA Ages ==
  /\ Off \in Age
  /\ \A x \in 0 .. Cap : x \in Age /\ x # Off /\ Older(x) \in 0 .. Cap
  /\ \A x \in Age : Older(x) \in Age /\ (Older(x) = Off <=> x = Off)
  /\ 0 \in 0 .. Cap
  BY ListAssumption DEF Older, Age, Off

LEMMA NewType == NewTransaction \in CSipInviteTransaction
  BY ListAssumption DEF NewTransaction, CSipInviteTransaction, Age, Off

LEMMA OlderType ==
  ASSUME NEW tr \in CSipInviteTransaction
  PROVE  OlderTransaction(tr) \in CSipInviteTransaction
  BY TimeFields, FieldTypes, Ages DEF OlderTransaction

\* A transaction keeps its type when it is changed the way the code changes it, and which
\* fields change.
LEMMA TryingType ==
  ASSUME NEW tr \in CSipInviteTransaction
  PROVE  /\ [tr EXCEPT !.response = SIP_TRYING] \in CSipInviteTransaction
         /\ [tr EXCEPT !.response = SIP_TRYING].response = SIP_TRYING
         /\ [tr EXCEPT !.response = SIP_TRYING].status = tr.status
         /\ [tr EXCEPT !.response = SIP_TRYING].ack = tr.ack
         /\ [tr EXCEPT !.response = SIP_TRYING].resend = tr.resend
         /\ [tr EXCEPT !.response = SIP_TRYING].stop = tr.stop
  BY DEF CSipInviteTransaction

LEMMA NewServerType ==
  /\ NewServerTransaction \in CSipInviteTransaction
  /\ NewServerTransaction.response = SIP_TRYING
  /\ NewServerTransaction.status = NoResponse
  /\ NewServerTransaction.ack = FALSE
  /\ NewServerTransaction.resend = 0
  /\ NewServerTransaction.stop = Off
  <1>1. /\ NewTransaction.status = NoResponse
        /\ NewTransaction.ack = FALSE
        /\ NewTransaction.resend = 0
        /\ NewTransaction.stop = Off
    BY DEF NewTransaction
  <1> QED
    BY <1>1, NewType, TryingType DEF NewServerTransaction

LEMMA AckedType ==
  ASSUME NEW tr \in CSipInviteTransaction
  PROVE  /\ Acked(tr) \in CSipInviteTransaction
         /\ Acked(tr).response = tr.response
         /\ Acked(tr).status = tr.status
         /\ Acked(tr).ack = TRUE
         /\ Acked(tr).resend = tr.resend
         /\ Acked(tr).stop = 0
  BY AckFields, Ages DEF Acked, CSipInviteTransaction

LEMMA AnsweredType ==
  ASSUME NEW tr \in CSipInviteTransaction, NEW s \in Status
  PROVE  /\ Answered(tr, s) \in CSipInviteTransaction
         /\ Answered(tr, s).response = s
         /\ Answered(tr, s).status = s
         /\ Answered(tr, s).ack = tr.ack
         /\ Answered(tr, s).resend = tr.resend
         /\ Answered(tr, s).stop = tr.stop
  BY Ages DEF Answered, CSipInviteTransaction

LEMMA ExecutedType ==
  ASSUME NEW tr \in CSipInviteTransaction, tr.stop = Off => tr.resend < MAX_ICT_RESEND_COUNT
  PROVE  /\ Executed(tr) \in CSipInviteTransaction
         /\ Executed(tr).response = tr.response
         /\ Executed(tr).status = tr.status
         /\ Executed(tr).ack = tr.ack
         /\ Executed(tr).stop = IF GiveUp(tr) THEN 0 ELSE tr.stop
         /\ Executed(tr).stop = Off => Executed(tr).resend < MAX_ICT_RESEND_COUNT
         /\ tr.resend # 0 \/ GiveUp(tr) => Executed(tr).resend # 0
  <1> DEFINE n == IF AwaitsAck(tr) THEN tr.resend + 1 ELSE tr.resend
             p == IF GiveUp(tr) THEN 0 ELSE tr.stop
  <1>1. Executed(tr) = [tr EXCEPT !.resend = n, !.stop = p]
    BY DEF Executed
  <1>2. /\ tr.resend \in 0 .. MAX_ICT_RESEND_COUNT /\ tr.stop \in Age
        /\ 0 \in Age /\ 0 # Off
    BY FieldTypes, Ages
  <1>3. MAX_ICT_RESEND_COUNT \in Nat
    BY ListAssumption
  <1>4. n \in 0 .. MAX_ICT_RESEND_COUNT /\ p \in Age
    BY <1>2, <1>3 DEF AwaitsAck, Stopped
  <1>5. p = Off => n < MAX_ICT_RESEND_COUNT
    <2>1. CASE AwaitsAck(tr)
      BY <1>2, <1>3, <2>1 DEF GiveUp, AwaitsAck, Stopped
    <2>2. CASE ~ AwaitsAck(tr)
      BY <2>2 DEF GiveUp
    <2> QED
      BY <2>1, <2>2
  <1>8. tr.resend # 0 \/ GiveUp(tr) => n # 0
    BY <1>2, <1>3 DEF GiveUp
  <1> HIDE DEF n, p
  <1> DEFINE e == [tr EXCEPT !.resend = n, !.stop = p]
  <1>6. /\ e \in CSipInviteTransaction
        /\ e.response = tr.response
        /\ e.status = tr.status
        /\ e.ack = tr.ack
        /\ e.resend = n
        /\ e.stop = p
    BY <1>4 DEF CSipInviteTransaction
  <1>7. Executed(tr) = e
    BY <1>1
  <1> HIDE DEF e
  <1> QED
    BY <1>5, <1>6, <1>7, <1>8 DEF p

LEMMA OlderFields ==
  ASSUME NEW tr \in CSipInviteTransaction
  PROVE  /\ OlderTransaction(tr).response = tr.response
         /\ OlderTransaction(tr).status = tr.status
         /\ OlderTransaction(tr).ack = tr.ack
         /\ OlderTransaction(tr).resend = tr.resend
         /\ OlderTransaction(tr).stop = Off <=> tr.stop = Off
  BY Ages DEF OlderTransaction, CSipInviteTransaction

LEMMA NetTypes ==
  ASSUME net \subseteq Datagram
  PROVE  /\ \A k \in Key, s \in Status \cup {NoResponse, SIP_TRYING} :
              Sent(net, {Response(k, s)}) \subseteq Datagram
         /\ \A S \in SUBSET DOMAIN ist :
              (\A k \in S : k \in Key /\ ist[k].response \in Status \cup {NoResponse, SIP_TRYING})
                => Sent(net, {Response(k, ist[k].response) : k \in S}) \subseteq Datagram
         /\ OlderNet(net) \subseteq Datagram
  <1> USE ListAssumption DEF Sent, Response, Datagram, NoResponse
  <1>1. \A k \in Key, s \in Status \cup {NoResponse, SIP_TRYING} :
          Sent(net, {Response(k, s)}) \subseteq Datagram
    OBVIOUS
  <1>2. ASSUME NEW S \in SUBSET DOMAIN ist,
               \A k \in S : k \in Key /\ ist[k].response \in Status \cup {NoResponse, SIP_TRYING}
        PROVE  Sent(net, {Response(k, ist[k].response) : k \in S}) \subseteq Datagram
    BY <1>2
  <1>3. OlderNet(net) \subseteq Datagram
    BY DEF OlderNet
  <1> QED
    BY <1>1, <1>2, <1>3

\* What one step does to the transactions of the list.
LEMMA ListStep ==
  ASSUME TypeOK, [Next]_vars, NEW j \in DOMAIN ist'
  PROVE  \/ /\ j \notin DOMAIN ist
            /\ RecvInvite(j)
            /\ ist'[j] = NewServerTransaction
         \/ /\ j \in DOMAIN ist
            /\ \/ ist'[j] = ist[j]
               \/ /\ ist'[j] = Acked(ist[j])
                  /\ \E k \in Key : RecvAck(k) /\ (k = j \/ IsEqualCallIdSeq(j, k))
               \/ \E s \in Status :
                    Proper(j, s) /\ SendResponse(j, s) /\ ist'[j] = Answered(ist[j], s)
               \/ /\ Execute
                  /\ ~ Completed(ist[j])
                  /\ ist'[j] = Executed(ist[j])
               \/ ist'[j] = OlderTransaction(ist[j])
  <1>1. ASSUME NEW k \in Key, RecvInvite(k)
        PROVE  \/ j = k /\ j \notin DOMAIN ist /\ ist'[j] = NewServerTransaction
               \/ j \in DOMAIN ist /\ ist'[j] = ist[j]
    BY <1>1 DEF RecvInvite, Insert
  <1>2. ASSUME NEW k \in Key, RecvAck(k)
        PROVE  /\ j \in DOMAIN ist
               /\ \/ ist'[j] = ist[j]
                  \/ ist'[j] = Acked(ist[j]) /\ (k = j \/ IsEqualCallIdSeq(j, k))
    <2>1. PICK i \in DOMAIN ist : TakeAck(i) /\ (i = k \/ IsEqualCallIdSeq(i, k))
      BY <1>2 DEF RecvAck, AckFound, AckScan
    <2> QED
      BY <2>1 DEF TakeAck, Erase, Restrict
  <1>3. ASSUME NEW k \in Key, NEW s \in Status, Proper(k, s), SendResponse(k, s)
        PROVE  j \in DOMAIN ist /\ (ist'[j] = ist[j] \/ (j = k /\ ist'[j] = Answered(ist[j], s)))
    BY <1>3 DEF SendResponse
  <1>4. ASSUME Execute
        PROVE  j \in DOMAIN ist /\ ~ Completed(ist[j]) /\ ist'[j] = Executed(ist[j])
    BY <1>4 DEF Execute
  <1>5. ASSUME Tick PROVE j \in DOMAIN ist /\ ist'[j] = OlderTransaction(ist[j])
    BY <1>5 DEF Tick, OlderMap
  <1>6. ~ DeleteAll
    BY DEF DeleteAll, EmptyMap
  <1>7. CASE UNCHANGED ist
    BY <1>7
  <1> QED
    BY <1>1, <1>2, <1>3, <1>4, <1>5, <1>6, <1>7
    DEF Next, RecvInviteAgain, SendTimeout, vars
-----------------------------------------------------------------------------
LEMMA IInvInit == Init => IInv
  BY DEF Init, EmptyMap, IInv, TypeOK, FinalIsResponse, StoppedIsSettled, UnackedIsAccepted,
     AckedByOwnAck

\* The list never gets a key that is no INVITE's, nor the types wrong.
LEMMA TypeStep == TypeOK /\ [Next]_vars => TypeOK'
  <1> SUFFICES ASSUME TypeOK, [Next]_vars PROVE TypeOK'
    OBVIOUS
  <1>1. ASSUME NEW j \in DOMAIN ist'
        PROVE  /\ ist'[j] \in CSipInviteTransaction
               /\ ist'[j].stop = Off => ist'[j].resend < MAX_ICT_RESEND_COUNT
    <2>1. /\ 0 # Off
          /\ MAX_ICT_RESEND_COUNT \in Nat \ {0}
      BY ListAssumption DEF Off
    <2>2. CASE ist'[j] = NewServerTransaction
      BY <2>1, <2>2, NewServerType
    <2>3. ASSUME j \in DOMAIN ist
          PROVE  /\ ist[j] \in CSipInviteTransaction
                 /\ ist[j].stop = Off => ist[j].resend < MAX_ICT_RESEND_COUNT
      BY <2>3 DEF TypeOK
    <2>4. CASE j \in DOMAIN ist /\ ist'[j] = Acked(ist[j])
      BY <2>1, <2>3, <2>4, AckedType
    <2>5. ASSUME j \in DOMAIN ist, NEW s \in Status, ist'[j] = Answered(ist[j], s)
          PROVE  /\ ist'[j] \in CSipInviteTransaction
                 /\ ist'[j].stop = Off => ist'[j].resend < MAX_ICT_RESEND_COUNT
      BY <2>3, <2>5, AnsweredType
    <2>6. CASE j \in DOMAIN ist /\ ist'[j] = Executed(ist[j])
      BY <2>3, <2>6, ExecutedType
    <2>7. CASE j \in DOMAIN ist /\ ist'[j] = OlderTransaction(ist[j])
      BY <2>3, <2>7, OlderType, OlderFields
    <2> QED
      BY ListStep, <2>2, <2>3, <2>4, <2>5, <2>6, <2>7
  <1>2. net' \subseteq Datagram
    <2> USE DEF TypeOK
    <2>1. \A k \in DOMAIN ist : k \in Key /\ ist[k].response \in Status \cup {NoResponse, SIP_TRYING}
      BY FieldTypes, ISTAssumption
    <2>2. ASSUME NEW k \in Key, RecvInvite(k) \/ RecvInviteAgain(k) PROVE net' \subseteq Datagram
      BY <2>1, <2>2, NetTypes DEF RecvInvite, RecvInviteAgain, Transmit
    <2>3. ASSUME NEW k \in Key, NEW s \in Status, SendResponse(k, s) PROVE net' \subseteq Datagram
      BY <2>3, NetTypes DEF SendResponse, Transmit
    <2>4. ASSUME Execute PROVE net' \subseteq Datagram
      <3>1. PICK S \in SUBSET DOMAIN ist : Transmit({Response(k, ist[k].response) : k \in S})
        BY <2>4 DEF Execute
      <3> QED
        BY <2>1, <3>1, NetTypes DEF Transmit
    <2>5. CASE Tick
      BY <2>5, NetTypes DEF Tick
    <2>6. CASE UNCHANGED net
      BY <2>6
    <2> QED
      BY <2>2, <2>3, <2>4, <2>5, <2>6 DEF Next, RecvAck, SendTimeout, DeleteAll, vars
  <1> DEFINE Sets ==
        /\ DOMAIN ist \subseteq offered
        /\ unacked \subseteq offered
        /\ timeouts \subseteq offered
        /\ offered \subseteq InviteKey
        /\ acks \subseteq Key
        /\ abandoned \subseteq offered
  <1>3. Sets'
    <2> USE DEF TypeOK
    <2>1. ASSUME NEW k \in Key, RecvInvite(k) PROVE Sets'
      BY <2>1 DEF RecvInvite, Insert
    <2>2. ASSUME NEW k \in Key, RecvAck(k) PROVE Sets'
      BY <2>2 DEF RecvAck, AckFound, AckScan, TakeAck, Erase, Restrict
    <2>3. ASSUME NEW k \in Key, NEW s \in Status, SendResponse(k, s) PROVE Sets'
      BY <2>3 DEF SendResponse
    <2>4. ASSUME Execute PROVE Sets'
      BY <2>4 DEF Execute
    <2>5. CASE Tick
      BY <2>5 DEF Tick, OlderMap
    <2>6. CASE DeleteAll
      BY <2>6 DEF DeleteAll, EmptyMap
    <2>7. ASSUME NEW k \in Key, RecvInviteAgain(k) \/ SendTimeout(k) PROVE Sets'
      BY <2>7 DEF RecvInviteAgain, SendTimeout
    <2>8. CASE UNCHANGED vars
      BY <2>8 DEF vars
    <2> QED
      BY <2>1, <2>2, <2>3, <2>4, <2>5, <2>6, <2>7, <2>8 DEF Next
  <1> QED
    BY <1>1, <1>2, <1>3 DEF TypeOK
-----------------------------------------------------------------------------
\* The response stored last is the one whose status is the highest.
LEMMA FinalIsResponseStep == TypeOK /\ FinalIsResponse /\ [Next]_vars => FinalIsResponse'
  <1> SUFFICES ASSUME TypeOK, FinalIsResponse, [Next]_vars, NEW j \in DOMAIN ist',
                      Final(ist'[j].status)
               PROVE  ist'[j].response = ist'[j].status
    BY DEF FinalIsResponse
  <1>1. CASE ist'[j] = NewServerTransaction
    BY <1>1, NewServerType DEF Final, NoResponse, SIP_OK
  <1>2. ASSUME j \in DOMAIN ist
        PROVE  /\ ist[j] \in CSipInviteTransaction
               /\ ist[j].stop = Off => ist[j].resend < MAX_ICT_RESEND_COUNT
               /\ Final(ist[j].status) => ist[j].response = ist[j].status
    BY <1>2 DEF FinalIsResponse, TypeOK
  <1>3. CASE j \in DOMAIN ist /\ ist'[j] = Acked(ist[j])
    BY <1>2, <1>3, AckedType
  <1>4. ASSUME j \in DOMAIN ist, NEW s \in Status, ist'[j] = Answered(ist[j], s)
        PROVE  ist'[j].response = ist'[j].status
    BY <1>2, <1>4, AnsweredType
  <1>5. CASE j \in DOMAIN ist /\ ist'[j] = Executed(ist[j])
    BY <1>2, <1>5, ExecutedType
  <1>6. CASE j \in DOMAIN ist /\ ist'[j] = OlderTransaction(ist[j])
    BY <1>2, <1>6, OlderFields
  <1> QED
    BY ListStep, <1>1, <1>2, <1>3, <1>4, <1>5, <1>6

\* A transaction takes an ACK only in a step that receives one of its INVITE.
LEMMA AckedStep == TypeOK /\ AckedByOwnAck /\ [Next]_vars => AckedByOwnAck'
  <1> SUFFICES ASSUME TypeOK, AckedByOwnAck, [Next]_vars, NEW j \in DOMAIN ist', ist'[j].ack
               PROVE  \E a \in acks' : IsEqualCallIdSeq(a, j)
    BY DEF AckedByOwnAck, IsEqualCallIdSeq
  <1>1. acks \subseteq acks'
    BY DEF Next, RecvInvite, RecvInviteAgain, RecvAck, SendTimeout, SendResponse, Execute,
           DeleteAll, Tick, vars
  <1>2. ASSUME j \in DOMAIN ist, ist[j].ack PROVE \E a \in acks' : IsEqualCallIdSeq(a, j)
    BY <1>1, <1>2 DEF AckedByOwnAck
  <1>3. ASSUME j \in DOMAIN ist
        PROVE  /\ ist[j] \in CSipInviteTransaction
               /\ ist[j].stop = Off => ist[j].resend < MAX_ICT_RESEND_COUNT
    BY <1>3 DEF TypeOK
  <1>4. ist'[j] # NewServerTransaction
    BY NewServerType
  <1>5. ASSUME NEW k \in Key, RecvAck(k), k = j \/ IsEqualCallIdSeq(j, k)
        PROVE  \E a \in acks' : IsEqualCallIdSeq(a, j)
    BY <1>5 DEF RecvAck, IsEqualCallIdSeq
  <1>6. ASSUME j \in DOMAIN ist, NEW s \in Status, ist'[j] = Answered(ist[j], s)
        PROVE  ist[j].ack
    BY <1>3, <1>6, AnsweredType
  <1>7. CASE j \in DOMAIN ist /\ ist'[j] = Executed(ist[j])
    BY <1>2, <1>3, <1>7, ExecutedType
  <1>8. CASE j \in DOMAIN ist /\ ist'[j] = OlderTransaction(ist[j])
    BY <1>2, <1>3, <1>8, OlderFields
  <1> QED
    BY ListStep, <1>2, <1>4, <1>5, <1>6, <1>7, <1>8

\* Execute is the only step that gives a transaction up, and it reports the 200.
LEMMA StoppedStep ==
  TypeOK /\ StoppedIsSettled /\ [Next]_vars => StoppedIsSettled'
  <1> SUFFICES ASSUME TypeOK, StoppedIsSettled, [Next]_vars, NEW j \in DOMAIN ist',
                      Stopped(ist'[j]), ~ ist'[j].ack
               PROVE  /\ Final(ist'[j].status)
                      /\ ist'[j].status = SIP_OK => j \in timeouts' \cup unacked'
    BY DEF StoppedIsSettled, Stopped
  <1>1. ASSUME j \in DOMAIN ist
        PROVE  /\ ist[j] \in CSipInviteTransaction
               /\ ist[j].stop = Off => ist[j].resend < MAX_ICT_RESEND_COUNT
               /\ Stopped(ist[j]) /\ ~ ist[j].ack =>
                    /\ Final(ist[j].status)
                    /\ ist[j].status = SIP_OK => j \in timeouts \cup unacked
    BY <1>1 DEF StoppedIsSettled, TypeOK
  <1>2. j \in DOMAIN ist => (j \in timeouts \cup unacked => j \in timeouts' \cup unacked')
    BY DEF Next, RecvInvite, RecvInviteAgain, RecvAck, SendTimeout, SendResponse, Execute,
           DeleteAll, Tick, vars
  <1>3. ist'[j] # NewServerTransaction
    BY NewServerType DEF Stopped
  <1>4. CASE j \in DOMAIN ist /\ ist'[j] = ist[j]
    BY <1>1, <1>2, <1>4
  <1>5. ~ (j \in DOMAIN ist /\ ist'[j] = Acked(ist[j]))
    BY <1>1, AckedType
  <1>6. ASSUME j \in DOMAIN ist, NEW s \in Status, Proper(j, s), ist'[j] = Answered(ist[j], s)
        PROVE  Final(ist'[j].status) /\ ist'[j].status # SIP_OK
    BY <1>1, <1>6, AnsweredType DEF Proper, Stopped, Final, SIP_REQUEST_TERMINATED, SIP_OK
  <1>7. CASE j \in DOMAIN ist /\ Execute /\ ~ Completed(ist[j]) /\ ist'[j] = Executed(ist[j])
    <2>1. CASE GiveUp(ist[j])
      <3>1. Final(ist'[j].status) /\ ist'[j].status = ist[j].status
        BY <1>1, <1>7, <2>1, ExecutedType DEF GiveUp, AwaitsAck
      <3>2. ist[j].status = SIP_OK => j \in unacked'
        BY <1>7, <2>1 DEF Execute, Reports
      <3> QED
        BY <3>1, <3>2
    <2>2. CASE ~ GiveUp(ist[j])
      BY <1>1, <1>2, <1>7, <2>2, ExecutedType DEF Stopped
    <2> QED
      BY <2>1, <2>2
  <1>8. CASE j \in DOMAIN ist /\ ist'[j] = OlderTransaction(ist[j])
    BY <1>1, <1>2, <1>8, OlderFields DEF Stopped
  <1> QED
    BY ListStep, <1>3, <1>4, <1>5, <1>6, <1>7, <1>8

\* Until the callback SendTimeout is made neither an ACK nor Execute erases the transaction.
LEMMA UnackedStep ==
  TypeOK /\ FinalIsResponse /\ UnackedIsAccepted /\ [Next]_vars => UnackedIsAccepted'
  <1> SUFFICES ASSUME TypeOK, FinalIsResponse, UnackedIsAccepted, [Next]_vars, NEW k \in unacked'
               PROVE  /\ k \in DOMAIN ist'
                      /\ ist'[k].status = SIP_OK /\ ist'[k].response = SIP_OK /\ ist'[k].resend # 0
    BY DEF UnackedIsAccepted
  <1>0. \A j \in DOMAIN ist : /\ ist[j] \in CSipInviteTransaction
                              /\ ist[j].stop = Off => ist[j].resend < MAX_ICT_RESEND_COUNT
    BY DEF TypeOK
  <1>1. CASE Execute
    <2>1. /\ k \in DOMAIN ist /\ Reports(ist[k])
          /\ ist' = [j \in DOMAIN ist \ {i \in DOMAIN ist : Completed(ist[i])} |->
                       Executed(ist[j])]
      BY <1>1 DEF Execute
    <2>2. k \in DOMAIN ist' /\ ist'[k] = Executed(ist[k])
      BY <2>1 DEF Reports, GiveUp, AwaitsAck, Completed
    <2>3. ist[k].status = SIP_OK /\ GiveUp(ist[k]) /\ ist[k].response = SIP_OK
      BY <2>1 DEF Reports, GiveUp, AwaitsAck, FinalIsResponse
    <2> QED
      BY <1>0, <2>1, <2>2, <2>3, ExecutedType
  <1>2. ASSUME ~ Execute
        PROVE  k \in unacked /\ (~ DeleteAll)
    BY <1>2 DEF Next, RecvInvite, RecvInviteAgain, RecvAck, SendTimeout, SendResponse,
                DeleteAll, Tick, vars
  <1>3. ASSUME k \in unacked
        PROVE  /\ k \in DOMAIN ist
               /\ ist[k].status = SIP_OK /\ ist[k].response = SIP_OK /\ ist[k].resend # 0
    BY <1>3 DEF UnackedIsAccepted
  <1>4. ASSUME k \in unacked, ~ Execute, ~ DeleteAll PROVE k \in DOMAIN ist'
    <2>1. ASSUME NEW a \in Key, RecvAck(a) PROVE k \in DOMAIN ist'
      <3>1. PICK j \in DOMAIN ist : TakeAck(j)
        BY <2>1 DEF RecvAck, AckFound, AckScan
      <3>2. CASE ist[j].response = SIP_UNAUTHORIZED
        BY <1>3, <1>4, <3>1, <3>2
        DEF TakeAck, Erase, Restrict, SIP_UNAUTHORIZED, SIP_OK
      <3>3. CASE ist[j].response # SIP_UNAUTHORIZED
        BY <1>3, <1>4, <3>1, <3>3 DEF TakeAck
      <3> QED
        BY <3>2, <3>3
    <2> QED
      BY <1>3, <1>4, <2>1 DEF Next, RecvInvite, Insert, RecvInviteAgain, SendTimeout,
                              SendResponse, Tick, OlderMap, vars
  <1>5. ASSUME k \in unacked, k \in DOMAIN ist'
        PROVE  ist'[k].status = SIP_OK /\ ist'[k].response = SIP_OK /\ ist'[k].resend # 0
    <2>1. /\ k \in DOMAIN ist /\ ist[k] \in CSipInviteTransaction
          /\ ist[k].stop = Off => ist[k].resend < MAX_ICT_RESEND_COUNT
          /\ ist[k].status = SIP_OK /\ ist[k].response = SIP_OK /\ ist[k].resend # 0
      BY <1>0, <1>3, <1>5
    <2>2. CASE ist'[k] = Acked(ist[k])
      BY <2>1, <2>2, AckedType
    <2>3. ASSUME NEW s \in Status, Proper(k, s) PROVE FALSE
      BY <2>1, <2>3 DEF Proper, Final, SIP_OK
    <2>4. CASE ist'[k] = Executed(ist[k])
      BY <2>1, <2>4, ExecutedType
    <2>5. CASE ist'[k] = OlderTransaction(ist[k])
      BY <2>1, <2>5, OlderFields
    <2> QED
      BY <1>5, ListStep, <2>1, <2>2, <2>3, <2>4, <2>5
  <1> QED
    BY <1>1, <1>2, <1>3, <1>4, <1>5

LEMMA Invariance == Spec => []IInv
  <1>1. IInv /\ [Next]_vars => IInv'
    BY TypeStep, FinalIsResponseStep, AckedStep, StoppedStep, UnackedStep DEF IInv
  <1> QED
    BY IInvInit, <1>1, PTL DEF Spec
-----------------------------------------------------------------------------
\* The list holds INVITEs, with transactions of the declared type, and Execute reads the
\* retransmission table inside its bounds.
THEOREM TypeCorrect == Spec => []TypeOK
  BY Invariance, PTL DEF IInv

\* The retransmission of an answer is silenced by an ACK of its own INVITE only.
THEOREM NoForeignAck == Spec => []AckedByOwnAck
  BY Invariance, PTL DEF IInv

\* The pointer that Execute hands to SendTimeout is valid: the transaction of the 200 is in
\* the list and no other response has replaced the 200.
THEOREM NoDanglingResponse == Spec => []UnackedStillHeld
  <1>1. IInv => UnackedStillHeld
    BY DEF IInv, UnackedIsAccepted, UnackedStillHeld
  <1> QED
    BY <1>1, Invariance, PTL

\* An INVITE that was accepted is acknowledged or reported before it leaves the list.
THEOREM NoAcceptLost == Spec => NoLostAccept
  <1>1. ASSUME IInv, [Next]_vars, NEW k \in DOMAIN ist \ DOMAIN ist', ist[k].status = SIP_OK
        PROVE  ist[k].ack \/ k \in timeouts \cup unacked \/ k \in abandoned'
    <2>1. Final(ist[k].status) /\ ist[k].response = SIP_OK
      BY <1>1 DEF IInv, FinalIsResponse, Final, SIP_OK
    <2>2. ASSUME NEW a \in Key, RecvAck(a) PROVE FALSE
      <3>1. PICK j \in DOMAIN ist : TakeAck(j)
        BY <2>2 DEF RecvAck, AckFound, AckScan
      <3> QED
        BY <1>1, <2>1, <3>1 DEF TakeAck, Erase, Restrict, SIP_UNAUTHORIZED, SIP_OK
    <2>3. CASE Execute
      <3>1. Stopped(ist[k])
        BY <1>1, <2>3 DEF Execute, Completed
      <3> QED
        BY <1>1, <3>1 DEF IInv, StoppedIsSettled
    <2>4. CASE DeleteAll
      BY <1>1, <2>4 DEF DeleteAll
    <2> QED
      BY <1>1, <2>2, <2>3, <2>4 DEF Next, RecvInvite, Insert, RecvInviteAgain, SendTimeout,
                                    SendResponse, Tick, OlderMap, vars
  <1>2. IInv /\ [Next]_vars =>
          [\A k \in DOMAIN ist \ DOMAIN ist' :
             ist[k].status = SIP_OK =>
               \/ ist[k].ack
               \/ k \in timeouts \cup unacked
               \/ k \in abandoned']_vars
    BY <1>1
  <1> QED
    BY <1>2, Invariance, PTL DEF Spec, NoLostAccept
=============================================================================
