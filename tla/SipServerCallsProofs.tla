------------------------ MODULE SipServerCallsProofs ------------------------
(***************************************************************************)
(* Theorems about SipServerCalls, for any number of calls, of threads and  *)
(* of RTP ports: type correctness with every service, and what becomes of  *)
(* the legs, pairs, ports and records when phones call and forward.        *)
(***************************************************************************)
EXTENDS SipServerCalls, SequenceTheorems, TLAPS

\* What the sections need of the values they were given.
TaskOK(x) ==
  /\ x \in Task
  /\ FirstOfHalf(x.port)
  /\ x.do \in {"Insert", "InsertOld", "StartNew", "StartCallNew", "Reconnect", "Redial"} =>
       x.port >= 2
  /\ x.do = "ConnectTrans" => x.port >= 4
  /\ x.do \in {"CreateCall", "StartTrans", "TransInsert"} => x.port \in Port
  /\ x.do = "StartCall" => x.call \in Callee
  /\ x.do \in {"EventBlindTransfer", "CreateTransPort", "StartTrans", "TransInsert"} => x.call \in Leg
  /\ x.do = "TransInsert" => x.peer \in Leg

Transfers == {"Reconnect", "Redial"}

\* A transfer that fails looks at the legs of the next two sections.
StepsOK(s) ==
  /\ s \in Seq(Task)
  /\ \A i \in DOMAIN s : TaskOK(s[i]) /\ (s[i].do \in Transfers => i + 2 \in DOMAIN s)

MapOK(map, legs, least) ==
  /\ DOMAIN map \subseteq legs
  /\ \A c \in DOMAIN map :
       map[c] \in CCallInfo /\ FirstOfHalf(map[c].port) /\ map[c].port >= least

DialogsOK == DOMAIN dialog \subseteq Leg /\ \A c \in DOMAIN dialog : dialog[c] \in CSipDialog
RtpOK == DOMAIN rtp \subseteq Port /\ \A p \in DOMAIN rtp : rtp[p] \in BOOLEAN
TodoOK == todo \in [Thread -> Seq(Task)] /\ \A t \in Thread : StepsOK(todo[t])
HistoryOK ==
  used \cup referred \cup recorded \cup joined \subseteq Leg /\ broken \subseteq CallId /\ lost \subseteq Nat

TypeInv ==
  /\ DialogsOK
  /\ pending \subseteq Callee
  /\ MapOK(calls, CallId, 2)
  /\ MapOK(trans, Leg, 4)
  /\ RtpOK
  /\ TodoOK
  /\ HistoryOK

-----------------------------------------------------------------------------
\* The kinds of legs, ports and values a section is given.
LEMMA Legs ==
  /\ Caller \subseteq Leg /\ Callee \subseteq Leg /\ Leg \subseteq CallId /\ NoCallId \in CallId
  /\ NoCallId \notin Leg
  /\ Receiver \subseteq Thread /\ Stack \in Thread
  BY SipServerCallsAssumption DEF Leg, CallId, Thread

LEMMA Ports ==
  /\ \A p \in Port : p \in Nat /\ p >= 4 /\ FirstOfHalf(p) /\ FirstOfHalf(p + 2) /\ Block(p) = p
  /\ FirstOfHalf(0)
  /\ \A p \in Nat : Block(p) \in Nat
  /\ \A p \in Nat : FirstOfHalf(p) => FirstOfHalf(p + 2) /\ (p >= 2 => p - 2 \in Nat /\ FirstOfHalf(p - 2))
  <1>1. \A p \in Port : \E n \in 1 .. 100 : p = 4 * n
    BY SipServerCallsAssumption
  <1>2. ASSUME NEW p \in Port
        PROVE  p \in Nat /\ p >= 4 /\ FirstOfHalf(p) /\ FirstOfHalf(p + 2) /\ Block(p) = p
    <2>1. PICK n \in 1 .. 100 : p = 4 * n
      BY <1>1
    <2> QED
      BY <2>1 DEF FirstOfHalf, Block
  <1>3. \A p \in Nat : Block(p) \in Nat
    BY DEF Block
  <1>4. \A p \in Nat : FirstOfHalf(p) => FirstOfHalf(p + 2) /\ (p >= 2 => p - 2 \in Nat /\ FirstOfHalf(p - 2))
    BY DEF FirstOfHalf
  <1> QED
    BY <1>2, <1>3, <1>4 DEF FirstOfHalf

LEMMA TaskFields ==
  \A do \in Section, c \in CallId, peer \in CallId, port \in Nat :
    /\ Step(do, c, peer, port) \in Task
    /\ Step(do, c, peer, port).do = do
    /\ Step(do, c, peer, port).call = c
    /\ Step(do, c, peer, port).peer = peer
    /\ Step(do, c, peer, port).port = port
  BY DEF Step, Task

\* Sections that are given one Call-ID.
Plain == Section \ {"Insert", "InsertOld", "StartNew", "StartCallNew", "Reconnect", "Redial",
  "ConnectTrans", "CreateCall", "StartTrans", "TransInsert", "StartCall", "EventBlindTransfer",
  "CreateTransPort"}

LEMMA PlainTask ==
  ASSUME NEW do \in Plain, NEW c \in CallId, NEW peer \in CallId
  PROVE  TaskOK(Step(do, c, peer, 0)) /\ Step(do, c, peer, 0).do \notin Transfers
  <1>1. Step(do, c, peer, 0) \in Task /\ Step(do, c, peer, 0).do = do /\ Step(do, c, peer, 0).port = 0
    BY TaskFields DEF Plain
  <1> QED
    BY <1>1, Ports DEF TaskOK, Plain, Transfers, Section

LEMMA TupleOK ==
  /\ StepsOK(<<>>)
  /\ \A a : TaskOK(a) /\ a.do \notin Transfers => StepsOK(<<a>>)
  /\ \A a, b : TaskOK(a) /\ TaskOK(b) /\ {a.do, b.do} \cap Transfers = {} => StepsOK(<<a, b>>)
  /\ \A a, b, c : TaskOK(a) /\ TaskOK(b) /\ TaskOK(c) /\ {a.do, b.do, c.do} \cap Transfers = {} =>
       StepsOK(<<a, b, c>>)
  /\ \A a, b, c, d : TaskOK(a) /\ TaskOK(b) /\ TaskOK(c) /\ TaskOK(d)
         /\ {a.do, b.do, c.do, d.do} \cap Transfers = {} => StepsOK(<<a, b, c, d>>)
  <1>1. \A a : TaskOK(a) => a \in Task
    BY DEF TaskOK
  <1> QED
    BY <1>1 DEF StepsOK

LEMMA TailOK ==
  ASSUME NEW s, StepsOK(s), s # <<>>
  PROVE  /\ StepsOK(Tail(s)) /\ TaskOK(Head(s))
         /\ Head(s).do \in Transfers => 3 \in DOMAIN s
  <1>1. /\ s \in Seq(Task) /\ Len(s) \in Nat \ {0} /\ Tail(s) \in Seq(Task)
        /\ Len(Tail(s)) = Len(s) - 1 /\ Head(s) = s[1]
    BY DEF StepsOK
  <1>2. DOMAIN s = 1 .. Len(s) /\ DOMAIN Tail(s) = 1 .. Len(s) - 1
    BY <1>1
  <1>3. \A i \in 1 .. Len(s) - 1 : Tail(s)[i] = s[i + 1]
    BY <1>1
  <1>4. ASSUME NEW i \in DOMAIN Tail(s)
        PROVE  TaskOK(Tail(s)[i]) /\ (Tail(s)[i].do \in Transfers => i + 2 \in DOMAIN Tail(s))
    <2>1. i + 1 \in DOMAIN s /\ Tail(s)[i] = s[i + 1] /\ i \in Nat
      BY <1>1, <1>2, <1>3
    <2>2. TaskOK(s[i + 1]) /\ (s[i + 1].do \in Transfers => (i + 1) + 2 \in DOMAIN s)
      BY <2>1 DEF StepsOK
    <2> QED
      BY <1>1, <1>2, <2>1, <2>2
  <1>5. 1 \in DOMAIN s
    BY <1>1, <1>2
  <1> QED
    BY <1>1, <1>4, <1>5 DEF StepsOK

LEMMA ConcatOK ==
  ASSUME NEW r, NEW s, StepsOK(r), StepsOK(s)
  PROVE  StepsOK(r \o s)
  <1>1. /\ r \in Seq(Task) /\ s \in Seq(Task) /\ r \o s \in Seq(Task)
        /\ Len(r \o s) = Len(r) + Len(s) /\ Len(r) \in Nat /\ Len(s) \in Nat
    BY DEF StepsOK
  <1>2. /\ DOMAIN r = 1 .. Len(r) /\ DOMAIN s = 1 .. Len(s)
        /\ DOMAIN (r \o s) = 1 .. Len(r) + Len(s)
    BY <1>1
  <1>3. ASSUME NEW i \in DOMAIN (r \o s)
        PROVE  /\ TaskOK((r \o s)[i])
               /\ (r \o s)[i].do \in Transfers => i + 2 \in DOMAIN (r \o s)
    <2>1. CASE i \in DOMAIN r
      <3>1. (r \o s)[i] = r[i]
        BY <1>1, <1>2, <2>1
      <3>2. TaskOK(r[i]) /\ (r[i].do \in Transfers => i + 2 \in DOMAIN r)
        BY <2>1 DEF StepsOK
      <3> QED
        BY <1>1, <1>2, <2>1, <3>1, <3>2
    <2>2. CASE i \notin DOMAIN r
      <3>1. i - Len(r) \in DOMAIN s /\ (r \o s)[i] = s[i - Len(r)]
        BY <1>1, <1>2, <2>2
      <3>2. /\ TaskOK(s[i - Len(r)])
            /\ s[i - Len(r)].do \in Transfers => (i - Len(r)) + 2 \in DOMAIN s
        BY <3>1 DEF StepsOK
      <3> QED
        BY <1>1, <1>2, <3>1, <3>2
    <2> QED
      BY <2>1, <2>2
  <1> QED
    BY <1>1, <1>3 DEF StepsOK

LEMMA BeginOK ==
  ASSUME TodoOK, NEW t \in Thread, NEW s, StepsOK(s), Begin(t, s)
  PROVE  TodoOK'
  <1>1. s \in Seq(Task)
    BY DEF StepsOK
  <1>2. todo' \in [Thread -> Seq(Task)] /\ todo'[t] = s /\ \A u \in Thread \ {t} : todo'[u] = todo[u]
    BY <1>1 DEF Begin, TodoOK
  <1> QED
    BY <1>2 DEF TodoOK, StepsOK

LEMMA ContinueOK ==
  ASSUME TodoOK, NEW t \in Thread, todo[t] # <<>>, NEW s, StepsOK(s), Continue(t, s)
  PROVE  TodoOK'
  <1>1. StepsOK(s \o Tail(todo[t]))
    BY TailOK, ConcatOK DEF TodoOK
  <1>2. s \o Tail(todo[t]) \in Seq(Task)
    BY <1>1 DEF StepsOK
  <1>3. /\ todo' \in [Thread -> Seq(Task)]
        /\ todo'[t] = s \o Tail(todo[t])
        /\ \A u \in Thread \ {t} : todo'[u] = todo[u]
    BY <1>2 DEF Continue, TodoOK
  <1> QED
    BY <1>1, <1>3 DEF TodoOK, StepsOK

LEMMA HeadOK ==
  ASSUME TodoOK, NEW t \in Thread, todo[t] # <<>>
  PROVE  /\ TaskOK(Head(todo[t])) /\ Head(todo[t]) \in Task
         /\ Head(todo[t]).call \in CallId /\ Head(todo[t]).peer \in CallId /\ Head(todo[t]).port \in Nat
  <1>1. TaskOK(Head(todo[t]))
    BY TailOK DEF TodoOK
  <1> QED
    BY <1>1 DEF TaskOK, Task
-----------------------------------------------------------------------------
\* What the maps become.

LEMMA InfoFields ==
  \A peer \in CallId, recv \in BOOLEAN, port \in Nat :
    /\ Info(peer, recv, port) \in CCallInfo
    /\ Info(peer, recv, port).peer = peer
    /\ Info(peer, recv, port).recv = recv
    /\ Info(peer, recv, port).port = port
  BY DEF Info, CCallInfo

LEMMA PairOK ==
  ASSUME NEW legs, legs \subseteq CallId, NEW map, NEW least \in Nat, MapOK(map, legs, least),
         NEW recv \in legs, NEW send \in legs, NEW port \in Nat, FirstOfHalf(port), port >= least
  PROVE  MapOK(Pair(map, recv, send, port), legs, least)
  <1>1. /\ Info(send, TRUE, port) \in CCallInfo /\ Info(send, TRUE, port).port = port
        /\ Info(recv, FALSE, port + 2) \in CCallInfo /\ Info(recv, FALSE, port + 2).port = port + 2
    <2>1. recv \in CallId /\ send \in CallId /\ port + 2 \in Nat
      OBVIOUS
    <2> QED
      BY <2>1, InfoFields
  <1>2. FirstOfHalf(port + 2) /\ port + 2 >= least
    BY Ports
  <1>3. DOMAIN Pair(map, recv, send, port) = {recv, send} \cup DOMAIN map
    BY DEF Pair
  <1>4. \A c \in {recv, send} \cup DOMAIN map :
          Pair(map, recv, send, port)[c] \in
            {Info(send, TRUE, port), Info(recv, FALSE, port + 2)} \cup {map[d] : d \in DOMAIN map}
    BY DEF Pair
  <1> QED
    BY <1>1, <1>2, <1>3, <1>4 DEF MapOK

LEMMA WithoutOK ==
  ASSUME NEW legs, NEW map, NEW least, MapOK(map, legs, least), NEW S
  PROVE  MapOK(Without(map, S), legs, least)
  BY DEF MapOK, Without, Restrict

LEMMA NewDialogType == \A b \in BOOLEAN : NewDialog(b) \in CSipDialog
  BY DEF NewDialog, CSipDialog

LEMMA DialogChanges ==
  ASSUME DialogsOK
  PROVE  /\ \A c \in Leg, b \in BOOLEAN : dialog' = With(dialog, c, NewDialog(b)) => DialogsOK'
         /\ \A S : dialog' = Without(dialog, S) => DialogsOK'
         /\ \A c : dialog' = [dialog EXCEPT ![c].end = TRUE] => DialogsOK'
         /\ \A c : dialog' = [dialog EXCEPT ![c].start = TRUE] => DialogsOK'
         /\ \A c : dialog' = [dialog EXCEPT ![c].cancel = TRUE] => DialogsOK'
         /\ \A c : Accept(c) => DialogsOK'
         /\ dialog' = dialog => DialogsOK'
         /\ \A c : dialog' = AfterStop(c) => DialogsOK'
  <1>1. \A c \in Leg, b \in BOOLEAN : dialog' = With(dialog, c, NewDialog(b)) => DialogsOK'
    BY NewDialogType DEF DialogsOK, With
  <1>2. \A S : dialog' = Without(dialog, S) => DialogsOK'
    BY DEF DialogsOK, Without, Restrict
  <1>3. \A c : dialog' = [dialog EXCEPT ![c].end = TRUE] => DialogsOK'
    BY DEF DialogsOK, CSipDialog
  <1>4. \A c : dialog' = [dialog EXCEPT ![c].start = TRUE] => DialogsOK'
    BY DEF DialogsOK, CSipDialog
  <1>5. \A c : dialog' = [dialog EXCEPT ![c].cancel = TRUE] => DialogsOK'
    BY DEF DialogsOK, CSipDialog
  <1>6. \A c : Accept(c) => DialogsOK'
    BY DEF DialogsOK, CSipDialog, Accept
  <1>7. dialog' = dialog => DialogsOK'
    BY DEF DialogsOK
  <1>8. \A c : dialog' = AfterStop(c) => DialogsOK'
    BY <1>2, <1>5, <1>7 DEF AfterStop
  <1> QED
    BY <1>1, <1>2, <1>3, <1>4, <1>5, <1>6, <1>7, <1>8

LEMMA RtpChanges ==
  ASSUME RtpOK
  PROVE  /\ \A p \in Port : rtp' = With(rtp, p, FALSE) => RtpOK'
         /\ \A p : rtp' = Without(rtp, {p}) => RtpOK'
         /\ \A S : SetStop(S) => RtpOK'
         /\ rtp' = rtp => RtpOK'
  <1>1. \A p \in Port : rtp' = With(rtp, p, FALSE) => RtpOK'
    BY DEF RtpOK, With
  <1>2. \A p : rtp' = Without(rtp, {p}) => RtpOK'
    BY DEF RtpOK, Without, Restrict
  <1>3. \A S : SetStop(S) => RtpOK'
    BY DEF RtpOK, SetStop
  <1> QED
    BY <1>1, <1>2, <1>3 DEF RtpOK
-----------------------------------------------------------------------------
\* Which steps change what.

Messages(t, c) ==
  RecvInvite(t, c) \/ RecvCancel(t, c) \/ RecvBye(t, c) \/ RecvOk(t, c) \/ RecvRefer(t, c)
    \/ RecvError(t, c)

LEMMA Steps ==
  ASSUME [Next]_vars
  PROVE  \/ UNCHANGED vars
         \/ \E t \in Thread, c \in Leg : Messages(t, c)
         \/ \E t \in Thread : Handle(t)
         \/ \E p \in Port : RtpThread(p)
  BY Legs DEF Next, PhoneActs, FinalResponse, Messages

LEMMA DialogsStep ==
  ASSUME TypeInv, [Next]_vars
  PROVE  DialogsOK'
  <1>1. DialogsOK
    BY DEF TypeInv
  <1>2. \A c : c \in Callee \ used => c \in Leg
    BY Legs
  <1>3. CASE UNCHANGED vars
    BY <1>1, <1>3, DialogChanges DEF vars
  <1>4. ASSUME NEW t \in Thread, NEW c \in Leg, Messages(t, c)
        PROVE  DialogsOK'
    BY <1>1, <1>4, DialogChanges
    DEF Messages, RecvInvite, RecvCancel, RecvBye, RecvOk, RecvRefer, RecvError
  <1>5. ASSUME NEW t \in Thread, Handle(t)
        PROVE  DialogsOK'
    <2>1. FreshCallId \in Callee \/ Callee \ used = {}
      BY DEF FreshCallId
    <2>2. CASE CreateCall(t) \/ StartTrans(t) \/ StartCallNew(t)
      <3>1. \/ dialog' = With(dialog, FreshCallId, NewDialog(FALSE)) /\ Callee \ used # {}
            \/ dialog' = dialog
        BY <2>2 DEF CreateCall, StartTrans, StartCallNew
      <3> QED
        BY <1>1, <2>1, <3>1, Legs, DialogChanges
    <2>3. CASE DeleteDialog(t) \/ StopCall(t) \/ AcceptCall(t) \/ Forward(t) \/ Join(t)
      BY <1>1, <2>3, DialogChanges DEF DeleteDialog, StopCall, AcceptCall, Forward, Join
    <2>4. CASE ~ (CreateCall(t) \/ StartTrans(t) \/ StartCallNew(t) \/ DeleteDialog(t)
                    \/ StopCall(t) \/ AcceptCall(t) \/ Forward(t) \/ Join(t))
      <3>1. UNCHANGED dialog
        BY <1>5, <2>4 DEF Handle, SaveCdr, Insert, Delete, DeleteKeepPort, TransDelete,
           TransDeleteKeepPort, CreatePort, StartCall, EventCallStart, TransStart, ConnectTrans,
           EventCallEnd, TransEnd, EventBlindTransfer, CreateTransPort, TransInsert, EventTransfer,
           Reconnect, Redial, StartNew, SelectToRing, SelectOld, InsertOld, DeleteOne, UpdateOld
      <3> QED
        BY <1>1, <3>1, DialogChanges
    <2> QED
      BY <2>2, <2>3, <2>4
  <1>6. ASSUME NEW p \in Port, RtpThread(p)
        PROVE  DialogsOK'
    BY <1>1, <1>6, DialogChanges DEF RtpThread
  <1> QED
    BY <1>3, <1>4, <1>5, <1>6, Steps

LEMMA CallsStep ==
  ASSUME TypeInv, [Next]_vars
  PROVE  MapOK(calls, CallId, 2)'
  <1>1. MapOK(calls, CallId, 2) /\ TodoOK
    BY DEF TypeInv
  <1>2. calls' = calls => MapOK(calls, CallId, 2)'
    BY <1>1 DEF MapOK
  <1>3. \A S : calls' = Without(calls, S) => MapOK(calls, CallId, 2)'
    BY <1>1, WithoutOK
  <1>4. ASSUME NEW t \in Thread, Insert(t)
        PROVE  MapOK(calls, CallId, 2)'
    <2> DEFINE s == Head(todo[t])
    <2>1. todo[t] # <<>> /\ s.do = "Insert" /\ calls' = Pair(calls, s.call, s.peer, s.port)
      BY <1>4 DEF Insert, Does
    <2>2. TaskOK(s) /\ s.call \in CallId /\ s.peer \in CallId /\ s.port \in Nat
      BY <1>1, <2>1, HeadOK
    <2>3. FirstOfHalf(s.port) /\ s.port >= 2
      BY <2>1, <2>2 DEF TaskOK
    <2>4. MapOK(Pair(calls, s.call, s.peer, s.port), CallId, 2)
      BY <1>1, <2>2, <2>3, PairOK
    <2> QED
      BY <2>1, <2>4
  <1>5. ASSUME NEW t \in Thread, InsertOld(t)
        PROVE  MapOK(calls, CallId, 2)'
    <2> DEFINE s == Head(todo[t])
    <2>1. todo[t] # <<>> /\ s.do = "InsertOld" /\ calls' = With(calls, s.call, Info(s.peer, FALSE, s.port))
      BY <1>5 DEF InsertOld, Does
    <2>2. TaskOK(s) /\ s.call \in CallId /\ s.peer \in CallId /\ s.port \in Nat
      BY <1>1, <2>1, HeadOK
    <2>3. FirstOfHalf(s.port) /\ s.port >= 2
      BY <2>1, <2>2 DEF TaskOK
    <2>4. Info(s.peer, FALSE, s.port) \in CCallInfo /\ Info(s.peer, FALSE, s.port).port = s.port
      BY <2>2, InfoFields
    <2> QED
      BY <1>1, <2>1, <2>2, <2>3, <2>4 DEF MapOK, With
  <1>6. ASSUME NEW t \in Thread, UpdateOld(t)
        PROVE  MapOK(calls, CallId, 2)'
    <2> DEFINE s == Head(todo[t])
    <2>1. todo[t] # <<>> /\ (calls' = calls \/ calls' = [calls EXCEPT ![s.peer].peer = s.call])
      BY <1>6 DEF UpdateOld, Does
    <2>2. s.call \in CallId
      BY <1>1, <2>1, HeadOK
    <2> QED
      BY <1>1, <1>2, <2>1, <2>2 DEF MapOK, CCallInfo
  <1>7. ASSUME NEW t \in Thread, Handle(t), ~ Insert(t), ~ InsertOld(t), ~ UpdateOld(t)
        PROVE  calls' = calls \/ \E S : calls' = Without(calls, S)
    <2>1. CASE Delete(t) \/ DeleteKeepPort(t) \/ DeleteOne(t)
      BY <2>1 DEF Delete, DeleteKeepPort, DeleteOne
    <2>2. CASE ~ (Delete(t) \/ DeleteKeepPort(t) \/ DeleteOne(t))
      BY <1>7, <2>2 DEF Handle, DeleteDialog, StopCall, AcceptCall, SaveCdr, TransDelete,
         TransDeleteKeepPort, Forward, CreatePort, CreateCall, StartCall, EventCallStart, TransStart,
         ConnectTrans, EventCallEnd, TransEnd, EventBlindTransfer, CreateTransPort, StartTrans,
         TransInsert, EventTransfer, Reconnect, Redial, StartNew, StartCallNew, SelectToRing,
         SelectOld, Join, maps
    <2> QED
      BY <2>1, <2>2
  <1>8. ASSUME \/ UNCHANGED vars
               \/ \E t \in Thread, c \in Leg : Messages(t, c)
               \/ \E p \in Port : RtpThread(p)
        PROVE  calls' = calls
    BY <1>8 DEF Messages, RecvInvite, RecvCancel, RecvBye, RecvOk, RecvRefer, RecvError,
       RtpThread, vars, maps
  <1> QED
    BY <1>2, <1>3, <1>4, <1>5, <1>6, <1>7, <1>8, Steps

LEMMA TransStep ==
  ASSUME TypeInv, [Next]_vars
  PROVE  MapOK(trans, Leg, 4)'
  <1>1. MapOK(trans, Leg, 4) /\ TodoOK
    BY DEF TypeInv
  <1>2. trans' = trans => MapOK(trans, Leg, 4)'
    BY <1>1 DEF MapOK
  <1>3. \A S : trans' = Without(trans, S) => MapOK(trans, Leg, 4)'
    BY <1>1, WithoutOK
  <1>4. ASSUME NEW t \in Thread, TransInsert(t)
        PROVE  MapOK(trans, Leg, 4)'
    <2> DEFINE s == Head(todo[t])
    <2>1. todo[t] # <<>> /\ s.do = "TransInsert" /\ trans' = Pair(trans, s.call, s.peer, s.port)
      BY <1>4 DEF TransInsert, Does
    <2>2. TaskOK(s)
      BY <1>1, <2>1, HeadOK
    <2>3. s.call \in Leg /\ s.peer \in Leg /\ s.port \in Port
      BY <2>1, <2>2 DEF TaskOK
    <2>4. s.port \in Nat /\ FirstOfHalf(s.port) /\ s.port >= 4
      BY <2>3, Ports
    <2>5. MapOK(Pair(trans, s.call, s.peer, s.port), Leg, 4)
      BY <1>1, <2>3, <2>4, Legs, PairOK
    <2> QED
      BY <2>1, <2>5
  <1>5. ASSUME NEW t \in Thread, Handle(t), ~ TransInsert(t)
        PROVE  trans' = trans \/ \E S : trans' = Without(trans, S)
    <2>1. CASE TransDelete(t) \/ TransDeleteKeepPort(t)
      BY <2>1 DEF TransDelete, TransDeleteKeepPort
    <2>2. CASE ~ (TransDelete(t) \/ TransDeleteKeepPort(t))
      BY <1>5, <2>2 DEF Handle, DeleteDialog, StopCall, AcceptCall, SaveCdr, Insert, Delete,
         DeleteKeepPort, Forward, CreatePort, CreateCall, StartCall, EventCallStart, TransStart,
         ConnectTrans, EventCallEnd, TransEnd, EventBlindTransfer, CreateTransPort, StartTrans,
         EventTransfer, Reconnect, Redial, StartNew, StartCallNew, SelectToRing, SelectOld,
         InsertOld, DeleteOne, Join, UpdateOld, maps
    <2> QED
      BY <2>1, <2>2
  <1>6. ASSUME \/ UNCHANGED vars
               \/ \E t \in Thread, c \in Leg : Messages(t, c)
               \/ \E p \in Port : RtpThread(p)
        PROVE  trans' = trans
    BY <1>6 DEF Messages, RecvInvite, RecvCancel, RecvBye, RecvOk, RecvRefer, RecvError,
       RtpThread, vars, maps
  <1> QED
    BY <1>2, <1>3, <1>4, <1>5, <1>6, Steps

LEMMA RtpStep ==
  ASSUME TypeInv, [Next]_vars
  PROVE  RtpOK'
  <1>1. RtpOK
    BY DEF TypeInv
  <1>2. ASSUME NEW t \in Thread, Handle(t)
        PROVE  RtpOK'
    <2>1. CASE CreatePort(t) \/ CreateTransPort(t)
      BY <1>1, <2>1, RtpChanges DEF CreatePort, CreateTransPort
    <2>2. CASE Delete(t) \/ TransDelete(t)
      BY <1>1, <2>2, RtpChanges DEF Delete, TransDelete
    <2>3. CASE ~ (CreatePort(t) \/ CreateTransPort(t) \/ Delete(t) \/ TransDelete(t))
      <3>1. UNCHANGED rtp
        BY <1>2, <2>3 DEF Handle, DeleteDialog, StopCall, AcceptCall, SaveCdr, Insert,
           DeleteKeepPort, TransDeleteKeepPort, Forward, CreateCall, StartCall, EventCallStart,
           TransStart, ConnectTrans, EventCallEnd, TransEnd, EventBlindTransfer, StartTrans,
           TransInsert, EventTransfer, Reconnect, Redial, StartNew, StartCallNew, SelectToRing,
           SelectOld, InsertOld, DeleteOne, Join, UpdateOld, maps
      <3> QED
        BY <1>1, <3>1, RtpChanges
    <2> QED
      BY <2>1, <2>2, <2>3
  <1>3. ASSUME NEW p \in Port, RtpThread(p)
        PROVE  RtpOK'
    BY <1>1, <1>3, RtpChanges DEF RtpThread
  <1>4. ASSUME UNCHANGED vars \/ \E t \in Thread, c \in Leg : Messages(t, c)
        PROVE  RtpOK'
    <2>1. UNCHANGED rtp
      BY <1>4 DEF Messages, RecvInvite, RecvCancel, RecvBye, RecvOk, RecvRefer, RecvError, vars, maps
    <2> QED
      BY <1>1, <2>1, RtpChanges
  <1> QED
    BY <1>2, <1>3, <1>4, Steps

LEMMA PendingStep ==
  ASSUME TypeInv, [Next]_vars
  PROVE  (pending \subseteq Callee)'
  <1>1. pending \subseteq Callee /\ TodoOK
    BY DEF TypeInv
  <1>2. ASSUME NEW t \in Thread, Handle(t)
        PROVE  (pending \subseteq Callee)'
    <2>1. FreshCallId \in Callee \/ Callee \ used = {}
      BY DEF FreshCallId
    <2>2. CASE StartTrans(t) \/ StartCallNew(t)
      BY <1>1, <2>1, <2>2 DEF StartTrans, StartCallNew
    <2>3. CASE StartCall(t)
      <3>1. todo[t] # <<>> /\ Head(todo[t]).do = "StartCall" /\ pending' = pending \cup {Head(todo[t]).call}
        BY <2>3 DEF StartCall, Does
      <3>2. Head(todo[t]).call \in Callee
        BY <1>1, <3>1, HeadOK DEF TaskOK
      <3> QED
        BY <1>1, <3>1, <3>2
    <2>4. CASE ~ (StartTrans(t) \/ StartCallNew(t) \/ StartCall(t))
      <3>1. UNCHANGED pending
        BY <1>2, <2>4 DEF Handle, DeleteDialog, StopCall, AcceptCall, SaveCdr, Insert, Delete,
           DeleteKeepPort, TransDelete, TransDeleteKeepPort, Forward, CreatePort, CreateCall,
           EventCallStart, TransStart, ConnectTrans, EventCallEnd, TransEnd, EventBlindTransfer,
           CreateTransPort, TransInsert, EventTransfer, Reconnect, Redial, StartNew, SelectToRing,
           SelectOld, InsertOld, DeleteOne, Join, UpdateOld
      <3> QED
        BY <1>1, <3>1
    <2> QED
      BY <2>2, <2>3, <2>4
  <1>3. ASSUME \/ UNCHANGED vars
               \/ \E t \in Thread, c \in Leg : Messages(t, c)
               \/ \E p \in Port : RtpThread(p)
        PROVE  pending' \subseteq pending
    BY <1>3 DEF Messages, RecvInvite, RecvCancel, RecvBye, RecvOk, RecvRefer, RecvError,
       RtpThread, vars
  <1> QED
    BY <1>1, <1>2, <1>3, Steps

\* Sections whose history does not depend on what they were given.
LEMMA HistoryStep ==
  ASSUME TypeInv, [Next]_vars
  PROVE  HistoryOK'
  <1>1. HistoryOK /\ TodoOK /\ DialogsOK /\ MapOK(calls, CallId, 2) /\ MapOK(trans, Leg, 4)
    BY DEF TypeInv
  <1>2. ASSUME NEW t \in Thread, NEW c \in Leg, Messages(t, c)
        PROVE  HistoryOK'
    BY <1>1, <1>2, Legs DEF HistoryOK, Messages, RecvInvite, RecvCancel, RecvBye, RecvOk, RecvRefer,
       RecvError, history
  <1>3. ASSUME UNCHANGED vars \/ \E p \in Port : RtpThread(p)
        PROVE  HistoryOK'
    BY <1>1, <1>3 DEF HistoryOK, RtpThread, vars, history
  <1>4. ASSUME NEW t \in Thread, Handle(t)
        PROVE  HistoryOK'
    <2> DEFINE s == Head(todo[t])
    <2>1. FreshCallId \in Callee \/ Callee \ used = {}
      BY DEF FreshCallId
    <2>2. todo[t] # <<>>
      BY <1>4 DEF Handle, Does, DeleteDialog, StopCall, AcceptCall, SaveCdr, Insert, Delete,
         DeleteKeepPort, TransDelete, TransDeleteKeepPort, Forward, CreatePort, CreateCall, StartCall,
         EventCallStart, TransStart, ConnectTrans, EventCallEnd, TransEnd, EventBlindTransfer,
         CreateTransPort, StartTrans, TransInsert, EventTransfer, Reconnect, Redial, StartNew,
         StartCallNew, SelectToRing, SelectOld, InsertOld, DeleteOne, Join, UpdateOld
    <2>3. TaskOK(s) /\ s.call \in CallId /\ s.peer \in CallId /\ s.port \in Nat
      BY <1>1, <2>2, HeadOK
    <2>4. \A p \in Nat : Block(p) \in Nat
      BY Ports
    <2>5. ASSUME NEW map, NEW legs, MapOK(map, legs, 2) \/ MapOK(map, legs, 4), NEW c \in DOMAIN map
          PROVE  /\ map[c].peer \in CallId /\ Block(map[c].port) \in Nat
                 /\ KeptPort(map[c]) \subseteq Nat
      <3>1. map[c] \in CCallInfo /\ map[c].port >= 2 /\ map[c].port \in Nat /\ map[c].peer \in CallId
        BY <2>5 DEF MapOK, CCallInfo
      <3>2. map[c].port - 2 \in Nat
        BY <3>1
      <3>3. BlockOf(map[c]) \in Nat
        BY <3>1, <3>2, <2>4 DEF BlockOf
      <3> QED
        BY <3>1, <3>3, <2>4 DEF KeptPort
    <2>6. CASE CreateCall(t) \/ StartTrans(t) \/ StartCallNew(t)
      BY <1>1, <2>1, <2>3, <2>6, Legs DEF HistoryOK, CreateCall, StartTrans, StartCallNew, history
    <2>7. CASE AcceptCall(t) \/ Join(t)
      <3>1. \A c : Acceptable(c) => c \in Leg
        BY <1>1 DEF Acceptable, Known, DialogsOK
      <3> QED
        BY <1>1, <2>3, <2>7, <3>1 DEF HistoryOK, AcceptCall, Join
    <2>8. CASE SaveCdr(t)
      BY <1>1, <2>8 DEF HistoryOK, SaveCdr, DialogsOK
    <2>9. CASE Insert(t) \/ TransInsert(t)
      <3>1. InsertedLate(s.call, s.peer) \subseteq CallId
        BY <2>3 DEF InsertedLate
      <3> QED
        BY <1>1, <2>3, <2>9, <3>1 DEF HistoryOK, Insert, TransInsert
    <2>10. CASE ConnectTrans(t)
      BY <1>1, <2>10 DEF HistoryOK, ConnectTrans
    <2>11. CASE TransEnd(t)
      BY <1>1, <2>5, <2>11 DEF HistoryOK, TransEnd
    <2>12. ASSUME NEW section, NEW next, EventTransfer(t, section, next)
           PROVE  HistoryOK'
      <3>1. /\ used' = used /\ referred' = referred /\ recorded' = recorded /\ broken' = broken
            /\ joined' \subseteq joined
            /\ lost' = lost \/ (s.peer \in DOMAIN calls /\ lost' = lost \cup KeptPort(calls[s.peer]))
        BY <2>12 DEF EventTransfer
      <3>2. s.peer \in DOMAIN calls => KeptPort(calls[s.peer]) \subseteq Nat
        BY <1>1, <2>5
      <3> QED
        BY <1>1, <3>1, <3>2 DEF HistoryOK
    <2>13. CASE Reconnect(t) \/ Redial(t)
      <3>1. s.do \in Transfers
        BY <2>13 DEF Reconnect, Redial, Does, Transfers
      <3>2. todo[t] \in Seq(Task) /\ 2 \in DOMAIN todo[t] /\ 3 \in DOMAIN todo[t]
        <4>1. todo[t] \in Seq(Task) /\ 3 \in DOMAIN todo[t]
          BY <1>1, <2>2, <3>1, TailOK DEF TodoOK, StepsOK
        <4> QED
          BY <4>1
      <3>3. todo[t][2].call \in CallId /\ todo[t][3].call \in CallId
        <4>1. TaskOK(todo[t][2]) /\ TaskOK(todo[t][3])
          BY <1>1, <3>2 DEF TodoOK, StepsOK
        <4> QED
          BY <4>1 DEF TaskOK, Task
      <3>4. StoppedPort(s.port) \subseteq Nat
        BY <2>3, <2>4 DEF StoppedPort
      <3>5. /\ used' = used /\ referred' = referred /\ recorded' = recorded /\ joined' = joined
            /\ broken' \subseteq broken \cup {todo[t][2].call, todo[t][3].call, s.call, s.peer}
            /\ lost' \subseteq lost \cup StoppedPort(s.port) \cup {Block(s.port)}
        BY <2>13 DEF Reconnect, Redial, TransferFails
      <3> QED
        BY <1>1, <2>3, <2>4, <3>3, <3>4, <3>5 DEF HistoryOK
    <2>14. CASE StartNew(t)
      BY <1>1, <2>3, <2>4, <2>14 DEF HistoryOK, StartNew
    <2>15. CASE DeleteOne(t)
      <3>1. Both(calls, s.call) \subseteq CallId
        BY <1>1 DEF Both, MapOK
      <3> QED
        BY <1>1, <2>3, <2>15, <3>1 DEF HistoryOK, DeleteOne
    <2>16. CASE UpdateOld(t)
      BY <1>1, <2>3, <2>16 DEF HistoryOK, UpdateOld
    <2>17. CASE DeleteDialog(t) \/ StopCall(t) \/ Delete(t) \/ DeleteKeepPort(t) \/ TransDelete(t)
                  \/ TransDeleteKeepPort(t) \/ Forward(t) \/ CreatePort(t) \/ StartCall(t)
                  \/ EventCallStart(t) \/ TransStart(t) \/ EventCallEnd(t) \/ EventBlindTransfer(t)
                  \/ CreateTransPort(t) \/ SelectToRing(t) \/ SelectOld(t) \/ InsertOld(t)
      BY <1>1, <2>17 DEF HistoryOK, DeleteDialog, StopCall, Delete, DeleteKeepPort, TransDelete,
         TransDeleteKeepPort, Forward, CreatePort, StartCall, EventCallStart, TransStart, EventCallEnd,
         EventBlindTransfer, CreateTransPort, SelectToRing, SelectOld, InsertOld, history
    <2> QED
      BY <1>4, <2>6, <2>7, <2>8, <2>9, <2>10, <2>11, <2>12, <2>13, <2>14, <2>15, <2>16, <2>17 DEF Handle
  <1> QED
    BY <1>2, <1>3, <1>4, Steps

LEMMA RefuseOK == ASSUME NEW c \in CallId PROVE StepsOK(Refuse(c))
  <1>1. /\ TaskOK(On("SaveCdr", c)) /\ On("SaveCdr", c).do \notin Transfers
        /\ TaskOK(On("StopCall", c)) /\ On("StopCall", c).do \notin Transfers
    BY PlainTask, Legs DEF On, Plain, Section
  <1> QED
    BY <1>1, TupleOK DEF Refuse

LEMMA OnOK ==
  ASSUME NEW do \in Plain, NEW c \in CallId
  PROVE  TaskOK(On(do, c)) /\ On(do, c).do \notin Transfers
  BY PlainTask, Legs DEF On

\* The sections with a port, and those that only a leg has.
LEMMA PortTask ==
  ASSUME NEW c \in CallId, NEW peer \in CallId, NEW port \in Nat, FirstOfHalf(port)
  PROVE  /\ \A do \in {"Insert", "InsertOld", "StartNew", "StartCallNew", "Reconnect", "Redial"} :
              port >= 2 => TaskOK(Step(do, c, peer, port)) /\ Step(do, c, peer, port).do = do
         /\ port >= 4 => TaskOK(Step("ConnectTrans", c, peer, port))
                           /\ Step("ConnectTrans", c, peer, port).do = "ConnectTrans"
         /\ port \in Port => TaskOK(Step("CreateCall", c, peer, port))
                               /\ Step("CreateCall", c, peer, port).do = "CreateCall"
         /\ port \in Port /\ c \in Leg =>
              /\ TaskOK(Step("StartTrans", c, peer, port))
              /\ Step("StartTrans", c, peer, port).do = "StartTrans"
              /\ peer \in Leg => TaskOK(Step("TransInsert", c, peer, port))
                                   /\ Step("TransInsert", c, peer, port).do = "TransInsert"
  BY DEF TaskOK, Step, Task, Section

LEMMA LegTask ==
  /\ \A c \in Callee : TaskOK(On("StartCall", c)) /\ On("StartCall", c).do = "StartCall"
  /\ \A c \in Leg, do \in {"EventBlindTransfer", "CreateTransPort"} :
       TaskOK(On(do, c)) /\ On(do, c).do = do
  BY Legs, Ports DEF TaskOK, On, Step, Task, Section

LEMMA MessagesTodo ==
  ASSUME TypeInv, NEW t \in Thread, NEW c \in Leg, Messages(t, c)
  PROVE  TodoOK'
  <1>1. TodoOK /\ DialogsOK /\ c \in CallId
    BY Legs DEF TypeInv
  <1>2. \A do \in Plain : TaskOK(On(do, c)) /\ On(do, c).do \notin Transfers
    BY <1>1, OnOK
  <1>3. {"Forward", "CreatePort", "SelectToRing", "EventCallStart", "EventCallEnd", "DeleteDialog",
         "ScreenedTransfer", "UnscreenedTransfer"} \subseteq Plain
    BY DEF Plain, Section
  <1>4. \A steps \in EventIncomingCall(c) : StepsOK(steps)
    BY <1>1, <1>2, <1>3, RefuseOK, TupleOK DEF EventIncomingCall
  <1>5. StepsOK(<<On("EventCallEnd", c), On("DeleteDialog", c)>>) /\ StepsOK(<<On("EventCallStart", c)>>)
    BY <1>2, <1>3, TupleOK
  <1>6. StepsOK(<<On("EventBlindTransfer", c)>>)
    BY LegTask, TupleOK DEF Transfers
  <1>7. \A r \in DOMAIN dialog, do \in {"ScreenedTransfer", "UnscreenedTransfer"} :
          StepsOK(<<Step(do, c, r, 0)>>)
    BY <1>1, <1>3, PlainTask, TupleOK, Legs DEF DialogsOK
  <1>8. \E s : StepsOK(s) /\ Begin(t, s)
    BY <1>4, <1>5, <1>6, <1>7 DEF Messages, RecvInvite, RecvCancel, RecvBye, RecvOk, RecvRefer, RecvError
  <1> QED
    BY <1>1, <1>8, BeginOK

LEMMA HandleTodo ==
  ASSUME TypeInv, NEW t \in Thread, Handle(t)
  PROVE  TodoOK'
  <1> DEFINE s == Head(todo[t])
  <1>1. TodoOK /\ MapOK(calls, CallId, 2) /\ MapOK(trans, Leg, 4)
    BY DEF TypeInv
  <1>2. todo[t] # <<>>
    BY DEF Handle, Does, DeleteDialog, StopCall, AcceptCall, SaveCdr, Insert, Delete,
       DeleteKeepPort, TransDelete, TransDeleteKeepPort, Forward, CreatePort, CreateCall, StartCall,
       EventCallStart, TransStart, ConnectTrans, EventCallEnd, TransEnd, EventBlindTransfer,
       CreateTransPort, StartTrans, TransInsert, EventTransfer, Reconnect, Redial, StartNew,
       StartCallNew, SelectToRing, SelectOld, InsertOld, DeleteOne, Join, UpdateOld
  <1>3. TaskOK(s) /\ s.call \in CallId /\ s.peer \in CallId /\ s.port \in Nat /\ FirstOfHalf(s.port)
    BY <1>1, <1>2, HeadOK DEF TaskOK
  <1>4. \A more : StepsOK(more) /\ Continue(t, more) => TodoOK'
    BY <1>1, <1>2, ContinueOK
  <1>5. StepsOK(<<>>)
    BY TupleOK
  <1>6. /\ \A c \in DOMAIN calls :
             /\ calls[c].peer \in CallId /\ calls[c].port \in Nat /\ FirstOfHalf(calls[c].port)
             /\ calls[c].port >= 2
        /\ \A c \in DOMAIN trans :
             /\ trans[c].peer \in CallId /\ trans[c].port \in Nat /\ FirstOfHalf(trans[c].port)
             /\ trans[c].port >= 4
    BY <1>1 DEF MapOK, CCallInfo
  <1>7. \A p \in Port : p \in Nat /\ FirstOfHalf(p)
    BY Ports
  <1>8. \A do \in Plain, c \in CallId : TaskOK(On(do, c)) /\ On(do, c).do \notin Transfers
    BY OnOK
  <1>9. \A do \in Plain, c \in CallId, d \in CallId :
          TaskOK(Step(do, c, d, 0)) /\ Step(do, c, d, 0).do \notin Transfers
    BY PlainTask
  <1>10. {"AcceptCall", "StopCall", "DeleteDialog", "SaveCdr", "TransStart", "TransEnd", "Delete",
          "DeleteKeepPort", "TransDelete", "TransDeleteKeepPort", "SelectOld", "DeleteOne", "Join",
          "UpdateOld"} \subseteq Plain
    BY DEF Plain, Section
  <1>11. FreshCallId \in Callee \/ Callee \ used = {}
    BY DEF FreshCallId
  <1>12. NoCallId \in CallId /\ Callee \subseteq Leg /\ Leg \subseteq CallId
    BY Legs
  <1>13. CASE DeleteDialog(t) \/ StopCall(t) \/ AcceptCall(t) \/ SaveCdr(t) \/ Insert(t) \/ Delete(t)
                \/ DeleteKeepPort(t) \/ TransDelete(t) \/ TransDeleteKeepPort(t) \/ StartCall(t)
                \/ TransInsert(t) \/ InsertOld(t) \/ DeleteOne(t)
    BY <1>4, <1>5, <1>13 DEF DeleteDialog, StopCall, AcceptCall, SaveCdr, Insert, Delete,
       DeleteKeepPort, TransDelete, TransDeleteKeepPort, StartCall, TransInsert, InsertOld, DeleteOne
  <1>14. CASE Forward(t)
    BY <1>3, <1>4, <1>5, <1>14, RefuseOK DEF Forward
  <1>15. CASE CreatePort(t)
    <2>1. \A p \in Port : StepsOK(<<Step("CreateCall", s.call, NoCallId, p)>>)
      BY <1>3, <1>7, <1>12, PortTask, TupleOK DEF Transfers
    <2> QED
      BY <1>3, <1>4, <1>15, <2>1, RefuseOK DEF CreatePort
  <1>16. CASE CreateCall(t)
    <2>1. s.port \in Port
      BY <1>3, <1>16 DEF TaskOK, CreateCall, Does
    <2>2. ASSUME NEW new \in Callee
          PROVE  StepsOK(<<Step("Insert", s.call, new, s.port), On("StartCall", new)>>)
      <3>1. s.port >= 2
        BY <2>1, Ports
      <3>2. TaskOK(Step("Insert", s.call, new, s.port)) /\ Step("Insert", s.call, new, s.port).do = "Insert"
        BY <1>3, <1>12, <3>1, PortTask
      <3>3. TaskOK(On("StartCall", new)) /\ On("StartCall", new).do = "StartCall"
        BY LegTask
      <3> QED
        BY <3>2, <3>3, TupleOK DEF Transfers
    <2> QED
      BY <1>3, <1>4, <1>11, <1>16, <2>2, RefuseOK DEF CreateCall
  <1>17. CASE EventCallStart(t)
    <2>1. s.call \in DOMAIN calls => StepsOK(<<Step("AcceptCall", calls[s.call].peer, s.call, 0)>>)
      BY <1>3, <1>6, <1>9, <1>10, TupleOK
    <2>2. StepsOK(<<On("TransStart", s.call)>>)
      BY <1>3, <1>8, <1>10, TupleOK
    <2> QED
      BY <1>4, <1>17, <2>1, <2>2 DEF EventCallStart
  <1>18. CASE TransStart(t)
    <2>1. ASSUME s.call \in DOMAIN trans
          PROVE  StepsOK(<<Step("ConnectTrans", s.call, trans[s.call].peer, trans[s.call].port)>>)
      <3>1. /\ TaskOK(Step("ConnectTrans", s.call, trans[s.call].peer, trans[s.call].port))
            /\ Step("ConnectTrans", s.call, trans[s.call].peer, trans[s.call].port).do = "ConnectTrans"
        BY <1>3, <1>6, <2>1, PortTask
      <3> QED
        BY <3>1, TupleOK DEF Transfers
    <2>2. StepsOK(<<On("StopCall", s.call)>>)
      BY <1>3, <1>8, <1>10, TupleOK
    <2> QED
      BY <1>4, <1>18, <2>1, <2>2 DEF TransStart
  <1>19. CASE ConnectTrans(t)
    <2> DEFINE found == s.peer \in DOMAIN calls
               other == IF found THEN calls[s.peer].peer ELSE NoCallId
               old == IF found THEN <<On("StopCall", s.peer), On("Delete", s.peer)>> ELSE <<>>
               new == <<Step("Insert", other, s.call, s.port - 2), On("TransDeleteKeepPort", s.call)>>
    <2>1. s.port >= 4
      BY <1>3, <1>19 DEF TaskOK, ConnectTrans, Does
    <2>2. s.port - 2 \in Nat /\ s.port - 2 >= 2 /\ FirstOfHalf(s.port - 2)
      BY <1>3, <2>1, Ports
    <2>3. other \in CallId
      BY <1>6, <1>12
    <2>4. StepsOK(old)
      BY <1>3, <1>5, <1>8, <1>10, TupleOK
    <2>5. /\ TaskOK(Step("Insert", other, s.call, s.port - 2))
          /\ Step("Insert", other, s.call, s.port - 2).do = "Insert"
      BY <1>3, <2>2, <2>3, PortTask
    <2>6. /\ TaskOK(On("TransDeleteKeepPort", s.call))
          /\ On("TransDeleteKeepPort", s.call).do \notin Transfers
      BY <1>3, <1>8, <1>10
    <2>7. StepsOK(new)
      BY <2>5, <2>6, TupleOK DEF Transfers
    <2>8. StepsOK(old \o new)
      BY <2>4, <2>7, ConcatOK
    <2>9. Continue(t, old \o new)
      BY <1>19 DEF ConnectTrans
    <2> QED
      BY <1>4, <2>8, <2>9
  <1>20. CASE EventCallEnd(t)
    <2>1. ASSUME s.call \in DOMAIN calls, NEW r \in CallId
          PROVE  StepsOK(<<On("SaveCdr", r), On("StopCall", calls[s.call].peer), On("Delete", s.call)>>)
      BY <1>3, <1>6, <1>8, <1>10, <2>1, TupleOK
    <2>2. StepsOK(<<On("TransEnd", s.call)>>)
      BY <1>3, <1>8, <1>10, TupleOK
    <2>3. s.call \in DOMAIN calls =>
            (IF calls[s.call].recv THEN s.call ELSE calls[s.call].peer) \in CallId
      BY <1>3, <1>6
    <2> QED
      BY <1>4, <1>20, <2>1, <2>2, <2>3 DEF EventCallEnd
  <1>21. CASE TransEnd(t)
    <2>1. StepsOK(<<On("TransDelete", s.call)>>)
      BY <1>3, <1>8, <1>10, TupleOK
    <2> QED
      BY <1>4, <1>5, <1>21, <2>1 DEF TransEnd
  <1>22. CASE EventBlindTransfer(t) \/ CreateTransPort(t)
    <2>1. s.call \in Leg
      BY <1>3, <1>22 DEF TaskOK, EventBlindTransfer, CreateTransPort, Does
    <2>2. StepsOK(<<On("CreateTransPort", s.call)>>)
      BY <2>1, LegTask, TupleOK DEF Transfers
    <2>3. \A p \in Port : StepsOK(<<Step("StartTrans", s.call, NoCallId, p)>>)
      BY <1>3, <1>7, <1>12, <2>1, PortTask, TupleOK DEF Transfers
    <2> QED
      BY <1>4, <1>5, <1>22, <2>2, <2>3 DEF EventBlindTransfer, CreateTransPort
  <1>23. CASE StartTrans(t)
    <2>1. s.call \in Leg /\ s.port \in Port
      BY <1>3, <1>23 DEF TaskOK, StartTrans, Does
    <2>2. \A new \in Callee : StepsOK(<<Step("TransInsert", s.call, new, s.port)>>)
      BY <1>3, <1>12, <2>1, PortTask, TupleOK DEF Transfers
    <2> QED
      BY <1>4, <1>5, <1>11, <1>23, <2>2 DEF StartTrans
  <1>24. ASSUME NEW section, NEW next \in Transfers, EventTransfer(t, section, next)
         PROVE  TodoOK'
    <2>1. CASE ~ ({s.call, s.peer} \subseteq DOMAIN calls)
      BY <1>4, <1>5, <1>24, <2>1 DEF EventTransfer
    <2>2. CASE {s.call, s.peer} \subseteq DOMAIN calls
      <3> DEFINE first == calls[s.call].peer
                 second == calls[s.peer].peer
                 port == calls[s.peer].port
                 five == <<On("Delete", s.call), On("DeleteKeepPort", s.peer),
                   Step(next, first, second, port), On("StopCall", s.call), On("StopCall", s.peer)>>
                 last == IF next = "Redial" THEN <<Step("StartNew", first, second, port)>> ELSE <<>>
      <3>1. first \in CallId /\ second \in CallId /\ port \in Nat /\ FirstOfHalf(port) /\ port >= 2
        BY <1>6, <2>2
      <3>2. /\ TaskOK(Step(next, first, second, port)) /\ Step(next, first, second, port).do = next
            /\ TaskOK(Step("StartNew", first, second, port))
            /\ Step("StartNew", first, second, port).do = "StartNew"
        BY <3>1, PortTask DEF Transfers
      <3>3. /\ TaskOK(On("Delete", s.call)) /\ On("Delete", s.call).do \notin Transfers
            /\ TaskOK(On("DeleteKeepPort", s.peer)) /\ On("DeleteKeepPort", s.peer).do \notin Transfers
            /\ TaskOK(On("StopCall", s.call)) /\ On("StopCall", s.call).do \notin Transfers
            /\ TaskOK(On("StopCall", s.peer)) /\ On("StopCall", s.peer).do \notin Transfers
        BY <1>3, <1>8, <1>10
      <3>4. \A x : TaskOK(x) => x \in Task
        BY DEF TaskOK
      <3> HIDE DEF first, second, port
      <3>5. StepsOK(five)
        BY <3>2, <3>3, <3>4 DEF StepsOK
      <3>6. StepsOK(last)
        BY <1>5, <3>2, TupleOK DEF Transfers
      <3>7. StepsOK(five \o last)
        BY <3>5, <3>6, ConcatOK
      <3>8. todo' = [todo EXCEPT ![t] = five \o last]
        BY <1>24, <2>2 DEF EventTransfer, first, second, port
      <3> HIDE DEF five, last
      <3>9. five \o last \in Seq(Task)
        BY <3>7 DEF StepsOK
      <3> QED
        BY <1>1, <3>7, <3>8, <3>9 DEF TodoOK, StepsOK
    <2> QED
      BY <2>1, <2>2
  <1>25. CASE Reconnect(t) \/ Redial(t)
    <2>1. s.port >= 2
      BY <1>3, <1>25 DEF TaskOK, Reconnect, Redial, Does
    <2>2. StepsOK(<<Step("Insert", s.call, s.peer, s.port)>>)
      BY <1>3, <2>1, PortTask, TupleOK DEF Transfers
    <2>3. todo' = [todo EXCEPT ![t] = <<>>] => TodoOK'
      BY <1>1, <1>5 DEF TodoOK, StepsOK
    <2> QED
      BY <1>4, <1>5, <1>25, <2>2, <2>3 DEF Reconnect, Redial, TransferFails
  <1>26. CASE StartNew(t)
    <2>1. s.port >= 2
      BY <1>3, <1>26 DEF TaskOK, StartNew, Does
    <2>2. /\ TaskOK(Step("StartCallNew", s.call, NoCallId, s.port))
          /\ Step("StartCallNew", s.call, NoCallId, s.port).do = "StartCallNew"
      BY <1>3, <1>12, <2>1, PortTask
    <2>3. /\ TaskOK(On("StopCall", s.peer)) /\ On("StopCall", s.peer).do \notin Transfers
          /\ TaskOK(On("StopCall", s.call)) /\ On("StopCall", s.call).do \notin Transfers
      BY <1>3, <1>8, <1>10
    <2>4. /\ StepsOK(<<On("StopCall", s.peer), Step("StartCallNew", s.call, NoCallId, s.port)>>)
          /\ StepsOK(<<On("StopCall", s.call), On("StopCall", s.peer)>>)
      BY <2>2, <2>3, TupleOK DEF Transfers
    <2> QED
      BY <1>4, <1>26, <2>4 DEF StartNew
  <1>27. CASE StartCallNew(t)
    <2>1. s.port >= 2
      BY <1>3, <1>27 DEF TaskOK, StartCallNew, Does
    <2>2. \A new \in CallId : StepsOK(<<Step("Insert", new, s.call, s.port)>>)
      BY <1>3, <2>1, PortTask, TupleOK DEF Transfers
    <2> QED
      BY <1>4, <1>11, <1>12, <1>27, <2>2 DEF StartCallNew
  <1>28. CASE SelectToRing(t)
    <2>1. \A o \in DOMAIN calls : StepsOK(<<Step("SelectOld", s.call, o, 0)>>)
      BY <1>1, <1>3, <1>9, <1>10, TupleOK DEF MapOK
    <2> QED
      BY <1>3, <1>4, <1>28, <2>1, RefuseOK DEF SelectToRing
  <1>29. CASE SelectOld(t)
    <2>1. ASSUME s.peer \in DOMAIN calls
          PROVE  StepsOK(<<Step("InsertOld", s.call, calls[s.peer].peer, calls[s.peer].port),
                   Step("DeleteOne", s.peer, s.call, 0), On("StopCall", s.peer),
                   Step("Join", s.call, calls[s.peer].peer, 0)>>)
      <3>1. /\ TaskOK(Step("InsertOld", s.call, calls[s.peer].peer, calls[s.peer].port))
            /\ Step("InsertOld", s.call, calls[s.peer].peer, calls[s.peer].port).do = "InsertOld"
        BY <1>3, <1>6, <2>1, PortTask
      <3>2. /\ TaskOK(Step("DeleteOne", s.peer, s.call, 0))
            /\ Step("DeleteOne", s.peer, s.call, 0).do \notin Transfers
            /\ TaskOK(On("StopCall", s.peer)) /\ On("StopCall", s.peer).do \notin Transfers
            /\ TaskOK(Step("Join", s.call, calls[s.peer].peer, 0))
            /\ Step("Join", s.call, calls[s.peer].peer, 0).do \notin Transfers
        BY <1>3, <1>6, <1>8, <1>9, <1>10, <2>1
      <3> QED
        BY <3>1, <3>2, TupleOK DEF Transfers
    <2> QED
      BY <1>3, <1>4, <1>29, <2>1, RefuseOK DEF SelectOld
  <1>30. CASE Join(t)
    <2>1. StepsOK(<<Step("UpdateOld", s.call, s.peer, 0)>>)
      BY <1>3, <1>9, <1>10, TupleOK
    <2> QED
      BY <1>3, <1>4, <1>30, <2>1, RefuseOK DEF Join
  <1>31. CASE UpdateOld(t)
    <2>1. StepsOK(<<Step("AcceptCall", s.call, s.peer, 0)>>) /\ StepsOK(<<On("StopCall", s.peer)>>)
      BY <1>3, <1>8, <1>9, <1>10, TupleOK
    <2>2. StepsOK(<<On("StopCall", s.peer)>> \o Refuse(s.call))
      BY <1>3, <2>1, RefuseOK, ConcatOK
    <2> QED
      BY <1>4, <1>31, <2>1, <2>2 DEF UpdateOld
  <1> QED
    BY <1>13, <1>14, <1>15, <1>16, <1>17, <1>18, <1>19, <1>20, <1>21, <1>22, <1>23, <1>24, <1>25,
       <1>26, <1>27, <1>28, <1>29, <1>30, <1>31 DEF Handle, Transfers

LEMMA TypeStep == TypeInv /\ [Next]_vars => TypeInv'
  <1> SUFFICES ASSUME TypeInv, [Next]_vars
               PROVE  TypeInv'
    OBVIOUS
  <1>1. TodoOK'
    <2>1. ASSUME UNCHANGED vars \/ \E p \in Port : RtpThread(p)
          PROVE  TodoOK'
      <3>1. UNCHANGED todo
        BY <2>1 DEF vars, RtpThread
      <3> QED
        BY <3>1 DEF TypeInv, TodoOK
    <2> QED
      BY <2>1, MessagesTodo, HandleTodo, Steps
  <1> QED
    BY <1>1, DialogsStep, PendingStep, CallsStep, TransStep, RtpStep, HistoryStep DEF TypeInv

LEMMA TypeInit == Init => TypeInv
  <1> SUFFICES ASSUME Init
               PROVE  TypeInv
    OBVIOUS
  <1>1. TodoOK
    BY TupleOK DEF Init, TodoOK
  <1> QED
    BY <1>1 DEF Init, TypeInv, DialogsOK, MapOK, RtpOK, HistoryOK

\* The values of the variables, with every service and with any number of threads: the ports
\* an entry of the call map names are the first of a half of a block, however often the call
\* was transferred.
THEOREM TypeCorrect == Spec => []TypeOK
  <1>1. TypeInv => TypeOK
    BY DEF TypeInv, TypeOK, DialogsOK, MapOK, RtpOK, TodoOK, HistoryOK
  <1> QED
    BY <1>1, TypeInit, TypeStep, PTL DEF Spec
-----------------------------------------------------------------------------
\* Phones that call and forward; the other services are off.
PlainCalls == Service \subseteq {"forward"}

\* The sections threads have still to do: of one thread, of all.
Elements(s) == {s[i] : i \in DOMAIN s}
Work(t) == Elements(todo[t])
AllWork == UNION {Work(t) : t \in Thread}
Due(do, c) == On(do, c) \in AllWork

\* The handlers, from any of their sections on.  A caller leg is c, the leg called d, a leg of
\* either kind x, its peer y.
SetupForms(c) ==
  {<<On("Forward", c)>>, <<On("CreatePort", c)>>, Refuse(c), <<On("StopCall", c)>>}
    \cup {<<Step("CreateCall", c, NoCallId, p)>> : p \in Port}
    \cup {<<Step("Insert", c, d, p), On("StartCall", d)>> : d \in Callee, p \in Port}

StartForms(d) ==
  {<<On("StartCall", d)>>, <<On("EventCallStart", d)>>, <<On("TransStart", d)>>, <<On("StopCall", d)>>}
    \cup {<<Step("AcceptCall", c, d, 0)>> : c \in Caller}

Ends(x) == <<On("Delete", x), On("DeleteDialog", x)>>
Stops(x, y) == <<On("StopCall", y), On("Delete", x), On("DeleteDialog", x)>>
Saves(x, y) ==
  <<On("SaveCdr", IF x \in Caller THEN x ELSE y), On("StopCall", y), On("Delete", x), On("DeleteDialog", x)>>

EndForms(x) ==
  {<<On("EventCallEnd", x), On("DeleteDialog", x)>>, <<On("TransEnd", x), On("DeleteDialog", x)>>,
   Ends(x), <<On("DeleteDialog", x)>>}
    \cup UNION {{Stops(x, y), Saves(x, y)} : y \in IF x \in Caller THEN Callee ELSE Caller}

IsForm(s) ==
  \/ s = <<>>
  \/ \E c \in Caller : s \in SetupForms(c)
  \/ \E d \in Callee : s \in StartForms(d)
  \/ \E x \in Leg : s \in EndForms(x)

\* A thread handles the INVITE of c; it inserts d; a leg whose pair was inserted.
Setup(t, c) == c \in Caller /\ todo[t] \in SetupForms(c)
Inserts(t, c, d, p) == todo[t] = <<Step("Insert", c, d, p), On("StartCall", d)>>
NewLeg(d) == \E t \in Thread, c \in Caller, p \in Port : Inserts(t, c, d, p)
Placed(x) == x \in used /\ ~ NewLeg(x) /\ \A t \in Thread : ~ Setup(t, x)

\* What the threads have left is the rest of one handler each, and names legs that were used.
Handlers ==
  /\ \A t \in Thread : IsForm(todo[t])
  /\ trans = [c \in {} |-> Info(NoCallId, TRUE, 0)]
  /\ DOMAIN dialog \subseteq used
  /\ \A x \in AllWork : {x.call, x.peer} \subseteq used \cup {NoCallId}

\* One thread handles an INVITE, and the leg it makes is known to no other.
SetupAlone ==
  /\ \A t, u \in Thread, c \in Caller : Setup(t, c) /\ Setup(u, c) => t = u
  /\ \A t \in Thread, c \in Caller, d \in Callee, p \in Port : Inserts(t, c, d, p) =>
       /\ Known(d) /\ ~ dialog[d].start
       /\ \A u \in Thread \ {t} : \A x \in Work(u) : x.call # d /\ x.peer # d

\* What was inserted before is not inserted again.
PlacedInv ==
  /\ \A x \in DOMAIN calls \cup joined \cup pending : Placed(x)
  /\ \A d \in Callee, t \in Thread : todo[t] \in StartForms(d) => Placed(d)
  /\ \A c \in Caller, d \in Callee, t \in Thread : todo[t] = <<Step("AcceptCall", c, d, 0)>> => Placed(c)
  /\ \A x \in Leg, t \in Thread : On("Delete", x) \in Work(t) => Placed(x)
  /\ \A x, y \in Leg, t \in Thread : todo[t] \in {Stops(x, y), Saves(x, y)} => Placed(y)

\* The entries of the call map come in pairs.
Pairs ==
  \A x \in DOMAIN calls :
    LET y == calls[x].peer IN
    /\ y \in DOMAIN calls /\ calls[y].peer = x
    /\ x \in Caller => y \in Callee /\ calls[x].recv /\ calls[x].port \in Port
    /\ x \notin Caller => x \in Callee /\ y \in Caller /\ ~ calls[x].recv /\ calls[x].port = calls[y].port + 2

\* x and y are the two legs of a pair, or neither is in the map any more.
Paired(x, y) ==
  /\ x \in DOMAIN calls => calls[x].peer = y
  /\ y \in DOMAIN calls => calls[y].peer = x

Dialogs ==
  \A x \in DOMAIN dialog :
    /\ x \in Caller => dialog[x].invite = ~ dialog[x].start
    /\ x \notin Caller => ~ dialog[x].invite
    /\ dialog[x].end => Due("DeleteDialog", x)
    /\ x \in Callee /\ ~ dialog[x].start /\ ~ dialog[x].end => x \in pending \/ Due("StartCall", x)

\* What a thread knows of the legs it works on.
Ending ==
  /\ \A x \in Leg, t \in Thread : On("DeleteDialog", x) \in Work(t) => ~ Live(x)
  /\ \A x \in Leg, y \in Leg, t \in Thread : todo[t] \in {Stops(x, y), Saves(x, y)} => Paired(x, y)
  /\ \A x \in Leg, t \in Thread :
       todo[t] \in {<<On("TransEnd", x), On("DeleteDialog", x)>>, <<On("DeleteDialog", x)>>} =>
         x \notin DOMAIN calls \/ x \in broken
Starting ==
  \A d \in Callee, t \in Thread :
    /\ todo[t] \in StartForms(d) /\ todo[t] # <<On("StartCall", d)>> /\ Known(d) => dialog[d].start
    /\ todo[t] \in {<<On("TransStart", d)>>, <<On("StopCall", d)>>} => d \notin DOMAIN calls
    /\ \A c \in Caller : todo[t] = <<Step("AcceptCall", c, d, 0)>> =>
         Paired(c, d) /\ (d \in DOMAIN calls \/ ~ Live(c) \/ ~ Live(d))

BrokenPairs == \A x \in DOMAIN calls : x \in broken => calls[x].peer \in broken

\* A leg that is no leg of a pair of two goes away, or was left alone.
Leaves(x) ==
  \/ x \in broken
  \/ ~ Known(x)
  \/ Due("DeleteDialog", x) \/ Due("StopCall", x) \/ Due("EventCallStart", x) \/ Due("TransStart", x)
  \/ dialog[x].cancel /\ (x \in pending \/ Due("StartCall", x))
  \/ \E c \in Leg : Step("AcceptCall", c, x, 0) \in AllWork /\ ~ Live(c)

HasPeer(x) == x \in DOMAIN calls /\ Known(calls[x].peer)

Covered ==
  \A x \in DOMAIN dialog :
    \/ HasPeer(x)
    \/ NewLeg(x) \/ \E t \in Thread : Setup(t, x)
    \/ Leaves(x)

PeerLeaves ==
  \A t \in Thread : \A x \in DOMAIN calls : todo[t] = Ends(x) => Leaves(calls[x].peer)

\* A pair whose leg has gone is going to be deleted.
PairsGo ==
  \A x \in DOMAIN calls : Known(x) \/ x \in broken \/ Due("Delete", x) \/ Due("Delete", calls[x].peer)

\* A connected call is there or has its record; a leg that is stopped, or whose pair is deleted,
\* has it already.
Recorded(c) == c \in recorded \/ ~ Known(c)
Records ==
  /\ joined \subseteq Caller
  /\ \A c \in joined \ broken : Known(c) \/ c \in recorded
  /\ \A c \in joined \ broken : c \in DOMAIN calls \/ c \in recorded
  /\ \A c \in Caller, t \in Thread :
       /\ On("StopCall", c) \in Work(t) /\ On("SaveCdr", c) \notin Work(t) => Recorded(c)
       /\ \A x \in DOMAIN calls :
            todo[t] \in {Ends(x), Stops(x, calls[x].peer)} /\ c \in {x, calls[x].peer} => Recorded(c)

\* A port that is not stopped is lost, in the hands of one thread, or that of one pair.
Holding(t, p) ==
  \E c \in Caller : todo[t] = <<Step("CreateCall", c, NoCallId, p)>> \/ \E d \in Callee : Inserts(t, c, d, p)

PortsInv ==
  /\ \A p \in DOMAIN rtp : \/ rtp[p] \/ p \in lost
                           \/ \E t \in Thread : Holding(t, p)
                           \/ \E c \in DOMAIN calls \cap Caller : calls[c].port = p
  /\ \A c \in DOMAIN calls \cap Caller :
       /\ calls[c].port \in DOMAIN rtp /\ ~ rtp[calls[c].port]
       /\ \A e \in DOMAIN calls \cap Caller : calls[e].port = calls[c].port => e = c
       /\ \A t \in Thread : ~ Holding(t, calls[c].port)
  /\ \A t \in Thread, p \in Port : Holding(t, p) =>
       /\ p \in DOMAIN rtp /\ ~ rtp[p]
       /\ \A u \in Thread : Holding(u, p) => u = t

\* The inductive invariant.
CallsInv ==
  /\ TypeInv
  /\ Handlers /\ SetupAlone /\ PlacedInv
  /\ Pairs /\ Dialogs /\ Ending /\ Starting /\ BrokenPairs
  /\ Covered /\ PeerLeaves /\ PairsGo
  /\ Records
  /\ PortsInv
-----------------------------------------------------------------------------
\* A section of thread t turns its handler from r into s.
Moves(t, r, s) == todo[t] = r /\ todo' = [todo EXCEPT ![t] = s]

LEMMA Tuples ==
  /\ \A a : Head(<<a>>) = a /\ Tail(<<a>>) = <<>>
  /\ \A a, b : Head(<<a, b>>) = a /\ Tail(<<a, b>>) = <<b>>
  /\ \A a, b, c : Head(<<a, b, c>>) = a /\ Tail(<<a, b, c>>) = <<b, c>>
  /\ \A a, b, c, d : Head(<<a, b, c, d>>) = a /\ Tail(<<a, b, c, d>>) = <<b, c, d>>
  OBVIOUS

LEMMA Concats ==
  /\ <<>> \o <<>> = <<>>
  /\ \A a : <<a>> \o <<>> = <<a>> /\ <<>> \o <<a>> = <<a>>
  /\ \A a, b : <<a, b>> \o <<>> = <<a, b>> /\ <<>> \o <<a, b>> = <<a, b>> /\ <<a>> \o <<b>> = <<a, b>>
  /\ \A a, b, c : <<>> \o <<a, b, c>> = <<a, b, c>>
  /\ \A a, b, c, d : <<a, b, c>> \o <<d>> = <<a, b, c, d>>
  <1>1. <<>> \o <<>> = <<>>
    OBVIOUS
  <1>2. \A a : <<a>> \o <<>> = <<a>> /\ <<>> \o <<a>> = <<a>>
    OBVIOUS
  <1>3. \A a, b : <<a, b>> \o <<>> = <<a, b>> /\ <<>> \o <<a, b>> = <<a, b>>
    OBVIOUS
  <1>4. ASSUME NEW a, NEW b PROVE <<a>> \o <<b>> = <<a, b>>
    <2> DEFINE S == {a, b}
    <2>1. /\ <<a>> \in Seq(S) /\ <<b>> \in Seq(S) /\ <<a, b>> \in Seq(S)
          /\ <<a>> \o <<b>> \in Seq(S)
          /\ Len(<<a>> \o <<b>>) = 2 /\ Len(<<a, b>>) = 2
      OBVIOUS
    <2>2. \A i \in 1 .. 2 : (<<a>> \o <<b>>)[i] = <<a, b>>[i]
      BY <2>1, ConcatProperties
    <2> QED
      BY <2>1, <2>2, SeqEqual
  <1>5. \A a, b, c : <<>> \o <<a, b, c>> = <<a, b, c>>
    OBVIOUS
  <1>6. ASSUME NEW a, NEW b, NEW c, NEW d PROVE <<a, b, c>> \o <<d>> = <<a, b, c, d>>
    <2> DEFINE S == {a, b, c, d}
    <2>1. /\ <<a, b, c>> \in Seq(S) /\ <<d>> \in Seq(S) /\ <<a, b, c, d>> \in Seq(S)
          /\ <<a, b, c>> \o <<d>> \in Seq(S)
          /\ Len(<<a, b, c>> \o <<d>>) = 4 /\ Len(<<a, b, c, d>>) = 4
      OBVIOUS
    <2>2. \A i \in 1 .. 4 : (<<a, b, c>> \o <<d>>)[i] = <<a, b, c, d>>[i]
      BY <2>1, ConcatProperties
    <2> QED
      BY <2>1, <2>2, SeqEqual
  <1> QED
    BY <1>1, <1>2, <1>3, <1>4, <1>5, <1>6

LEMMA ElementsOf ==
  /\ Elements(<<>>) = {}
  /\ \A a : Elements(<<a>>) = {a}
  /\ \A a, b : Elements(<<a, b>>) = {a, b}
  /\ \A a, b, c : Elements(<<a, b, c>>) = {a, b, c}
  /\ \A a, b, c, d : Elements(<<a, b, c, d>>) = {a, b, c, d}
  BY DEF Elements

LEMMA OnFields ==
  \A do, c, peer, port :
    /\ Step(do, c, peer, port).do = do
    /\ Step(do, c, peer, port).call = c
    /\ Step(do, c, peer, port).peer = peer
    /\ Step(do, c, peer, port).port = port
    /\ On(do, c).do = do /\ On(do, c).call = c /\ On(do, c).peer = NoCallId
  BY DEF On, Step

\* The handlers a section can be the first of.
LEMMA FormOf ==
  ASSUME NEW s, IsForm(s), s # <<>>
  PROVE  LET do == Head(s).do IN
         /\ do \in {"Forward", "CreatePort", "CreateCall", "Insert", "StartCall", "SaveCdr", "StopCall",
              "AcceptCall", "EventCallStart", "TransStart", "EventCallEnd", "TransEnd", "Delete",
              "DeleteDialog"}
         /\ do = "Forward" => \E c \in Caller : s = <<On("Forward", c)>>
         /\ do = "CreatePort" => \E c \in Caller : s = <<On("CreatePort", c)>>
         /\ do = "CreateCall" => \E c \in Caller, p \in Port : s = <<Step("CreateCall", c, NoCallId, p)>>
         /\ do = "Insert" => \E c \in Caller, d \in Callee, p \in Port :
              s = <<Step("Insert", c, d, p), On("StartCall", d)>>
         /\ do = "StartCall" => \E d \in Callee : s = <<On("StartCall", d)>>
         /\ do = "SaveCdr" => \/ \E c \in Caller : s = Refuse(c)
                              \/ \E x, y \in Leg : (x \in Caller <=> y \in Callee) /\ s = Saves(x, y)
         /\ do = "StopCall" => \/ \E x \in Leg : s = <<On("StopCall", x)>>
                               \/ \E x, y \in Leg : (x \in Caller <=> y \in Callee) /\ s = Stops(x, y)
         /\ do = "AcceptCall" => \E c \in Caller, d \in Callee : s = <<Step("AcceptCall", c, d, 0)>>
         /\ do = "EventCallStart" => \E d \in Callee : s = <<On("EventCallStart", d)>>
         /\ do = "TransStart" => \E d \in Callee : s = <<On("TransStart", d)>>
         /\ do = "EventCallEnd" => \E x \in Leg : s = <<On("EventCallEnd", x), On("DeleteDialog", x)>>
         /\ do = "TransEnd" => \E x \in Leg : s = <<On("TransEnd", x), On("DeleteDialog", x)>>
         /\ do = "Delete" => \E x \in Leg : s = Ends(x)
         /\ do = "DeleteDialog" => \E x \in Leg : s = <<On("DeleteDialog", x)>>
  <1>1. \/ \E c \in Caller : s \in SetupForms(c)
        \/ \E d \in Callee : s \in StartForms(d)
        \/ \E x \in Leg : s \in EndForms(x)
    BY DEF IsForm
  <1>2. /\ \A a : Head(<<a>>) = a
        /\ \A a, b : Head(<<a, b>>) = a
        /\ \A a, b, c : Head(<<a, b, c>>) = a
        /\ \A a, b, c, d : Head(<<a, b, c, d>>) = a
    BY Tuples
  <1>3. ASSUME NEW c \in Caller, s \in SetupForms(c)
        PROVE  \/ Head(s).do = "Forward" /\ s = <<On("Forward", c)>>
               \/ Head(s).do = "CreatePort" /\ s = <<On("CreatePort", c)>>
               \/ Head(s).do = "SaveCdr" /\ s = Refuse(c)
               \/ Head(s).do = "StopCall" /\ s = <<On("StopCall", c)>> /\ c \in Leg
               \/ Head(s).do = "CreateCall" /\ \E p \in Port : s = <<Step("CreateCall", c, NoCallId, p)>>
               \/ Head(s).do = "Insert" /\ \E d \in Callee, p \in Port :
                    s = <<Step("Insert", c, d, p), On("StartCall", d)>>
    BY <1>2, <1>3, OnFields, Legs DEF SetupForms, Refuse
  <1>4. ASSUME NEW d \in Callee, s \in StartForms(d)
        PROVE  \/ Head(s).do = "StartCall" /\ s = <<On("StartCall", d)>>
               \/ Head(s).do = "EventCallStart" /\ s = <<On("EventCallStart", d)>>
               \/ Head(s).do = "TransStart" /\ s = <<On("TransStart", d)>>
               \/ Head(s).do = "StopCall" /\ s = <<On("StopCall", d)>> /\ d \in Leg
               \/ Head(s).do = "AcceptCall" /\ \E c \in Caller : s = <<Step("AcceptCall", c, d, 0)>>
    BY <1>2, <1>4, OnFields, Legs DEF StartForms
  <1>5. ASSUME NEW x \in Leg, s \in EndForms(x)
        PROVE  \/ Head(s).do = "EventCallEnd" /\ s = <<On("EventCallEnd", x), On("DeleteDialog", x)>>
               \/ Head(s).do = "TransEnd" /\ s = <<On("TransEnd", x), On("DeleteDialog", x)>>
               \/ Head(s).do = "Delete" /\ s = Ends(x)
               \/ Head(s).do = "DeleteDialog" /\ s = <<On("DeleteDialog", x)>>
               \/ \E y \in Leg : /\ x \in Caller <=> y \in Callee
                                 /\ \/ Head(s).do = "StopCall" /\ s = Stops(x, y)
                                    \/ Head(s).do = "SaveCdr" /\ s = Saves(x, y)
    <2>1. ASSUME NEW y, s \in {Stops(x, y), Saves(x, y)}, y \in IF x \in Caller THEN Callee ELSE Caller
          PROVE  y \in Leg /\ (x \in Caller <=> y \in Callee)
      BY <2>1, SipServerCallsAssumption DEF Leg
    <2> QED
      BY <1>2, <1>5, <2>1, OnFields DEF EndForms, Ends, Stops, Saves
  <1> QED
    BY <1>1, <1>3, <1>4, <1>5
-----------------------------------------------------------------------------
\* The steps of plain calls, with the handler before and after.

Invited(t, c) ==
  /\ c \in Caller \ used
  /\ \E s \in {<<On("Forward", c)>>, <<On("CreatePort", c)>>, Refuse(c)} : Moves(t, <<>>, s)
  /\ used' = used \cup {c} /\ dialog' = With(dialog, c, NewDialog(TRUE))
  /\ UNCHANGED <<pending, calls, trans, rtp, recorded, joined, broken, lost>>

\* CANCEL, BYE or an error response.
Hangup(t, x) ==
  /\ x \in Leg /\ Known(x)
  /\ \/ dialog[x].invite /\ pending' = pending
     \/ dialog[x].start /\ pending' = pending
     \/ x \in pending /\ pending' = pending \ {x}
  /\ Moves(t, <<>>, <<On("EventCallEnd", x), On("DeleteDialog", x)>>)
  /\ dialog' = [dialog EXCEPT ![x].end = TRUE]
  /\ UNCHANGED <<calls, trans, rtp, used, recorded, joined, broken, lost>>

Answered(t, d) ==
  /\ d \in Callee /\ d \in pending /\ Known(d)
  /\ Moves(t, <<>>, <<On("EventCallStart", d)>>)
  /\ dialog' = [dialog EXCEPT ![d].start = TRUE] /\ pending' = pending \ {d}
  /\ UNCHANGED <<calls, trans, rtp, used, recorded, joined, broken, lost>>

Forwarded(t, c) ==
  /\ c \in Caller
  /\ \/ Moves(t, <<On("Forward", c)>>, <<>>) /\ dialog' = Without(dialog, {c})
     \/ Moves(t, <<On("Forward", c)>>, Refuse(c)) /\ UNCHANGED dialog
  /\ UNCHANGED <<pending, calls, trans, rtp, used, recorded, joined, broken, lost>>

PortMade(t, c) ==
  /\ c \in Caller
  /\ \/ Moves(t, <<On("CreatePort", c)>>, Refuse(c)) /\ UNCHANGED rtp
     \/ \E p \in Port \ DOMAIN rtp :
          /\ Moves(t, <<On("CreatePort", c)>>, <<Step("CreateCall", c, NoCallId, p)>>)
          /\ rtp' = With(rtp, p, FALSE)
  /\ UNCHANGED <<dialog, pending, calls, trans, used, recorded, joined, broken, lost>>

CallMade(t, c, p) ==
  /\ c \in Caller /\ p \in Port
  /\ \/ \E d \in Callee \ used :
          /\ Moves(t, <<Step("CreateCall", c, NoCallId, p)>>,
                   <<Step("Insert", c, d, p), On("StartCall", d)>>)
          /\ used' = used \cup {d} /\ dialog' = With(dialog, d, NewDialog(FALSE)) /\ UNCHANGED lost
     \/ /\ Moves(t, <<Step("CreateCall", c, NoCallId, p)>>, Refuse(c))
        /\ lost' = lost \cup {p} /\ UNCHANGED <<used, dialog>>
  /\ UNCHANGED <<pending, calls, trans, rtp, recorded, joined, broken>>

Inserted(t, c, d, p) ==
  /\ c \in Caller /\ d \in Callee /\ p \in Port
  /\ Moves(t, <<Step("Insert", c, d, p), On("StartCall", d)>>, <<On("StartCall", d)>>)
  /\ calls' = Pair(calls, c, d, p) /\ broken' = broken \cup InsertedLate(c, d)
  /\ UNCHANGED <<dialog, pending, trans, rtp, used, recorded, joined, lost>>

Called(t, d) ==
  /\ d \in Callee
  /\ Moves(t, <<On("StartCall", d)>>, <<>>) /\ pending' = pending \cup {d}
  /\ UNCHANGED <<dialog, calls, trans, rtp, used, recorded, joined, broken, lost>>

Saved(t, c) ==
  /\ c \in Caller
  /\ \/ Moves(t, Refuse(c), <<On("StopCall", c)>>)
     \/ \E x, y \in Leg : /\ x \in Caller <=> y \in Callee
                          /\ c = IF x \in Caller THEN x ELSE y
                          /\ Moves(t, Saves(x, y), Stops(x, y))
  /\ recorded' = recorded \cup ({c} \cap DOMAIN dialog)
  /\ UNCHANGED <<dialog, pending, calls, trans, rtp, used, joined, broken, lost>>

Stopped(t, y) ==
  /\ y \in Leg
  /\ \/ Moves(t, <<On("StopCall", y)>>, <<>>)
     \/ \E x \in Leg : (x \in Caller <=> y \in Callee) /\ Moves(t, Stops(x, y), Ends(x))
  /\ dialog' = AfterStop(y)
  /\ UNCHANGED <<pending, calls, trans, rtp, used, recorded, joined, broken, lost>>

Accepted(t, c, d) ==
  /\ c \in Caller /\ d \in Callee
  /\ Moves(t, <<Step("AcceptCall", c, d, 0)>>, <<>>)
  /\ IF Acceptable(c) THEN Accept(c) /\ joined' = joined \cup ({c} \cap Receiving)
     ELSE UNCHANGED <<dialog, joined>>
  /\ broken' = broken \cup (IF Live(c) THEN {} ELSE {c, d})
  /\ UNCHANGED <<pending, calls, trans, rtp, used, recorded, lost>>

StartEvent(t, d) ==
  /\ d \in Callee
  /\ \/ /\ d \in DOMAIN calls
        /\ Moves(t, <<On("EventCallStart", d)>>, <<Step("AcceptCall", calls[d].peer, d, 0)>>)
     \/ d \notin DOMAIN calls /\ Moves(t, <<On("EventCallStart", d)>>, <<On("TransStart", d)>>)
     \/ Moves(t, <<On("TransStart", d)>>, <<On("StopCall", d)>>)
  /\ UNCHANGED <<dialog, pending, calls, trans, rtp, used, recorded, joined, broken, lost>>

EndEvent(t, x) ==
  /\ x \in Leg
  /\ \/ /\ x \in DOMAIN calls
        /\ Moves(t, <<On("EventCallEnd", x), On("DeleteDialog", x)>>, Saves(x, calls[x].peer))
     \/ /\ x \notin DOMAIN calls
        /\ Moves(t, <<On("EventCallEnd", x), On("DeleteDialog", x)>>,
                 <<On("TransEnd", x), On("DeleteDialog", x)>>)
     \/ Moves(t, <<On("TransEnd", x), On("DeleteDialog", x)>>, <<On("DeleteDialog", x)>>)
  /\ UNCHANGED <<dialog, pending, calls, trans, rtp, used, recorded, joined, broken, lost>>

Deleted(t, x) ==
  /\ x \in Leg
  /\ Moves(t, Ends(x), <<On("DeleteDialog", x)>>)
  /\ SetStop(PortOf(calls, x)) /\ calls' = Without(calls, Both(calls, x))
  /\ UNCHANGED <<dialog, pending, trans, used, recorded, joined, broken, lost>>

Gone(t, x) ==
  /\ x \in Leg
  /\ Moves(t, <<On("DeleteDialog", x)>>, <<>>) /\ dialog' = Without(dialog, {x})
  /\ UNCHANGED <<pending, calls, trans, rtp, used, recorded, joined, broken, lost>>

Closed ==
  /\ \E p \in DOMAIN rtp : rtp[p] /\ rtp' = Without(rtp, {p})
  /\ UNCHANGED <<dialog, pending, calls, trans, todo, used, recorded, joined, broken, lost>>

\* A step of thread t.
PlainStep(t) ==
  \/ \E c \in Caller : Invited(t, c) \/ Forwarded(t, c) \/ PortMade(t, c) \/ Saved(t, c)
  \/ \E x \in Leg : Hangup(t, x) \/ Stopped(t, x) \/ EndEvent(t, x) \/ Deleted(t, x) \/ Gone(t, x)
  \/ \E d \in Callee : Answered(t, d) \/ Called(t, d) \/ StartEvent(t, d)
  \/ \E c \in Caller, p \in Port : CallMade(t, c, p)
  \/ \E c \in Caller, d \in Callee : Accepted(t, c, d)
  \/ \E c \in Caller, d \in Callee, p \in Port : Inserted(t, c, d, p)

LEMMA MessagesPlain ==
  ASSUME PlainCalls, TypeInv, NEW t \in Thread, NEW x \in Leg, Messages(t, x)
  PROVE  PlainStep(t)
  <1>1. pending \subseteq Callee
    BY DEF TypeInv
  <1>2. CASE RecvInvite(t, x)
    <2>1. x \in Caller \ used
      BY <1>2 DEF RecvInvite
    <2>2. EventIncomingCall(x) \subseteq {<<On("Forward", x)>>, <<On("CreatePort", x)>>, Refuse(x)}
      BY DEF EventIncomingCall, PlainCalls
    <2>3. Invited(t, x)
      BY <1>2, <2>1, <2>2 DEF RecvInvite, Invited, Begin, Moves, maps, history
    <2> QED
      BY <2>1, <2>3 DEF PlainStep
  <1>3. CASE RecvCancel(t, x) \/ RecvBye(t, x) \/ RecvError(t, x)
    <2>1. Hangup(t, x)
      BY <1>3 DEF RecvCancel, RecvBye, RecvError, Hangup, Begin, Moves, maps, history, Live, Connected, Known
    <2> QED
      BY <2>1 DEF PlainStep
  <1>4. CASE RecvOk(t, x)
    <2>1. x \in Callee /\ Answered(t, x)
      BY <1>1, <1>4 DEF RecvOk, Answered, Begin, Moves, maps, history
    <2> QED
      BY <2>1 DEF PlainStep
  <1>5. ~ RecvRefer(t, x)
    BY DEF RecvRefer, PlainCalls
  <1> QED
    BY <1>2, <1>3, <1>4, <1>5 DEF Messages

\* What is left of a handler after one of its sections.
LEMMA Continues ==
  ASSUME NEW t \in Thread, todo \in [Thread -> Seq(Task)]
  PROVE  /\ \A a : todo[t] = <<a>> /\ Continue(t, <<>>) => Moves(t, <<a>>, <<>>)
         /\ \A a, b : todo[t] = <<a>> /\ Continue(t, <<b>>) => Moves(t, <<a>>, <<b>>)
         /\ \A a, b, c : todo[t] = <<a>> /\ Continue(t, <<b, c>>) => Moves(t, <<a>>, <<b, c>>)
         /\ \A a, b : todo[t] = <<a, b>> /\ Continue(t, <<>>) => Moves(t, <<a, b>>, <<b>>)
         /\ \A a, b, c : todo[t] = <<a, b>> /\ Continue(t, <<c>>) => Moves(t, <<a, b>>, <<c, b>>)
         /\ \A a, b, c, d, e : todo[t] = <<a, b>> /\ Continue(t, <<c, d, e>>) =>
              Moves(t, <<a, b>>, <<c, d, e, b>>)
         /\ \A a, b, c : todo[t] = <<a, b, c>> /\ Continue(t, <<>>) => Moves(t, <<a, b, c>>, <<b, c>>)
         /\ \A a, b, c, d : todo[t] = <<a, b, c, d>> /\ Continue(t, <<>>) =>
              Moves(t, <<a, b, c, d>>, <<b, c, d>>)
  <1>1. ASSUME NEW r, NEW q, NEW more, todo[t] = r, Continue(t, more), more \o Tail(r) = q
        PROVE  Moves(t, r, q)
    BY <1>1 DEF Continue, Moves
  <1>2. ASSUME NEW a, todo[t] = <<a>>, NEW more, Continue(t, more), more \o <<>> = more
        PROVE  Moves(t, <<a>>, more)
    <2>1. Tail(<<a>>) = <<>>
      BY Tuples
    <2> QED
      BY <1>1, <1>2, <2>1
  <1>3. ASSUME NEW a, NEW b, todo[t] = <<a, b>>, NEW more, NEW q, Continue(t, more), more \o <<b>> = q
        PROVE  Moves(t, <<a, b>>, q)
    <2>1. Tail(<<a, b>>) = <<b>>
      BY Tuples
    <2> QED
      BY <1>1, <1>3, <2>1
  <1>4. ASSUME NEW a, NEW b, NEW c, todo[t] = <<a, b, c>>, Continue(t, <<>>)
        PROVE  Moves(t, <<a, b, c>>, <<b, c>>)
    <2>1. Tail(<<a, b, c>>) = <<b, c>> /\ <<>> \o <<b, c>> = <<b, c>>
      BY Tuples, Concats
    <2> QED
      BY <1>1, <1>4, <2>1
  <1>5. ASSUME NEW a, NEW b, NEW c, NEW d, todo[t] = <<a, b, c, d>>, Continue(t, <<>>)
        PROVE  Moves(t, <<a, b, c, d>>, <<b, c, d>>)
    <2>1. Tail(<<a, b, c, d>>) = <<b, c, d>> /\ <<>> \o <<b, c, d>> = <<b, c, d>>
      BY Tuples, Concats
    <2> QED
      BY <1>1, <1>5, <2>1
  <1>6. /\ <<>> \o <<>> = <<>>
        /\ \A b : <<b>> \o <<>> = <<b>> /\ <<>> \o <<b>> = <<b>>
        /\ \A b, c : <<b, c>> \o <<>> = <<b, c>> /\ <<b>> \o <<c>> = <<b, c>>
        /\ \A b, c, d, e : <<c, d, e>> \o <<b>> = <<c, d, e, b>>
    BY Concats
  <1>7. /\ \A a : todo[t] = <<a>> /\ Continue(t, <<>>) => Moves(t, <<a>>, <<>>)
        /\ \A a, b : todo[t] = <<a>> /\ Continue(t, <<b>>) => Moves(t, <<a>>, <<b>>)
        /\ \A a, b, c : todo[t] = <<a>> /\ Continue(t, <<b, c>>) => Moves(t, <<a>>, <<b, c>>)
    BY <1>2, <1>6
  <1>8. /\ \A a, b : todo[t] = <<a, b>> /\ Continue(t, <<>>) => Moves(t, <<a, b>>, <<b>>)
        /\ \A a, b, c : todo[t] = <<a, b>> /\ Continue(t, <<c>>) => Moves(t, <<a, b>>, <<c, b>>)
        /\ \A a, b, c, d, e : todo[t] = <<a, b>> /\ Continue(t, <<c, d, e>>) =>
             Moves(t, <<a, b>>, <<c, d, e, b>>)
    BY <1>3, <1>6
  <1> QED
    BY <1>4, <1>5, <1>7, <1>8

LEMMA HandlePlain ==
  ASSUME TypeInv, Handlers, Pairs, NEW t \in Thread, Handle(t)
  PROVE  PlainStep(t)
  <1> DEFINE s == todo[t]
  <1>1. s # <<>>
    BY DEF Handle, Does, DeleteDialog, StopCall, AcceptCall, SaveCdr, Insert, Delete,
       DeleteKeepPort, TransDelete, TransDeleteKeepPort, Forward, CreatePort, CreateCall, StartCall,
       EventCallStart, TransStart, ConnectTrans, EventCallEnd, TransEnd, EventBlindTransfer,
       CreateTransPort, StartTrans, TransInsert, EventTransfer, Reconnect, Redial, StartNew,
       StartCallNew, SelectToRing, SelectOld, InsertOld, DeleteOne, Join, UpdateOld
  <1>2. IsForm(s) /\ todo \in [Thread -> Seq(Task)] /\ DOMAIN trans = {}
    BY DEF Handlers, TypeInv, TodoOK
  <1>4. CASE Forward(t)
    <2>1. PICK c \in Caller : s = <<On("Forward", c)>>
      BY <1>1, <1>2, <1>4, FormOf DEF Forward, Does
    <2>2. Head(s).call = c
      BY <2>1, Tuples, OnFields
    <2>3. /\ Continue(t, <<>>) => Moves(t, <<On("Forward", c)>>, <<>>)
          /\ Continue(t, Refuse(c)) => Moves(t, <<On("Forward", c)>>, Refuse(c))
      BY <1>2, <2>1, Continues DEF Refuse
    <2>4. Forwarded(t, c)
      BY <1>4, <2>2, <2>3 DEF Forward, Forwarded, maps, history
    <2> QED
      BY <2>4 DEF PlainStep
  <1>5. CASE CreatePort(t)
    <2>1. PICK c \in Caller : s = <<On("CreatePort", c)>>
      BY <1>1, <1>2, <1>5, FormOf DEF CreatePort, Does
    <2>2. Head(s).call = c
      BY <2>1, Tuples, OnFields
    <2>3. Continue(t, Refuse(c)) => Moves(t, <<On("CreatePort", c)>>, Refuse(c))
      BY <1>2, <2>1, Continues DEF Refuse
    <2>4. \A a : Continue(t, <<a>>) => Moves(t, <<On("CreatePort", c)>>, <<a>>)
      BY <1>2, <2>1, Continues
    <2>5. PortMade(t, c)
      BY <1>5, <2>2, <2>3, <2>4 DEF CreatePort, PortMade, history
    <2> QED
      BY <2>5 DEF PlainStep
  <1>6. CASE CreateCall(t)
    <2>1. PICK c \in Caller, p \in Port : s = <<Step("CreateCall", c, NoCallId, p)>>
      BY <1>1, <1>2, <1>6, FormOf DEF CreateCall, Does
    <2>2. Head(s).call = c /\ Head(s).port = p
      BY <2>1, Tuples, OnFields
    <2>3. Continue(t, Refuse(c)) => Moves(t, <<Step("CreateCall", c, NoCallId, p)>>, Refuse(c))
      BY <1>2, <2>1, Continues DEF Refuse
    <2>4. \A a, b : Continue(t, <<a, b>>) => Moves(t, <<Step("CreateCall", c, NoCallId, p)>>, <<a, b>>)
      BY <1>2, <2>1, Continues
    <2>5. Callee \ used # {} => FreshCallId \in Callee \ used
      BY DEF FreshCallId
    <2>6. CallMade(t, c, p)
      BY <1>6, <2>2, <2>3, <2>4, <2>5 DEF CreateCall, CallMade, maps
    <2> QED
      BY <2>6 DEF PlainStep
  <1>7. CASE Insert(t)
    <2>1. PICK c \in Caller, d \in Callee, p \in Port : s = <<Step("Insert", c, d, p), On("StartCall", d)>>
      BY <1>1, <1>2, <1>7, FormOf DEF Insert, Does
    <2>2. Head(s).call = c /\ Head(s).peer = d /\ Head(s).port = p
      BY <2>1, Tuples, OnFields
    <2>3. Continue(t, <<>>) =>
            Moves(t, <<Step("Insert", c, d, p), On("StartCall", d)>>, <<On("StartCall", d)>>)
      BY <1>2, <2>1, Continues
    <2>4. Inserted(t, c, d, p)
      BY <1>7, <2>2, <2>3 DEF Insert, Inserted
    <2> QED
      BY <2>4 DEF PlainStep
  <1>8. CASE StartCall(t)
    <2>1. PICK d \in Callee : s = <<On("StartCall", d)>>
      BY <1>1, <1>2, <1>8, FormOf DEF StartCall, Does
    <2>2. Head(s).call = d
      BY <2>1, Tuples, OnFields
    <2>3. Continue(t, <<>>) => Moves(t, <<On("StartCall", d)>>, <<>>)
      BY <1>2, <2>1, Continues
    <2>4. Called(t, d)
      BY <1>8, <2>2, <2>3 DEF StartCall, Called, maps, history
    <2> QED
      BY <2>4 DEF PlainStep
  <1>9. CASE SaveCdr(t)
    <2>1. CASE \E c \in Caller : s = Refuse(c)
      <3>1. PICK c \in Caller : s = Refuse(c)
        BY <2>1
      <3>2. Head(s).call = c
        BY <3>1, Tuples, OnFields DEF Refuse
      <3>3. Continue(t, <<>>) => Moves(t, Refuse(c), <<On("StopCall", c)>>)
        BY <1>2, <3>1, Continues DEF Refuse
      <3>4. Saved(t, c)
        BY <1>9, <3>2, <3>3 DEF SaveCdr, Saved, maps
      <3> QED
        BY <3>4 DEF PlainStep
    <2>2. CASE \E x, y \in Leg : (x \in Caller <=> y \in Callee) /\ s = Saves(x, y)
      <3>1. PICK x \in Leg, y \in Leg : (x \in Caller <=> y \in Callee) /\ s = Saves(x, y)
        BY <2>2
      <3>2. Head(s).call = IF x \in Caller THEN x ELSE y
        BY <3>1, Tuples, OnFields DEF Saves
      <3>3. Continue(t, <<>>) => Moves(t, Saves(x, y), Stops(x, y))
        BY <1>2, <3>1, Continues DEF Saves, Stops
      <3>4. (IF x \in Caller THEN x ELSE y) \in Caller
        BY <3>1 DEF Leg
      <3>5. Saved(t, IF x \in Caller THEN x ELSE y)
        BY <1>9, <3>1, <3>2, <3>3, <3>4 DEF SaveCdr, Saved, maps
      <3> QED
        BY <3>4, <3>5 DEF PlainStep
    <2> QED
      BY <1>1, <1>2, <1>9, <2>1, <2>2, FormOf DEF SaveCdr, Does
  <1>10. CASE StopCall(t)
    <2>1. CASE \E x \in Leg : s = <<On("StopCall", x)>>
      <3>1. PICK x \in Leg : s = <<On("StopCall", x)>>
        BY <2>1
      <3>2. Head(s).call = x
        BY <3>1, Tuples, OnFields
      <3>3. Continue(t, <<>>) => Moves(t, <<On("StopCall", x)>>, <<>>)
        BY <1>2, <3>1, Continues
      <3>4. Stopped(t, x)
        BY <1>10, <3>2, <3>3 DEF StopCall, Stopped, maps, history
      <3> QED
        BY <3>4 DEF PlainStep
    <2>2. CASE \E x, y \in Leg : (x \in Caller <=> y \in Callee) /\ s = Stops(x, y)
      <3>1. PICK x \in Leg, y \in Leg : (x \in Caller <=> y \in Callee) /\ s = Stops(x, y)
        BY <2>2
      <3>2. Head(s).call = y
        BY <3>1, Tuples, OnFields DEF Stops
      <3>3. Continue(t, <<>>) => Moves(t, Stops(x, y), Ends(x))
        BY <1>2, <3>1, Continues DEF Stops, Ends
      <3>4. Stopped(t, y)
        BY <1>10, <3>1, <3>2, <3>3 DEF StopCall, Stopped, maps, history
      <3> QED
        BY <3>4 DEF PlainStep
    <2> QED
      BY <1>1, <1>2, <1>10, <2>1, <2>2, FormOf DEF StopCall, Does
  <1>11. CASE AcceptCall(t)
    <2>1. PICK c \in Caller, d \in Callee : s = <<Step("AcceptCall", c, d, 0)>>
      BY <1>1, <1>2, <1>11, FormOf DEF AcceptCall, Does
    <2>2. Head(s).call = c /\ Head(s).peer = d
      BY <2>1, Tuples, OnFields
    <2>3. Continue(t, <<>>) => Moves(t, <<Step("AcceptCall", c, d, 0)>>, <<>>)
      BY <1>2, <2>1, Continues
    <2>4. Accepted(t, c, d)
      BY <1>11, <2>2, <2>3 DEF AcceptCall, Accepted, maps
    <2> QED
      BY <2>4 DEF PlainStep
  <1>12. CASE EventCallStart(t)
    <2>1. PICK d \in Callee : s = <<On("EventCallStart", d)>>
      BY <1>1, <1>2, <1>12, FormOf DEF EventCallStart, Does
    <2>2. Head(s).call = d
      BY <2>1, Tuples, OnFields
    <2>3. \A a : Continue(t, <<a>>) => Moves(t, <<On("EventCallStart", d)>>, <<a>>)
      BY <1>2, <2>1, Continues
    <2>4. StartEvent(t, d)
      BY <1>12, <2>2, <2>3 DEF EventCallStart, StartEvent, maps, history
    <2> QED
      BY <2>4 DEF PlainStep
  <1>13. CASE TransStart(t)
    <2>1. PICK d \in Callee : s = <<On("TransStart", d)>>
      BY <1>1, <1>2, <1>13, FormOf DEF TransStart, Does
    <2>2. Head(s).call = d
      BY <2>1, Tuples, OnFields
    <2>3. \A a : Continue(t, <<a>>) => Moves(t, <<On("TransStart", d)>>, <<a>>)
      BY <1>2, <2>1, Continues
    <2>4. StartEvent(t, d)
      BY <1>2, <1>13, <2>2, <2>3 DEF TransStart, StartEvent, maps, history
    <2> QED
      BY <2>4 DEF PlainStep
  <1>14. CASE EventCallEnd(t)
    <2>1. PICK x \in Leg : s = <<On("EventCallEnd", x), On("DeleteDialog", x)>>
      BY <1>1, <1>2, <1>14, FormOf DEF EventCallEnd, Does
    <2>2. Head(s).call = x
      BY <2>1, Tuples, OnFields
    <2>3. Continue(t, <<On("TransEnd", x)>>) =>
            Moves(t, <<On("EventCallEnd", x), On("DeleteDialog", x)>>,
                  <<On("TransEnd", x), On("DeleteDialog", x)>>)
      BY <1>2, <2>1, Continues
    <2>4. \A a, b, e : Continue(t, <<a, b, e>>) =>
            Moves(t, <<On("EventCallEnd", x), On("DeleteDialog", x)>>, <<a, b, e, On("DeleteDialog", x)>>)
      BY <1>2, <2>1, Continues
    <2>5. x \in DOMAIN calls =>
            (IF calls[x].recv THEN x ELSE calls[x].peer) = (IF x \in Caller THEN x ELSE calls[x].peer)
      BY DEF Pairs
    <2>6. EndEvent(t, x)
      BY <1>14, <2>2, <2>3, <2>4, <2>5 DEF EventCallEnd, EndEvent, Saves, maps, history
    <2> QED
      BY <2>6 DEF PlainStep
  <1>15. CASE TransEnd(t)
    <2>1. PICK x \in Leg : s = <<On("TransEnd", x), On("DeleteDialog", x)>>
      BY <1>1, <1>2, <1>15, FormOf DEF TransEnd, Does
    <2>2. Head(s).call = x
      BY <2>1, Tuples, OnFields
    <2>3. Continue(t, <<>>) =>
            Moves(t, <<On("TransEnd", x), On("DeleteDialog", x)>>, <<On("DeleteDialog", x)>>)
      BY <1>2, <2>1, Continues
    <2>4. EndEvent(t, x)
      BY <1>2, <1>15, <2>2, <2>3 DEF TransEnd, EndEvent, maps
    <2> QED
      BY <2>4 DEF PlainStep
  <1>16. CASE Delete(t)
    <2>1. PICK x \in Leg : s = Ends(x)
      BY <1>1, <1>2, <1>16, FormOf DEF Delete, Does
    <2>2. Head(s).call = x
      BY <2>1, Tuples, OnFields DEF Ends
    <2>3. Continue(t, <<>>) => Moves(t, Ends(x), <<On("DeleteDialog", x)>>)
      BY <1>2, <2>1, Continues DEF Ends
    <2>4. Deleted(t, x)
      BY <1>16, <2>2, <2>3 DEF Delete, Deleted, history
    <2> QED
      BY <2>4 DEF PlainStep
  <1>17. CASE DeleteDialog(t)
    <2>1. PICK x \in Leg : s = <<On("DeleteDialog", x)>>
      BY <1>1, <1>2, <1>17, FormOf DEF DeleteDialog, Does
    <2>2. Head(s).call = x
      BY <2>1, Tuples, OnFields
    <2>3. Continue(t, <<>>) => Moves(t, <<On("DeleteDialog", x)>>, <<>>)
      BY <1>2, <2>1, Continues
    <2>4. Gone(t, x)
      BY <1>17, <2>2, <2>3 DEF DeleteDialog, Gone, maps, history
    <2> QED
      BY <2>4 DEF PlainStep
  <1>18. Head(s).do \in {"Forward", "CreatePort", "CreateCall", "Insert", "StartCall", "SaveCdr",
           "StopCall", "AcceptCall", "EventCallStart", "TransStart", "EventCallEnd", "TransEnd",
           "Delete", "DeleteDialog"}
    BY <1>1, <1>2, FormOf
  <1>19. ~ (\/ DeleteKeepPort(t) \/ TransDelete(t) \/ TransDeleteKeepPort(t) \/ ConnectTrans(t)
            \/ EventBlindTransfer(t) \/ CreateTransPort(t) \/ StartTrans(t) \/ TransInsert(t)
            \/ EventTransfer(t, "ScreenedTransfer", "Reconnect") \/ Reconnect(t)
            \/ EventTransfer(t, "UnscreenedTransfer", "Redial") \/ Redial(t) \/ StartNew(t)
            \/ StartCallNew(t) \/ SelectToRing(t) \/ SelectOld(t) \/ InsertOld(t) \/ DeleteOne(t)
            \/ Join(t) \/ UpdateOld(t))
    BY <1>18 DEF Does, DeleteKeepPort, TransDelete, TransDeleteKeepPort, ConnectTrans,
       EventBlindTransfer, CreateTransPort, StartTrans, TransInsert, EventTransfer, Reconnect,
       Redial, StartNew, StartCallNew, SelectToRing, SelectOld, InsertOld, DeleteOne, Join, UpdateOld
  <1> QED
    BY <1>4, <1>5, <1>6, <1>7, <1>8, <1>9, <1>10, <1>11, <1>12, <1>13, <1>14, <1>15, <1>16, <1>17,
       <1>19 DEF Handle

LEMMA PlainSteps ==
  ASSUME PlainCalls, TypeInv, Handlers, Pairs, [Next]_vars
  PROVE  (\E t \in Thread : PlainStep(t)) \/ Closed \/ UNCHANGED vars
  <1>1. ASSUME NEW p \in Port, RtpThread(p)
        PROVE  Closed
    BY <1>1 DEF RtpThread, Closed, history
  <1> QED
    BY <1>1, MessagesPlain, HandlePlain, Steps
-----------------------------------------------------------------------------
\* Handlers that begin with the same section differ in length.
LEMMA Different ==
  /\ \A x, y : <<x>> # <<>> /\ <<x, y>> # <<>>
  /\ \A a, x, y : <<a>> # Stops(x, y) /\ <<a>> # Saves(x, y) /\ <<a>> # Ends(x) /\ <<a>> # Refuse(y)
  /\ \A a, b, x, y : <<a, b>> # Saves(x, y) /\ <<a, b>> # Stops(x, y)
  /\ \A a, b, c : <<a>> # <<b, c>>
  /\ \A x, y : Stops(x, y) # <<>> /\ Saves(x, y) # <<>> /\ Ends(x) # <<>> /\ Refuse(x) # <<>>
  /\ \A x, y, z : Refuse(x) # Saves(y, z)
  BY DEF Stops, Saves, Ends, Refuse

\* A handler is that of one leg.
LEMMA Same ==
  /\ \A x, y : Ends(x) = Ends(y) => x = y
  /\ \A x, y, z, w : Stops(x, y) = Stops(z, w) => x = z /\ y = w
  /\ \A x, y, z, w : Saves(x, y) = Saves(z, w) => x = z /\ y = w
  /\ \A x, y : Refuse(x) = Refuse(y) => x = y
  <1>1. \A do, x, y : On(do, x) = On(do, y) => x = y
    BY OnFields
  <1>2. \A a, b, c, d : <<a, b>> = <<c, d>> => a = c
    OBVIOUS
  <1>3. \A a, b, c, d, e, f : <<a, b, c>> = <<d, e, f>> => a = d /\ b = e
    OBVIOUS
  <1>4. \A a, b, c, d, e, f, g, h : <<a, b, c, d>> = <<e, f, g, h>> => b = f /\ c = g
    OBVIOUS
  <1> QED
    BY <1>1, <1>2, <1>3, <1>4 DEF Stops, Saves, Ends, Refuse

\* What the first section tells.
LEMMA Firsts ==
  /\ \A x : Head(Ends(x)).do = "Delete" /\ Head(Ends(x)).call = x
  /\ \A x : Head(Refuse(x)).do = "SaveCdr" /\ Head(Refuse(x)).call = x
  /\ \A x, y : Head(Stops(x, y)).do = "StopCall" /\ Head(Stops(x, y)).call = y
  /\ \A x, y : Head(Saves(x, y)).do = "SaveCdr"
  /\ \A do, x : Head(<<On(do, x)>>).do = do /\ Head(<<On(do, x)>>).call = x
  /\ \A do, x, y, p : /\ Head(<<Step(do, x, y, p)>>).do = do /\ Head(<<Step(do, x, y, p)>>).call = x
                      /\ Head(<<Step(do, x, y, p)>>).peer = y /\ Head(<<Step(do, x, y, p)>>).port = p
  /\ \A do, x, e : Head(<<On(do, x), e>>).do = do /\ Head(<<On(do, x), e>>).call = x
  /\ \A do, x, y, p, e :
       /\ Head(<<Step(do, x, y, p), e>>).do = do /\ Head(<<Step(do, x, y, p), e>>).call = x
       /\ Head(<<Step(do, x, y, p), e>>).peer = y /\ Head(<<Step(do, x, y, p), e>>).port = p
  BY Tuples, OnFields DEF Stops, Saves, Ends, Refuse

\* What is in a handler.
LEMMA Within ==
  /\ \A x : Elements(Ends(x)) = {On("Delete", x), On("DeleteDialog", x)}
  /\ \A x : Elements(Refuse(x)) = {On("SaveCdr", x), On("StopCall", x)}
  /\ \A x, y : Elements(Stops(x, y)) = {On("StopCall", y), On("Delete", x), On("DeleteDialog", x)}
  /\ \A x, y : Elements(Saves(x, y)) =
       {On("SaveCdr", IF x \in Caller THEN x ELSE y), On("StopCall", y), On("Delete", x),
        On("DeleteDialog", x)}
  /\ Elements(<<>>) = {}
  /\ \A a : Elements(<<a>>) = {a}
  /\ \A a, b : Elements(<<a, b>>) = {a, b}
  BY ElementsOf DEF Stops, Saves, Ends, Refuse

\* Section by section, what a handler turns into, and by which step.
Turn(t, r, s) ==
  \/ \E c \in Caller :
       \/ /\ Invited(t, c) /\ c \notin used
          /\ r = <<>> /\ s \in {<<On("Forward", c)>>, <<On("CreatePort", c)>>, Refuse(c)}
       \/ Forwarded(t, c) /\ r = <<On("Forward", c)>> /\ s \in {<<>>, Refuse(c)}
       \/ /\ PortMade(t, c) /\ r = <<On("CreatePort", c)>>
          /\ s = Refuse(c) \/ \E p \in Port \ DOMAIN rtp : s = <<Step("CreateCall", c, NoCallId, p)>>
       \/ \E p \in Port :
            /\ CallMade(t, c, p) /\ r = <<Step("CreateCall", c, NoCallId, p)>>
            /\ \/ s = Refuse(c)
               \/ \E d \in Callee \ used : s = <<Step("Insert", c, d, p), On("StartCall", d)>>
       \/ Saved(t, c) /\ r = Refuse(c) /\ s = <<On("StopCall", c)>>
  \/ \E d \in Callee :
       \/ Answered(t, d) /\ r = <<>> /\ s = <<On("EventCallStart", d)>>
       \/ Called(t, d) /\ r = <<On("StartCall", d)>> /\ s = <<>>
       \/ /\ StartEvent(t, d) /\ r = <<On("EventCallStart", d)>> /\ d \in DOMAIN calls
          /\ s = <<Step("AcceptCall", calls[d].peer, d, 0)>>
       \/ /\ StartEvent(t, d) /\ r = <<On("EventCallStart", d)>> /\ d \notin DOMAIN calls
          /\ s = <<On("TransStart", d)>>
       \/ StartEvent(t, d) /\ r = <<On("TransStart", d)>> /\ s = <<On("StopCall", d)>>
       \/ \E c \in Caller : Accepted(t, c, d) /\ r = <<Step("AcceptCall", c, d, 0)>> /\ s = <<>>
       \/ \E c \in Caller, p \in Port :
            /\ Inserted(t, c, d, p)
            /\ r = <<Step("Insert", c, d, p), On("StartCall", d)>> /\ s = <<On("StartCall", d)>>
  \/ \E x \in Leg :
       \/ Hangup(t, x) /\ r = <<>> /\ s = <<On("EventCallEnd", x), On("DeleteDialog", x)>>
       \/ /\ EndEvent(t, x) /\ r = <<On("EventCallEnd", x), On("DeleteDialog", x)>>
          /\ x \in DOMAIN calls /\ s = Saves(x, calls[x].peer)
       \/ /\ EndEvent(t, x) /\ r = <<On("EventCallEnd", x), On("DeleteDialog", x)>>
          /\ x \notin DOMAIN calls /\ s = <<On("TransEnd", x), On("DeleteDialog", x)>>
       \/ /\ EndEvent(t, x) /\ r = <<On("TransEnd", x), On("DeleteDialog", x)>>
          /\ s = <<On("DeleteDialog", x)>>
       \/ \E y \in Leg :
            /\ x \in Caller <=> y \in Callee
            /\ \/ Saved(t, IF x \in Caller THEN x ELSE y) /\ r = Saves(x, y) /\ s = Stops(x, y)
               \/ Stopped(t, y) /\ r = Stops(x, y) /\ s = Ends(x)
       \/ Stopped(t, x) /\ r = <<On("StopCall", x)>> /\ s = <<>>
       \/ Deleted(t, x) /\ r = Ends(x) /\ s = <<On("DeleteDialog", x)>>
       \/ Gone(t, x) /\ r = <<On("DeleteDialog", x)>> /\ s = <<>>

LEMMA PlainTurns ==
  ASSUME NEW t \in Thread, PlainStep(t)
  PROVE  \E r, s : Moves(t, r, s) /\ Turn(t, r, s)
  <1>1. ASSUME NEW c \in Caller, Invited(t, c)
        PROVE  \E r, s : Moves(t, r, s) /\ Turn(t, r, s)
    BY <1>1 DEF Turn, Invited
  <1>2. ASSUME NEW c \in Caller, Forwarded(t, c)
        PROVE  \E r, s : Moves(t, r, s) /\ Turn(t, r, s)
    BY <1>2 DEF Turn, Forwarded
  <1>3. ASSUME NEW c \in Caller, PortMade(t, c)
        PROVE  \E r, s : Moves(t, r, s) /\ Turn(t, r, s)
    BY <1>3 DEF Turn, PortMade
  <1>4. ASSUME NEW x \in Leg, Hangup(t, x)
        PROVE  \E r, s : Moves(t, r, s) /\ Turn(t, r, s)
    BY <1>4 DEF Turn, Hangup
  <1>5. ASSUME NEW x \in Leg, Stopped(t, x)
        PROVE  \E r, s : Moves(t, r, s) /\ Turn(t, r, s)
    BY <1>5 DEF Turn, Stopped
  <1>6. ASSUME NEW x \in Leg, EndEvent(t, x)
        PROVE  \E r, s : Moves(t, r, s) /\ Turn(t, r, s)
    BY <1>6 DEF Turn, EndEvent
  <1>7. ASSUME NEW x \in Leg, Deleted(t, x) \/ Gone(t, x)
        PROVE  \E r, s : Moves(t, r, s) /\ Turn(t, r, s)
    BY <1>7 DEF Turn, Deleted, Gone
  <1>8. ASSUME NEW d \in Callee, Answered(t, d) \/ Called(t, d)
        PROVE  \E r, s : Moves(t, r, s) /\ Turn(t, r, s)
    BY <1>8 DEF Turn, Answered, Called
  <1>9. ASSUME NEW d \in Callee, StartEvent(t, d)
        PROVE  \E r, s : Moves(t, r, s) /\ Turn(t, r, s)
    BY <1>9 DEF Turn, StartEvent
  <1>10. ASSUME NEW c \in Caller, NEW p \in Port, CallMade(t, c, p)
         PROVE  \E r, s : Moves(t, r, s) /\ Turn(t, r, s)
    <2>1. CASE Moves(t, <<Step("CreateCall", c, NoCallId, p)>>, Refuse(c))
      BY <1>10, <2>1 DEF Turn
    <2>2. ASSUME NEW d \in Callee \ used,
                 Moves(t, <<Step("CreateCall", c, NoCallId, p)>>,
                       <<Step("Insert", c, d, p), On("StartCall", d)>>)
          PROVE  \E r, s : Moves(t, r, s) /\ Turn(t, r, s)
      BY <1>10, <2>2 DEF Turn
    <2> QED
      BY <1>10, <2>1, <2>2 DEF CallMade
  <1>11. ASSUME NEW c \in Caller, NEW d \in Callee, Accepted(t, c, d)
         PROVE  \E r, s : Moves(t, r, s) /\ Turn(t, r, s)
    BY <1>11 DEF Turn, Accepted
  <1>12. ASSUME NEW c \in Caller, NEW d \in Callee, NEW p \in Port, Inserted(t, c, d, p)
         PROVE  \E r, s : Moves(t, r, s) /\ Turn(t, r, s)
    BY <1>12 DEF Turn, Inserted
  <1>13. ASSUME NEW c \in Caller, Saved(t, c)
         PROVE  \E r, s : Moves(t, r, s) /\ Turn(t, r, s)
    <2>1. CASE Moves(t, Refuse(c), <<On("StopCall", c)>>)
      BY <1>13, <2>1 DEF Turn
    <2>2. ASSUME NEW x \in Leg, NEW y \in Leg, x \in Caller <=> y \in Callee,
                 c = IF x \in Caller THEN x ELSE y, Moves(t, Saves(x, y), Stops(x, y))
          PROVE  \E r, s : Moves(t, r, s) /\ Turn(t, r, s)
      BY <1>13, <2>2 DEF Turn
    <2> QED
      BY <1>13, <2>1, <2>2 DEF Saved
  <1> QED
    BY <1>1, <1>2, <1>3, <1>4, <1>5, <1>6, <1>7, <1>8, <1>9, <1>10, <1>11, <1>12, <1>13 DEF PlainStep

LEMMA AfterMove ==
  ASSUME TypeInv, NEW t \in Thread, NEW r, NEW s, Moves(t, r, s)
  PROVE  /\ todo[t] = r /\ todo'[t] = s /\ \A u \in Thread \ {t} : todo'[u] = todo[u]
         /\ Work(t) = Elements(r) /\ Work(t)' = Elements(s)
         /\ \A u \in Thread \ {t} : Work(u)' = Work(u)
         /\ \A e : e \in AllWork' <=> e \in Elements(s) \/ \E u \in Thread \ {t} : e \in Work(u)
         /\ \A e : e \in AllWork <=> e \in Elements(r) \/ \E u \in Thread \ {t} : e \in Work(u)
  <1>1. todo \in [Thread -> Seq(Task)]
    BY DEF TypeInv, TodoOK
  <1>2. todo[t] = r /\ todo'[t] = s /\ \A u \in Thread \ {t} : todo'[u] = todo[u]
    BY <1>1 DEF Moves
  <1>3. /\ Work(t) = Elements(r) /\ Work(t)' = Elements(s)
        /\ \A u \in Thread \ {t} : Work(u)' = Work(u)
    BY <1>2 DEF Work, Elements
  <1> QED
    BY <1>2, <1>3 DEF AllWork
-----------------------------------------------------------------------------
\* Where each handler comes from.

\* A thread handles an INVITE from RecvInvite on.
LEMMA SetupTurn ==
  ASSUME NEW t, NEW r, NEW s, Turn(t, r, s), NEW c \in Caller, s \in SetupForms(c)
  PROVE  r \in SetupForms(c) \/ Invited(t, c)
  <1>1. /\ Head(s).do \in {"Forward", "CreatePort", "CreateCall", "Insert"} /\ Head(s).call = c
        \/ s = Refuse(c) \/ s = <<On("StopCall", c)>>
    BY Firsts DEF SetupForms
  <1>2. s # <<>> /\ Caller \cap Callee = {}
    BY Different, SipServerCallsAssumption DEF SetupForms
  <1> QED
    BY <1>1, <1>2, Firsts, Different, Same DEF Turn, SetupForms

LEMMA InsertsTurn ==
  ASSUME NEW t, NEW r, NEW s, Turn(t, r, s), NEW c, NEW d, NEW p,
         s = <<Step("Insert", c, d, p), On("StartCall", d)>>
  PROVE  CallMade(t, c, p) /\ d \in Callee \ used /\ r = <<Step("CreateCall", c, NoCallId, p)>>
  <1>1. Head(s).do = "Insert" /\ Head(s).call = c /\ Head(s).peer = d /\ Head(s).port = p /\ s # <<>>
    BY Firsts, Different
  <1> QED
    BY <1>1, Firsts, Different DEF Turn

LEMMA CreatesTurn ==
  ASSUME NEW t, NEW r, NEW s, Turn(t, r, s), NEW c, NEW p, s = <<Step("CreateCall", c, NoCallId, p)>>
  PROVE  PortMade(t, c) /\ p \in Port \ DOMAIN rtp
  <1>1. Head(s).do = "CreateCall" /\ Head(s).call = c /\ Head(s).port = p /\ s # <<>>
    BY Firsts, Different
  <1> QED
    BY <1>1, Firsts, Different DEF Turn

\* The leg called is started by its INVITE or by its answer.
LEMMA StartTurn ==
  ASSUME NEW t, NEW r, NEW s, Turn(t, r, s), NEW d \in Callee, s \in StartForms(d)
  PROVE  /\ \/ r \in StartForms(d) /\ r # <<On("StartCall", d)>>
            \/ Answered(t, d)
            \/ /\ s = <<On("StartCall", d)>>
               /\ \E c \in Caller, p \in Port :
                    /\ Inserted(t, c, d, p) /\ r = <<Step("Insert", c, d, p), On("StartCall", d)>>
  <1>1. \/ Head(s).do \in {"StartCall", "EventCallStart", "TransStart"} /\ Head(s).call = d
        \/ s = <<On("StopCall", d)>>
        \/ Head(s).do = "AcceptCall" /\ Head(s).peer = d
    BY Firsts DEF StartForms
  <1>2. s # <<>> /\ Caller \cap Callee = {}
    BY Different, SipServerCallsAssumption DEF StartForms
  <1>3. CASE s = <<On("StopCall", d)>>
    <2>1. Head(s).do = "StopCall" /\ Head(s).call = d
      BY <1>3, Firsts
    <2>2. r = <<On("TransStart", d)>>
      BY <1>2, <1>3, <2>1, Firsts, Different DEF Turn
    <2>3. <<On("TransStart", d)>> # <<On("StartCall", d)>>
      BY Firsts
    <2> QED
      BY <2>2, <2>3 DEF StartForms
  <1>4. CASE Head(s).do \in {"StartCall", "EventCallStart", "TransStart"} /\ Head(s).call = d
    <2>1. <<On("EventCallStart", d)>> # <<On("StartCall", d)>>
      BY Firsts
    <2>2. \/ Answered(t, d)
          \/ r = <<On("EventCallStart", d)>>
          \/ /\ s = <<On("StartCall", d)>>
             /\ \E c \in Caller, p \in Port :
                  /\ Inserted(t, c, d, p) /\ r = <<Step("Insert", c, d, p), On("StartCall", d)>>
      BY <1>2, <1>4, Firsts, Different DEF Turn
    <2> QED
      BY <2>1, <2>2 DEF StartForms
  <1>5. CASE Head(s).do = "AcceptCall" /\ Head(s).peer = d
    <2>1. <<On("EventCallStart", d)>> # <<On("StartCall", d)>>
      BY Firsts
    <2>2. r = <<On("EventCallStart", d)>>
      BY <1>2, <1>5, Firsts, Different DEF Turn
    <2> QED
      BY <2>1, <2>2 DEF StartForms
  <1> QED
    BY <1>1, <1>3, <1>4, <1>5

LEMMA AcceptTurn ==
  ASSUME NEW t, NEW r, NEW s, Turn(t, r, s), NEW c, NEW d, s = <<Step("AcceptCall", c, d, 0)>>
  PROVE  StartEvent(t, d) /\ d \in DOMAIN calls \cap Callee /\ c = calls[d].peer
  <1>1. Head(s).do = "AcceptCall" /\ Head(s).call = c /\ Head(s).peer = d /\ s # <<>>
    BY Firsts, Different
  <1> QED
    BY <1>1, Firsts, Different DEF Turn

LEMMA TransTurn ==
  ASSUME NEW t, NEW r, NEW s, Turn(t, r, s), NEW d \in Callee,
         s \in {<<On("TransStart", d)>>, <<On("StopCall", d)>>}
  PROVE  StartEvent(t, d) /\ (r = <<On("TransStart", d)>> \/ d \notin DOMAIN calls)
  <1>1. Head(s).do \in {"TransStart", "StopCall"} /\ Head(s).call = d /\ s # <<>>
        /\ Caller \cap Callee = {}
    BY Firsts, Different, SipServerCallsAssumption
  <1> QED
    BY <1>1, Firsts, Different DEF Turn

LEMMA EndTurn ==
  ASSUME NEW t, NEW r, NEW s, Turn(t, r, s), NEW x,
         s \in {<<On("TransEnd", x), On("DeleteDialog", x)>>, <<On("DeleteDialog", x)>>}
  PROVE  \/ r = <<On("TransEnd", x), On("DeleteDialog", x)>> /\ EndEvent(t, x)
         \/ x \notin DOMAIN calls /\ EndEvent(t, x)
         \/ Deleted(t, x)
  <1>1. Head(s).do \in {"TransEnd", "DeleteDialog"} /\ Head(s).call = x /\ s # <<>>
    BY Firsts, Different
  <1> QED
    BY <1>1, Firsts, Different DEF Turn

LEMMA StopsTurn ==
  ASSUME NEW t, NEW r, NEW s, Turn(t, r, s), NEW x, NEW y
  PROVE  /\ s = Saves(x, y) => EndEvent(t, x) /\ x \in DOMAIN calls /\ y = calls[x].peer
         /\ s = Stops(x, y) => /\ r = Saves(x, y) /\ x \in Leg /\ y \in Leg /\ (x \in Caller <=> y \in Callee)
                               /\ Saved(t, IF x \in Caller THEN x ELSE y)
         /\ s = Ends(x) => \E z \in Leg : r = Stops(x, z) /\ Stopped(t, z) /\ (x \in Caller <=> z \in Callee)
  <1>1. ASSUME s = Saves(x, y)
        PROVE  EndEvent(t, x) /\ x \in DOMAIN calls /\ y = calls[x].peer
    <2>1. Head(s).do = "SaveCdr" /\ s # <<>>
      BY <1>1, Firsts, Different
    <2> QED
      BY <1>1, <2>1, Firsts, Different, Same DEF Turn
  <1>2. ASSUME s = Stops(x, y)
        PROVE  /\ r = Saves(x, y) /\ x \in Leg /\ y \in Leg /\ (x \in Caller <=> y \in Callee)
               /\ Saved(t, IF x \in Caller THEN x ELSE y)
    <2>1. Head(s).do = "StopCall" /\ s # <<>>
      BY <1>2, Firsts, Different
    <2> QED
      BY <1>2, <2>1, Firsts, Different, Same DEF Turn
  <1>3. ASSUME s = Ends(x)
        PROVE  \E z \in Leg : r = Stops(x, z) /\ Stopped(t, z) /\ (x \in Caller <=> z \in Callee)
    <2>1. Head(s).do = "Delete" /\ s # <<>>
      BY <1>3, Firsts, Different
    <2> QED
      BY <1>3, <2>1, Firsts, Different, Same DEF Turn
  <1> QED
    BY <1>1, <1>2, <1>3

\* The sections of a handler are done in their order.
LEMMA OnlyFirst ==
  ASSUME NEW t, NEW r, NEW s, Turn(t, r, s), NEW e \in Elements(r), e \notin Elements(s)
  PROVE  e = Head(r) /\ r # <<>>
  <1>1. /\ \A a : Head(<<a>>) = a
        /\ \A a, b : Head(<<a, b>>) = a
        /\ \A x : Head(Ends(x)) = On("Delete", x) /\ Head(Refuse(x)) = On("SaveCdr", x)
        /\ \A x, y : Head(Stops(x, y)) = On("StopCall", y)
        /\ \A x, y : Head(Saves(x, y)) = On("SaveCdr", IF x \in Caller THEN x ELSE y)
    BY Tuples DEF Ends, Refuse, Stops, Saves
  <1> QED
    BY <1>1, Within DEF Turn

\* Which step does a section.
LEMMA FirstDone ==
  ASSUME NEW t, NEW r, NEW s, Turn(t, r, s), r # <<>>, NEW x
  PROVE  /\ Head(r) = On("DeleteDialog", x) => Gone(t, x)
         /\ Head(r) = On("StopCall", x) => Stopped(t, x)
         /\ Head(r) = On("StartCall", x) => Called(t, x)
         /\ Head(r) = On("Delete", x) => Deleted(t, x)
         /\ \A c : Head(r) = Step("AcceptCall", c, x, 0) => Accepted(t, c, x)
         /\ Head(r) = On("TransStart", x) => On("StopCall", x) \in Elements(s)
         /\ Head(r) = On("EventCallStart", x) =>
              \/ x \in DOMAIN calls /\ Step("AcceptCall", calls[x].peer, x, 0) \in Elements(s)
              \/ On("TransStart", x) \in Elements(s)
  <1>1. ASSUME Head(r).do = "DeleteDialog", Head(r).call = x
        PROVE  Gone(t, x)
    BY <1>1, Firsts DEF Turn
  <1>2. ASSUME Head(r).do = "StopCall", Head(r).call = x
        PROVE  Stopped(t, x)
    BY <1>2, Firsts DEF Turn
  <1>3. ASSUME Head(r).do = "StartCall", Head(r).call = x
        PROVE  Called(t, x)
    BY <1>3, Firsts DEF Turn
  <1>4. ASSUME Head(r).do = "Delete", Head(r).call = x
        PROVE  Deleted(t, x)
    BY <1>4, Firsts DEF Turn
  <1>5. ASSUME NEW c, Head(r).do = "AcceptCall", Head(r).call = c, Head(r).peer = x
        PROVE  Accepted(t, c, x)
    BY <1>5, Firsts DEF Turn
  <1>6. ASSUME Head(r).do = "TransStart", Head(r).call = x
        PROVE  On("StopCall", x) \in Elements(s)
    BY <1>6, Firsts, Within DEF Turn
  <1>7. ASSUME Head(r).do = "EventCallStart", Head(r).call = x
        PROVE  \/ x \in DOMAIN calls /\ Step("AcceptCall", calls[x].peer, x, 0) \in Elements(s)
               \/ On("TransStart", x) \in Elements(s)
    BY <1>7, Firsts, Within DEF Turn
  <1> QED
    BY <1>1, <1>2, <1>3, <1>4, <1>5, <1>6, <1>7, OnFields

\* What is due stays due until its step.
LEMMA DueStays ==
  ASSUME TypeInv, NEW t \in Thread, NEW r, NEW s, Moves(t, r, s), Turn(t, r, s), NEW e \in AllWork
  PROVE  e \in AllWork' \/ (e = Head(r) /\ r # <<>> /\ e \notin Elements(s))
  BY AfterMove, OnlyFirst

\* Who adds a section that ends a leg or a call.
LEMMA NewDue ==
  ASSUME Pairs, NEW t, NEW r, NEW s, Turn(t, r, s), NEW x
  PROVE  /\ On("DeleteDialog", x) \in Elements(s) => On("DeleteDialog", x) \in Elements(r) \/ Hangup(t, x)
         /\ On("Delete", x) \in Elements(s) =>
              On("Delete", x) \in Elements(r) \/ (EndEvent(t, x) /\ x \in DOMAIN calls)
         /\ x \in Caller /\ On("StopCall", x) \in Elements(s) /\ On("SaveCdr", x) \notin Elements(s) =>
              Saved(t, x) \/ (On("StopCall", x) \in Elements(r) /\ On("SaveCdr", x) \notin Elements(r))
  <1>0. \A do, c, p, q, do2, y : Step(do, c, p, q) = On(do2, y) => do = do2 /\ c = y
    BY OnFields
  <1>1. \A do, y, do2, z : On(do, y) = On(do2, z) => do = do2 /\ y = z
    BY OnFields
  <1>2. On("DeleteDialog", x) \in Elements(s) => On("DeleteDialog", x) \in Elements(r) \/ Hangup(t, x)
    BY <1>0, <1>1, Within DEF Turn
  <1>3. On("Delete", x) \in Elements(s) =>
          On("Delete", x) \in Elements(r) \/ (EndEvent(t, x) /\ x \in DOMAIN calls)
    BY <1>0, <1>1, Within DEF Turn
  <1>4. x \in Caller /\ On("StopCall", x) \in Elements(s) /\ On("SaveCdr", x) \notin Elements(s) =>
          Saved(t, x) \/ (On("StopCall", x) \in Elements(r) /\ On("SaveCdr", x) \notin Elements(r))
    <2>1. \A y \in DOMAIN calls : y \notin Caller <=> calls[y].peer \in Caller
      BY SipServerCallsAssumption DEF Pairs
    <2>2. ASSUME NEW y \in DOMAIN calls, s = Saves(y, calls[y].peer), On("StopCall", x) \in Elements(s), x \in Caller
          PROVE  On("SaveCdr", x) \in Elements(s)
      BY <1>1, <2>1, <2>2, Within
    <2>3. Caller \cap Callee = {}
      BY SipServerCallsAssumption
    <2> QED
      BY <1>0, <1>1, <2>2, <2>3, Within DEF Turn
  <1> QED
    BY <1>2, <1>3, <1>4

\* The legs a handler knows.
Mentioned(s) == {e.call : e \in Elements(s)} \cup {e.peer : e \in Elements(s)}

LEMMA NewMention ==
  ASSUME NEW t, NEW r, NEW s, Turn(t, r, s), NEW x \in Mentioned(s)
  PROVE  \/ x \in Mentioned(r) \/ x = NoCallId
         \/ Invited(t, x) \/ Hangup(t, x) \/ Answered(t, x)
         \/ /\ x \in Callee \ used
            /\ \E c \in Caller, p \in Port : s = <<Step("Insert", c, x, p), On("StartCall", x)>>
         \/ \E y \in DOMAIN calls : x = calls[y].peer
  <1>1. \A a : Mentioned(<<a>>) = {a.call, a.peer}
    BY Within DEF Mentioned
  <1>2. \A a, b : Mentioned(<<a, b>>) = {a.call, a.peer, b.call, b.peer}
    BY Within DEF Mentioned
  <1>3. Mentioned(<<>>) = {}
    BY Within DEF Mentioned
  <1>4. \A do, c : On(do, c).call = c /\ On(do, c).peer = NoCallId
    BY OnFields
  <1>5. \A do, c, y, p : Step(do, c, y, p).call = c /\ Step(do, c, y, p).peer = y
    BY OnFields
  <1>6. \A c : Mentioned(Refuse(c)) = {c, NoCallId} /\ Mentioned(Ends(c)) = {c, NoCallId}
    BY <1>2, <1>4 DEF Refuse, Ends
  <1>7. \A c, d : Mentioned(Stops(c, d)) = {c, d, NoCallId}
    BY <1>4, Within DEF Mentioned
  <1>8. \A c, d : Mentioned(Saves(c, d)) = {c, d, NoCallId}
    BY <1>4, Within DEF Mentioned
  <1> QED
    BY <1>1, <1>2, <1>3, <1>4, <1>5, <1>6, <1>7, <1>8 DEF Turn

\* Which step changes what besides the handlers, and the handler it was in.
Frame(t, r, s) ==
  /\ \/ calls' = calls /\ broken' = broken
     \/ \E c \in Caller, d \in Callee, p \in Port :
          /\ Inserted(t, c, d, p) /\ r = <<Step("Insert", c, d, p), On("StartCall", d)>>
          /\ s = <<On("StartCall", d)>>
     \/ \E x \in Leg : Deleted(t, x) /\ r = Ends(x) /\ s = <<On("DeleteDialog", x)>> /\ broken' = broken
     \/ \E c \in Caller, d \in Callee :
          Accepted(t, c, d) /\ r = <<Step("AcceptCall", c, d, 0)>> /\ calls' = calls
  /\ \/ used' = used
     \/ \E c \in Caller \ used : Invited(t, c) /\ used' = used \cup {c}
     \/ \E d \in Callee \ used : used' = used \cup {d} /\ \E c, p : CallMade(t, c, p)
  /\ \/ pending' = pending
     \/ \E d \in Callee : Called(t, d) /\ r = <<On("StartCall", d)>> /\ pending' = pending \cup {d}
     \/ \E x \in Leg : (Hangup(t, x) \/ Answered(t, x)) /\ pending' = pending \ {x}
  /\ \/ joined' = joined
     \/ \E c \in Caller, d \in Callee : /\ Accepted(t, c, d) /\ joined' = joined \cup ({c} \cap Receiving)
                                       /\ Acceptable(c) /\ r = <<Step("AcceptCall", c, d, 0)>>
  /\ recorded \subseteq recorded' /\ lost \subseteq lost' /\ broken \subseteq broken' /\ trans' = trans
  /\ rtp' = rtp \/ (\E c \in Caller : PortMade(t, c)) \/ (\E x \in Leg : Deleted(t, x) /\ r = Ends(x))

LEMMA Frames ==
  ASSUME NEW t, NEW r, NEW s, Turn(t, r, s)
  PROVE  Frame(t, r, s)
  <1>1. ASSUME NEW c \in Caller, c \notin used, Invited(t, c)
        PROVE  Frame(t, r, s)
    BY <1>1 DEF Frame, Invited
  <1>2. ASSUME NEW c \in Caller, Forwarded(t, c) \/ PortMade(t, c) \/ Saved(t, c)
        PROVE  Frame(t, r, s)
    BY <1>2 DEF Frame, Forwarded, PortMade, Saved
  <1>3. ASSUME NEW c \in Caller, NEW p \in Port, CallMade(t, c, p)
        PROVE  Frame(t, r, s)
    <2>1. \/ used' = used
          \/ \E d \in Callee \ used : used' = used \cup {d} /\ \E b, q : CallMade(t, b, q)
      BY <1>3 DEF CallMade
    <2> QED
      BY <1>3, <2>1 DEF Frame, CallMade
  <1>4. ASSUME NEW d \in Callee, Answered(t, d)
        PROVE  Frame(t, r, s)
    BY <1>4, Legs DEF Frame, Answered
  <1>5. ASSUME NEW d \in Callee, Called(t, d), r = <<On("StartCall", d)>>
        PROVE  Frame(t, r, s)
    BY <1>5 DEF Frame, Called
  <1>6. ASSUME NEW d \in Callee, StartEvent(t, d)
        PROVE  Frame(t, r, s)
    BY <1>6 DEF Frame, StartEvent
  <1>7. ASSUME NEW c \in Caller, NEW d \in Callee, Accepted(t, c, d), r = <<Step("AcceptCall", c, d, 0)>>
        PROVE  Frame(t, r, s)
    <2>1. joined' = joined \/ (Acceptable(c) /\ joined' = joined \cup ({c} \cap Receiving))
      BY <1>7 DEF Accepted
    <2>2. /\ UNCHANGED <<pending, calls, trans, rtp, used, recorded, lost>>
          /\ broken \subseteq broken'
      BY <1>7 DEF Accepted
    <2> QED
      BY <1>7, <2>1, <2>2 DEF Frame
  <1>8. ASSUME NEW c \in Caller, NEW d \in Callee, NEW p \in Port, Inserted(t, c, d, p),
               r = <<Step("Insert", c, d, p), On("StartCall", d)>>, s = <<On("StartCall", d)>>
        PROVE  Frame(t, r, s)
    <2>1. UNCHANGED <<pending, trans, rtp, used, recorded, joined, lost>> /\ broken \subseteq broken'
      BY <1>8 DEF Inserted
    <2> QED
      BY <1>8, <2>1 DEF Frame
  <1>9. ASSUME NEW x \in Leg, Hangup(t, x)
        PROVE  Frame(t, r, s)
    BY <1>9 DEF Frame, Hangup
  <1>10. ASSUME NEW x \in Leg, Stopped(t, x) \/ EndEvent(t, x) \/ Gone(t, x)
         PROVE  Frame(t, r, s)
    BY <1>10 DEF Frame, Stopped, EndEvent, Gone
  <1>11. ASSUME NEW x \in Leg, Deleted(t, x), r = Ends(x), s = <<On("DeleteDialog", x)>>
         PROVE  Frame(t, r, s)
    <2>1. UNCHANGED <<pending, trans, used, recorded, joined, broken, lost>>
      BY <1>11 DEF Deleted
    <2> QED
      BY <1>11, <2>1 DEF Frame
  <1>12. ASSUME NEW x \in Leg, NEW y \in Leg, x \in Caller <=> y \in Callee
         PROVE  (IF x \in Caller THEN x ELSE y) \in Caller
    BY <1>12 DEF Leg
  <1> QED
    BY <1>1, <1>2, <1>3, <1>4, <1>5, <1>6, <1>7, <1>8, <1>9, <1>10, <1>11, <1>12 DEF Turn

\* Which step changes a dialog.
StopsLeg(t, r, s, x) ==
  /\ Stopped(t, x) /\ x \in Leg
  /\ \/ r = <<On("StopCall", x)>> /\ s = <<>>
     \/ \E y \in Leg : (y \in Caller <=> x \in Callee) /\ r = Stops(y, x) /\ s = Ends(y)

DialogMade(t, s, x) ==
  \/ x \in Caller \ used /\ Invited(t, x) /\ dialog'[x] = NewDialog(TRUE) /\ used' = used \cup {x}
  \/ /\ x \in Callee \ used /\ dialog'[x] = NewDialog(FALSE) /\ used' = used \cup {x}
     /\ \E c \in Caller, p \in Port : s = <<Step("Insert", c, x, p), On("StartCall", x)>>

DialogLost(t, r, s, x) ==
  \/ x \in Caller /\ r = <<On("Forward", x)>>
  \/ StopsLeg(t, r, s, x)
  \/ Gone(t, x) /\ r = <<On("DeleteDialog", x)>>

DialogKept(t, x) ==
  /\ dialog[x].start => dialog'[x].start
  /\ dialog[x].end => dialog'[x].end
  /\ dialog[x].cancel => dialog'[x].cancel
  /\ dialog'[x].end => dialog[x].end \/ Hangup(t, x)
  /\ dialog'[x].start => dialog[x].start \/ Answered(t, x) \/ (x \in Caller /\ dialog'[x].invite = FALSE)
  /\ \/ dialog'[x].invite = dialog[x].invite
     \/ dialog'[x].invite = FALSE /\ dialog'[x].start /\ x \in Caller

DialogFrame(t, r, s) ==
  \A x :
    /\ Known(x)' /\ ~ Known(x) => DialogMade(t, s, x)
    /\ Known(x) /\ ~ Known(x)' => DialogLost(t, r, s, x)
    /\ Known(x) /\ Known(x)' => DialogKept(t, x)

LEMMA SameDialog ==
  ASSUME NEW t, NEW x, Known(x), Known(x)', dialog'[x] = dialog[x]
  PROVE  DialogKept(t, x)
  BY DEF DialogKept

LEMMA DialogFrames ==
  ASSUME TypeInv, Handlers, NEW t \in Thread, NEW r, NEW s, Moves(t, r, s), Turn(t, r, s)
  PROVE  DialogFrame(t, r, s)
  <1>1. ASSUME dialog' = dialog
        PROVE  DialogFrame(t, r, s)
    BY <1>1, SameDialog DEF DialogFrame, Known
  <1>2. todo'[t] = s
    BY AfterMove
  <1>3. ASSUME NEW c \in Caller \ used, Invited(t, c)
        PROVE  DialogFrame(t, r, s)
    <2>1. dialog' = With(dialog, c, NewDialog(TRUE)) /\ ~ Known(c) /\ used' = used \cup {c}
      BY <1>3 DEF Invited, Handlers, Known
    <2>2. /\ DOMAIN dialog' = DOMAIN dialog \cup {c} /\ dialog'[c] = NewDialog(TRUE)
          /\ \A x \in DOMAIN dialog : dialog'[x] = dialog[x]
      BY <2>1 DEF With, Known
    <2> QED
      BY <1>3, <2>1, <2>2, SameDialog DEF DialogFrame, DialogMade, Known
  <1>4. ASSUME NEW c \in Caller, Forwarded(t, c), r = <<On("Forward", c)>>
        PROVE  DialogFrame(t, r, s)
    <2>1. dialog' = dialog \/ dialog' = Without(dialog, {c})
      BY <1>4 DEF Forwarded
    <2>2. CASE dialog' = Without(dialog, {c})
      <3>1. DOMAIN dialog' = DOMAIN dialog \ {c} /\ \A x \in DOMAIN dialog' : dialog'[x] = dialog[x]
        BY <2>2 DEF Without, Restrict
      <3> QED
        BY <1>4, <3>1, SameDialog DEF DialogFrame, DialogLost, Known
    <2> QED
      BY <1>1, <2>1, <2>2
  <1>5. ASSUME NEW c \in Caller, NEW p \in Port, CallMade(t, c, p)
        PROVE  DialogFrame(t, r, s)
    <2>1. CASE dialog' = dialog
      BY <1>1, <2>1
    <2>2. ASSUME NEW d \in Callee \ used, dialog' = With(dialog, d, NewDialog(FALSE)), used' = used \cup {d},
                 Moves(t, <<Step("CreateCall", c, NoCallId, p)>>, <<Step("Insert", c, d, p), On("StartCall", d)>>)
          PROVE  DialogFrame(t, r, s)
      <3>1. s = <<Step("Insert", c, d, p), On("StartCall", d)>>
        BY <1>2, <2>2, AfterMove
      <3>2. ~ Known(d)
        BY DEF Handlers, Known
      <3>3. /\ DOMAIN dialog' = DOMAIN dialog \cup {d} /\ dialog'[d] = NewDialog(FALSE)
            /\ \A x \in DOMAIN dialog : dialog'[x] = dialog[x]
        BY <2>2, <3>2 DEF With, Known
      <3> QED
        BY <2>2, <3>1, <3>3, SameDialog DEF DialogFrame, DialogMade, Known
    <2> QED
      BY <1>5, <2>1, <2>2 DEF CallMade
  <1>6. ASSUME NEW x \in Leg, Hangup(t, x)
        PROVE  DialogFrame(t, r, s)
    <2>1. Known(x) /\ dialog' = [dialog EXCEPT ![x].end = TRUE]
      BY <1>6 DEF Hangup
    <2>2. /\ DOMAIN dialog' = DOMAIN dialog /\ \A y \in DOMAIN dialog : y # x => dialog'[y] = dialog[y]
          /\ dialog'[x] = [dialog[x] EXCEPT !.end = TRUE] /\ dialog[x] \in CSipDialog
      BY <2>1 DEF Known, TypeInv, DialogsOK
    <2>3. DialogKept(t, x)
      BY <1>6, <2>2 DEF DialogKept, CSipDialog
    <2> QED
      BY <2>2, <2>3, SameDialog DEF DialogFrame, Known
  <1>7. ASSUME NEW x \in Callee, Answered(t, x)
        PROVE  DialogFrame(t, r, s)
    <2>1. Known(x) /\ dialog' = [dialog EXCEPT ![x].start = TRUE]
      BY <1>7 DEF Answered
    <2>2. /\ DOMAIN dialog' = DOMAIN dialog /\ \A y \in DOMAIN dialog : y # x => dialog'[y] = dialog[y]
          /\ dialog'[x] = [dialog[x] EXCEPT !.start = TRUE] /\ dialog[x] \in CSipDialog
      BY <2>1 DEF Known, TypeInv, DialogsOK
    <2>3. DialogKept(t, x)
      BY <1>7, <2>2 DEF DialogKept, CSipDialog
    <2> QED
      BY <2>2, <2>3, SameDialog DEF DialogFrame, Known
  <1>8. ASSUME NEW c \in Caller, NEW d \in Callee, Accepted(t, c, d)
        PROVE  DialogFrame(t, r, s)
    <2>1. dialog' = dialog \/ (Known(c) /\ dialog' = [dialog EXCEPT ![c].start = TRUE, ![c].invite = FALSE])
      BY <1>8 DEF Accepted, Accept, Acceptable
    <2>2. CASE Known(c) /\ dialog' = [dialog EXCEPT ![c].start = TRUE, ![c].invite = FALSE]
      <3>1. /\ DOMAIN dialog' = DOMAIN dialog /\ \A y \in DOMAIN dialog : y # c => dialog'[y] = dialog[y]
            /\ dialog'[c] = [dialog[c] EXCEPT !.start = TRUE, !.invite = FALSE] /\ dialog[c] \in CSipDialog
        BY <2>2 DEF Known, TypeInv, DialogsOK
      <3>2. DialogKept(t, c)
        BY <3>1 DEF DialogKept, CSipDialog
      <3> QED
        BY <3>1, <3>2, SameDialog DEF DialogFrame, Known
    <2> QED
      BY <1>1, <2>1, <2>2
  <1>9. ASSUME NEW x \in Leg, StopsLeg(t, r, s, x)
        PROVE  DialogFrame(t, r, s)
    <2>1. dialog' = AfterStop(x)
      BY <1>9 DEF StopsLeg, Stopped
    <2>2. CASE dialog' = Without(dialog, {x})
      <3>1. DOMAIN dialog' = DOMAIN dialog \ {x} /\ \A y \in DOMAIN dialog' : dialog'[y] = dialog[y]
        BY <2>2 DEF Without, Restrict
      <3> QED
        BY <1>9, <3>1, SameDialog DEF DialogFrame, DialogLost, Known
    <2>3. CASE Known(x) /\ dialog' = [dialog EXCEPT ![x].cancel = TRUE]
      <3>1. /\ DOMAIN dialog' = DOMAIN dialog /\ \A y \in DOMAIN dialog : y # x => dialog'[y] = dialog[y]
            /\ dialog'[x] = [dialog[x] EXCEPT !.cancel = TRUE] /\ dialog[x] \in CSipDialog
        BY <2>3 DEF Known, TypeInv, DialogsOK
      <3>2. DialogKept(t, x)
        BY <3>1 DEF DialogKept, CSipDialog
      <3> QED
        BY <3>1, <3>2, SameDialog DEF DialogFrame, Known
    <2> QED
      BY <1>1, <2>1, <2>2, <2>3 DEF AfterStop
  <1>10. ASSUME NEW x \in Leg, Gone(t, x), r = <<On("DeleteDialog", x)>>
         PROVE  DialogFrame(t, r, s)
    <2>1. dialog' = Without(dialog, {x})
      BY <1>10 DEF Gone
    <2>2. DOMAIN dialog' = DOMAIN dialog \ {x} /\ \A y \in DOMAIN dialog' : dialog'[y] = dialog[y]
      BY <2>1 DEF Without, Restrict
    <2> QED
      BY <1>10, <2>2, SameDialog DEF DialogFrame, DialogLost, Known
  <1>11. /\ \A c : PortMade(t, c) => dialog' = dialog
         /\ \A c : Saved(t, c) => dialog' = dialog
         /\ \A d : Called(t, d) => dialog' = dialog
         /\ \A d : StartEvent(t, d) => dialog' = dialog
         /\ \A x : EndEvent(t, x) => dialog' = dialog
         /\ \A x : Deleted(t, x) => dialog' = dialog
         /\ \A c, d, p : Inserted(t, c, d, p) => dialog' = dialog
    BY DEF PortMade, Saved, Called, StartEvent, EndEvent, Deleted, Inserted
  <1>12. ASSUME NEW x \in Leg, Stopped(t, x), r = <<On("StopCall", x)>>, s = <<>>
         PROVE  StopsLeg(t, r, s, x)
    BY <1>12 DEF StopsLeg
  <1>13. ASSUME NEW x \in Leg, NEW y \in Leg, x \in Caller <=> y \in Callee, Stopped(t, y),
                r = Stops(x, y), s = Ends(x)
         PROVE  StopsLeg(t, r, s, y)
    BY <1>13 DEF StopsLeg
  <1> QED
    BY <1>1, <1>3, <1>4, <1>5, <1>6, <1>7, <1>8, <1>9, <1>10, <1>11, <1>12, <1>13 DEF Turn

\* A dialog that StopCall leaves has ended, or is being cancelled.
LEMMA StoppedDialog ==
  ASSUME TypeInv, NEW t, NEW x, Stopped(t, x), Known(x), Known(x)'
  PROVE  \/ dialog[x].end
         \/ dialog'[x].cancel /\ ~ dialog[x].start /\ ~ dialog[x].end /\ ~ dialog[x].invite
  <1>1. dialog' = AfterStop(x) /\ dialog[x] \in CSipDialog
    BY DEF Stopped, TypeInv, DialogsOK, Known
  <1>2. x \notin DOMAIN Without(dialog, {x})
    BY DEF Without, Restrict
  <1>3. ~ (dialog[x].invite \/ (dialog[x].start /\ ~ dialog[x].end))
    BY <1>1, <1>2 DEF AfterStop, Known
  <1>4. CASE ~ dialog[x].start /\ ~ dialog[x].end
    <2>1. dialog' = [dialog EXCEPT ![x].cancel = TRUE]
      BY <1>1, <1>3, <1>4 DEF AfterStop
    <2>2. dialog'[x].cancel
      BY <1>1, <2>1 DEF Known, CSipDialog
    <2> QED
      BY <1>3, <1>4, <2>2
  <1> QED
    BY <1>1, <1>3, <1>4 DEF CSipDialog

\* The leg that CreateCall makes.
LEMMA LegMade ==
  ASSUME TypeInv, Handlers, NEW t \in Thread, NEW r, NEW s, Moves(t, r, s), Turn(t, r, s),
         NEW c, NEW d, NEW p, s = <<Step("Insert", c, d, p), On("StartCall", d)>>
  PROVE  /\ d \in Callee \ used /\ used' = used \cup {d}
         /\ Known(d)' /\ dialog'[d] = NewDialog(FALSE)
  <1>1. CallMade(t, c, p) /\ d \in Callee \ used
    BY InsertsTurn
  <1>2. todo'[t] = s
    BY AfterMove
  <1>3. \A e \in Callee : s # Refuse(c)
    BY Firsts, Different
  <1>4. ~ Moves(t, <<Step("CreateCall", c, NoCallId, p)>>, Refuse(c))
    <2>1. SUFFICES ASSUME Moves(t, <<Step("CreateCall", c, NoCallId, p)>>, Refuse(c))
                   PROVE  FALSE
      OBVIOUS
    <2>2. todo'[t] = Refuse(c)
      BY <2>1, AfterMove
    <2> QED
      BY <1>1, <1>2, <1>3, <2>2
  <1>5. PICK e \in Callee \ used :
          /\ Moves(t, <<Step("CreateCall", c, NoCallId, p)>>, <<Step("Insert", c, e, p), On("StartCall", e)>>)
          /\ used' = used \cup {e} /\ dialog' = With(dialog, e, NewDialog(FALSE))
    BY <1>1, <1>4 DEF CallMade
  <1>6. s = <<Step("Insert", c, e, p), On("StartCall", e)>>
    BY <1>2, <1>5, AfterMove
  <1>7. Head(s).peer = e /\ Head(s).peer = d
    BY <1>6, Firsts
  <1> QED
    BY <1>1, <1>5, <1>7 DEF With, Known
-----------------------------------------------------------------------------
\* The invariant, part by part.  t moves from r to s.
OneStep(t, r, s) ==
  t \in Thread /\ CallsInv /\ TypeInv' /\ Moves(t, r, s) /\ Turn(t, r, s)

LEMMA StepFacts ==
  ASSUME NEW t, NEW r, NEW s, OneStep(t, r, s)
  PROVE  /\ t \in Thread /\ Moves(t, r, s) /\ Turn(t, r, s) /\ TypeInv'
         /\ TypeInv /\ Handlers /\ SetupAlone /\ PlacedInv /\ Pairs /\ Dialogs /\ Ending /\ Starting
         /\ BrokenPairs /\ Covered /\ PeerLeaves /\ PairsGo /\ Records /\ PortsInv
         /\ Frame(t, r, s) /\ DialogFrame(t, r, s)
         /\ todo[t] = r /\ todo'[t] = s /\ \A u \in Thread \ {t} : todo'[u] = todo[u]
  BY Frames, DialogFrames, AfterMove DEF OneStep, CallsInv

LEMMA UsedStays ==
  ASSUME NEW t, NEW r, NEW s, OneStep(t, r, s)
  PROVE  used \subseteq used'
  BY StepFacts DEF Frame

\* Legs that a thread works on have been used.
LEMMA MentionedUsed ==
  ASSUME Handlers, NEW t \in Thread, NEW x \in Mentioned(todo[t])
  PROVE  x \in used \cup {NoCallId}
  <1>1. PICK e \in Elements(todo[t]) : x = e.call \/ x = e.peer
    BY DEF Mentioned
  <1>2. e \in AllWork
    BY <1>1 DEF AllWork, Work
  <1> QED
    BY <1>1, <1>2 DEF Handlers

LEMMA SetupMentions ==
  ASSUME NEW c, NEW s, s \in SetupForms(c)
  PROVE  c \in Mentioned(s)
  <1>1. \A do, y, p : c \in Mentioned(<<Step(do, c, y, p)>>)
    BY Within, OnFields DEF Mentioned
  <1>2. \A do : c \in Mentioned(<<On(do, c)>>)
    BY Within, OnFields DEF Mentioned
  <1>3. \A do, y, p, e : c \in Mentioned(<<Step(do, c, y, p), e>>)
    BY Within, OnFields DEF Mentioned
  <1>4. c \in Mentioned(Refuse(c))
    BY Within, OnFields DEF Mentioned
  <1> QED
    BY <1>1, <1>2, <1>3, <1>4 DEF SetupForms

LEMMA SetupUsed ==
  ASSUME Handlers, NEW t \in Thread, NEW c, Setup(t, c)
  PROVE  c \in used
  BY SetupMentions, MentionedUsed, SipServerCallsAssumption DEF Setup

LEMMA SetupStep ==
  ASSUME NEW t, NEW r, NEW s, OneStep(t, r, s), NEW u \in Thread, NEW c, Setup(u, c)'
  PROVE  Setup(u, c) \/ (u = t /\ c \in Caller \ used)
  <1>1. c \in Caller /\ todo'[u] \in SetupForms(c)
    BY DEF Setup, SetupForms, Refuse, On, Step
  <1>2. CASE u = t
    <2>1. s \in SetupForms(c) /\ todo[t] = r /\ Turn(t, r, s)
      BY <1>1, <1>2, StepFacts
    <2>2. r \in SetupForms(c) \/ Invited(t, c)
      BY <1>1, <2>1, SetupTurn
    <2> QED
      BY <1>1, <1>2, <2>1, <2>2 DEF Setup, Invited
  <1>3. CASE u # t
    BY <1>1, <1>3, StepFacts DEF Setup
  <1> QED
    BY <1>2, <1>3

LEMMA InsertsStep ==
  ASSUME NEW t, NEW r, NEW s, OneStep(t, r, s), NEW u \in Thread, NEW c, NEW d, NEW p, Inserts(u, c, d, p)'
  PROVE  Inserts(u, c, d, p) \/ (u = t /\ d \in Callee \ used /\ s = <<Step("Insert", c, d, p), On("StartCall", d)>>)
  <1>1. todo'[u] = <<Step("Insert", c, d, p), On("StartCall", d)>>
    BY DEF Inserts, Step, On
  <1>2. CASE u = t
    BY <1>1, <1>2, StepFacts, InsertsTurn
  <1>3. CASE u # t
    BY <1>1, <1>3, StepFacts DEF Inserts
  <1> QED
    BY <1>2, <1>3

LEMMA PlacedStays ==
  ASSUME NEW t, NEW r, NEW s, OneStep(t, r, s), NEW x, Placed(x)
  PROVE  Placed(x)'
  <1>1. x \in used /\ x \in used' /\ ~ NewLeg(x) /\ \A u \in Thread : ~ Setup(u, x)
    BY UsedStays DEF Placed
  <1>2. ~ NewLeg(x)'
    BY <1>1, InsertsStep DEF NewLeg
  <1>3. \A u \in Thread : ~ Setup(u, x)'
    BY <1>1, SetupStep
  <1> QED
    BY <1>1, <1>2, <1>3 DEF Placed

LEMMA NewLegStep ==
  ASSUME NEW t, NEW r, NEW s, OneStep(t, r, s)
  PROVE  \A c \in Caller, d \in Callee, p \in Port : s = <<Step("Insert", c, d, p), On("StartCall", d)>> =>
           d \notin used /\ used' = used \cup {d} /\ Known(d)' /\ ~ dialog'[d].start
  <1>1. ASSUME NEW c \in Caller, NEW d \in Callee, NEW p \in Port,
               s = <<Step("Insert", c, d, p), On("StartCall", d)>>
        PROVE  d \notin used /\ used' = used \cup {d} /\ Known(d)' /\ ~ dialog'[d].start
    BY <1>1, StepFacts, LegMade DEF NewDialog
  <1> QED
    BY <1>1

LEMMA Handlers_1 ==
  ASSUME NEW t, NEW r, NEW s, OneStep(t, r, s)
  PROVE  Handlers'
  <1>1. IsForm(s)
    <2>1. \A c \in Caller :
            /\ IsForm(<<On("Forward", c)>>) /\ IsForm(<<On("CreatePort", c)>>) /\ IsForm(Refuse(c))
            /\ IsForm(<<On("StopCall", c)>>)
            /\ \A p \in Port : IsForm(<<Step("CreateCall", c, NoCallId, p)>>)
            /\ \A d \in Callee, p \in Port : IsForm(<<Step("Insert", c, d, p), On("StartCall", d)>>)
      BY DEF IsForm, SetupForms
    <2>2. \A d \in Callee :
            /\ IsForm(<<On("StartCall", d)>>) /\ IsForm(<<On("EventCallStart", d)>>)
            /\ IsForm(<<On("TransStart", d)>>) /\ IsForm(<<On("StopCall", d)>>)
            /\ \A c \in Caller : IsForm(<<Step("AcceptCall", c, d, 0)>>)
      BY DEF IsForm, StartForms
    <2>3. \A x \in Leg :
            /\ IsForm(<<On("EventCallEnd", x), On("DeleteDialog", x)>>)
            /\ IsForm(<<On("TransEnd", x), On("DeleteDialog", x)>>)
            /\ IsForm(Ends(x)) /\ IsForm(<<On("DeleteDialog", x)>>)
      BY DEF IsForm, EndForms
    <2>4. ASSUME NEW x \in Leg, NEW y \in Leg, x \in Caller <=> y \in Callee
          PROVE  IsForm(Stops(x, y)) /\ IsForm(Saves(x, y))
      <3>1. y \in IF x \in Caller THEN Callee ELSE Caller
        BY <2>4 DEF Leg
      <3> QED
        BY <3>1 DEF IsForm, EndForms
    <2>5. \A x \in DOMAIN calls : x \in Leg /\ calls[x].peer \in Leg /\ (x \in Caller <=> calls[x].peer \in Callee)
          /\ (x \in Callee => calls[x].peer \in Caller)
      BY StepFacts, SipServerCallsAssumption DEF Pairs, Leg
    <2>6. IsForm(<<>>)
      BY DEF IsForm
    <2>7. \A x \in DOMAIN calls : IsForm(Saves(x, calls[x].peer))
      BY <2>4, <2>5
    <2>8. \A d \in DOMAIN calls : d \in Callee => IsForm(<<Step("AcceptCall", calls[d].peer, d, 0)>>)
      BY <2>2, <2>5
    <2>9. Turn(t, r, s)
      BY StepFacts
    <2> QED
      BY <2>1, <2>2, <2>3, <2>4, <2>6, <2>7, <2>8, <2>9 DEF Turn
  <1>2. \A u \in Thread : IsForm(todo'[u])
    BY <1>1, StepFacts DEF Handlers
  <1>3. trans' = [c \in {} |-> Info(NoCallId, TRUE, 0)]
    BY StepFacts DEF Handlers, Frame
  <1>4. DOMAIN dialog' \subseteq used'
    <2>1. ASSUME NEW x \in DOMAIN dialog'
          PROVE  x \in used'
      <3>1. DOMAIN dialog \subseteq used /\ used \subseteq used'
        BY StepFacts, UsedStays DEF Handlers
      <3>2. x \in DOMAIN dialog \/ DialogMade(t, s, x)
        BY <2>1, StepFacts DEF DialogFrame, Known
      <3> QED
        BY <3>1, <3>2 DEF DialogMade
    <2> QED
      BY <2>1
  <1>5. ASSUME NEW x \in Mentioned(s)
        PROVE  x \in used' \cup {NoCallId}
    <2>1. CASE x \in Mentioned(r)
      BY <2>1, StepFacts, UsedStays, MentionedUsed
    <2>2. CASE Invited(t, x)
      BY <2>2 DEF Invited
    <2>3. CASE Hangup(t, x) \/ Answered(t, x)
      BY <2>3, StepFacts, UsedStays DEF Hangup, Answered, Known, Handlers
    <2>4. ASSUME NEW c \in Caller, NEW p \in Port, x \in Callee, s = <<Step("Insert", c, x, p), On("StartCall", x)>>
          PROVE  x \in used'
      BY <2>4, NewLegStep
    <2>5. ASSUME NEW y \in DOMAIN calls, x = calls[y].peer
          PROVE  x \in used'
      BY <2>5, StepFacts, UsedStays DEF Pairs, PlacedInv, Placed
    <2> QED
      BY <2>1, <2>2, <2>3, <2>4, <2>5, StepFacts, NewMention
  <1>6. ASSUME NEW e \in AllWork'
        PROVE  {e.call, e.peer} \subseteq used' \cup {NoCallId}
    <2>1. CASE e \in Elements(s)
      BY <1>5, <2>1 DEF Mentioned
    <2>2. CASE e \in AllWork
      BY <2>2, StepFacts, UsedStays DEF Handlers
    <2> QED
      BY <1>6, <2>1, <2>2, StepFacts, AfterMove
  <1> QED
    BY <1>2, <1>3, <1>4, <1>6 DEF Handlers

LEMMA SetupAlone_1 ==
  ASSUME NEW t, NEW r, NEW s, OneStep(t, r, s)
  PROVE  SetupAlone'
  <1>1. ASSUME NEW u \in Thread, NEW v \in Thread, NEW c \in Caller, Setup(u, c)', Setup(v, c)'
        PROVE  u = v
    BY <1>1, SetupStep, SetupUsed, StepFacts DEF SetupAlone
  <1>2. ASSUME NEW u \in Thread, NEW c \in Caller, NEW d \in Callee, NEW p \in Port, Inserts(u, c, d, p)',
               NEW v \in Thread \ {u}, NEW x \in Work(v)', x.call = d \/ x.peer = d
        PROVE  FALSE
    <2>1. d # NoCallId
      BY SipServerCallsAssumption
    <2>2. CASE ~ Inserts(u, c, d, p)
      <3>1. u = t /\ d \notin used
        BY <1>2, <2>2, InsertsStep
      <3>2. x \in AllWork
        BY <1>2, <3>1, StepFacts, AfterMove DEF AllWork
      <3> QED
        BY <1>2, <2>1, <3>1, <3>2, StepFacts DEF Handlers
    <2>3. CASE Inserts(u, c, d, p)
      <3>1. /\ Known(d) /\ ~ dialog[d].start /\ NewLeg(d) /\ d \in used
            /\ \A w \in Thread \ {u} : \A e \in Work(w) : e.call # d /\ e.peer # d
        BY <2>3, StepFacts DEF SetupAlone, NewLeg, Handlers, Known
      <3>2. ~ Placed(d)
        BY <3>1 DEF Placed
      <3>3. v = t /\ x \in Elements(s)
        BY <1>2, <3>1, StepFacts, AfterMove
      <3>4. d \in Mentioned(s) /\ d \notin Mentioned(r)
        BY <1>2, <3>1, <3>3, StepFacts DEF Mentioned, Work
      <3>5. d \notin DOMAIN calls /\ d \notin pending
        BY <3>2, StepFacts DEF PlacedInv
      <3>6. ~ Invited(t, d) /\ ~ Hangup(t, d) /\ ~ Answered(t, d)
        BY <3>1, <3>5, StepFacts, SipServerCallsAssumption DEF Invited, Hangup, Answered, Dialogs, Known
      <3>7. \A y \in DOMAIN calls : d # calls[y].peer
        BY <3>5, StepFacts DEF Pairs
      <3> QED
        BY <2>1, <3>1, <3>4, <3>6, <3>7, StepFacts, NewMention
    <2> QED
      BY <2>2, <2>3
  <1>3. ASSUME NEW u \in Thread, NEW c \in Caller, NEW d \in Callee, NEW p \in Port, Inserts(u, c, d, p)'
        PROVE  Known(d)' /\ ~ dialog'[d].start
    <2>1. CASE ~ Inserts(u, c, d, p)
      <3>1. s = <<Step("Insert", c, d, p), On("StartCall", d)>>
        BY <1>3, <2>1, InsertsStep
      <3> QED
        BY <3>1, StepFacts, LegMade DEF NewDialog
    <2>2. CASE Inserts(u, c, d, p)
      <3>1. /\ Known(d) /\ ~ dialog[d].start /\ NewLeg(d)
            /\ \A w \in Thread \ {u} : \A e \in Work(w) : e.call # d /\ e.peer # d
        BY <2>2, StepFacts DEF SetupAlone, NewLeg
      <3>2. d \notin pending
        BY <3>1, StepFacts DEF PlacedInv, Placed
      <3>3. CASE ~ Known(d)'
        <4>1. DialogLost(t, r, s, d) /\ d \notin Caller
          BY <3>1, <3>3, StepFacts, SipServerCallsAssumption DEF DialogFrame
        <4>2. On("StopCall", d) \in Elements(r) \/ On("DeleteDialog", d) \in Elements(r)
          BY <4>1, Within DEF DialogLost, StopsLeg
        <4>3. u = t
          BY <3>1, <4>2, StepFacts, OnFields DEF Work
        <4>4. r = <<Step("Insert", c, d, p), On("StartCall", d)>>
          BY <2>2, <4>3, StepFacts DEF Inserts
        <4> QED
          BY <4>2, <4>4, Within, OnFields
      <3>4. CASE Known(d)' /\ dialog'[d].start
        <4>1. Answered(t, d)
          BY <3>1, <3>4, StepFacts, SipServerCallsAssumption DEF DialogFrame, DialogKept
        <4> QED
          BY <3>2, <4>1 DEF Answered
      <3> QED
        BY <3>3, <3>4
    <2> QED
      BY <2>1, <2>2
  <1> QED
    BY <1>1, <1>2, <1>3 DEF SetupAlone

\* The pair that Insert makes.
LEMMA NewLegType ==
  ASSUME Handlers, NEW d, NewLeg(d)
  PROVE  d \in Callee
  <1>1. PICK t \in Thread, c \in Caller, p \in Port : todo[t] = <<Step("Insert", c, d, p), On("StartCall", d)>>
    BY DEF NewLeg, Inserts
  <1>2. todo[t] # <<>> /\ Head(todo[t]).do = "Insert" /\ Head(todo[t]).peer = d
    BY <1>1, Firsts, Different
  <1>3. PICK b \in Caller, e \in Callee, q \in Port : todo[t] = <<Step("Insert", b, e, q), On("StartCall", e)>>
    BY <1>2, FormOf DEF Handlers
  <1>4. Head(todo[t]).peer = e
    BY <1>3, Firsts
  <1> QED
    BY <1>2, <1>4

LEMMA InsertedFacts ==
  ASSUME NEW t, NEW r, NEW s, OneStep(t, r, s), NEW c, NEW d, NEW p, Inserted(t, c, d, p)
  PROVE  /\ c \in Caller /\ d \in Callee /\ p \in Port
         /\ r = <<Step("Insert", c, d, p), On("StartCall", d)>> /\ s = <<On("StartCall", d)>>
         /\ Setup(t, c) /\ Inserts(t, c, d, p) /\ ~ Placed(c) /\ ~ Placed(d)
         /\ Known(d) /\ ~ dialog[d].start
         /\ {c, d} \cap (DOMAIN calls \cup joined \cup pending) = {}
         /\ Placed(c)' /\ Placed(d)'
  <1>1. /\ c \in Caller /\ d \in Callee /\ p \in Port
        /\ Moves(t, <<Step("Insert", c, d, p), On("StartCall", d)>>, <<On("StartCall", d)>>)
    BY DEF Inserted
  <1>2. /\ r = <<Step("Insert", c, d, p), On("StartCall", d)>> /\ s = <<On("StartCall", d)>>
    BY <1>1, StepFacts, AfterMove
  <1>3. Setup(t, c) /\ Inserts(t, c, d, p)
    BY <1>1, <1>2, StepFacts DEF Setup, Inserts, SetupForms
  <1>4. t \in Thread /\ Handlers /\ SetupAlone /\ PlacedInv
    BY StepFacts
  <1>5. ~ Placed(c) /\ ~ Placed(d)
    BY <1>1, <1>3, <1>4 DEF Placed, NewLeg
  <1>6. {c, d} \cap (DOMAIN calls \cup joined \cup pending) = {}
    BY <1>4, <1>5 DEF PlacedInv
  <1>7. Known(d) /\ ~ dialog[d].start /\ \A u \in Thread \ {t} : \A x \in Work(u) : x.call # d /\ x.peer # d
    BY <1>1, <1>3, <1>4 DEF SetupAlone
  <1>8. c \in used /\ d \in used
    BY <1>3, <1>4, <1>7, SetupUsed DEF Handlers, Known
  <1>9. c \notin Callee /\ d \notin Caller
    BY <1>1, SipServerCallsAssumption
  <1>10. ~ NewLeg(c)' /\ \A u \in Thread : ~ Setup(u, d)'
    <2>1. ASSUME NEW u \in Thread, NEW b \in Caller, NEW q \in Port, Inserts(u, b, c, q)'
          PROVE  FALSE
      <3>1. NewLeg(c)
        BY <1>9, <2>1, InsertsStep DEF NewLeg
      <3> QED
        BY <1>4, <1>9, <3>1, NewLegType
    <2> QED
      BY <1>9, <2>1 DEF NewLeg, Setup
  <1>11. ~ NewLeg(d)'
    <2>1. ASSUME NEW u \in Thread, NEW b \in Caller, NEW q \in Port, Inserts(u, b, d, q)'
          PROVE  FALSE
      <3>1. s # <<Step("Insert", b, d, q), On("StartCall", d)>>
        BY <1>2, Different
      <3>2. Inserts(u, b, d, q)
        BY <2>1, <3>1, InsertsStep
      <3>3. u # t
        BY <2>1, <3>1, StepFacts DEF Inserts
      <3>4. Step("Insert", b, d, q) \in Work(u) /\ Step("Insert", b, d, q).peer = d
        BY <3>2, Within, OnFields DEF Inserts, Work
      <3> QED
        BY <1>7, <3>3, <3>4
    <2> QED
      BY <2>1 DEF NewLeg
  <1>12. \A u \in Thread : ~ Setup(u, c)'
    <2>1. s \notin SetupForms(c)
      <3>1. s # <<>> /\ Head(s).do = "StartCall"
        BY <1>2, Firsts, Different
      <3> QED
        BY <3>1, Firsts DEF SetupForms
    <2>2. ~ Setup(t, c)'
      BY <2>1, StepFacts DEF Setup, SetupForms, Refuse, On, Step
    <2>3. ASSUME NEW u \in Thread, Setup(u, c)'
          PROVE  FALSE
      <3>1. u # t /\ Setup(u, c)
        BY <1>3, <2>2, <2>3, <1>8, SetupStep
      <3> QED
        BY <1>1, <1>3, <1>4, <3>1 DEF SetupAlone
    <2> QED
      BY <2>3
  <1>13. Placed(c)' /\ Placed(d)'
    BY <1>8, <1>10, <1>11, <1>12, UsedStays DEF Placed
  <1> QED
    BY <1>1, <1>2, <1>3, <1>5, <1>6, <1>7, <1>13

LEMMA InsertedPair ==
  ASSUME NEW t, NEW r, NEW s, OneStep(t, r, s), NEW c, NEW d, NEW p, Inserted(t, c, d, p)
  PROVE  /\ \A x : x \in DOMAIN calls' <=> (x \in DOMAIN calls \/ x = c \/ x = d)
         /\ calls'[c].peer = d /\ calls'[d].peer = c
         /\ \A x \in DOMAIN calls : calls'[x] = calls[x]
  <1>1. calls' = Pair(calls, c, d, p)
    BY DEF Inserted
  <1>2. c # d /\ c \notin DOMAIN calls /\ d \notin DOMAIN calls
    BY InsertedFacts, SipServerCallsAssumption
  <1> QED
    BY <1>1, <1>2 DEF Pair, Info

LEMMA InsertedPort ==
  ASSUME NEW t, NEW r, NEW s, OneStep(t, r, s), NEW c, NEW d, NEW p, Inserted(t, c, d, p)
  PROVE  calls'[c] = Info(d, TRUE, p) /\ calls'[d] = Info(c, FALSE, p + 2)
  <1>1. calls' = Pair(calls, c, d, p)
    BY DEF Inserted
  <1>2. c # d /\ c \notin DOMAIN calls /\ d \notin DOMAIN calls
    BY InsertedFacts, SipServerCallsAssumption
  <1> QED
    BY <1>1, <1>2 DEF Pair

LEMMA DeletedPair ==
  ASSUME NEW t, NEW r, NEW s, OneStep(t, r, s), NEW x, Deleted(t, x)
  PROVE  /\ r = Ends(x) /\ s = <<On("DeleteDialog", x)>>
         /\ \A y : y \in DOMAIN calls' <=>
                    y \in DOMAIN calls /\ ~ (x \in DOMAIN calls /\ (y = x \/ y = calls[x].peer))
         /\ \A y \in DOMAIN calls' : calls'[y] = calls[y]
  <1>1. r = Ends(x) /\ s = <<On("DeleteDialog", x)>>
    BY StepFacts, AfterMove DEF Deleted
  <1>2. calls' = Without(calls, Both(calls, x))
    BY DEF Deleted
  <1>3. DOMAIN calls' = DOMAIN calls \ Both(calls, x) /\ \A y \in DOMAIN calls' : calls'[y] = calls[y]
    BY <1>2 DEF Without, Restrict
  <1>4. \A y : y \in Both(calls, x) <=>
          y \in DOMAIN calls /\ x \in DOMAIN calls /\ (y = x \/ y = calls[x].peer)
    BY DEF Both
  <1> QED
    BY <1>1, <1>3, <1>4

LEMMA PlacedInv_1 ==
  ASSUME NEW t, NEW r, NEW s, OneStep(t, r, s)
  PROVE  PlacedInv'
  <1>1. /\ t \in Thread /\ Turn(t, r, s) /\ Frame(t, r, s) /\ Pairs /\ PlacedInv
        /\ todo[t] = r /\ todo'[t] = s /\ \A u \in Thread \ {t} : todo'[u] = todo[u]
    BY StepFacts
  <1>2. \A x : Placed(x) => Placed(x)'
    BY PlacedStays
  <1>3. ASSUME NEW x \in DOMAIN calls', x \notin DOMAIN calls
        PROVE  Placed(x)'
    <2>1. \A y : Deleted(t, y) => DOMAIN calls' \subseteq DOMAIN calls
      BY DeletedPair
    <2>2. \A c, d : Accepted(t, c, d) => calls' = calls
      BY DEF Accepted
    <2>3. PICK c \in Caller, d \in Callee, p \in Port : Inserted(t, c, d, p)
      BY <1>1, <1>3, <2>1, <2>2 DEF Frame
    <2>4. x = c \/ x = d
      BY <1>3, <2>3, InsertedPair
    <2>5. Placed(c)' /\ Placed(d)'
      BY <2>3, InsertedFacts
    <2> QED
      BY <2>4, <2>5 DEF Placed, NewLeg, Setup
  <1>4. ASSUME NEW x \in joined', x \notin joined
        PROVE  Placed(x)
    <2>1. PICK c \in Caller, d \in Callee : x = c /\ r = <<Step("AcceptCall", c, d, 0)>>
      BY <1>1, <1>4 DEF Frame
    <2> QED
      BY <1>1, <2>1 DEF PlacedInv
  <1>5. ASSUME NEW x \in pending', x \notin pending
        PROVE  Placed(x)
    <2>1. x \in Callee /\ r = <<On("StartCall", x)>>
      BY <1>1, <1>5 DEF Frame
    <2> QED
      BY <1>1, <2>1 DEF PlacedInv, StartForms
  <1>6. \A x \in DOMAIN calls' \cup joined' \cup pending' : Placed(x)'
    BY <1>1, <1>2, <1>3, <1>4, <1>5 DEF PlacedInv
  <1>7. ASSUME NEW d \in Callee, NEW u \in Thread, todo'[u] \in StartForms(d)
        PROVE  Placed(d)'
    <2>1. CASE u # t
      BY <1>1, <1>2, <1>7, <2>1 DEF PlacedInv
    <2>2. CASE u = t
      <3>1. \/ r \in StartForms(d) \/ Answered(t, d)
            \/ \E c, p : Inserted(t, c, d, p)
        BY <1>1, <1>7, <2>2, StartTurn
      <3>2. Answered(t, d) => d \in pending
        BY DEF Answered
      <3> QED
        BY <1>1, <1>2, <3>1, <3>2, InsertedFacts DEF PlacedInv
    <2> QED
      BY <2>1, <2>2
  <1>8. ASSUME NEW c \in Caller, NEW d \in Callee, NEW u \in Thread, todo'[u] = <<Step("AcceptCall", c, d, 0)>>
        PROVE  Placed(c)
    <2>1. CASE u # t
      BY <1>1, <1>8, <2>1 DEF PlacedInv
    <2>2. CASE u = t
      <3>1. d \in DOMAIN calls /\ c = calls[d].peer
        BY <1>1, <1>8, <2>2, AcceptTurn
      <3> QED
        BY <1>1, <3>1 DEF PlacedInv, Pairs
    <2> QED
      BY <2>1, <2>2
  <1>9. ASSUME NEW x \in Leg, NEW u \in Thread, On("Delete", x) \in Elements(todo'[u])
        PROVE  Placed(x)
    <2>1. CASE On("Delete", x) \in Work(u)
      BY <1>1, <2>1 DEF PlacedInv
    <2>2. CASE u = t
      <3>1. On("Delete", x) \in Elements(r) \/ x \in DOMAIN calls
        BY <1>1, <1>9, <2>2, NewDue
      <3> QED
        BY <1>1, <3>1 DEF PlacedInv, Work
    <2> QED
      BY <1>1, <1>9, <2>1, <2>2 DEF Work
  <1>10. ASSUME NEW x \in Leg, NEW y \in Leg, NEW u \in Thread, todo'[u] \in {Stops(x, y), Saves(x, y)}
         PROVE  Placed(y)
    <2>1. CASE u # t
      BY <1>1, <1>10, <2>1 DEF PlacedInv
    <2>2. CASE u = t
      <3>1. r = Saves(x, y) \/ (x \in DOMAIN calls /\ y = calls[x].peer)
        BY <1>1, <1>10, <2>2, StopsTurn
      <3> QED
        BY <1>1, <3>1 DEF PlacedInv, Pairs
    <2> QED
      BY <2>1, <2>2
  <1> QED
    BY <1>2, <1>6, <1>7, <1>8, <1>9, <1>10 DEF PlacedInv, Work, StartForms, Stops, Saves, On, Step

LEMMA Pairs_1 ==
  ASSUME NEW t, NEW r, NEW s, OneStep(t, r, s)
  PROVE  Pairs'
  <1>1. Frame(t, r, s) /\ Pairs
    BY StepFacts
  <1>2. CASE calls' = calls
    BY <1>1, <1>2 DEF Pairs
  <1>3. ASSUME NEW c \in Caller, NEW d \in Callee, NEW p \in Port, Inserted(t, c, d, p)
        PROVE  Pairs'
    <2>1. /\ c \in Caller /\ d \in Callee /\ p \in Port /\ c \notin DOMAIN calls /\ d \notin DOMAIN calls
      BY <1>3, InsertedFacts
    <2>2. /\ \A x : x \in DOMAIN calls' <=> (x \in DOMAIN calls \/ x = c \/ x = d)
          /\ \A x \in DOMAIN calls : calls'[x] = calls[x]
      BY <1>3, InsertedPair
    <2>3. calls'[c] = Info(d, TRUE, p) /\ calls'[d] = Info(c, FALSE, p + 2)
      BY <1>3, InsertedPort DEF Info
    <2>4. c # d /\ d \notin Caller
      BY <2>1, SipServerCallsAssumption
    <2> QED
      BY <1>1, <2>1, <2>2, <2>3, <2>4 DEF Pairs, Info
  <1>4. ASSUME NEW x, Deleted(t, x)
        PROVE  Pairs'
    <2>1. /\ \A y : y \in DOMAIN calls' <=>
                     y \in DOMAIN calls /\ ~ (x \in DOMAIN calls /\ (y = x \/ y = calls[x].peer))
          /\ \A y \in DOMAIN calls' : calls'[y] = calls[y]
      BY <1>4, DeletedPair
    <2> QED
      BY <1>1, <2>1 DEF Pairs
  <1> QED
    BY <1>1, <1>2, <1>3, <1>4 DEF Frame

\* A section that is due stays due until it is done.
LEMMA DueKept ==
  ASSUME NEW t, NEW r, NEW s, OneStep(t, r, s), NEW x
  PROVE  /\ Due("DeleteDialog", x) => Due("DeleteDialog", x)' \/ Gone(t, x)
         /\ Due("StopCall", x) => Due("StopCall", x)' \/ Stopped(t, x)
         /\ Due("StartCall", x) => Due("StartCall", x)' \/ Called(t, x)
         /\ Due("Delete", x) => Due("Delete", x)' \/ Deleted(t, x)
         /\ Due("TransStart", x) => Due("TransStart", x)' \/ Due("StopCall", x)'
         /\ Due("EventCallStart", x) =>
              \/ Due("EventCallStart", x)' \/ Due("TransStart", x)'
              \/ x \in DOMAIN calls /\ Step("AcceptCall", calls[x].peer, x, 0) \in AllWork'
         /\ \A c : Step("AcceptCall", c, x, 0) \in AllWork =>
              Step("AcceptCall", c, x, 0) \in AllWork' \/ Accepted(t, c, x)
  <1>1. t \in Thread /\ TypeInv /\ Moves(t, r, s) /\ Turn(t, r, s)
    BY StepFacts
  <1>2. \A e \in AllWork : e \in AllWork' \/ (e = Head(r) /\ r # <<>>)
    BY <1>1, DueStays
  <1>3. \A e \in Elements(s) : e \in AllWork'
    BY <1>1, AfterMove
  <1>4. \A do, c : Due(do, c)' <=> On(do, c) \in AllWork'
    BY DEF Due, On, Step
  <1>5. /\ Due("DeleteDialog", x) => Due("DeleteDialog", x)' \/ Gone(t, x)
        /\ Due("StopCall", x) => Due("StopCall", x)' \/ Stopped(t, x)
        /\ Due("StartCall", x) => Due("StartCall", x)' \/ Called(t, x)
        /\ Due("Delete", x) => Due("Delete", x)' \/ Deleted(t, x)
    BY <1>1, <1>2, <1>4, FirstDone DEF Due
  <1>6. Due("TransStart", x) => Due("TransStart", x)' \/ Due("StopCall", x)'
    BY <1>1, <1>2, <1>3, <1>4, FirstDone DEF Due
  <1>7. Due("EventCallStart", x) =>
          \/ Due("EventCallStart", x)' \/ Due("TransStart", x)'
          \/ x \in DOMAIN calls /\ Step("AcceptCall", calls[x].peer, x, 0) \in AllWork'
    BY <1>1, <1>2, <1>3, <1>4, FirstDone DEF Due
  <1>8. \A c : Step("AcceptCall", c, x, 0) \in AllWork =>
          Step("AcceptCall", c, x, 0) \in AllWork' \/ Accepted(t, c, x)
    BY <1>1, <1>2, FirstDone
  <1> QED
    BY <1>5, <1>6, <1>7, <1>8

LEMMA GoneFacts ==
  ASSUME NEW t, NEW r, NEW s, OneStep(t, r, s), NEW x
  PROVE  /\ Gone(t, x) => ~ Known(x)'
         /\ Hangup(t, x) => /\ Known(x) /\ Known(x)' /\ dialog'[x].end
                            /\ s = <<On("EventCallEnd", x), On("DeleteDialog", x)>>
         /\ Answered(t, x) => Known(x) /\ Known(x)' /\ dialog'[x].start /\ s = <<On("EventCallStart", x)>>
         /\ Called(t, x) => x \in pending'
  <1>1. t \in Thread /\ TypeInv /\ Moves(t, r, s)
    BY StepFacts
  <1>2. Gone(t, x) => ~ Known(x)'
    BY DEF Gone, Without, Restrict, Known
  <1>3. ASSUME Hangup(t, x)
        PROVE  /\ Known(x) /\ Known(x)' /\ dialog'[x].end
               /\ s = <<On("EventCallEnd", x), On("DeleteDialog", x)>>
    <2>1. dialog[x] \in CSipDialog /\ Known(x)
      BY <1>1, <1>3 DEF Hangup, TypeInv, DialogsOK, Known
    <2>2. Known(x)' /\ dialog'[x].end
      BY <1>3, <2>1 DEF Hangup, Known, CSipDialog
    <2>3. s = <<On("EventCallEnd", x), On("DeleteDialog", x)>>
      BY <1>1, <1>3, AfterMove DEF Hangup
    <2> QED
      BY <2>1, <2>2, <2>3
  <1>4. ASSUME Answered(t, x)
        PROVE  Known(x) /\ Known(x)' /\ dialog'[x].start /\ s = <<On("EventCallStart", x)>>
    <2>1. dialog[x] \in CSipDialog /\ Known(x)
      BY <1>1, <1>4 DEF Answered, TypeInv, DialogsOK, Known
    <2>2. Known(x)' /\ dialog'[x].start
      BY <1>4, <2>1 DEF Answered, Known, CSipDialog
    <2>3. s = <<On("EventCallStart", x)>>
      BY <1>1, <1>4, AfterMove DEF Answered
    <2> QED
      BY <2>1, <2>2, <2>3
  <1>5. Called(t, x) => x \in pending'
    BY DEF Called
  <1> QED
    BY <1>2, <1>3, <1>4, <1>5

\* What is left of a dialog, and of its INVITE.
LEMMA DialogStep ==
  ASSUME NEW t, NEW r, NEW s, OneStep(t, r, s), NEW x, Known(x)'
  PROVE  /\ dialog'[x] \in CSipDialog
         /\ ~ Known(x) => DialogMade(t, s, x)
         /\ Known(x) => DialogKept(t, x) /\ dialog[x] \in CSipDialog
         /\ x \in pending /\ x \notin pending' => dialog'[x].end \/ dialog'[x].start
  <1>1. TypeInv /\ TypeInv' /\ Frame(t, r, s) /\ DialogFrame(t, r, s)
    BY StepFacts
  <1>2. dialog'[x] \in CSipDialog /\ (Known(x) => dialog[x] \in CSipDialog)
    BY <1>1 DEF TypeInv, DialogsOK, Known, CSipDialog
  <1>3. /\ ~ Known(x) => DialogMade(t, s, x)
        /\ Known(x) => DialogKept(t, x)
    BY <1>1 DEF DialogFrame
  <1>4. ASSUME x \in pending, x \notin pending'
        PROVE  dialog'[x].end \/ dialog'[x].start
    <2>1. Hangup(t, x) \/ Answered(t, x)
      BY <1>1, <1>4 DEF Frame
    <2> QED
      BY <2>1, GoneFacts
  <1> QED
    BY <1>2, <1>3, <1>4

LEMMA Dialogs_1 ==
  ASSUME NEW t, NEW r, NEW s, OneStep(t, r, s)
  PROVE  Dialogs'
  <1>1. t \in Thread /\ TypeInv /\ Moves(t, r, s) /\ Dialogs /\ Caller \cap Callee = {}
    BY StepFacts, SipServerCallsAssumption
  <1>2. \A e \in Elements(s) : e \in AllWork'
    BY <1>1, AfterMove
  <1>3. ASSUME NEW x, Known(x)', ~ Known(x)
        PROVE  /\ x \in Caller => dialog'[x].invite = ~ dialog'[x].start
               /\ x \notin Caller => ~ dialog'[x].invite
               /\ ~ dialog'[x].end
               /\ x \in Callee => On("StartCall", x) \in AllWork'
    <2>1. DialogMade(t, s, x)
      BY <1>3, DialogStep
    <2>2. (x \in Caller /\ dialog'[x] = NewDialog(TRUE)) \/ (x \in Callee /\ dialog'[x] = NewDialog(FALSE))
      BY <2>1 DEF DialogMade
    <2>3. \A b : /\ ~ NewDialog(b).start /\ ~ NewDialog(b).end /\ NewDialog(b).invite = b
      BY DEF NewDialog
    <2>4. ASSUME x \in Callee
          PROVE  On("StartCall", x) \in AllWork'
      <3>1. PICK c \in Caller, p \in Port : s = <<Step("Insert", c, x, p), On("StartCall", x)>>
        BY <1>1, <2>1, <2>4 DEF DialogMade
      <3>2. On("StartCall", x) \in Elements(s)
        BY <3>1, Within
      <3> QED
        BY <1>2, <3>2
    <2> QED
      BY <1>1, <2>2, <2>3, <2>4
  <1>4. ASSUME NEW x, Known(x)', Known(x)
        PROVE  /\ x \in Caller => dialog'[x].invite = ~ dialog'[x].start
               /\ x \notin Caller => ~ dialog'[x].invite
               /\ dialog'[x].end => On("DeleteDialog", x) \in AllWork'
               /\ x \in Callee /\ ~ dialog'[x].start /\ ~ dialog'[x].end =>
                    x \in pending' \/ On("StartCall", x) \in AllWork'
    <2>1. /\ DialogKept(t, x) /\ dialog[x] \in CSipDialog /\ dialog'[x] \in CSipDialog
          /\ x \in pending /\ x \notin pending' => dialog'[x].end \/ dialog'[x].start
      BY <1>4, DialogStep
    <2>2. /\ x \in Caller => dialog[x].invite = ~ dialog[x].start
          /\ x \notin Caller => ~ dialog[x].invite
          /\ dialog[x].end => Due("DeleteDialog", x)
          /\ x \in Callee /\ ~ dialog[x].start /\ ~ dialog[x].end => x \in pending \/ Due("StartCall", x)
      BY <1>1, <1>4 DEF Dialogs, Known
    <2>3. x \in Caller => ~ Answered(t, x)
      BY <1>1 DEF Answered
    <2>4. /\ x \in Caller => dialog'[x].invite = ~ dialog'[x].start
          /\ x \notin Caller => ~ dialog'[x].invite
      BY <2>1, <2>2, <2>3 DEF DialogKept, CSipDialog
    <2>5. ASSUME dialog'[x].end
          PROVE  On("DeleteDialog", x) \in AllWork'
      <3>1. dialog[x].end \/ Hangup(t, x)
        BY <2>1, <2>5 DEF DialogKept
      <3>2. Hangup(t, x) => On("DeleteDialog", x) \in Elements(s)
        BY GoneFacts, Within
      <3>3. dialog[x].end => On("DeleteDialog", x) \in AllWork'
        BY <1>4, <2>2, DueKept, GoneFacts DEF Due, On, Step
      <3> QED
        BY <1>2, <3>1, <3>2, <3>3
    <2>6. ASSUME x \in Callee, ~ dialog'[x].start, ~ dialog'[x].end
          PROVE  x \in pending' \/ On("StartCall", x) \in AllWork'
      <3>1. x \in pending \/ Due("StartCall", x)
        BY <2>1, <2>2, <2>6 DEF DialogKept
      <3>2. Due("StartCall", x) => On("StartCall", x) \in AllWork' \/ x \in pending'
        BY DueKept, GoneFacts DEF Due, On, Step
      <3> QED
        BY <2>1, <2>6, <3>1, <3>2
    <2> QED
      BY <2>4, <2>5, <2>6
  <1> QED
    BY <1>3, <1>4 DEF Dialogs, Known, Due, On, Step

\* A leg that is not live, once used, is never live again.
LEMMA LiveStep ==
  ASSUME NEW t, NEW r, NEW s, OneStep(t, r, s), NEW x \in used
  PROVE  /\ Known(x)' => Known(x) /\ DialogKept(t, x)
         /\ Live(x)' => Live(x)
  <1>1. ASSUME Known(x)'
        PROVE  Known(x) /\ DialogKept(t, x)
    <2>1. Known(x)
      BY <1>1, DialogStep DEF DialogMade
    <2> QED
      BY <1>1, <2>1, DialogStep
  <1>2. ASSUME Live(x)'
        PROVE  Live(x)
    <2>1. Known(x)' /\ ~ dialog'[x].end
      BY <1>2 DEF Live
    <2> QED
      BY <1>1, <2>1 DEF Live, DialogKept
  <1> QED
    BY <1>1, <1>2

\* Entries are not changed; those of legs that were there are not added.
LEMMA EntryStep ==
  ASSUME NEW t, NEW r, NEW s, OneStep(t, r, s), NEW x \in DOMAIN calls'
  PROVE  /\ \/ x \in DOMAIN calls /\ calls'[x] = calls[x]
            \/ \E c \in Caller, d \in Callee, p \in Port : Inserted(t, c, d, p) /\ x \in {c, d}
         /\ Placed(x) => x \in DOMAIN calls /\ calls'[x] = calls[x]
  <1>1. CASE calls' = calls
    BY <1>1
  <1>2. ASSUME NEW y, Deleted(t, y)
        PROVE  x \in DOMAIN calls /\ calls'[x] = calls[x]
    BY <1>2, DeletedPair
  <1>3. ASSUME NEW c \in Caller, NEW d \in Callee, NEW p \in Port, Inserted(t, c, d, p)
        PROVE  /\ (x \in DOMAIN calls /\ calls'[x] = calls[x]) \/ x \in {c, d}
               /\ ~ Placed(c) /\ ~ Placed(d)
    <2>1. /\ \A y : y \in DOMAIN calls' <=> (y \in DOMAIN calls \/ y = c \/ y = d)
          /\ \A y \in DOMAIN calls : calls'[y] = calls[y]
      BY <1>3, InsertedPair
    <2> QED
      BY <1>3, <2>1, InsertedFacts
  <1>4. \/ calls' = calls
        \/ \E y \in Leg : Deleted(t, y)
        \/ \E c \in Caller, d \in Callee, p \in Port : Inserted(t, c, d, p)
    BY StepFacts DEF Frame
  <1> QED
    BY <1>1, <1>2, <1>3, <1>4

LEMMA PairedStep ==
  ASSUME NEW t, NEW r, NEW s, OneStep(t, r, s), NEW x, NEW y, Paired(x, y), Placed(x), Placed(y)
  PROVE  Paired(x, y)'
  <1>1. x \in DOMAIN calls' => calls'[x].peer = y
    BY EntryStep DEF Paired
  <1>2. y \in DOMAIN calls' => calls'[y].peer = x
    BY EntryStep DEF Paired
  <1> QED
    BY <1>1, <1>2 DEF Paired

LEMMA Peers ==
  ASSUME Pairs, PlacedInv, NEW x \in DOMAIN calls
  PROVE  /\ x \in Leg /\ calls[x].peer \in Leg /\ calls[x].peer \in DOMAIN calls
         /\ Placed(x) /\ Placed(calls[x].peer) /\ Paired(x, calls[x].peer) /\ Paired(calls[x].peer, x)
         /\ x \in Caller <=> calls[x].peer \in Callee
  <1>1. LET y == calls[x].peer IN
        /\ y \in DOMAIN calls /\ calls[y].peer = x
        /\ (x \in Caller /\ y \in Callee) \/ (x \in Callee /\ y \in Caller)
    BY DEF Pairs
  <1>2. Placed(x) /\ Placed(calls[x].peer)
    BY <1>1 DEF PlacedInv
  <1> QED
    BY <1>1, <1>2, SipServerCallsAssumption DEF Paired, Leg

LEMMA InLeg ==
  ASSUME Handlers, NEW u \in Thread, NEW x \in Leg, NEW do, On(do, x) \in Work(u)
  PROVE  x \in used
  <1>1. On(do, x) \in AllWork /\ On(do, x).call = x /\ x # NoCallId
    BY OnFields, Legs DEF AllWork
  <1> QED
    BY <1>1 DEF Handlers

LEMMA Ending_1 ==
  ASSUME NEW t, NEW r, NEW s, OneStep(t, r, s)
  PROVE  Ending'
  <1>1. /\ t \in Thread /\ TypeInv /\ Turn(t, r, s) /\ Handlers /\ Pairs /\ PlacedInv /\ Ending
        /\ todo[t] = r /\ todo'[t] = s /\ \A u \in Thread \ {t} : todo'[u] = todo[u]
    BY StepFacts
  <1>2. ASSUME NEW x \in Leg, NEW u \in Thread, On("DeleteDialog", x) \in Elements(todo'[u])
        PROVE  ~ Live(x)'
    <2>1. CASE On("DeleteDialog", x) \in Work(u)
      BY <1>1, <2>1, InLeg, LiveStep DEF Ending
    <2>2. CASE u = t /\ Hangup(t, x)
      BY <2>2, GoneFacts DEF Live
    <2>3. On("DeleteDialog", x) \in Work(u) \/ (u = t /\ Hangup(t, x))
      BY <1>1, <1>2, NewDue DEF Work
    <2> QED
      BY <2>1, <2>2, <2>3
  <1>3. ASSUME NEW x \in Leg, NEW y \in Leg, NEW u \in Thread, todo'[u] \in {Stops(x, y), Saves(x, y)}
        PROVE  Paired(x, y)'
    <2>1. CASE todo[u] \in {Stops(x, y), Saves(x, y)}
      <3>1. On("Delete", x) \in Work(u)
        BY <2>1, Within DEF Work
      <3>2. Paired(x, y) /\ Placed(x) /\ Placed(y)
        BY <1>1, <2>1, <3>1 DEF Ending, PlacedInv
      <3> QED
        BY <3>2, PairedStep
    <2>2. CASE u = t
      <3>1. r = Saves(x, y) \/ (x \in DOMAIN calls /\ y = calls[x].peer)
        BY <1>1, <1>3, <2>2, StopsTurn
      <3>2. ASSUME x \in DOMAIN calls, y = calls[x].peer
            PROVE  Paired(x, y) /\ Placed(x) /\ Placed(y)
        BY <1>1, <3>2, Peers
      <3> QED
        BY <1>1, <2>1, <2>2, <3>1, <3>2, PairedStep
    <2> QED
      BY <1>1, <1>3, <2>1, <2>2
  <1>4. ASSUME NEW x \in Leg, NEW u \in Thread,
               todo'[u] \in {<<On("TransEnd", x), On("DeleteDialog", x)>>, <<On("DeleteDialog", x)>>}
        PROVE  x \notin DOMAIN calls' \/ x \in broken'
    <2>1. CASE todo[u] \in {<<On("TransEnd", x), On("DeleteDialog", x)>>, <<On("DeleteDialog", x)>>}
      <3>1. On("DeleteDialog", x) \in Work(u)
        BY <2>1, Within DEF Work
      <3>2. ~ Live(x) /\ (x \notin DOMAIN calls \/ x \in broken)
        BY <1>1, <2>1, <3>1 DEF Ending
      <3>3. ASSUME NEW c, NEW d, NEW p, Inserted(t, c, d, p), x \in {c, d}
            PROVE  x \in broken'
        BY <3>2, <3>3 DEF Inserted, InsertedLate
      <3>4. broken \subseteq broken'
        BY StepFacts DEF Frame
      <3> QED
        BY <3>2, <3>3, <3>4, EntryStep
    <2>2. CASE u = t
      <3>1. \/ r = <<On("TransEnd", x), On("DeleteDialog", x)>>
            \/ x \notin DOMAIN calls /\ EndEvent(t, x)
            \/ Deleted(t, x)
        BY <1>1, <1>4, <2>2, EndTurn
      <3>2. EndEvent(t, x) => calls' = calls
        BY DEF EndEvent
      <3>3. Deleted(t, x) => x \notin DOMAIN calls'
        BY DeletedPair
      <3> QED
        BY <1>1, <2>1, <2>2, <3>1, <3>2, <3>3
    <2> QED
      BY <1>1, <1>4, <2>1, <2>2
  <1> QED
    BY <1>2, <1>3, <1>4 DEF Ending, Work, Stops, Saves, On, Step

\* A pair leaves the map when one of its legs has ended.
LEMMA OutOfMap ==
  ASSUME NEW t, NEW r, NEW s, OneStep(t, r, s), NEW x \in DOMAIN calls, x \notin DOMAIN calls'
  PROVE  \E y \in {x, calls[x].peer} :
           /\ Deleted(t, y) /\ y \in Leg /\ On("DeleteDialog", y) \in AllWork
           /\ ~ Live(y) /\ ~ Live(y)' /\ calls[x].peer \notin DOMAIN calls'
  <1>1. PICK y \in Leg : Deleted(t, y)
    <2>1. \A c \in Caller, d \in Callee, p \in Port : Inserted(t, c, d, p) => DOMAIN calls \subseteq DOMAIN calls'
      BY InsertedPair
    <2> QED
      BY <2>1, StepFacts DEF Frame
  <1>2. /\ r = Ends(y)
        /\ \A z : z \in DOMAIN calls' <=>
                   z \in DOMAIN calls /\ ~ (y \in DOMAIN calls /\ (z = y \/ z = calls[y].peer))
    BY <1>1, DeletedPair
  <1>3. /\ t \in Thread /\ Handlers /\ Pairs /\ PlacedInv /\ Ending /\ todo[t] = r
    BY StepFacts
  <1>4. y \in {x, calls[x].peer} /\ calls[x].peer \notin DOMAIN calls'
    BY <1>2, <1>3 DEF Pairs
  <1>5. On("DeleteDialog", y) \in Work(t)
    BY <1>2, <1>3, Within DEF Work
  <1>6. ~ Live(y) /\ y \in used
    BY <1>3, <1>5, InLeg DEF Ending
  <1>7. ~ Live(y)'
    BY <1>6, LiveStep
  <1> QED
    BY <1>1, <1>3, <1>4, <1>5, <1>6, <1>7 DEF AllWork

LEMMA Starting_1 ==
  ASSUME NEW t, NEW r, NEW s, OneStep(t, r, s)
  PROVE  Starting'
  <1>1. /\ t \in Thread /\ Turn(t, r, s) /\ Pairs /\ PlacedInv /\ Starting
        /\ todo[t] = r /\ todo'[t] = s /\ \A u \in Thread \ {t} : todo'[u] = todo[u]
    BY StepFacts
  <1>2. \A d \in Callee, u \in Thread : todo[u] \in StartForms(d) => Placed(d) /\ d \in used
    BY <1>1 DEF PlacedInv, Placed
  <1>3. ASSUME NEW d \in Callee, NEW u \in Thread, todo'[u] \in StartForms(d),
               todo'[u] # <<On("StartCall", d)>>, Known(d)'
        PROVE  dialog'[d].start
    <2>1. CASE todo[u] \in StartForms(d) /\ todo[u] # <<On("StartCall", d)>>
      <3>1. Known(d) /\ DialogKept(t, d)
        BY <1>2, <1>3, <2>1, LiveStep
      <3> QED
        BY <1>1, <2>1, <3>1 DEF Starting, DialogKept
    <2>2. CASE Answered(t, d)
      BY <2>2, GoneFacts
    <2>3. (todo[u] \in StartForms(d) /\ todo[u] # <<On("StartCall", d)>>) \/ Answered(t, d)
      BY <1>1, <1>3, StartTurn
    <2> QED
      BY <2>1, <2>2, <2>3
  <1>4. ASSUME NEW d \in Callee, NEW u \in Thread,
               todo'[u] \in {<<On("TransStart", d)>>, <<On("StopCall", d)>>}
        PROVE  d \notin DOMAIN calls'
    <2>1. CASE todo[u] \in {<<On("TransStart", d)>>, <<On("StopCall", d)>>}
      <3>1. d \notin DOMAIN calls /\ Placed(d)
        BY <1>1, <1>2, <2>1 DEF Starting, StartForms
      <3> QED
        BY <3>1, EntryStep
    <2>2. CASE u = t
      <3>1. StartEvent(t, d) /\ (r = <<On("TransStart", d)>> \/ d \notin DOMAIN calls)
        BY <1>1, <1>4, <2>2, TransTurn
      <3>2. calls' = calls
        BY <3>1 DEF StartEvent
      <3> QED
        BY <1>1, <2>1, <2>2, <3>1, <3>2
    <2> QED
      BY <1>1, <1>4, <2>1, <2>2
  <1>5. ASSUME NEW d \in Callee, NEW c \in Caller, NEW u \in Thread, todo'[u] = <<Step("AcceptCall", c, d, 0)>>
        PROVE  Paired(c, d)' /\ (d \in DOMAIN calls' \/ ~ Live(c)' \/ ~ Live(d)')
    <2>1. CASE todo[u] = <<Step("AcceptCall", c, d, 0)>>
      <3>1. /\ Paired(c, d) /\ Placed(c) /\ Placed(d) /\ c \in used /\ d \in used
            /\ d \in DOMAIN calls \/ ~ Live(c) \/ ~ Live(d)
        BY <1>1, <1>2, <2>1 DEF Starting, StartForms, PlacedInv, Placed
      <3>2. CASE d \in DOMAIN calls /\ d \notin DOMAIN calls'
        <4>1. calls[d].peer = c
          BY <3>1, <3>2 DEF Paired
        <4>2. PICK y \in {d, c} : ~ Live(y)'
          BY <3>2, <4>1, OutOfMap
        <4> QED
          BY <3>1, <4>2, PairedStep DEF Live, Known
      <3>3. CASE d \in DOMAIN calls'
        BY <3>1, <3>3, PairedStep
      <3>4. CASE ~ Live(c) \/ ~ Live(d)
        BY <3>1, <3>4, PairedStep, LiveStep
      <3> QED
        BY <3>1, <3>2, <3>3, <3>4
    <2>2. CASE u = t
      <3>1. StartEvent(t, d) /\ d \in DOMAIN calls /\ c = calls[d].peer
        BY <1>1, <1>5, <2>2, AcceptTurn
      <3>2. calls' = calls
        BY <3>1 DEF StartEvent
      <3>3. Paired(c, d) /\ Placed(c) /\ Placed(d)
        BY <1>1, <3>1, Peers
      <3> QED
        BY <3>1, <3>2, <3>3, PairedStep
    <2> QED
      BY <1>1, <1>5, <2>1, <2>2
  <1> QED
    BY <1>3, <1>4, <1>5 DEF Starting, StartForms, On, Step

LEMMA BrokenPairs_1 ==
  ASSUME NEW t, NEW r, NEW s, OneStep(t, r, s)
  PROVE  BrokenPairs'
  <1>1. t \in Thread /\ Pairs /\ PlacedInv /\ Starting /\ BrokenPairs /\ todo[t] = r /\ Frame(t, r, s)
    BY StepFacts
  <1>2. ASSUME NEW x \in DOMAIN calls, x \notin broken, x \in broken'
        PROVE  calls[x].peer \in broken'
    <2>1. Placed(x)
      BY <1>1 DEF PlacedInv
    <2>2. ASSUME NEW c \in Caller, NEW d \in Callee, NEW p \in Port, Inserted(t, c, d, p)
          PROVE  FALSE
      <3>1. broken' \subseteq broken \cup {c, d}
        BY <2>2 DEF Inserted, InsertedLate
      <3> QED
        BY <1>2, <2>1, <2>2, <3>1, InsertedFacts
    <2>3. ASSUME NEW c \in Caller, NEW d \in Callee, Accepted(t, c, d), r = <<Step("AcceptCall", c, d, 0)>>
          PROVE  calls[x].peer \in broken'
      <3>1. x \in {c, d} /\ {c, d} \subseteq broken'
        BY <1>2, <2>3 DEF Accepted
      <3>2. Paired(c, d)
        BY <1>1, <2>3 DEF Starting
      <3> QED
        BY <3>1, <3>2 DEF Paired
    <2> QED
      BY <1>1, <1>2, <2>2, <2>3 DEF Frame
  <1>3. ASSUME NEW c \in Caller, NEW d \in Callee, NEW p \in Port, Inserted(t, c, d, p),
               c \in broken' \/ d \in broken'
        PROVE  calls'[c].peer \in broken' /\ calls'[d].peer \in broken'
    <2>1. calls'[c].peer = d /\ calls'[d].peer = c
      BY <1>3, InsertedPair
    <2>2. {c, d} \subseteq broken'
      BY <1>3 DEF Inserted, InsertedLate
    <2> QED
      BY <2>1, <2>2
  <1>4. ASSUME NEW x \in DOMAIN calls', x \in broken'
        PROVE  calls'[x].peer \in broken'
    <2>1. CASE x \in DOMAIN calls /\ calls'[x] = calls[x]
      BY <1>1, <1>2, <1>4, <2>1 DEF BrokenPairs, Frame
    <2> QED
      BY <1>3, <1>4, <2>1, EntryStep
  <1> QED
    BY <1>4 DEF BrokenPairs

\* An INVITE is sent and gets an answer, or its leg ends.
LEMMA InviteStep ==
  ASSUME NEW t, NEW r, NEW s, OneStep(t, r, s), NEW x, x \in pending \/ Due("StartCall", x)
  PROVE  x \in pending' \/ Due("StartCall", x)' \/ Due("DeleteDialog", x)' \/ Due("EventCallStart", x)'
  <1>1. t \in Thread /\ TypeInv /\ Moves(t, r, s)
    BY StepFacts
  <1>2. \A e \in Elements(s) : e \in AllWork'
    BY <1>1, AfterMove
  <1>3. CASE x \in pending /\ x \notin pending'
    <2>1. Hangup(t, x) \/ Answered(t, x)
      BY <1>3, StepFacts DEF Frame
    <2>2. On("DeleteDialog", x) \in Elements(s) \/ On("EventCallStart", x) \in Elements(s)
      BY <2>1, GoneFacts, Within
    <2> QED
      BY <1>2, <2>2 DEF Due, On, Step
  <1>4. CASE Due("StartCall", x)
    BY <1>4, DueKept, GoneFacts
  <1> QED
    BY <1>3, <1>4

LEMMA EndedLeaves ==
  ASSUME NEW t, NEW r, NEW s, OneStep(t, r, s), NEW x, Due("DeleteDialog", x)
  PROVE  Leaves(x)'
  BY DueKept, GoneFacts DEF Leaves

\* StopCall leaves a dialog that has ended, or whose INVITE has no answer yet.
LEMMA StoppedLeaves ==
  ASSUME NEW t, NEW r, NEW s, OneStep(t, r, s), NEW x \in used, Stopped(t, x)
  PROVE  Leaves(x)'
  <1>1. TypeInv /\ Dialogs
    BY StepFacts
  <1>2. CASE ~ Known(x)'
    BY <1>2 DEF Leaves
  <1>3. CASE Known(x)'
    <2>1. Known(x) /\ x \in Leg
      BY <1>3, LiveStep DEF Stopped
    <2>2. CASE dialog[x].end
      BY <1>1, <2>1, <2>2, EndedLeaves DEF Dialogs, Known
    <2>3. CASE dialog'[x].cancel /\ ~ dialog[x].start /\ ~ dialog[x].end /\ ~ dialog[x].invite
      <3>1. x \in Callee
        BY <1>1, <2>1, <2>3 DEF Dialogs, Known, Leg
      <3>2. x \in pending \/ Due("StartCall", x)
        BY <1>1, <2>1, <2>3, <3>1 DEF Dialogs, Known
      <3>3. x \in pending' \/ Due("StartCall", x)' \/ Due("DeleteDialog", x)' \/ Due("EventCallStart", x)'
        BY <3>2, InviteStep
      <3> QED
        BY <2>3, <3>3 DEF Leaves
    <2> QED
      BY <1>1, <1>3, <2>1, <2>2, <2>3, StoppedDialog
  <1> QED
    BY <1>2, <1>3

LEMMA StepInLeg ==
  ASSUME Handlers, NEW c \in Leg, NEW x, Step("AcceptCall", c, x, 0) \in AllWork
  PROVE  c \in used
  BY OnFields, Legs DEF Handlers

\* A leg goes on leaving, unless it is answered in a pair.
LEMMA LeavesStep ==
  ASSUME NEW t, NEW r, NEW s, OneStep(t, r, s), NEW x \in used, Leaves(x)
  PROVE  Leaves(x)' \/ (x \in DOMAIN calls /\ Live(calls[x].peer))
  <1>1. TypeInv /\ Handlers /\ Pairs /\ PlacedInv /\ Dialogs
    BY StepFacts
  <1>2. CASE x \in broken
    BY <1>2, StepFacts DEF Frame, Leaves
  <1>3. CASE ~ Known(x)
    BY <1>3, LiveStep DEF Leaves
  <1>4. CASE Due("DeleteDialog", x)
    BY <1>4, EndedLeaves
  <1>5. CASE Due("StopCall", x)
    BY <1>5, DueKept, StoppedLeaves DEF Leaves
  <1>6. CASE Due("TransStart", x)
    BY <1>6, DueKept DEF Leaves
  <1>7. CASE Due("EventCallStart", x)
    <2>1. CASE Due("EventCallStart", x)' \/ Due("TransStart", x)'
      BY <2>1 DEF Leaves
    <2>2. CASE x \in DOMAIN calls /\ Step("AcceptCall", calls[x].peer, x, 0) \in AllWork' /\ ~ Live(calls[x].peer)
      <3>1. calls[x].peer \in Leg /\ calls[x].peer \in used
        BY <1>1, <2>2, Peers DEF Placed
      <3>2. PICK c \in Leg : c = calls[x].peer
        BY <3>1
      <3>3. ~ Live(c)' /\ Step("AcceptCall", c, x, 0) \in AllWork'
        BY <2>2, <3>1, <3>2, LiveStep
      <3> QED
        BY <3>3 DEF Leaves, Step
    <2> QED
      BY <1>7, <2>1, <2>2, DueKept
  <1>8. CASE Known(x) /\ dialog[x].cancel /\ (x \in pending \/ Due("StartCall", x))
    <2>1. x \in pending' \/ Due("StartCall", x)' \/ Due("DeleteDialog", x)' \/ Due("EventCallStart", x)'
      BY <1>8, InviteStep
    <2>2. Known(x)' => dialog'[x].cancel
      BY <1>8, LiveStep DEF DialogKept
    <2> QED
      BY <2>1, <2>2 DEF Leaves
  <1>9. ASSUME NEW c \in Leg, Step("AcceptCall", c, x, 0) \in AllWork, ~ Live(c)
        PROVE  Leaves(x)'
    <2>1. ~ Live(c)'
      BY <1>1, <1>9, StepInLeg, LiveStep
    <2>2. Accepted(t, c, x) => x \in broken'
      BY <1>9 DEF Accepted
    <2>3. Step("AcceptCall", c, x, 0) \in AllWork' \/ Accepted(t, c, x)
      BY <1>9, DueKept
    <2> QED
      BY <2>1, <2>2, <2>3 DEF Leaves, Step
  <1> QED
    BY <1>2, <1>3, <1>4, <1>5, <1>6, <1>7, <1>8, <1>9 DEF Leaves

\* The handler of an INVITE goes on, or its call goes its way.
LEMMA SetupLeft ==
  ASSUME NEW t, NEW r, NEW s, Turn(t, r, s), NEW c \in Caller, r \in SetupForms(c)
  PROVE  \/ s \in SetupForms(c)
         \/ Forwarded(t, c) /\ s = <<>>
         \/ Stopped(t, c)
         \/ \E d \in Callee, p \in Port : Inserted(t, c, d, p)
  <1>1. /\ Head(r).do \in {"Forward", "CreatePort", "CreateCall", "Insert"} /\ Head(r).call = c
        \/ r = Refuse(c) \/ r = <<On("StopCall", c)>>
    BY Firsts DEF SetupForms
  <1>2. r # <<>> /\ Caller \cap Callee = {}
    BY Different, SipServerCallsAssumption DEF SetupForms
  <1>3. /\ \A p \in Port : <<Step("CreateCall", c, NoCallId, p)>> \in SetupForms(c)
        /\ \A d \in Callee, p \in Port : <<Step("Insert", c, d, p), On("StartCall", d)>> \in SetupForms(c)
        /\ Refuse(c) \in SetupForms(c) /\ <<On("StopCall", c)>> \in SetupForms(c)
    BY DEF SetupForms
  <1>4. CASE Head(r).do = "Forward" /\ Head(r).call = c
    BY <1>2, <1>3, <1>4, Firsts, Different DEF Turn
  <1>5. CASE Head(r).do = "CreatePort" /\ Head(r).call = c
    BY <1>2, <1>3, <1>5, Firsts, Different DEF Turn
  <1>6. CASE Head(r).do = "CreateCall" /\ Head(r).call = c
    BY <1>2, <1>3, <1>6, Firsts, Different DEF Turn
  <1>7. CASE Head(r).do = "Insert" /\ Head(r).call = c
    BY <1>2, <1>7, Firsts, Different DEF Turn
  <1>8. CASE r = Refuse(c)
    <2>1. Head(r).do = "SaveCdr"
      BY <1>8, Firsts
    <2> QED
      BY <1>2, <1>3, <1>8, <2>1, Firsts, Different, Same DEF Turn
  <1>9. CASE r = <<On("StopCall", c)>>
    <2>1. Head(r).do = "StopCall" /\ Head(r).call = c
      BY <1>9, Firsts
    <2> QED
      BY <1>2, <1>9, <2>1, Firsts, Different DEF Turn
  <1> QED
    BY <1>1, <1>4, <1>5, <1>6, <1>7, <1>8, <1>9

LEMMA InsertLeft ==
  ASSUME NEW t, NEW r, NEW s, Turn(t, r, s), NEW c, NEW d, NEW p,
         r = <<Step("Insert", c, d, p), On("StartCall", d)>>
  PROVE  Inserted(t, c, d, p)
  <1>1. Head(r).do = "Insert" /\ Head(r).call = c /\ Head(r).peer = d /\ Head(r).port = p /\ r # <<>>
    BY Firsts, Different
  <1> QED
    BY <1>1, Firsts, Different DEF Turn

\* A leg of a pair loses its dialog when its peer ends.
LEMMA LostInPair ==
  ASSUME NEW t, NEW r, NEW s, OneStep(t, r, s), NEW x \in DOMAIN calls, Known(x), ~ Known(x)'
  PROVE  x \in broken \/ s = Ends(calls[x].peer)
  <1>1. /\ t \in Thread /\ Pairs /\ PlacedInv /\ Ending /\ Starting /\ todo[t] = r /\ DialogLost(t, r, s, x)
    BY StepFacts DEF DialogFrame
  <1>2. Placed(x) /\ x \in Leg
    BY <1>1, Peers
  <1>3. ~ (x \in Caller /\ r \in {<<On("Forward", x)>>, <<On("StopCall", x)>>})
    BY <1>1, <1>2 DEF Placed, Setup, SetupForms
  <1>4. ~ (x \in Callee /\ r = <<On("StopCall", x)>>)
    BY <1>1 DEF Starting
  <1>5. ASSUME NEW y \in Leg, r = Stops(y, x), s = Ends(y)
        PROVE  s = Ends(calls[x].peer)
    <2>1. Paired(y, x)
      BY <1>1, <1>2, <1>5 DEF Ending
    <2> QED
      BY <1>5, <2>1 DEF Paired
  <1>6. r = <<On("DeleteDialog", x)>> => x \in broken
    BY <1>1, <1>2 DEF Ending
  <1> QED
    BY <1>1, <1>2, <1>3, <1>4, <1>5, <1>6 DEF DialogLost, StopsLeg, Leg

LEMMA InDeleted ==
  ASSUME NEW t, NEW r, NEW s, OneStep(t, r, s), NEW y, Deleted(t, y)
  PROVE  todo[t] = Ends(y) /\ On("DeleteDialog", y) \in AllWork'
  <1>1. r = Ends(y) /\ s = <<On("DeleteDialog", y)>>
    BY DeletedPair
  <1>2. On("DeleteDialog", y) \in Elements(s)
    BY <1>1, Within
  <1> QED
    BY <1>1, <1>2, StepFacts, AfterMove

\* A pair's leg is covered as long as the pair lasts, and leaves with it.
LEMMA PairCovers ==
  ASSUME NEW t, NEW r, NEW s, OneStep(t, r, s), NEW x, HasPeer(x)
  PROVE  HasPeer(x)' \/ Leaves(x)'
  <1>1. /\ t \in Thread /\ Pairs /\ PlacedInv /\ BrokenPairs /\ PeerLeaves
        /\ x \in DOMAIN calls /\ Known(calls[x].peer)
    BY StepFacts DEF HasPeer
  <1>2. /\ Placed(x) /\ x \in used /\ x \in Leg
        /\ calls[x].peer \in DOMAIN calls /\ calls[calls[x].peer].peer = x
    BY <1>1, Peers DEF Placed, Paired
  <1>3. PICK y \in DOMAIN calls : y = calls[x].peer
    BY <1>2
  <1>4. CASE x \in DOMAIN calls'
    <2>1. calls'[x] = calls[x]
      BY <1>2, <1>4, EntryStep
    <2>2. CASE ~ Known(y)'
      <3>1. y \in broken \/ s = Ends(x)
        BY <1>1, <1>2, <1>3, <2>2, LostInPair
      <3>2. y \in broken => x \in broken'
        BY <1>1, <1>2, <1>3, StepFacts DEF BrokenPairs, Frame
      <3>3. s = Ends(x) => On("DeleteDialog", x) \in AllWork'
        BY StepFacts, AfterMove, Within
      <3> QED
        BY <3>1, <3>2, <3>3 DEF Leaves, Due, On, Step
    <2> QED
      BY <1>3, <1>4, <2>1, <2>2 DEF Known, HasPeer
  <1>5. CASE x \notin DOMAIN calls'
    <2>1. PICK z \in {x, y} : Deleted(t, z) /\ ~ Live(z)
      BY <1>1, <1>3, <1>5, OutOfMap
    <2>2. CASE z = x
      BY <2>1, <2>2, InDeleted DEF Leaves, Due, On, Step
    <2>3. CASE z = y
      <3>1. Leaves(x)
        BY <1>1, <1>2, <1>3, <2>1, <2>3, InDeleted DEF PeerLeaves
      <3> QED
        BY <1>2, <1>3, <2>1, <2>3, <3>1, LeavesStep
    <2> QED
      BY <2>1, <2>2, <2>3
  <1> QED
    BY <1>4, <1>5

\* A pair that was inserted covers both its legs, unless one had ended.
LEMMA InsertCovers ==
  ASSUME NEW t, NEW r, NEW s, OneStep(t, r, s), NEW c \in Caller, NEW d \in Callee, NEW p \in Port,
         Inserted(t, c, d, p), NEW x \in {c, d}
  PROVE  HasPeer(x)' \/ Leaves(x)'
  <1>1. dialog' = dialog /\ broken' = broken \cup InsertedLate(c, d)
    BY DEF Inserted
  <1>2. c \in DOMAIN calls' /\ d \in DOMAIN calls' /\ calls'[c].peer = d /\ calls'[d].peer = c
    BY InsertedPair
  <1>3. CASE Known(c) /\ Known(d)
    BY <1>1, <1>2, <1>3 DEF Known, HasPeer
  <1>4. CASE ~ (Known(c) /\ Known(d))
    BY <1>1, <1>4 DEF InsertedLate, Live, Leaves
  <1> QED
    BY <1>3, <1>4

LEMMA Covered_1 ==
  ASSUME NEW t, NEW r, NEW s, OneStep(t, r, s)
  PROVE  Covered'
  <1>1. /\ t \in Thread /\ Turn(t, r, s) /\ Handlers /\ Pairs /\ PlacedInv /\ Covered
        /\ todo[t] = r /\ todo'[t] = s /\ \A u \in Thread \ {t} : todo'[u] = todo[u]
    BY StepFacts
  <1> DEFINE In(x) == HasPeer(x)' \/ Leaves(x)'
  <1>2. ASSUME NEW x, Known(x)', ~ Known(x)
        PROVE  (\E u \in Thread, c \in Caller, p \in Port : todo'[u] = <<Step("Insert", c, x, p), On("StartCall", x)>>)
               \/ (x \in Caller /\ \E u \in Thread : todo'[u] \in SetupForms(x))
    <2>1. DialogMade(t, s, x)
      BY <1>2, DialogStep
    <2>2. CASE x \in Caller /\ Invited(t, x)
      <3>1. PICK h \in {<<On("Forward", x)>>, <<On("CreatePort", x)>>, Refuse(x)} : Moves(t, <<>>, h)
        BY <2>2 DEF Invited
      <3>2. s = h
        BY <1>1, <3>1, StepFacts, AfterMove
      <3> QED
        BY <1>1, <2>2, <3>2 DEF SetupForms
    <2> QED
      BY <1>1, <2>1, <2>2 DEF DialogMade
  <1>3. ASSUME NEW x, Known(x)', Known(x), NEW u \in Thread, NEW c \in Caller, NEW p \in Port, Inserts(u, c, x, p)
        PROVE  In(x) \/ todo'[u] = <<Step("Insert", c, x, p), On("StartCall", x)>>
    <2>1. CASE u = t
      <3>1. Inserted(t, c, x, p)
        BY <1>1, <1>3, <2>1, InsertLeft DEF Inserts
      <3>2. x \in Callee
        BY <3>1 DEF Inserted
      <3> QED
        BY <3>1, <3>2, InsertCovers
    <2> QED
      BY <1>1, <1>3, <2>1 DEF Inserts
  <1>4. ASSUME NEW x, Known(x)', Known(x), NEW u \in Thread, Setup(u, x)
        PROVE  In(x) \/ (x \in Caller /\ todo'[u] \in SetupForms(x))
    <2>1. CASE u = t
      <3>1. r \in SetupForms(x) /\ x \in Caller
        BY <1>1, <1>4, <2>1 DEF Setup
      <3>2. CASE Forwarded(t, x) /\ s = <<>>
        <4>1. Refuse(x) # <<>>
          BY Different
        <4>2. ~ Moves(t, <<On("Forward", x)>>, Refuse(x))
          BY <1>1, <3>2, <4>1, StepFacts, AfterMove
        <4>3. dialog' = Without(dialog, {x})
          BY <3>2, <4>2 DEF Forwarded
        <4> QED
          BY <1>4, <4>3 DEF Without, Restrict, Known
      <3>3. CASE Stopped(t, x)
        BY <1>1, <1>4, <3>3, StoppedLeaves DEF Handlers, Known
      <3>4. CASE \E d \in Callee, p \in Port : Inserted(t, x, d, p)
        BY <3>1, <3>4, InsertCovers
      <3> QED
        BY <1>1, <2>1, <3>1, <3>2, <3>3, <3>4, SetupLeft
    <2> QED
      BY <1>1, <1>4, <2>1 DEF Setup
  <1>5. ASSUME NEW x, Known(x)', Known(x), Leaves(x)
        PROVE  In(x)
    <2>1. Leaves(x)' \/ HasPeer(x)
      BY <1>1, <1>5, LeavesStep DEF Handlers, Known, Live, HasPeer
    <2> QED
      BY <2>1, PairCovers
  <1>6. ASSUME NEW x, Known(x)'
        PROVE  \/ In(x)
               \/ \E u \in Thread, c \in Caller, p \in Port : todo'[u] = <<Step("Insert", c, x, p), On("StartCall", x)>>
               \/ x \in Caller /\ \E u \in Thread : todo'[u] \in SetupForms(x)
    <2>1. CASE Known(x)
      <3>1. \/ HasPeer(x)
            \/ \E u \in Thread, c \in Caller, p \in Port : Inserts(u, c, x, p)
            \/ \E u \in Thread : Setup(u, x)
            \/ Leaves(x)
        BY <1>1, <2>1 DEF Covered, NewLeg, Known
      <3>2. HasPeer(x) => In(x)
        BY PairCovers
      <3> HIDE DEF In
      <3> QED
        BY <1>3, <1>4, <1>5, <1>6, <2>1, <3>1, <3>2
    <2> QED
      BY <1>2, <1>6, <2>1
  <1>7. \A x \in Caller, u \in Thread : todo'[u] \in SetupForms(x) => Setup(u, x)'
    BY DEF Setup, SetupForms, Refuse, On, Step
  <1>8. ASSUME NEW x, NEW u \in Thread, NEW c \in Caller, NEW p \in Port,
               todo'[u] = <<Step("Insert", c, x, p), On("StartCall", x)>>
        PROVE  NewLeg(x)'
    BY <1>8 DEF NewLeg, Inserts, On, Step
  <1>9. ASSUME NEW x, Known(x)'
        PROVE  HasPeer(x)' \/ NewLeg(x)' \/ (\E u \in Thread : Setup(u, x)') \/ Leaves(x)'
    BY <1>6, <1>7, <1>8, <1>9
  <1> QED
    BY <1>9 DEF Covered, Known

\* A pair that is to be deleted has been there before.
LEMMA EntryDelete ==
  ASSUME NEW t, NEW r, NEW s, OneStep(t, r, s), NEW u \in Thread, NEW x \in DOMAIN calls',
         On("Delete", x) \in Elements(todo'[u])
  PROVE  x \in Leg /\ Placed(x) /\ x \in DOMAIN calls /\ calls'[x] = calls[x]
  <1>1. /\ t \in Thread /\ Turn(t, r, s) /\ Pairs /\ PlacedInv
        /\ todo[t] = r /\ todo'[t] = s /\ \A v \in Thread \ {t} : todo'[v] = todo[v]
    BY StepFacts
  <1>2. x \in Leg
    BY <1>1, EntryStep, Peers, Legs
  <1>3. Placed(x)
    <2>1. CASE On("Delete", x) \in Work(u)
      BY <1>1, <1>2, <2>1 DEF PlacedInv
    <2>2. CASE u = t /\ x \in DOMAIN calls
      BY <1>1, <2>2 DEF PlacedInv
    <2>3. On("Delete", x) \in Work(u) \/ (u = t /\ x \in DOMAIN calls)
      BY <1>1, NewDue DEF Work
    <2> QED
      BY <2>1, <2>2, <2>3
  <1> QED
    BY <1>2, <1>3, EntryStep

LEMMA PeerLeaves_1 ==
  ASSUME NEW t, NEW r, NEW s, OneStep(t, r, s)
  PROVE  PeerLeaves'
  <1>1. /\ t \in Thread /\ Turn(t, r, s) /\ Handlers /\ Pairs /\ PlacedInv /\ Ending /\ PeerLeaves
        /\ todo[t] = r /\ todo'[t] = s /\ \A u \in Thread \ {t} : todo'[u] = todo[u]
    BY StepFacts
  <1>2. ASSUME NEW u \in Thread, NEW x \in DOMAIN calls', todo'[u] = Ends(x)
        PROVE  \E y : y = calls'[x].peer /\ Leaves(y)'
    <2>1. x \in Leg /\ x \in DOMAIN calls /\ calls'[x] = calls[x]
      BY <1>2, EntryDelete, Within
    <2>2. PICK y \in Leg : y = calls[x].peer /\ y \in used /\ Paired(x, y) /\ Paired(y, x)
      BY <1>1, <2>1, Peers DEF Placed
    <2>3. CASE todo[u] = Ends(x)
      <3>1. Leaves(y) /\ ~ Live(x)
        BY <1>1, <2>1, <2>2, <2>3, Within DEF PeerLeaves, Ending, Work
      <3> QED
        BY <2>1, <2>2, <3>1, LeavesStep DEF Paired
    <2>4. CASE u = t
      <3>1. PICK z \in Leg : r = Stops(x, z) /\ Stopped(t, z)
        BY <1>1, <1>2, <2>4, StopsTurn
      <3>2. Paired(x, z)
        BY <1>1, <2>1, <3>1 DEF Ending
      <3>3. z = y
        BY <2>1, <2>2, <3>2 DEF Paired
      <3> QED
        BY <2>1, <2>2, <3>1, <3>3, StoppedLeaves
    <2> QED
      BY <1>1, <1>2, <2>3, <2>4
  <1> QED
    BY <1>2 DEF PeerLeaves, Ends, On, Step

LEMMA PairsGo_1 ==
  ASSUME NEW t, NEW r, NEW s, OneStep(t, r, s)
  PROVE  PairsGo'
  <1>1. t \in Thread /\ TypeInv /\ Pairs /\ PlacedInv /\ PairsGo /\ Frame(t, r, s) /\ todo'[t] = s /\ Moves(t, r, s)
    BY StepFacts
  <1>2. ASSUME NEW c, NEW d, NEW p, Inserted(t, c, d, p), NEW x \in {c, d}
        PROVE  Known(x)' \/ x \in broken'
    BY <1>2 DEF Inserted, InsertedLate, Live, Known
  <1>3. ASSUME NEW x \in DOMAIN calls, x \in DOMAIN calls'
        PROVE  \/ Known(x)' \/ x \in broken' \/ On("Delete", x) \in AllWork'
               \/ On("Delete", calls[x].peer) \in AllWork'
    <2>1. CASE Known(x) /\ ~ Known(x)'
      <3>1. x \in broken \/ s = Ends(calls[x].peer)
        BY <2>1, LostInPair
      <3>2. s = Ends(calls[x].peer) => On("Delete", calls[x].peer) \in AllWork'
        BY <1>1, AfterMove, Within
      <3> QED
        BY <1>1, <3>1, <3>2 DEF Frame
    <2>2. CASE x \in broken
      BY <1>1, <2>2 DEF Frame
    <2>3. ASSUME NEW y, y \in {x, calls[x].peer}, Due("Delete", y)
          PROVE  On("Delete", y) \in AllWork'
      <3>1. Deleted(t, y) => x \notin DOMAIN calls'
        BY <1>1, <2>3, DeletedPair DEF Pairs
      <3> QED
        BY <1>3, <2>3, <3>1, DueKept DEF Due, On, Step
    <2>4. Known(x) \/ x \in broken \/ Due("Delete", x) \/ Due("Delete", calls[x].peer)
      BY <1>1 DEF PairsGo
    <2> QED
      BY <2>1, <2>2, <2>3, <2>4
  <1>4. ASSUME NEW x \in DOMAIN calls'
        PROVE  \/ Known(x)' \/ x \in broken' \/ On("Delete", x) \in AllWork'
               \/ On("Delete", calls'[x].peer) \in AllWork'
    BY <1>2, <1>3, EntryStep
  <1> QED
    BY <1>4 DEF PairsGo, Known, Due, On, Step

LEMMA RecordedStays ==
  ASSUME NEW t, NEW r, NEW s, OneStep(t, r, s), NEW c \in used, Recorded(c)
  PROVE  Recorded(c)'
  BY LiveStep, StepFacts DEF Recorded, Frame

LEMMA SavedRecorded ==
  ASSUME NEW t, NEW c, Saved(t, c)
  PROVE  Recorded(c)'
  BY DEF Saved, Recorded, Known

\* A caller is joined when it is answered, with its pair in the map.
LEMMA JoinedStep ==
  ASSUME NEW t, NEW r, NEW s, OneStep(t, r, s), NEW c \in joined', c \notin joined
  PROVE  c \in Caller /\ Known(c)' /\ c \in DOMAIN calls'
  <1>1. PICK d \in Callee : Accepted(t, c, d) /\ c \in Caller \cap Receiving /\ Acceptable(c)
    BY StepFacts DEF Frame
  <1>2. dialog' = [dialog EXCEPT ![c].start = TRUE, ![c].invite = FALSE] /\ calls' = calls
    BY <1>1 DEF Accepted, Accept
  <1> QED
    BY <1>1, <1>2 DEF Acceptable, Known, Receiving

LEMMA Records_1 ==
  ASSUME NEW t, NEW r, NEW s, OneStep(t, r, s)
  PROVE  Records'
  <1>1. /\ t \in Thread /\ Turn(t, r, s) /\ Handlers /\ Pairs /\ PlacedInv /\ Ending /\ Records
        /\ todo[t] = r /\ todo'[t] = s /\ \A u \in Thread \ {t} : todo'[u] = todo[u]
        /\ recorded \subseteq recorded' /\ broken \subseteq broken'
    BY StepFacts DEF Frame
  <1>2. joined' \subseteq Caller
    BY <1>1, JoinedStep DEF Records
  <1>3. ASSUME NEW c \in joined' \ broken'
        PROVE  Known(c)' \/ c \in recorded'
    <2>1. CASE c \in joined /\ Known(c) /\ ~ Known(c)'
      <3>1. Placed(c) /\ c \in Caller /\ c \in Leg /\ c \notin broken
        BY <1>1, <1>3, <2>1, Legs DEF PlacedInv, Records
      <3>2. DialogLost(t, r, s, c)
        BY <2>1, StepFacts DEF DialogFrame
      <3>3. r # <<On("Forward", c)>>
        BY <1>1, <3>1 DEF Placed, Setup, SetupForms
      <3>4. CASE StopsLeg(t, r, s, c)
        <4>1. /\ \/ Elements(r) = {On("StopCall", c)}
                 \/ \E y \in Leg : Elements(r) = {On("StopCall", c), On("Delete", y), On("DeleteDialog", y)}
          BY <3>4, Within DEF StopsLeg
        <4>2. On("StopCall", c) \in Work(t) /\ On("SaveCdr", c) \notin Work(t)
          BY <1>1, <4>1, OnFields DEF Work
        <4> QED
          BY <1>1, <2>1, <3>1, <4>2 DEF Records, Recorded
      <3>5. CASE r = <<On("DeleteDialog", c)>>
        BY <1>1, <2>1, <3>1, <3>5 DEF Ending, Records
      <3> QED
        BY <3>2, <3>3, <3>4, <3>5 DEF DialogLost
    <2> QED
      BY <1>1, <1>3, <2>1, JoinedStep DEF Records
  <1>4. ASSUME NEW c \in joined' \ broken'
        PROVE  c \in DOMAIN calls' \/ c \in recorded'
    <2>1. CASE c \in joined /\ c \in DOMAIN calls /\ c \notin DOMAIN calls'
      <3>1. PICK y \in {c, calls[c].peer} : Deleted(t, y)
        BY <2>1, OutOfMap
      <3>2. y \in DOMAIN calls /\ c \in {y, calls[y].peer} /\ todo[t] = Ends(y)
        BY <1>1, <2>1, <3>1, Peers, InDeleted DEF Paired
      <3>3. c \in Caller /\ c \notin broken
        BY <1>1, <1>4, <2>1 DEF Records
      <3>4. Recorded(c)
        BY <1>1, <3>2, <3>3 DEF Records
      <3> QED
        BY <1>1, <2>1, <3>3, <3>4 DEF Records, Recorded
    <2> QED
      BY <1>1, <1>4, <2>1, JoinedStep DEF Records
  <1>5. ASSUME NEW c \in Caller, NEW u \in Thread,
               On("StopCall", c) \in Elements(todo'[u]), On("SaveCdr", c) \notin Elements(todo'[u])
        PROVE  Recorded(c)'
    <2>1. CASE On("StopCall", c) \in Work(u) /\ On("SaveCdr", c) \notin Work(u)
      <3>1. c \in used
        BY <1>1, <2>1, InLeg, Legs
      <3> QED
        BY <1>1, <2>1, <3>1, RecordedStays DEF Records
    <2>2. CASE Saved(t, c)
      BY <2>2, SavedRecorded
    <2> QED
      BY <1>1, <1>5, <2>1, <2>2, NewDue DEF Work
  <1>6. ASSUME NEW c \in Caller, NEW u \in Thread, NEW x \in DOMAIN calls',
               todo'[u] \in {Ends(x), Stops(x, calls'[x].peer)}, c \in {x, calls'[x].peer}
        PROVE  Recorded(c)'
    <2>1. x \in Leg /\ x \in DOMAIN calls /\ calls'[x] = calls[x]
      BY <1>6, EntryDelete, Within
    <2>2. PICK y \in Leg : /\ y = calls[x].peer /\ x \in used /\ y \in used
                           /\ Paired(x, y) /\ (x \in Caller <=> y \in Callee)
      BY <1>1, <2>1, Peers DEF Placed
    <2>3. ASSUME todo[u] \in {Ends(x), Stops(x, y)}
          PROVE  Recorded(c)'
      BY <1>1, <1>6, <2>1, <2>2, <2>3, RecordedStays DEF Records
    <2>4. CASE u = t /\ s = Ends(x)
      <3>1. PICK z \in Leg : r = Stops(x, z)
        BY <1>1, <2>4, StopsTurn
      <3>2. z = y
        BY <1>1, <2>1, <2>2, <3>1 DEF Ending, Paired
      <3> QED
        BY <1>1, <2>3, <2>4, <3>1, <3>2
    <2>5. CASE u = t /\ s = Stops(x, y)
      <3>1. Saved(t, IF x \in Caller THEN x ELSE y)
        BY <1>1, <2>5, StopsTurn
      <3>2. c = IF x \in Caller THEN x ELSE y
        BY <1>6, <2>1, <2>2, SipServerCallsAssumption
      <3> QED
        BY <3>1, <3>2, SavedRecorded
    <2> QED
      BY <1>1, <1>6, <2>1, <2>2, <2>3, <2>4, <2>5
  <1> QED
    BY <1>2, <1>3, <1>4, <1>5, <1>6 DEF Records, Recorded, Work, Ends, Stops, On, Step

\* The handler s has the RTP port p and has not put it into the map.
HoldsPort(s, p) ==
  \E c \in Caller :
    \/ s = <<Step("CreateCall", c, NoCallId, p)>>
    \/ \E d \in Callee : s = <<Step("Insert", c, d, p), On("StartCall", d)>>

LEMMA HoldingIs ==
  \A t, p : Holding(t, p) <=> HoldsPort(todo[t], p)
  BY DEF Holding, HoldsPort, Inserts

\* A new port is in the hands of the thread that made it.
LEMMA MadePort ==
  ASSUME NEW t, NEW r, NEW s, OneStep(t, r, s), NEW c, PortMade(t, c)
  PROVE  /\ \A p \in DOMAIN rtp : p \in DOMAIN rtp' /\ rtp'[p] = rtp[p]
         /\ \A p \in DOMAIN rtp' : p \in DOMAIN rtp \/ s = <<Step("CreateCall", c, NoCallId, p)>>
         /\ calls' = calls
  <1>1. ASSUME NEW q, Moves(t, <<On("CreatePort", c)>>, q)
        PROVE  s = q
    BY <1>1, StepFacts, AfterMove
  <1>2. CASE rtp' = rtp
    BY <1>2 DEF PortMade
  <1>3. ASSUME NEW q \in Port \ DOMAIN rtp, rtp' = With(rtp, q, FALSE),
               Moves(t, <<On("CreatePort", c)>>, <<Step("CreateCall", c, NoCallId, q)>>)
        PROVE  /\ \A p \in DOMAIN rtp : p \in DOMAIN rtp' /\ rtp'[p] = rtp[p]
               /\ \A p \in DOMAIN rtp' : p \in DOMAIN rtp \/ s = <<Step("CreateCall", c, NoCallId, p)>>
    BY <1>1, <1>3 DEF With
  <1> QED
    BY <1>2, <1>3 DEF PortMade

\* A handler comes to have a port when it makes it.
LEMMA HoldStep ==
  ASSUME NEW t, NEW r, NEW s, OneStep(t, r, s), NEW p, HoldsPort(s, p)
  PROVE  \/ HoldsPort(r, p)
         \/ p \in Port \ DOMAIN rtp /\ rtp' = With(rtp, p, FALSE)
  <1>1. PICK c \in Caller : \/ s = <<Step("CreateCall", c, NoCallId, p)>>
                            \/ \E d \in Callee : s = <<Step("Insert", c, d, p), On("StartCall", d)>>
    BY DEF HoldsPort
  <1>2. CASE s = <<Step("CreateCall", c, NoCallId, p)>>
    <2>1. PortMade(t, c) /\ p \in Port \ DOMAIN rtp /\ s # Refuse(c)
      BY <1>2, StepFacts, CreatesTurn, Different
    <2>2. ASSUME NEW q, s = <<Step("CreateCall", c, NoCallId, q)>>
          PROVE  q = p
      <3>1. Head(s).port = q /\ Head(s).port = p
        BY <1>2, <2>2, Firsts
      <3> QED
        BY <3>1
    <2>3. PICK q \in Port \ DOMAIN rtp : /\ Moves(t, <<On("CreatePort", c)>>, <<Step("CreateCall", c, NoCallId, q)>>)
                                         /\ rtp' = With(rtp, q, FALSE)
      <3>1. ~ Moves(t, <<On("CreatePort", c)>>, Refuse(c))
        BY <2>1, StepFacts, AfterMove
      <3> QED
        BY <2>1, <3>1 DEF PortMade
    <2>4. s = <<Step("CreateCall", c, NoCallId, q)>>
      BY <2>3, StepFacts, AfterMove
    <2> QED
      BY <2>1, <2>2, <2>3, <2>4
  <1>3. CASE \E d \in Callee : s = <<Step("Insert", c, d, p), On("StartCall", d)>>
    <2>1. PICK d \in Callee : s = <<Step("Insert", c, d, p), On("StartCall", d)>>
      BY <1>3
    <2>2. Turn(t, r, s)
      BY StepFacts
    <2>3. r = <<Step("CreateCall", c, NoCallId, p)>>
      BY <2>1, <2>2, InsertsTurn
    <2> QED
      BY <2>3 DEF HoldsPort
  <1> QED
    BY <1>1, <1>2, <1>3

\* It forgets the port, or puts it into the map.
LEMMA HoldLeft ==
  ASSUME NEW t, NEW r, NEW s, OneStep(t, r, s), NEW p, HoldsPort(r, p), ~ HoldsPort(s, p)
  PROVE  p \in lost' \/ \E c \in Caller, d \in Callee : Inserted(t, c, d, p)
  <1>1. PICK c \in Caller : \/ r = <<Step("CreateCall", c, NoCallId, p)>>
                            \/ \E d \in Callee : r = <<Step("Insert", c, d, p), On("StartCall", d)>>
    BY DEF HoldsPort
  <1>2. CASE r = <<Step("CreateCall", c, NoCallId, p)>>
    <2>1. Head(r).do = "CreateCall" /\ Head(r).call = c /\ Head(r).port = p /\ r # <<>>
      BY <1>2, Firsts, Different
    <2>2. CallMade(t, c, p)
      BY <2>1, StepFacts, Firsts, Different DEF Turn
    <2>3. ASSUME NEW q, Moves(t, <<Step("CreateCall", c, NoCallId, p)>>, q)
          PROVE  s = q
      BY <2>3, StepFacts, AfterMove
    <2> QED
      BY <2>2, <2>3 DEF CallMade, HoldsPort
  <1>3. CASE \E d \in Callee : r = <<Step("Insert", c, d, p), On("StartCall", d)>>
    BY <1>3, StepFacts, InsertLeft
  <1> QED
    BY <1>1, <1>2, <1>3

\* A port is stopped with the pair that has it, and a pair never goes without.
LEMMA PortStep ==
  ASSUME NEW t, NEW r, NEW s, OneStep(t, r, s), NEW p \in DOMAIN rtp
  PROVE  /\ p \in DOMAIN rtp' /\ (rtp[p] => rtp'[p])
         /\ rtp'[p] /\ ~ rtp[p] =>
              \E e \in DOMAIN calls \cap Caller : e \notin DOMAIN calls' /\ calls[e].port = p
         /\ \A c \in DOMAIN calls \cap Caller : c \notin DOMAIN calls' /\ calls[c].port = p => rtp'[p]
  <1>1. Pairs /\ Frame(t, r, s)
    BY StepFacts
  <1>2. ASSUME NEW c \in DOMAIN calls, c \notin DOMAIN calls'
        PROVE  \E y \in Leg : Deleted(t, y)
    BY <1>2, OutOfMap
  <1>3. CASE rtp' = rtp /\ ~ \E y \in Leg : Deleted(t, y)
    BY <1>2, <1>3
  <1>4. ASSUME NEW c, PortMade(t, c)
        PROVE  p \in DOMAIN rtp' /\ rtp'[p] = rtp[p] /\ calls' = calls
    BY <1>4, MadePort
  <1>5. ASSUME NEW x \in Leg, Deleted(t, x)
        PROVE  /\ p \in DOMAIN rtp' /\ (rtp[p] => rtp'[p])
               /\ rtp'[p] /\ ~ rtp[p] =>
                    \E e \in DOMAIN calls \cap Caller : e \notin DOMAIN calls' /\ calls[e].port = p
               /\ \A c \in DOMAIN calls \cap Caller : c \notin DOMAIN calls' /\ calls[c].port = p => rtp'[p]
    <2>1. /\ DOMAIN rtp' = DOMAIN rtp
          /\ rtp'[p] <=> (rtp[p] \/ p \in PortOf(calls, x))
      BY <1>5 DEF Deleted, SetStop
    <2>2. \A y : y \in DOMAIN calls' <=>
                   y \in DOMAIN calls /\ ~ (x \in DOMAIN calls /\ (y = x \/ y = calls[x].peer))
      BY <1>5, DeletedPair
    <2>3. \A y : y \in Both(calls, x) <=>
                   y \in DOMAIN calls /\ x \in DOMAIN calls /\ (y = x \/ y = calls[x].peer)
      BY DEF Both
    <2>4. p \in PortOf(calls, x) <=> \E y \in Both(calls, x) : calls[y].recv /\ calls[y].port = p
      BY DEF PortOf
    <2>5. \A y \in DOMAIN calls : calls[y].recv <=> y \in Caller
      BY <1>1 DEF Pairs
    <2> QED
      BY <2>1, <2>2, <2>3, <2>4, <2>5
  <1>6. rtp' = rtp \/ (\E c \in Caller : PortMade(t, c)) \/ (\E x \in Leg : Deleted(t, x))
    BY <1>1 DEF Frame
  <1> QED
    BY <1>3, <1>4, <1>5, <1>6

LEMMA PortsInv_1 ==
  ASSUME NEW t, NEW r, NEW s, OneStep(t, r, s)
  PROVE  PortsInv'
  <1>1. /\ t \in Thread /\ TypeInv /\ Pairs /\ PlacedInv /\ PortsInv /\ Frame(t, r, s)
        /\ todo[t] = r /\ todo'[t] = s /\ \A u \in Thread \ {t} : todo'[u] = todo[u]
    BY StepFacts
  <1>2. \A u, p : Holding(u, p)' <=> HoldsPort(todo'[u], p)
    BY DEF Holding, HoldsPort, Inserts, On, Step
  <1>3. ASSUME NEW c \in Caller, NEW d \in Callee, NEW p \in Port, Inserted(t, c, d, p)
        PROVE  /\ c \in Caller /\ d \in Callee /\ c # d /\ p \in Port
               /\ Holding(t, p) /\ rtp' = rtp /\ \A q : ~ HoldsPort(s, q)
               /\ c \in DOMAIN calls' /\ calls'[c].port = p
    <2>1. c \in Caller /\ d \in Callee /\ p \in Port /\ Inserts(t, c, d, p) /\ s = <<On("StartCall", d)>>
      BY <1>3, InsertedFacts
    <2>2. calls'[c].port = p
      <3>1. calls'[c] = Info(d, TRUE, p) /\ calls'[d] = Info(c, FALSE, p + 2)
        BY <1>3, InsertedPort DEF Info
      <3> QED
        BY <3>1 DEF Info
    <2>5. c \in DOMAIN calls'
      BY <1>3, InsertedPair
    <2>3. Head(s).do = "StartCall"
      BY <2>1, Firsts
    <2>4. \A q : ~ HoldsPort(s, q)
      BY <2>3, Firsts DEF HoldsPort
    <2> QED
      BY <1>3, <2>1, <2>2, <2>4, <2>5, SipServerCallsAssumption DEF Holding, Inserted
  <1>4. ASSUME NEW u \in Thread, NEW p, HoldsPort(todo'[u], p)
        PROVE  Holding(u, p) \/ (u = t /\ p \in Port \ DOMAIN rtp /\ rtp' = With(rtp, p, FALSE))
    BY <1>1, <1>4, HoldStep, HoldingIs
  <1>5. ASSUME NEW c \in DOMAIN calls', c \in Caller
        PROVE  \/ c \in DOMAIN calls /\ calls'[c] = calls[c]
               \/ calls'[c].port \in Port /\ \E d \in Callee : Inserted(t, c, d, calls'[c].port)
    <2>1. ASSUME NEW b \in Caller, NEW d \in Callee, NEW p \in Port, Inserted(t, b, d, p), c \in {b, d}
          PROVE  calls'[c].port \in Port /\ Inserted(t, c, d, calls'[c].port)
      <3>1. c = b /\ calls'[b].port = p
        BY <1>3, <1>5, <2>1, SipServerCallsAssumption
      <3> QED
        BY <2>1, <3>1
    <2> QED
      BY <1>5, <2>1, EntryStep
  <1>6. ASSUME NEW p \in DOMAIN rtp'
        PROVE  \/ rtp'[p] \/ p \in lost' \/ \E u \in Thread : HoldsPort(todo'[u], p)
               \/ \E c \in DOMAIN calls' \cap Caller : calls'[c].port = p
    <2>1. CASE p \notin DOMAIN rtp
      <3>1. PICK c \in Caller : PortMade(t, c)
        BY <1>1, <1>6, <2>1 DEF Frame, Deleted, SetStop
      <3>2. s = <<Step("CreateCall", c, NoCallId, p)>>
        BY <1>6, <2>1, <3>1, MadePort
      <3> QED
        BY <1>1, <3>2 DEF HoldsPort
    <2>2. CASE p \in DOMAIN rtp
      <3>1. CASE rtp[p] \/ p \in lost
        BY <1>1, <2>2, <3>1, PortStep DEF Frame
      <3>2. ASSUME NEW u \in Thread, Holding(u, p), ~ HoldsPort(todo'[u], p)
            PROVE  p \in lost' \/ \E c \in DOMAIN calls' \cap Caller : calls'[c].port = p
        <4>1. u = t /\ HoldsPort(r, p)
          BY <1>1, <3>2, HoldingIs
        <4>2. ASSUME NEW c \in Caller, NEW d \in Callee, Inserted(t, c, d, p)
              PROVE  \E e \in DOMAIN calls' \cap Caller : calls'[e].port = p
          <5>1. p \in Port
            BY <4>2 DEF Inserted
          <5> QED
            BY <1>3, <4>2, <5>1
        <4> QED
          BY <1>1, <3>2, <4>1, <4>2, HoldLeft
      <3>3. ASSUME NEW c \in DOMAIN calls \cap Caller, calls[c].port = p
            PROVE  rtp'[p] \/ (c \in DOMAIN calls' /\ calls'[c].port = p)
        <4>1. Placed(c)
          BY <1>1 DEF PlacedInv
        <4> QED
          BY <2>2, <3>3, <4>1, PortStep, EntryStep
      <3> QED
        BY <1>1, <2>2, <3>1, <3>2, <3>3 DEF PortsInv
    <2> QED
      BY <2>1, <2>2
  <1>7. ASSUME NEW c \in DOMAIN calls' \cap Caller, NEW p, p = calls'[c].port
        PROVE  /\ p \in DOMAIN rtp' /\ ~ rtp'[p]
               /\ \A e \in DOMAIN calls' \cap Caller : calls'[e].port = p => e = c
               /\ \A u \in Thread : ~ HoldsPort(todo'[u], p)
    <2>1. CASE c \in DOMAIN calls /\ calls'[c] = calls[c]
      <3>1. /\ p \in DOMAIN rtp /\ ~ rtp[p]
            /\ \A e \in DOMAIN calls \cap Caller : calls[e].port = p => e = c
            /\ \A u \in Thread : ~ Holding(u, p)
        BY <1>1, <1>7, <2>1 DEF PortsInv
      <3>2. p \in DOMAIN rtp' /\ ~ rtp'[p]
        BY <1>7, <3>1, PortStep
      <3>3. ASSUME NEW e \in DOMAIN calls', e \in Caller, calls'[e].port = p
            PROVE  e = c
        <4>1. \A d \in Callee : p \in Port => ~ Inserted(t, e, d, p)
          BY <1>1, <1>3, <3>1, <3>3
        <4> QED
          BY <1>5, <3>1, <3>3, <4>1
      <3>4. \A u \in Thread : ~ HoldsPort(todo'[u], p)
        BY <1>4, <3>1
      <3> QED
        BY <3>2, <3>3, <3>4
    <2>2. ASSUME NEW d \in Callee, p \in Port, Inserted(t, c, d, p)
          PROVE  /\ p \in DOMAIN rtp' /\ ~ rtp'[p]
                 /\ \A e \in DOMAIN calls' \cap Caller : calls'[e].port = p => e = c
                 /\ \A u \in Thread : ~ HoldsPort(todo'[u], p)
      <3>1. p \in Port /\ Holding(t, p) /\ rtp' = rtp /\ ~ HoldsPort(s, p)
        BY <1>3, <2>2
      <3>2. p \in DOMAIN rtp /\ ~ rtp[p] /\ \A u \in Thread : Holding(u, p) => u = t
        BY <1>1, <3>1 DEF PortsInv
      <3>3. \A e \in DOMAIN calls' \cap Caller : calls'[e].port = p => e = c
        <4>1. ASSUME NEW e \in DOMAIN calls \cap Caller
              PROVE  calls[e].port # p
          BY <1>1, <3>1 DEF PortsInv
        <4>2. /\ \A x : x \in DOMAIN calls' <=> (x \in DOMAIN calls \/ x = c \/ x = d)
              /\ \A x \in DOMAIN calls : calls'[x] = calls[x]
          BY <2>2, InsertedPair
        <4> QED
          BY <4>1, <4>2, SipServerCallsAssumption
      <3>4. \A u \in Thread : ~ HoldsPort(todo'[u], p)
        BY <1>1, <1>4, <3>1, <3>2
      <3> QED
        BY <3>1, <3>2, <3>3, <3>4
    <2> QED
      BY <1>5, <1>7, <2>1, <2>2
  <1>8. ASSUME NEW u \in Thread, NEW p \in Port, HoldsPort(todo'[u], p)
        PROVE  /\ p \in DOMAIN rtp' /\ ~ rtp'[p]
               /\ \A v \in Thread : HoldsPort(todo'[v], p) => v = u
    <2>1. CASE Holding(u, p)
      <3>1. /\ p \in DOMAIN rtp /\ ~ rtp[p]
            /\ \A v \in Thread : Holding(v, p) => v = u
            /\ \A e \in DOMAIN calls \cap Caller : calls[e].port # p
        BY <1>1, <2>1 DEF PortsInv
      <3> QED
        BY <1>4, <3>1, PortStep
    <2>2. CASE u = t /\ p \in Port \ DOMAIN rtp /\ rtp' = With(rtp, p, FALSE)
      <3>1. p \in DOMAIN rtp' /\ ~ rtp'[p]
        BY <2>2 DEF With
      <3>2. ASSUME NEW v \in Thread, HoldsPort(todo'[v], p)
            PROVE  v = t
        <4>1. ~ Holding(v, p)
          BY <1>1, <2>2 DEF PortsInv
        <4> QED
          BY <1>4, <3>2, <4>1
      <3> QED
        BY <2>2, <3>1, <3>2
    <2> QED
      BY <1>4, <1>8, <2>1, <2>2
  <1> QED
    BY <1>2, <1>6, <1>7, <1>8 DEF PortsInv
-----------------------------------------------------------------------------
\* Threads that rest have nothing to do.
LEMMA Resting ==
  ASSUME Idle
  PROVE  /\ \A do, x : ~ Due(do, x)
         /\ \A e : e \notin AllWork
         /\ \A t \in Thread : Work(t) = {}
         /\ \A t \in Thread : \A c : ~ Setup(t, c)
         /\ \A d : ~ NewLeg(d)
         /\ \A t \in Thread : \A p : ~ Holding(t, p)
         /\ \A t \in Thread : \A d : todo[t] \notin StartForms(d)
         /\ \A t \in Thread : \A x, y : todo[t] \notin {Ends(x), Stops(x, y), Saves(x, y)}
  <1>1. \A t \in Thread : todo[t] = <<>>
    BY DEF Idle
  <1>2. \A t \in Thread : Work(t) = {}
    BY <1>1, Within DEF Work
  <1>3. \A e : e \notin AllWork
    BY <1>2 DEF AllWork
  <1>4. \A t \in Thread : \A c : ~ Setup(t, c)
    BY <1>1, Different DEF Setup, SetupForms
  <1>5. \A t \in Thread : \A c, d, p : ~ Inserts(t, c, d, p)
    BY <1>1, Different DEF Inserts
  <1>6. \A t \in Thread : \A p : ~ Holding(t, p)
    BY <1>1, <1>5, Different DEF Holding
  <1>7. \A t \in Thread : \A d : todo[t] \notin StartForms(d)
    BY <1>1, Different DEF StartForms
  <1>8. \A t \in Thread : \A x, y : todo[t] \notin {Ends(x), Stops(x, y), Saves(x, y)}
    BY <1>1, Different
  <1> QED
    BY <1>2, <1>3, <1>4, <1>5, <1>6, <1>7, <1>8 DEF Due, NewLeg

LEMMA CallsInvInit == Init => CallsInv
  <1> SUFFICES ASSUME Init
               PROVE  CallsInv
    OBVIOUS
  <1>1. /\ \A t \in Thread : todo[t] = <<>>
        /\ DOMAIN dialog = {} /\ DOMAIN calls = {} /\ DOMAIN rtp = {}
        /\ pending = {} /\ joined = {} /\ broken = {}
        /\ trans = [c \in {} |-> Info(NoCallId, TRUE, 0)]
    BY DEF Init, Info
  <1>2. Idle
    BY <1>1 DEF Idle
  <1>3. TypeInv
    BY TypeInit
  <1>4. Handlers
    BY <1>1, <1>2, Resting DEF Handlers, IsForm
  <1>5. SetupAlone
    BY <1>2, Resting DEF SetupAlone, NewLeg
  <1>6. PlacedInv
    <2>1. ASSUME NEW t \in Thread, NEW c, NEW d \in Callee, todo[t] = <<Step("AcceptCall", c, d, 0)>>
          PROVE  FALSE
      BY <1>1, <2>1, Different
    <2> QED
      BY <1>1, <1>2, <2>1, Resting DEF PlacedInv
  <1>7. Pairs /\ Dialogs /\ BrokenPairs /\ PairsGo /\ PeerLeaves /\ Covered
    BY <1>1 DEF Pairs, Dialogs, BrokenPairs, PairsGo, PeerLeaves, Covered
  <1>8. Ending
    BY <1>1, <1>2, Resting, Different DEF Ending
  <1>9. Starting
    BY <1>1, <1>2, Resting, Different DEF Starting
  <1>10. Records
    BY <1>1, <1>2, Resting DEF Records
  <1>11. PortsInv
    BY <1>1, <1>2, Resting DEF PortsInv
  <1> QED
    BY <1>3, <1>4, <1>5, <1>6, <1>7, <1>8, <1>9, <1>10, <1>11 DEF CallsInv

\* What the parts of the invariant look at.
Seen == <<dialog, pending, calls, trans, todo, used, recorded, joined, broken, lost>>

LEMMA UnseenStep ==
  ASSUME CallsInv, UNCHANGED Seen
  PROVE  /\ Handlers' /\ SetupAlone' /\ PlacedInv' /\ Pairs' /\ Dialogs' /\ Ending' /\ Starting'
         /\ BrokenPairs' /\ Covered' /\ PeerLeaves' /\ PairsGo' /\ Records'
  <1>1. Handlers'
    BY DEF CallsInv, Seen, Handlers, AllWork, Work, Elements, IsForm, SetupForms, StartForms, EndForms,
           Ends, Stops, Saves, Refuse, On, Step, Info
  <1>2. SetupAlone'
    BY DEF CallsInv, Seen, SetupAlone, Setup, Inserts, SetupForms, Refuse, On, Step, Work, Elements, Known
  <1>3. PlacedInv'
    <2>1. ASSUME NEW x, Placed(x)
          PROVE  Placed(x)'
      BY <2>1 DEF Seen, Placed, NewLeg, Inserts, Setup, SetupForms, Refuse, On, Step
    <2>2. PlacedInv /\ todo' = todo /\ calls' = calls /\ joined' = joined /\ pending' = pending
      BY DEF CallsInv, Seen
    <2> QED
      BY <2>1, <2>2 DEF PlacedInv, StartForms, Stops, Saves, On, Step, Work, Elements
  <1>4. Pairs' /\ BrokenPairs'
    BY DEF CallsInv, Seen, Pairs, BrokenPairs
  <1>5. Dialogs'
    BY DEF CallsInv, Seen, Dialogs, Due, On, Step, AllWork, Work, Elements
  <1>6. Ending'
    BY DEF CallsInv, Seen, Ending, Live, Known, Paired, Stops, Saves, On, Step, Work, Elements
  <1>7. Starting'
    BY DEF CallsInv, Seen, Starting, StartForms, Live, Known, Paired, On, Step
  <1>8. Covered' /\ PeerLeaves'
    <2>1. ASSUME NEW x, Leaves(x)
          PROVE  Leaves(x)'
      BY <2>1 DEF Seen, Leaves, Due, Live, Known, On, Step, AllWork, Work, Elements
    <2>2. ASSUME NEW x, HasPeer(x)
          PROVE  HasPeer(x)'
      BY <2>2 DEF Seen, HasPeer, Known
    <2>3. ASSUME NEW x, NewLeg(x) \/ \E t \in Thread : Setup(t, x)
          PROVE  (NewLeg(x) \/ \E t \in Thread : Setup(t, x))'
      <3>1. todo' = todo
        BY DEF Seen
      <3>2. NewLeg(x) => NewLeg(x)'
        BY <3>1 DEF NewLeg, Inserts, On, Step
      <3>3. ASSUME NEW t \in Thread, Setup(t, x)
            PROVE  Setup(t, x)'
        BY <3>1, <3>3 DEF Setup, SetupForms, Refuse, On, Step
      <3> QED
        BY <2>3, <3>2, <3>3
    <2>4. /\ Covered /\ PeerLeaves
          /\ todo' = todo /\ calls' = calls /\ dialog' = dialog
      BY DEF CallsInv, Seen
    <2>5. Covered'
      BY <2>1, <2>2, <2>3, <2>4 DEF Covered
    <2>6. PeerLeaves'
      <3>1. ASSUME NEW t \in Thread, NEW x \in DOMAIN calls, todo[t] = Ends(x)
            PROVE  \E y : y = calls[x].peer /\ Leaves(y)'
        BY <2>1, <2>4, <3>1 DEF PeerLeaves
      <3> QED
        BY <2>4, <3>1 DEF PeerLeaves, Ends, On, Step
    <2> QED
      BY <2>5, <2>6
  <1>9. PairsGo'
    BY DEF CallsInv, Seen, PairsGo, Known, Due, On, Step, AllWork, Work, Elements
  <1>10. Records'
    BY DEF CallsInv, Seen, Records, Recorded, Known, Ends, Stops, On, Step, Work, Elements
  <1> QED
    BY <1>1, <1>2, <1>3, <1>4, <1>5, <1>6, <1>7, <1>8, <1>9, <1>10

\* The sockets of a port are closed when no pair has it any more.
LEMMA PortsClosed ==
  ASSUME CallsInv, UNCHANGED Seen,
         rtp' = rtp \/ \E p \in DOMAIN rtp : rtp[p] /\ rtp' = Without(rtp, {p})
  PROVE  PortsInv'
  <1>1. PortsInv
    BY DEF CallsInv
  <1>2. /\ \A t, p : Holding(t, p)' <=> Holding(t, p)
        /\ calls' = calls /\ lost' = lost
    BY DEF Seen, Holding, Inserts, On, Step
  <1>3. /\ \A q \in DOMAIN rtp' : q \in DOMAIN rtp /\ rtp'[q] = rtp[q]
        /\ \A q \in DOMAIN rtp : ~ rtp[q] => q \in DOMAIN rtp'
    BY DEF Without, Restrict
  <1>4. \A p \in DOMAIN rtp' : \/ rtp'[p] \/ p \in lost'
                               \/ \E t \in Thread : Holding(t, p)'
                               \/ \E c \in DOMAIN calls' \cap Caller : calls'[c].port = p
    BY <1>1, <1>2, <1>3 DEF PortsInv
  <1>5. ASSUME NEW c \in DOMAIN calls' \cap Caller, NEW p, p = calls'[c].port
        PROVE  /\ p \in DOMAIN rtp' /\ ~ rtp'[p]
               /\ \A e \in DOMAIN calls' \cap Caller : calls'[e].port = p => e = c
               /\ \A t \in Thread : ~ Holding(t, p)'
    <2>1. /\ p \in DOMAIN rtp /\ ~ rtp[p]
          /\ \A e \in DOMAIN calls \cap Caller : calls[e].port = p => e = c
          /\ \A t \in Thread : ~ Holding(t, p)
      BY <1>1, <1>2, <1>5 DEF PortsInv
    <2> QED
      BY <1>2, <1>3, <2>1
  <1>6. ASSUME NEW t \in Thread, NEW p \in Port, Holding(t, p)'
        PROVE  /\ p \in DOMAIN rtp' /\ ~ rtp'[p]
               /\ \A u \in Thread : Holding(u, p)' => u = t
    <2>1. /\ p \in DOMAIN rtp /\ ~ rtp[p]
          /\ \A u \in Thread : Holding(u, p) => u = t
      BY <1>1, <1>2, <1>6 DEF PortsInv
    <2> QED
      BY <1>2, <1>3, <2>1
  <1> QED
    BY <1>4, <1>5, <1>6 DEF PortsInv

LEMMA CallsInvStep ==
  ASSUME PlainCalls, CallsInv, [Next]_vars
  PROVE  CallsInv'
  <1>1. TypeInv /\ Handlers /\ Pairs /\ TypeInv'
    BY TypeStep DEF CallsInv
  <1>2. CASE \E t \in Thread : PlainStep(t)
    <2>1. PICK t \in Thread : PlainStep(t)
      BY <1>2
    <2>2. PICK r, s : Moves(t, r, s) /\ Turn(t, r, s)
      BY <2>1, PlainTurns
    <2>3. OneStep(t, r, s)
      BY <1>1, <2>2 DEF OneStep
    <2> QED
      BY <1>1, <2>3, Handlers_1, SetupAlone_1, PlacedInv_1, Pairs_1, Dialogs_1, Ending_1, Starting_1,
         BrokenPairs_1, Covered_1, PeerLeaves_1, PairsGo_1, Records_1, PortsInv_1 DEF CallsInv
  <1>3. CASE Closed \/ UNCHANGED vars
    <2>1. UNCHANGED Seen /\ (rtp' = rtp \/ \E p \in DOMAIN rtp : rtp[p] /\ rtp' = Without(rtp, {p}))
      BY <1>3 DEF Closed, vars, Seen
    <2> QED
      BY <1>1, <2>1, UnseenStep, PortsClosed DEF CallsInv
  <1> QED
    BY <1>1, <1>2, <1>3, PlainSteps

\* The invariant the properties follow from, when phones call and forward.
THEOREM Invariance ==
  ASSUME PlainCalls
  PROVE  Spec => []CallsInv
  <1>1. Init => CallsInv
    BY CallsInvInit
  <1>2. CallsInv /\ [Next]_vars => CallsInv'
    BY CallsInvStep
  <1> QED
    BY <1>1, <1>2, PTL DEF Spec

\* When the threads rest every pair that is in the map has its dialogs, unless a leg was left
\* alone: EventCallEnd and Delete leave no entry of a call that is over.
THEOREM GhostsNever ==
  ASSUME PlainCalls
  PROVE  Spec => []NoGhostPair
  <1>1. CallsInv => NoGhostPair
    BY Resting DEF CallsInv, PairsGo, NoGhostPair
  <1> QED
    BY <1>1, Invariance, PTL

\* When the threads rest no leg is without its peer, but those that are being cancelled or that
\* a handler left alone.
THEOREM OrphansNever ==
  ASSUME PlainCalls
  PROVE  Spec => []NoOrphanLeg
  <1>1. ASSUME CallsInv, Idle, NEW c \in DOMAIN dialog
        PROVE  \/ c \in pending /\ dialog[c].cancel
               \/ c \in DOMAIN calls /\ Known(calls[c].peer) /\ calls[c].peer \in DOMAIN calls
                    /\ calls[calls[c].peer].peer = c
               \/ c \in broken
    <2>1. Leaves(c) => c \in broken \/ (dialog[c].cancel /\ c \in pending)
      BY <1>1, Resting DEF Leaves, Known
    <2>2. HasPeer(c) \/ Leaves(c)
      BY <1>1, Resting DEF CallsInv, Covered
    <2>3. HasPeer(c) => /\ c \in DOMAIN calls /\ Known(calls[c].peer)
                        /\ calls[c].peer \in DOMAIN calls /\ calls[calls[c].peer].peer = c
      BY <1>1 DEF CallsInv, HasPeer, Pairs
    <2> QED
      BY <2>1, <2>2, <2>3
  <1>2. CallsInv => NoOrphanLeg
    BY <1>1 DEF NoOrphanLeg
  <1> QED
    BY <1>2, Invariance, PTL

\* When the threads rest every call that was connected is still there or has its record:
\* EventCallEnd saves it before the dialog is deleted.
THEOREM RecordsKept ==
  ASSUME PlainCalls
  PROVE  Spec => []EveryCallRecorded
  <1>1. CallsInv => EveryCallRecorded
    BY DEF CallsInv, Records, EveryCallRecorded
  <1> QED
    BY <1>1, Invariance, PTL

\* Both entries of a pair refer to the block the caller's entry names.
LEMMA BlockOfLeg ==
  ASSUME Pairs, NEW c \in DOMAIN calls
  PROVE  /\ c \in Caller => calls[c].port \in Port /\ BlockOf(calls[c]) = calls[c].port
         /\ c \notin Caller =>
              LET e == calls[c].peer IN
              /\ e \in DOMAIN calls \cap Caller /\ calls[e].peer = c /\ calls[e].port \in Port
              /\ BlockOf(calls[c]) = calls[e].port
  <1>1. CASE c \in Caller
    BY <1>1, Ports DEF Pairs, BlockOf
  <1>2. CASE c \notin Caller
    <2>1. PICK e \in DOMAIN calls \cap Caller : e = calls[c].peer /\ calls[e].peer = c
      BY <1>2 DEF Pairs
    <2>2. ~ calls[c].recv /\ calls[c].port = calls[e].port + 2 /\ calls[e].port \in Port
      BY <1>2, <2>1 DEF Pairs
    <2>3. (calls[e].port + 2) - 2 = calls[e].port
      BY <2>2, Ports
    <2> QED
      BY <1>2, <2>1, <2>2, <2>3, Ports DEF BlockOf
  <1> QED
    BY <1>1, <1>2

\* When the threads rest every RTP port that is not being closed is that of a pair in the map,
\* but those CreateCall has lost.
THEOREM PortsComeBack ==
  ASSUME PlainCalls
  PROVE  Spec => []PortsReturn
  <1>1. ASSUME CallsInv, Idle, NEW p \in DOMAIN rtp
        PROVE  rtp[p] \/ Holds(p) \/ p \in lost
    <2>1. \/ rtp[p] \/ p \in lost
          \/ \E c \in DOMAIN calls \cap Caller : calls[c].port = p
      BY <1>1, Resting DEF CallsInv, PortsInv
    <2>2. ASSUME NEW c \in DOMAIN calls \cap Caller, calls[c].port = p
          PROVE  Holds(p)
      BY <1>1, <2>2, BlockOfLeg DEF CallsInv, Holds
    <2> QED
      BY <2>1, <2>2
  <1>2. CallsInv => PortsReturn
    BY <1>1 DEF PortsReturn
  <1> QED
    BY <1>2, Invariance, PTL

\* When the threads rest every pair in the map has its RTP port to itself, and the port runs.
THEOREM PairsHavePorts ==
  ASSUME PlainCalls
  PROVE  Spec => []PairHasPort
  <1>1. ASSUME CallsInv, NEW c \in DOMAIN calls, NEW p, p = BlockOf(calls[c])
        PROVE  /\ p \in DOMAIN rtp /\ ~ rtp[p]
               /\ \A d \in DOMAIN calls \ {c, calls[c].peer} : BlockOf(calls[d]) # p
    <2>1. Pairs /\ PortsInv
      BY <1>1 DEF CallsInv
    <2>2. PICK e \in DOMAIN calls \cap Caller :
            e \in {c, calls[c].peer} /\ calls[e].peer \in {c, calls[c].peer} /\ calls[e].port = p
      BY <1>1, <2>1, BlockOfLeg
    <2>3. ASSUME NEW d \in DOMAIN calls \ {c, calls[c].peer}, BlockOf(calls[d]) = p
          PROVE  FALSE
      <3>1. PICK f \in DOMAIN calls \cap Caller :
              (f = d \/ calls[f].peer = d) /\ calls[f].port = p
        BY <2>1, <2>3, BlockOfLeg
      <3>2. f = e
        BY <2>1, <2>2, <3>1 DEF PortsInv
      <3> QED
        BY <2>2, <2>3, <3>1, <3>2
    <2> QED
      BY <2>1, <2>2, <2>3 DEF PortsInv
  <1>2. CallsInv => PairHasPort
    BY <1>1 DEF PairHasPort
  <1> QED
    BY <1>2, Invariance, PTL
=============================================================================
