------------------------- MODULE SipUserAgentProofs -------------------------
(***************************************************************************)
(* Theorems about SipUserAgent, for any number of calls, of receiving      *)
(* threads and of threads of the application.                              *)
(***************************************************************************)
EXTENDS SipUserAgent, SequenceTheorems, TLAPS

\* The tasks of a sequence of tasks; of all the threads.
Tasks(s) == {s[i] : i \in DOMAIN s}
AllTasks == UNION {Tasks(todo[t]) : t \in Thread}

LEMMA TailTasks ==
  ASSUME NEW s \in Seq(Task), s # <<>>
  PROVE  /\ Tail(s) \in Seq(Task)
         /\ Head(s) \in Tasks(s)
         /\ Head(s) \in Task
         /\ Tasks(Tail(s)) \subseteq Tasks(s)
         /\ Tasks(s) \subseteq Tasks(Tail(s)) \cup {Head(s)}
  <1>1. Tail(s) \in Seq(Task) /\ Head(s) \in Task /\ Len(s) \in Nat \ {0}
    OBVIOUS
  <1>2. Len(Tail(s)) = Len(s) - 1 /\ \A i \in 1 .. Len(s) - 1 : Tail(s)[i] = s[i + 1]
    OBVIOUS
  <1>3. Head(s) = s[1]
    OBVIOUS
  <1>4. DOMAIN s = 1 .. Len(s) /\ DOMAIN Tail(s) = 1 .. Len(s) - 1
    BY <1>1, <1>2
  <1>5. ASSUME NEW i \in DOMAIN Tail(s) PROVE Tail(s)[i] \in Tasks(s)
    <2>1. i + 1 \in DOMAIN s /\ Tail(s)[i] = s[i + 1]
      BY <1>1, <1>2, <1>4
    <2> QED
      BY <2>1 DEF Tasks
  <1>6. ASSUME NEW i \in DOMAIN s, i # 1 PROVE s[i] \in Tasks(Tail(s))
    <2>1. i - 1 \in DOMAIN Tail(s) /\ Tail(s)[i - 1] = s[i]
      BY <1>1, <1>2, <1>4, <1>6
    <2> QED
      BY <2>1 DEF Tasks
  <1>7. 1 \in DOMAIN s
    BY <1>1, <1>4
  <1> QED
    BY <1>1, <1>3, <1>5, <1>6, <1>7 DEF Tasks

LEMMA ConcatTasks ==
  ASSUME NEW r \in Seq(Task), NEW s \in Seq(Task)
  PROVE  /\ r \o s \in Seq(Task)
         /\ Tasks(r \o s) = Tasks(r) \cup Tasks(s)
  <1>1. /\ r \o s \in Seq(Task) /\ Len(r \o s) = Len(r) + Len(s)
        /\ Len(r) \in Nat /\ Len(s) \in Nat
    OBVIOUS
  <1>2. /\ DOMAIN r = 1 .. Len(r) /\ DOMAIN s = 1 .. Len(s)
        /\ DOMAIN (r \o s) = 1 .. Len(r) + Len(s)
    BY <1>1
  <1>3. ASSUME NEW i \in DOMAIN (r \o s) PROVE (r \o s)[i] \in Tasks(r) \cup Tasks(s)
    <2>1. CASE i \in DOMAIN r
      <3>1. (r \o s)[i] = r[i]
        BY <1>1, <1>2, <2>1
      <3> QED
        BY <2>1, <3>1 DEF Tasks
    <2>2. CASE i \notin DOMAIN r
      <3>1. i - Len(r) \in DOMAIN s /\ (r \o s)[i] = s[i - Len(r)]
        BY <1>1, <1>2, <2>2
      <3> QED
        BY <3>1 DEF Tasks
    <2> QED
      BY <2>1, <2>2
  <1>4. ASSUME NEW i \in DOMAIN r PROVE r[i] \in Tasks(r \o s)
    <2>1. i \in DOMAIN (r \o s) /\ (r \o s)[i] = r[i]
      BY <1>1, <1>2
    <2> QED
      BY <2>1 DEF Tasks
  <1>5. ASSUME NEW i \in DOMAIN s PROVE s[i] \in Tasks(r \o s)
    <2>1. i + Len(r) \in DOMAIN (r \o s) /\ (r \o s)[i + Len(r)] = s[i]
      BY <1>1, <1>2
    <2> QED
      BY <2>1 DEF Tasks
  <1> QED
    BY <1>1, <1>3, <1>4, <1>5 DEF Tasks

LEMMA TupleTasks ==
  /\ <<>> \in Seq(Task) /\ Tasks(<<>>) = {}
  /\ \A a \in Task : <<a>> \in Seq(Task) /\ Tasks(<<a>>) = {a}
  /\ \A a, b \in Task : <<a, b>> \in Seq(Task) /\ Tasks(<<a, b>>) = {a, b}
  /\ \A a, b, c \in Task : <<a, b, c>> \in Seq(Task) /\ Tasks(<<a, b, c>>) = {a, b, c}
  BY DEF Tasks

LEMMA QueuedTasks == \A x : Queued(x) <=> x \in AllTasks
  BY DEF Queued, AllTasks, Tasks

LEMMA TaskTypes ==
  /\ \A c \in Call, name \in Methods, s \in 0 .. 699 : Send(c, name, s) \in Task
  /\ \A c \in Call, name \in Events, s \in 0 .. 699 : Event(c, name, s) \in Task
  /\ \A c \in Call, name \in Sections : Lock(c, name) \in Task
  BY DEF Task, Send, Event, Lock, Step

LEMMA Statuses ==
  /\ {0, SIP_RINGING, SIP_SESSION_PROGRESS, SIP_OK, SIP_MOVED_TEMPORARILY, SIP_REQUEST_TIME_OUT,
      SIP_GONE, SIP_REQUEST_TERMINATED, SIP_NOT_ACCEPTABLE_HERE, SIP_DECLINE} \subseteq 0 .. 699
  /\ Status \subseteq 1 .. 699
  /\ SIP_REQUEST_TIME_OUT \in 1 .. 699
  BY UserAgentAssumption DEF SIP_RINGING, SIP_SESSION_PROGRESS, SIP_OK, SIP_MOVED_TEMPORARILY,
     SIP_REQUEST_TIME_OUT, SIP_GONE, SIP_REQUEST_TERMINATED, SIP_NOT_ACCEPTABLE_HERE, SIP_DECLINE

\* A handler begins with the tasks of S; thread t is through with its first task and goes on
\* with those of S as well.
Begun(S) ==
  /\ todo' \in [Thread -> Seq(Task)]
  /\ AllTasks' = AllTasks \cup S

WentOn(t, S) ==
  /\ todo[t] # <<>>
  /\ Head(todo[t]) \in Task /\ Head(todo[t]) \in AllTasks
  /\ todo' \in [Thread -> Seq(Task)]
  /\ AllTasks' \subseteq AllTasks \cup S
  /\ S \subseteq AllTasks'
  /\ AllTasks \subseteq AllTasks' \cup {Head(todo[t])}

LEMMA BeginTasks ==
  ASSUME TypeOK, NEW t \in Thread, NEW steps \in Seq(Task), Begin(t, steps)
  PROVE  Begun(Tasks(steps))
  <1>1. todo \in [Thread -> Seq(Task)]
    BY DEF TypeOK
  <1>2. todo' = [todo EXCEPT ![t] = steps] /\ todo[t] = <<>>
    BY DEF Begin
  <1>3. todo' \in [Thread -> Seq(Task)] /\ todo'[t] = steps /\ \A u \in Thread \ {t} : todo'[u] = todo[u]
    BY <1>1, <1>2
  <1>4. Tasks(todo[t]) = {}
    BY <1>2, TupleTasks
  <1>5. \A x : x \in AllTasks' <=> \E u \in Thread : x \in Tasks(todo'[u])
    BY DEF AllTasks
  <1>6. \A x : x \in AllTasks <=> \E u \in Thread : x \in Tasks(todo[u])
    BY DEF AllTasks
  <1> QED
    BY <1>3, <1>4, <1>5, <1>6 DEF Begun

LEMMA ContinueTasks ==
  ASSUME TypeOK, NEW t \in Thread, NEW more \in Seq(Task), todo[t] # <<>>, Continue(t, more)
  PROVE  WentOn(t, Tasks(more))
  <1>1. todo \in [Thread -> Seq(Task)] /\ todo[t] \in Seq(Task)
    BY DEF TypeOK
  <1>2. todo' = [todo EXCEPT ![t] = Tail(todo[t]) \o more]
    BY DEF Continue
  <1>3. /\ Tail(todo[t]) \o more \in Seq(Task)
        /\ Tasks(Tail(todo[t]) \o more) = Tasks(Tail(todo[t])) \cup Tasks(more)
    BY <1>1, TailTasks, ConcatTasks
  <1>4. /\ todo' \in [Thread -> Seq(Task)]
        /\ todo'[t] = Tail(todo[t]) \o more
        /\ \A u \in Thread \ {t} : todo'[u] = todo[u]
    BY <1>1, <1>2, <1>3
  <1>5. /\ Head(todo[t]) \in Tasks(todo[t]) /\ Head(todo[t]) \in Task
        /\ Tasks(Tail(todo[t])) \subseteq Tasks(todo[t])
        /\ Tasks(todo[t]) \subseteq Tasks(Tail(todo[t])) \cup {Head(todo[t])}
    BY <1>1, TailTasks
  <1> QED
    BY <1>3, <1>4, <1>5 DEF WentOn, AllTasks

\* What the handlers begin.
LEMMA Beginnings ==
  ASSUME TypeOK, NEW t \in Thread, NEW c \in Call
  PROVE  /\ StartCall(t, c) \/ HoldCall(t, c) => Begun({Send(c, "INVITE", 0)})
         /\ StopConnected(t, c) => Begun({Send(c, "BYE", 0)})
         /\ StopIncoming(t, c) => Begun({Send(c, "INVITE", SIP_DECLINE)})
         /\ StopOutgoing(t, c) => Begun({Send(c, "CANCEL", 0)})
         /\ StopNothing(t, c) => Begun({})
         /\ ForwardCall(t, c) => Begun({Send(c, "INVITE", SIP_MOVED_TEMPORARILY)})
         /\ RingCall(t, c) => Begun({Send(c, "INVITE", SIP_SESSION_PROGRESS)})
         /\ AcceptCall(t, c) => Begun({Send(c, "INVITE", SIP_OK)})
         /\ RecvCancelRequest(t, c) => Begun({Send(c, "CANCEL", SIP_OK), Lock(c, "CancelInvite")})
         /\ RecvByeRequest(t, c) => Begun({Send(c, "BYE", SIP_OK), Lock(c, "SetCallEnd")})
         /\ RecvInviteRequest(t, c) =>
              \/ Begun({Send(c, "INVITE", SIP_NOT_ACCEPTABLE_HERE)})
              \/ Begun({Event(c, "EventReInvite", 0), Lock(c, "AnswerReInvite")})
              \/ Begun({Send(c, "INVITE", SIP_RINGING), Lock(c, "InsertDialog")})
         /\ SendTimeout(c) => Begun({})
  <1>1. \A a \in Task : Begin(t, <<a>>) => Begun({a})
    <2> SUFFICES ASSUME NEW a \in Task, Begin(t, <<a>>) PROVE Begun({a})
      OBVIOUS
    <2>1. <<a>> \in Seq(Task) /\ Tasks(<<a>>) = {a}
      BY TupleTasks
    <2>2. Begun(Tasks(<<a>>))
      BY <2>1, BeginTasks
    <2> QED
      BY <2>1, <2>2
  <1>2. \A a, b \in Task : Begin(t, <<a, b>>) => Begun({a, b})
    <2> SUFFICES ASSUME NEW a \in Task, NEW b \in Task, Begin(t, <<a, b>>) PROVE Begun({a, b})
      OBVIOUS
    <2>1. <<a, b>> \in Seq(Task) /\ Tasks(<<a, b>>) = {a, b}
      BY TupleTasks
    <2>2. Begun(Tasks(<<a, b>>))
      BY <2>1, BeginTasks
    <2> QED
      BY <2>1, <2>2
  <1>3. \A u \in Thread : Begin(u, <<>>) => Begun({})
    <2> SUFFICES ASSUME NEW u \in Thread, Begin(u, <<>>) PROVE Begun({})
      OBVIOUS
    <2>1. Begun(Tasks(<<>>))
      BY TupleTasks, BeginTasks
    <2> QED
      BY <2>1, TupleTasks
  <1>4. /\ Send(c, "INVITE", 0) \in Task /\ Send(c, "BYE", 0) \in Task
        /\ Send(c, "CANCEL", 0) \in Task /\ Send(c, "INVITE", SIP_DECLINE) \in Task
        /\ Send(c, "INVITE", SIP_MOVED_TEMPORARILY) \in Task
        /\ Send(c, "INVITE", SIP_SESSION_PROGRESS) \in Task
        /\ Send(c, "INVITE", SIP_OK) \in Task
        /\ Send(c, "CANCEL", SIP_OK) \in Task /\ Send(c, "BYE", SIP_OK) \in Task
        /\ Send(c, "INVITE", SIP_NOT_ACCEPTABLE_HERE) \in Task
        /\ Send(c, "INVITE", SIP_RINGING) \in Task
        /\ Event(c, "EventReInvite", 0) \in Task
        /\ Lock(c, "CancelInvite") \in Task /\ Lock(c, "SetCallEnd") \in Task
        /\ Lock(c, "AnswerReInvite") \in Task /\ Lock(c, "InsertDialog") \in Task
    <2>1. \A s \in 0 .. 699 : /\ Send(c, "INVITE", s) \in Task /\ Send(c, "BYE", s) \in Task
                             /\ Send(c, "CANCEL", s) \in Task
      BY TaskTypes DEF Methods
    <2>2. Event(c, "EventReInvite", 0) \in Task
      BY TaskTypes DEF Events
    <2>3. /\ Lock(c, "CancelInvite") \in Task /\ Lock(c, "SetCallEnd") \in Task
          /\ Lock(c, "AnswerReInvite") \in Task /\ Lock(c, "InsertDialog") \in Task
      BY TaskTypes DEF Sections
    <2>4. /\ 0 \in 0 .. 699 /\ SIP_DECLINE \in 0 .. 699 /\ SIP_MOVED_TEMPORARILY \in 0 .. 699
          /\ SIP_SESSION_PROGRESS \in 0 .. 699 /\ SIP_OK \in 0 .. 699
          /\ SIP_NOT_ACCEPTABLE_HERE \in 0 .. 699 /\ SIP_RINGING \in 0 .. 699
      BY Statuses
    <2> QED
      BY <2>1, <2>2, <2>3, <2>4
  <1>5. Stack \in Thread
    BY DEF Thread
  <1>6. StartCall(t, c) \/ HoldCall(t, c) => Begun({Send(c, "INVITE", 0)})
    BY <1>1, <1>4 DEF StartCall, HoldCall
  <1>7. /\ StopConnected(t, c) => Begun({Send(c, "BYE", 0)})
        /\ StopIncoming(t, c) => Begun({Send(c, "INVITE", SIP_DECLINE)})
        /\ StopOutgoing(t, c) => Begun({Send(c, "CANCEL", 0)})
        /\ StopNothing(t, c) => Begun({})
    BY <1>1, <1>3, <1>4 DEF StopConnected, StopIncoming, StopOutgoing, StopNothing
  <1>8. /\ ForwardCall(t, c) => Begun({Send(c, "INVITE", SIP_MOVED_TEMPORARILY)})
        /\ RingCall(t, c) => Begun({Send(c, "INVITE", SIP_SESSION_PROGRESS)})
        /\ AcceptCall(t, c) => Begun({Send(c, "INVITE", SIP_OK)})
    BY <1>1, <1>4 DEF ForwardCall, RingCall, AcceptCall
  <1>9. /\ RecvCancelRequest(t, c) => Begun({Send(c, "CANCEL", SIP_OK), Lock(c, "CancelInvite")})
        /\ RecvByeRequest(t, c) => Begun({Send(c, "BYE", SIP_OK), Lock(c, "SetCallEnd")})
    BY <1>2, <1>4 DEF RecvCancelRequest, RecvByeRequest
  <1>10. RecvInviteRequest(t, c) =>
              \/ Begun({Send(c, "INVITE", SIP_NOT_ACCEPTABLE_HERE)})
              \/ Begun({Event(c, "EventReInvite", 0), Lock(c, "AnswerReInvite")})
              \/ Begun({Send(c, "INVITE", SIP_RINGING), Lock(c, "InsertDialog")})
    BY <1>1, <1>2, <1>4 DEF RecvInviteRequest
  <1>11. SendTimeout(c) => Begun({})
    BY <1>3, <1>5 DEF SendTimeout
  <1> QED
    BY <1>6, <1>7, <1>8, <1>9, <1>10, <1>11

\* An acknowledgement may come first.
LEMMA ResponseTasks ==
  ASSUME TypeOK, NEW t \in Thread, NEW c \in Call, NEW s \in 1 .. 699,
         SetInviteResponse(t, c, s)
  PROVE  \E A \in SUBSET {Send(c, "ACK", 0)} :
           \/ /\ ~ Known(c)
              /\ Begun({})
              /\ UNCHANGED <<dialog, invites>>
           \/ /\ Known(c) /\ Retries(dialog[c], s)
              /\ Begun(A \cup {Send(c, "INVITE", 0)})
              /\ CreateInvite(c)
              /\ Put(c, Responded(dialog[c], s))
           \/ /\ Known(c) /\ Reports(dialog[c], s)
              /\ Begun(A \cup Tasks(Report(dialog[c], c, s)))
              /\ Put(c, Responded(dialog[c], s))
              /\ UNCHANGED invites
  <1> DEFINE ack == Ack(c, s)
  <1>1. {Send(c, "ACK", 0), Send(c, "INVITE", 0)} \subseteq Task
    BY TaskTypes DEF Methods
  <1>2. ack \in Seq(Task) /\ Tasks(ack) \subseteq {Send(c, "ACK", 0)}
    BY <1>1, TupleTasks DEF Ack
  <1>3. <<Send(c, "INVITE", 0)>> \in Seq(Task) /\ Tasks(<<Send(c, "INVITE", 0)>>) = {Send(c, "INVITE", 0)}
    BY <1>1, TupleTasks
  <1>4. Report(dialog[c], c, s) \in Seq(Task)
    <2>1. /\ {Event(c, "EventCallRing", s), Event(c, "EventReInviteResponse", s),
              Event(c, "EventCallStart", s), Event(c, "EventCallEnd", s)} \subseteq Task
          /\ Lock(c, "Delete") \in Task
      BY TaskTypes DEF Events, Sections
    <2> QED
      BY <2>1, TupleTasks DEF Report
  <1>5. CASE ~ Known(c)
    <2>1. Begin(t, <<>>) /\ UNCHANGED <<dialog, invites>>
      BY <1>5 DEF SetInviteResponse
    <2>2. Begun({})
      BY <2>1, TupleTasks, BeginTasks
    <2> QED
      BY <1>5, <2>1, <2>2
  <1>6. CASE Known(c) /\ CallAgain(t, c, s) /\ Put(c, Responded(dialog[c], s))
    <2>1. /\ Begin(t, ack \o <<Send(c, "INVITE", 0)>>) /\ Retries(dialog[c], s)
          /\ CreateInvite(c) /\ Put(c, Responded(dialog[c], s))
      BY <1>6 DEF CallAgain
    <2>2. /\ ack \o <<Send(c, "INVITE", 0)>> \in Seq(Task)
          /\ Tasks(ack \o <<Send(c, "INVITE", 0)>>) = Tasks(ack) \cup {Send(c, "INVITE", 0)}
      BY <1>2, <1>3, ConcatTasks
    <2>3. Begun(Tasks(ack) \cup {Send(c, "INVITE", 0)})
      BY <2>1, <2>2, BeginTasks
    <2> QED
      BY <1>2, <1>6, <2>1, <2>3
  <1>7. CASE Known(c) /\ ReportResponse(t, c, s) /\ Put(c, Responded(dialog[c], s))
    <2>1. /\ Begin(t, ack \o Report(dialog[c], c, s)) /\ Reports(dialog[c], s)
          /\ Put(c, Responded(dialog[c], s)) /\ UNCHANGED invites
      BY <1>7 DEF ReportResponse
    <2>2. /\ ack \o Report(dialog[c], c, s) \in Seq(Task)
          /\ Tasks(ack \o Report(dialog[c], c, s)) = Tasks(ack) \cup Tasks(Report(dialog[c], c, s))
      BY <1>2, <1>4, ConcatTasks
    <2>3. Begun(Tasks(ack) \cup Tasks(Report(dialog[c], c, s)))
      BY <2>1, <2>2, BeginTasks
    <2> QED
      BY <1>2, <1>7, <2>1, <2>3
  <1> QED
    BY <1>5, <1>6, <1>7 DEF SetInviteResponse

\* What the tasks leave to do.
LEMMA HeadTask ==
  ASSUME TypeOK, NEW t \in Thread, todo[t] # <<>>
  PROVE  Head(todo[t]) \in Task /\ ThisCall(t) \in Call
  <1>1. todo[t] \in Seq(Task)
    BY DEF TypeOK
  <1>2. Head(todo[t]) \in Task
    BY <1>1, TailTasks
  <1> QED
    BY <1>2 DEF ThisCall, Task

LEMMA Continuations ==
  ASSUME TypeOK, NEW t \in Thread, NEW c \in Call, c = ThisCall(t)
  PROVE  /\ SendSipMessage(t) \/ CallBack(t) \/ Delete(t) => WentOn(t, {})
         /\ InsertDialog(t) =>
              WentOn(t, IF Known(c) THEN {} ELSE {Event(c, "EventIncomingCall", 0)})
         /\ AnswerReInvite(t) =>
              WentOn(t, IF Known(c) THEN {Send(c, "INVITE", SIP_OK)} ELSE {})
         /\ CancelInvite(t) =>
              WentOn(t, IF CanCancel(c)
                        THEN {Send(c, "INVITE", SIP_REQUEST_TERMINATED),
                              Event(c, "EventCallEnd", SIP_REQUEST_TERMINATED), Lock(c, "Delete")}
                        ELSE {})
         /\ SetCallEnd(t) =>
              WentOn(t, IF Known(c) THEN {Event(c, "EventCallEnd", SIP_OK), Lock(c, "Delete")}
                        ELSE {})
  <1>1. todo[t] # <<>> /\ Continue(t, <<>>) => WentOn(t, {})
    <2>1. todo[t] # <<>> /\ Continue(t, <<>>) => WentOn(t, Tasks(<<>>))
      BY TupleTasks, ContinueTasks
    <2> QED
      BY <2>1, TupleTasks
  <1>2. ASSUME NEW a \in Task, todo[t] # <<>>, Continue(t, <<a>>) PROVE WentOn(t, {a})
    <2>1. <<a>> \in Seq(Task) /\ Tasks(<<a>>) = {a}
      BY TupleTasks
    <2>2. WentOn(t, Tasks(<<a>>))
      BY <1>2, <2>1, ContinueTasks
    <2> QED
      BY <2>1, <2>2
  <1>3. ASSUME NEW a \in Task, NEW b \in Task, todo[t] # <<>>, Continue(t, <<a, b>>)
        PROVE  WentOn(t, {a, b})
    <2>1. <<a, b>> \in Seq(Task) /\ Tasks(<<a, b>>) = {a, b}
      BY TupleTasks
    <2>2. WentOn(t, Tasks(<<a, b>>))
      BY <1>3, <2>1, ContinueTasks
    <2> QED
      BY <2>1, <2>2
  <1>4. ASSUME NEW a \in Task, NEW b \in Task, NEW d \in Task,
               todo[t] # <<>>, Continue(t, <<a, b, d>>)
        PROVE  WentOn(t, {a, b, d})
    <2>1. <<a, b, d>> \in Seq(Task) /\ Tasks(<<a, b, d>>) = {a, b, d}
      BY TupleTasks
    <2>2. WentOn(t, Tasks(<<a, b, d>>))
      BY <1>4, <2>1, ContinueTasks
    <2> QED
      BY <2>1, <2>2
  <1>5. /\ Event(c, "EventIncomingCall", 0) \in Task
        /\ Event(c, "EventCallEnd", SIP_OK) \in Task
        /\ Event(c, "EventCallEnd", SIP_REQUEST_TERMINATED) \in Task
    <2>1. 0 \in 0 .. 699 /\ SIP_OK \in 0 .. 699 /\ SIP_REQUEST_TERMINATED \in 0 .. 699
      BY Statuses
    <2>2. "EventIncomingCall" \in Events /\ "EventCallEnd" \in Events
      BY DEF Events
    <2> QED
      BY <2>1, <2>2, TaskTypes
  <1>6. /\ Send(c, "INVITE", SIP_OK) \in Task
        /\ Send(c, "INVITE", SIP_REQUEST_TERMINATED) \in Task
        /\ Lock(c, "Delete") \in Task
    BY TaskTypes, Statuses DEF Methods, Sections
  <1>7. SendSipMessage(t) \/ CallBack(t) \/ Delete(t) => WentOn(t, {})
    BY <1>1 DEF SendSipMessage, CallBack, Delete, AtStep
  <1>8. InsertDialog(t) =>
          WentOn(t, IF Known(c) THEN {} ELSE {Event(c, "EventIncomingCall", 0)})
    <2>1. CASE Known(c)
      BY <1>1, <2>1 DEF InsertDialog, AtStep
    <2>2. CASE ~ Known(c)
      BY <1>2, <1>5, <2>2 DEF InsertDialog, AtStep
    <2> QED
      BY <2>1, <2>2
  <1>9. AnswerReInvite(t) =>
          WentOn(t, IF Known(c) THEN {Send(c, "INVITE", SIP_OK)} ELSE {})
    <2>1. CASE Known(c)
      BY <1>2, <1>6, <2>1 DEF AnswerReInvite, AtStep
    <2>2. CASE ~ Known(c)
      BY <1>1, <2>2 DEF AnswerReInvite, AtStep
    <2> QED
      BY <2>1, <2>2
  <1>10. CancelInvite(t) =>
           WentOn(t, IF CanCancel(c)
                     THEN {Send(c, "INVITE", SIP_REQUEST_TERMINATED),
                           Event(c, "EventCallEnd", SIP_REQUEST_TERMINATED), Lock(c, "Delete")}
                     ELSE {})
    BY <1>1, <1>4, <1>5, <1>6 DEF CancelInvite, AtStep
  <1>11. SetCallEnd(t) =>
           WentOn(t, IF Known(c) THEN {Event(c, "EventCallEnd", SIP_OK), Lock(c, "Delete")}
                     ELSE {})
    BY <1>1, <1>3, <1>5, <1>6 DEF SetCallEnd, AtStep
  <1> QED
    BY <1>7, <1>8, <1>9, <1>10, <1>11
-----------------------------------------------------------------------------
LEMMA DialogTypes ==
  ASSUME NEW d \in CSipDialog
  PROVE  /\ d.start \in BOOLEAN /\ d.end \in BOOLEAN /\ d.cancel \in BOOLEAN /\ d.invite \in BOOLEAN
         /\ [d EXCEPT !.cancel = TRUE] \in CSipDialog
         /\ [d EXCEPT !.end = TRUE] \in CSipDialog
         /\ Accepted(d) \in CSipDialog
         /\ \A s \in 1 .. 699 : Responded(d, s) \in CSipDialog
  BY DEF CSipDialog, Accepted, Responded, Success, Challenge

LEMMA NewDialogType == \A b \in BOOLEAN : NewDialog(b) \in CSipDialog
  BY DEF NewDialog, CSipDialog

\* The dialog map keeps its type when an entry is put in or removed.
DialogsOK == DOMAIN dialog \subseteq Call /\ \A c \in DOMAIN dialog : dialog[c] \in CSipDialog

\* The dialog of call c becomes d; it is removed.
Changed(c, d) ==
  /\ DOMAIN dialog' = DOMAIN dialog \cup {c}
  /\ dialog'[c] = d
  /\ \A b \in DOMAIN dialog \ {c} : dialog'[b] = dialog[b]

Removed(c) ==
  /\ DOMAIN dialog' = DOMAIN dialog \ {c}
  /\ \A b \in DOMAIN dialog' : dialog'[b] = dialog[b]

LEMMA PutRemove ==
  ASSUME DialogsOK, NEW c \in Call
  PROVE  /\ \A d \in CSipDialog : Put(c, d) => DialogsOK' /\ Changed(c, d)
         /\ Remove(c) => DialogsOK' /\ Removed(c)
  BY DEF DialogsOK, Put, Remove, Restrict, Changed, Removed

\* What the handlers do to dialogs.
LEMMA DialogChanges ==
  ASSUME TypeOK, NEW t \in Thread, NEW c \in Call
  PROVE  /\ DialogsOK
         /\ StartCall(t, c) => DialogsOK' /\ Changed(c, NewDialog(FALSE))
         /\ StopConnected(t, c) \/ StopIncoming(t, c) \/ ForwardCall(t, c) =>
              DialogsOK' /\ Removed(c)
         /\ Known(c) /\ StopOutgoing(t, c) =>
              DialogsOK' /\ Changed(c, [dialog[c] EXCEPT !.cancel = TRUE])
         /\ AcceptCall(t, c) => DialogsOK' /\ Changed(c, Accepted(dialog[c]))
         /\ \A s \in 1 .. 699 : Known(c) /\ Put(c, Responded(dialog[c], s)) =>
              DialogsOK' /\ Changed(c, Responded(dialog[c], s))
         /\ c = ThisCall(t) =>
              /\ InsertDialog(t) /\ ~ Known(c) => DialogsOK' /\ Changed(c, NewDialog(TRUE))
              /\ CancelInvite(t) /\ CanCancel(c) =>
                   DialogsOK' /\ Changed(c, [dialog[c] EXCEPT !.end = TRUE])
              /\ SetCallEnd(t) /\ Known(c) =>
                   DialogsOK' /\ Changed(c, [dialog[c] EXCEPT !.end = TRUE])
              /\ Delete(t) => DialogsOK' /\ Removed(c)
  <1>1. DialogsOK
    BY DEF TypeOK, DialogsOK
  <1>2. NewDialog(TRUE) \in CSipDialog /\ NewDialog(FALSE) \in CSipDialog
    BY NewDialogType
  <1>3. Known(c) =>
          /\ [dialog[c] EXCEPT !.cancel = TRUE] \in CSipDialog
          /\ [dialog[c] EXCEPT !.end = TRUE] \in CSipDialog
          /\ Accepted(dialog[c]) \in CSipDialog
          /\ \A s \in 1 .. 699 : Responded(dialog[c], s) \in CSipDialog
    BY <1>1, DialogTypes DEF DialogsOK, Known
  <1>4. StartCall(t, c) => DialogsOK' /\ Changed(c, NewDialog(FALSE))
    BY <1>1, <1>2, PutRemove DEF StartCall
  <1>5. StopConnected(t, c) \/ StopIncoming(t, c) \/ ForwardCall(t, c) =>
          DialogsOK' /\ Removed(c)
    BY <1>1, PutRemove DEF StopConnected, StopIncoming, ForwardCall
  <1>6. Known(c) /\ StopOutgoing(t, c) =>
          DialogsOK' /\ Changed(c, [dialog[c] EXCEPT !.cancel = TRUE])
    BY <1>1, <1>3, PutRemove DEF StopOutgoing
  <1>7. AcceptCall(t, c) => DialogsOK' /\ Changed(c, Accepted(dialog[c]))
    BY <1>1, <1>3, PutRemove DEF AcceptCall, Unanswered
  <1>8. \A s \in 1 .. 699 : Known(c) /\ Put(c, Responded(dialog[c], s)) =>
          DialogsOK' /\ Changed(c, Responded(dialog[c], s))
    BY <1>1, <1>3, PutRemove
  <1>9. ASSUME c = ThisCall(t)
        PROVE  /\ InsertDialog(t) /\ ~ Known(c) => DialogsOK' /\ Changed(c, NewDialog(TRUE))
               /\ CancelInvite(t) /\ CanCancel(c) =>
                    DialogsOK' /\ Changed(c, [dialog[c] EXCEPT !.end = TRUE])
               /\ SetCallEnd(t) /\ Known(c) =>
                    DialogsOK' /\ Changed(c, [dialog[c] EXCEPT !.end = TRUE])
               /\ Delete(t) => DialogsOK' /\ Removed(c)
    <2>1. InsertDialog(t) /\ ~ Known(c) => DialogsOK' /\ Changed(c, NewDialog(TRUE))
      BY <1>1, <1>2, <1>9, PutRemove DEF InsertDialog
    <2>2. CancelInvite(t) /\ CanCancel(c) =>
            DialogsOK' /\ Changed(c, [dialog[c] EXCEPT !.end = TRUE])
      BY <1>1, <1>3, <1>9, PutRemove DEF CancelInvite, CanCancel
    <2>3. SetCallEnd(t) /\ Known(c) =>
            DialogsOK' /\ Changed(c, [dialog[c] EXCEPT !.end = TRUE])
      BY <1>1, <1>3, <1>9, PutRemove DEF SetCallEnd
    <2>4. Delete(t) => DialogsOK' /\ Removed(c)
      BY <1>1, <1>9, PutRemove DEF Delete
    <2> QED
      BY <2>1, <2>2, <2>3, <2>4
  <1> QED
    BY <1>1, <1>4, <1>5, <1>6, <1>7, <1>8, <1>9

\* The rest of the state has its types.
RestOK ==
  /\ inbox \cup sent \subseteq [call : Call, name : Methods, status : 0 .. 699]
  /\ invites \in [Call -> 0 .. MaxInvites]
  /\ pending \subseteq Call
  /\ peer \in [Call -> SUBSET PeerAct]
  /\ told \cup late \subseteq [call : Call, name : Events, status : 0 .. 699]
  /\ stopped \subseteq Call \X BOOLEAN
  /\ timeouts \cup ghosts \subseteq Call
  /\ answers \in [Call -> Nat]

LEMMA Types == TypeOK <=> DialogsOK /\ todo \in [Thread -> Seq(Task)] /\ RestOK
  BY DEF TypeOK, DialogsOK, RestOK

LEMMA TypesAfter == TypeOK' <=> DialogsOK' /\ (todo \in [Thread -> Seq(Task)])' /\ RestOK'
  BY DEF TypeOK, DialogsOK, RestOK

LEMMA Received ==
  \A c, name, s : Receive(c, name, s) => inbox' \subseteq inbox
  BY DEF Receive

Packet == [call : Call, name : Methods, status : 0 .. 699]
Callback == [call : Call, name : Events, status : 0 .. 699]

LEMMA MessageTypes ==
  \A c \in Call, name \in Methods, s \in 0 .. 699 :
    Message(c, name, s) \in Packet
  BY DEF Message, Packet

LEMMA RestStep ==
  ASSUME RestOK,
         inbox' \subseteq inbox \cup Packet,
         sent' \subseteq sent \cup Packet,
         invites' \in [Call -> 0 .. MaxInvites],
         pending' \subseteq Call,
         peer' \in [Call -> SUBSET PeerAct],
         told' \subseteq told \cup Callback,
         late' \subseteq late \cup Callback,
         stopped' \subseteq stopped,
         timeouts' \subseteq timeouts,
         ghosts' \subseteq Call,
         answers' \in [Call -> Nat]
  PROVE  RestOK'
  BY DEF RestOK, Packet, Callback

\* RestOK by parts.
LEMMA Rest ==
  ASSUME RestOK
  PROVE  /\ invites \in [Call -> 0 .. MaxInvites]
         /\ pending \subseteq Call
         /\ peer \in [Call -> SUBSET PeerAct]
         /\ ghosts \subseteq Call
         /\ answers \in [Call -> Nat]
  BY DEF RestOK

LEMMA FewerMessages ==
  RestOK /\ inbox' \subseteq inbox /\ UNCHANGED <<sent, invites, pending, peer, told, history>>
    => RestOK'
  BY DEF RestOK, history

LEMMA InvitesType ==
  ASSUME RestOK, NEW c \in Call, CreateInvite(c)
  PROVE  /\ invites' \in [Call -> 0 .. MaxInvites]
         /\ invites'[c] >= 1
         /\ \A b \in Call \ {c} : invites'[b] = invites[b]
  BY UserAgentAssumption DEF RestOK, CreateInvite

LEMMA AnswersType ==
  ASSUME RestOK, NEW c \in Call, CountAnswer(c)
  PROVE  /\ answers' \in [Call -> Nat]
         /\ answers'[c] = answers[c] + 1
         /\ \A b \in Call \ {c} : answers'[b] = answers[b]
  BY DEF RestOK, CountAnswer

LEMMA TypeInit == Init => TypeOK
  <1> SUFFICES ASSUME Init PROVE TypeOK
    OBVIOUS
  <1>1. DialogsOK
    BY DEF Init, DialogsOK
  <1>2. todo \in [Thread -> Seq(Task)]
    BY TupleTasks DEF Init
  <1>3. RestOK
    BY UserAgentAssumption DEF Init, RestOK
  <1> QED
    BY <1>1, <1>2, <1>3, Types

\* One step per operation of the application, per message received, per task and per act of
\* the peer.
LEMMA ApplicationTypes ==
  ASSUME TypeOK, NEW t \in Thread, NEW c \in Call, Application(t, c)
  PROVE  TypeOK'
  <1>1. DialogsOK /\ todo \in [Thread -> Seq(Task)] /\ RestOK
    BY Types
  <1>2. CASE StartCall(t, c)
    <2>1. RestOK'
      BY <1>1, <1>2, InvitesType DEF StartCall, RestOK, history
    <2> QED
      BY <1>2, <2>1, Beginnings, DialogChanges, TypesAfter DEF Begun
  <1>3. CASE StopCall(t, c)
    <2>1. dialog[c].start \in BOOLEAN
      BY <1>1, <1>3, DialogTypes DEF DialogsOK, StopCall, Known
    <2>2. answers' \in [Call -> Nat]
      BY <1>1, <1>3, AnswersType
         DEF RestOK, StopCall, StopConnected, StopIncoming, StopOutgoing, StopNothing
    <2>3. RestOK'
      BY <1>1, <1>3, <2>1, <2>2 DEF RestOK, StopCall
    <2>4. DialogsOK' /\ todo' \in [Thread -> Seq(Task)]
      <3>1. CASE StopConnected(t, c)
        BY <3>1, Beginnings, DialogChanges DEF Begun
      <3>2. CASE StopIncoming(t, c)
        BY <3>2, Beginnings, DialogChanges DEF Begun
      <3>3. CASE StopOutgoing(t, c)
        BY <1>3, <3>3, Beginnings, DialogChanges DEF Begun, StopCall
      <3>4. CASE StopNothing(t, c)
        BY <1>1, <3>4, Beginnings DEF Begun, StopNothing, DialogsOK
      <3> QED
        BY <1>3, <3>1, <3>2, <3>3, <3>4 DEF StopCall
    <2> QED
      BY <2>3, <2>4, TypesAfter
  <1>4. CASE ForwardCall(t, c)
    <2>1. RestOK'
      BY <1>1, <1>4, AnswersType DEF ForwardCall, RestOK
    <2> QED
      BY <1>4, <2>1, Beginnings, DialogChanges, TypesAfter DEF Begun
  <1>5. CASE RingCall(t, c)
    <2>1. RestOK'
      BY <1>1, <1>5 DEF RingCall, RestOK, history
    <2>2. DialogsOK'
      BY <1>1, <1>5 DEF RingCall, DialogsOK
    <2> QED
      BY <1>5, <2>1, <2>2, Beginnings, TypesAfter DEF Begun
  <1>6. CASE AcceptCall(t, c)
    <2>1. RestOK'
      BY <1>1, <1>6, AnswersType DEF AcceptCall, RestOK
    <2> QED
      BY <1>6, <2>1, Beginnings, DialogChanges, TypesAfter DEF Begun
  <1>7. CASE HoldCall(t, c)
    <2>1. RestOK'
      BY <1>1, <1>7, InvitesType DEF HoldCall, RestOK, history
    <2>2. DialogsOK'
      BY <1>1, <1>7 DEF HoldCall, DialogsOK
    <2> QED
      BY <1>7, <2>1, <2>2, Beginnings, TypesAfter DEF Begun
  <1> QED
    BY <1>2, <1>3, <1>4, <1>5, <1>6, <1>7 DEF Application

LEMMA ResponseTypes ==
  ASSUME TypeOK, NEW t \in Thread, NEW c \in Call, NEW s \in 1 .. 699,
         SetInviteResponse(t, c, s)
  PROVE  /\ DialogsOK' /\ todo' \in [Thread -> Seq(Task)]
         /\ invites' \in [Call -> 0 .. MaxInvites]
  <1>1. DialogsOK /\ RestOK
    BY Types
  <1>2. PICK A \in SUBSET {Send(c, "ACK", 0)} :
           \/ /\ ~ Known(c)
              /\ Begun({})
              /\ UNCHANGED <<dialog, invites>>
           \/ /\ Known(c) /\ Retries(dialog[c], s)
              /\ Begun(A \cup {Send(c, "INVITE", 0)})
              /\ CreateInvite(c)
              /\ Put(c, Responded(dialog[c], s))
           \/ /\ Known(c) /\ Reports(dialog[c], s)
              /\ Begun(A \cup Tasks(Report(dialog[c], c, s)))
              /\ Put(c, Responded(dialog[c], s))
              /\ UNCHANGED invites
    BY ResponseTasks
  <1>3. CASE ~ Known(c)
    BY <1>1, <1>2, <1>3 DEF Begun, DialogsOK, RestOK
  <1>4. CASE Known(c) /\ Begun(A \cup {Send(c, "INVITE", 0)}) /\ CreateInvite(c)
               /\ Put(c, Responded(dialog[c], s))
    BY <1>1, <1>2, <1>4, DialogChanges, InvitesType DEF Begun
  <1>5. CASE Known(c) /\ Begun(A \cup Tasks(Report(dialog[c], c, s)))
               /\ Put(c, Responded(dialog[c], s)) /\ UNCHANGED invites
    <2>1. /\ Begun(A \cup Tasks(Report(dialog[c], c, s)))
          /\ Put(c, Responded(dialog[c], s))
          /\ invites' = invites
      BY <1>5
    <2>2. DialogsOK'
      BY <1>5, <2>1, DialogChanges
    <2> QED
      BY <1>1, <2>1, <2>2 DEF Begun, RestOK
  <1> QED
    BY <1>2, <1>3, <1>4, <1>5

LEMMA HandleTypes ==
  ASSUME TypeOK, NEW t \in Thread, NEW c \in Call, Handle(t, c) \/ InviteTimeout(c) \/ SendTimeout(c)
  PROVE  TypeOK'
  <1>1. DialogsOK /\ todo \in [Thread -> Seq(Task)] /\ RestOK
    BY Types
  <1>2. CASE RecvInviteRequest(t, c)
    <2>1. RestOK'
      BY <1>1, <1>2, Received, FewerMessages DEF RecvInviteRequest
    <2>2. DialogsOK'
      BY <1>1, <1>2 DEF RecvInviteRequest, DialogsOK
    <2> QED
      BY <1>2, <2>1, <2>2, Beginnings, TypesAfter DEF Begun
  <1>3. CASE RecvCancelRequest(t, c)
    <2>1. RestOK'
      BY <1>1, <1>3, Received, FewerMessages DEF RecvCancelRequest
    <2>2. DialogsOK'
      BY <1>1, <1>3 DEF RecvCancelRequest, DialogsOK
    <2> QED
      BY <1>3, <2>1, <2>2, Beginnings, TypesAfter DEF Begun
  <1>4. CASE RecvByeRequest(t, c)
    <2>1. RestOK'
      BY <1>1, <1>4, Received, FewerMessages DEF RecvByeRequest
    <2>2. DialogsOK'
      BY <1>1, <1>4 DEF RecvByeRequest, DialogsOK
    <2> QED
      BY <1>4, <2>1, <2>2, Beginnings, TypesAfter DEF Begun
  <1>5. ASSUME NEW s \in Status, RecvInviteResponse(t, c, s) PROVE TypeOK'
    <2>1. s \in 1 .. 699
      BY Statuses
    <2>2. /\ DialogsOK' /\ todo' \in [Thread -> Seq(Task)]
          /\ invites' \in [Call -> 0 .. MaxInvites]
      BY <1>5, <2>1, ResponseTypes DEF RecvInviteResponse
    <2>3. RestOK'
      BY <1>1, <1>5, <2>2, Received DEF RecvInviteResponse, RestOK, history
    <2> QED
      BY <2>2, <2>3, TypesAfter
  <1>6. CASE InviteTimeout(c)
    <2>1. Stack \in Thread
      BY DEF Thread
    <2>2. /\ DialogsOK' /\ todo' \in [Thread -> Seq(Task)]
          /\ invites' \in [Call -> 0 .. MaxInvites]
      BY <1>6, <2>1, Statuses, ResponseTypes DEF InviteTimeout
    <2>3. RestOK'
      BY <1>1, <1>6, <2>2 DEF InviteTimeout, RestOK, history
    <2> QED
      BY <2>2, <2>3, TypesAfter
  <1>7. CASE SendTimeout(c)
    <2>1. RestOK'
      BY <1>1, <1>7 DEF SendTimeout, RestOK
    <2>2. DialogsOK'
      BY <1>1, <1>7 DEF SendTimeout, DialogsOK
    <2> QED
      BY <1>7, <2>1, <2>2, Beginnings, TypesAfter DEF Begun
  <1> QED
    BY <1>2, <1>3, <1>4, <1>5, <1>6, <1>7 DEF Handle

LEMMA ProceedTypes ==
  ASSUME TypeOK, NEW t \in Thread, Proceed(t)
  PROVE  TypeOK'
  <1> DEFINE c == ThisCall(t)
  <1>1. DialogsOK /\ todo \in [Thread -> Seq(Task)] /\ RestOK
    BY Types
  <1>2. todo[t] # <<>>
    BY DEF Proceed, SendSipMessage, CallBack, InsertDialog, AnswerReInvite, CancelInvite,
       SetCallEnd, Delete, AtStep
  <1>3. Head(todo[t]) \in Task /\ c \in Call
    BY <1>2, HeadTask
  <1>4. CASE SendSipMessage(t)
    <2>1. /\ Head(todo[t]).call \in Call
          /\ Message(Head(todo[t]).call, Head(todo[t]).name, Head(todo[t]).status) \in Packet
      BY <1>3, <1>4 DEF SendSipMessage, Message, Task, Packet
    <2>5. /\ sent' \subseteq sent \cup Packet
          /\ pending' \subseteq Call
          /\ UNCHANGED <<inbox, invites, peer, told, late, stopped, answers, timeouts, ghosts>>
      BY <1>1, <1>4, <2>1, Rest DEF SendSipMessage, history
    <2>2. RestOK'
      BY <1>1, <2>5, Rest, RestStep
    <2>3. DialogsOK'
      BY <1>1, <1>4 DEF SendSipMessage, DialogsOK
    <2>4. todo' \in [Thread -> Seq(Task)]
      BY <1>3, <1>4, Continuations DEF WentOn
    <2> QED
      BY <2>2, <2>3, <2>4, TypesAfter
  <1>5. CASE CallBack(t)
    <2>1. Message(Head(todo[t]).call, Head(todo[t]).name, Head(todo[t]).status)
            \in Callback
      BY <1>3, <1>5 DEF CallBack, Message, Task, Callback
    <2>5. /\ told' \subseteq told \cup Callback
          /\ late' \subseteq late \cup Callback
          /\ UNCHANGED <<inbox, sent, invites, pending, peer, stopped, answers, timeouts, ghosts>>
      BY <1>5, <2>1 DEF CallBack
    <2>2. RestOK'
      BY <1>1, <2>5, Rest, RestStep
    <2>3. DialogsOK'
      BY <1>1, <1>5 DEF CallBack, DialogsOK
    <2>4. todo' \in [Thread -> Seq(Task)]
      BY <1>3, <1>5, Continuations DEF WentOn
    <2> QED
      BY <2>2, <2>3, <2>4, TypesAfter
  <1>6. CASE InsertDialog(t)
    <2>1. todo' \in [Thread -> Seq(Task)]
      BY <1>3, <1>6, Continuations DEF WentOn
    <2>2. CASE Known(c)
      <3>1. UNCHANGED <<dialog, told, history, inbox, sent, invites, pending, peer>>
        BY <1>6, <2>2 DEF InsertDialog
      <3>2. RestOK' /\ DialogsOK'
        BY <1>1, <3>1 DEF RestOK, DialogsOK, history
      <3> QED
        BY <2>1, <3>2, TypesAfter
    <2>3. CASE ~ Known(c)
      <3>1. /\ told' \subseteq told /\ late' \subseteq late
            /\ stopped' \subseteq stopped
            /\ answers' = [answers EXCEPT ![c] = 0]
            /\ timeouts' \subseteq timeouts /\ ghosts' \subseteq ghosts \cup {c}
            /\ UNCHANGED <<inbox, sent, invites, pending, peer>>
        BY <1>6, <2>3 DEF InsertDialog
      <3>2. RestOK'
        <4>1. answers' \in [Call -> Nat] /\ ghosts' \subseteq Call
          BY <1>1, <1>3, <3>1, Rest
        <4> QED
          BY <1>1, <3>1, <4>1, Rest, RestStep
      <3>3. DialogsOK'
        BY <1>3, <1>6, <2>3, DialogChanges
      <3> QED
        BY <2>1, <3>2, <3>3, TypesAfter
    <2> QED
      BY <2>1, <2>2, <2>3
  <1>7. CASE AnswerReInvite(t) \/ CancelInvite(t) \/ SetCallEnd(t) \/ Delete(t)
    <2>1. RestOK'
      <3>1. UNCHANGED <<inbox, sent, invites, pending, peer, told, history>>
        BY <1>7 DEF AnswerReInvite, CancelInvite, SetCallEnd, Delete
      <3> QED
        BY <1>1, <3>1, FewerMessages
    <2>2. todo' \in [Thread -> Seq(Task)]
      BY <1>3, <1>7, Continuations DEF WentOn
    <2>3. DialogsOK'
      <3>1. dialog' = dialog => DialogsOK'
        BY <1>1 DEF DialogsOK
      <3>2. CASE AnswerReInvite(t)
        BY <3>1, <3>2 DEF AnswerReInvite
      <3>3. CASE CancelInvite(t)
        BY <1>3, <3>1, <3>3, DialogChanges DEF CancelInvite
      <3>4. CASE SetCallEnd(t)
        BY <1>3, <3>1, <3>4, DialogChanges DEF SetCallEnd
      <3>5. CASE Delete(t)
        BY <1>3, <3>5, DialogChanges
      <3> QED
        BY <1>7, <3>2, <3>3, <3>4, <3>5
    <2> QED
      BY <2>1, <2>2, <2>3, TypesAfter
  <1> QED
    BY <1>4, <1>5, <1>6, <1>7 DEF Proceed

LEMMA PeerTypes ==
  ASSUME TypeOK, NEW c \in Call, Peer(c)
  PROVE  TypeOK'
  <1>1. DialogsOK /\ todo \in [Thread -> Seq(Task)] /\ RestOK
    BY Types
  <1>2. DialogsOK' /\ todo' \in [Thread -> Seq(Task)]
    BY <1>1 DEF Peer, PeerInvites, PeerReInvites, PeerHangsUp, PeerCancels, PeerSends,
       PeerResponds, DialogsOK
  <1>3. ASSUME NEW act \in PeerAct, NEW method \in Methods, PeerSends(c, act, method),
               invites' \in [Call -> 0 .. MaxInvites]
        PROVE  RestOK'
    <2>1. Message(c, method, 0) \in Packet
      <3>1. 0 \in 0 .. 699
        OBVIOUS
      <3> QED
        BY <3>1, MessageTypes
    <2>2. /\ inbox' \subseteq inbox \cup Packet
          /\ UNCHANGED <<sent, pending, told, late, stopped, answers, timeouts, ghosts>>
      BY <1>3, <2>1 DEF PeerSends, history
    <2>3. peer' \in [Call -> SUBSET PeerAct]
      <3>1. peer \in [Call -> SUBSET PeerAct]
        BY <1>1, Rest
      <3> QED
        BY <1>3, <3>1 DEF PeerSends
    <2> QED
      BY <1>1, <1>3, <2>2, <2>3, Rest, RestStep
  <1>4. /\ "INVITE" \in PeerAct /\ "ReINVITE" \in PeerAct /\ "CANCEL" \in PeerAct
        /\ "BYE" \in PeerAct
    BY DEF PeerAct
  <1>5. "INVITE" \in Methods /\ "CANCEL" \in Methods /\ "BYE" \in Methods
    BY DEF Methods
  <1>6. ASSUME PeerInvites(c) \/ PeerReInvites(c) PROVE RestOK'
    <2>1. invites' \in [Call -> 0 .. MaxInvites]
      BY <1>1, <1>6, InvitesType DEF PeerInvites, PeerReInvites
    <2> QED
      BY <1>3, <1>4, <1>5, <1>6, <2>1 DEF PeerInvites, PeerReInvites
  <1>7. ASSUME PeerHangsUp(c) \/ PeerCancels(c) PROVE RestOK'
    <2>1. invites' \in [Call -> 0 .. MaxInvites]
      BY <1>1, <1>7, Rest DEF PeerHangsUp, PeerCancels
    <2> QED
      BY <1>3, <1>4, <1>5, <1>7, <2>1 DEF PeerHangsUp, PeerCancels
  <1>8. ASSUME NEW s \in Status, PeerResponds(c, s) PROVE RestOK'
    <2>1. Message(c, "INVITE", s) \in Packet
      <3>1. s \in 0 .. 699
        BY Statuses
      <3> QED
        BY <1>5, <3>1, MessageTypes
    <2>2. /\ pending' \subseteq Call
          /\ inbox' \subseteq inbox \cup Packet
          /\ UNCHANGED <<sent, invites, told, late, stopped, answers, timeouts, ghosts>>
      BY <1>1, <1>8, <2>1, Rest DEF PeerResponds, history
    <2>3. peer' \in [Call -> SUBSET PeerAct]
      BY <1>1, <1>8, Rest DEF PeerResponds, PeerAct
    <2> QED
      BY <1>1, <2>2, <2>3, Rest, RestStep
  <1> QED
    BY <1>2, <1>6, <1>7, <1>8, TypesAfter DEF Peer

LEMMA Threads == App \subseteq Thread /\ Receiver \subseteq Thread /\ Stack \in Thread
  BY DEF Thread

LEMMA TypeStep == TypeOK /\ [Next]_vars => TypeOK'
  <1> SUFFICES ASSUME TypeOK, [Next]_vars PROVE TypeOK'
    OBVIOUS
  <1>1. CASE UNCHANGED vars
    BY <1>1 DEF vars, history, TypeOK
  <1>2. ASSUME NEW t \in App, NEW c \in Call, Application(t, c) PROVE TypeOK'
    BY <1>2, Threads, ApplicationTypes
  <1>3. ASSUME NEW t \in Receiver, NEW c \in Call, Handle(t, c) PROVE TypeOK'
    BY <1>3, Threads, HandleTypes
  <1>4. ASSUME NEW t \in Thread, Proceed(t) PROVE TypeOK'
    BY <1>4, ProceedTypes
  <1>5. ASSUME NEW c \in Call, InviteTimeout(c) \/ SendTimeout(c) PROVE TypeOK'
    BY <1>5, Threads, HandleTypes
  <1>6. ASSUME NEW c \in Call, Peer(c) PROVE TypeOK'
    BY <1>6, PeerTypes
  <1> QED
    BY <1>1, <1>2, <1>3, <1>4, <1>5, <1>6 DEF Next

\* The state of the user agent keeps its types: only calls that exist have dialogs, and the
\* threads' tasks are ones the code has.
THEOREM TypeCorrect == Spec => []TypeOK
  <1>1. Init => TypeOK
    BY TypeInit
  <1>2. TypeOK /\ [Next]_vars => TypeOK'
    BY TypeStep
  <1> QED
    BY <1>1, <1>2, PTL DEF Spec
-----------------------------------------------------------------------------
LEMMA TaskKinds ==
  \A b, c, m, n, r, s :
    /\ Send(b, m, r) = Send(c, n, s) => b = c /\ m = n /\ r = s
    /\ Lock(b, m) = Lock(c, n) => b = c /\ m = n
    /\ Send(b, m, r) # Event(c, n, s)
    /\ Send(b, m, r) # Lock(c, n)
    /\ Event(b, m, r) # Lock(c, n)
  <1>1. \A b, m, r : /\ Send(b, m, r).do = "send" /\ Send(b, m, r).call = b
                     /\ Send(b, m, r).name = m /\ Send(b, m, r).status = r
    BY DEF Send, Step
  <1>2. \A b, m : Lock(b, m).do = "lock" /\ Lock(b, m).call = b /\ Lock(b, m).name = m
    BY DEF Lock, Step
  <1>3. \A b, m, r : Event(b, m, r).do = "event"
    BY DEF Event, Step
  <1> QED
    BY <1>1, <1>2, <1>3

LEMMA ReportTasks ==
  ASSUME NEW d, NEW c \in Call, NEW s \in 1 .. 699
  PROVE  /\ \A x \in Tasks(Report(d, c, s)) : x = Lock(c, "Delete") \/ \E n : x = Event(c, n, s)
         /\ s >= SIP_MULTIPLE_CHOICES /\ ~ d.start =>
              Event(c, "EventCallEnd", s) \in Tasks(Report(d, c, s))
  <1>1. /\ Event(c, "EventCallRing", s) \in Task /\ Event(c, "EventReInviteResponse", s) \in Task
        /\ Event(c, "EventCallStart", s) \in Task /\ Event(c, "EventCallEnd", s) \in Task
        /\ Lock(c, "Delete") \in Task
    <2>1. /\ "EventCallRing" \in Events /\ "EventReInviteResponse" \in Events
          /\ "EventCallStart" \in Events /\ "EventCallEnd" \in Events
      BY DEF Events
    <2>2. s \in 0 .. 699 /\ "Delete" \in Sections
      BY DEF Sections
    <2> QED
      BY <2>1, <2>2, TaskTypes
  <1>2. CASE s < SIP_OK
    <2>1. Tasks(Report(d, c, s)) = {Event(c, "EventCallRing", s)}
      BY <1>1, <1>2, TupleTasks DEF Report
    <2> QED
      BY <1>2, <2>1 DEF SIP_OK, SIP_MULTIPLE_CHOICES
  <1>3. CASE ~ (s < SIP_OK) /\ d.start /\ ~ Challenge(s)
    <2>1. Tasks(Report(d, c, s)) = {Event(c, "EventReInviteResponse", s)}
      BY <1>1, <1>3, TupleTasks DEF Report
    <2> QED
      BY <1>3, <2>1
  <1>4. CASE ~ (s < SIP_OK) /\ ~ (d.start /\ ~ Challenge(s)) /\ Success(s)
    <2>1. Tasks(Report(d, c, s)) = {Event(c, "EventCallStart", s)}
      BY <1>1, <1>4, TupleTasks DEF Report
    <2> QED
      BY <1>4, <2>1 DEF Success, SIP_MULTIPLE_CHOICES
  <1>5. CASE ~ (s < SIP_OK) /\ ~ (d.start /\ ~ Challenge(s)) /\ ~ Success(s)
    <2>1. Tasks(Report(d, c, s)) = {Event(c, "EventCallEnd", s), Lock(c, "Delete")}
      BY <1>1, <1>5, TupleTasks DEF Report
    <2> QED
      BY <2>1
  <1> QED
    BY <1>2, <1>3, <1>4, <1>5

\* A response was handled: one that a receiving thread took from the inbox, or the 408 the
\* stack thread made up.
Responds(t, c, s) ==
  /\ t \in Thread /\ s \in 1 .. 699 /\ s \in Status \cup {SIP_REQUEST_TIME_OUT}
  /\ SetInviteResponse(t, c, s)
  /\ \/ Receive(c, "INVITE", s) /\ pending' = pending
     \/ c \in pending /\ s = SIP_REQUEST_TIME_OUT /\ pending' = pending \ {c} /\ inbox' = inbox
  /\ UNCHANGED <<sent, peer, told, history>>

LEMMA Responses ==
  ASSUME NEW c \in Call
  PROVE  /\ \A t \in Receiver, s \in Status : RecvInviteResponse(t, c, s) => Responds(t, c, s)
         /\ InviteTimeout(c) => Responds(Stack, c, SIP_REQUEST_TIME_OUT)
  <1>1. ASSUME NEW t \in Receiver, NEW s \in Status, RecvInviteResponse(t, c, s)
        PROVE  Responds(t, c, s)
    BY <1>1, Statuses, Threads DEF RecvInviteResponse, Responds
  <1>2. ASSUME InviteTimeout(c) PROVE Responds(Stack, c, SIP_REQUEST_TIME_OUT)
    BY <1>2, Statuses, Threads DEF InviteTimeout, Responds
  <1> QED
    BY <1>1, <1>2

\* The steps of the user agent, with every response told apart from every request.
LEMMA Steps ==
  ASSUME [Next]_vars
  PROVE  \/ UNCHANGED vars
         \/ \E t \in Thread, c \in Call : Application(t, c)
         \/ \E t \in Thread, c \in Call :
              RecvInviteRequest(t, c) \/ RecvCancelRequest(t, c) \/ RecvByeRequest(t, c)
         \/ \E t \in Thread, c \in Call, s \in 1 .. 699 : Responds(t, c, s)
         \/ \E t \in Thread : Proceed(t)
         \/ \E c \in Call : SendTimeout(c)
         \/ \E c \in Call : Peer(c)
  <1>1. ASSUME NEW t \in Receiver, NEW c \in Call, NEW s \in Status, RecvInviteResponse(t, c, s)
        PROVE  \E u \in Thread, r \in 1 .. 699 : Responds(u, c, r)
    BY <1>1, Responses, Threads, Statuses
  <1>2. ASSUME NEW c \in Call, InviteTimeout(c)
        PROVE  \E u \in Thread, r \in 1 .. 699 : Responds(u, c, r)
    BY <1>2, Responses, Threads, Statuses
  <1> QED
    BY <1>1, <1>2, Threads DEF Next, Handle

\* The tasks of the user agent after a response are those before it, perhaps an ACK, an
\* INVITE when the call is retried, and what the report says.
LEMMA RespondsTasks ==
  ASSUME TypeOK, NEW t \in Thread, NEW c \in Call, NEW s \in 1 .. 699, Responds(t, c, s)
  PROVE  /\ AllTasks \subseteq AllTasks'
         /\ \A x \in AllTasks' \ AllTasks :
              \/ x = Send(c, "ACK", 0)
              \/ x = Send(c, "INVITE", 0) /\ Known(c) /\ Retries(dialog[c], s)
              \/ x = Lock(c, "Delete")
              \/ \E n : x = Event(c, n, s)
         /\ \/ UNCHANGED dialog
            \/ /\ Known(c) /\ Changed(c, Responded(dialog[c], s))
               /\ \/ Retries(dialog[c], s)
                  \/ Tasks(Report(dialog[c], c, s)) \subseteq AllTasks'
         /\ \A b \in Call : invites'[b] >= invites[b]
  <1>1. DialogsOK /\ RestOK
    BY Types
  <1>2. PICK A \in SUBSET {Send(c, "ACK", 0)} :
           \/ /\ ~ Known(c)
              /\ Begun({})
              /\ UNCHANGED <<dialog, invites>>
           \/ /\ Known(c) /\ Retries(dialog[c], s)
              /\ Begun(A \cup {Send(c, "INVITE", 0)})
              /\ CreateInvite(c)
              /\ Put(c, Responded(dialog[c], s))
           \/ /\ Known(c) /\ Reports(dialog[c], s)
              /\ Begun(A \cup Tasks(Report(dialog[c], c, s)))
              /\ Put(c, Responded(dialog[c], s))
              /\ UNCHANGED invites
    BY ResponseTasks DEF Responds
  <1>3. \A b \in Call : invites[b] \in Nat
    BY <1>1, UserAgentAssumption DEF RestOK
  <1>4. CASE ~ Known(c)
    BY <1>2, <1>3, <1>4 DEF Begun
  <1>5. CASE Known(c) /\ Retries(dialog[c], s) /\ Begun(A \cup {Send(c, "INVITE", 0)})
               /\ CreateInvite(c) /\ Put(c, Responded(dialog[c], s))
    <2>1. /\ Begun(A \cup {Send(c, "INVITE", 0)})
          /\ CreateInvite(c)
          /\ Put(c, Responded(dialog[c], s))
      BY <1>5
    <2>2. Changed(c, Responded(dialog[c], s))
      BY <1>5, <2>1, DialogChanges
    <2>3. \A b \in Call : invites'[b] >= invites[b]
      BY <1>1, <1>3, <2>1 DEF CreateInvite, RestOK
    <2> QED
      BY <1>5, <2>1, <2>2, <2>3 DEF Begun
  <1>6. CASE Known(c) /\ Begun(A \cup Tasks(Report(dialog[c], c, s)))
               /\ Put(c, Responded(dialog[c], s)) /\ UNCHANGED invites
    <2>1. /\ Begun(A \cup Tasks(Report(dialog[c], c, s)))
          /\ Put(c, Responded(dialog[c], s))
          /\ invites' = invites
      BY <1>6
    <2>2. Changed(c, Responded(dialog[c], s))
      BY <1>6, <2>1, DialogChanges
    <2>3. \A b \in Call : invites'[b] >= invites[b]
      BY <1>3, <2>1
    <2>4. \A x \in Tasks(Report(dialog[c], c, s)) :
            x = Lock(c, "Delete") \/ \E n : x = Event(c, n, s)
      BY ReportTasks
    <2>5. AllTasks' = AllTasks \cup A \cup Tasks(Report(dialog[c], c, s))
      BY <2>1 DEF Begun
    <2>6. ASSUME NEW x \in AllTasks' \ AllTasks
          PROVE  x = Send(c, "ACK", 0) \/ x = Lock(c, "Delete") \/ \E n : x = Event(c, n, s)
      BY <2>4, <2>5
    <2> QED
      BY <1>6, <2>2, <2>3, <2>5, <2>6
  <1> QED
    BY <1>2, <1>4, <1>5, <1>6

\* A task stays until its thread gets to it.
LEMMA TasksStay ==
  ASSUME TypeOK, [Next]_vars, NEW x \in AllTasks, x \notin AllTasks'
  PROVE  \E t \in Thread : Proceed(t) /\ todo[t] # <<>> /\ x = Head(todo[t])
  <1>1. todo' = todo => AllTasks' = AllTasks
    BY DEF AllTasks
  <1>2. CASE UNCHANGED vars
    BY <1>1, <1>2 DEF vars
  <1>3. ASSUME NEW t \in Thread, NEW c \in Call, Application(t, c) PROVE FALSE
    BY <1>3, Beginnings DEF Application, StopCall, Begun
  <1>4. ASSUME NEW t \in Thread, NEW c \in Call,
               RecvInviteRequest(t, c) \/ RecvCancelRequest(t, c) \/ RecvByeRequest(t, c)
        PROVE  FALSE
    BY <1>4, Beginnings DEF Begun
  <1>5. ASSUME NEW t \in Thread, NEW c \in Call, NEW s \in 1 .. 699, Responds(t, c, s)
        PROVE  FALSE
    BY <1>5, RespondsTasks
  <1>6. ASSUME NEW t \in Thread, Proceed(t)
        PROVE  todo[t] # <<>> /\ x = Head(todo[t])
    <2>1. todo[t] # <<>>
      BY <1>6 DEF Proceed, SendSipMessage, CallBack, InsertDialog, AnswerReInvite, CancelInvite,
         SetCallEnd, Delete, AtStep
    <2>2. ThisCall(t) \in Call
      BY <2>1, HeadTask
    <2>3. AllTasks \subseteq AllTasks' \cup {Head(todo[t])}
      BY <1>6, <2>2, Continuations DEF Proceed, WentOn
    <2> QED
      BY <2>1, <2>3
  <1>7. ASSUME NEW c \in Call, SendTimeout(c) PROVE FALSE
    BY <1>7, Beginnings, Threads DEF Begun
  <1>8. ASSUME NEW c \in Call, Peer(c) PROVE FALSE
    BY <1>1, <1>8 DEF Peer, PeerInvites, PeerReInvites, PeerHangsUp, PeerCancels, PeerSends,
       PeerResponds
  <1> QED
    BY <1>2, <1>3, <1>4, <1>5, <1>6, <1>7, <1>8, Steps

\* Where the tasks come from that the invariants are about.
Source(x, c) ==
  /\ x = Lock(c, "InsertDialog") => Message(c, "INVITE", 0) \in inbox
  /\ x = Lock(c, "CancelInvite") => Message(c, "CANCEL", 0) \in inbox
  /\ x = Lock(c, "SetCallEnd") => Message(c, "BYE", 0) \in inbox
  /\ x = Send(c, "INVITE", 0) =>
       invites[c] = 0 \/ (Known(c) /\ (dialog[c].start \/ ~ dialog[c].cancel))

LEMMA NoSource ==
  ASSUME NEW c, NEW b
  PROVE  /\ \A n, s : Source(Event(b, n, s), c)
         /\ \A n, s : n # "INVITE" \/ s # 0 => Source(Send(b, n, s), c)
         /\ \A n : n \notin {"InsertDialog", "CancelInvite", "SetCallEnd"} => Source(Lock(b, n), c)
  BY TaskKinds DEF Source

LEMMA NewTasks ==
  ASSUME TypeOK, [Next]_vars, NEW x \in AllTasks', x \notin AllTasks, NEW c \in Call
  PROVE  Source(x, c)
  <1>1. todo' = todo => AllTasks' = AllTasks
    BY DEF AllTasks
  <1>2. CASE UNCHANGED vars
    BY <1>1, <1>2 DEF vars
  <1>3. ASSUME NEW t \in Thread, NEW b \in Call, Application(t, b) PROVE Source(x, c)
    <2>1. CASE StartCall(t, b) \/ HoldCall(t, b)
      <3>1. x = Send(b, "INVITE", 0)
        BY <2>1, Beginnings DEF Begun
      <3>2. invites[b] = 0 \/ (Known(b) /\ dialog[b].start)
        BY <2>1 DEF StartCall, HoldCall
      <3> QED
        BY <3>1, <3>2, TaskKinds DEF Source
    <2>2. CASE StopCall(t, b)
      <3>1. x = Send(b, "BYE", 0) \/ x = Send(b, "INVITE", SIP_DECLINE) \/ x = Send(b, "CANCEL", 0)
        BY <2>2, Beginnings DEF StopCall, Begun
      <3> QED
        BY <3>1, NoSource DEF SIP_DECLINE
    <2>3. CASE ForwardCall(t, b) \/ RingCall(t, b) \/ AcceptCall(t, b)
      <3>1. \/ x = Send(b, "INVITE", SIP_MOVED_TEMPORARILY)
            \/ x = Send(b, "INVITE", SIP_SESSION_PROGRESS)
            \/ x = Send(b, "INVITE", SIP_OK)
        BY <2>3, Beginnings DEF Begun
      <3> QED
        BY <3>1, NoSource DEF SIP_MOVED_TEMPORARILY, SIP_SESSION_PROGRESS, SIP_OK
    <2> QED
      BY <1>3, <2>1, <2>2, <2>3 DEF Application
  <1>4. ASSUME NEW t \in Thread, NEW b \in Call,
               RecvInviteRequest(t, b) \/ RecvCancelRequest(t, b) \/ RecvByeRequest(t, b)
        PROVE  Source(x, c)
    <2>1. CASE RecvInviteRequest(t, b)
      <3>1. \/ x = Send(b, "INVITE", SIP_NOT_ACCEPTABLE_HERE) \/ x = Send(b, "INVITE", SIP_RINGING)
            \/ x = Event(b, "EventReInvite", 0)
            \/ x = Lock(b, "AnswerReInvite")
            \/ x = Lock(b, "InsertDialog")
        BY <2>1, Beginnings DEF Begun
      <3>2. Message(b, "INVITE", 0) \in inbox
        BY <2>1 DEF RecvInviteRequest, Receive
      <3>3. CASE x = Lock(b, "InsertDialog")
        BY <3>2, <3>3, TaskKinds DEF Source
      <3> QED
        BY <3>1, <3>3, NoSource DEF SIP_NOT_ACCEPTABLE_HERE, SIP_RINGING
    <2>2. CASE RecvCancelRequest(t, b)
      <3>1. x = Send(b, "CANCEL", SIP_OK) \/ x = Lock(b, "CancelInvite")
        BY <2>2, Beginnings DEF Begun
      <3>2. Message(b, "CANCEL", 0) \in inbox
        BY <2>2 DEF RecvCancelRequest, Receive
      <3>3. CASE x = Lock(b, "CancelInvite")
        BY <3>2, <3>3, TaskKinds DEF Source
      <3> QED
        BY <3>1, <3>3, NoSource
    <2>3. CASE RecvByeRequest(t, b)
      <3>1. x = Send(b, "BYE", SIP_OK) \/ x = Lock(b, "SetCallEnd")
        BY <2>3, Beginnings DEF Begun
      <3>2. Message(b, "BYE", 0) \in inbox
        BY <2>3 DEF RecvByeRequest, Receive
      <3>3. CASE x = Lock(b, "SetCallEnd")
        BY <3>2, <3>3, TaskKinds DEF Source
      <3> QED
        BY <3>1, <3>3, NoSource
    <2> QED
      BY <1>4, <2>1, <2>2, <2>3
  <1>5. ASSUME NEW t \in Thread, NEW b \in Call, NEW s \in 1 .. 699, Responds(t, b, s)
        PROVE  Source(x, c)
    <2>1. \/ x = Send(b, "ACK", 0)
          \/ x = Send(b, "INVITE", 0) /\ Known(b) /\ Retries(dialog[b], s)
          \/ x = Lock(b, "Delete")
          \/ \E n : x = Event(b, n, s)
      BY <1>5, RespondsTasks
    <2>2. CASE x = Send(b, "INVITE", 0) /\ Known(b) /\ Retries(dialog[b], s)
      BY <2>2, TaskKinds DEF Source, Retries
    <2> QED
      BY <2>1, <2>2, NoSource
  <1>6. ASSUME NEW t \in Thread, Proceed(t) PROVE Source(x, c)
    <2> DEFINE b == ThisCall(t)
    <2>1. b \in Call
      BY <1>6, HeadTask DEF Proceed, SendSipMessage, CallBack, InsertDialog, AnswerReInvite,
         CancelInvite, SetCallEnd, Delete, AtStep
    <2>2. \/ x = Event(b, "EventIncomingCall", 0)
          \/ x = Send(b, "INVITE", SIP_OK)
          \/ x = Send(b, "INVITE", SIP_REQUEST_TERMINATED)
          \/ x = Event(b, "EventCallEnd", SIP_REQUEST_TERMINATED)
          \/ x = Event(b, "EventCallEnd", SIP_OK)
          \/ x = Lock(b, "Delete")
      <3>1. CASE SendSipMessage(t) \/ CallBack(t) \/ Delete(t)
        BY <2>1, <3>1, Continuations DEF WentOn
      <3>2. CASE InsertDialog(t)
        BY <2>1, <3>2, Continuations DEF WentOn
      <3>3. CASE AnswerReInvite(t)
        BY <2>1, <3>3, Continuations DEF WentOn
      <3>4. CASE CancelInvite(t)
        BY <2>1, <3>4, Continuations DEF WentOn
      <3>5. CASE SetCallEnd(t)
        BY <2>1, <3>5, Continuations DEF WentOn
      <3> QED
        BY <1>6, <3>1, <3>2, <3>3, <3>4, <3>5 DEF Proceed
    <2> QED
      BY <2>2, NoSource DEF SIP_OK, SIP_REQUEST_TERMINATED
  <1>7. ASSUME NEW b \in Call, SendTimeout(b) PROVE FALSE
    BY <1>7, Beginnings, Threads DEF Begun
  <1>8. ASSUME NEW b \in Call, Peer(b) PROVE FALSE
    BY <1>1, <1>8 DEF Peer, PeerInvites, PeerReInvites, PeerHangsUp, PeerCancels, PeerSends,
       PeerResponds
  <1> QED
    BY <1>2, <1>3, <1>4, <1>5, <1>6, <1>7, <1>8, Steps
-----------------------------------------------------------------------------
\* What a step may do to the dialog of call c.
Kept(c) == Known(c) /\ dialog'[c] = dialog[c]
Started(c) == invites[c] = 0 /\ invites'[c] >= 1 /\ dialog'[c] = NewDialog(FALSE)
Inserted(c) ==
  /\ Lock(c, "InsertDialog") \in AllTasks
  /\ ~ Known(c)
  /\ dialog'[c] = NewDialog(TRUE)
  /\ answers'[c] = 0
  /\ \A b \in BOOLEAN : <<c, b>> \notin stopped'
  /\ \A m \in told' \cup late' : m.call # c
Cancelled(c) ==
  /\ Known(c) /\ ~ dialog[c].start /\ ~ dialog[c].invite
  /\ dialog'[c] = [dialog[c] EXCEPT !.cancel = TRUE]
  /\ Send(c, "CANCEL", 0) \in AllTasks'
TookCall(c) ==
  Unanswered(c) /\ dialog'[c] = Accepted(dialog[c]) /\ answers'[c] = answers[c] + 1
TookResponse(c) ==
  /\ Known(c)
  /\ \E s \in 1 .. 699 :
       /\ \E t \in Thread : Responds(t, c, s)
       /\ dialog'[c] = Responded(dialog[c], s)
       /\ Retries(dialog[c], s) \/ Tasks(Report(dialog[c], c, s)) \subseteq AllTasks'
Ended(c) ==
  /\ Known(c)
  /\ dialog'[c] = [dialog[c] EXCEPT !.end = TRUE]
  /\ \E s : Event(c, "EventCallEnd", s) \in AllTasks'

Became(c) ==
  \/ Kept(c) \/ Started(c) \/ Cancelled(c) \/ TookResponse(c) \/ Ended(c)
  \/ Inserted(c)
  \/ TookCall(c)

LEMMA DialogStep ==
  ASSUME TypeOK, [Next]_vars, NEW c \in DOMAIN dialog'
  PROVE  Became(c)
  <1>1. dialog' = dialog => Kept(c)
    BY DEF Kept, Known
  <1>2. CASE UNCHANGED vars
    BY <1>1, <1>2 DEF vars, Became
  <1>3. ASSUME NEW b, c # b, \/ Removed(b) \/ \E d : Changed(b, d)
        PROVE  Kept(c)
    BY <1>3 DEF Kept, Known, Removed, Changed
  <1>4. ASSUME NEW t \in Thread, NEW b \in Call, Application(t, b) PROVE Became(c)
    <2>1. CASE StartCall(t, b)
      <3>1. Changed(b, NewDialog(FALSE)) /\ invites[b] = 0
        BY <2>1, DialogChanges DEF StartCall
      <3>2. invites'[b] >= 1
        BY <2>1, Types, InvitesType DEF StartCall
      <3> QED
        BY <1>3, <3>1, <3>2 DEF Became, Started, Changed
    <2>2. CASE StopCall(t, b)
      <3>1. CASE StopConnected(t, b) \/ StopIncoming(t, b)
        <4>1. Removed(b)
          BY <3>1, DialogChanges
        <4> QED
          BY <1>3, <4>1 DEF Became, Removed
      <3>2. CASE StopOutgoing(t, b)
        <4>1. Known(b) /\ ~ dialog[b].start /\ ~ dialog[b].invite
          BY <2>2, <3>2 DEF StopCall, StopOutgoing
        <4>2. Changed(b, [dialog[b] EXCEPT !.cancel = TRUE])
          BY <3>2, <4>1, DialogChanges
        <4>3. Send(b, "CANCEL", 0) \in AllTasks'
          BY <3>2, Beginnings DEF Begun
        <4> QED
          BY <1>3, <4>1, <4>2, <4>3 DEF Became, Cancelled, Changed
      <3>3. CASE StopNothing(t, b)
        BY <1>1, <3>3 DEF StopNothing, Became
      <3> QED
        BY <2>2, <3>1, <3>2, <3>3 DEF StopCall
    <2>3. CASE ForwardCall(t, b)
      <3>1. Removed(b)
        BY <2>3, DialogChanges
      <3> QED
        BY <1>3, <3>1 DEF Became, Removed
    <2>4. CASE RingCall(t, b) \/ HoldCall(t, b)
      BY <1>1, <2>4 DEF RingCall, HoldCall, Became
    <2>5. CASE AcceptCall(t, b)
      <3>1. Changed(b, Accepted(dialog[b])) /\ Unanswered(b)
        BY <2>5, DialogChanges DEF AcceptCall
      <3>2. answers'[b] = answers[b] + 1
        BY <2>5, AnswersType, Types DEF AcceptCall
      <3> QED
        BY <1>3, <3>1, <3>2 DEF Became, TookCall, Changed
    <2> QED
      BY <1>4, <2>1, <2>2, <2>3, <2>4, <2>5 DEF Application
  <1>5. ASSUME NEW t \in Thread, NEW b \in Call,
               RecvInviteRequest(t, b) \/ RecvCancelRequest(t, b) \/ RecvByeRequest(t, b)
        PROVE  Became(c)
    BY <1>1, <1>5 DEF RecvInviteRequest, RecvCancelRequest, RecvByeRequest, Became
  <1>6. ASSUME NEW t \in Thread, NEW b \in Call, NEW s \in 1 .. 699, Responds(t, b, s)
        PROVE  Became(c)
    <2>1. CASE UNCHANGED dialog
      BY <1>1, <2>1 DEF Became
    <2>2. CASE /\ Known(b) /\ Changed(b, Responded(dialog[b], s))
               /\ \/ Retries(dialog[b], s)
                  \/ Tasks(Report(dialog[b], b, s)) \subseteq AllTasks'
      BY <1>3, <1>6, <2>2 DEF Became, TookResponse, Changed
    <2> QED
      BY <1>6, <2>1, <2>2, RespondsTasks
  <1>7. ASSUME NEW t \in Thread, Proceed(t) PROVE Became(c)
    <2> DEFINE b == ThisCall(t)
    <2>1. b \in Call /\ todo[t] # <<>>
      BY <1>7, HeadTask DEF Proceed, SendSipMessage, CallBack, InsertDialog, AnswerReInvite,
         CancelInvite, SetCallEnd, Delete, AtStep
    <2>2. CASE SendSipMessage(t) \/ CallBack(t) \/ AnswerReInvite(t)
      BY <1>1, <2>2 DEF SendSipMessage, CallBack, AnswerReInvite, Became
    <2>3. CASE InsertDialog(t)
      <3>1. CASE Known(b)
        BY <1>1, <2>3, <3>1 DEF InsertDialog, Became
      <3>2. CASE ~ Known(b)
        <4>1. Changed(b, NewDialog(TRUE))
          BY <2>1, <2>3, <3>2, DialogChanges
        <4>2. Head(todo[t]) \in AllTasks /\ Head(todo[t]) \in Task
          BY <2>1, <2>3, Continuations DEF WentOn
        <4>3. Head(todo[t]) = Lock(b, "InsertDialog")
          BY <2>3, <4>2 DEF InsertDialog, AtStep, Lock, Step, Task, ThisCall
        <4>4. answers'[b] = 0 /\ \A e \in BOOLEAN : <<b, e>> \notin stopped'
          BY <2>1, <2>3, <3>2, Types, Rest DEF InsertDialog
        <4>5. \A m \in told' \cup late' : m.call # b
          BY <2>3, <3>2 DEF InsertDialog
        <4> QED
          BY <1>3, <3>2, <4>1, <4>2, <4>3, <4>4, <4>5 DEF Became, Inserted, Changed
      <3> QED
        BY <3>1, <3>2
    <2>4. CASE CancelInvite(t) \/ SetCallEnd(t)
      <3>1. CASE UNCHANGED dialog
        BY <1>1, <3>1 DEF Became
      <3>2. CASE CancelInvite(t) /\ CanCancel(b)
        <4>1. Changed(b, [dialog[b] EXCEPT !.end = TRUE]) /\ Known(b)
          BY <2>1, <3>2, DialogChanges DEF CanCancel
        <4>2. Event(b, "EventCallEnd", SIP_REQUEST_TERMINATED) \in AllTasks'
          BY <2>1, <3>2, Continuations DEF WentOn
        <4> QED
          BY <1>3, <4>1, <4>2 DEF Became, Ended, Changed
      <3>3. CASE SetCallEnd(t) /\ Known(b)
        <4>1. Changed(b, [dialog[b] EXCEPT !.end = TRUE])
          BY <2>1, <3>3, DialogChanges
        <4>2. Event(b, "EventCallEnd", SIP_OK) \in AllTasks'
          BY <2>1, <3>3, Continuations DEF WentOn
        <4> QED
          BY <1>3, <3>3, <4>1, <4>2 DEF Became, Ended, Changed
      <3> QED
        BY <2>4, <3>1, <3>2, <3>3 DEF CancelInvite, SetCallEnd
    <2>5. CASE Delete(t)
      <3>1. Removed(b)
        BY <2>1, <2>5, DialogChanges
      <3> QED
        BY <1>3, <3>1 DEF Became, Removed
    <2> QED
      BY <1>7, <2>2, <2>3, <2>4, <2>5 DEF Proceed
  <1>8. ASSUME NEW b \in Call, SendTimeout(b) PROVE Became(c)
    BY <1>1, <1>8 DEF SendTimeout, Became
  <1>9. ASSUME NEW b \in Call, Peer(b) PROVE Became(c)
    BY <1>1, <1>9 DEF Peer, PeerInvites, PeerReInvites, PeerHangsUp, PeerCancels, PeerSends,
       PeerResponds, Became
  <1> QED
    BY <1>2, <1>4, <1>5, <1>6, <1>7, <1>8, <1>9, Steps

\* What the calls and their peers did is never undone.
LEMMA Monotone ==
  ASSUME TypeOK, [Next]_vars, NEW c \in Call
  PROVE  invites'[c] >= invites[c] /\ peer[c] \subseteq peer'[c]
  <1>1. RestOK
    BY Types
  <1>2. invites[c] \in Nat /\ peer \in [Call -> SUBSET PeerAct]
    BY <1>1, UserAgentAssumption DEF RestOK
  <1>3. invites' = invites => invites'[c] >= invites[c]
    BY <1>2
  <1>4. ASSUME NEW b \in Call, CreateInvite(b) PROVE invites'[c] >= invites[c]
    BY <1>1, <1>2, <1>4 DEF RestOK, CreateInvite
  <1>5. CASE UNCHANGED vars
    BY <1>3, <1>5 DEF vars
  <1>6. ASSUME NEW t \in Thread, NEW b \in Call, Application(t, b)
        PROVE  invites'[c] >= invites[c] /\ peer' = peer
    BY <1>3, <1>4, <1>6 DEF Application, StartCall, StopCall, ForwardCall, RingCall, AcceptCall,
       HoldCall
  <1>7. ASSUME NEW t \in Thread, NEW b \in Call,
               RecvInviteRequest(t, b) \/ RecvCancelRequest(t, b) \/ RecvByeRequest(t, b)
        PROVE  invites'[c] >= invites[c] /\ peer' = peer
    BY <1>3, <1>7 DEF RecvInviteRequest, RecvCancelRequest, RecvByeRequest
  <1>8. ASSUME NEW t \in Thread, NEW b \in Call, NEW s \in 1 .. 699, Responds(t, b, s)
        PROVE  invites'[c] >= invites[c] /\ peer' = peer
    BY <1>8, RespondsTasks DEF Responds
  <1>9. ASSUME NEW t \in Thread, Proceed(t) PROVE invites'[c] >= invites[c] /\ peer' = peer
    BY <1>3, <1>9 DEF Proceed, SendSipMessage, CallBack, InsertDialog, AnswerReInvite,
       CancelInvite, SetCallEnd, Delete
  <1>10. ASSUME NEW b \in Call, SendTimeout(b) PROVE invites'[c] >= invites[c] /\ peer' = peer
    BY <1>3, <1>10 DEF SendTimeout
  <1>11. ASSUME NEW b \in Call, Peer(b)
         PROVE  invites'[c] >= invites[c] /\ peer[c] \subseteq peer'[c]
    <2>1. invites'[c] >= invites[c]
      BY <1>3, <1>4, <1>11 DEF Peer, PeerInvites, PeerReInvites, PeerHangsUp, PeerCancels,
         PeerResponds
    <2>2. \/ peer' = peer
          \/ \E act : peer' = [peer EXCEPT ![b] = @ \cup {act}]
      BY <1>11 DEF Peer, PeerInvites, PeerReInvites, PeerHangsUp, PeerCancels, PeerResponds,
         PeerSends
    <2> QED
      BY <1>2, <2>1, <2>2
  <1> QED
    BY <1>5, <1>6, <1>7, <1>8, <1>9, <1>10, <1>11, Steps DEF vars

\* An answer is counted only for a call that is then no longer unanswered.
LEMMA AnswersStep ==
  ASSUME TypeOK, [Next]_vars, NEW c \in Call
  PROVE  \/ answers'[c] = answers[c]
         \/ answers'[c] = 0
         \/ Unanswered(c) /\ answers'[c] = answers[c] + 1 /\ ~ Unanswered(c)'
  <1>1. RestOK /\ answers \in [Call -> Nat]
    BY Types DEF RestOK
  <1>2. CASE UNCHANGED vars
    BY <1>2 DEF vars
  <1>3. ASSUME NEW b \in Call, CountAnswer(b), Unanswered(b),
               Removed(b) \/ (Changed(b, Accepted(dialog[b])) /\ dialog[b] \in CSipDialog)
        PROVE  \/ answers'[c] = answers[c]
               \/ Unanswered(c) /\ answers'[c] = answers[c] + 1 /\ ~ Unanswered(c)'
    <2>1. answers'[b] = answers[b] + 1 /\ \A a \in Call \ {b} : answers'[a] = answers[a]
      BY <1>1, <1>3, AnswersType
    <2>2. CASE Removed(b)
      BY <1>3, <2>1, <2>2 DEF Removed, Unanswered, Known
    <2>3. CASE Changed(b, Accepted(dialog[b])) /\ dialog[b] \in CSipDialog
      <3>1. ~ Accepted(dialog[b]).invite
        BY <2>3 DEF Accepted, CSipDialog
      <3> QED
        BY <1>3, <2>1, <2>3, <3>1 DEF Changed, Unanswered, Known
    <2> QED
      BY <1>3, <2>2, <2>3
  <1>4. ASSUME NEW t \in Thread, NEW b \in Call, Application(t, b)
        PROVE  \/ answers'[c] = answers[c]
               \/ Unanswered(c) /\ answers'[c] = answers[c] + 1 /\ ~ Unanswered(c)'
    <2>1. CASE StartCall(t, b) \/ RingCall(t, b) \/ HoldCall(t, b)
      BY <2>1 DEF StartCall, RingCall, HoldCall, history
    <2>2. CASE StopCall(t, b)
      <3>1. CASE StopIncoming(t, b)
        <4>1. CountAnswer(b) /\ Unanswered(b)
          BY <3>1 DEF StopIncoming
        <4>2. Removed(b)
          BY <3>1, DialogChanges
        <4> QED
          BY <1>3, <4>1, <4>2
      <3>2. CASE StopConnected(t, b) \/ StopOutgoing(t, b) \/ StopNothing(t, b)
        BY <3>2 DEF StopConnected, StopOutgoing, StopNothing
      <3> QED
        BY <2>2, <3>1, <3>2 DEF StopCall
    <2>3. CASE ForwardCall(t, b)
      <3>1. CountAnswer(b) /\ Unanswered(b)
        BY <2>3 DEF ForwardCall
      <3>2. Removed(b)
        BY <2>3, DialogChanges
      <3> QED
        BY <1>3, <3>1, <3>2
    <2>4. CASE AcceptCall(t, b)
      <3>1. CountAnswer(b) /\ Unanswered(b)
        BY <2>4 DEF AcceptCall
      <3>2. Changed(b, Accepted(dialog[b])) /\ dialog[b] \in CSipDialog
        BY <2>4, <3>1, DialogChanges DEF DialogsOK, Unanswered, Known
      <3> QED
        BY <1>3, <3>1, <3>2
    <2> QED
      BY <1>4, <2>1, <2>2, <2>3, <2>4 DEF Application
  <1>5. ASSUME NEW t \in Thread, NEW b \in Call,
               RecvInviteRequest(t, b) \/ RecvCancelRequest(t, b) \/ RecvByeRequest(t, b)
        PROVE  answers'[c] = answers[c]
    BY <1>5 DEF RecvInviteRequest, RecvCancelRequest, RecvByeRequest, history
  <1>6. ASSUME NEW t \in Thread, NEW b \in Call, NEW s \in 1 .. 699, Responds(t, b, s)
        PROVE  answers'[c] = answers[c]
    BY <1>6 DEF Responds, history
  <1>7. ASSUME NEW t \in Thread, Proceed(t) PROVE answers'[c] \in {answers[c], 0}
    <2>1. answers' = answers \/ \E b \in Call : answers' = [answers EXCEPT ![b] = 0]
      <3>1. CASE InsertDialog(t)
        BY <3>1, HeadTask DEF InsertDialog, AtStep, history
      <3>2. CASE ~ InsertDialog(t)
        BY <1>7, <3>2 DEF Proceed, SendSipMessage, CallBack, AnswerReInvite, CancelInvite,
           SetCallEnd, Delete, history
      <3> QED
        BY <3>1, <3>2
    <2> QED
      BY <1>1, <2>1
  <1>8. ASSUME NEW b \in Call, SendTimeout(b) PROVE answers'[c] = answers[c]
    BY <1>8 DEF SendTimeout
  <1>9. ASSUME NEW b \in Call, Peer(b) PROVE answers'[c] = answers[c]
    BY <1>9 DEF Peer, PeerInvites, PeerReInvites, PeerHangsUp, PeerCancels, PeerSends,
       PeerResponds, history
  <1> QED
    BY <1>2, <1>4, <1>5, <1>6, <1>7, <1>8, <1>9, Steps
-----------------------------------------------------------------------------
\* A received INVITE that has its final response is not answered again.
AnswerSpent == \A c \in Call : answers[c] = 0 \/ (answers[c] = 1 /\ ~ Unanswered(c))

LEMMA AnswerStep == TypeOK /\ AnswerSpent /\ [Next]_vars => AnswerSpent'
  <1> SUFFICES ASSUME TypeOK, AnswerSpent, [Next]_vars, NEW c \in Call
               PROVE  answers'[c] = 0 \/ (answers'[c] = 1 /\ ~ Unanswered(c)')
    BY DEF AnswerSpent
  <1>1. answers[c] \in Nat /\ (answers[c] = 0 \/ (answers[c] = 1 /\ ~ Unanswered(c)))
    BY Types, Rest DEF AnswerSpent
  <1>2. CASE answers'[c] = answers[c]
    <2>1. ASSUME ~ Unanswered(c), Unanswered(c)', answers'[c] = 1 PROVE FALSE
      <3>1. c \in DOMAIN dialog' /\ ~ dialog'[c].start /\ dialog'[c].invite
        BY <2>1 DEF Unanswered, Known
      <3>2. Became(c)
        BY <3>1, DialogStep
      <3>3. CASE Kept(c)
        BY <2>1, <3>1, <3>3 DEF Kept, Unanswered
      <3>4. CASE Started(c)
        BY <3>1, <3>4 DEF Started, NewDialog
      <3>5. CASE TookCall(c)
        <4>1. dialog[c] \in CSipDialog
          BY <3>5, Types DEF TookCall, Unanswered, Known, DialogsOK
        <4> QED
          BY <3>1, <3>5, <4>1 DEF TookCall, Accepted, CSipDialog
      <3>6. CASE Inserted(c)
        BY <2>1, <3>6 DEF Inserted
      <3>7. CASE Cancelled(c) \/ TookResponse(c) \/ Ended(c)
        <4>1. Known(c) /\ dialog[c] \in CSipDialog
          BY <3>7, Types DEF Cancelled, TookResponse, Ended, Known, DialogsOK
        <4>2. CASE Cancelled(c)
          BY <3>1, <4>1, <4>2 DEF Cancelled, CSipDialog
        <4>3. CASE TookResponse(c)
          BY <2>1, <3>1, <4>1, <4>3 DEF TookResponse, Responded, CSipDialog, Unanswered
        <4>4. CASE Ended(c)
          BY <2>1, <3>1, <4>1, <4>4 DEF Ended, CSipDialog, Unanswered
        <4> QED
          BY <3>7, <4>2, <4>3, <4>4
      <3> QED
        BY <3>2, <3>3, <3>4, <3>5, <3>6, <3>7 DEF Became
    <2> QED
      BY <1>1, <1>2, <2>1
  <1>3. CASE Unanswered(c) /\ answers'[c] = answers[c] + 1 /\ ~ Unanswered(c)'
    BY <1>1, <1>3
  <1> QED
    BY <1>2, <1>3, AnswersStep

\* AcceptCall and the two StopCalls, in any number of threads, make at most one
\* final response to a received INVITE: whoever makes one leaves the dialog connected or
\* deletes it, and no later step makes it unanswered again.
THEOREM AnsweredOnce == Spec => []OneAnswer
  <1>1. Init => TypeOK /\ AnswerSpent
    <2>1. Init => AnswerSpent
      BY DEF Init, AnswerSpent
    <2> QED
      BY <2>1, TypeInit
  <1>2. TypeOK /\ AnswerSpent /\ [Next]_vars => TypeOK' /\ AnswerSpent'
    BY TypeStep, AnswerStep
  <1>3. AnswerSpent => OneAnswer
    BY DEF AnswerSpent, OneAnswer
  <1> QED
    BY <1>1, <1>2, <1>3, PTL DEF Spec
-----------------------------------------------------------------------------
\* The peer of c made its first INVITE.
Incoming(c) == "INVITE" \in peer[c]

\* What arrives, and where it comes from.
LEMMA PeerStep ==
  ASSUME TypeOK, [Next]_vars, NEW c \in Call
  PROVE  /\ Message(c, "INVITE", 0) \in inbox' \ inbox => invites'[c] >= 1
         /\ Incoming(c)' /\ ~ Incoming(c) =>
              invites[c] = 0 /\ invites'[c] >= 1 /\ dialog' = dialog
  <1> DEFINE Goal == /\ Message(c, "INVITE", 0) \in inbox' \ inbox => invites'[c] >= 1
                     /\ Incoming(c)' /\ ~ Incoming(c) =>
                          invites[c] = 0 /\ invites'[c] >= 1 /\ dialog' = dialog
  <1>1. RestOK /\ peer \in [Call -> SUBSET PeerAct]
    BY Types, Rest
  <1>2. inbox' \subseteq inbox /\ peer' = peer => Goal
    BY DEF Incoming
  <1>3. CASE UNCHANGED vars
    BY <1>2, <1>3 DEF vars
  <1>4. ASSUME NEW t \in Thread, NEW b \in Call, Application(t, b) PROVE Goal
    BY <1>2, <1>4 DEF Application, StartCall, StopCall, ForwardCall, RingCall, AcceptCall,
       HoldCall
  <1>5. ASSUME NEW t \in Thread, NEW b \in Call,
               RecvInviteRequest(t, b) \/ RecvCancelRequest(t, b) \/ RecvByeRequest(t, b)
        PROVE  Goal
    BY <1>2, <1>5, Received DEF RecvInviteRequest, RecvCancelRequest, RecvByeRequest
  <1>6. ASSUME NEW t \in Thread, NEW b \in Call, NEW s \in 1 .. 699, Responds(t, b, s)
        PROVE  Goal
    BY <1>2, <1>6, Received DEF Responds
  <1>7. ASSUME NEW t \in Thread, Proceed(t) PROVE Goal
    BY <1>2, <1>7 DEF Proceed, SendSipMessage, CallBack, InsertDialog, AnswerReInvite,
       CancelInvite, SetCallEnd, Delete
  <1>8. ASSUME NEW b \in Call, SendTimeout(b) PROVE Goal
    BY <1>2, <1>8 DEF SendTimeout
  <1>9. ASSUME NEW b \in Call, Peer(b) PROVE Goal
    <2>1. \A m, n, r, s, a : Message(a, m, r) = Message(c, n, s) => a = c /\ m = n /\ r = s
      BY DEF Message
    <2>2. ASSUME NEW act, NEW method, PeerSends(b, act, method)
          PROVE  /\ inbox' = inbox \cup {Message(b, method, 0)}
                 /\ dialog' = dialog
                 /\ Incoming(c)' /\ ~ Incoming(c) => b = c /\ act = "INVITE"
      BY <1>1, <2>2 DEF PeerSends, Incoming
    <2>3. CASE PeerInvites(b)
      <3>1. invites[b] = 0 /\ invites'[b] >= 1
        BY <1>1, <2>3, InvitesType DEF PeerInvites
      <3> QED
        BY <2>1, <2>2, <2>3, <3>1 DEF PeerInvites
    <2>4. CASE PeerReInvites(b)
      <3>1. invites'[b] >= 1
        BY <1>1, <2>4, InvitesType DEF PeerReInvites
      <3> QED
        BY <2>1, <2>2, <2>4, <3>1 DEF PeerReInvites
    <2>5. CASE PeerHangsUp(b)
      BY <2>1, <2>2, <2>5 DEF PeerHangsUp
    <2>6. CASE PeerCancels(b)
      BY <2>1, <2>2, <2>6 DEF PeerCancels, Incoming
    <2>7. ASSUME NEW s \in Status, PeerResponds(b, s) PROVE Goal
      <3>1. s \in 1 .. 699 /\ inbox' = inbox \cup {Message(b, "INVITE", s)}
        BY <2>7, Statuses DEF PeerResponds
      <3>2. peer' = peer \/ peer' = [peer EXCEPT ![b] = @ \cup {"answered"}]
        BY <2>7 DEF PeerResponds
      <3>3. Incoming(c)' => Incoming(c)
        BY <1>1, <3>2 DEF Incoming
      <3>4. Message(c, "INVITE", 0) \notin inbox' \ inbox
        BY <2>1, <3>1
      <3> QED
        BY <3>3, <3>4
    <2> QED
      BY <1>9, <2>3, <2>4, <2>5, <2>6, <2>7 DEF Peer
  <1> QED
    BY <1>3, <1>4, <1>5, <1>6, <1>7, <1>8, <1>9, Steps

\* A call that has a dialog, or is about to have one, was made by an INVITE.
Invited ==
  \A c \in Call :
    Known(c) \/ Incoming(c) \/ Message(c, "INVITE", 0) \in inbox
      \/ Queued(Lock(c, "InsertDialog")) => invites[c] >= 1

\* The dialog of a received call has a copy of the INVITE until it is connected.
IncomingHasInvite ==
  \A c \in DOMAIN dialog : Incoming(c) => dialog[c].start \/ dialog[c].invite

CallMade == Invited /\ IncomingHasInvite

LEMMA DialogOf ==
  ASSUME TypeOK, [Next]_vars, NEW c \in Call, Known(c)', ~ Known(c)
  PROVE  \/ Started(c) \/ Inserted(c)
  <1>1. c \in DOMAIN dialog'
    BY DEF Known
  <1>2. Became(c)
    BY <1>1, DialogStep
  <1> QED
    BY <1>2 DEF Became, Kept, Cancelled, TookResponse, Ended, TookCall, Unanswered

LEMMA CallMadeStep == TypeOK /\ CallMade /\ [Next]_vars => CallMade'
  <1> SUFFICES ASSUME TypeOK, CallMade, [Next]_vars PROVE CallMade'
    OBVIOUS
  <1>1. \A x : /\ Queued(x) <=> x \in AllTasks
               /\ Queued(x)' <=> x \in AllTasks'
    BY DEF Queued, AllTasks, Tasks
  <1>2. \A c \in Call : invites[c] \in Nat /\ (invites[c] >= 1 => invites'[c] >= 1)
    <2> SUFFICES ASSUME NEW c \in Call
                 PROVE  invites[c] \in Nat /\ (invites[c] >= 1 => invites'[c] >= 1)
      OBVIOUS
    <2>1. invites[c] \in Nat /\ invites'[c] \in Nat
      BY TypeStep, Types, TypesAfter, UserAgentAssumption DEF RestOK
    <2> QED
      BY <2>1, Monotone
  <1>3. ASSUME NEW c \in Call,
               \/ Known(c)' \/ Incoming(c)'
               \/ Message(c, "INVITE", 0) \in inbox' \/ Queued(Lock(c, "InsertDialog"))'
        PROVE  invites'[c] >= 1
    <2>1. Known(c) \/ Incoming(c) \/ Message(c, "INVITE", 0) \in inbox
            \/ Queued(Lock(c, "InsertDialog")) => invites'[c] >= 1
      BY <1>2 DEF CallMade, Invited
    <2>2. CASE Known(c)'
      BY <1>1, <2>1, <2>2, DialogOf DEF Started, Inserted
    <2>3. CASE Incoming(c)'
      BY <2>1, <2>3, PeerStep
    <2>4. CASE Message(c, "INVITE", 0) \in inbox'
      BY <2>1, <2>4, PeerStep
    <2>5. CASE Queued(Lock(c, "InsertDialog"))'
      <3>1. Lock(c, "InsertDialog") \in AllTasks \/ Message(c, "INVITE", 0) \in inbox
        BY <1>1, <2>5, NewTasks DEF Source
      <3> QED
        BY <1>1, <2>1, <3>1
    <2> QED
      BY <1>3, <2>2, <2>3, <2>4, <2>5
  <1>5. ASSUME NEW c \in DOMAIN dialog', Incoming(c)'
        PROVE  dialog'[c].start \/ dialog'[c].invite
    <2>1. c \in Call
      BY TypeStep, TypesAfter DEF DialogsOK
    <2>2. Known(c) /\ Incoming(c) => dialog[c].start \/ dialog[c].invite
      BY DEF CallMade, IncomingHasInvite, Known
    <2>3. Known(c) => Incoming(c)
      <3>1. Known(c) => invites[c] >= 1
        BY <2>1 DEF CallMade, Invited
      <3> QED
        BY <1>5, <2>1, <3>1, PeerStep
    <2>4. Known(c) => dialog[c] \in CSipDialog
      BY Types DEF DialogsOK, Known
    <2>5. CASE Kept(c)
      BY <2>2, <2>3, <2>5 DEF Kept
    <2>6. CASE Started(c)
      <3>1. Incoming(c)
        <4>1. CASE ~ Incoming(c)
          <5>1. dialog' = dialog /\ invites[c] = 0
            BY <1>5, <2>1, <4>1, PeerStep
          <5>2. Known(c)
            BY <1>5, <5>1 DEF Known
          <5> QED
            BY <2>3, <4>1, <5>2
        <4> QED
          BY <4>1
      <3>2. invites[c] >= 1
        BY <2>1, <3>1 DEF CallMade, Invited
      <3> QED
        BY <2>6, <3>2 DEF Started
    <2>7. CASE Inserted(c)
      BY <2>7 DEF Inserted, NewDialog
    <2>8. CASE TookCall(c)
      BY <2>4, <2>8 DEF TookCall, Unanswered, Accepted, CSipDialog
    <2>9. CASE Cancelled(c)
      BY <2>2, <2>3, <2>4, <2>9 DEF Cancelled, CSipDialog
    <2>10. CASE TookResponse(c)
      BY <2>2, <2>3, <2>4, <2>10 DEF TookResponse, Responded, CSipDialog
    <2>11. CASE Ended(c)
      BY <2>2, <2>3, <2>4, <2>11 DEF Ended, CSipDialog
    <2> QED
      BY <2>5, <2>6, <2>7, <2>8, <2>9, <2>10, <2>11, DialogStep DEF Became
  <1>6. Invited'
    BY <1>3 DEF Invited
  <1>8. IncomingHasInvite'
    BY <1>5 DEF IncomingHasInvite
  <1> QED
    BY <1>6, <1>8 DEF CallMade

LEMMA CallMadeInit == Init => CallMade
  <1> SUFFICES ASSUME Init PROVE CallMade
    OBVIOUS
  <1>1. DOMAIN dialog = {} /\ inbox = {} /\ \A c \in Call : ~ Incoming(c)
    BY DEF Init, Incoming
  <1>2. \A x : ~ Queued(x)
    BY DEF Init, Queued
  <1> QED
    BY <1>1, <1>2 DEF CallMade, Invited, IncomingHasInvite, Known

LEMMA CallMadeAlways == Spec => [](TypeOK /\ CallMade)
  <1>1. Init => TypeOK /\ CallMade
    BY TypeInit, CallMadeInit
  <1>2. TypeOK /\ CallMade /\ [Next]_vars => TypeOK' /\ CallMade'
    BY TypeStep, CallMadeStep
  <1> QED
    BY <1>1, <1>2, PTL DEF Spec

\* RecvCancelRequest finds a copy of the INVITE in every dialog of a call the peer made that
\* is not connected: no other call has its Call-ID, so that the dialog is one InsertDialog
\* made, and what takes the copy from it takes the start time in the same section.
THEOREM CancelFindsInvite == Spec => []CancelHasInvite
  <1>1. TypeOK /\ CallMade => CancelHasInvite
    BY DEF CancelHasInvite, NullInvite, CanCancel, Known, CallMade, IncomingHasInvite, Incoming
  <1> QED
    BY <1>1, CallMadeAlways, PTL

\* No response makes the user agent call again when StopCall cancelled the call before it
\* was connected, whatever the order of the two.
THEOREM NoCallAfterStop == Spec => NoInviteAfterCancel
  <1>1. TypeOK /\ CallMade /\ [Next]_vars =>
          \A c \in DOMAIN dialog :
            dialog[c].cancel /\ ~ dialog[c].start /\ Queued(Send(c, "INVITE", 0))' =>
              Queued(Send(c, "INVITE", 0))
    <2> SUFFICES ASSUME TypeOK, CallMade, [Next]_vars, NEW c \in DOMAIN dialog,
                        dialog[c].cancel, ~ dialog[c].start, Queued(Send(c, "INVITE", 0))',
                        ~ Queued(Send(c, "INVITE", 0))
                 PROVE  FALSE
      OBVIOUS
    <2>1. c \in Call /\ Known(c)
      BY Types DEF DialogsOK, Known
    <2>2. invites[c] >= 1
      BY <2>1 DEF CallMade, Invited
    <2>3. Send(c, "INVITE", 0) \in AllTasks' /\ Send(c, "INVITE", 0) \notin AllTasks
      BY DEF Queued, AllTasks, Tasks
    <2>4. Source(Send(c, "INVITE", 0), c)
      BY <2>1, <2>3, NewTasks
    <2> QED
      BY <2>2, <2>4 DEF Source
  <1> QED
    BY <1>1, CallMadeAlways, PTL DEF Spec, NoInviteAfterCancel
-----------------------------------------------------------------------------
LEMMA QueuedEnds ==
  \A c : EndReported(c) <=>
    \/ \E m \in told : m.call = c /\ m.name = "EventCallEnd"
    \/ \E x \in AllTasks : x.call = c /\ x.name = "EventCallEnd"
  BY DEF EndReported, AllTasks, Tasks

LEMMA QueuedEndsAfter ==
  \A c : EndReported(c)' <=>
    \/ \E m \in told' : m.call = c /\ m.name = "EventCallEnd"
    \/ \E x \in AllTasks' : x.call = c /\ x.name = "EventCallEnd"
  BY DEF EndReported, AllTasks, Tasks

\* A message that was made stays made: it is sent before it is forgotten.
LEMMA MadeStays ==
  ASSUME TypeOK, [Next]_vars, NEW c \in Call, NEW method, NEW s, Made(c, method, s)
  PROVE  Made(c, method, s)'
  <1> DEFINE x == Send(c, method, s)
  <1>1. \A y : Queued(y)' <=> y \in AllTasks'
    BY DEF Queued, AllTasks, Tasks
  <1>2. sent \subseteq sent'
    <2>1. CASE UNCHANGED vars
      BY <2>1 DEF vars
    <2>2. ASSUME NEW t \in Thread, NEW b \in Call, Application(t, b) PROVE sent' = sent
      BY <2>2 DEF Application, StartCall, StopCall, ForwardCall, RingCall, AcceptCall, HoldCall
    <2>3. ASSUME NEW t \in Thread, NEW b \in Call,
                 RecvInviteRequest(t, b) \/ RecvCancelRequest(t, b) \/ RecvByeRequest(t, b)
          PROVE  sent' = sent
      BY <2>3 DEF RecvInviteRequest, RecvCancelRequest, RecvByeRequest
    <2>4. ASSUME NEW t \in Thread, NEW b \in Call, NEW r \in 1 .. 699, Responds(t, b, r)
          PROVE  sent' = sent
      BY <2>4 DEF Responds
    <2>5. ASSUME NEW t \in Thread, Proceed(t) PROVE sent \subseteq sent'
      BY <2>5 DEF Proceed, SendSipMessage, CallBack, InsertDialog, AnswerReInvite, CancelInvite,
         SetCallEnd, Delete
    <2>6. ASSUME NEW b \in Call, SendTimeout(b) PROVE sent' = sent
      BY <2>6 DEF SendTimeout
    <2>7. ASSUME NEW b \in Call, Peer(b) PROVE sent' = sent
      BY <2>7 DEF Peer, PeerInvites, PeerReInvites, PeerHangsUp, PeerCancels, PeerSends,
         PeerResponds
    <2> QED
      BY <2>1, <2>2, <2>3, <2>4, <2>5, <2>6, <2>7, Steps
  <1>3. CASE Message(c, method, s) \in sent
    BY <1>2, <1>3 DEF Made
  <1>4. CASE x \in AllTasks'
    BY <1>1, <1>4 DEF Made
  <1>5. CASE x \in AllTasks /\ x \notin AllTasks'
    <2>1. PICK t \in Thread : Proceed(t) /\ todo[t] # <<>> /\ x = Head(todo[t])
      BY <1>5, TasksStay
    <2>2. x.do = "send" /\ x.call = c /\ x.name = method /\ x.status = s
      BY DEF Send, Step
    <2>3. SendSipMessage(t)
      BY <2>1, <2>2 DEF Proceed, CallBack, InsertDialog, AnswerReInvite, CancelInvite,
         SetCallEnd, Delete, AtStep
    <2>4. Message(c, method, s) \in sent'
      BY <2>1, <2>2, <2>3 DEF SendSipMessage
    <2> QED
      BY <2>4 DEF Made
  <1> QED
    BY <1>3, <1>4, <1>5, QueuedTasks DEF Made

\* The application is told of the end of a call once and for all, until a new dialog of the
\* call takes the place of the former one.
LEMMA ToldStays ==
  ASSUME TypeOK, [Next]_vars, NEW c \in Call, ~ Inserted(c), NEW m \in told, m.call = c
  PROVE  m \in told'
  <1>1. CASE UNCHANGED vars
    BY <1>1 DEF vars
  <1>2. ASSUME NEW t \in Thread, NEW b \in Call, Application(t, b) PROVE told' = told
    BY <1>2 DEF Application, StartCall, StopCall, ForwardCall, RingCall, AcceptCall, HoldCall
  <1>3. ASSUME NEW t \in Thread, NEW b \in Call,
               RecvInviteRequest(t, b) \/ RecvCancelRequest(t, b) \/ RecvByeRequest(t, b)
        PROVE  told' = told
    BY <1>3 DEF RecvInviteRequest, RecvCancelRequest, RecvByeRequest
  <1>4. ASSUME NEW t \in Thread, NEW b \in Call, NEW s \in 1 .. 699, Responds(t, b, s)
        PROVE  told' = told
    BY <1>4 DEF Responds
  <1>5. ASSUME NEW t \in Thread, Proceed(t) PROVE m \in told'
    <2>1. CASE InsertDialog(t)
      <3> DEFINE b == ThisCall(t)
      <3>1. CASE Known(b) \/ b # c
        BY <2>1, <3>1 DEF InsertDialog
      <3>2. CASE ~ Known(b) /\ b = c
        <4>1. Changed(c, NewDialog(TRUE))
          BY <2>1, <3>2, DialogChanges
        <4>2. Known(c)' /\ dialog'[c] # NewDialog(FALSE)
          BY <4>1 DEF Changed, Known, NewDialog
        <4> QED
          BY <3>2, <4>2, DialogOf DEF Started
      <3> QED
        BY <3>1, <3>2
    <2>2. CASE ~ InsertDialog(t)
      BY <1>5, <2>2 DEF Proceed, SendSipMessage, CallBack, AnswerReInvite, CancelInvite,
         SetCallEnd, Delete
    <2> QED
      BY <2>1, <2>2
  <1>6. ASSUME NEW b \in Call, SendTimeout(b) PROVE told' = told
    BY <1>6 DEF SendTimeout
  <1>7. ASSUME NEW b \in Call, Peer(b) PROVE told' = told
    BY <1>7 DEF Peer, PeerInvites, PeerReInvites, PeerHangsUp, PeerCancels, PeerSends,
       PeerResponds
  <1> QED
    BY <1>1, <1>2, <1>3, <1>4, <1>5, <1>6, <1>7, Steps

LEMMA EndStays ==
  ASSUME TypeOK, [Next]_vars, NEW c \in Call, EndReported(c), ~ Inserted(c)
  PROVE  EndReported(c)'
  <1>1. ASSUME NEW m \in told, m.call = c, m.name = "EventCallEnd"
        PROVE  EndReported(c)'
    <2>1. m \in told'
      BY <1>1, ToldStays
    <2> QED
      BY <1>1, <2>1, QueuedEndsAfter
  <1>2. ASSUME NEW x \in AllTasks, x.call = c, x.name = "EventCallEnd"
        PROVE  EndReported(c)'
    <2>1. CASE x \in AllTasks'
      BY <1>2, <2>1, QueuedEndsAfter
    <2>2. CASE x \notin AllTasks'
      <3>1. PICK t \in Thread : Proceed(t) /\ todo[t] # <<>> /\ x = Head(todo[t])
        BY <2>2, TasksStay
      <3>2. x.do = "event"
        <4>1. x \in Task
          BY <3>1, HeadTask
        <4> QED
          BY <1>2, <4>1 DEF Task, Methods, Sections
      <3>3. CallBack(t)
        BY <3>1, <3>2 DEF Proceed, SendSipMessage, InsertDialog, AnswerReInvite, CancelInvite,
           SetCallEnd, Delete, AtStep
      <3>4. Message(c, "EventCallEnd", x.status) \in told'
        BY <1>2, <3>1, <3>3 DEF CallBack
      <3>5. /\ Message(c, "EventCallEnd", x.status).call = c
            /\ Message(c, "EventCallEnd", x.status).name = "EventCallEnd"
        BY DEF Message
      <3> QED
        BY <3>4, <3>5, QueuedEndsAfter
    <2> QED
      BY <2>1, <2>2
  <1> QED
    BY <1>1, <1>2, QueuedEnds

\* StopCall is recorded only by itself.
LEMMA StoppedStep ==
  ASSUME TypeOK, [Next]_vars, NEW c, NEW connected, <<c, connected>> \in stopped' \ stopped
  PROVE  \E t \in Thread : c \in Call /\ StopCall(t, c) /\ connected = dialog[c].start
  <1>1. CASE UNCHANGED vars
    BY <1>1 DEF vars, history
  <1>2. ASSUME NEW t \in Thread, NEW b \in Call, Application(t, b)
        PROVE  b = c /\ StopCall(t, c) /\ connected = dialog[c].start
    <2>1. CASE StopCall(t, b)
      <3>1. stopped' = stopped \cup {<<b, dialog[b].start>>}
        BY <2>1 DEF StopCall
      <3>2. <<c, connected>> = <<b, dialog[b].start>>
        BY <3>1
      <3>3. b = c /\ connected = dialog[b].start
        BY <3>2
      <3> QED
        BY <2>1, <3>3
    <2>2. CASE ~ StopCall(t, b)
      BY <1>2, <2>2 DEF Application, StartCall, ForwardCall, RingCall, AcceptCall, HoldCall,
         history
    <2> QED
      BY <2>1, <2>2
  <1>3. ASSUME NEW t \in Thread, NEW b \in Call,
               RecvInviteRequest(t, b) \/ RecvCancelRequest(t, b) \/ RecvByeRequest(t, b)
        PROVE  FALSE
    BY <1>3 DEF RecvInviteRequest, RecvCancelRequest, RecvByeRequest, history
  <1>4. ASSUME NEW t \in Thread, NEW b \in Call, NEW s \in 1 .. 699, Responds(t, b, s)
        PROVE  FALSE
    BY <1>4 DEF Responds, history
  <1>5. ASSUME NEW t \in Thread, Proceed(t) PROVE FALSE
    BY <1>5 DEF Proceed, SendSipMessage, CallBack, InsertDialog, AnswerReInvite, CancelInvite,
       SetCallEnd, Delete, history
  <1>6. ASSUME NEW b \in Call, SendTimeout(b) PROVE FALSE
    BY <1>6 DEF SendTimeout
  <1>7. ASSUME NEW b \in Call, Peer(b) PROVE FALSE
    BY <1>7 DEF Peer, PeerInvites, PeerReInvites, PeerHangsUp, PeerCancels, PeerSends,
       PeerResponds, history
  <1> QED
    BY <1>1, <1>2, <1>3, <1>4, <1>5, <1>6, <1>7, Steps

\* The times StopCall relies on say what was done: a CANCEL was made, the application hears
\* of the end.
CancelMade == \A c \in DOMAIN dialog : dialog[c].cancel => Made(c, "CANCEL", 0)
EndTold == \A c \in DOMAIN dialog : dialog[c].end => EndReported(c)
StopKept == CancelMade /\ EndTold /\ StopTakesEffect

LEMMA TimesStep ==
  ASSUME SIP_MOVED_TEMPORARILY \notin Status, TypeOK, CancelMade, EndTold, [Next]_vars
  PROVE  CancelMade' /\ EndTold'
  <1> SUFFICES ASSUME NEW c \in DOMAIN dialog'
               PROVE  /\ dialog'[c].cancel => Made(c, "CANCEL", 0)'
                      /\ dialog'[c].end => EndReported(c)'
    BY DEF CancelMade, EndTold
  <1>1. c \in Call /\ Became(c)
    BY TypeStep, TypesAfter, DialogStep DEF DialogsOK
  <1>2. Known(c) => dialog[c] \in CSipDialog
    BY Types DEF DialogsOK, Known
  <1>3. Known(c) /\ dialog[c].cancel => Made(c, "CANCEL", 0)'
    BY <1>1, MadeStays DEF CancelMade, Known
  <1>4. Known(c) /\ dialog[c].end => EndReported(c)'
    BY <1>1, EndStays DEF EndTold, Known, Inserted
  <1>5. CASE Kept(c)
    BY <1>3, <1>4, <1>5 DEF Kept
  <1>6. CASE Started(c) \/ Inserted(c)
    BY <1>6 DEF Started, Inserted, NewDialog
  <1>7. CASE Cancelled(c)
    <2>1. Made(c, "CANCEL", 0)'
      BY <1>7 DEF Cancelled, Made, Queued, AllTasks, Tasks
    <2> QED
      BY <1>2, <1>4, <1>7, <2>1 DEF Cancelled, CSipDialog
  <1>8. CASE TookCall(c)
    BY <1>2, <1>3, <1>4, <1>8 DEF TookCall, Unanswered, Accepted, CSipDialog
  <1>9. CASE Ended(c)
    <2>1. PICK s : Event(c, "EventCallEnd", s) \in AllTasks'
      BY <1>9 DEF Ended
    <2>2. EndReported(c)'
      BY <2>1, QueuedEndsAfter DEF Event, Step
    <2> QED
      BY <1>2, <1>3, <1>9, <2>2 DEF Ended, CSipDialog
  <1>10. CASE TookResponse(c)
    <2>1. PICK s \in 1 .. 699 :
            /\ s \in Status \cup {SIP_REQUEST_TIME_OUT}
            /\ dialog'[c] = Responded(dialog[c], s)
            /\ Retries(dialog[c], s) \/ Tasks(Report(dialog[c], c, s)) \subseteq AllTasks'
      BY <1>10 DEF TookResponse, Responds
    <2>2. /\ dialog'[c].cancel = dialog[c].cancel
          /\ dialog'[c].end => dialog[c].end
               \/ (s >= SIP_MULTIPLE_CHOICES /\ ~ Challenge(s) /\ ~ dialog[c].start)
      BY <1>2, <1>10, <2>1 DEF TookResponse, Responded, CSipDialog
    <2>3. ASSUME s >= SIP_MULTIPLE_CHOICES, ~ Challenge(s), ~ dialog[c].start
          PROVE  EndReported(c)'
      <3>1. s # SIP_MOVED_TEMPORARILY
        BY <2>1 DEF SIP_MOVED_TEMPORARILY, SIP_REQUEST_TIME_OUT
      <3>2. ~ Retries(dialog[c], s)
        BY <2>3, <3>1 DEF Retries
      <3>3. Event(c, "EventCallEnd", s) \in AllTasks'
        BY <1>1, <2>1, <2>3, <3>2, ReportTasks
      <3> QED
        BY <3>3, QueuedEndsAfter DEF Event, Step
    <2> QED
      BY <1>3, <1>4, <1>10, <2>2, <2>3 DEF TookResponse
  <1> QED
    BY <1>1, <1>5, <1>6, <1>7, <1>8, <1>9, <1>10 DEF Became

LEMMA StopStep ==
  ASSUME SIP_MOVED_TEMPORARILY \notin Status, TypeOK, StopKept, [Next]_vars
  PROVE  StopKept'
  <1> DEFINE Effect(c, connected) ==
               IF connected THEN Made(c, "BYE", 0) \/ EndReported(c)
               ELSE Made(c, "CANCEL", 0) \/ Made(c, "INVITE", SIP_DECLINE) \/ EndReported(c)
  <1>1. CancelMade' /\ EndTold'
    BY TimesStep DEF StopKept
  <1>2. ASSUME NEW c \in Call, NEW connected \in BOOLEAN, <<c, connected>> \in stopped'
        PROVE  Effect(c, connected)'
    <2>1. ~ Inserted(c)
      BY <1>2 DEF Inserted
    <2>2. CASE <<c, connected>> \in stopped
      <3>1. Effect(c, connected)
        BY <2>2 DEF StopKept, StopTakesEffect
      <3> QED
        BY <2>1, <3>1, MadeStays, EndStays
    <2>3. CASE <<c, connected>> \notin stopped
      <3>1. PICK t \in Thread : StopCall(t, c) /\ connected = dialog[c].start
        BY <1>2, <2>3, StoppedStep
      <3>2. Known(c)
        BY <3>1 DEF StopCall
      <3>3. \A x : x \in AllTasks' => Queued(x)'
        BY DEF Queued, AllTasks, Tasks
      <3>4. CASE StopConnected(t, c)
        <4>1. Send(c, "BYE", 0) \in AllTasks'
          BY <3>4, Beginnings DEF Begun
        <4>2. connected /\ Made(c, "BYE", 0)'
          BY <3>1, <3>3, <3>4, <4>1 DEF StopConnected, Made
        <4> QED
          BY <4>2
      <3>5. CASE StopIncoming(t, c)
        <4>1. Send(c, "INVITE", SIP_DECLINE) \in AllTasks'
          BY <3>5, Beginnings DEF Begun
        <4>2. ~ connected /\ Made(c, "INVITE", SIP_DECLINE)'
          BY <3>1, <3>3, <3>5, <4>1 DEF StopIncoming, Unanswered, Made
        <4> QED
          BY <4>2
      <3>6. CASE StopOutgoing(t, c)
        <4>1. Send(c, "CANCEL", 0) \in AllTasks'
          BY <3>6, Beginnings DEF Begun
        <4>2. ~ connected /\ Made(c, "CANCEL", 0)'
          BY <3>1, <3>3, <3>6, <4>1 DEF StopOutgoing, Made
        <4> QED
          BY <4>2
      <3>7. CASE StopNothing(t, c)
        <4>1. dialog[c].end \/ (~ connected /\ dialog[c].cancel)
          BY <3>1, <3>7 DEF StopNothing
        <4>2. dialog[c].end => EndReported(c)'
          BY <2>1, <3>2, EndStays DEF StopKept, EndTold, Known
        <4>3. dialog[c].cancel => Made(c, "CANCEL", 0)'
          BY <3>2, MadeStays DEF StopKept, CancelMade, Known
        <4> QED
          BY <4>1, <4>2, <4>3
      <3> QED
        BY <3>1, <3>4, <3>5, <3>6, <3>7 DEF StopCall
    <2> QED
      BY <2>1, <2>2, <2>3
  <1>3. StopTakesEffect'
    BY <1>2 DEF StopTakesEffect
  <1> QED
    BY <1>1, <1>3 DEF StopKept

\* StopCall ends the call, whatever runs at the same time, when the peer redirects no call
\* (302): a connected call with a BYE, a received one with an error response, one that was
\* sent with a CANCEL, unless the application hears of another end.
THEOREM StopEffective ==
  ASSUME SIP_MOVED_TEMPORARILY \notin Status
  PROVE  Spec => []StopTakesEffect
  <1>1. Init => TypeOK /\ StopKept
    <2>1. Init => StopKept
      BY DEF Init, StopKept, CancelMade, EndTold, StopTakesEffect
    <2> QED
      BY <2>1, TypeInit
  <1>2. TypeOK /\ StopKept /\ [Next]_vars => TypeOK' /\ StopKept'
    BY TypeStep, StopStep
  <1>3. StopKept => StopTakesEffect
    BY DEF StopKept
  <1> QED
    BY <1>1, <1>2, <1>3, PTL DEF Spec
-----------------------------------------------------------------------------
\* One thread receives messages, the default of the stack.
OneReceiver == \A t, u \in Receiver : t = u

Rings(x) == x.name = "INVITE" /\ x.status = SIP_RINGING
Invites(x) == x.name = "INVITE" /\ x.status = 0

\* A lock and an INVITE are the last task of a handler; EventCallEnd is followed by the
\* deletion of the dialog, a 180 by the insertion of a new one.
InOrder(s) ==
  \A i \in DOMAIN s :
    /\ s[i].do = "lock" \/ Invites(s[i]) => i = Len(s)
    /\ s[i].name = "EventCallEnd" => i + 1 \in DOMAIN s /\ s[i + 1] = Lock(s[i].call, "Delete")
    /\ Rings(s[i]) => i + 1 \in DOMAIN s /\ s[i + 1] = Lock(s[i].call, "InsertDialog")

\* Requests and answers are handled by a receiving thread, a 408 by the stack thread.
OwnTask(t, x) ==
  /\ x.do = "lock" /\ x.name # "Delete" => t \in Receiver
  /\ x.do = "event" => t \in Receiver \/ x.status = SIP_REQUEST_TIME_OUT

Tidy == \A t \in Thread : InOrder(todo[t]) /\ \A x \in Tasks(todo[t]) : OwnTask(t, x)

\* Thread t may begin or continue with more than it had to do.
Free(t) == todo[t] = <<>> \/ \E c \in Call, n \in Sections \ {"Delete"} : todo[t] = <<Lock(c, n)>>

\* There is something of the call, or its INVITE was just made.
Seen(c) ==
  \/ Known(c) \/ c \in pending \/ Lock(c, "InsertDialog") \in AllTasks
  \/ \E m \in inbox : m.call = c
  \/ invites'[c] >= 1

NewWork(t, s) ==
  /\ Free(t) /\ InOrder(s)
  /\ \A x \in Tasks(s) :
       /\ OwnTask(t, x) /\ Seen(x.call)
       /\ x.do = "event" => Known(x.call) \/ \A m \in told' : m.call # x.call

Deleted(t) == \E c \in Call : todo[t] = <<Lock(c, "Delete")>> /\ c = ThisCall(t) /\ Delete(t)

Moved(t, s) ==
  /\ todo' = [todo EXCEPT ![t] = s]
  /\ \/ NewWork(t, s)
     \/ todo[t] # <<>> /\ s = Tail(todo[t]) /\ (SendSipMessage(t) \/ CallBack(t))
     \/ s = <<>> /\ Deleted(t)

LEMMA TaskFields ==
  \A c, n, s :
    /\ Send(c, n, s).do = "send" /\ Send(c, n, s).call = c
    /\ Send(c, n, s).name = n /\ Send(c, n, s).status = s
    /\ Event(c, n, s).do = "event" /\ Event(c, n, s).call = c
    /\ Event(c, n, s).name = n /\ Event(c, n, s).status = s
    /\ Lock(c, n).do = "lock" /\ Lock(c, n).call = c
    /\ Lock(c, n).name = n /\ Lock(c, n).status = 0
  BY DEF Send, Event, Lock, Step

LEMMA InOrderTail ==
  ASSUME NEW s \in Seq(Task), s # <<>>, InOrder(s)
  PROVE  InOrder(Tail(s))
  <1>1. Len(s) \in Nat \ {0} /\ Len(Tail(s)) = Len(s) - 1 /\ Tail(s) \in Seq(Task)
    OBVIOUS
  <1>2. DOMAIN s = 1 .. Len(s) /\ DOMAIN Tail(s) = 1 .. Len(s) - 1
    BY <1>1
  <1>3. \A i \in 1 .. Len(s) - 1 : Tail(s)[i] = s[i + 1]
    BY <1>1
  <1> SUFFICES ASSUME NEW i \in DOMAIN Tail(s)
               PROVE  /\ Tail(s)[i].do = "lock" \/ Invites(Tail(s)[i]) => i = Len(Tail(s))
                      /\ Tail(s)[i].name = "EventCallEnd" =>
                           /\ i + 1 \in DOMAIN Tail(s)
                           /\ Tail(s)[i + 1] = Lock(Tail(s)[i].call, "Delete")
                      /\ Rings(Tail(s)[i]) =>
                           /\ i + 1 \in DOMAIN Tail(s)
                           /\ Tail(s)[i + 1] = Lock(Tail(s)[i].call, "InsertDialog")
    BY DEF InOrder
  <1> DEFINE j == i + 1
  <1>4. j \in DOMAIN s /\ Tail(s)[i] = s[j] /\ i \in Nat
    BY <1>1, <1>2, <1>3
  <1>5. /\ s[j].do = "lock" \/ Invites(s[j]) => j = Len(s)
        /\ s[j].name = "EventCallEnd" => j + 1 \in DOMAIN s /\ s[j + 1] = Lock(s[j].call, "Delete")
        /\ Rings(s[j]) => j + 1 \in DOMAIN s /\ s[j + 1] = Lock(s[j].call, "InsertDialog")
    BY <1>4 DEF InOrder
  <1>6. j + 1 \in DOMAIN s => i + 1 \in DOMAIN Tail(s) /\ Tail(s)[i + 1] = s[j + 1]
    BY <1>1, <1>2, <1>3, <1>4
  <1>7. j = Len(s) => i = Len(Tail(s))
    <2>1. \A m \in Nat, n \in Nat : m + 1 = n => m = n - 1
      OBVIOUS
    <2>2. Len(s) \in Nat
      BY <1>1
    <2>3. i + 1 = Len(s) => i = Len(s) - 1
      BY <1>4, <2>1, <2>2
    <2> QED
      BY <1>1, <2>3
  <1>8. Tail(s)[i].do = "lock" \/ Invites(Tail(s)[i]) => i = Len(Tail(s))
    BY <1>4, <1>5, <1>7
  <1>9. Tail(s)[i].name = "EventCallEnd" =>
          /\ i + 1 \in DOMAIN Tail(s)
          /\ Tail(s)[i + 1] = Lock(Tail(s)[i].call, "Delete")
    BY <1>4, <1>5, <1>6
  <1>10. Rings(Tail(s)[i]) =>
          /\ i + 1 \in DOMAIN Tail(s)
          /\ Tail(s)[i + 1] = Lock(Tail(s)[i].call, "InsertDialog")
    BY <1>4, <1>5, <1>6 DEF Rings
  <1> QED
    BY <1>8, <1>9, <1>10

\* A task that may come anywhere before the last one; one that may be the last.
Early(x) == x.do # "lock" /\ x.name # "EventCallEnd" /\ ~ Rings(x) /\ ~ Invites(x)
LastOne(x) == x.name # "EventCallEnd" /\ ~ Rings(x)

LEMMA InOrderTuples ==
  /\ InOrder(<<>>)
  /\ \A x : LastOne(x) => InOrder(<<x>>)
  /\ \A x, y : Early(x) /\ LastOne(y) => InOrder(<<x, y>>)
  /\ \A c : InOrder(<<Send(c, "INVITE", SIP_RINGING), Lock(c, "InsertDialog")>>)
  /\ \A c, s : InOrder(<<Event(c, "EventCallEnd", s), Lock(c, "Delete")>>)
  /\ \A x, c, s : Early(x) => InOrder(<<x, Event(c, "EventCallEnd", s), Lock(c, "Delete")>>)
  <1>1. InOrder(<<>>) /\ \A x : LastOne(x) => InOrder(<<x>>)
    BY DEF InOrder, LastOne
  <1>2. \A x, y : Early(x) /\ LastOne(y) => InOrder(<<x, y>>)
    BY DEF InOrder, Early, LastOne
  <1>3. \A c : InOrder(<<Send(c, "INVITE", SIP_RINGING), Lock(c, "InsertDialog")>>)
    BY TaskFields DEF InOrder, Rings, Invites, SIP_RINGING
  <1>4. \A c, s : InOrder(<<Event(c, "EventCallEnd", s), Lock(c, "Delete")>>)
    BY TaskFields DEF InOrder, Rings, Invites, SIP_RINGING
  <1>5. \A x, c, s : Early(x) => InOrder(<<x, Event(c, "EventCallEnd", s), Lock(c, "Delete")>>)
    BY TaskFields DEF InOrder, Rings, Early, Invites
  <1> QED
    BY <1>1, <1>2, <1>3, <1>4, <1>5

LEMMA BeginMoves ==
  ASSUME NEW t \in Thread, NEW s \in Seq(Task), Begin(t, s), InOrder(s),
         \A x \in Tasks(s) :
           OwnTask(t, x) /\ Seen(x.call) /\ (x.do = "event" => Known(x.call))
  PROVE  Moved(t, s)
  BY DEF Begin, Moved, NewWork, Free

LEMMA SendMoves ==
  ASSUME NEW t \in Thread, NEW c \in Call, NEW n \in Methods, NEW r \in 0 .. 699,
         Begin(t, <<Send(c, n, r)>>), Seen(c), n # "INVITE" \/ r # SIP_RINGING
  PROVE  \E s \in Seq(Task) : Moved(t, s)
  <1> DEFINE a == Send(c, n, r)
  <1>1. a \in Task
    BY TaskTypes
  <1>2. <<a>> \in Seq(Task) /\ Tasks(<<a>>) = {a}
    BY <1>1, TupleTasks
  <1>3. a.do = "send" /\ a.name = n /\ a.status = r /\ a.call = c
    BY TaskFields
  <1>4. InOrder(<<a>>)
    BY <1>3, InOrderTuples DEF LastOne, Rings, Methods
  <1>5. OwnTask(t, a)
    BY <1>3 DEF OwnTask
  <1>6. Moved(t, <<a>>)
    BY <1>2, <1>3, <1>4, <1>5, BeginMoves
  <1> QED
    BY <1>2, <1>6

LEMMA SendsMove ==
  ASSUME NEW t \in Thread, NEW c \in Call, Seen(c),
         \/ Begin(t, <<Send(c, "INVITE", 0)>>)
         \/ Begin(t, <<Send(c, "BYE", 0)>>)
         \/ Begin(t, <<Send(c, "CANCEL", 0)>>)
         \/ \E r \in {SIP_DECLINE, SIP_MOVED_TEMPORARILY, SIP_SESSION_PROGRESS, SIP_OK,
                      SIP_NOT_ACCEPTABLE_HERE} : Begin(t, <<Send(c, "INVITE", r)>>)
  PROVE  \E s \in Seq(Task) : Moved(t, s)
  <1>1. "INVITE" \in Methods /\ "BYE" \in Methods /\ "CANCEL" \in Methods
    BY DEF Methods
  <1>2. 0 \in 0 .. 699 /\ 0 # SIP_RINGING
    BY DEF SIP_RINGING
  <1>3. \A r \in {SIP_DECLINE, SIP_MOVED_TEMPORARILY, SIP_SESSION_PROGRESS, SIP_OK,
               SIP_NOT_ACCEPTABLE_HERE} : r \in 0 .. 699 /\ r # SIP_RINGING
    BY DEF SIP_RINGING, SIP_DECLINE, SIP_MOVED_TEMPORARILY, SIP_SESSION_PROGRESS, SIP_OK,
       SIP_NOT_ACCEPTABLE_HERE
  <1>4. ASSUME NEW n \in {"INVITE", "BYE", "CANCEL"}, NEW r \in {0}, Begin(t, <<Send(c, n, r)>>)
        PROVE  \E s \in Seq(Task) : Moved(t, s)
    <2>1. n \in Methods /\ r \in 0 .. 699 /\ (n # "INVITE" \/ r # SIP_RINGING)
      BY <1>1, <1>2
    <2> QED
      BY <1>4, <2>1, SendMoves
  <1>7. ASSUME NEW r \in {SIP_DECLINE, SIP_MOVED_TEMPORARILY, SIP_SESSION_PROGRESS, SIP_OK,
                         SIP_NOT_ACCEPTABLE_HERE}, Begin(t, <<Send(c, "INVITE", r)>>)
        PROVE  \E s \in Seq(Task) : Moved(t, s)
    <2>1. r \in 0 .. 699 /\ ("INVITE" # "INVITE" \/ r # SIP_RINGING)
      BY <1>3
    <2>2. "INVITE" \in Methods
      BY <1>1
    <2> HIDE DEF Methods
    <2> QED
      BY <1>7, <2>1, <2>2, SendMoves
  <1> QED
    BY <1>4, <1>7

LEMMA PairMoves ==
  ASSUME NEW t \in Receiver, NEW a \in Task, NEW b \in Task, Begin(t, <<a, b>>),
         InOrder(<<a, b>>), Seen(a.call), a.call = b.call, a.do = "event" => Known(a.call),
         b.do # "event"
  PROVE  \E s \in Seq(Task) : Moved(t, s)
  <1>1. <<a, b>> \in Seq(Task) /\ Tasks(<<a, b>>) = {a, b}
    BY TupleTasks
  <1>2. OwnTask(t, a) /\ OwnTask(t, b)
    BY DEF OwnTask
  <1>3. Moved(t, <<a, b>>)
    BY <1>1, <1>2, BeginMoves, Threads
  <1> QED
    BY <1>1, <1>3

LEMMA IdleMoves ==
  ASSUME NEW t \in Thread, Begin(t, <<>>)
  PROVE  \E s \in Seq(Task) : Moved(t, s)
  BY TupleTasks, InOrderTuples, BeginMoves

LEMMA ApplicationMoves ==
  ASSUME TypeOK, NEW t \in App, NEW c \in Call, Application(t, c)
  PROVE  \E s \in Seq(Task) : Moved(t, s)
  <1>1. RestOK /\ t \in Thread
    BY Types, Threads
  <1>3. CASE StartCall(t, c) \/ HoldCall(t, c)
    <2>1. Begin(t, <<Send(c, "INVITE", 0)>>) /\ CreateInvite(c)
      BY <1>3 DEF StartCall, HoldCall
    <2>2. Seen(c)
      BY <1>1, <2>1, InvitesType DEF Seen
    <2> QED
      BY <1>1, <2>1, <2>2, SendsMove
  <1>4. CASE StopCall(t, c)
    <2>1. Seen(c)
      BY <1>4 DEF StopCall, Seen
    <2>2. \/ Begin(t, <<Send(c, "BYE", 0)>>)
          \/ Begin(t, <<Send(c, "INVITE", SIP_DECLINE)>>)
          \/ Begin(t, <<Send(c, "CANCEL", 0)>>)
          \/ Begin(t, <<>>)
      BY <1>4 DEF StopCall, StopConnected, StopIncoming, StopOutgoing, StopNothing
    <2> QED
      BY <1>1, <2>1, <2>2, SendsMove, IdleMoves
  <1>5. CASE ForwardCall(t, c) \/ RingCall(t, c) \/ AcceptCall(t, c)
    <2>1. Seen(c)
      BY <1>5 DEF ForwardCall, RingCall, AcceptCall, Unanswered, Seen
    <2>2. \/ Begin(t, <<Send(c, "INVITE", SIP_MOVED_TEMPORARILY)>>)
          \/ Begin(t, <<Send(c, "INVITE", SIP_SESSION_PROGRESS)>>)
          \/ Begin(t, <<Send(c, "INVITE", SIP_OK)>>)
      BY <1>5 DEF ForwardCall, RingCall, AcceptCall
    <2> QED
      BY <1>1, <2>1, <2>2, SendsMove
  <1> QED
    BY <1>3, <1>4, <1>5 DEF Application

LEMMA RequestMoves ==
  ASSUME TypeOK, NEW t \in Receiver, NEW c \in Call,
         RecvInviteRequest(t, c) \/ RecvCancelRequest(t, c) \/ RecvByeRequest(t, c)
  PROVE  \E s \in Seq(Task) : Moved(t, s)
  <1>1. t \in Thread
    BY Threads
  <1>2. Seen(c)
    <2>1. \A n, s : Message(c, n, s).call = c
      BY DEF Message
    <2> QED
      BY <2>1 DEF RecvInviteRequest, RecvCancelRequest, RecvByeRequest, Receive, Seen
  <1>3. /\ Send(c, "INVITE", SIP_RINGING) \in Task /\ Lock(c, "InsertDialog") \in Task
        /\ Send(c, "CANCEL", SIP_OK) \in Task /\ Lock(c, "CancelInvite") \in Task
        /\ Send(c, "BYE", SIP_OK) \in Task /\ Lock(c, "SetCallEnd") \in Task
        /\ Event(c, "EventReInvite", 0) \in Task /\ Lock(c, "AnswerReInvite") \in Task
    <2>1. \A s \in {SIP_RINGING, SIP_OK, 0} : s \in 0 .. 699
      BY DEF SIP_RINGING, SIP_OK
    <2>2. \A s \in 0 .. 699 :
            /\ Send(c, "INVITE", s) \in Task /\ Send(c, "CANCEL", s) \in Task
            /\ Send(c, "BYE", s) \in Task /\ Event(c, "EventReInvite", s) \in Task
      <3>1. /\ "INVITE" \in Methods /\ "CANCEL" \in Methods /\ "BYE" \in Methods
            /\ "EventReInvite" \in Events
        BY DEF Methods, Events
      <3> QED
        BY <3>1, TaskTypes
    <2>3. /\ Lock(c, "InsertDialog") \in Task /\ Lock(c, "CancelInvite") \in Task
          /\ Lock(c, "SetCallEnd") \in Task /\ Lock(c, "AnswerReInvite") \in Task
      BY TaskTypes DEF Sections
    <2> QED
      BY <2>1, <2>2, <2>3
  <1>4. CASE Begin(t, <<Send(c, "INVITE", SIP_NOT_ACCEPTABLE_HERE)>>)
    BY <1>1, <1>2, <1>4, SendsMove
  <1>5. CASE Known(c) /\ Begin(t, <<Event(c, "EventReInvite", 0), Lock(c, "AnswerReInvite")>>)
    <2>1. InOrder(<<Event(c, "EventReInvite", 0), Lock(c, "AnswerReInvite")>>)
      BY TaskFields, InOrderTuples DEF Early, LastOne, Rings, Invites
    <2> QED
      BY <1>2, <1>3, <1>5, <2>1, TaskFields, PairMoves
  <1>6. CASE Begin(t, <<Send(c, "INVITE", SIP_RINGING), Lock(c, "InsertDialog")>>)
    BY <1>2, <1>3, <1>6, TaskFields, InOrderTuples, PairMoves
  <1>7. CASE Begin(t, <<Send(c, "CANCEL", SIP_OK), Lock(c, "CancelInvite")>>)
    <2>1. InOrder(<<Send(c, "CANCEL", SIP_OK), Lock(c, "CancelInvite")>>)
      BY TaskFields, InOrderTuples DEF Early, LastOne, Rings, Invites
    <2> QED
      BY <1>2, <1>3, <1>7, <2>1, TaskFields, PairMoves
  <1>8. CASE Begin(t, <<Send(c, "BYE", SIP_OK), Lock(c, "SetCallEnd")>>)
    <2>1. InOrder(<<Send(c, "BYE", SIP_OK), Lock(c, "SetCallEnd")>>)
      BY TaskFields, InOrderTuples DEF Early, LastOne, Rings, Invites
    <2> QED
      BY <1>2, <1>3, <1>8, <2>1, TaskFields, PairMoves
  <1> QED
    BY <1>4, <1>5, <1>6, <1>7, <1>8 DEF RecvInviteRequest, RecvCancelRequest, RecvByeRequest

LEMMA Concat ==
  /\ \A q \in Seq(Task) : <<>> \o q = q
  /\ \A a, x \in Task : <<a>> \o <<x>> = <<a, x>>
  /\ \A a, x, y \in Task : <<a>> \o <<x, y>> = <<a, x, y>>
  <1>1. ASSUME NEW q \in Seq(Task) PROVE <<>> \o q = q
    OBVIOUS
  <1>2. ASSUME NEW a \in Task, NEW x \in Task PROVE <<a>> \o <<x>> = <<a, x>>
    <2>1. /\ <<a>> \in Seq(Task) /\ <<x>> \in Seq(Task) /\ <<a, x>> \in Seq(Task)
          /\ <<a>> \o <<x>> \in Seq(Task)
          /\ Len(<<a>> \o <<x>>) = 2 /\ Len(<<a, x>>) = 2
      BY TupleTasks
    <2>2. \A i \in 1 .. 2 : (<<a>> \o <<x>>)[i] = <<a, x>>[i]
      BY <2>1, ConcatProperties
    <2> QED
      BY <2>1, <2>2, SeqEqual
  <1>3. ASSUME NEW a \in Task, NEW x \in Task, NEW y \in Task
        PROVE  <<a>> \o <<x, y>> = <<a, x, y>>
    <2>1. /\ <<a>> \in Seq(Task) /\ <<x, y>> \in Seq(Task) /\ <<a, x, y>> \in Seq(Task)
          /\ <<a>> \o <<x, y>> \in Seq(Task)
          /\ Len(<<a>> \o <<x, y>>) = 3 /\ Len(<<a, x, y>>) = 3
      BY TupleTasks
    <2>2. \A i \in 1 .. 3 : (<<a>> \o <<x, y>>)[i] = <<a, x, y>>[i]
      BY <2>1, ConcatProperties
    <2> QED
      BY <2>1, <2>2, SeqEqual
  <1> QED
    BY <1>1, <1>2, <1>3

LEMMA OneElement ==
  ASSUME NEW s \in Seq(Task), Len(s) = 1
  PROVE  s = <<s[1]>> /\ Tail(s) = <<>>
  <1>1. Tail(s) \in Seq(Task) /\ Len(Tail(s)) = 0 /\ s[1] \in Task
    OBVIOUS
  <1>2. Tail(s) = <<>>
    BY <1>1, EmptySeq
  <1>3. <<s[1]>> \in Seq(Task) /\ Len(<<s[1]>>) = 1 /\ <<s[1]>>[1] = s[1]
    BY <1>1
  <1>4. s = <<s[1]>>
    BY <1>3
  <1> QED
    BY <1>2, <1>4

\* A response that a receiving thread handles, or the 408 of the stack thread.
LEMMA ResponseMoves ==
  ASSUME TypeOK, NEW t \in Thread, NEW c \in Call, NEW s \in 1 .. 699,
         t \in Receiver \/ s = SIP_REQUEST_TIME_OUT, SetInviteResponse(t, c, s)
  PROVE  \E w \in Seq(Task) : Moved(t, w)
  <1> DEFINE a   == Send(c, "ACK", 0)
             ack == IF s >= SIP_OK /\ s # SIP_CONNECT_ERROR THEN <<a>> ELSE <<>>
  <1> ack = Ack(c, s)
    BY DEF Ack
  <1>1. CASE ~ Known(c)
    BY <1>1, IdleMoves DEF SetInviteResponse
  <1>2. CASE Known(c)
    <2>1. /\ a \in Task /\ Send(c, "INVITE", 0) \in Task
          /\ \A n \in Events : Event(c, n, s) \in Task
          /\ Lock(c, "Delete") \in Task
      <3>1. /\ "INVITE" \in Methods /\ "ACK" \in Methods /\ "Delete" \in Sections
            /\ 0 \in 0 .. 699 /\ s \in 0 .. 699
        BY DEF Methods, Sections
      <3> QED
        BY <3>1, TaskTypes
    <2>2. Early(a) /\ LastOne(a) /\ Seen(c) /\ LastOne(Send(c, "INVITE", 0))
      BY <1>2, TaskFields DEF Early, LastOne, Rings, Invites, SIP_RINGING, Seen
    <2> HIDE DEF a
    <2>3. ASSUME NEW x \in Task, LastOne(x), Begin(t, ack \o <<x>>), x.call = c,
                 x.do \in {"send", "event"}, x.do = "event" => x.status = s
          PROVE  \E w \in Seq(Task) : Moved(t, w)
      <3>1. OwnTask(t, x) /\ OwnTask(t, a) /\ a.call = c /\ a.do = "send"
        BY <2>3, TaskFields DEF OwnTask, a
      <3>2. /\ <<x>> \in Seq(Task) /\ Tasks(<<x>>) = {x}
            /\ <<a, x>> \in Seq(Task) /\ Tasks(<<a, x>>) = {a, x}
        BY <2>1, TupleTasks
      <3>3. InOrder(<<x>>) /\ InOrder(<<a, x>>)
        BY <2>2, <2>3, InOrderTuples
      <3>4. ack \o <<x>> = <<x>> \/ ack \o <<x>> = <<a, x>>
        BY <2>1, <2>3, <3>2, Concat
      <3>5. CASE Begin(t, <<x>>)
        BY <1>2, <2>2, <2>3, <3>1, <3>2, <3>3, <3>5, BeginMoves
      <3>6. CASE Begin(t, <<a, x>>)
        BY <1>2, <2>2, <2>3, <3>1, <3>2, <3>3, <3>6, BeginMoves
      <3> QED
        BY <2>3, <3>4, <3>5, <3>6
    <2>4. ASSUME Begin(t, ack \o <<Event(c, "EventCallEnd", s), Lock(c, "Delete")>>)
          PROVE  \E w \in Seq(Task) : Moved(t, w)
      <3> DEFINE x == Event(c, "EventCallEnd", s)
                 y == Lock(c, "Delete")
      <3>1. /\ OwnTask(t, x) /\ OwnTask(t, y) /\ OwnTask(t, a)
            /\ a.call = c /\ a.do = "send" /\ x.call = c /\ y.call = c
            /\ InOrder(<<x, y>>) /\ InOrder(<<a, x, y>>)
        BY <2>2, TaskFields, InOrderTuples DEF OwnTask, a
      <3>2. x \in Task /\ y \in Task
        BY <2>1 DEF Events
      <3> HIDE DEF x, y
      <3>3. /\ <<x, y>> \in Seq(Task) /\ Tasks(<<x, y>>) = {x, y}
            /\ <<a, x, y>> \in Seq(Task) /\ Tasks(<<a, x, y>>) = {a, x, y}
        BY <2>1, <3>2, TupleTasks
      <3>4. ack \o <<x, y>> = <<x, y>> \/ ack \o <<x, y>> = <<a, x, y>>
        BY <2>1, <3>2, <3>3, Concat
      <3>5. CASE Begin(t, <<x, y>>)
        BY <1>2, <2>2, <3>1, <3>3, <3>5, BeginMoves
      <3>6. CASE Begin(t, <<a, x, y>>)
        BY <1>2, <2>2, <3>1, <3>3, <3>6, BeginMoves
      <3> QED
        BY <2>4, <3>4, <3>5, <3>6 DEF x, y
    <2>5. CASE CallAgain(t, c, s)
      <3>1. Begin(t, ack \o <<Send(c, "INVITE", 0)>>)
        BY <2>5 DEF CallAgain
      <3> QED
        BY <2>1, <2>2, <2>3, <3>1, TaskFields
    <2>6. CASE ReportResponse(t, c, s)
      <3>1. Begin(t, ack \o Report(dialog[c], c, s))
        BY <2>6 DEF ReportResponse
      <3>2. \/ \E n \in {"EventCallRing", "EventReInviteResponse", "EventCallStart"} :
                 Report(dialog[c], c, s) = <<Event(c, n, s)>>
            \/ Report(dialog[c], c, s) = <<Event(c, "EventCallEnd", s), Lock(c, "Delete")>>
        BY DEF Report
      <3>3. ASSUME NEW n \in {"EventCallRing", "EventReInviteResponse", "EventCallStart"},
                   Report(dialog[c], c, s) = <<Event(c, n, s)>>
            PROVE  \E w \in Seq(Task) : Moved(t, w)
        <4>1. n \in Events
          BY DEF Events
        <4>2. Begin(t, ack \o <<Event(c, n, s)>>)
          BY <3>1, <3>3
        <4>3. LastOne(Event(c, n, s))
          BY TaskFields DEF LastOne, Rings
        <4> QED
          BY <2>1, <2>3, <4>1, <4>2, <4>3, TaskFields
      <3> QED
        BY <2>4, <3>1, <3>2, <3>3
    <2> QED
      BY <1>2, <2>5, <2>6 DEF SetInviteResponse
  <1> QED
    BY <1>1, <1>2

\* A locked section is the last task of its thread.
LEMMA SectionAlone ==
  ASSUME TypeOK, Tidy, NEW t \in Thread, NEW n, AtStep(t, "lock", n)
  PROVE  /\ todo[t] = <<Lock(ThisCall(t), n)>> /\ ThisCall(t) \in Call /\ n \in Sections
         /\ Lock(ThisCall(t), n) \in AllTasks
         /\ n # "Delete" => t \in Receiver
         /\ \A more \in Seq(Task) : Continue(t, more) => todo' = [todo EXCEPT ![t] = more]
  <1>1. todo[t] \in Seq(Task) /\ todo[t] # <<>>
    BY DEF TypeOK, AtStep
  <1>2. ThisCall(t) \in Call /\ Head(todo[t]) \in Task /\ Head(todo[t]) \in Tasks(todo[t])
    BY <1>1, HeadTask, TailTasks
  <1>3. Head(todo[t]) = Lock(ThisCall(t), n) /\ n \in Sections
    BY <1>2 DEF AtStep, Lock, Step, Task, ThisCall
  <1>4. Len(todo[t]) \in Nat \ {0} /\ Head(todo[t]) = todo[t][1] /\ 1 \in DOMAIN todo[t]
    BY <1>1
  <1>5. Len(todo[t]) = 1
    BY <1>4 DEF Tidy, InOrder, AtStep
  <1>6. todo[t] = <<Lock(ThisCall(t), n)>> /\ Tail(todo[t]) = <<>>
    BY <1>1, <1>3, <1>4, <1>5, OneElement
  <1>7. \A more \in Seq(Task) : <<>> \o more = more
    OBVIOUS
  <1>8. n # "Delete" => t \in Receiver
    BY <1>2 DEF Tidy, OwnTask, AtStep
  <1> QED
    BY <1>2, <1>3, <1>6, <1>7, <1>8 DEF Continue, AllTasks

LEMMA ProceedMoves ==
  ASSUME TypeOK, Tidy, NEW t \in Thread, Proceed(t)
  PROVE  \E s \in Seq(Task) : Moved(t, s)
  <1> DEFINE c == ThisCall(t)
  <1>1. CASE SendSipMessage(t) \/ CallBack(t)
    <2>1. todo[t] # <<>> /\ Continue(t, <<>>) /\ todo[t] \in Seq(Task)
      BY <1>1 DEF SendSipMessage, CallBack, TypeOK
    <2>2. Tail(todo[t]) \in Seq(Task)
      BY <2>1, TailTasks
    <2>3. Tail(todo[t]) \o <<>> = Tail(todo[t])
      BY <2>2, ConcatEmptySeq
    <2> QED
      BY <1>1, <2>1, <2>2, <2>3 DEF Continue, Moved
  <1>2. CASE Delete(t)
    <2>1. todo[t] = <<Lock(c, "Delete")>> /\ c \in Call /\ todo' = [todo EXCEPT ![t] = <<>>]
      BY <1>2, SectionAlone, TupleTasks DEF Delete
    <2> QED
      BY <1>2, <2>1, TupleTasks DEF Moved, Deleted
  <1>3. ASSUME NEW n \in Sections \ {"Delete"}, AtStep(t, "lock", n), NEW s \in Seq(Task), Continue(t, s),
               InOrder(s),
               \A x \in Tasks(s) : x.call = c /\
                 (Known(c) \/ (x.do = "event" /\ n = "InsertDialog" /\ \A m \in told' : m.call # c))
        PROVE  \E w \in Seq(Task) : Moved(t, w)
    <2>1. /\ todo[t] = <<Lock(c, n)>> /\ c \in Call /\ Lock(c, n) \in AllTasks /\ t \in Receiver
          /\ todo' = [todo EXCEPT ![t] = s]
      BY <1>3, SectionAlone
    <2>2. \A x \in Tasks(s) : OwnTask(t, x) /\ Seen(x.call) /\
            (x.do = "event" => Known(x.call) \/ \A m \in told' : m.call # x.call)
      BY <1>3, <2>1 DEF OwnTask, Seen
    <2> QED
      BY <1>3, <2>1, <2>2 DEF Moved, NewWork, Free
  <1>11. ASSUME NEW n \in Sections \ {"Delete"}, AtStep(t, "lock", n), NEW s \in Seq(Task),
                Continue(t, s), InOrder(s), Known(c), \A x \in Tasks(s) : x.call = c
         PROVE  \E w \in Seq(Task) : Moved(t, w)
    <2>1. /\ todo[t] = <<Lock(c, n)>> /\ c \in Call /\ t \in Receiver
          /\ todo' = [todo EXCEPT ![t] = s]
      BY <1>11, SectionAlone
    <2>2. \A x \in Tasks(s) : OwnTask(t, x) /\ Seen(x.call) /\ Known(x.call)
      BY <1>11, <2>1 DEF OwnTask, Seen
    <2> QED
      BY <1>11, <2>1, <2>2 DEF Moved, NewWork, Free
  <1>4. ASSUME NEW n \in Sections \ {"Delete"}, AtStep(t, "lock", n), Continue(t, <<>>)
        PROVE  \E w \in Seq(Task) : Moved(t, w)
    BY <1>3, <1>4, TupleTasks, InOrderTuples
  <1>5. {"InsertDialog", "AnswerReInvite", "CancelInvite", "SetCallEnd"} \subseteq Sections \ {"Delete"}
    BY DEF Sections
  <1>6. ASSUME NEW n, AtStep(t, "lock", n)
        PROVE  /\ c \in Call /\ Lock(c, "Delete") \in Task
               /\ \A s \in {SIP_OK, SIP_REQUEST_TERMINATED} :
                    Send(c, "INVITE", s) \in Task /\ Event(c, "EventCallEnd", s) \in Task
               /\ Event(c, "EventIncomingCall", 0) \in Task
    <2>1. c \in Call
      BY <1>6, SectionAlone
    <2>2. /\ "INVITE" \in Methods /\ "Delete" \in Sections
          /\ "EventCallEnd" \in Events /\ "EventIncomingCall" \in Events
      BY DEF Methods, Sections, Events
    <2>3. 0 \in 0 .. 699 /\ \A s \in {SIP_OK, SIP_REQUEST_TERMINATED} : s \in 0 .. 699
      BY DEF SIP_OK, SIP_REQUEST_TERMINATED
    <2> QED
      BY <2>1, <2>2, <2>3, TaskTypes
  <1>7. CASE InsertDialog(t)
    <2>1. CASE Known(c)
      BY <1>4, <1>5, <1>7, <2>1 DEF InsertDialog
    <2>2. CASE ~ Known(c)
      <3> DEFINE x == Event(c, "EventIncomingCall", 0)
      <3>1. AtStep(t, "lock", "InsertDialog") /\ Continue(t, <<x>>) /\ \A m \in told' : m.call # c
        BY <1>7, <2>2 DEF InsertDialog
      <3>2. InOrder(<<x>>) /\ x.call = c /\ x.do = "event"
        BY TaskFields, InOrderTuples DEF LastOne, Rings
      <3>3. x \in Task
        BY <1>6, <3>1
      <3> HIDE DEF x
      <3>4. <<x>> \in Seq(Task) /\ Tasks(<<x>>) = {x}
        BY <3>3, TupleTasks
      <3> QED
        BY <1>3, <1>5, <3>1, <3>2, <3>4
    <2> QED
      BY <2>1, <2>2
  <1>8. CASE AnswerReInvite(t)
    <2>1. CASE ~ Known(c)
      BY <1>4, <1>5, <1>8, <2>1 DEF AnswerReInvite
    <2>2. CASE Known(c)
      <3> DEFINE x == Send(c, "INVITE", SIP_OK)
      <3>1. AtStep(t, "lock", "AnswerReInvite") /\ Continue(t, <<x>>)
        BY <1>8, <2>2 DEF AnswerReInvite
      <3>2. InOrder(<<x>>) /\ x.call = c
        BY TaskFields, InOrderTuples DEF LastOne, Rings, SIP_OK, SIP_RINGING
      <3>3. x \in Task
        BY <1>6, <3>1
      <3> HIDE DEF x
      <3>4. <<x>> \in Seq(Task) /\ Tasks(<<x>>) = {x}
        BY <3>3, TupleTasks
      <3>5. "AnswerReInvite" \in Sections \ {"Delete"} /\ Known(c) /\ \A q \in Tasks(<<x>>) : q.call = c
        BY <1>5, <2>2, <3>1, <3>2, <3>4
      <3> QED
        BY <1>11, <3>1, <3>2, <3>4, <3>5
    <2> QED
      BY <2>1, <2>2
  <1>9. CASE CancelInvite(t)
    <2>1. CASE ~ CanCancel(c)
      BY <1>4, <1>5, <1>9, <2>1 DEF CancelInvite
    <2>2. CASE CanCancel(c)
      <3> DEFINE x == Send(c, "INVITE", SIP_REQUEST_TERMINATED)
                 y == Event(c, "EventCallEnd", SIP_REQUEST_TERMINATED)
                 z == Lock(c, "Delete")
      <3>1. AtStep(t, "lock", "CancelInvite") /\ Continue(t, <<x, y, z>>) /\ Known(c)
        BY <1>9, <2>2 DEF CancelInvite, CanCancel
      <3>2. InOrder(<<x, y, z>>) /\ x.call = c /\ y.call = c /\ z.call = c
        BY TaskFields, InOrderTuples DEF Early, Rings, Invites, SIP_REQUEST_TERMINATED, SIP_RINGING
      <3>3. x \in Task /\ y \in Task /\ z \in Task
        BY <1>6, <3>1
      <3> HIDE DEF x, y, z
      <3>4. <<x, y, z>> \in Seq(Task) /\ Tasks(<<x, y, z>>) = {x, y, z}
        BY <3>3, TupleTasks
      <3>5. "CancelInvite" \in Sections \ {"Delete"} /\ Known(c) /\ \A q \in Tasks(<<x, y, z>>) : q.call = c
        BY <1>5, <3>1, <3>2, <3>4
      <3> QED
        BY <1>11, <3>1, <3>2, <3>4, <3>5
    <2> QED
      BY <2>1, <2>2
  <1>10. CASE SetCallEnd(t)
    <2>1. CASE ~ Known(c)
      BY <1>4, <1>5, <1>10, <2>1 DEF SetCallEnd
    <2>2. CASE Known(c)
      <3> DEFINE y == Event(c, "EventCallEnd", SIP_OK)
                 z == Lock(c, "Delete")
      <3>1. AtStep(t, "lock", "SetCallEnd") /\ Continue(t, <<y, z>>)
        BY <1>10, <2>2 DEF SetCallEnd
      <3>2. InOrder(<<y, z>>) /\ y.call = c /\ z.call = c
        BY TaskFields, InOrderTuples
      <3>3. y \in Task /\ z \in Task
        BY <1>6, <3>1
      <3> HIDE DEF y, z
      <3>4. <<y, z>> \in Seq(Task) /\ Tasks(<<y, z>>) = {y, z}
        BY <3>3, TupleTasks
      <3>5. "SetCallEnd" \in Sections \ {"Delete"} /\ Known(c) /\ \A q \in Tasks(<<y, z>>) : q.call = c
        BY <1>5, <2>2, <3>1, <3>2, <3>4
      <3> QED
        BY <1>11, <3>1, <3>2, <3>4, <3>5
    <2> QED
      BY <2>1, <2>2
  <1> QED
    BY <1>1, <1>2, <1>7, <1>8, <1>9, <1>10 DEF Proceed

\* Every step leaves the threads alone or moves one of them.
LEMMA Moves ==
  ASSUME TypeOK, Tidy, [Next]_vars
  PROVE  todo' = todo \/ \E t \in Thread, s \in Seq(Task) : Moved(t, s)
  <1>1. CASE UNCHANGED vars
    BY <1>1 DEF vars
  <1>2. ASSUME NEW t \in App, NEW c \in Call, Application(t, c)
        PROVE  \E u \in Thread, s \in Seq(Task) : Moved(u, s)
    BY <1>2, ApplicationMoves, Threads
  <1>3. ASSUME NEW t \in Receiver, NEW c \in Call, Handle(t, c)
        PROVE  \E u \in Thread, s \in Seq(Task) : Moved(u, s)
    <2>1. ASSUME NEW s \in Status, RecvInviteResponse(t, c, s)
          PROVE  \E w \in Seq(Task) : Moved(t, w)
      BY <2>1, ResponseMoves, Statuses, Threads DEF RecvInviteResponse
    <2> QED
      BY <1>3, <2>1, RequestMoves, Threads DEF Handle
  <1>4. ASSUME NEW t \in Thread, Proceed(t) PROVE \E s \in Seq(Task) : Moved(t, s)
    BY <1>4, ProceedMoves
  <1>5. ASSUME NEW c \in Call, InviteTimeout(c) PROVE \E s \in Seq(Task) : Moved(Stack, s)
    BY <1>5, ResponseMoves, Statuses, Threads DEF InviteTimeout
  <1>6. ASSUME NEW c \in Call, SendTimeout(c) PROVE \E s \in Seq(Task) : Moved(Stack, s)
    BY <1>6, IdleMoves, Threads DEF SendTimeout
  <1>7. ASSUME NEW c \in Call, Peer(c) PROVE todo' = todo
    BY <1>7 DEF Peer, PeerInvites, PeerReInvites, PeerHangsUp, PeerCancels, PeerSends, PeerResponds
  <1> QED
    BY <1>1, <1>2, <1>3, <1>4, <1>5, <1>6, <1>7, Threads DEF Next

LEMMA TidyStep == TypeOK /\ Tidy /\ [Next]_vars => Tidy'
  <1> SUFFICES ASSUME TypeOK, Tidy, [Next]_vars PROVE Tidy'
    OBVIOUS
  <1>1. CASE todo' = todo
    BY <1>1 DEF Tidy
  <1>2. ASSUME NEW t \in Thread, NEW s \in Seq(Task), Moved(t, s) PROVE Tidy'
    <2>1. todo' = [todo EXCEPT ![t] = s] /\ todo \in [Thread -> Seq(Task)]
      BY <1>2 DEF Moved, TypeOK
    <2>2. InOrder(s) /\ \A x \in Tasks(s) : OwnTask(t, x)
      <3>1. CASE NewWork(t, s)
        BY <3>1 DEF NewWork
      <3>2. CASE todo[t] # <<>> /\ s = Tail(todo[t])
        BY <2>1, <3>2, InOrderTail, TailTasks DEF Tidy
      <3>3. CASE s = <<>>
        BY <3>3, TupleTasks, InOrderTuples
      <3> QED
        BY <1>2, <3>1, <3>2, <3>3 DEF Moved
    <2>3. todo'[t] = s /\ \A u \in Thread \ {t} : todo'[u] = todo[u]
      BY <2>1
    <2> QED
      BY <2>2, <2>3 DEF Tidy
  <1> QED
    BY <1>1, <1>2, Moves
-----------------------------------------------------------------------------
\* The messages, the callbacks and what the peer did change in the tasks of a thread and in
\* the steps of the peers; apart from them messages and pending INVITEs only go away.
Steady ==
  /\ inbox' \subseteq inbox /\ pending' \subseteq pending
  /\ UNCHANGED <<sent, peer, told, late>>

LEMMA StepKinds ==
  ASSUME [Next]_vars
  PROVE  Steady \/ (\E t \in Thread : Proceed(t)) \/ (\E c \in Call : Peer(c))
  <1>1. CASE UNCHANGED vars
    BY <1>1 DEF vars, Steady
  <1>2. ASSUME NEW t \in App, NEW c \in Call, Application(t, c) PROVE Steady
    BY <1>2 DEF Application, StartCall, StopCall, ForwardCall, RingCall, AcceptCall, HoldCall,
       history, Steady
  <1>3. ASSUME NEW t \in Receiver, NEW c \in Call, Handle(t, c) PROVE Steady
    BY <1>3, Received DEF Handle, RecvInviteRequest, RecvCancelRequest, RecvByeRequest,
       RecvInviteResponse, history, Steady
  <1>4. ASSUME NEW c \in Call, InviteTimeout(c) \/ SendTimeout(c) PROVE Steady
    BY <1>4 DEF InviteTimeout, SendTimeout, history, Steady
  <1> QED
    BY <1>1, <1>2, <1>3, <1>4 DEF Next

LEMMA ProceedKinds ==
  ASSUME TypeOK, NEW t \in Thread, Proceed(t)
  PROVE  /\ UNCHANGED <<inbox, invites, peer>>
         /\ todo[t] # <<>> /\ Head(todo[t]) \in Task /\ Head(todo[t]) \in Tasks(todo[t])
         /\ Head(todo[t]) \in AllTasks
         /\ ~ SendSipMessage(t) => UNCHANGED <<sent, pending>>
         /\ ~ CallBack(t) => told' \subseteq told /\ late' \subseteq late
  <1>1. todo[t] # <<>> /\ todo[t] \in Seq(Task)
    BY DEF Proceed, SendSipMessage, CallBack, InsertDialog, AnswerReInvite, CancelInvite,
       SetCallEnd, Delete, AtStep, TypeOK
  <1>2. UNCHANGED <<inbox, invites, peer>>
    BY DEF Proceed, SendSipMessage, CallBack, InsertDialog, AnswerReInvite, CancelInvite,
       SetCallEnd, Delete
  <1>3. ~ SendSipMessage(t) => UNCHANGED <<sent, pending>>
    BY DEF Proceed, CallBack, InsertDialog, AnswerReInvite, CancelInvite, SetCallEnd, Delete
  <1>4. ~ CallBack(t) => told' \subseteq told /\ late' \subseteq late
    BY DEF Proceed, SendSipMessage, InsertDialog, AnswerReInvite, CancelInvite, SetCallEnd,
       Delete, history
  <1> QED
    BY <1>1, <1>2, <1>3, <1>4, TailTasks DEF AllTasks

LEMMA PeerKinds ==
  ASSUME NEW c \in Call, Peer(c)
  PROVE  UNCHANGED <<dialog, todo, sent, told, late>> /\ pending' \subseteq pending
  BY DEF Peer, PeerInvites, PeerReInvites, PeerHangsUp, PeerCancels, PeerSends, PeerResponds,
     history

\* Whatever there is of a call follows its first INVITE.
AfterInvite ==
  /\ \A x \in AllTasks : invites[x.call] >= 1
  /\ \A m \in inbox \cup sent \cup told : invites[m.call] >= 1
  /\ \A c \in pending \cup DOMAIN dialog : invites[c] >= 1
  /\ \A c \in Call : peer[c] # {} => invites[c] >= 1

LEMMA TasksAfterInvite ==
  ASSUME TypeOK, Tidy, AfterInvite, [Next]_vars, NEW x \in AllTasks'
  PROVE  invites'[x.call] >= 1
  <1>1. \A c \in Call : invites[c] \in Nat /\ invites'[c] \in Nat /\ invites'[c] >= invites[c]
    BY TypeStep, Types, TypesAfter, Monotone, UserAgentAssumption DEF RestOK
  <1>2. \A c \in Call : invites[c] >= 1 => invites'[c] >= 1
    BY <1>1
  <1>3. \A y \in AllTasks : y.call \in Call
    BY DEF TypeOK, AllTasks, Tasks, Task
  <1>4. x \in AllTasks => invites'[x.call] >= 1
    BY <1>2, <1>3 DEF AfterInvite
  <1>5. CASE todo' = todo
    BY <1>4, <1>5 DEF AllTasks
  <1>6. ASSUME NEW t \in Thread, NEW s \in Seq(Task), Moved(t, s) PROVE invites'[x.call] >= 1
    <2>1. todo' = [todo EXCEPT ![t] = s] /\ todo \in [Thread -> Seq(Task)]
      BY <1>6 DEF Moved, TypeOK
    <2>2. x \in AllTasks \/ x \in Tasks(s)
      BY <2>1 DEF AllTasks
    <2>3. CASE x \in Tasks(s) /\ NewWork(t, s)
      <3>1. Seen(x.call) /\ x.call \in Call
        BY <2>3 DEF NewWork, Tasks, Task
      <3>2. Known(x.call) \/ x.call \in pending => invites[x.call] >= 1
        BY DEF AfterInvite, Known
      <3>3. Lock(x.call, "InsertDialog") \in AllTasks => invites[x.call] >= 1
        BY TaskFields DEF AfterInvite
      <3>4. (\E m \in inbox : m.call = x.call) => invites[x.call] >= 1
        BY DEF AfterInvite
      <3> QED
        BY <1>2, <3>1, <3>2, <3>3, <3>4 DEF Seen
    <2>4. CASE todo[t] # <<>> /\ s = Tail(todo[t])
      <3>1. Tasks(s) \subseteq Tasks(todo[t])
        BY <2>1, <2>4, TailTasks
      <3>2. x \in AllTasks
        BY <2>2, <3>1 DEF AllTasks
      <3> QED
        BY <1>4, <3>2
    <2>5. CASE s = <<>>
      BY <1>4, <2>2, <2>5, TupleTasks
    <2> QED
      BY <1>4, <1>6, <2>2, <2>3, <2>4, <2>5 DEF Moved
  <1> QED
    BY <1>5, <1>6, Moves

LEMMA AfterInviteStep == TypeOK /\ Tidy /\ AfterInvite /\ [Next]_vars => AfterInvite'
  <1> SUFFICES ASSUME TypeOK, Tidy, AfterInvite, [Next]_vars PROVE AfterInvite'
    OBVIOUS
  <1> DEFINE Follows == /\ \A m \in inbox' \cup sent' \cup told' : invites'[m.call] >= 1
                        /\ \A c \in pending' : invites'[c] >= 1
                        /\ \A c \in Call : peer'[c] # {} => invites'[c] >= 1
  <1>1. \A c \in Call : invites[c] \in Nat /\ invites'[c] \in Nat /\ invites'[c] >= invites[c]
    BY TypeStep, Types, TypesAfter, Monotone, UserAgentAssumption DEF RestOK
  <1>2. \A c \in Call : invites[c] >= 1 => invites'[c] >= 1
    BY <1>1
  <1>3. RestOK /\ peer \in [Call -> SUBSET PeerAct]
    BY Types, Rest
  <1>4. /\ \A m \in inbox \cup sent \cup told : m.call \in Call /\ invites'[m.call] >= 1
        /\ \A c \in pending : c \in Call /\ invites'[c] >= 1
        /\ \A c \in Call : peer[c] # {} => invites'[c] >= 1
    <2>1. \A m \in inbox \cup sent \cup told : m.call \in Call
      BY <1>3 DEF RestOK
    <2> QED
      BY <1>2, <1>3, <2>1 DEF AfterInvite, RestOK
  <1>5. \A c, n, s : Message(c, n, s).call = c
    BY DEF Message
  <1>6. ASSUME NEW c \in DOMAIN dialog' PROVE invites'[c] >= 1
    <2>1. c \in Call
      BY TypeStep, TypesAfter DEF DialogsOK
    <2>2. Known(c) => invites[c] >= 1
      BY DEF AfterInvite, Known
    <2>3. Lock(c, "InsertDialog") \in AllTasks => invites[c] >= 1
      BY TaskFields DEF AfterInvite
    <2> QED
      BY <1>2, <1>6, <2>1, <2>2, <2>3, DialogOf DEF Started, Inserted, Known
  <1>7. Steady => Follows
    BY <1>4 DEF Steady
  <1>8. ASSUME NEW t \in Thread, Proceed(t) PROVE Follows
    <2> DEFINE x == Head(todo[t])
    <2>1. UNCHANGED <<inbox, invites, peer>> /\ x \in AllTasks /\ x \in Task
      BY <1>8, ProceedKinds
    <2>2. invites'[x.call] >= 1
      BY <2>1 DEF AfterInvite
    <2>3. \A m \in sent' : m \in sent \/ m.call = x.call
      BY <1>5, <1>8, ProceedKinds DEF SendSipMessage
    <2>4. \A m \in told' : m \in told \/ m.call = x.call
      BY <1>5, <1>8, ProceedKinds DEF CallBack
    <2>5. \A c \in pending' : c \in pending \/ c = x.call
      BY <1>8, ProceedKinds DEF SendSipMessage
    <2> HIDE DEF x
    <2>6. \A m \in inbox' \cup sent' \cup told' : invites'[m.call] >= 1
      BY <1>4, <2>1, <2>2, <2>3, <2>4
    <2>7. \A c \in pending' : invites'[c] >= 1
      BY <1>4, <2>2, <2>5
    <2>8. \A c \in Call : peer'[c] # {} => invites'[c] >= 1
      BY <1>4, <2>1
    <2> QED
      BY <2>6, <2>7, <2>8
  <1>9. ASSUME NEW b \in Call, Peer(b) PROVE Follows
    <2>1. UNCHANGED <<sent, told>> /\ pending' \subseteq pending
      BY <1>9, PeerKinds
    <2>2. invites'[b] >= 1
      <3>1. CASE PeerInvites(b) \/ PeerReInvites(b)
        BY <1>3, <3>1, InvitesType DEF PeerInvites, PeerReInvites
      <3>2. CASE PeerHangsUp(b)
        BY <1>4, <1>5, <3>2 DEF PeerHangsUp, Established
      <3>3. CASE PeerCancels(b)
        BY <1>4, <3>3 DEF PeerCancels
      <3>4. CASE \E s \in Status : PeerResponds(b, s)
        BY <1>4, <3>4 DEF PeerResponds
      <3> QED
        BY <1>9, <3>1, <3>2, <3>3, <3>4 DEF Peer
    <2>3. \A m \in inbox' : m \in inbox \/ m.call = b
      BY <1>5, <1>9 DEF Peer, PeerInvites, PeerReInvites, PeerHangsUp, PeerCancels, PeerSends,
         PeerResponds
    <2>4. \A c \in Call \ {b} : peer'[c] = peer[c]
      BY <1>3, <1>9 DEF Peer, PeerInvites, PeerReInvites, PeerHangsUp, PeerCancels, PeerSends,
         PeerResponds
    <2> QED
      BY <1>4, <2>1, <2>2, <2>3, <2>4
  <1>10. Follows
    BY <1>7, <1>8, <1>9, StepKinds
  <1>11. \A x \in AllTasks' : invites'[x.call] >= 1
    BY TasksAfterInvite
  <1>12. \A c \in pending' \cup DOMAIN dialog' : invites'[c] >= 1
    BY <1>6, <1>10
  <1>13. /\ \A m \in inbox' \cup sent' \cup told' : invites'[m.call] >= 1
         /\ \A c \in Call : peer'[c] # {} => invites'[c] >= 1
    BY <1>10
  <1> QED
    BY <1>11, <1>12, <1>13 DEF AfterInvite
-----------------------------------------------------------------------------
HeardEnd(c) == \E m \in told : m.call = c /\ m.name = "EventCallEnd"
HeardTimeout(c) == Message(c, "EventCallEnd", SIP_REQUEST_TIME_OUT) \in told

\* After EventCallEnd nothing but a 408 is left to tell the application of the call, and
\* the receiving thread that told it has only to delete the dialog.
QuietAfterEnd ==
  \A c \in Call : HeardEnd(c) /\ ~ HeardTimeout(c) =>
    /\ \A x \in AllTasks : x.do = "event" /\ x.call = c => x.status = SIP_REQUEST_TIME_OUT
    /\ Known(c) => \E t \in Receiver : todo[t] = <<Lock(c, "Delete")>>

\* A thread that has only to delete a dialog is not free.
LEMMA DeleteIsWork == \A t, c : todo[t] = <<Lock(c, "Delete")>> => ~ Free(t)
  <1>1. ASSUME NEW b, NEW c, NEW n, <<Lock(b, n)>> = <<Lock(c, "Delete")>>
        PROVE  n = "Delete"
    <2>1. Lock(b, n) = Lock(c, "Delete")
      BY <1>1
    <2> QED
      BY <2>1, TaskKinds
  <1> QED
    BY <1>1 DEF Free

\* A thread that has only to delete a dialog does nothing else before.
LEMMA DeletesNext ==
  ASSUME TypeOK, Tidy, [Next]_vars, NEW r \in Thread, NEW c \in Call, Known(c)',
         todo[r] = <<Lock(c, "Delete")>>
  PROVE  todo'[r] = <<Lock(c, "Delete")>>
         /\ \A t \in Thread, s \in Seq(Task) : Moved(t, s) => t # r
  <1>1. Head(todo[r]) = Lock(c, "Delete") /\ todo[r] # <<>>
    OBVIOUS
  <1>2. ~ SendSipMessage(r) /\ ~ CallBack(r)
    BY <1>1, TaskFields DEF SendSipMessage, CallBack
  <1>3. ~ Free(r)
    BY DeleteIsWork
  <1>4. ~ Delete(r)
    <2> SUFFICES ASSUME Delete(r) PROVE FALSE
      OBVIOUS
    <2>1. ThisCall(r) = c
      BY <1>1, TaskFields DEF ThisCall
    <2>2. Removed(c)
      BY <2>1, DialogChanges
    <2> QED
      BY <2>2 DEF Removed, Known
  <1>5. ASSUME NEW s \in Seq(Task), Moved(r, s) PROVE FALSE
    BY <1>2, <1>3, <1>4, <1>5 DEF Moved, NewWork, Deleted
  <1>6. \A t \in Thread, s \in Seq(Task) : Moved(t, s) => t # r
    BY <1>5
  <1>7. todo \in [Thread -> Seq(Task)]
    BY DEF TypeOK
  <1>8. \A t \in Thread, s \in Seq(Task) : Moved(t, s) => todo'[r] = todo[r]
    BY <1>6, <1>7 DEF Moved
  <1> QED
    BY <1>6, <1>8, Moves

\* What is told of a call stays told while its dialog is the same.
LEMMA HeardStays ==
  ASSUME TypeOK, [Next]_vars, NEW c \in Call, HeardEnd(c)', HeardTimeout(c)
  PROVE  HeardTimeout(c)'
  <1>1. ~ Inserted(c)
    BY DEF Inserted, HeardEnd
  <1>2. Message(c, "EventCallEnd", SIP_REQUEST_TIME_OUT).call = c
    BY DEF Message
  <1> QED
    BY <1>1, <1>2, ToldStays DEF HeardTimeout

\* The application hears the end from a receiving thread, which goes on to delete the dialog.
LEMMA EndHeard ==
  ASSUME TypeOK, Tidy, [Next]_vars, NEW c \in Call, ~ HeardEnd(c), HeardEnd(c)',
         ~ HeardTimeout(c)'
  PROVE  \E t \in Receiver : /\ todo'[t] = <<Lock(c, "Delete")>>
                             /\ \A u \in Thread \ {t} : todo'[u] = todo[u]
  <1>1. PICK m \in told' : m \notin told /\ m.call = c /\ m.name = "EventCallEnd"
    BY DEF HeardEnd
  <1>2. PICK t \in Thread : Proceed(t)
    BY <1>1, StepKinds, PeerKinds DEF Steady
  <1>3. CallBack(t) /\ todo[t] # <<>> /\ Head(todo[t]) \in Tasks(todo[t])
    BY <1>1, <1>2, ProceedKinds
  <1> DEFINE e == Head(todo[t])
  <1>4. /\ e.do = "event" /\ told' = told \cup {Message(e.call, e.name, e.status)}
        /\ Continue(t, <<>>)
    BY <1>3 DEF CallBack
  <1>5. m = Message(e.call, e.name, e.status)
    BY <1>1, <1>4
  <1>6. e.call = c /\ e.name = "EventCallEnd"
    BY <1>1, <1>5 DEF Message
  <1>7. e.status # SIP_REQUEST_TIME_OUT
    BY <1>4, <1>6 DEF HeardTimeout
  <1>8. t \in Receiver
    BY <1>3, <1>4, <1>7 DEF Tidy, OwnTask
  <1>9. todo[t] \in Seq(Task) /\ todo \in [Thread -> Seq(Task)]
    BY DEF TypeOK
  <1>10. /\ Len(todo[t]) \in Nat /\ 1 \in DOMAIN todo[t] /\ todo[t][1] = e
         /\ DOMAIN todo[t] = 1 .. Len(todo[t])
    BY <1>3, <1>9
  <1>11. 2 \in DOMAIN todo[t] /\ todo[t][2] = Lock(c, "Delete")
    <2>1. /\ todo[t][1].name = "EventCallEnd" =>
               1 + 1 \in DOMAIN todo[t] /\ todo[t][1 + 1] = Lock(todo[t][1].call, "Delete")
      BY <1>10 DEF Tidy, InOrder
    <2> QED
      BY <1>6, <1>10, <2>1
  <1>12. Len(todo[t]) = 2
    <2>1. todo[t][2].do = "lock" => 2 = Len(todo[t])
      BY <1>11 DEF Tidy, InOrder
    <2> QED
      BY <1>11, <2>1, TaskFields
  <1>13. Tail(todo[t]) = <<Lock(c, "Delete")>>
    <2>1. Tail(todo[t]) \in Seq(Task) /\ Len(Tail(todo[t])) = 1 /\ Tail(todo[t])[1] = todo[t][2]
      BY <1>9, <1>12
    <2> QED
      BY <1>11, <2>1, OneElement
  <1>14. todo'[t] = <<Lock(c, "Delete")>> /\ \A u \in Thread \ {t} : todo'[u] = todo[u]
    <2>1. todo' = [todo EXCEPT ![t] = Tail(todo[t]) \o <<>>]
      BY <1>4 DEF Continue
    <2>2. Tail(todo[t]) \o <<>> = Tail(todo[t])
      BY <1>3, <1>9, TailTasks, ConcatEmptySeq
    <2> QED
      BY <1>9, <1>13, <2>1, <2>2
  <1> QED
    BY <1>8, <1>14

LEMMA QuietStep ==
  ASSUME OneReceiver, TypeOK, Tidy, AfterInvite, QuietAfterEnd, [Next]_vars
  PROVE  QuietAfterEnd'
  <1> SUFFICES ASSUME NEW c \in Call, HeardEnd(c)', ~ HeardTimeout(c)'
               PROVE  /\ \A x \in AllTasks' : x.do = "event" /\ x.call = c =>
                           x.status = SIP_REQUEST_TIME_OUT
                      /\ Known(c)' => \E t \in Receiver : todo'[t] = <<Lock(c, "Delete")>>
    BY DEF QuietAfterEnd
  <1>1. ~ HeardTimeout(c) /\ ~ Inserted(c)
    BY HeardStays DEF Inserted, HeardEnd
  <1>2. \A x : x \in AllTasks' <=> \E u \in Thread : x \in Tasks(todo'[u])
    BY DEF AllTasks
  <1>3. CASE HeardEnd(c)
    <2>1. /\ \A x \in AllTasks : x.do = "event" /\ x.call = c => x.status = SIP_REQUEST_TIME_OUT
          /\ Known(c) => \E t \in Receiver : todo[t] = <<Lock(c, "Delete")>>
      BY <1>1, <1>3 DEF QuietAfterEnd
    <2>2. Known(c)' => Known(c)
      <3> SUFFICES ASSUME Known(c)', ~ Known(c) PROVE FALSE
        OBVIOUS
      <3>1. Started(c)
        BY <1>1, DialogOf
      <3>2. invites[c] >= 1
        BY <1>3 DEF AfterInvite, HeardEnd
      <3> QED
        BY <3>1, <3>2 DEF Started
    <2>3. ASSUME Known(c)'
          PROVE  \E t \in Receiver : todo'[t] = <<Lock(c, "Delete")>>
      <3>1. PICK t \in Receiver : todo[t] = <<Lock(c, "Delete")>>
        BY <2>1, <2>2, <2>3
      <3> QED
        BY <2>3, <3>1, DeletesNext, Threads
    <2>4. ASSUME NEW x \in AllTasks', x.do = "event", x.call = c
          PROVE  x.status = SIP_REQUEST_TIME_OUT
      <3>1. CASE todo' = todo
        BY <2>1, <2>4, <3>1 DEF AllTasks
      <3>2. ASSUME NEW t \in Thread, NEW s \in Seq(Task), Moved(t, s)
            PROVE  x.status = SIP_REQUEST_TIME_OUT
        <4>1. todo' = [todo EXCEPT ![t] = s] /\ todo \in [Thread -> Seq(Task)]
          BY <3>2 DEF Moved, TypeOK
        <4>2. x \in AllTasks \/ x \in Tasks(s)
          BY <1>2, <4>1 DEF AllTasks
        <4>3. CASE x \in Tasks(s) /\ NewWork(t, s)
          <5>1. OwnTask(t, x) /\ (Known(c) \/ \A m \in told' : m.call # c)
            BY <2>4, <4>3 DEF NewWork
          <5>2. Known(c)
            BY <5>1 DEF HeardEnd
          <5>3. PICK r \in Receiver : todo[r] = <<Lock(c, "Delete")>>
            BY <2>1, <5>2
          <5>4. t # r
            BY <4>3, <5>3, DeleteIsWork DEF NewWork
          <5>5. t \notin Receiver
            BY <5>3, <5>4 DEF OneReceiver
          <5> QED
            BY <2>4, <5>1, <5>5 DEF OwnTask
        <4>4. CASE todo[t] # <<>> /\ s = Tail(todo[t])
          <5>1. Tasks(s) \subseteq Tasks(todo[t])
            BY <4>1, <4>4, TailTasks
          <5>2. x \in AllTasks
            BY <4>2, <5>1 DEF AllTasks
          <5> QED
            BY <2>1, <2>4, <5>2
        <4>5. CASE s = <<>>
          BY <2>1, <2>4, <4>2, <4>5, TupleTasks
        <4> QED
          BY <2>1, <2>4, <3>2, <4>2, <4>3, <4>4, <4>5 DEF Moved
      <3> QED
        BY <3>1, <3>2, Moves
    <2> QED
      BY <2>3, <2>4
  <1>4. CASE ~ HeardEnd(c)
    <2>1. PICK t \in Receiver : /\ todo'[t] = <<Lock(c, "Delete")>>
                                /\ \A u \in Thread \ {t} : todo'[u] = todo[u]
      BY <1>4, EndHeard
    <2>2. ASSUME NEW x \in AllTasks', x.do = "event" PROVE x.status = SIP_REQUEST_TIME_OUT
      <3>1. PICK u \in Thread : x \in Tasks(todo'[u])
        BY <1>2
      <3>2. Tasks(<<Lock(c, "Delete")>>) = {Lock(c, "Delete")}
        BY TupleTasks, TaskTypes DEF Sections
      <3>3. u # t
        BY <2>1, <2>2, <3>1, <3>2, TaskFields
      <3>4. OwnTask(u, x) /\ u \notin Receiver
        BY <2>1, <3>1, <3>3 DEF Tidy, OneReceiver
      <3> QED
        BY <2>2, <3>4 DEF OwnTask
    <2> QED
      BY <2>1, <2>2
  <1> QED
    BY <1>3, <1>4

LEMMA NothingStep ==
  ASSUME TypeOK, QuietAfterEnd, NothingAfterEnd, [Next]_vars
  PROVE  NothingAfterEnd'
  <1> SUFFICES ASSUME NEW m \in late', m.status # SIP_REQUEST_TIME_OUT
               PROVE  HeardTimeout(m.call)'
    BY DEF NothingAfterEnd, HeardTimeout
  <1>1. m.call \in Call /\ ~ Inserted(m.call)
    <2>1. m.call \in Call
      BY TypeStep, TypesAfter DEF RestOK
    <2>2. ~ Inserted(m.call)
      BY DEF Inserted
    <2> QED
      BY <2>1, <2>2
  <1>2. CASE HeardTimeout(m.call)
    <2>1. Message(m.call, "EventCallEnd", SIP_REQUEST_TIME_OUT).call = m.call
      BY DEF Message
    <2> QED
      BY <1>1, <1>2, <2>1, ToldStays DEF HeardTimeout
  <1>3. CASE m \in late
    BY <1>2, <1>3 DEF NothingAfterEnd, HeardTimeout
  <1>4. CASE m \notin late /\ ~ HeardTimeout(m.call)
    <2>1. PICK t \in Thread : Proceed(t)
      BY <1>4, StepKinds, PeerKinds DEF Steady
    <2>2. CallBack(t) /\ Head(todo[t]) \in AllTasks
      BY <1>4, <2>1, ProceedKinds
    <2> DEFINE e == Head(todo[t])
    <2>3. e.do = "event" /\ HeardEnd(e.call) /\ m = Message(e.call, e.name, e.status)
      BY <1>4, <2>2 DEF CallBack, HeardEnd
    <2>4. e.call = m.call /\ e.status = m.status
      BY <2>3 DEF Message
    <2> QED
      BY <1>1, <1>4, <2>2, <2>3, <2>4 DEF QuietAfterEnd
  <1> QED
    BY <1>2, <1>3, <1>4

HandlersInv == TypeOK /\ Tidy /\ AfterInvite

LEMMA HandlersInvInit == Init => HandlersInv
  <1> SUFFICES ASSUME Init PROVE Tidy /\ AfterInvite
    BY TypeInit DEF HandlersInv
  <1>1. \A t \in Thread : todo[t] = <<>>
    BY DEF Init
  <1>2. AllTasks = {}
    BY <1>1, TupleTasks DEF AllTasks
  <1>3. Tidy
    BY <1>1, TupleTasks, InOrderTuples DEF Tidy
  <1>4. AfterInvite
    BY <1>2 DEF Init, AfterInvite
  <1> QED
    BY <1>3, <1>4

LEMMA HandlersInvStep == HandlersInv /\ [Next]_vars => HandlersInv'
  BY TypeStep, TidyStep, AfterInviteStep DEF HandlersInv

\* With one receiving thread no callback about a call follows its EventCallEnd, but for a 408
\* of the stack thread and after it: whatever the threads of the application do meanwhile.
THEOREM EndIsLast ==
  ASSUME OneReceiver
  PROVE  Spec => []NothingAfterEnd
  <1>1. Init => HandlersInv /\ QuietAfterEnd /\ NothingAfterEnd
    <2>1. Init => QuietAfterEnd /\ NothingAfterEnd
      BY DEF Init, QuietAfterEnd, HeardEnd, NothingAfterEnd
    <2> QED
      BY <2>1, HandlersInvInit
  <1>2. HandlersInv /\ QuietAfterEnd /\ NothingAfterEnd /\ [Next]_vars =>
          HandlersInv' /\ QuietAfterEnd' /\ NothingAfterEnd'
    BY HandlersInvStep, QuietStep, NothingStep DEF HandlersInv
  <1> QED
    BY <1>1, <1>2, PTL DEF Spec
-----------------------------------------------------------------------------
\* The INVITE of the peer has a final response, or will have.
Answered(c) ==
  \E s \in {SIP_OK, SIP_MOVED_TEMPORARILY, SIP_REQUEST_TERMINATED,
            SIP_NOT_ACCEPTABLE_HERE, SIP_DECLINE} : Made(c, "INVITE", s)

\* Tasks that belong to a call that has been answered, or that the application made.
Later(c) == {Send(c, "INVITE", 0), Lock(c, "SetCallEnd"), Lock(c, "Delete")}

\* Nothing is asked of the peer of a received call, nothing but an INVITE or a CANCEL has come
\* from it, and nothing deletes its dialog.
Waits(c) ==
  /\ c \notin pending
  /\ Later(c) \cap AllTasks = {}
  /\ \A m \in inbox : m.call = c => m.status = 0 /\ m.name # "BYE"
  /\ "answered" \notin peer[c]
  /\ Known(c) => dialog[c].invite /\ ~ dialog[c].start

\* A received call is in that state until its INVITE is answered.
WaitsForAnswer == \A c \in Call : Incoming(c) /\ ~ Answered(c) => Waits(c)

\* It goes on as before.
GoesOn(c) == Waits(c)' /\ (Known(c) => Known(c)')

LEMMA Answers ==
  \A c \in Call :
    /\ Answered(c) <=>
         \E s \in {SIP_OK, SIP_MOVED_TEMPORARILY, SIP_REQUEST_TERMINATED,
                   SIP_NOT_ACCEPTABLE_HERE, SIP_DECLINE} :
           Message(c, "INVITE", s) \in sent \/ Send(c, "INVITE", s) \in AllTasks
    /\ \A s \in {SIP_OK, SIP_MOVED_TEMPORARILY, SIP_REQUEST_TERMINATED,
                 SIP_NOT_ACCEPTABLE_HERE, SIP_DECLINE} :
         Send(c, "INVITE", s) \in AllTasks' => Answered(c)'
  <1>1. \A x : Queued(x)' <=> x \in AllTasks'
    BY DEF Queued, AllTasks, Tasks
  <1> QED
    BY <1>1, QueuedTasks DEF Answered, Made

\* The tasks of other calls, and the other tasks of the call.
LEMMA NotLater ==
  ASSUME NEW b, NEW c
  PROVE  /\ \A n, s : Event(b, n, s) \notin Later(c)
         /\ \A n, s : n # "INVITE" \/ s # 0 \/ b # c => Send(b, n, s) \notin Later(c)
         /\ \A n : n \notin {"SetCallEnd", "Delete"} \/ b # c => Lock(b, n) \notin Later(c)
  BY TaskKinds DEF Later

\* A step that leaves the dialog of the call as it is.
LEMMA Unmoved ==
  ASSUME NEW c \in Call, Waits(c),
         \A x \in AllTasks' \ AllTasks : x \notin Later(c),
         c \notin pending',
         inbox' \subseteq inbox, peer'[c] = peer[c],
         \/ dialog' = dialog
         \/ \E b \in Call \ {c} : Removed(b) \/ \E d : Changed(b, d)
         \/ ~ Known(c) /\ Changed(c, NewDialog(TRUE))
  PROVE  GoesOn(c)
  <1>1. Later(c)' = Later(c)
    BY DEF Later, Send, Lock, Step
  <1>2. Later(c)' \cap AllTasks' = {}
    BY <1>1 DEF Waits
  <1>3. (Known(c) => Known(c)') /\ (Known(c)' => dialog'[c].invite /\ ~ dialog'[c].start)
    <2>1. Known(c) => dialog[c].invite /\ ~ dialog[c].start
      BY DEF Waits
    <2>2. CASE dialog' = dialog
      BY <2>1, <2>2 DEF Known
    <2>3. ASSUME NEW b \in Call \ {c}, Removed(b)
          PROVE  (Known(c)' <=> Known(c)) /\ (Known(c)' => dialog'[c] = dialog[c])
      BY <2>3 DEF Known, Removed
    <2>4. ASSUME NEW b \in Call \ {c}, NEW d, Changed(b, d)
          PROVE  (Known(c)' <=> Known(c)) /\ (Known(c)' => dialog'[c] = dialog[c])
      BY <2>4 DEF Known, Changed
    <2>5. CASE ~ Known(c) /\ Changed(c, NewDialog(TRUE))
      <3>1. NewDialog(TRUE).invite /\ ~ NewDialog(TRUE).start
        BY DEF NewDialog
      <3> QED
        BY <2>5, <3>1 DEF Known, Changed
    <2> QED
      BY <2>1, <2>2, <2>3, <2>4, <2>5
  <1>4. c \notin pending' /\ "answered" \notin peer'[c]
    BY DEF Waits
  <1>5. \A m \in inbox' : m.call = c => m.status = 0 /\ m.name # "BYE"
    BY DEF Waits
  <1> QED
    BY <1>2, <1>3, <1>4, <1>5 DEF GoesOn, Waits

LEMMA ApplicationWaits ==
  ASSUME TypeOK, NEW t \in Thread, NEW b \in Call, Application(t, b),
         NEW c \in Call, Waits(c), invites[c] >= 1, ~ Answered(c)'
  PROVE  GoesOn(c)
  <1>1. UNCHANGED <<pending, inbox, peer>>
    BY DEF Application, StartCall, StopCall, ForwardCall, RingCall, AcceptCall, HoldCall
  <1>2. ASSUME NEW n, NEW s, Begun({Send(b, n, s)}), n # "INVITE" \/ s # 0 \/ b # c
        PROVE  \A x \in AllTasks' \ AllTasks : x \notin Later(c)
    <2>1. Send(b, n, s) \notin Later(c)
      BY <1>2, NotLater
    <2> QED
      BY <1>2, <2>1 DEF Begun
  <1>3. ASSUME NEW s \in {SIP_OK, SIP_MOVED_TEMPORARILY, SIP_DECLINE}, Begun({Send(b, "INVITE", s)})
        PROVE  b # c
    BY <1>3, Answers DEF Begun
  <1>4. c \notin pending'
    BY <1>1 DEF Waits
  <1>5. CASE StartCall(t, b)
    <2>1. b # c
      BY <1>5 DEF StartCall
    <2> QED
      BY <1>1, <1>2, <1>4, <1>5, <2>1, Beginnings, DialogChanges, Unmoved
  <1>6. CASE HoldCall(t, b)
    <2>1. b # c /\ dialog' = dialog
      BY <1>6 DEF HoldCall, Waits
    <2> QED
      BY <1>1, <1>2, <1>4, <1>6, <2>1, Beginnings, Unmoved
  <1>7. CASE StopCall(t, b)
    <2>1. CASE StopConnected(t, b)
      <3>1. b # c
        BY <1>7, <2>1 DEF StopCall, StopConnected, Waits
      <3> QED
        BY <1>1, <1>2, <1>4, <2>1, <3>1, Beginnings, DialogChanges, Unmoved
    <2>2. CASE StopIncoming(t, b)
      <3>1. b # c
        BY <1>3, <2>2, Beginnings
      <3> QED
        BY <1>1, <1>2, <1>4, <2>2, <3>1, Beginnings, DialogChanges, Unmoved
    <2>3. CASE StopOutgoing(t, b)
      <3>1. b # c
        BY <1>7, <2>3 DEF StopCall, StopOutgoing, Waits
      <3> QED
        BY <1>1, <1>2, <1>4, <1>7, <2>3, <3>1, Beginnings, DialogChanges, Unmoved DEF StopCall
    <2>4. CASE StopNothing(t, b)
      <3>1. AllTasks' = AllTasks /\ dialog' = dialog
        BY <2>4, Beginnings DEF StopNothing, Begun
      <3> QED
        BY <1>1, <1>4, <3>1, Unmoved
    <2> QED
      BY <1>7, <2>1, <2>2, <2>3, <2>4 DEF StopCall
  <1>8. CASE ForwardCall(t, b)
    <2>1. b # c
      BY <1>3, <1>8, Beginnings
    <2> QED
      BY <1>1, <1>2, <1>4, <1>8, <2>1, Beginnings, DialogChanges, Unmoved
  <1>9. CASE AcceptCall(t, b)
    <2>1. b # c
      BY <1>3, <1>9, Beginnings
    <2> QED
      BY <1>1, <1>2, <1>4, <1>9, <2>1, Beginnings, DialogChanges, Unmoved
  <1>10. CASE RingCall(t, b)
    <2>1. dialog' = dialog /\ SIP_SESSION_PROGRESS # 0
      BY <1>10 DEF RingCall, SIP_SESSION_PROGRESS
    <2> QED
      BY <1>1, <1>2, <1>4, <1>10, <2>1, Beginnings, Unmoved
  <1> QED
    BY <1>5, <1>6, <1>7, <1>8, <1>9, <1>10 DEF Application

LEMMA RequestWaits ==
  ASSUME TypeOK, NEW t \in Thread, NEW b \in Call,
         RecvInviteRequest(t, b) \/ RecvCancelRequest(t, b) \/ RecvByeRequest(t, b),
         NEW c \in Call, Waits(c)
  PROVE  GoesOn(c)
  <1>1. UNCHANGED <<pending, peer, dialog>> /\ inbox' \subseteq inbox
    BY Received DEF RecvInviteRequest, RecvCancelRequest, RecvByeRequest
  <1>2. RecvByeRequest(t, b) => b # c
    <2>1. Message(b, "BYE", 0).call = b /\ Message(b, "BYE", 0).name = "BYE"
      BY DEF Message
    <2> QED
      BY <2>1 DEF RecvByeRequest, Receive, Waits
  <1>3. \A x \in AllTasks' \ AllTasks :
          \/ x = Lock(b, "SetCallEnd") /\ b # c
          \/ \E n \in {"AnswerReInvite", "InsertDialog", "CancelInvite"} : x = Lock(b, n)
          \/ \E n, s : x = Event(b, n, s)
          \/ \E n, s : x = Send(b, n, s) /\ s # 0
    BY <1>2, Beginnings DEF Begun, SIP_NOT_ACCEPTABLE_HERE, SIP_RINGING, SIP_OK
  <1>4. \A x \in AllTasks' \ AllTasks : x \notin Later(c)
    BY <1>3, NotLater
  <1>5. c \notin pending'
    BY <1>1 DEF Waits
  <1> QED
    BY <1>1, <1>4, <1>5, Unmoved

\* Responses are about other calls.
LEMMA ResponseWaits ==
  ASSUME TypeOK, NEW t \in Thread, NEW b \in Call, NEW s \in 1 .. 699, Responds(t, b, s),
         NEW c \in Call, c # b, Waits(c), c \notin pending'
  PROVE  GoesOn(c)
  <1>1. inbox' \subseteq inbox /\ peer' = peer
    BY Received DEF Responds
  <1>2. \A x \in AllTasks' \ AllTasks :
          \/ x = Send(b, "ACK", 0) \/ x = Send(b, "INVITE", 0) \/ x = Lock(b, "Delete")
          \/ \E n : x = Event(b, n, s)
    BY RespondsTasks
  <1>3. \A x \in AllTasks' \ AllTasks : x \notin Later(c)
    BY <1>2, NotLater
  <1>4. dialog' = dialog \/ \E d : Changed(b, d)
    BY RespondsTasks
  <1> QED
    BY <1>1, <1>3, <1>4, Unmoved

LEMMA ProceedWaits ==
  ASSUME TypeOK, NEW t \in Thread, Proceed(t), NEW c \in Call, Waits(c), ~ Answered(c)'
  PROVE  GoesOn(c)
  <1> DEFINE x == Head(todo[t])
             b == ThisCall(t)
  <1>1. /\ UNCHANGED <<inbox, peer>> /\ todo[t] # <<>> /\ x \in Task /\ x \in AllTasks
        /\ ~ SendSipMessage(t) => UNCHANGED pending
    BY ProceedKinds
  <1>2. b \in Call
    BY <1>1, HeadTask
  <1>3. x \notin Later(c)
    BY <1>1 DEF Waits
  <1>4. \A n : AtStep(t, "lock", n) => x = Lock(b, n)
    BY <1>1 DEF AtStep, Lock, Step, Task, ThisCall
  <1>5. c \notin pending'
    <2>1. CASE SendSipMessage(t)
      <3> SUFFICES ASSUME c \in pending' PROVE FALSE
        OBVIOUS
      <3>1. x.do = "send" /\ x.name = "INVITE" /\ x.status = 0 /\ x.call = c
        BY <2>1 DEF SendSipMessage, Waits
      <3>2. x = Send(c, "INVITE", 0)
        BY <1>1, <3>1 DEF Send, Step, Task
      <3> QED
        BY <1>3, <3>2 DEF Later
    <2> QED
      BY <1>1, <2>1 DEF Waits
  <1>6. CASE SendSipMessage(t) \/ CallBack(t)
    <2>1. WentOn(t, {}) /\ dialog' = dialog
      BY <1>2, <1>6, Continuations DEF SendSipMessage, CallBack
    <2> QED
      BY <1>1, <1>5, <2>1, Unmoved DEF WentOn
  <1>7. CASE InsertDialog(t)
    <2>1. \A y \in AllTasks' \ AllTasks : \E n, s : y = Event(b, n, s)
      BY <1>2, <1>7, Continuations DEF WentOn
    <2>2. \A y \in AllTasks' \ AllTasks : y \notin Later(c)
      BY <2>1, NotLater
    <2>3. dialog' = dialog \/ (~ Known(b) /\ Changed(b, NewDialog(TRUE)))
      BY <1>2, <1>7, DialogChanges DEF InsertDialog
    <2> QED
      BY <1>1, <1>2, <1>5, <2>2, <2>3, Unmoved
  <1>8. CASE AnswerReInvite(t)
    <2>1. \A y \in AllTasks' \ AllTasks : y = Send(b, "INVITE", SIP_OK)
      BY <1>2, <1>8, Continuations DEF WentOn
    <2>2. \A y \in AllTasks' \ AllTasks : y \notin Later(c)
      BY <2>1, NotLater DEF SIP_OK
    <2>3. dialog' = dialog
      BY <1>8 DEF AnswerReInvite
    <2> QED
      BY <1>1, <1>5, <2>2, <2>3, Unmoved
  <1>9. CASE CancelInvite(t)
    <2>1. CASE ~ CanCancel(b)
      <3>1. WentOn(t, {}) /\ dialog' = dialog
        BY <1>2, <1>9, <2>1, Continuations DEF CancelInvite
      <3> QED
        BY <1>1, <1>5, <3>1, Unmoved DEF WentOn
    <2>2. CASE CanCancel(b)
      <3>1. WentOn(t, {Send(b, "INVITE", SIP_REQUEST_TERMINATED),
                       Event(b, "EventCallEnd", SIP_REQUEST_TERMINATED), Lock(b, "Delete")})
        BY <1>2, <1>9, <2>2, Continuations
      <3>2. b # c
        <4>1. Send(b, "INVITE", SIP_REQUEST_TERMINATED) \in AllTasks'
          BY <3>1 DEF WentOn
        <4> QED
          BY <1>2, <4>1, Answers
      <3>3. \A y \in AllTasks' \ AllTasks : y \notin Later(c)
        BY <3>1, <3>2, NotLater DEF WentOn
      <3>4. \E d : Changed(b, d)
        BY <1>2, <1>9, <2>2, DialogChanges
      <3> QED
        BY <1>1, <1>2, <1>5, <3>2, <3>3, <3>4, Unmoved
    <2> QED
      BY <2>1, <2>2
  <1>10. CASE SetCallEnd(t)
    <2>1. b # c
      BY <1>3, <1>4, <1>10 DEF SetCallEnd, Later
    <2>2. \A y \in AllTasks' \ AllTasks : (\E n, s : y = Event(b, n, s)) \/ y = Lock(b, "Delete")
      BY <1>2, <1>10, Continuations DEF WentOn
    <2>3. \A y \in AllTasks' \ AllTasks : y \notin Later(c)
      BY <2>1, <2>2, NotLater
    <2>4. dialog' = dialog \/ \E d : Changed(b, d)
      BY <1>2, <1>10, DialogChanges DEF SetCallEnd
    <2> QED
      BY <1>1, <1>2, <1>5, <2>1, <2>3, <2>4, Unmoved
  <1>11. CASE Delete(t)
    <2>1. b # c
      BY <1>3, <1>4, <1>11 DEF Delete, Later
    <2>2. WentOn(t, {}) /\ Removed(b)
      BY <1>2, <1>11, Continuations, DialogChanges
    <2> QED
      BY <1>1, <1>2, <1>5, <2>1, <2>2, Unmoved DEF WentOn
  <1> QED
    BY <1>6, <1>7, <1>8, <1>9, <1>10, <1>11 DEF Proceed

LEMMA PeerWaits ==
  ASSUME TypeOK, NEW b \in Call, Peer(b), NEW c \in Call, Waits(c), ~ Answered(c)
  PROVE  GoesOn(c)
  <1>1. UNCHANGED <<dialog, todo, sent>> /\ pending' \subseteq pending
    BY PeerKinds
  <1>2. AllTasks' = AllTasks /\ (Known(c) <=> Known(c)') /\ Later(c)' = Later(c)
    BY <1>1 DEF AllTasks, Known, Later, Send, Lock, Step
  <1>3. peer \in [Call -> SUBSET PeerAct]
    BY Types, Rest
  <1>4. ~ Established(c)
    BY Answers DEF Established, Waits
  <1>5. \A a, n, s : /\ Message(a, n, s).call = a /\ Message(a, n, s).name = n
                     /\ Message(a, n, s).status = s
    BY DEF Message
  <1>6. ASSUME NEW act, NEW method, PeerSends(b, act, method), act # "answered",
               b # c \/ method # "BYE"
        PROVE  /\ "answered" \notin peer'[c]
               /\ \A m \in inbox' : m.call = c => m.status = 0 /\ m.name # "BYE"
    <2>1. "answered" \notin peer'[c]
      BY <1>3, <1>6 DEF PeerSends, Waits
    <2>2. \A m \in inbox' : m \in inbox \/ m = Message(b, method, 0)
      BY <1>6 DEF PeerSends
    <2> QED
      BY <1>5, <1>6, <2>1, <2>2 DEF Waits
  <1>7. /\ "answered" \notin peer'[c]
        /\ \A m \in inbox' : m.call = c => m.status = 0 /\ m.name # "BYE"
    <2>1. CASE PeerInvites(b)
      BY <1>6, <2>1 DEF PeerInvites
    <2>2. CASE PeerReInvites(b)
      BY <1>6, <2>2 DEF PeerReInvites
    <2>3. CASE PeerHangsUp(b)
      BY <1>4, <1>6, <2>3 DEF PeerHangsUp
    <2>4. CASE PeerCancels(b)
      BY <1>6, <2>4 DEF PeerCancels
    <2>5. ASSUME NEW s \in Status, PeerResponds(b, s)
          PROVE  /\ "answered" \notin peer'[c]
                 /\ \A m \in inbox' : m.call = c => m.status = 0 /\ m.name # "BYE"
      <3>1. b # c
        BY <2>5 DEF PeerResponds, Waits
      <3>2. "answered" \notin peer'[c]
        BY <1>3, <2>5, <3>1 DEF PeerResponds, Waits
      <3>3. \A m \in inbox' : m \in inbox \/ m = Message(b, "INVITE", s)
        BY <2>5 DEF PeerResponds
      <3> QED
        BY <1>5, <3>1, <3>2, <3>3 DEF Waits
    <2> QED
      BY <2>1, <2>2, <2>3, <2>4, <2>5 DEF Peer
  <1> QED
    BY <1>1, <1>2, <1>7 DEF Waits, GoesOn

\* The first INVITE of the peer.
LEMMA IncomingStep ==
  ASSUME TypeOK, [Next]_vars, NEW c \in Call, Incoming(c)', ~ Incoming(c)
  PROVE  PeerInvites(c)
  <1>1. peer \in [Call -> SUBSET PeerAct]
    BY Types, Rest
  <1>2. peer' # peer
    BY DEF Incoming
  <1>3. PICK b \in Call : Peer(b)
    BY <1>2, StepKinds, ProceedKinds DEF Steady
  <1>4. \A act, method : PeerSends(b, act, method) => b = c /\ act = "INVITE"
    BY <1>1 DEF PeerSends, Incoming
  <1>5. \A s \in Status : ~ PeerResponds(b, s)
    BY <1>1 DEF PeerResponds, Incoming
  <1> QED
    BY <1>3, <1>4, <1>5 DEF Peer, PeerInvites, PeerReInvites, PeerHangsUp, PeerCancels

LEMMA WaitsBegins ==
  ASSUME TypeOK, AfterInvite, NEW c \in Call, PeerInvites(c)
  PROVE  Waits(c)'
  <1>1. invites[c] = 0 /\ PeerSends(c, "INVITE", "INVITE")
    BY DEF PeerInvites
  <1>2. ~ (invites[c] >= 1)
    BY <1>1
  <1>3. /\ c \notin pending /\ ~ Known(c) /\ peer[c] = {}
        /\ \A m \in inbox : m.call # c
        /\ \A x \in AllTasks : x.call # c
    BY <1>2 DEF AfterInvite, Known
  <1>4. UNCHANGED <<dialog, todo, pending>> /\ inbox' = inbox \cup {Message(c, "INVITE", 0)}
    BY <1>1 DEF PeerSends
  <1>5. peer'[c] = {"INVITE"}
    BY <1>1, <1>3, Types, Rest DEF PeerSends
  <1>6. Later(c)' \cap AllTasks' = {}
    <2>1. \A x \in Later(c) : x.call = c
      BY TaskFields DEF Later
    <2>2. AllTasks' = AllTasks /\ Later(c)' = Later(c)
      BY <1>4 DEF AllTasks, Later, Send, Lock, Step
    <2> QED
      BY <1>3, <2>1, <2>2
  <1>7. \A m \in inbox' : m.call = c => m.status = 0 /\ m.name # "BYE"
    BY <1>3, <1>4 DEF Message
  <1>8. c \notin pending' /\ ~ Known(c)' /\ "answered" \notin peer'[c]
    BY <1>3, <1>4, <1>5 DEF Known
  <1> QED
    BY <1>6, <1>7, <1>8 DEF Waits

LEMMA AnsweredStays ==
  ASSUME TypeOK, [Next]_vars, NEW c \in Call, Answered(c)
  PROVE  Answered(c)'
  BY MadeStays DEF Answered

\* Every step leaves a received call waiting, or answers it.
LEMMA WaitsStep ==
  ASSUME TypeOK, AfterInvite, [Next]_vars, NEW c \in Call, Waits(c), Incoming(c), ~ Answered(c)'
  PROVE  GoesOn(c)
  <1>1. invites[c] >= 1 /\ ~ Answered(c)
    BY AnsweredStays DEF AfterInvite, Incoming
  <1>2. todo' = todo => AllTasks' = AllTasks
    BY DEF AllTasks
  <1>3. CASE UNCHANGED vars
    BY <1>2, <1>3, Unmoved DEF vars, Waits
  <1>4. ASSUME NEW t \in App, NEW b \in Call, Application(t, b) PROVE GoesOn(c)
    BY <1>1, <1>4, ApplicationWaits, Threads
  <1>5. ASSUME NEW t \in Receiver, NEW b \in Call, Handle(t, b) PROVE GoesOn(c)
    <2>1. ASSUME NEW s \in Status, RecvInviteResponse(t, b, s) PROVE GoesOn(c)
      <3>1. /\ Message(b, "INVITE", s).call = b /\ Message(b, "INVITE", s).status = s
            /\ s \in 1 .. 699 /\ s # 0
        BY Statuses DEF Message
      <3>2. b # c
        BY <2>1, <3>1 DEF RecvInviteResponse, Receive, Waits
      <3>3. Responds(t, b, s) /\ c \notin pending'
        BY <2>1, Responses DEF RecvInviteResponse, Waits
      <3> QED
        BY <3>1, <3>2, <3>3, ResponseWaits, Threads
    <2> QED
      BY <1>5, <2>1, RequestWaits, Threads DEF Handle
  <1>6. ASSUME NEW t \in Thread, Proceed(t) PROVE GoesOn(c)
    BY <1>6, ProceedWaits
  <1>7. ASSUME NEW b \in Call, InviteTimeout(b) PROVE GoesOn(c)
    <2>1. b # c /\ c \notin pending'
      BY <1>7 DEF InviteTimeout, Waits
    <2>2. Responds(Stack, b, SIP_REQUEST_TIME_OUT)
      BY <1>7, Responses
    <2> QED
      BY <2>1, <2>2, ResponseWaits, Statuses, Threads
  <1>8. ASSUME NEW b \in Call, SendTimeout(b) PROVE GoesOn(c)
    <2>1. AllTasks' = AllTasks
      BY <1>8, Beginnings, Threads DEF Begun
    <2>2. UNCHANGED <<dialog, inbox, pending, peer>>
      BY <1>8 DEF SendTimeout
    <2> QED
      BY <2>1, <2>2, Unmoved DEF Waits
  <1>9. ASSUME NEW b \in Call, Peer(b) PROVE GoesOn(c)
    BY <1>1, <1>9, PeerWaits
  <1> QED
    BY <1>3, <1>4, <1>5, <1>6, <1>7, <1>8, <1>9 DEF Next

LEMMA WaitsForAnswerStep ==
  ASSUME TypeOK, AfterInvite, WaitsForAnswer, [Next]_vars
  PROVE  WaitsForAnswer'
  <1> SUFFICES ASSUME NEW c \in Call, Incoming(c)', ~ Answered(c)' PROVE Waits(c)'
    BY DEF WaitsForAnswer
  <1>1. CASE ~ Incoming(c)
    BY <1>1, IncomingStep, WaitsBegins
  <1>2. CASE Incoming(c)
    <2>1. Waits(c)
      BY <1>2, AnsweredStays DEF WaitsForAnswer
    <2> QED
      BY <1>2, <2>1, WaitsStep DEF GoesOn
  <1> QED
    BY <1>1, <1>2
-----------------------------------------------------------------------------
\* After the 180 of a received call its dialog is there, or about to be inserted.
RungIsKnown ==
  \A c \in Call :
    Incoming(c) /\ ~ Answered(c) /\ Message(c, "INVITE", SIP_RINGING) \in sent =>
      Known(c) \/ Lock(c, "InsertDialog") \in AllTasks

\* Before its INVITE is answered the peer sends no other one, and cancels it after the 180.
CancelAfterRinging ==
  \A c \in Call :
    Incoming(c) /\ ~ Answered(c) =>
      /\ "ReINVITE" \notin peer[c]
      /\ "CANCEL" \in peer[c] => Message(c, "INVITE", SIP_RINGING) \in sent

LEMMA SentStays == ASSUME [Next]_vars PROVE sent \subseteq sent'
  <1>1. ASSUME NEW t \in Thread, Proceed(t) PROVE sent \subseteq sent'
    BY <1>1 DEF Proceed, SendSipMessage, CallBack, InsertDialog, AnswerReInvite, CancelInvite,
       SetCallEnd, Delete
  <1> QED
    BY <1>1, StepKinds, PeerKinds DEF Steady

LEMMA CancelStep ==
  ASSUME TypeOK, AfterInvite, WaitsForAnswer, CancelAfterRinging, [Next]_vars
  PROVE  /\ CancelAfterRinging'
         /\ \A c \in Call : "CANCEL" \in peer'[c] /\ "CANCEL" \notin peer[c] =>
              Message(c, "CANCEL", 0) \in inbox'
  <1>1. peer \in [Call -> SUBSET PeerAct]
    BY Types, Rest
  <1>2. ASSUME NEW c \in Call, NEW a \in {"CANCEL", "ReINVITE"}, a \in peer'[c], a \notin peer[c]
        PROVE  \/ a = "CANCEL" /\ PeerCancels(c)
               \/ a = "ReINVITE" /\ PeerReInvites(c)
    <2>1. PICK b \in Call : Peer(b)
      BY <1>1, <1>2, StepKinds, ProceedKinds DEF Steady
    <2>2. \A act, method : PeerSends(b, act, method) => b = c /\ act = a
      BY <1>1, <1>2 DEF PeerSends
    <2>3. \A s \in Status : ~ PeerResponds(b, s)
      BY <1>1, <1>2 DEF PeerResponds
    <2> QED
      BY <2>1, <2>2, <2>3 DEF Peer, PeerInvites, PeerReInvites, PeerHangsUp, PeerCancels
  <1>3. ASSUME NEW c \in Call, "CANCEL" \in peer'[c], "CANCEL" \notin peer[c]
        PROVE  Message(c, "CANCEL", 0) \in inbox'
    BY <1>2, <1>3 DEF PeerCancels, PeerSends
  <1>4. ASSUME NEW c \in Call, Incoming(c)', ~ Answered(c)'
        PROVE  /\ "ReINVITE" \notin peer'[c]
               /\ "CANCEL" \in peer'[c] => Message(c, "INVITE", SIP_RINGING) \in sent'
    <2>1. ~ Answered(c)
      BY <1>4, AnsweredStays
    <2>2. CASE ~ Incoming(c)
      <3>1. invites[c] = 0 /\ PeerSends(c, "INVITE", "INVITE")
        BY <1>4, <2>2, IncomingStep DEF PeerInvites
      <3>2. ~ (invites[c] >= 1)
        BY <3>1
      <3>3. peer[c] = {}
        BY <3>2 DEF AfterInvite
      <3> QED
        BY <1>1, <3>1, <3>3 DEF PeerSends
    <2>3. CASE Incoming(c)
      <3>1. /\ "ReINVITE" \notin peer[c]
            /\ "CANCEL" \in peer[c] => Message(c, "INVITE", SIP_RINGING) \in sent
        BY <2>1, <2>3 DEF CancelAfterRinging
      <3>2. "answered" \notin peer[c] /\ Message(c, "INVITE", SIP_OK) \notin sent
        BY <2>1, <2>3, Answers DEF WaitsForAnswer, Waits
      <3>3. ~ PeerReInvites(c)
        BY <3>2 DEF PeerReInvites, Established
      <3>4. PeerCancels(c) => Message(c, "INVITE", SIP_RINGING) \in sent
        BY <3>1 DEF PeerCancels
      <3> QED
        BY <1>2, <3>1, <3>3, <3>4, SentStays
    <2> QED
      BY <2>2, <2>3
  <1>5. \A c \in Call : Message(c, "INVITE", SIP_RINGING)' = Message(c, "INVITE", SIP_RINGING)
    BY DEF Message, SIP_RINGING
  <1> QED
    BY <1>3, <1>4, <1>5 DEF CancelAfterRinging

\* A locked section that is gone was done.
LEMMA SectionDone ==
  ASSUME TypeOK, [Next]_vars, NEW c \in Call, NEW n \in Sections,
         Lock(c, n) \in AllTasks, Lock(c, n) \notin AllTasks'
  PROVE  \E t \in Thread : Proceed(t) /\ AtStep(t, "lock", n) /\ ThisCall(t) = c
  <1>1. PICK t \in Thread : Proceed(t) /\ todo[t] # <<>> /\ Lock(c, n) = Head(todo[t])
    BY TasksStay
  <1> QED
    BY <1>1, TaskFields DEF AtStep, ThisCall

LEMMA RungStep ==
  ASSUME TypeOK, Tidy, AfterInvite, WaitsForAnswer, RungIsKnown, [Next]_vars
  PROVE  RungIsKnown'
  <1> SUFFICES ASSUME NEW c \in Call, Incoming(c)', ~ Answered(c)',
                      Message(c, "INVITE", SIP_RINGING) \in sent'
               PROVE  Known(c)' \/ Lock(c, "InsertDialog") \in AllTasks'
    <2>1. \A c : Lock(c, "InsertDialog")' = Lock(c, "InsertDialog")
      BY DEF Lock, Step
    <2>2. \A c : Message(c, "INVITE", SIP_RINGING)' = Message(c, "INVITE", SIP_RINGING)
      BY DEF Message, SIP_RINGING
    <2> QED
      BY <2>1, <2>2 DEF RungIsKnown
  <1>1. ~ Answered(c)
    BY AnsweredStays
  <1>2. CASE Message(c, "INVITE", SIP_RINGING) \notin sent
    <2>1. PICK t \in Thread : Proceed(t)
      BY <1>2, StepKinds, PeerKinds DEF Steady
    <2>2. SendSipMessage(t) /\ todo[t] # <<>> /\ todo[t] \in Seq(Task) /\ todo \in [Thread -> Seq(Task)]
      BY <1>2, <2>1, ProceedKinds DEF TypeOK
    <2> DEFINE x == Head(todo[t])
    <2>3. Message(c, "INVITE", SIP_RINGING) = Message(x.call, x.name, x.status)
      BY <1>2, <2>2 DEF SendSipMessage
    <2>4. x.call = c /\ Rings(x)
      BY <2>3 DEF Message, Rings
    <2>5. /\ Len(todo[t]) \in Nat /\ 1 \in DOMAIN todo[t] /\ todo[t][1] = x
          /\ DOMAIN todo[t] = 1 .. Len(todo[t])
      BY <2>2
    <2>6. 2 \in DOMAIN todo[t] /\ todo[t][2] = Lock(c, "InsertDialog")
      <3>1. Rings(todo[t][1]) =>
              1 + 1 \in DOMAIN todo[t] /\ todo[t][1 + 1] = Lock(todo[t][1].call, "InsertDialog")
        BY <2>5 DEF Tidy, InOrder
      <3> QED
        BY <2>4, <2>5, <3>1
    <2>7. todo'[t] = Tail(todo[t]) \o <<>> /\ Tail(todo[t]) \o <<>> = Tail(todo[t])
      BY <2>2, TailTasks, ConcatEmptySeq DEF SendSipMessage, Continue
    <2>8. Lock(c, "InsertDialog") \in Tasks(Tail(todo[t]))
      <3>1. 1 \in DOMAIN Tail(todo[t]) /\ Tail(todo[t])[1] = todo[t][2]
        BY <2>2, <2>5, <2>6
      <3> QED
        BY <2>6, <3>1 DEF Tasks
    <2> QED
      BY <2>7, <2>8 DEF AllTasks
  <1>3. CASE Message(c, "INVITE", SIP_RINGING) \in sent
    <2>1. Incoming(c)
      <3> SUFFICES ASSUME ~ Incoming(c) PROVE FALSE
        OBVIOUS
      <3>1. invites[c] = 0
        BY IncomingStep DEF PeerInvites
      <3>2. invites[c] >= 1
        BY <1>3 DEF AfterInvite, Message
      <3> QED
        BY <3>1, <3>2
    <2>2. Waits(c) /\ (Known(c) \/ Lock(c, "InsertDialog") \in AllTasks)
      BY <1>1, <1>3, <2>1 DEF WaitsForAnswer, RungIsKnown
    <2>3. CASE Known(c)
      BY <2>1, <2>2, <2>3, WaitsStep DEF GoesOn
    <2>4. CASE Lock(c, "InsertDialog") \in AllTasks /\ Lock(c, "InsertDialog") \notin AllTasks'
      <3>1. PICK t \in Thread : Proceed(t) /\ AtStep(t, "lock", "InsertDialog") /\ ThisCall(t) = c
        BY <2>4, SectionDone DEF Sections
      <3>2. InsertDialog(t)
        BY <3>1 DEF Proceed, SendSipMessage, CallBack, AnswerReInvite, CancelInvite, SetCallEnd,
           Delete, AtStep
      <3>3. ~ Known(c) => Changed(c, NewDialog(TRUE))
        BY <3>1, <3>2, DialogChanges
      <3> QED
        BY <2>3, <3>3 DEF Changed, Known
    <2> QED
      BY <2>2, <2>3, <2>4
  <1> QED
    BY <1>2, <1>3

CancelWorks == WaitsForAnswer /\ RungIsKnown /\ CancelAfterRinging /\ CancelAnswered

LEMMA CancelReceived ==
  ASSUME TypeOK, [Next]_vars, NEW c \in Call, Message(c, "CANCEL", 0) \in inbox,
         Message(c, "CANCEL", 0) \notin inbox'
  PROVE  Lock(c, "CancelInvite") \in AllTasks'
  <1>1. \A b, n, s : Message(b, n, s) = Message(c, "CANCEL", 0) => b = c /\ n = "CANCEL" /\ s = 0
    BY DEF Message
  <1>2. inbox' # inbox
    OBVIOUS
  <1>3. ASSUME NEW t \in Receiver, NEW b \in Call, Handle(t, b)
        PROVE  Lock(c, "CancelInvite") \in AllTasks'
    <2>1. RecvCancelRequest(t, b) /\ b = c
      BY <1>1, <1>3 DEF Handle, RecvInviteRequest, RecvByeRequest, RecvInviteResponse,
         RecvCancelRequest, Receive
    <2> QED
      BY <2>1, Beginnings, Threads DEF Begun
  <1>4. ASSUME NEW b \in Call, Peer(b) PROVE FALSE
    BY <1>4 DEF Peer, PeerInvites, PeerReInvites, PeerHangsUp, PeerCancels, PeerSends, PeerResponds
  <1>5. ASSUME NEW t \in App, NEW b \in Call, Application(t, b) PROVE FALSE
    BY <1>2, <1>5 DEF Application, StartCall, StopCall, ForwardCall, RingCall, AcceptCall, HoldCall
  <1>6. ASSUME NEW t \in Thread, Proceed(t) PROVE FALSE
    BY <1>2, <1>6, ProceedKinds
  <1>7. ASSUME NEW b \in Call, InviteTimeout(b) \/ SendTimeout(b) PROVE FALSE
    BY <1>2, <1>7 DEF InviteTimeout, SendTimeout
  <1>8. ~ UNCHANGED vars
    BY <1>2 DEF vars
  <1> QED
    BY <1>3, <1>4, <1>5, <1>6, <1>7, <1>8 DEF Next

LEMMA CancelAnsweredStep ==
  ASSUME OneReceiver, TypeOK, Tidy, AfterInvite, CancelWorks, [Next]_vars
  PROVE  CancelAnswered'
  <1>1. \A x : /\ Queued(x) <=> x \in AllTasks
               /\ Queued(x)' <=> x \in AllTasks'
    BY DEF Queued, AllTasks, Tasks
  <1> SUFFICES ASSUME NEW c \in Call, Incoming(c)', "CANCEL" \in peer'[c],
                      Message(c, "CANCEL", 0) \notin inbox',
                      Lock(c, "CancelInvite") \notin AllTasks', ~ Answered(c)'
               PROVE  FALSE
    BY <1>1 DEF CancelAnswered, Answered, Incoming
  <1>2. ~ Answered(c)
    BY AnsweredStays
  <1>3. Incoming(c) /\ "CANCEL" \in peer[c] /\ Message(c, "CANCEL", 0) \notin inbox
    <2>1. "CANCEL" \in peer[c] /\ Message(c, "CANCEL", 0) \notin inbox
      BY CancelStep, CancelReceived DEF CancelWorks
    <2> SUFFICES ASSUME ~ Incoming(c) PROVE FALSE
      BY <2>1
    <2>2. invites[c] = 0
      BY IncomingStep DEF PeerInvites
    <2>3. invites[c] >= 1
      BY <2>1 DEF AfterInvite
    <2> QED
      BY <2>2, <2>3
  <1>4. Lock(c, "CancelInvite") \in AllTasks
    BY <1>1, <1>2, <1>3 DEF CancelWorks, CancelAnswered, Answered, Incoming
  <1>5. Incoming(c) /\ Message(c, "INVITE", SIP_RINGING) \in sent
    BY <1>2, <1>3 DEF CancelWorks, CancelAfterRinging
  <1>6. Waits(c) /\ (Known(c) \/ Lock(c, "InsertDialog") \in AllTasks)
    BY <1>2, <1>5 DEF CancelWorks, WaitsForAnswer, RungIsKnown
  <1>7. PICK t \in Thread : Proceed(t) /\ AtStep(t, "lock", "CancelInvite") /\ ThisCall(t) = c
    BY <1>4, SectionDone DEF Sections
  <1>8. CancelInvite(t)
    BY <1>7 DEF Proceed, SendSipMessage, CallBack, AnswerReInvite, InsertDialog, SetCallEnd,
       Delete, AtStep
  <1>9. ~ CanCancel(c)
    <2> SUFFICES ASSUME CanCancel(c) PROVE FALSE
      OBVIOUS
    <2>1. Send(c, "INVITE", SIP_REQUEST_TERMINATED) \in AllTasks'
      BY <1>7, <1>8, Continuations DEF WentOn
    <2> QED
      BY <2>1, Answers
  <1>10. ~ Known(c)
    BY <1>6, <1>9 DEF Waits, CanCancel
  <1>11. PICK u \in Thread : Lock(c, "InsertDialog") \in Tasks(todo[u])
    BY <1>6, <1>10 DEF AllTasks
  <1>12. u \in Receiver
    BY <1>11, TaskFields DEF Tidy, OwnTask
  <1>13. t \in Receiver /\ todo[t] = <<Lock(c, "CancelInvite")>>
    BY <1>7, SectionAlone
  <1>14. u = t
    BY <1>12, <1>13 DEF OneReceiver
  <1>15. Tasks(todo[t]) = {Lock(c, "CancelInvite")}
    BY <1>13, TupleTasks, TaskTypes DEF Sections
  <1> QED
    BY <1>11, <1>14, <1>15, TaskKinds

\* With one receiving thread a CANCEL that follows the 180 is never lost on a call: once it
\* was handled the INVITE has a final response.
THEOREM CancelNotLost ==
  ASSUME OneReceiver
  PROVE  Spec => []CancelAnswered
  <1>1. Init => HandlersInv /\ CancelWorks
    <2>1. Init => CancelWorks
      BY DEF Init, CancelWorks, WaitsForAnswer, RungIsKnown, CancelAfterRinging, CancelAnswered,
         Incoming
    <2> QED
      BY <2>1, HandlersInvInit
  <1>2. HandlersInv /\ CancelWorks /\ [Next]_vars => HandlersInv' /\ CancelWorks'
    BY HandlersInvStep, WaitsForAnswerStep, RungStep, CancelStep, CancelAnsweredStep
       DEF HandlersInv, CancelWorks
  <1>3. CancelWorks => CancelAnswered
    BY DEF CancelWorks
  <1> QED
    BY <1>1, <1>2, <1>3, PTL DEF Spec
-----------------------------------------------------------------------------
\* The INVITE of call c that the user agent makes.  It is open from its making until its
\* final response is taken: about to be sent, pending, or answered by a message on its way.
Invite(c) == Send(c, "INVITE", 0)
FinalOf(m, c) == m.call = c /\ m.name = "INVITE" /\ m.status >= SIP_OK
Open(c) == Invite(c) \in AllTasks \/ c \in pending \/ \E m \in inbox : FinalOf(m, c)

\* A call has one open INVITE at a time.
OneOpen ==
  \A c \in Call :
    /\ \A t, u \in Thread : Invite(c) \in Tasks(todo[t]) \cap Tasks(todo[u]) => t = u
    /\ Invite(c) \in AllTasks => c \notin pending
    /\ \A m \in inbox : FinalOf(m, c) =>
         /\ c \notin pending /\ Invite(c) \notin AllTasks
         /\ \A n \in inbox : FinalOf(n, c) => n = m

\* Thread u makes an INVITE of call c.
Fresh(u, c) ==
  \/ StartCall(u, c) \/ HoldCall(u, c)
  \/ \E s \in 1 .. 699 : Responds(u, c, s) /\ Known(c) /\ Retries(dialog[c], s)

LEMMA FewTasks ==
  /\ Tasks(<<>>) = {} /\ \A a : Tasks(<<a>>) = {a}
  /\ \A a, b : Tasks(<<a, b>>) = {a, b}
  /\ \A a, b, d : Tasks(<<a, b, d>>) = {a, b, d}
  BY DEF Tasks

LEMMA InviteTask ==
  /\ \A c, b, n, s : Invite(c) = Send(b, n, s) => b = c /\ n = "INVITE" /\ s = 0
  /\ \A c, b, n, s : Invite(c) # Event(b, n, s)
  /\ \A c, b, n : Invite(c) # Lock(b, n)
  /\ \A c : Invites(Invite(c)) /\ Invite(c).call = c
  BY TaskKinds, TaskFields DEF Invite, Invites

LEMMA NewInvite ==
  ASSUME TypeOK, Tidy, [Next]_vars, NEW c \in Call, NEW u \in Thread,
         Invite(c) \in Tasks(todo'[u]), Invite(c) \notin Tasks(todo[u])
  PROVE  Fresh(u, c)
  <1>1. todo \in [Thread -> Seq(Task)]
    BY DEF TypeOK
  <1>2. todo' # todo
    OBVIOUS
  <1>3. ASSUME NEW t \in Thread, NEW q, todo' = [todo EXCEPT ![t] = q]
        PROVE  u = t /\ Invite(c) \in Tasks(q)
    BY <1>1, <1>3
  <1>4. ASSUME NEW t \in Thread, NEW q, Begin(t, q) PROVE u = t /\ Invite(c) \in Tasks(q)
    BY <1>3, <1>4 DEF Begin
  <1>5. ASSUME NEW t \in App, NEW b \in Call, Application(t, b) PROVE Fresh(u, c)
    <2>1. CASE StartCall(t, b) \/ HoldCall(t, b)
      <3>1. u = t /\ Invite(c) \in Tasks(<<Send(b, "INVITE", 0)>>)
        BY <1>4, <2>1, Threads DEF StartCall, HoldCall
      <3>2. b = c
        BY <3>1, FewTasks, InviteTask
      <3> QED
        BY <2>1, <3>1, <3>2 DEF Fresh
    <2>2. CASE StopCall(t, b)
      <3>1. \/ Begin(t, <<Send(b, "BYE", 0)>>) \/ Begin(t, <<Send(b, "INVITE", SIP_DECLINE)>>)
            \/ Begin(t, <<Send(b, "CANCEL", 0)>>) \/ Begin(t, <<>>)
        BY <2>2 DEF StopCall, StopConnected, StopIncoming, StopOutgoing, StopNothing
      <3>2. \/ Invite(c) = Send(b, "BYE", 0) \/ Invite(c) = Send(b, "INVITE", SIP_DECLINE)
            \/ Invite(c) = Send(b, "CANCEL", 0)
        BY <1>4, <3>1, FewTasks, Threads
      <3> QED
        BY <3>2, InviteTask DEF SIP_DECLINE
    <2>3. CASE ForwardCall(t, b) \/ RingCall(t, b) \/ AcceptCall(t, b)
      <3>1. \E r \in {SIP_MOVED_TEMPORARILY, SIP_SESSION_PROGRESS, SIP_OK} :
               Begin(t, <<Send(b, "INVITE", r)>>)
        BY <2>3 DEF ForwardCall, RingCall, AcceptCall
      <3>2. \E r \in {SIP_MOVED_TEMPORARILY, SIP_SESSION_PROGRESS, SIP_OK} :
               Invite(c) = Send(b, "INVITE", r)
        BY <1>4, <3>1, FewTasks, Threads
      <3> QED
        BY <3>2, InviteTask DEF SIP_MOVED_TEMPORARILY, SIP_SESSION_PROGRESS, SIP_OK
    <2> QED
      BY <1>5, <2>1, <2>2, <2>3 DEF Application
  <1>6. ASSUME NEW t \in Receiver, NEW b \in Call,
               RecvInviteRequest(t, b) \/ RecvCancelRequest(t, b) \/ RecvByeRequest(t, b)
        PROVE  FALSE
    <2>1. \/ Begin(t, <<Send(b, "INVITE", SIP_NOT_ACCEPTABLE_HERE)>>)
          \/ Begin(t, <<Event(b, "EventReInvite", 0), Lock(b, "AnswerReInvite")>>)
          \/ Begin(t, <<Send(b, "INVITE", SIP_RINGING), Lock(b, "InsertDialog")>>)
          \/ Begin(t, <<Send(b, "CANCEL", SIP_OK), Lock(b, "CancelInvite")>>)
          \/ Begin(t, <<Send(b, "BYE", SIP_OK), Lock(b, "SetCallEnd")>>)
      BY <1>6 DEF RecvInviteRequest, RecvCancelRequest, RecvByeRequest
    <2>2. \/ \E n, r : Invite(c) = Send(b, n, r) /\ (n # "INVITE" \/ r # 0)
          \/ \E n, r : Invite(c) = Event(b, n, r)
          \/ \E n : Invite(c) = Lock(b, n)
      <3>1. ASSUME Begin(t, <<Send(b, "INVITE", SIP_NOT_ACCEPTABLE_HERE)>>)
            PROVE  Invite(c) = Send(b, "INVITE", SIP_NOT_ACCEPTABLE_HERE)
        BY <1>4, <3>1, FewTasks, Threads
      <3>2. ASSUME NEW x, NEW y, Begin(t, <<x, y>>) PROVE Invite(c) = x \/ Invite(c) = y
        BY <1>4, <3>2, FewTasks, Threads
      <3>3. SIP_NOT_ACCEPTABLE_HERE # 0 /\ SIP_RINGING # 0 /\ SIP_OK # 0
        BY DEF SIP_NOT_ACCEPTABLE_HERE, SIP_RINGING, SIP_OK
      <3> QED
        BY <2>1, <3>1, <3>2, <3>3
    <2> QED
      BY <2>2, InviteTask
  <1>7. ASSUME NEW t \in Thread, NEW b \in Call, NEW s \in 1 .. 699, Responds(t, b, s)
        PROVE  Fresh(u, c)
    <2> DEFINE ack == Ack(b, s)
    <2>1. ack \in Seq(Task) /\ Invite(c) \notin Tasks(ack)
      <3>1. Send(b, "ACK", 0) \in Task
        BY TaskTypes DEF Methods
      <3>2. Invite(c) # Send(b, "ACK", 0)
        BY InviteTask
      <3> QED
        BY <3>1, <3>2, TupleTasks DEF Ack
    <2>2. SetInviteResponse(t, b, s)
      BY <1>7 DEF Responds
    <2>3. CASE ~ Known(b)
      BY <1>4, <2>2, <2>3, FewTasks DEF SetInviteResponse
    <2>4. CASE Known(b) /\ CallAgain(t, b, s)
      <3>1. Send(b, "INVITE", 0) \in Task
        BY TaskTypes DEF Methods
      <3>2. /\ <<Send(b, "INVITE", 0)>> \in Seq(Task)
            /\ Tasks(<<Send(b, "INVITE", 0)>>) = {Send(b, "INVITE", 0)}
        BY <3>1, TupleTasks
      <3>3. Begin(t, ack \o <<Send(b, "INVITE", 0)>>) /\ Retries(dialog[b], s)
        BY <2>4 DEF CallAgain
      <3> HIDE DEF ack
      <3>4. u = t /\ Invite(c) \in Tasks(ack \o <<Send(b, "INVITE", 0)>>)
        BY <1>4, <3>3
      <3>5. Tasks(ack \o <<Send(b, "INVITE", 0)>>) =
              Tasks(ack) \cup Tasks(<<Send(b, "INVITE", 0)>>)
        BY <2>1, <3>2, ConcatTasks
      <3>6. Invite(c) = Send(b, "INVITE", 0)
        BY <2>1, <3>2, <3>4, <3>5
      <3>7. b = c
        BY <3>6, InviteTask
      <3> QED
        BY <1>7, <2>4, <3>3, <3>4, <3>7 DEF Fresh
    <2>5. CASE Known(b) /\ ReportResponse(t, b, s)
      <3>1. Report(dialog[b], b, s) \in Seq(Task)
        <4>1. /\ {Event(b, "EventCallRing", s), Event(b, "EventReInviteResponse", s),
                  Event(b, "EventCallStart", s), Event(b, "EventCallEnd", s)} \subseteq Task
              /\ Lock(b, "Delete") \in Task
          BY TaskTypes DEF Events, Sections
        <4> QED
          BY <4>1, TupleTasks DEF Report
      <3>2. Begin(t, ack \o Report(dialog[b], b, s))
        BY <2>5 DEF ReportResponse
      <3> HIDE DEF ack
      <3>3. Invite(c) \in Tasks(ack \o Report(dialog[b], b, s))
        BY <1>4, <3>2
      <3>4. Invite(c) \in Tasks(Report(dialog[b], b, s))
        BY <2>1, <3>1, <3>3, ConcatTasks
      <3>5. Invite(c) = Lock(b, "Delete") \/ \E n : Invite(c) = Event(b, n, s)
        BY <3>4, ReportTasks
      <3> QED
        BY <3>5, InviteTask
    <2> QED
      BY <2>2, <2>3, <2>4, <2>5 DEF SetInviteResponse
  <1>8. ASSUME NEW t \in Thread, Proceed(t) PROVE FALSE
    <2> DEFINE b == ThisCall(t)
    <2>1. CASE SendSipMessage(t) \/ CallBack(t)
      <3>1. todo[t] # <<>> /\ todo[t] \in Seq(Task) /\ Continue(t, <<>>)
        BY <1>1, <2>1 DEF SendSipMessage, CallBack
      <3>2. /\ Tail(todo[t]) \in Seq(Task) /\ <<>> \in Seq(Task)
            /\ Tasks(Tail(todo[t])) \subseteq Tasks(todo[t])
        BY <3>1, TailTasks
      <3>3. Tasks(Tail(todo[t]) \o <<>>) \subseteq Tasks(todo[t])
        BY <3>2, ConcatTasks, FewTasks
      <3>4. u = t /\ Invite(c) \in Tasks(Tail(todo[t]) \o <<>>)
        BY <1>3, <3>1 DEF Continue
      <3> QED
        BY <3>3, <3>4
    <2>2. ASSUME NEW n, AtStep(t, "lock", n), NEW more \in Seq(Task), Continue(t, more)
          PROVE  Invite(c) \in Tasks(more)
      BY <1>3, <2>2, SectionAlone
    <2>3. ASSUME NEW n, AtStep(t, "lock", n) PROVE b \in Call
      BY <2>3, SectionAlone
    <2>4. \A r \in {SIP_OK, SIP_REQUEST_TERMINATED} : r \in 0 .. 699 /\ r # 0
      BY DEF SIP_OK, SIP_REQUEST_TERMINATED
    <2>5. ASSUME b \in Call
          PROVE  /\ Event(b, "EventIncomingCall", 0) \in Task
                 /\ Event(b, "EventCallEnd", SIP_OK) \in Task
                 /\ Event(b, "EventCallEnd", SIP_REQUEST_TERMINATED) \in Task
                 /\ Send(b, "INVITE", SIP_OK) \in Task
                 /\ Send(b, "INVITE", SIP_REQUEST_TERMINATED) \in Task
                 /\ Lock(b, "Delete") \in Task
      <3>1. /\ "EventIncomingCall" \in Events /\ "EventCallEnd" \in Events
            /\ "INVITE" \in Methods /\ "Delete" \in Sections /\ 0 \in 0 .. 699
        BY DEF Events, Methods, Sections
      <3> QED
        BY <2>4, <2>5, <3>1, TaskTypes
    <2>6. Invite(c) \notin Tasks(<<>>) /\ <<>> \in Seq(Task)
      BY FewTasks
    <2>7. CASE InsertDialog(t)
      <3>1. AtStep(t, "lock", "InsertDialog")
        BY <2>7 DEF InsertDialog
      <3>2. Continue(t, <<>>) \/ Continue(t, <<Event(b, "EventIncomingCall", 0)>>)
        BY <2>7 DEF InsertDialog
      <3>3. <<Event(b, "EventIncomingCall", 0)>> \in Seq(Task)
        BY <2>3, <2>5, <3>1, TupleTasks
      <3>4. Invite(c) \in Tasks(<<Event(b, "EventIncomingCall", 0)>>)
        BY <2>2, <2>6, <3>1, <3>2, <3>3
      <3> QED
        BY <3>4, FewTasks, InviteTask
    <2>8. CASE AnswerReInvite(t)
      <3>1. AtStep(t, "lock", "AnswerReInvite")
        BY <2>8 DEF AnswerReInvite
      <3>2. Continue(t, <<>>) \/ Continue(t, <<Send(b, "INVITE", SIP_OK)>>)
        BY <2>8 DEF AnswerReInvite
      <3>3. <<Send(b, "INVITE", SIP_OK)>> \in Seq(Task)
        BY <2>3, <2>5, <3>1, TupleTasks
      <3>4. Invite(c) \in Tasks(<<Send(b, "INVITE", SIP_OK)>>)
        BY <2>2, <2>6, <3>1, <3>2, <3>3
      <3> QED
        BY <2>4, <3>4, FewTasks, InviteTask
    <2>9. CASE CancelInvite(t)
      <3> DEFINE q == <<Send(b, "INVITE", SIP_REQUEST_TERMINATED),
                        Event(b, "EventCallEnd", SIP_REQUEST_TERMINATED), Lock(b, "Delete")>>
      <3>1. AtStep(t, "lock", "CancelInvite")
        BY <2>9 DEF CancelInvite
      <3>2. Continue(t, <<>>) \/ Continue(t, q)
        BY <2>9 DEF CancelInvite
      <3>3. q \in Seq(Task)
        BY <2>3, <2>5, <3>1, TupleTasks
      <3>4. Invite(c) \in Tasks(q)
        BY <2>2, <2>6, <3>1, <3>2, <3>3
      <3> QED
        BY <2>4, <3>4, FewTasks, InviteTask
    <2>10. CASE SetCallEnd(t)
      <3> DEFINE q == <<Event(b, "EventCallEnd", SIP_OK), Lock(b, "Delete")>>
      <3>1. AtStep(t, "lock", "SetCallEnd")
        BY <2>10 DEF SetCallEnd
      <3>2. Continue(t, <<>>) \/ Continue(t, q)
        BY <2>10 DEF SetCallEnd
      <3>3. q \in Seq(Task)
        BY <2>3, <2>5, <3>1, TupleTasks
      <3>4. Invite(c) \in Tasks(q)
        BY <2>2, <2>6, <3>1, <3>2, <3>3
      <3> QED
        BY <3>4, FewTasks, InviteTask
    <2>11. CASE Delete(t)
      <3>1. AtStep(t, "lock", "Delete") /\ Continue(t, <<>>)
        BY <2>11 DEF Delete
      <3> QED
        BY <2>2, <2>6, <3>1
    <2> QED
      BY <1>8, <2>1, <2>7, <2>8, <2>9, <2>10, <2>11 DEF Proceed
  <1>9. ASSUME NEW b \in Call, SendTimeout(b) PROVE FALSE
    <2>1. Begin(Stack, <<>>)
      BY <1>9 DEF SendTimeout
    <2> QED
      BY <1>4, <2>1, FewTasks, Threads
  <1>10. ASSUME NEW b \in Call, Peer(b) PROVE FALSE
    BY <1>2, <1>10, PeerKinds
  <1>11. ASSUME NEW b \in Call, InviteTimeout(b) PROVE Fresh(u, c)
    BY <1>7, <1>11, Responses, Statuses, Threads
  <1>12. ASSUME NEW t \in Receiver, NEW b \in Call, NEW s \in Status, RecvInviteResponse(t, b, s)
         PROVE  Fresh(u, c)
    BY <1>7, <1>12, Responses, Statuses, Threads
  <1>13. Next
    BY <1>2 DEF vars
  <1> QED
    BY <1>5, <1>6, <1>8, <1>9, <1>10, <1>11, <1>12, <1>13 DEF Next, Handle

\* The final response was the one open thing of the call.
LEMMA Settled ==
  ASSUME OneOpen, NEW c \in Call, NEW t, NEW s \in 1 .. 699, Responds(t, c, s), s >= SIP_OK
  PROVE  /\ Open(c) /\ Invite(c) \notin AllTasks /\ c \notin pending'
         /\ \A m \in inbox' : ~ FinalOf(m, c)
  <1>1. CASE Receive(c, "INVITE", s) /\ pending' = pending
    <2> DEFINE m == Message(c, "INVITE", s)
    <2>1. m \in inbox /\ inbox' = inbox \ {m}
      BY <1>1 DEF Receive
    <2>2. FinalOf(m, c)
      BY DEF FinalOf, Message
    <2> HIDE DEF m
    <2>3. c \notin pending /\ Invite(c) \notin AllTasks /\ \A n \in inbox : FinalOf(n, c) => n = m
      BY <2>1, <2>2 DEF OneOpen
    <2> QED
      BY <1>1, <2>1, <2>2, <2>3 DEF Open
  <1>2. CASE c \in pending /\ pending' = pending \ {c} /\ inbox' = inbox
    BY <1>2 DEF OneOpen, Open
  <1> QED
    BY <1>1, <1>2 DEF Responds

LEMMA RetryIsFinal ==
  \A d, s : Retries(d, s) => s >= SIP_OK
  BY DEF Retries, Challenge, SIP_OK, SIP_UNAUTHORIZED, SIP_PROXY_AUTHENTICATION_REQUIRED,
     SIP_MOVED_TEMPORARILY

\* An INVITE is made when no other one of the call is open.
LEMMA FreshAlone ==
  ASSUME TypeOK, AfterInvite, OneOpen, NEW c \in Call, NEW u, Fresh(u, c)
  PROVE  /\ Invite(c) \notin AllTasks /\ c \notin pending'
         /\ \A m \in inbox' : ~ FinalOf(m, c)
         /\ StartCall(u, c) \/ HoldCall(u, c) \/ Open(c)
  <1>1. CASE StartCall(u, c)
    <2>1. invites[c] = 0 /\ inbox' = inbox /\ pending' = pending
      BY <1>1 DEF StartCall
    <2>2. /\ Invite(c) \notin AllTasks /\ c \notin pending
          /\ \A m \in inbox : ~ FinalOf(m, c)
      BY <2>1, InviteTask DEF AfterInvite, FinalOf
    <2> QED
      BY <1>1, <2>1, <2>2
  <1>2. CASE HoldCall(u, c)
    <2>1. /\ c \notin pending /\ ~ Queued(Invite(c)) /\ inbox' = inbox /\ pending' = pending
          /\ \A m \in inbox : m.call = c => m.status < SIP_OK
      <3>1. ~ Queued(Send(c, "INVITE", 0))
        BY <1>2 DEF HoldCall
      <3>2. c \notin pending /\ \A m \in inbox : m.call = c => m.status < SIP_OK
        BY <1>2 DEF HoldCall
      <3>3. inbox' = inbox /\ pending' = pending
        BY <1>2 DEF HoldCall
      <3> QED
        BY <3>1, <3>2, <3>3 DEF Invite
    <2>2. \A m \in inbox : m.status \in Nat
      <3>1. inbox \subseteq Packet
        BY Types DEF RestOK, Packet
      <3> QED
        BY <3>1 DEF Packet
    <2>3. \A m \in inbox : ~ FinalOf(m, c)
      BY <2>1, <2>2 DEF FinalOf, SIP_OK
    <2> QED
      BY <1>2, <2>1, <2>3, QueuedTasks
  <1>3. CASE \E s \in 1 .. 699 : Responds(u, c, s) /\ Known(c) /\ Retries(dialog[c], s)
    BY <1>3, RetryIsFinal, Settled
  <1> QED
    BY <1>1, <1>2, <1>3 DEF Fresh

\* A peer answers for good only a pending INVITE.
LEMMA NewFinal ==
  ASSUME TypeOK, [Next]_vars, NEW c \in Call, NEW m \in inbox', m \notin inbox, FinalOf(m, c)
  PROVE  /\ c \in pending /\ c \notin pending' /\ todo' = todo /\ inbox' = inbox \cup {m}
  <1>1. Steady => FALSE
    BY DEF Steady
  <1>2. \A t \in Thread : ~ Proceed(t)
    BY ProceedKinds
  <1>3. PICK b \in Call : Peer(b)
    BY <1>1, <1>2, StepKinds
  <1>4. todo' = todo
    BY <1>3, PeerKinds
  <1>5. ASSUME NEW act, NEW method, PeerSends(b, act, method) PROVE FALSE
    <2>1. m = Message(b, method, 0)
      BY <1>5 DEF PeerSends
    <2> QED
      BY <2>1 DEF FinalOf, Message, SIP_OK
  <1>6. PICK s \in Status : PeerResponds(b, s)
    BY <1>3, <1>5 DEF Peer, PeerInvites, PeerReInvites, PeerHangsUp, PeerCancels
  <1>7. m = Message(b, "INVITE", s) /\ inbox' = inbox \cup {Message(b, "INVITE", s)}
    BY <1>6 DEF PeerResponds
  <1>8. b = c /\ s >= SIP_OK
    BY <1>7 DEF FinalOf, Message
  <1> QED
    BY <1>4, <1>6, <1>7, <1>8 DEF PeerResponds

\* An INVITE gets pending when its thread sends it, which leaves the thread nothing to do.
LEMMA NewPending ==
  ASSUME TypeOK, Tidy, [Next]_vars, NEW c \in Call, c \in pending', c \notin pending
  PROVE  \E t \in Thread : /\ Invite(c) \in Tasks(todo[t])
                           /\ todo' = [todo EXCEPT ![t] = <<>>] /\ inbox' = inbox
  <1>1. Steady => FALSE
    BY DEF Steady
  <1>2. \A b \in Call : ~ Peer(b)
    BY PeerKinds
  <1>3. PICK t \in Thread : Proceed(t)
    BY <1>1, <1>2, StepKinds
  <1> DEFINE x == Head(todo[t])
  <1>4. /\ SendSipMessage(t) /\ inbox' = inbox
        /\ todo[t] # <<>> /\ x \in Task /\ x \in Tasks(todo[t])
    BY <1>3, ProceedKinds
  <1>5. x.do = "send" /\ x.name = "INVITE" /\ x.status = 0 /\ x.call = c /\ Continue(t, <<>>)
    BY <1>4 DEF SendSipMessage
  <1>6. x = Invite(c)
    BY <1>4, <1>5 DEF Invite, Send, Step, Task
  <1>7. todo[t] \in Seq(Task) /\ InOrder(todo[t])
    BY DEF TypeOK, Tidy
  <1>8. x = todo[t][1] /\ 1 \in DOMAIN todo[t]
    BY <1>4, <1>7
  <1>9. Len(todo[t]) = 1
    BY <1>5, <1>7, <1>8 DEF InOrder, Invites
  <1>10. Tail(todo[t]) = <<>>
    BY <1>7, <1>9, OneElement
  <1>11. Tail(todo[t]) \o <<>> = <<>>
    BY <1>10, Concat
  <1>12. todo' = [todo EXCEPT ![t] = <<>>]
    BY <1>5, <1>11 DEF Continue
  <1> QED
    BY <1>4, <1>6, <1>12

LEMMA OneThread ==
  ASSUME TypeOK, Tidy, [Next]_vars
  PROVE  \A t, u \in Thread : todo'[t] # todo[t] /\ todo'[u] # todo[u] => t = u
  <1>1. todo \in [Thread -> Seq(Task)]
    BY DEF TypeOK
  <1>2. ASSUME NEW t \in Thread, NEW s \in Seq(Task), Moved(t, s)
        PROVE  \A u \in Thread \ {t} : todo'[u] = todo[u]
    BY <1>1, <1>2 DEF Moved
  <1> QED
    BY <1>2, Moves

LEMMA OneOpenStep ==
  TypeOK /\ Tidy /\ AfterInvite /\ OneOpen /\ [Next]_vars => OneOpen'
  <1> SUFFICES ASSUME TypeOK, Tidy, AfterInvite, OneOpen, [Next]_vars, NEW c \in Call
               PROVE  /\ \A t, u \in Thread : Invite(c) \in Tasks(todo'[t]) \cap Tasks(todo'[u]) => t = u
                      /\ Invite(c) \in AllTasks' => c \notin pending'
                      /\ \A m \in inbox' : FinalOf(m, c) =>
                           /\ c \notin pending' /\ Invite(c) \notin AllTasks'
                           /\ \A n \in inbox' : FinalOf(n, c) => n = m
    BY DEF OneOpen, Invite, FinalOf
  <1> DEFINE Has(t) == Invite(c) \in Tasks(todo[t])
             HasThen(t) == Invite(c) \in Tasks(todo'[t])
  <1>1. /\ Invite(c) \in AllTasks <=> \E t \in Thread : Has(t)
        /\ Invite(c) \in AllTasks' <=> \E t \in Thread : HasThen(t)
    BY DEF AllTasks
  <1>2. /\ \A t, u \in Thread : Has(t) /\ Has(u) => t = u
        /\ Invite(c) \in AllTasks => c \notin pending
        /\ \A m \in inbox : FinalOf(m, c) =>
             /\ c \notin pending /\ Invite(c) \notin AllTasks
             /\ \A n \in inbox : FinalOf(n, c) => n = m
    BY DEF OneOpen
  <1>3. CASE \E u \in Thread : Fresh(u, c)
    <2>1. /\ Invite(c) \notin AllTasks /\ c \notin pending'
          /\ \A m \in inbox' : ~ FinalOf(m, c)
      BY <1>3, FreshAlone
    <2>2. \A t \in Thread : ~ Has(t)
      BY <1>1, <2>1
    <2>3. \A t \in Thread : HasThen(t) => todo'[t] # todo[t]
      BY <2>2
    <2>4. \A t, u \in Thread : HasThen(t) /\ HasThen(u) => t = u
      BY <2>3, OneThread
    <2> QED
      BY <2>1, <2>4
  <1>4. CASE ~ \E u \in Thread : Fresh(u, c)
    <2>1. \A t \in Thread : HasThen(t) => Has(t)
      BY <1>4, NewInvite
    <2>2. /\ \A t, u \in Thread : HasThen(t) /\ HasThen(u) => t = u
          /\ Invite(c) \in AllTasks' => Invite(c) \in AllTasks
      BY <1>1, <1>2, <2>1
    <2>3. CASE c \in pending' /\ c \notin pending
      <3>1. PICK t \in Thread : Has(t) /\ todo' = [todo EXCEPT ![t] = <<>>] /\ inbox' = inbox
        BY <2>3, NewPending
      <3>2. todo'[t] = <<>>
        BY <3>1 DEF TypeOK
      <3>3. ~ HasThen(t)
        BY <3>2, FewTasks
      <3>4. Invite(c) \notin AllTasks'
        BY <1>1, <1>2, <2>1, <3>1, <3>3
      <3>5. \A m \in inbox' : ~ FinalOf(m, c)
        BY <1>1, <1>2, <3>1
      <3> QED
        BY <2>2, <3>4, <3>5
    <2>4. CASE \E m \in inbox' : m \notin inbox /\ FinalOf(m, c)
      <3>1. PICK m \in inbox' : m \notin inbox /\ FinalOf(m, c)
        BY <2>4
      <3>2. c \in pending /\ c \notin pending' /\ todo' = todo /\ inbox' = inbox \cup {m}
        BY <3>1, NewFinal
      <3>3. Invite(c) \notin AllTasks' /\ \A n \in inbox : ~ FinalOf(n, c)
        BY <1>2, <2>2, <3>2
      <3> QED
        BY <2>2, <3>2, <3>3
    <2>5. CASE /\ c \in pending' => c \in pending
               /\ \A m \in inbox' : FinalOf(m, c) => m \in inbox
      BY <1>2, <2>2, <2>5
    <2> QED
      BY <2>3, <2>4, <2>5
  <1> HIDE DEF Has, HasThen
  <1> QED
    BY <1>3, <1>4 DEF Has, HasThen

\* A call that has nothing open gets an INVITE from the application only.
LEMMA OpenStep ==
  ASSUME TypeOK, Tidy, AfterInvite, OneOpen, [Next]_vars, NEW c \in Call, Open(c)', ~ Open(c)
  PROVE  \E u \in Thread : StartCall(u, c) \/ HoldCall(u, c)
  <1>1. Invite(c) \in AllTasks' \/ c \in pending' \/ \E m \in inbox' : FinalOf(m, c)
    BY DEF Open, Invite, FinalOf
  <1>2. Invite(c) \notin AllTasks /\ c \notin pending /\ \A m \in inbox : ~ FinalOf(m, c)
    BY DEF Open
  <1>3. CASE Invite(c) \in AllTasks'
    <2>1. PICK u \in Thread : Invite(c) \in Tasks(todo'[u])
      BY <1>3 DEF AllTasks
    <2>2. Invite(c) \notin Tasks(todo[u])
      BY <1>2 DEF AllTasks
    <2> QED
      BY <2>1, <2>2, NewInvite, FreshAlone
  <1>4. CASE c \in pending'
    BY <1>2, <1>4, NewPending DEF AllTasks
  <1>5. CASE \E m \in inbox' : FinalOf(m, c)
    BY <1>2, <1>5, NewFinal
  <1> QED
    BY <1>1, <1>3, <1>4, <1>5

\* A final response that is not answered by an INVITE leaves nothing open.
LEMMA Closes ==
  ASSUME TypeOK, OneOpen, NEW c \in Call, NEW t \in Thread, NEW s \in 1 .. 699,
         Responds(t, c, s), s >= SIP_OK, Invite(c) \notin AllTasks' \ AllTasks
  PROVE  ~ Open(c)'
  <1>1. /\ Invite(c) \notin AllTasks /\ c \notin pending'
        /\ \A m \in inbox' : ~ FinalOf(m, c)
    BY Settled
  <1>2. Invite(c) \notin AllTasks'
    BY <1>1
  <1> QED
    BY <1>1, <1>2 DEF Open, Invite, FinalOf

\* Dialogs that a late re-INVITE makes anew are marked for good.
LEMMA GhostStep ==
  ASSUME TypeOK, [Next]_vars, NEW c \in Call
  PROVE  /\ ghosts \subseteq ghosts'
         /\ ~ Known(c) /\ Known(c)' /\ invites[c] > 1 => c \in ghosts'
  <1> DEFINE Goal == /\ ghosts \subseteq ghosts'
                     /\ ~ Known(c) /\ Known(c)' /\ invites[c] > 1 => c \in ghosts'
  <1>1. dialog' = dialog /\ ghosts' = ghosts => Goal
    BY DEF Known
  <1>2. \A b, d : Put(b, d) => DOMAIN dialog' = DOMAIN dialog \cup {b}
    BY DEF Put
  <1>3. ASSUME NEW b, Known(b), NEW d, Put(b, d), ghosts' = ghosts PROVE Goal
    BY <1>2, <1>3 DEF Known
  <1>4. ASSUME NEW b \in Call, Removed(b), ghosts' = ghosts PROVE Goal
    BY <1>4 DEF Removed, Known
  <1>5. CASE UNCHANGED vars
    BY <1>1, <1>5 DEF vars
  <1>6. ASSUME NEW t \in Thread, NEW b \in Call, Application(t, b) PROVE Goal
    <2>1. ghosts' = ghosts
      BY <1>6 DEF Application, StartCall, StopCall, ForwardCall, RingCall, AcceptCall, HoldCall,
         history
    <2>2. CASE StartCall(t, b)
      <3>1. invites[b] = 0 /\ DOMAIN dialog' = DOMAIN dialog \cup {b}
        BY <1>2, <2>2 DEF StartCall
      <3> QED
        BY <2>1, <3>1 DEF Known
    <2>3. CASE StopCall(t, b)
      <3>1. CASE StopConnected(t, b) \/ StopIncoming(t, b)
        BY <1>4, <2>1, <3>1, DialogChanges
      <3>2. CASE StopOutgoing(t, b)
        BY <1>3, <2>1, <2>3, <3>2 DEF StopCall, StopOutgoing
      <3>3. CASE StopNothing(t, b)
        BY <1>1, <2>1, <3>3 DEF StopNothing
      <3> QED
        BY <2>3, <3>1, <3>2, <3>3 DEF StopCall
    <2>4. CASE ForwardCall(t, b)
      BY <1>4, <2>1, <2>4, DialogChanges
    <2>5. CASE RingCall(t, b) \/ HoldCall(t, b)
      BY <1>1, <2>1, <2>5 DEF RingCall, HoldCall
    <2>6. CASE AcceptCall(t, b)
      BY <1>3, <2>1, <2>6 DEF AcceptCall, Unanswered
    <2> QED
      BY <1>6, <2>2, <2>3, <2>4, <2>5, <2>6 DEF Application
  <1>7. ASSUME NEW t \in Thread, NEW b \in Call,
               RecvInviteRequest(t, b) \/ RecvCancelRequest(t, b) \/ RecvByeRequest(t, b)
        PROVE  Goal
    BY <1>1, <1>7 DEF RecvInviteRequest, RecvCancelRequest, RecvByeRequest, history
  <1>8. ASSUME NEW t \in Thread, NEW b \in Call, NEW s \in 1 .. 699, Responds(t, b, s)
        PROVE  Goal
    <2>1. ghosts' = ghosts
      BY <1>8 DEF Responds, history
    <2>2. DOMAIN dialog' = DOMAIN dialog
      BY <1>8, RespondsTasks DEF Changed, Known
    <2> QED
      BY <2>1, <2>2 DEF Known
  <1>9. ASSUME NEW t \in Thread, Proceed(t) PROVE Goal
    <2> DEFINE b == ThisCall(t)
    <2>1. CASE SendSipMessage(t) \/ CallBack(t) \/ AnswerReInvite(t)
      BY <1>1, <2>1 DEF SendSipMessage, CallBack, AnswerReInvite, history
    <2>2. CASE InsertDialog(t)
      <3>1. CASE Known(b)
        BY <1>1, <2>2, <3>1 DEF InsertDialog, history
      <3>2. CASE ~ Known(b)
        <4>1. /\ Put(b, NewDialog(TRUE))
              /\ ghosts' = IF invites[b] > 1 THEN ghosts \cup {b} ELSE ghosts
          BY <2>2, <3>2 DEF InsertDialog
        <4>2. DOMAIN dialog' = DOMAIN dialog \cup {b}
          BY <1>2, <4>1
        <4> QED
          BY <4>1, <4>2 DEF Known
      <3> QED
        BY <3>1, <3>2
    <2>3. CASE CancelInvite(t) \/ SetCallEnd(t)
      <3>1. ghosts' = ghosts
        BY <2>3 DEF CancelInvite, SetCallEnd, history
      <3>2. b \in Call
        BY <2>3, HeadTask DEF CancelInvite, SetCallEnd, AtStep
      <3>3. dialog' = dialog \/ (Known(b) /\ DOMAIN dialog' = DOMAIN dialog \cup {b})
        <4>1. CASE UNCHANGED dialog
          BY <4>1
        <4>2. CASE CancelInvite(t) /\ CanCancel(b)
          BY <3>2, <4>2, DialogChanges DEF CanCancel, Changed
        <4>3. CASE SetCallEnd(t) /\ Known(b)
          BY <3>2, <4>3, DialogChanges DEF Changed
        <4> QED
          BY <2>3, <4>1, <4>2, <4>3 DEF CancelInvite, SetCallEnd
      <3> QED
        BY <1>1, <3>1, <3>3 DEF Known
    <2>4. CASE Delete(t)
      <3>1. ghosts' = ghosts /\ b \in Call
        BY <2>4, HeadTask DEF Delete, AtStep, history
      <3> QED
        BY <1>4, <2>4, <3>1, DialogChanges
    <2> QED
      BY <1>9, <2>1, <2>2, <2>3, <2>4 DEF Proceed
  <1>10. ASSUME NEW b \in Call, SendTimeout(b) PROVE Goal
    BY <1>1, <1>10 DEF SendTimeout
  <1>11. ASSUME NEW b \in Call, Peer(b) PROVE Goal
    BY <1>1, <1>11 DEF Peer, PeerInvites, PeerReInvites, PeerHangsUp, PeerCancels, PeerSends,
       PeerResponds, history
  <1> QED
    BY <1>5, <1>6, <1>7, <1>8, <1>9, <1>10, <1>11, Steps

\* What a request on its way says of the peer; an INVITE is its first one or a later one.
LEMMA RequestArrives ==
  ASSUME TypeOK, AfterInvite, [Next]_vars, NEW c \in Call
  PROVE  /\ Message(c, "INVITE", 0) \in inbox' \ inbox => Incoming(c)' \/ invites'[c] >= 2
         /\ Message(c, "CANCEL", 0) \in inbox' \ inbox => "CANCEL" \in peer'[c]
         /\ Message(c, "BYE", 0) \in inbox' \ inbox => "BYE" \in peer'[c]
  <1> DEFINE Goal == /\ Message(c, "INVITE", 0) \in inbox' \ inbox => Incoming(c)' \/ invites'[c] >= 2
                     /\ Message(c, "CANCEL", 0) \in inbox' \ inbox => "CANCEL" \in peer'[c]
                     /\ Message(c, "BYE", 0) \in inbox' \ inbox => "BYE" \in peer'[c]
  <1>1. inbox' \subseteq inbox => Goal
    OBVIOUS
  <1>2. ASSUME NEW b \in Call, Peer(b) PROVE Goal
    <2>1. \A m, n, r, s, a : Message(a, m, r) = Message(c, n, s) => a = c /\ m = n /\ r = s
      BY DEF Message
    <2>2. RestOK /\ peer \in [Call -> SUBSET PeerAct]
      BY Types, Rest
    <2>3. ASSUME NEW act, NEW method, PeerSends(b, act, method)
          PROVE  inbox' = inbox \cup {Message(b, method, 0)} /\ act \in peer'[b]
      BY <2>2, <2>3 DEF PeerSends
    <2>4. CASE PeerInvites(b)
      BY <2>1, <2>3, <2>4 DEF PeerInvites, Incoming
    <2>5. CASE PeerReInvites(b)
      <3>1. invites[b] >= 1
        <4>1. Message(b, "INVITE", SIP_OK).call = b
          BY DEF Message
        <4> QED
          BY <2>5, <4>1 DEF PeerReInvites, Established, AfterInvite
      <3>2. invites'[b] = invites[b] + 1
        BY <2>2, <2>5 DEF PeerReInvites, CreateInvite, RestOK
      <3>3. invites[b] \in Nat
        BY <2>2, UserAgentAssumption DEF RestOK
      <3>4. invites'[b] >= 2
        BY <3>1, <3>2, <3>3
      <3> QED
        BY <2>1, <2>3, <2>5, <3>4 DEF PeerReInvites
    <2>6. CASE PeerHangsUp(b)
      BY <2>1, <2>3, <2>6 DEF PeerHangsUp
    <2>7. CASE PeerCancels(b)
      BY <2>1, <2>3, <2>7 DEF PeerCancels
    <2>8. ASSUME NEW s \in Status, PeerResponds(b, s) PROVE Goal
      <3>1. s \in 1 .. 699 /\ inbox' = inbox \cup {Message(b, "INVITE", s)}
        BY <2>8, Statuses DEF PeerResponds
      <3> QED
        BY <2>1, <3>1
    <2> QED
      BY <1>2, <2>4, <2>5, <2>6, <2>7, <2>8 DEF Peer
  <1>3. ASSUME NEW t \in Thread, Proceed(t) PROVE inbox' = inbox
    BY <1>3, ProceedKinds
  <1>4. Steady => inbox' \subseteq inbox
    BY DEF Steady
  <1> HIDE DEF Goal
  <1>5. Goal
    BY <1>1, <1>2, <1>3, <1>4, StepKinds
  <1> QED
    BY <1>5 DEF Goal

LEMMA ReportDeletes ==
  ASSUME NEW d, NEW c \in Call, NEW s \in 1 .. 699, Lock(c, "Delete") \in Tasks(Report(d, c, s))
  PROVE  s >= SIP_OK /\ ~ Success(s) /\ (d.start => Challenge(s))
  <1>1. \A n : Lock(c, "Delete") # Event(c, n, s)
    BY TaskKinds
  <1>2. \A n : Report(d, c, s) # <<Event(c, n, s)>>
    <2> SUFFICES ASSUME NEW n, Report(d, c, s) = <<Event(c, n, s)>> PROVE FALSE
      OBVIOUS
    <2>1. Tasks(Report(d, c, s)) = {Event(c, n, s)}
      BY FewTasks
    <2> QED
      BY <1>1, <2>1
  <1> QED
    BY <1>2 DEF Report, SIP_OK

\* The tasks that delete a dialog come from a request of the peer that ends the call, or
\* from a response that fails it.
LEMMA NewDelete ==
  ASSUME TypeOK, [Next]_vars, NEW c \in Call, Lock(c, "Delete") \in AllTasks' \ AllTasks
  PROVE  \/ Lock(c, "CancelInvite") \in AllTasks \/ Lock(c, "SetCallEnd") \in AllTasks
         \/ \E t \in Thread, s \in 1 .. 699 :
              /\ Responds(t, c, s) /\ s >= SIP_OK /\ ~ Success(s)
              /\ Known(c) /\ Reports(dialog[c], s) /\ (dialog[c].start => Challenge(s))
              /\ Changed(c, Responded(dialog[c], s)) /\ Invite(c) \notin AllTasks' \ AllTasks
  <1> DEFINE x == Lock(c, "Delete")
             Goal == \/ Lock(c, "CancelInvite") \in AllTasks \/ Lock(c, "SetCallEnd") \in AllTasks
                     \/ \E t \in Thread, s \in 1 .. 699 :
                          /\ Responds(t, c, s) /\ s >= SIP_OK /\ ~ Success(s)
                          /\ Known(c) /\ Reports(dialog[c], s) /\ (dialog[c].start => Challenge(s))
                          /\ Changed(c, Responded(dialog[c], s))
                          /\ Invite(c) \notin AllTasks' \ AllTasks
  <1>1. todo' = todo => AllTasks' = AllTasks
    BY DEF AllTasks
  <1>2. /\ \A b, n, s : x # Send(b, n, s) /\ x # Event(b, n, s)
        /\ \A b, n : x = Lock(b, n) => b = c /\ n = "Delete"
    BY TaskKinds
  <1> HIDE DEF x
  <1>3. x \in AllTasks' /\ x \notin AllTasks
    BY DEF x
  <1>4. CASE UNCHANGED vars
    BY <1>1, <1>3, <1>4 DEF vars
  <1>5. ASSUME NEW t \in Thread, NEW b \in Call, Application(t, b) PROVE FALSE
    <2>1. CASE StartCall(t, b) \/ HoldCall(t, b)
      BY <1>2, <1>3, <2>1, Beginnings DEF Begun
    <2>2. CASE StopCall(t, b)
      BY <1>2, <1>3, <2>2, Beginnings DEF StopCall, Begun
    <2>3. CASE ForwardCall(t, b) \/ RingCall(t, b) \/ AcceptCall(t, b)
      BY <1>2, <1>3, <2>3, Beginnings DEF Begun
    <2> QED
      BY <1>5, <2>1, <2>2, <2>3 DEF Application
  <1>6. ASSUME NEW t \in Thread, NEW b \in Call,
               RecvInviteRequest(t, b) \/ RecvCancelRequest(t, b) \/ RecvByeRequest(t, b)
        PROVE  FALSE
    <2>1. CASE RecvInviteRequest(t, b)
      BY <1>2, <1>3, <2>1, Beginnings DEF Begun
    <2>2. CASE RecvCancelRequest(t, b) \/ RecvByeRequest(t, b)
      BY <1>2, <1>3, <2>2, Beginnings DEF Begun
    <2> QED
      BY <1>6, <2>1, <2>2
  <1>7. ASSUME NEW t \in Thread, NEW b \in Call, NEW s \in 1 .. 699, Responds(t, b, s)
        PROVE  Goal
    <2>1. PICK A \in SUBSET {Send(b, "ACK", 0)} :
             \/ /\ ~ Known(b)
                /\ Begun({})
                /\ UNCHANGED <<dialog, invites>>
             \/ /\ Known(b) /\ Retries(dialog[b], s)
                /\ Begun(A \cup {Send(b, "INVITE", 0)})
                /\ CreateInvite(b)
                /\ Put(b, Responded(dialog[b], s))
             \/ /\ Known(b) /\ Reports(dialog[b], s)
                /\ Begun(A \cup Tasks(Report(dialog[b], b, s)))
                /\ Put(b, Responded(dialog[b], s))
                /\ UNCHANGED invites
      BY <1>7, ResponseTasks DEF Responds
    <2>2. x \notin A /\ x # Send(b, "INVITE", 0)
      BY <1>2
    <2>3. /\ Known(b) /\ Reports(dialog[b], s)
          /\ Begun(A \cup Tasks(Report(dialog[b], b, s)))
          /\ Put(b, Responded(dialog[b], s))
      BY <1>3, <2>1, <2>2 DEF Begun
    <2>4. x \in Tasks(Report(dialog[b], b, s))
      BY <1>3, <2>2, <2>3 DEF Begun
    <2>5. x = Lock(b, "Delete")
      <3>1. \A y \in Tasks(Report(dialog[b], b, s)) :
              y = Lock(b, "Delete") \/ \E n : y = Event(b, n, s)
        BY ReportTasks
      <3> QED
        BY <1>2, <2>4, <3>1
    <2>6. b = c
      BY <1>2, <2>5
    <2>7. s >= SIP_OK /\ ~ Success(s) /\ (dialog[b].start => Challenge(s))
      BY <2>4, <2>5, ReportDeletes
    <2>8. Changed(b, Responded(dialog[b], s))
      BY <1>7, <2>3, DialogChanges
    <2>9. Invite(c) \notin AllTasks' \ AllTasks
      <3>1. Invite(c) \notin A
        BY InviteTask
      <3>2. \A y \in Tasks(Report(dialog[b], b, s)) :
              y = Lock(b, "Delete") \/ \E n : y = Event(b, n, s)
        BY ReportTasks
      <3>3. Invite(c) \notin Tasks(Report(dialog[b], b, s))
        BY <3>2, InviteTask
      <3> QED
        BY <2>3, <3>1, <3>3 DEF Begun
    <2> QED
      BY <1>7, <2>3, <2>6, <2>7, <2>8, <2>9
  <1>8. ASSUME NEW t \in Thread, Proceed(t) PROVE Goal
    <2> DEFINE b == ThisCall(t)
    <2>1. todo[t] # <<>>
      BY <1>8, ProceedKinds
    <2>2. b \in Call /\ Head(todo[t]) \in Task /\ Head(todo[t]) \in AllTasks
      BY <1>8, <2>1, HeadTask, ProceedKinds
    <2>3. CASE SendSipMessage(t) \/ CallBack(t) \/ Delete(t)
      BY <1>3, <2>2, <2>3, Continuations DEF WentOn
    <2>4. CASE InsertDialog(t) \/ AnswerReInvite(t)
      <3>1. AllTasks' \subseteq AllTasks \cup {Event(b, "EventIncomingCall", 0), Send(b, "INVITE", SIP_OK)}
        BY <2>2, <2>4, Continuations DEF WentOn
      <3> QED
        BY <1>2, <1>3, <3>1
    <2>5. CASE CancelInvite(t)
      <3>1. AllTasks' \subseteq AllTasks \cup {Send(b, "INVITE", SIP_REQUEST_TERMINATED),
               Event(b, "EventCallEnd", SIP_REQUEST_TERMINATED), Lock(b, "Delete")}
        BY <2>2, <2>5, Continuations DEF WentOn
      <3>2. b = c
        BY <1>2, <1>3, <3>1
      <3>3. Head(todo[t]) = Lock(b, "CancelInvite")
        BY <2>2, <2>5 DEF CancelInvite, AtStep, Lock, Step, Task, ThisCall
      <3> QED
        BY <2>2, <3>2, <3>3
    <2>6. CASE SetCallEnd(t)
      <3>1. AllTasks' \subseteq AllTasks \cup {Event(b, "EventCallEnd", SIP_OK), Lock(b, "Delete")}
        BY <2>2, <2>6, Continuations DEF WentOn
      <3>2. b = c
        BY <1>2, <1>3, <3>1
      <3>3. Head(todo[t]) = Lock(b, "SetCallEnd")
        BY <2>2, <2>6 DEF SetCallEnd, AtStep, Lock, Step, Task, ThisCall
      <3> QED
        BY <2>2, <3>2, <3>3
    <2> QED
      BY <1>8, <2>3, <2>4, <2>5, <2>6 DEF Proceed
  <1>9. ASSUME NEW b \in Call, SendTimeout(b) PROVE FALSE
    BY <1>3, <1>9, Beginnings, Threads DEF Begun
  <1>10. ASSUME NEW b \in Call, Peer(b) PROVE FALSE
    BY <1>1, <1>3, <1>10, PeerKinds
  <1> QED
    BY <1>4, <1>5, <1>6, <1>7, <1>8, <1>9, <1>10, Steps

\* How the dialog of a call that stays changes: it is connected by the application when it
\* was received, by a final response when an INVITE is open; a cancelled one stays cancelled.
LEMMA DialogFields ==
  ASSUME TypeOK, AfterInvite, [Next]_vars, NEW c \in Call, Known(c), Known(c)'
  PROVE  /\ dialog[c].start => dialog'[c].start
         /\ dialog[c].cancel => dialog'[c].cancel
         /\ dialog'[c].cancel =>
              dialog[c].cancel \/ (~ dialog[c].start /\ ~ dialog[c].invite)
         /\ dialog'[c].invite => dialog[c].invite
         /\ dialog'[c].start /\ ~ dialog[c].start =>
              \/ dialog[c].invite
              \/ \E t \in Thread, s \in 1 .. 699 : Responds(t, c, s) /\ s >= SIP_OK
  <1>1. dialog[c] \in CSipDialog /\ c \in DOMAIN dialog' /\ invites[c] >= 1
    BY Types DEF DialogsOK, Known, AfterInvite
  <1>2. CASE Kept(c)
    BY <1>2 DEF Kept
  <1>3. CASE Started(c) \/ Inserted(c)
    BY <1>1, <1>3 DEF Started, Inserted
  <1>4. CASE Cancelled(c)
    BY <1>1, <1>4 DEF Cancelled, CSipDialog
  <1>5. CASE TookResponse(c)
    <2>1. PICK s \in 1 .. 699 : /\ \E t \in Thread : Responds(t, c, s)
                               /\ dialog'[c] = Responded(dialog[c], s)
      BY <1>5 DEF TookResponse
    <2>2. /\ dialog'[c].start = (dialog[c].start \/ Success(s))
          /\ dialog'[c].cancel = dialog[c].cancel /\ dialog'[c].invite = dialog[c].invite
      BY <1>1, <2>1 DEF Responded, CSipDialog
    <2>3. Success(s) => s >= SIP_OK
      BY DEF Success
    <2> QED
      BY <2>1, <2>2, <2>3
  <1>6. CASE Ended(c)
    BY <1>1, <1>6 DEF Ended, CSipDialog
  <1>7. CASE TookCall(c)
    BY <1>1, <1>7 DEF TookCall, Unanswered, Accepted, CSipDialog
  <1> QED
    BY <1>1, <1>2, <1>3, <1>4, <1>5, <1>6, <1>7, DialogStep DEF Became

\* Nothing is open for a call of a peer and its dialog, unless the application holds the
\* call; a dialog that a late re-INVITE made may find the INVITEs of the former one.
IncomingClosed ==
  \A c \in Call : Incoming(c) /\ c \notin ghosts =>
    /\ invites[c] < 2 => ~ Open(c)
    /\ Known(c) => ~ dialog[c].cancel /\ (~ dialog[c].start => ~ Open(c))

\* A dialog with the INVITE of a peer is that of a call the peer made.
OutgoingNoInvite == \A c \in DOMAIN dialog : Incoming(c) \/ c \in ghosts \/ ~ dialog[c].invite

\* An INVITE of a peer is its first one, or comes after another INVITE of the call.
CrossedInvite ==
  \A c \in Call : Message(c, "INVITE", 0) \in inbox \/ Lock(c, "InsertDialog") \in AllTasks =>
    Incoming(c) \/ invites[c] >= 2

PeerEnds ==
  \A c \in Call :
    /\ Message(c, "BYE", 0) \in inbox \/ Lock(c, "SetCallEnd") \in AllTasks => "BYE" \in peer[c]
    /\ Message(c, "CANCEL", 0) \in inbox \/ Lock(c, "CancelInvite") \in AllTasks =>
         "CANCEL" \in peer[c]

\* A thread that is about to delete the dialog of a call does so for a reason that stays one:
\* the peer ended the call, or the INVITE failed and the call cannot become connected.
DeleteIsDue ==
  \A c \in Call : Lock(c, "Delete") \in AllTasks =>
    \/ peer[c] \cap {"BYE", "CANCEL"} # {}
    \/ c \in ghosts
    \/ /\ ~ Incoming(c)
       /\ Known(c) => dialog[c].cancel \/ (~ dialog[c].start /\ ~ Open(c))

EndsInv ==
  /\ HandlersInv /\ CallMade /\ OneOpen
  /\ IncomingClosed /\ OutgoingNoInvite /\ CrossedInvite /\ PeerEnds /\ DeleteIsDue

\* A call that has INVITEs and no connected dialog gets nothing open.
LEMMA StaysClosed ==
  ASSUME TypeOK, Tidy, AfterInvite, OneOpen, [Next]_vars, NEW c \in Call, invites[c] >= 1,
         ~ Open(c), Open(c)'
  PROVE  Known(c) /\ dialog[c].start /\ invites'[c] >= 2
  <1>1. PICK u \in Thread : StartCall(u, c) \/ HoldCall(u, c)
    BY OpenStep
  <1>2. HoldCall(u, c)
    <2>1. StartCall(u, c) => invites[c] = 0
      BY DEF StartCall
    <2> QED
      BY <1>1, <2>1
  <1>3. RestOK /\ invites[c] \in Nat
    BY Types, UserAgentAssumption DEF RestOK
  <1>4. invites'[c] = invites[c] + 1
    BY <1>2, <1>3 DEF HoldCall, CreateInvite, RestOK
  <1> QED
    BY <1>2, <1>3, <1>4 DEF HoldCall

LEMMA Counts ==
  ASSUME TypeOK, [Next]_vars, NEW c \in Call
  PROVE  invites[c] \in Nat /\ invites'[c] \in Nat /\ invites'[c] >= invites[c]
  BY TypeStep, Types, TypesAfter, Monotone, UserAgentAssumption DEF RestOK

LEMMA IncomingClosedStep == EndsInv /\ [Next]_vars => IncomingClosed'
  <1> SUFFICES ASSUME EndsInv, [Next]_vars, NEW c \in Call, Incoming(c)', c \notin ghosts'
               PROVE  /\ invites'[c] < 2 => ~ Open(c)'
                      /\ Known(c)' => ~ dialog'[c].cancel /\ (~ dialog'[c].start => ~ Open(c)')
    BY DEF IncomingClosed, Incoming, Known, Open, Invite, FinalOf
  <1>1. TypeOK /\ Tidy /\ AfterInvite /\ CallMade /\ OneOpen /\ IncomingClosed
    BY DEF EndsInv, HandlersInv
  <1>2. c \notin ghosts
    BY <1>1, GhostStep
  <1>3. invites[c] \in Nat /\ invites'[c] \in Nat /\ invites'[c] >= invites[c]
    BY <1>1, Counts
  <1>4. CASE ~ Incoming(c)
    <2>1. invites[c] = 0 /\ dialog' = dialog
      BY <1>1, <1>4, PeerStep
    <2>2. ~ Known(c)' /\ c \notin pending /\ Invite(c) \notin AllTasks
          /\ \A m \in inbox : m.call # c
      BY <1>1, <2>1, InviteTask DEF AfterInvite, Known
    <2>3. ~ Open(c)
      BY <2>2 DEF Open, FinalOf
    <2>4. ~ Open(c)'
      <3> SUFFICES ASSUME Open(c)' PROVE FALSE
        OBVIOUS
      <3>1. PICK u \in Thread : StartCall(u, c) \/ HoldCall(u, c)
        BY <1>1, <2>3, OpenStep
      <3>2. peer' = peer
        BY <3>1 DEF StartCall, HoldCall
      <3> QED
        BY <1>4, <3>2 DEF Incoming
    <2> QED
      BY <2>2, <2>4
  <1>5. CASE Incoming(c)
    <2>1. invites[c] >= 1
      BY <1>1, <1>5 DEF CallMade, Invited
    <2>2. /\ invites[c] < 2 => ~ Open(c)
          /\ Known(c) => ~ dialog[c].cancel /\ (~ dialog[c].start => ~ Open(c))
      BY <1>1, <1>2, <1>5 DEF IncomingClosed
    <2>3. ASSUME ~ Open(c), Open(c)' PROVE Known(c) /\ dialog[c].start /\ invites'[c] >= 2
      BY <1>1, <2>1, <2>3, StaysClosed
    <2>4. invites'[c] < 2 => ~ Open(c)'
      BY <1>3, <2>2, <2>3
    <2>5. ASSUME Known(c)', ~ Known(c)
          PROVE  ~ dialog'[c].cancel /\ ~ Open(c)'
      <3>1. Inserted(c)
        <4>1. Started(c) => invites[c] = 0
          BY DEF Started
        <4> QED
          BY <1>1, <2>1, <2>5, <4>1, DialogOf
      <3>2. invites[c] < 2
        BY <1>1, <1>3, <2>5, GhostStep
      <3> QED
        BY <2>2, <2>3, <2>5, <3>1, <3>2 DEF Inserted, NewDialog
    <2>6. ASSUME Known(c)', Known(c)
          PROVE  ~ dialog'[c].cancel /\ (~ dialog'[c].start => ~ Open(c)')
      <3>1. dialog[c].start \/ dialog[c].invite
        BY <1>1, <1>5, <2>6 DEF CallMade, IncomingHasInvite, Known
      <3>2. /\ dialog[c].start => dialog'[c].start
            /\ dialog'[c].cancel =>
                 dialog[c].cancel \/ (~ dialog[c].start /\ ~ dialog[c].invite)
        BY <1>1, <2>6, DialogFields
      <3> QED
        BY <2>2, <2>3, <2>6, <3>1, <3>2
    <2> QED
      BY <2>4, <2>5, <2>6
  <1> QED
    BY <1>4, <1>5

LEMMA CrossedStep == EndsInv /\ [Next]_vars => OutgoingNoInvite' /\ CrossedInvite' /\ PeerEnds'
  <1> SUFFICES ASSUME EndsInv, [Next]_vars PROVE OutgoingNoInvite' /\ CrossedInvite' /\ PeerEnds'
    OBVIOUS
  <1>1. TypeOK /\ AfterInvite /\ OutgoingNoInvite /\ CrossedInvite /\ PeerEnds
    BY DEF EndsInv, HandlersInv
  <1>2. ASSUME NEW c \in Call
        PROVE  /\ Incoming(c) => Incoming(c)'
               /\ invites[c] >= 2 => invites'[c] >= 2
               /\ peer[c] \subseteq peer'[c]
    BY <1>1, Counts, Monotone DEF Incoming
  <1>3. ASSUME NEW c \in DOMAIN dialog'
        PROVE  Incoming(c)' \/ c \in ghosts' \/ ~ dialog'[c].invite
    <2>1. c \in Call /\ Known(c)'
      BY <1>1, TypeStep, TypesAfter DEF DialogsOK, Known
    <2>2. CASE Known(c)
      <3>1. Incoming(c) \/ c \in ghosts \/ ~ dialog[c].invite
        BY <1>1, <2>2 DEF OutgoingNoInvite, Known
      <3>2. dialog'[c].invite => dialog[c].invite
        BY <1>1, <2>1, <2>2, DialogFields
      <3> QED
        BY <1>1, <1>2, <2>1, <3>1, <3>2, GhostStep
    <2>3. CASE ~ Known(c)
      <3>1. CASE Started(c)
        BY <3>1 DEF Started, NewDialog
      <3>2. CASE Inserted(c)
        <4>1. Incoming(c) \/ invites[c] >= 2
          BY <1>1, <2>1, <3>2 DEF Inserted, CrossedInvite
        <4>2. invites[c] \in Nat
          BY <1>1, <2>1, Counts
        <4> QED
          BY <1>1, <1>2, <2>1, <2>3, <4>1, <4>2, GhostStep
      <3> QED
        BY <1>1, <2>1, <2>3, <3>1, <3>2, DialogOf
    <2> QED
      BY <2>2, <2>3
  <1>4. ASSUME NEW c \in Call,
               Message(c, "INVITE", 0) \in inbox' \/ Lock(c, "InsertDialog") \in AllTasks'
        PROVE  Incoming(c)' \/ invites'[c] >= 2
    <2>1. Message(c, "INVITE", 0) \in inbox \/ Lock(c, "InsertDialog") \in AllTasks =>
            Incoming(c)' \/ invites'[c] >= 2
      BY <1>1, <1>2 DEF CrossedInvite
    <2>2. Lock(c, "InsertDialog") \in AllTasks' =>
            Lock(c, "InsertDialog") \in AllTasks \/ Message(c, "INVITE", 0) \in inbox
      BY <1>1, NewTasks DEF Source
    <2> QED
      BY <1>1, <1>4, <2>1, <2>2, RequestArrives
  <1>5. ASSUME NEW c \in Call,
               Message(c, "BYE", 0) \in inbox' \/ Lock(c, "SetCallEnd") \in AllTasks'
        PROVE  "BYE" \in peer'[c]
    <2>1. Message(c, "BYE", 0) \in inbox \/ Lock(c, "SetCallEnd") \in AllTasks =>
            "BYE" \in peer'[c]
      BY <1>1, <1>2 DEF PeerEnds
    <2>2. Lock(c, "SetCallEnd") \in AllTasks' =>
            Lock(c, "SetCallEnd") \in AllTasks \/ Message(c, "BYE", 0) \in inbox
      BY <1>1, NewTasks DEF Source
    <2> QED
      BY <1>1, <1>5, <2>1, <2>2, RequestArrives
  <1>6. ASSUME NEW c \in Call,
               Message(c, "CANCEL", 0) \in inbox' \/ Lock(c, "CancelInvite") \in AllTasks'
        PROVE  "CANCEL" \in peer'[c]
    <2>1. Message(c, "CANCEL", 0) \in inbox \/ Lock(c, "CancelInvite") \in AllTasks =>
            "CANCEL" \in peer'[c]
      BY <1>1, <1>2 DEF PeerEnds
    <2>2. Lock(c, "CancelInvite") \in AllTasks' =>
            Lock(c, "CancelInvite") \in AllTasks \/ Message(c, "CANCEL", 0) \in inbox
      BY <1>1, NewTasks DEF Source
    <2> QED
      BY <1>1, <1>6, <2>1, <2>2, RequestArrives
  <1>7. OutgoingNoInvite'
    BY <1>3 DEF OutgoingNoInvite, Incoming
  <1>8. CrossedInvite'
    BY <1>4 DEF CrossedInvite, Incoming, Message, Lock, Step
  <1>9. PeerEnds'
    BY <1>5, <1>6 DEF PeerEnds, Message, Lock, Step
  <1> QED
    BY <1>7, <1>8, <1>9

LEMMA DeleteStep == EndsInv /\ [Next]_vars => DeleteIsDue'
  <1> SUFFICES ASSUME EndsInv, [Next]_vars, NEW c \in Call, Lock(c, "Delete") \in AllTasks',
                      peer'[c] \cap {"BYE", "CANCEL"} = {}, c \notin ghosts'
               PROVE  /\ ~ Incoming(c)'
                      /\ Known(c)' => dialog'[c].cancel \/ (~ dialog'[c].start /\ ~ Open(c)')
    BY DEF DeleteIsDue, Incoming, Known, Open, Invite, FinalOf, Lock, Step
  <1>1. /\ TypeOK /\ Tidy /\ AfterInvite /\ OneOpen
        /\ IncomingClosed /\ OutgoingNoInvite /\ CrossedInvite /\ PeerEnds /\ DeleteIsDue
    BY DEF EndsInv, HandlersInv
  <1>2. c \notin ghosts /\ peer[c] \cap {"BYE", "CANCEL"} = {}
    BY <1>1, GhostStep, Monotone
  <1>3. invites[c] \in Nat
    BY <1>1, Counts
  <1>4. CASE Lock(c, "Delete") \in AllTasks
    <2>1. invites[c] >= 1
      BY <1>1, <1>4, TaskFields DEF AfterInvite
    <2>2. ~ Incoming(c) /\ (Known(c) => dialog[c].cancel \/ (~ dialog[c].start /\ ~ Open(c)))
      BY <1>1, <1>2, <1>4 DEF DeleteIsDue
    <2>3. ~ Incoming(c)'
      BY <1>1, <1>3, <2>1, <2>2, PeerStep
    <2>4. ASSUME Known(c)', ~ Known(c) PROVE FALSE
      <3>1. Inserted(c)
        <4>1. Started(c) => invites[c] = 0
          BY DEF Started
        <4> QED
          BY <1>1, <2>1, <2>4, <4>1, DialogOf
      <3>2. invites[c] >= 2
        BY <1>1, <2>2, <3>1 DEF Inserted, CrossedInvite
      <3> QED
        BY <1>1, <1>3, <2>4, <3>2, GhostStep
    <2>5. ASSUME Known(c)', Known(c), ~ dialog'[c].cancel PROVE ~ dialog'[c].start /\ ~ Open(c)'
      <3>1. /\ dialog[c].cancel => dialog'[c].cancel
            /\ dialog'[c].start /\ ~ dialog[c].start =>
                 \/ dialog[c].invite
                 \/ \E t \in Thread, s \in 1 .. 699 : Responds(t, c, s) /\ s >= SIP_OK
        BY <1>1, <2>5, DialogFields
      <3>2. ~ dialog[c].start /\ ~ Open(c)
        BY <2>2, <2>5, <3>1
      <3>3. ~ dialog[c].invite
        BY <1>1, <1>2, <2>2, <2>5 DEF OutgoingNoInvite, Known
      <3>4. ~ \E t \in Thread, s \in 1 .. 699 : Responds(t, c, s) /\ s >= SIP_OK
        BY <1>1, <3>2, Settled
      <3>5. ~ Open(c)'
        BY <1>1, <2>1, <3>2, StaysClosed
      <3> QED
        BY <3>1, <3>2, <3>3, <3>4, <3>5
    <2> QED
      BY <2>3, <2>4, <2>5
  <1>5. CASE Lock(c, "Delete") \notin AllTasks
    <2>1. Lock(c, "CancelInvite") \notin AllTasks /\ Lock(c, "SetCallEnd") \notin AllTasks
      BY <1>1, <1>2 DEF PeerEnds
    <2>2. PICK t \in Thread, s \in 1 .. 699 :
             /\ Responds(t, c, s) /\ s >= SIP_OK /\ ~ Success(s)
             /\ Known(c) /\ Reports(dialog[c], s) /\ (dialog[c].start => Challenge(s))
             /\ Changed(c, Responded(dialog[c], s)) /\ Invite(c) \notin AllTasks' \ AllTasks
      BY <1>1, <1>5, <2>1, NewDelete
    <2>3. Open(c) /\ ~ Open(c)'
      BY <1>1, <2>2, Settled, Closes
    <2>4. dialog[c].start => dialog[c].cancel
      BY <2>2 DEF Reports, Retries, Challenge, SIP_MOVED_TEMPORARILY, SIP_UNAUTHORIZED,
         SIP_PROXY_AUTHENTICATION_REQUIRED
    <2>5. ~ Incoming(c)
      BY <1>1, <1>2, <2>2, <2>3, <2>4 DEF IncomingClosed
    <2>6. ~ Incoming(c)'
      <3>1. peer' = peer
        BY <2>2 DEF Responds
      <3> QED
        BY <2>5, <3>1 DEF Incoming
    <2>7. dialog'[c].cancel = dialog[c].cancel /\ dialog'[c].start = dialog[c].start
      <3>1. dialog[c] \in CSipDialog /\ dialog'[c] = Responded(dialog[c], s)
        BY <1>1, <2>2, Types DEF DialogsOK, Known, Changed
      <3> QED
        BY <2>2, <3>1 DEF Responded, CSipDialog
    <2> QED
      BY <2>3, <2>4, <2>6, <2>7
  <1> QED
    BY <1>4, <1>5

LEMMA EndsInit == Init => EndsInv
  <1> SUFFICES ASSUME Init PROVE EndsInv
    OBVIOUS
  <1>1. HandlersInv /\ CallMade
    BY HandlersInvInit, CallMadeInit
  <1>2. /\ \A c : ~ Known(c) /\ c \notin pending /\ c \notin ghosts
        /\ inbox = {} /\ \A c \in Call : ~ Incoming(c)
    BY DEF Init, Known, Incoming
  <1>3. AllTasks = {} /\ \A t \in Thread : Tasks(todo[t]) = {}
    BY FewTasks DEF Init, AllTasks
  <1>4. OneOpen
    BY <1>2, <1>3 DEF OneOpen
  <1>5. IncomingClosed /\ OutgoingNoInvite /\ CrossedInvite /\ PeerEnds /\ DeleteIsDue
    BY <1>2, <1>3 DEF IncomingClosed, OutgoingNoInvite, CrossedInvite, PeerEnds, DeleteIsDue, Known
  <1> QED
    BY <1>1, <1>4, <1>5 DEF EndsInv

LEMMA EndsStep == EndsInv /\ [Next]_vars => EndsInv'
  <1> SUFFICES ASSUME EndsInv, [Next]_vars PROVE EndsInv'
    OBVIOUS
  <1>1. HandlersInv' /\ CallMade'
    BY HandlersInvStep, CallMadeStep DEF EndsInv, HandlersInv
  <1>2. OneOpen'
    BY OneOpenStep DEF EndsInv, HandlersInv
  <1> QED
    BY <1>1, <1>2, IncomingClosedStep, CrossedStep, DeleteStep DEF EndsInv

\* Who removes the dialog of a connected call.
LEMMA WhoDeletes ==
  ASSUME TypeOK, Tidy, [Next]_vars, NEW c \in Call, Known(c), ~ Known(c)', dialog[c].start
  PROVE  Queued(Send(c, "BYE", 0))' \/ Lock(c, "Delete") \in AllTasks
  <1> DEFINE Goal == Queued(Send(c, "BYE", 0))' \/ Lock(c, "Delete") \in AllTasks
  <1>1. dialog' # dialog
    BY DEF Known
  <1>2. \A b, d : ~ Changed(b, d)
    BY DEF Changed, Known
  <1>3. \A b : Removed(b) => b = c
    BY DEF Removed, Known
  <1>4. ASSUME NEW t \in Thread, NEW b \in Call, Application(t, b) PROVE Goal
    <2>1. CASE StopCall(t, b)
      <3>1. CASE StopConnected(t, b)
        <4>1. b = c
          BY <1>3, <3>1, DialogChanges
        <4>2. Send(c, "BYE", 0) \in AllTasks'
          BY <3>1, <4>1, Beginnings DEF Begun
        <4> QED
          BY <4>2 DEF Queued, AllTasks, Tasks
      <3>2. CASE StopIncoming(t, b)
        <4>1. b = c
          BY <1>3, <3>2, DialogChanges
        <4> QED
          BY <3>2, <4>1 DEF StopIncoming, Unanswered
      <3>3. CASE StopOutgoing(t, b)
        BY <1>2, <2>1, <3>3, DialogChanges DEF StopCall
      <3>4. CASE StopNothing(t, b)
        BY <1>1, <3>4 DEF StopNothing
      <3> QED
        BY <2>1, <3>1, <3>2, <3>3, <3>4 DEF StopCall
    <2>2. CASE ForwardCall(t, b)
      <3>1. b = c
        BY <1>3, <2>2, DialogChanges
      <3> QED
        BY <2>2, <3>1 DEF ForwardCall, Unanswered
    <2>3. CASE StartCall(t, b) \/ AcceptCall(t, b)
      BY <1>2, <2>3, DialogChanges
    <2>4. CASE RingCall(t, b) \/ HoldCall(t, b)
      BY <1>1, <2>4 DEF RingCall, HoldCall
    <2> QED
      BY <1>4, <2>1, <2>2, <2>3, <2>4 DEF Application
  <1>5. CASE UNCHANGED vars
    BY <1>1, <1>5 DEF vars
  <1>6. ASSUME NEW t \in Thread, NEW b \in Call,
               RecvInviteRequest(t, b) \/ RecvCancelRequest(t, b) \/ RecvByeRequest(t, b)
        PROVE  Goal
    BY <1>1, <1>6 DEF RecvInviteRequest, RecvCancelRequest, RecvByeRequest
  <1>7. ASSUME NEW t \in Thread, NEW b \in Call, NEW s \in 1 .. 699, Responds(t, b, s)
        PROVE  Goal
    BY <1>1, <1>2, <1>7, RespondsTasks
  <1>8. ASSUME NEW t \in Thread, Proceed(t) PROVE Goal
    <2> DEFINE b == ThisCall(t)
    <2>1. b \in Call
      BY <1>8, HeadTask, ProceedKinds
    <2>2. CASE SendSipMessage(t) \/ CallBack(t) \/ AnswerReInvite(t)
      BY <1>1, <2>2 DEF SendSipMessage, CallBack, AnswerReInvite
    <2>3. CASE InsertDialog(t)
      <3>1. Known(b) => dialog' = dialog
        BY <2>3 DEF InsertDialog
      <3> QED
        BY <1>1, <1>2, <2>1, <2>3, <3>1, DialogChanges
    <2>4. CASE CancelInvite(t)
      <3>1. ~ CanCancel(b) => dialog' = dialog
        BY <2>4 DEF CancelInvite
      <3> QED
        BY <1>1, <1>2, <2>1, <2>4, <3>1, DialogChanges
    <2>5. CASE SetCallEnd(t)
      <3>1. ~ Known(b) => dialog' = dialog
        BY <2>5 DEF SetCallEnd
      <3> QED
        BY <1>1, <1>2, <2>1, <2>5, <3>1, DialogChanges
    <2>6. CASE Delete(t)
      <3>1. b = c
        BY <1>3, <2>1, <2>6, DialogChanges
      <3>2. AtStep(t, "lock", "Delete")
        BY <2>6 DEF Delete
      <3> QED
        BY <3>1, <3>2, SectionAlone
    <2> QED
      BY <1>8, <2>2, <2>3, <2>4, <2>5, <2>6 DEF Proceed
  <1>9. ASSUME NEW b \in Call, SendTimeout(b) PROVE Goal
    BY <1>1, <1>9 DEF SendTimeout
  <1>10. ASSUME NEW b \in Call, Peer(b) PROVE Goal
    BY <1>1, <1>10, PeerKinds
  <1> QED
    BY <1>4, <1>5, <1>6, <1>7, <1>8, <1>9, <1>10, Steps

\* The dialog of a connected call goes away only with a BYE of one side, however the handlers
\* of any number of threads, the answers and the peers interleave.
THEOREM NoConnectedCallLost == Spec => ConnectedEndsWithBye
  <1>1. EndsInv /\ [Next]_vars =>
          \A c \in DOMAIN dialog \ DOMAIN dialog' :
            dialog[c].start =>
              \/ Queued(Send(c, "BYE", 0))'
              \/ peer[c] \cap {"BYE", "CANCEL"} # {}
              \/ dialog[c].cancel
              \/ c \in ghosts
    <2> SUFFICES ASSUME EndsInv, [Next]_vars, NEW c \in DOMAIN dialog \ DOMAIN dialog',
                        dialog[c].start, ~ Queued(Send(c, "BYE", 0))'
                 PROVE  \/ peer[c] \cap {"BYE", "CANCEL"} # {}
                        \/ dialog[c].cancel
                        \/ c \in ghosts
      OBVIOUS
    <2>1. TypeOK /\ Tidy /\ DeleteIsDue
      BY DEF EndsInv, HandlersInv
    <2>2. c \in Call /\ Known(c) /\ ~ Known(c)'
      BY <2>1, Types DEF DialogsOK, Known
    <2>3. Lock(c, "Delete") \in AllTasks
      BY <2>1, <2>2, WhoDeletes
    <2> QED
      BY <2>1, <2>2, <2>3 DEF DeleteIsDue
  <1>2. Init => EndsInv
    BY EndsInit
  <1>3. EndsInv /\ [Next]_vars => EndsInv'
    BY EndsStep
  <1> QED
    BY <1>1, <1>2, <1>3, PTL DEF Spec, ConnectedEndsWithBye
=============================================================================
