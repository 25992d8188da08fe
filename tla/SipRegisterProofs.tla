-------------------------- MODULE SipRegisterProofs --------------------------
(***************************************************************************)
(* Theorems about SipRegister, for every set of trunks and any number of   *)
(* REGISTERs that are open at a time.                                      *)
(***************************************************************************)
EXTENDS SipRegister, FiniteSetTheorems, TLAPS

\* A trunk whose REGISTERs the code can tell apart.
Clear(s) == s \in DOMAIN registers /\ s \notin mixed

\* What is open for a trunk that left the list ends its registration.
OpenEnds ==
  \A r \in DOMAIN requests :
    requests[r].server \notin DOMAIN registers \cup mixed => requests[r].expires0

\* What is open for a trunk in the list has the expiry the list has.
OpenAgrees ==
  \A r \in DOMAIN requests :
    Clear(requests[r].server) => requests[r].expires0 = registers[requests[r].server].expires0

\* A 200 on its way tells what the server believes.
AnswerAgrees ==
  \A r \in DOMAIN requests :
    Clear(requests[r].server) /\ requests[r].status = "200" =>
      (requests[r].server \in bindings <=> ~ registers[requests[r].server].expires0)

\* So does the callback under way, if it may delete the trunk.
EventAgrees ==
  \A event \in eventRegister :
    Clear(event.server) /\ event.status = "200" /\ registers[event.server].expires0 =>
      event.server \notin bindings

\* A trunk that is silent has no REGISTER open and did not hear of its last one.
SilentIsOver ==
  \A s \in silent \cap DOMAIN registers : Open(s) = {} /\ ~ registers[s].answered

\* A trunk that is logged in is registered, and either the register thread refreshes it, or
\* its REGISTER is open.
LoginIsKept ==
  \A s \in DOMAIN registers \ mixed :
    registers[s].login /\ ~ registers[s].expires0 =>
      /\ s \in bindings \cup silent \/ Deadlock
      /\ registers[s].answered \/ s \in silent \/ (registers[s].sent /\ Open(s) # {})

IInv ==
  /\ TypeOK /\ NoForgottenRegistration
  /\ OpenEnds /\ OpenAgrees /\ AnswerAgrees /\ EventAgrees
  /\ SilentIsOver /\ LoginIsKept
-----------------------------------------------------------------------------
\* An entry of the register list keeps its type when its fields change.
LEMMA InfoTypes ==
  ASSUME NEW info \in CSipServerInfo
  PROVE  /\ ClearLogin(info) \in CSipServerInfo
         /\ LoggedIn(info) \in CSipServerInfo
         /\ Failed(info) \in CSipServerInfo
         /\ [info EXCEPT !.delete = TRUE, !.expires0 = TRUE] \in CSipServerInfo
         /\ [info EXCEPT !.sent = TRUE, !.answered = FALSE, !.auth = FALSE] \in CSipServerInfo
         /\ [info EXCEPT !.wait = FALSE] \in CSipServerInfo
         /\ [info EXCEPT !.auth = TRUE] \in CSipServerInfo
         /\ [info EXCEPT !.expires0 = FALSE, !.auth = FALSE] \in CSipServerInfo
  BY DEF CSipServerInfo, ClearLogin, LoggedIn, Failed

\* What the changes of an entry do to the fields the invariant is about.
LEMMA InfoFields ==
  ASSUME NEW info \in CSipServerInfo
  PROVE  /\ info.login \in BOOLEAN /\ info.expires0 \in BOOLEAN
         /\ LoggedIn(info).expires0 = info.expires0
         /\ LoggedIn(info).login <=> ~ info.expires0
         /\ Failed(info).expires0 = info.expires0
         /\ Failed(info).login = FALSE
         /\ LoggedIn(info).login => LoggedIn(info).answered
         /\ ClearLogin(info).expires0 = info.expires0
         /\ ClearLogin(info).login = FALSE
         /\ [info EXCEPT !.delete = TRUE, !.expires0 = TRUE].expires0 = TRUE
  BY DEF CSipServerInfo, ClearLogin, LoggedIn, Failed
-----------------------------------------------------------------------------
LEMMA TypeInit == Init => TypeOK
  BY FS_EmptySet DEF Init, TypeOK, NoEvent

LEMMA OneEvent ==
  ASSUME NEW s \in DOMAIN registers, NEW x \in {"200", "error"}
  PROVE  /\ {[server |-> s, status |-> x]} \subseteq
              [server : DOMAIN registers, status : {"200", "error"}]
         /\ Cardinality({[server |-> s, status |-> x]}) <= 1
  <1>1. Cardinality({[server |-> s, status |-> x]}) = 1
    BY FS_Singleton
  <1> QED
    BY <1>1

\* Every step keeps the types.
LEMMA TypeStep == TypeOK /\ [Next]_vars => TypeOK'
  <1> SUFFICES ASSUME TypeOK, [Next]_vars PROVE TypeOK'
    OBVIOUS
  <1> USE DEF TypeOK
  <1>1. ASSUME NEW files \in SUBSET SipServer, Load(files) PROVE TypeOK'
    BY <1>1 DEF Load, Flag
  <1>2. ASSUME NEW s \in SipServer, InsertRegisterInfo(s) PROVE TypeOK'
    <2>1. NewInfo \in CSipServerInfo
      BY DEF NewInfo, CSipServerInfo
    <2>2. /\ DOMAIN registers' \subseteq SipServer
          /\ \A x \in DOMAIN registers' : registers'[x] \in CSipServerInfo
      BY <1>2, <2>1 DEF InsertRegisterInfo, With
    <2> QED
      BY <1>2, <2>2 DEF InsertRegisterInfo, ListFree, NoEvent
  <1>3. ASSUME NEW s \in SipServer, DeleteRegisterInfo(s) PROVE TypeOK'
    <2>1. /\ DOMAIN registers' \subseteq SipServer
          /\ \A x \in DOMAIN registers' : registers'[x] \in CSipServerInfo
      <3>1. CASE s \in DOMAIN registers /\ Deleted(s)
        BY <1>3, <3>1 DEF DeleteRegisterInfo, Without, Restrict
      <3>2. CASE s \in DOMAIN registers /\ ~ Deleted(s)
        BY <1>3, <3>2, InfoTypes DEF DeleteRegisterInfo
      <3> QED
        BY <1>3, <3>1, <3>2 DEF DeleteRegisterInfo
    <2>2. /\ DOMAIN servers' = DOMAIN servers \ {s}
          /\ \A x \in DOMAIN servers' : servers'[x] \in Flag
      BY <1>3 DEF DeleteRegisterInfo, Without, Restrict
    <2> QED
      BY <1>3, <2>1, <2>2 DEF DeleteRegisterInfo, ListFree, NoEvent
  <1>4. ASSUME NEW s \in SipServer, SendRegister(s) PROVE TypeOK'
    <2>1. /\ DOMAIN registers' = DOMAIN registers
          /\ \A x \in DOMAIN registers' : registers'[x] \in CSipServerInfo
      BY <1>4, InfoTypes DEF SendRegister
    <2>2. [server |-> s, expires0 |-> registers[s].expires0, status |-> "none"] \in Register
      BY <1>4, InfoFields DEF SendRegister, Register
    <2>3. PICK r \in Request : requests' = With(requests, r,
             [server |-> s, expires0 |-> registers[s].expires0, status |-> "none"])
      BY <1>4 DEF SendRegister, Send
    <2>4. /\ DOMAIN requests' \subseteq Request
          /\ \A x \in DOMAIN requests' : requests'[x] \in Register
      BY <2>2, <2>3 DEF With
    <2> QED
      BY <1>4, <2>1, <2>4 DEF SendRegister
  <1>5. ASSUME NEW s \in SipServer, WaitOver(s) PROVE TypeOK'
    <2>1. /\ DOMAIN registers' = DOMAIN registers
          /\ \A x \in DOMAIN registers' : registers'[x] \in CSipServerInfo
      BY <1>5, InfoTypes DEF WaitOver
    <2> QED
      BY <1>5, <2>1 DEF WaitOver
  <1>5a. ASSUME NEW s \in SipServer, TcpSessionEnd(s) PROVE TypeOK'
    <2>1. /\ DOMAIN registers' = DOMAIN registers
          /\ \A x \in DOMAIN registers' : registers'[x] \in CSipServerInfo
      BY <1>5a, InfoTypes DEF TcpSessionEnd
    <2> QED
      BY <1>5a, <2>1 DEF TcpSessionEnd
  <1>5b. ASSUME NEW s \in SipServer, Expire(s) PROVE TypeOK'
    BY <1>5b DEF Expire
  <1>6. ASSUME NEW r \in DOMAIN requests, Respond(r) PROVE TypeOK'
    <2>1. \A x \in {"200", "401", "423", "error"} : [requests[r] EXCEPT !.status = x] \in Register
      BY DEF Register
    <2>2. PICK x \in {"200", "401", "423", "error"} : requests' = [requests EXCEPT ![r].status = x]
      BY <1>6 DEF Respond, Accept, Refuse, Answer
    <2>3. /\ DOMAIN requests' = DOMAIN requests
          /\ \A y \in DOMAIN requests' : requests'[y] \in Register
      BY <2>1, <2>2
    <2>4. requests[r].server \in SipServer
      BY DEF Register
    <2> QED
      BY <1>6, <2>3, <2>4 DEF Respond, Accept, Refuse
  <1>7. ASSUME NEW r \in DOMAIN requests, RecvRegisterResponse(r) PROVE TypeOK'
    <2> DEFINE s == requests[r].server
    <2>0. /\ DOMAIN Without(requests, r) \subseteq Request
          /\ \A x \in DOMAIN Without(requests, r) : Without(requests, r)[x] \in Register
          /\ requests[r] \in Register
      BY DEF Without, Restrict
    <2>1. CASE RecvOk(r)
      <3>1. /\ DOMAIN registers' = DOMAIN registers
            /\ \A x \in DOMAIN registers' : registers'[x] \in CSipServerInfo
        BY <2>1, InfoTypes DEF RecvOk
      <3> QED
        BY <1>7, <2>0, <2>1, <3>1, OneEvent DEF RecvRegisterResponse, RecvOk
    <2>2. CASE RecvError(r)
      <3>1. /\ DOMAIN registers' = DOMAIN registers
            /\ \A x \in DOMAIN registers' : registers'[x] \in CSipServerInfo
        BY <2>2, InfoTypes DEF RecvError
      <3> QED
        BY <1>7, <2>0, <2>2, <3>1, OneEvent DEF RecvRegisterResponse, RecvError
    <2>3. CASE RecvUnauthorized(r)
      <3>1. /\ DOMAIN registers' = DOMAIN registers
            /\ \A x \in DOMAIN registers' : registers'[x] \in CSipServerInfo
        BY <2>3, InfoTypes DEF RecvUnauthorized
      <3>2. [server |-> s, expires0 |-> registers[s].expires0, status |-> "none"] \in Register
        BY <2>0, <2>3, InfoFields DEF RecvUnauthorized, Register
      <3>3. /\ DOMAIN requests' = DOMAIN requests
            /\ \A x \in DOMAIN requests' : requests'[x] \in Register
        BY <2>3, <3>2 DEF RecvUnauthorized
      <3> QED
        BY <1>7, <2>3, <3>1, <3>3 DEF RecvRegisterResponse, RecvUnauthorized
    <2>4. CASE RecvIntervalTooBrief(r)
      <3>1. /\ DOMAIN registers' = DOMAIN registers
            /\ \A x \in DOMAIN registers' : registers'[x] \in CSipServerInfo
        BY <2>4, InfoTypes DEF RecvIntervalTooBrief
      <3>2. [server |-> s, expires0 |-> FALSE, status |-> "none"] \in Register
        BY <2>0, <2>4 DEF RecvIntervalTooBrief, Register
      <3>3. /\ DOMAIN requests' = DOMAIN requests
            /\ \A x \in DOMAIN requests' : requests'[x] \in Register
        BY <2>4, <3>2 DEF RecvIntervalTooBrief
      <3> QED
        BY <1>7, <2>0, <2>4, <3>1, <3>3 DEF RecvRegisterResponse, RecvIntervalTooBrief, Register
    <2>5. CASE RecvUnknown(r)
      BY <1>7, <2>0, <2>5 DEF RecvRegisterResponse, RecvUnknown
    <2> QED
      BY <1>7, <2>1, <2>2, <2>3, <2>4, <2>5 DEF RecvRegisterResponse
  <1>7a. ASSUME NEW r \in DOMAIN requests, RecvTimeout(r) PROVE TypeOK'
    <2>1. /\ DOMAIN Without(requests, r) \subseteq Request
          /\ \A x \in DOMAIN Without(requests, r) : Without(requests, r)[x] \in Register
          /\ requests[r].server \in SipServer
      BY DEF Without, Restrict, Register
    <2> QED
      BY <1>7a, <2>1 DEF RecvTimeout
  <1>8. ASSUME EventRegister PROVE TypeOK'
    <2>1. /\ DOMAIN registers' \subseteq SipServer
          /\ \A x \in DOMAIN registers' : registers'[x] \in CSipServerInfo
      <3>1. PICK event \in eventRegister : registers' \in {Without(registers, event.server), registers}
        BY <1>8 DEF EventRegister
      <3> QED
        BY <3>1 DEF Without, Restrict
    <2> QED
      BY <1>8, <2>1, FS_EmptySet DEF EventRegister, NoEvent
  <1>9. ASSUME BeginStop PROVE TypeOK'
    BY <1>9 DEF BeginStop
  <1>10. ASSUME DeRegister PROVE TypeOK'
    <2>1. /\ DOMAIN registers' = DOMAIN registers
          /\ \A x \in DOMAIN registers' : registers'[x] \in CSipServerInfo
      BY <1>10, InfoTypes DEF DeRegister
    <2> QED
      BY <1>10, <2>1 DEF DeRegister
  <1>11. ASSUME EndStop PROVE TypeOK'
    BY <1>11 DEF EndStop, ListFree, NoEvent
  <1>12. CASE UNCHANGED vars
    BY <1>12 DEF vars
  <1> QED
    BY <1>1, <1>2, <1>3, <1>4, <1>5, <1>5a, <1>5b, <1>6, <1>7, <1>7a, <1>8, <1>9, <1>10,
       <1>11, <1>12 DEF Next
-----------------------------------------------------------------------------
\* What the proof of a step uses of the types.
LEMMA Fields ==
  ASSUME TypeOK
  PROVE  /\ \A s \in DOMAIN registers :
              registers[s] \in CSipServerInfo /\ registers[s].expires0 \in BOOLEAN
         /\ \A r \in DOMAIN requests :
              /\ requests[r] \in Register
              /\ requests[r].server \in SipServer
              /\ requests[r].expires0 \in BOOLEAN
  <1>1. \A s \in DOMAIN registers : registers[s] \in CSipServerInfo
    BY DEF TypeOK
  <1>2. \A r \in DOMAIN requests : requests[r] \in Register
    BY DEF TypeOK
  <1> QED
    BY <1>1, <1>2 DEF CSipServerInfo, Register

LEMMA InvInit == Init => IInv
  BY TypeInit DEF Init, IInv, NoForgottenRegistration, OpenEnds, OpenAgrees,
     AnswerAgrees, EventAgrees, SilentIsOver, LoginIsKept, NoEvent

Agreement ==
  /\ NoForgottenRegistration
  /\ OpenEnds /\ OpenAgrees /\ AnswerAgrees /\ EventAgrees

\* Nobody leaves the deadlock.
LEMMA DeadlockStays == Deadlock /\ [Next]_vars => Deadlock'
  <1> SUFFICES ASSUME Deadlock, [Next]_vars PROVE UNCHANGED <<eventRegister, changes>>
    BY DEF Deadlock
  <1> QED
    BY DEF Deadlock, Next, vars, NoEvent, ListFree, Load, InsertRegisterInfo,
       DeleteRegisterInfo, SendRegister, WaitOver, TcpSessionEnd, Expire, Respond, Accept,
       Refuse, RecvRegisterResponse, RecvTimeout, EventRegister, BeginStop, DeRegister, EndStop

LEMMA AgreementStep == IInv /\ [Next]_vars => Agreement'
  <1> SUFFICES ASSUME IInv, [Next]_vars PROVE Agreement'
    OBVIOUS
  <1> USE DEF IInv, Agreement, NoForgottenRegistration, OpenEnds, OpenAgrees,
              AnswerAgrees, EventAgrees, Clear
  <1>t. TypeOK /\ TypeOK'
    BY TypeStep
  <1>1. ASSUME NEW files \in SUBSET SipServer, Load(files) PROVE Agreement'
    BY <1>1 DEF Load
  <1>2. ASSUME NEW s \in SipServer, InsertRegisterInfo(s) PROVE Agreement'
    <2>1. CASE s \in DOMAIN registers
      BY <1>2, <2>1 DEF InsertRegisterInfo
    <2>2. CASE s \notin DOMAIN registers
      BY <1>2, <2>2 DEF InsertRegisterInfo, With, NewInfo, Open, ListFree, NoEvent
    <2> QED
      BY <2>1, <2>2
  <1>3. ASSUME NEW s \in SipServer, DeleteRegisterInfo(s) PROVE Agreement'
    <2>1. CASE s \in DOMAIN registers /\ Deleted(s)
      BY <1>3, <2>1 DEF DeleteRegisterInfo, Without, Restrict, ListFree, NoEvent, Deleted
    <2>2. CASE s \in DOMAIN registers /\ ~ Deleted(s)
      <3>1. /\ registers' = [registers EXCEPT ![s].delete = TRUE, ![s].expires0 = TRUE]
            /\ mixed' = IF Crossed(s) THEN mixed \cup {s} ELSE mixed
            /\ ~ registers[s].expires0
        BY <1>3, <2>2 DEF DeleteRegisterInfo, Deleted
      <3>2. registers[s] \in CSipServerInfo
        BY <1>t, <2>2, Fields
      <3>3. /\ DOMAIN registers' = DOMAIN registers
            /\ registers'[s].expires0
            /\ \A x \in DOMAIN registers \ {s} : registers'[x] = registers[x]
        BY <2>2, <3>1, <3>2 DEF CSipServerInfo
      <3>4. s \notin mixed' => Open(s) = {}
        BY <2>2, <3>1, <1>t, Fields DEF Crossed, Open
      <3> QED
        BY <1>3, <2>2, <3>1, <3>3, <3>4 DEF DeleteRegisterInfo, Open, ListFree, NoEvent
    <2>3. CASE s \notin DOMAIN registers
      BY <1>3, <2>3 DEF DeleteRegisterInfo
    <2> QED
      BY <2>1, <2>2, <2>3
  <1>4. ASSUME NEW s \in SipServer, SendRegister(s) PROVE Agreement'
    <2>1. PICK r \in Request : requests' = With(requests, r,
             [server |-> s, expires0 |-> registers[s].expires0, status |-> "none"])
      BY <1>4 DEF SendRegister, Send
    <2> QED
      BY <1>4, <2>1, <1>t, Fields DEF SendRegister, With
  <1>5. ASSUME NEW s \in SipServer, WaitOver(s) PROVE Agreement'
    BY <1>5, <1>t, Fields DEF WaitOver
  <1>5a. ASSUME NEW s \in SipServer, TcpSessionEnd(s) PROVE Agreement'
    <2>1. registers[s] \in CSipServerInfo
      BY <1>5a, <1>t, Fields DEF TcpSessionEnd
    <2>2. /\ DOMAIN registers' = DOMAIN registers
          /\ registers'[s].expires0 = registers[s].expires0
          /\ \A x \in DOMAIN registers \ {s} : registers'[x] = registers[x]
      BY <1>5a, <2>1, InfoFields DEF TcpSessionEnd
    <2> QED
      BY <1>5a, <2>2 DEF TcpSessionEnd
  <1>5b. ASSUME NEW s \in SipServer, Expire(s) PROVE Agreement'
    BY <1>5b, <1>t, Fields DEF Expire, Open
  <1>6. ASSUME NEW r \in DOMAIN requests, Accept(r) PROVE Agreement'
    BY <1>6, <1>t, Fields DEF Accept, Answer
  <1>7. ASSUME NEW r \in DOMAIN requests, NEW x \in {"401", "423", "error"}, Refuse(r, x)
        PROVE  Agreement'
    BY <1>7, <1>t, Fields DEF Refuse, Answer
  <1>8. ASSUME NEW r \in DOMAIN requests, RecvRegisterResponse(r) PROVE Agreement'
    <2> DEFINE s == requests[r].server
    <2>1. CASE RecvOk(r)
      <3>1. /\ DOMAIN registers' = DOMAIN registers
            /\ registers'[s].expires0 = registers[s].expires0
            /\ registers'[s].login <=> ~ registers[s].expires0
            /\ \A x \in DOMAIN registers \ {s} : registers'[x] = registers[x]
        BY <2>1, <1>t, Fields, InfoFields DEF RecvOk
      <3>2. /\ DOMAIN requests' = DOMAIN requests \ {r}
            /\ \A x \in DOMAIN requests' : requests'[x] = requests[x]
        BY <2>1 DEF RecvOk, Without, Restrict
      <3>3. /\ s \in DOMAIN registers
            /\ requests[r].status = "200"
            /\ eventRegister' = {[server |-> s, status |-> "200"]}
            /\ UNCHANGED <<bindings, mixed>>
        BY <1>8, <2>1 DEF RecvRegisterResponse, RecvOk
      <3> QED
        BY <3>1, <3>2, <3>3
    <2>2. CASE RecvError(r)
      <3>1. /\ DOMAIN registers' = DOMAIN registers
            /\ registers'[s].expires0 = registers[s].expires0
            /\ ~ registers'[s].login
            /\ \A x \in DOMAIN registers \ {s} : registers'[x] = registers[x]
        BY <2>2, <1>t, Fields, InfoFields DEF RecvError
      <3>2. /\ DOMAIN requests' = DOMAIN requests \ {r}
            /\ \A x \in DOMAIN requests' : requests'[x] = requests[x]
        BY <2>2 DEF RecvError, Without, Restrict
      <3>3. /\ s \in DOMAIN registers
            /\ eventRegister' = {[server |-> s, status |-> "error"]}
            /\ UNCHANGED <<bindings, mixed>>
        BY <1>8, <2>2 DEF RecvRegisterResponse, RecvError
      <3> QED
        BY <3>1, <3>2, <3>3
    <2>3. CASE RecvUnauthorized(r)
      BY <1>8, <2>3, <1>t, Fields DEF RecvRegisterResponse, RecvUnauthorized
    <2>4. CASE RecvIntervalTooBrief(r)
      <3>1. /\ s \in DOMAIN registers
            /\ registers' = [registers EXCEPT ![s].expires0 = FALSE, ![s].auth = FALSE]
            /\ mixed' = IF registers[s].expires0 THEN mixed \cup {s} ELSE mixed
            /\ requests' = [requests EXCEPT ![r] =
                 [server |-> s, expires0 |-> FALSE, status |-> "none"]]
            /\ eventRegister' = {} /\ bindings' = bindings
        BY <1>8, <2>4 DEF RecvRegisterResponse, RecvIntervalTooBrief, ListFree, NoEvent
      <3>2. registers[s] \in CSipServerInfo /\ registers[s].expires0 \in BOOLEAN
        BY <1>t, <3>1, Fields
      <3>3. /\ DOMAIN registers' = DOMAIN registers
            /\ registers'[s].expires0 = FALSE
            /\ registers'[s].login = registers[s].login
            /\ \A x \in DOMAIN registers \ {s} : registers'[x] = registers[x]
        BY <3>1, <3>2 DEF CSipServerInfo
      <3>4. /\ DOMAIN requests' = DOMAIN requests
            /\ requests'[r].server = s /\ requests'[r].expires0 = FALSE
            /\ requests'[r].status = "none"
            /\ \A x \in DOMAIN requests \ {r} : requests'[x] = requests[x]
        BY <3>1
      <3>5. \A x \in DOMAIN registers \ mixed' :
              x \notin mixed /\ registers'[x].expires0 = registers[x].expires0
        BY <3>1, <3>2, <3>3
      <3>6. NoForgottenRegistration' /\ EventAgrees'
        BY <3>1, <3>3, <3>5
      <3>7. OpenEnds'
        BY <3>1, <3>3, <3>4
      <3>8. ASSUME NEW x \in DOMAIN requests', Clear(requests[x].server)'
            PROVE  /\ requests'[x].expires0 = registers'[requests'[x].server].expires0
                   /\ requests'[x].status = "200" =>
                        (requests'[x].server \in bindings'
                          <=> ~ registers'[requests'[x].server].expires0)
        <4>1. requests'[x].server \in DOMAIN registers \ mixed'
          BY <3>3, <3>8
        <4>2. CASE x = r
          BY <3>3, <3>4, <4>2
        <4>3. CASE x # r
          BY <3>1, <3>4, <3>5, <4>1, <4>3
        <4> QED
          BY <4>2, <4>3
      <3> QED
        BY <3>6, <3>7, <3>8
    <2>5. CASE RecvUnknown(r)
      BY <1>8, <2>5 DEF RecvRegisterResponse, RecvUnknown, Without, Restrict
    <2> QED
      BY <1>8, <2>1, <2>2, <2>3, <2>4, <2>5 DEF RecvRegisterResponse
  <1>8a. ASSUME NEW r \in DOMAIN requests, RecvTimeout(r) PROVE Agreement'
    <2>1. /\ DOMAIN requests' = DOMAIN requests \ {r}
          /\ \A x \in DOMAIN requests' : requests'[x] = requests[x]
      BY <1>8a DEF RecvTimeout, Without, Restrict
    <2> QED
      BY <1>8a, <2>1 DEF RecvTimeout, Open
  <1>9. ASSUME EventRegister PROVE Agreement'
    BY <1>9, <1>t, Fields DEF EventRegister, Without, Restrict, NoEvent
  <1>10. ASSUME BeginStop PROVE Agreement'
    BY <1>10 DEF BeginStop
  <1>11. ASSUME DeRegister PROVE Agreement'
    <2>1. /\ DOMAIN registers' = DOMAIN registers
          /\ \A s \in DOMAIN registers : registers'[s].expires0
      <3>1. registers' = [s \in DOMAIN registers |->
                            [registers[s] EXCEPT !.delete = TRUE, !.expires0 = TRUE]]
        BY <1>11 DEF DeRegister
      <3>2. \A s \in DOMAIN registers : registers[s] \in CSipServerInfo
        BY <1>t, Fields
      <3> QED
        <4>1. ASSUME NEW s \in DOMAIN registers PROVE registers'[s].expires0
          <5>1. registers'[s] = [registers[s] EXCEPT !.delete = TRUE, !.expires0 = TRUE]
            BY <3>1
          <5> QED
            BY <3>2, <5>1, InfoFields
        <4> QED
          BY <3>1, <4>1
    <2>2. \A s \in DOMAIN registers :
            s \notin mixed' => s \notin mixed /\ (\A r \in Open(s) : requests[r].expires0)
      BY <1>11 DEF DeRegister, Crossed
    <2>3. eventRegister' = {} /\ UNCHANGED <<requests, bindings>> /\ mixed \subseteq mixed'
      BY <1>11 DEF DeRegister, ListFree, NoEvent
    <2> QED
      BY <1>t, <2>1, <2>2, <2>3, Fields DEF Open
  <1>12. ASSUME EndStop PROVE Agreement'
    BY <1>12, <1>t DEF EndStop, ListFree, NoEvent, TypeOK
  <1>13. CASE UNCHANGED vars
    BY <1>13 DEF vars
  <1> QED
    BY <1>1, <1>2, <1>3, <1>4, <1>5, <1>5a, <1>5b, <1>6, <1>7, <1>8, <1>8a, <1>9, <1>10,
       <1>11, <1>12, <1>13
    DEF Next, Respond

\* Silence begins with the end of the last REGISTER and lasts until the next one.
LEMMA SilentStep == IInv /\ [Next]_vars => SilentIsOver'
  <1> SUFFICES ASSUME IInv, [Next]_vars, NEW s \in silent' \cap DOMAIN registers'
               PROVE  Open(s)' = {} /\ ~ registers'[s].answered
    BY DEF SilentIsOver
  <1> DEFINE Goal == Open(s)' = {} /\ ~ registers'[s].answered
  <1>t. TypeOK
    BY DEF IInv
  <1>o. \A x \in silent \cap DOMAIN registers : Open(x) = {} /\ ~ registers[x].answered
    BY DEF IInv, SilentIsOver
  <1>1. ASSUME NEW files \in SUBSET SipServer, Load(files) PROVE Goal
    BY <1>1, <1>o DEF Load, Open
  <1>2. ASSUME NEW x \in SipServer, InsertRegisterInfo(x) PROVE Goal
    BY <1>2, <1>o DEF InsertRegisterInfo, With, Open
  <1>3. ASSUME NEW x \in SipServer, DeleteRegisterInfo(x) PROVE Goal
    <2>1. s \in DOMAIN registers /\ s \in silent /\ requests' = requests
      BY <1>3 DEF DeleteRegisterInfo, Without, Restrict
    <2>2. registers[s] \in CSipServerInfo
      BY <1>t, <2>1, Fields
    <2>3. registers'[s].answered = registers[s].answered
      BY <1>3, <2>1, <2>2 DEF DeleteRegisterInfo, Without, Restrict, CSipServerInfo
    <2> QED
      BY <1>o, <2>1, <2>3 DEF Open
  <1>4. ASSUME NEW x \in SipServer, SendRegister(x) PROVE Goal
    <2>1. PICK r \in Request : requests' = With(requests, r,
             [server |-> x, expires0 |-> registers[x].expires0, status |-> "none"])
      BY <1>4 DEF SendRegister, Send
    <2>2. s # x /\ s \in silent \cap DOMAIN registers /\ registers'[s] = registers[s]
      BY <1>4 DEF SendRegister
    <2> QED
      BY <1>o, <2>1, <2>2 DEF Open, With
  <1>5. ASSUME NEW x \in SipServer, WaitOver(x) PROVE Goal
    BY <1>5, <1>o, <1>t, Fields DEF WaitOver, Open, CSipServerInfo
  <1>5a. ASSUME NEW x \in SipServer, TcpSessionEnd(x) PROVE Goal
    BY <1>5a, <1>o DEF TcpSessionEnd, Open
  <1>5b. ASSUME NEW x \in SipServer, Expire(x) PROVE Goal
    BY <1>5b, <1>o DEF Expire, Open
  <1>6. ASSUME NEW r \in DOMAIN requests, Respond(r) PROVE Goal
    <2>1. PICK x \in {"200", "401", "423", "error"} : requests' = [requests EXCEPT ![r].status = x]
      BY <1>6 DEF Respond, Accept, Refuse, Answer
    <2>2. /\ DOMAIN requests' = DOMAIN requests
          /\ \A y \in DOMAIN requests : requests'[y].server = requests[y].server
      BY <1>t, <2>1, Fields DEF Register
    <2> QED
      BY <1>6, <1>o, <2>2 DEF Respond, Accept, Refuse, Open
  <1>7. ASSUME NEW r \in DOMAIN requests, RecvRegisterResponse(r) PROVE Goal
    <2>1. /\ DOMAIN requests' \subseteq DOMAIN requests
          /\ \A y \in DOMAIN requests' : requests'[y].server = requests[y].server
          /\ DOMAIN registers' = DOMAIN registers
          /\ \A y \in DOMAIN registers \ {requests[r].server} : registers'[y] = registers[y]
          /\ silent' = silent
      BY <1>7 DEF RecvRegisterResponse, RecvOk, RecvError, RecvUnauthorized,
         RecvIntervalTooBrief, RecvUnknown, Without, Restrict
    <2>2. s # requests[r].server
      BY <1>o, <2>1 DEF Open
    <2> QED
      BY <1>o, <2>1, <2>2 DEF Open
  <1>7a. ASSUME NEW r \in DOMAIN requests, RecvTimeout(r) PROVE Goal
    <2>1. /\ DOMAIN requests' = DOMAIN requests \ {r}
          /\ \A x \in DOMAIN requests' : requests'[x] = requests[x]
      BY <1>7a DEF RecvTimeout, Without, Restrict
    <2> QED
      BY <1>7a, <1>o, <2>1 DEF RecvTimeout, Open
  <1>8. ASSUME EventRegister PROVE Goal
    BY <1>8, <1>o DEF EventRegister, Without, Restrict, Open
  <1>9. ASSUME BeginStop PROVE Goal
    BY <1>9, <1>o DEF BeginStop, Open
  <1>10. ASSUME DeRegister PROVE Goal
    <2>1. s \in DOMAIN registers /\ s \in silent /\ requests' = requests
      BY <1>10 DEF DeRegister
    <2>2. registers[s] \in CSipServerInfo
      BY <1>t, <2>1, Fields
    <2>3. registers'[s] = [registers[s] EXCEPT !.delete = TRUE, !.expires0 = TRUE]
      BY <1>10, <2>1 DEF DeRegister
    <2>4. registers'[s].answered = registers[s].answered
      BY <2>2, <2>3 DEF CSipServerInfo
    <2> QED
      BY <1>o, <2>1, <2>4 DEF Open
  <1>11. ASSUME EndStop PROVE Goal
    BY <1>11 DEF EndStop
  <1>12. CASE UNCHANGED vars
    BY <1>12, <1>o DEF vars, Open
  <1> QED
    BY <1>1, <1>2, <1>3, <1>4, <1>5, <1>5a, <1>5b, <1>6, <1>7, <1>7a, <1>8, <1>9, <1>10,
       <1>11, <1>12 DEF Next

\* Every step keeps a trunk that is logged in registered, or notes why not.
LEMMA LoginStep == IInv /\ [Next]_vars => LoginIsKept'
  <1> SUFFICES ASSUME IInv, [Next]_vars, NEW s \in DOMAIN registers', s \notin mixed',
                      registers'[s].login, ~ registers'[s].expires0
               PROVE  /\ s \in bindings' \cup silent' \/ Deadlock'
                      /\ \/ registers'[s].answered \/ s \in silent'
                         \/ registers'[s].sent /\ Open(s)' # {}
    BY DEF LoginIsKept
  <1> DEFINE Goal == /\ s \in bindings' \cup silent' \/ Deadlock'
                     /\ \/ registers'[s].answered \/ s \in silent'
                        \/ registers'[s].sent /\ Open(s)' # {}
             Info(info) == <<info.login, info.expires0, info.answered, info.sent>>
  <1>t. TypeOK
    BY DEF IInv
  <1>f. \A x \in DOMAIN registers : registers[x] \in CSipServerInfo
    BY <1>t, Fields
  <1>d. Deadlock => Deadlock'
    BY DeadlockStays
  <1>k. ASSUME s \in DOMAIN registers, s \notin mixed, registers[s].login, ~ registers[s].expires0
        PROVE  /\ s \in bindings \cup silent \/ Deadlock
               /\ \/ registers[s].answered \/ s \in silent
                  \/ registers[s].sent /\ Open(s) # {}
    BY <1>k DEF IInv, LoginIsKept
  <1>s. ASSUME s \in DOMAIN registers, s \notin mixed, Info(registers'[s]) = Info(registers[s]),
               s \in bindings => s \in bindings', s \in silent => s \in silent',
               Open(s) # {} => Open(s)' # {}
        PROVE  Goal
    BY <1>s, <1>k, <1>d
  <1> HIDE DEF Goal
  <1>1. ASSUME NEW files \in SUBSET SipServer, Load(files) PROVE Goal
    BY <1>1, <1>s DEF Load, Open
  <1>2. ASSUME NEW x \in SipServer, InsertRegisterInfo(x) PROVE Goal
    <2>1. s \in DOMAIN registers
      BY <1>2 DEF InsertRegisterInfo, With, NewInfo
    <2>2. /\ registers'[s] = registers[s] /\ s \notin mixed /\ (s \in silent => s \in silent')
          /\ UNCHANGED <<bindings, requests>>
      BY <1>2, <2>1 DEF InsertRegisterInfo, With
    <2> QED
      BY <1>s, <2>1, <2>2 DEF Open
  <1>3. ASSUME NEW x \in SipServer, DeleteRegisterInfo(x) PROVE Goal
    <2>1. s \in DOMAIN registers /\ registers'[s] = registers[s] /\ s \notin mixed
      BY <1>3, <1>f DEF DeleteRegisterInfo, Without, Restrict, CSipServerInfo
    <2> QED
      BY <1>3, <1>s, <2>1 DEF DeleteRegisterInfo, Open
  <1>4. ASSUME NEW x \in SipServer, SendRegister(x) PROVE Goal
    <2>1. PICK r \in Request \ DOMAIN requests : requests' = With(requests, r,
             [server |-> x, expires0 |-> registers[x].expires0, status |-> "none"])
      BY <1>4 DEF SendRegister, Send
    <2>2. /\ r \in DOMAIN requests' /\ requests'[r].server = x
          /\ \A y \in DOMAIN requests : y \in DOMAIN requests' /\ requests'[y] = requests[y]
      BY <2>1 DEF With
    <2>3. s \in DOMAIN registers /\ s \notin mixed /\ bindings' = bindings
      BY <1>4 DEF SendRegister
    <2>4. CASE s # x
      <3>1. registers'[s] = registers[s] /\ (s \in silent => s \in silent')
        BY <1>4, <2>3, <2>4 DEF SendRegister
      <3>2. Open(s) # {} => Open(s)' # {}
        BY <2>2 DEF Open
      <3> QED
        BY <1>s, <2>3, <3>1, <3>2
    <2>5. CASE s = x
      <3>1. /\ registers'[s].sent
            /\ registers'[s].login = registers[s].login
            /\ registers'[s].expires0 = registers[s].expires0
        BY <1>4, <1>f, <2>3, <2>5 DEF SendRegister, CSipServerInfo
      <3>2. registers[s].answered
        BY <1>4, <2>5, <3>1 DEF SendRegister, Due
      <3>3. s \notin silent
        BY <2>3, <3>2 DEF IInv, SilentIsOver
      <3>4. s \in bindings \/ Deadlock
        BY <1>k, <2>3, <3>1, <3>3
      <3>5. Open(s)' # {}
        BY <2>2, <2>5 DEF Open
      <3> QED
        BY <1>d, <2>3, <3>1, <3>4, <3>5 DEF Goal
    <2> QED
      BY <2>4, <2>5
  <1>5. ASSUME NEW x \in SipServer, WaitOver(x) PROVE Goal
    <2>1. s \in DOMAIN registers /\ Info(registers'[s]) = Info(registers[s])
      BY <1>5, <1>f DEF WaitOver, CSipServerInfo
    <2> QED
      BY <1>5, <1>s, <2>1 DEF WaitOver, Open
  <1>5a. ASSUME NEW x \in SipServer, TcpSessionEnd(x) PROVE Goal
    <2>1. s \in DOMAIN registers /\ s # x
      BY <1>5a, <1>f, InfoFields DEF TcpSessionEnd
    <2>2. registers'[s] = registers[s]
      BY <1>5a, <2>1 DEF TcpSessionEnd
    <2> QED
      BY <1>5a, <1>s, <2>1, <2>2 DEF TcpSessionEnd, Open
  <1>5b. ASSUME NEW x \in SipServer, Expire(x) PROVE Goal
    <2>1. UNCHANGED <<registers, requests, mixed, silent>>
      BY <1>5b DEF Expire
    <2>2. CASE s # x
      BY <1>5b, <1>s, <2>1, <2>2 DEF Expire, Open
    <2>3. CASE s = x
      <3>1. Open(s) = {} /\ (~ registers[s].answered \/ Deadlock)
        BY <1>5b, <2>1, <2>3 DEF Expire, Refreshed, Due
      <3>2. s \in silent \/ registers[s].answered
        BY <1>k, <2>1, <3>1
      <3> QED
        BY <1>d, <2>1, <3>1, <3>2 DEF Goal
    <2> QED
      BY <2>2, <2>3
  <1>6. ASSUME NEW r \in DOMAIN requests, Respond(r) PROVE Goal
    <2>1. PICK x \in {"200", "401", "423", "error"} : requests' = [requests EXCEPT ![r].status = x]
      BY <1>6 DEF Respond, Accept, Refuse, Answer
    <2>2. /\ DOMAIN requests' = DOMAIN requests
          /\ \A y \in DOMAIN requests : requests'[y].server = requests[y].server
      BY <1>t, <2>1, Fields DEF Register
    <2>3. UNCHANGED <<registers, mixed, silent>>
      BY <1>6 DEF Respond, Accept, Refuse
    <2>4. s = requests[r].server => ~ requests[r].expires0
      BY <2>3 DEF IInv, OpenAgrees, Clear
    <2>5. s \in bindings => s \in bindings'
      BY <1>6, <2>4 DEF Respond, Accept, Refuse
    <2> QED
      BY <1>s, <2>2, <2>3, <2>5 DEF Open
  <1>7. ASSUME NEW r \in DOMAIN requests, RecvRegisterResponse(r) PROVE Goal
    <2> DEFINE x == requests[r].server
    <2>1. /\ DOMAIN registers' = DOMAIN registers
          /\ \A y \in DOMAIN registers \ {x} : registers'[y] = registers[y]
          /\ \A y \in DOMAIN requests \ {r} : y \in DOMAIN requests' /\ requests'[y] = requests[y]
          /\ mixed \subseteq mixed'
          /\ UNCHANGED <<bindings, silent>>
      BY <1>7 DEF RecvRegisterResponse, RecvOk, RecvError, RecvUnauthorized,
         RecvIntervalTooBrief, RecvUnknown, Without, Restrict
    <2>2. CASE s # x
      BY <1>s, <2>1, <2>2 DEF Open
    <2>3. CASE s = x /\ RecvOk(r)
      <3>1. registers'[s] = LoggedIn(registers[s]) /\ requests[r].status = "200"
        BY <2>1, <2>3 DEF RecvOk
      <3>2. registers'[s].answered /\ ~ registers[s].expires0
        <4>1. registers[s] \in CSipServerInfo
          BY <1>f, <2>1
        <4>2. LoggedIn(registers[s]).login
          BY <3>1
        <4>3. LoggedIn(registers[s]).answered /\ ~ registers[s].expires0
          BY <4>1, <4>2, InfoFields
        <4> QED
          BY <3>1, <4>3
      <3>3. s \in bindings
        BY <2>1, <2>3, <3>1, <3>2 DEF IInv, AnswerAgrees, Clear
      <3> QED
        BY <2>1, <3>2, <3>3 DEF Goal
    <2>4. CASE s = x /\ RecvError(r)
      BY <1>f, <2>1, <2>4, InfoFields DEF RecvError
    <2>5. CASE s = x /\ RecvUnauthorized(r)
      <3>1. Info(registers'[s]) = Info(registers[s])
        BY <1>f, <2>1, <2>5 DEF RecvUnauthorized, CSipServerInfo
      <3>2. Open(s)' # {}
        BY <2>5 DEF RecvUnauthorized, Open
      <3> QED
        BY <1>s, <2>1, <3>1, <3>2
    <2>6. CASE s = x /\ RecvIntervalTooBrief(r)
      <3>1. Info(registers'[s]) = Info(registers[s])
        BY <1>f, <2>1, <2>6 DEF RecvIntervalTooBrief, CSipServerInfo
      <3>2. Open(s)' # {}
        BY <2>6 DEF RecvIntervalTooBrief, Open
      <3> QED
        BY <1>s, <2>1, <3>1, <3>2
    <2>7. CASE s = x /\ RecvUnknown(r)
      BY <2>1, <2>7 DEF RecvUnknown
    <2> QED
      BY <1>7, <2>2, <2>3, <2>4, <2>5, <2>6, <2>7 DEF RecvRegisterResponse
  <1>7a. ASSUME NEW r \in DOMAIN requests, RecvTimeout(r) PROVE Goal
    <2>1. /\ DOMAIN requests' = DOMAIN requests \ {r}
          /\ \A x \in DOMAIN requests' : requests'[x] = requests[x]
          /\ UNCHANGED <<registers, bindings, mixed>> /\ silent \subseteq silent'
      BY <1>7a DEF RecvTimeout, Without, Restrict
    <2>2. CASE Open(s) # {r}
      <3>1. Open(s) # {} => Open(s)' # {}
        BY <2>1, <2>2 DEF Open
      <3> QED
        BY <1>s, <2>1, <3>1
    <2>3. CASE Open(s) = {r}
      <3>1. s \in bindings \cup silent \/ Deadlock
        BY <1>k, <2>1
      <3>2. registers[s].answered \/ s \in silent \/ registers[s].sent
        BY <1>k, <2>1
      <3>3. requests[r].server = s
        BY <2>3 DEF Open
      <3>4. registers[s].answered \/ s \in silent'
        BY <1>7a, <2>1, <2>3, <3>2, <3>3 DEF RecvTimeout
      <3> QED
        BY <1>d, <2>1, <3>1, <3>4 DEF Goal
    <2> QED
      BY <2>2, <2>3
  <1>8. ASSUME EventRegister PROVE Goal
    <2>1. s \in DOMAIN registers /\ registers'[s] = registers[s]
      BY <1>8 DEF EventRegister, Without, Restrict
    <2> QED
      BY <1>8, <1>s, <2>1 DEF EventRegister, Open
  <1>9. ASSUME BeginStop PROVE Goal
    BY <1>9, <1>s DEF BeginStop, Open
  <1>10. ASSUME DeRegister PROVE Goal
    <2>1. /\ s \in DOMAIN registers
          /\ registers'[s] = [registers[s] EXCEPT !.delete = TRUE, !.expires0 = TRUE]
      BY <1>10 DEF DeRegister
    <2> QED
      BY <1>f, <2>1, InfoFields
  <1>11. ASSUME EndStop PROVE Goal
    BY <1>11 DEF EndStop
  <1>12. ASSUME UNCHANGED vars PROVE Goal
    <2>1. UNCHANGED <<registers, requests, bindings, mixed, silent>>
      BY <1>12 DEF vars
    <2>2. Info(registers'[s]) = Info(registers[s]) /\ Open(s)' = Open(s)
      BY <2>1 DEF Open
    <2> QED
      BY <1>s, <2>1, <2>2
  <1> QED
    BY <1>1, <1>2, <1>3, <1>4, <1>5, <1>5a, <1>5b, <1>6, <1>7, <1>7a, <1>8, <1>9, <1>10,
       <1>11, <1>12 DEF Next, Goal

LEMMA Invariance == Spec => []IInv
  <1>1. IInv /\ [Next]_vars => IInv'
    BY TypeStep, AgreementStep, SilentStep, LoginStep DEF IInv, Agreement
  <1> QED
    BY InvInit, <1>1, PTL DEF Spec
-----------------------------------------------------------------------------
\* The list, the callback under way, the open REGISTERs and the maps of the two sides are
\* what they are declared to be; there is one callback at a time.
THEOREM TypeCorrect == Spec => []TypeOK
  BY Invariance, PTL DEF IInv

\* As long as a server holds a binding the list has the trunk, so that somebody will end
\* the registration (DeleteRegisterInfo erases nothing that is registered), except for
\* the trunks whose REGISTERs have crossed.
THEOREM NoTrunkForgotten == Spec => []NoForgottenRegistration
  BY Invariance, PTL DEF IInv

\* A trunk that the user agent uses as logged in (m_bLogin) is registered at its server:
\* the register thread refreshes the binding before it expires.  Not so when a REGISTER got
\* no response, after which nothing is sent for the trunk (silent), nor for trunks whose
\* REGISTERs have crossed, nor in the deadlock.
THEOREM LoginIsRegistered == Spec => []LoginIsTrue
  <1>1. IInv => LoginIsTrue
    BY DEF IInv, LoginIsKept, LoginIsTrue
  <1> QED
    BY Invariance, <1>1, PTL
=============================================================================
