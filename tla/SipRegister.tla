----------------------------- MODULE SipRegister -----------------------------
(***************************************************************************)
(* The trunks of KSipServer and their registrations.  The main thread      *)
(* reads the set-up files every minute into CSipServerMap (Load) and hands *)
(* what changed to the user agent (SetSipUserAgentRegisterInfo); the       *)
(* register thread of CSipUserAgent sends the REGISTERs; the receiving     *)
(* threads handle the answers (RecvRegisterResponse) and the end of a TCP  *)
(* or TLS session (TcpSessionEnd).                                         *)
(*                                                                         *)
(* Two mutexes: the one of CSipServerMap is held while the main thread     *)
(* goes through the map and calls the user agent; the one of the register  *)
(* list is held while EventRegister is called, which takes the first.      *)
(*                                                                         *)
(* The servers the trunks register with (external) keep a binding for a    *)
(* REGISTER they accept, remove it for one with Expires: 0, and let it     *)
(* expire when nobody refreshes it.  A REGISTER, or the response to it,    *)
(* may be lost; what the stack then reports (the 408 of the transaction,   *)
(* the 503 of a TCP connection that failed) has no client IP address and   *)
(* is found to be of no trunk, so that the trunk does not learn of it.     *)
(* The NAT keepalives, a REGISTER that cannot be sent and the contents of  *)
(* the files are left out.                                                 *)
(***************************************************************************)
EXTENDS Naturals, FiniteSets, Functions

CONSTANTS
  SipServer,   \* the trunks: user id and IP address
  Request      \* REGISTER transactions that can be open at a time

VARIABLES
  servers,      \* m_clsMap of CSipServerMap: m_iFlag
  changes,      \* what the main thread has still to tell the user agent, holding its mutex
  registers,    \* m_clsRegisterList
  eventRegister,\* the callback under way with the list's mutex held
  requests,     \* open REGISTER transactions
  bindings,     \* trunks their server holds a binding of
  stop,         \* CSipUserAgent::Stop: "no", "deregister", "wait" or "stopped"
  mixed,        \* trunks whose REGISTERs the code can no longer tell apart
  silent        \* trunks whose last REGISTER ended without a response

vars ==
  <<servers, changes, registers, eventRegister, requests, bindings, stop, mixed, silent>>

Flag == {"FLAG_INSERT", "FLAG_NO_CHANGE", "FLAG_DELETE"}

\* m_bLogin, m_iSendTime # 0, m_iResponseTime # 0, m_iLoginTimeout = 0, m_bAuth, m_bDelete,
\* and whether m_iNextSendTime is still to come.
CSipServerInfo ==
  [login : BOOLEAN, sent : BOOLEAN, answered : BOOLEAN, expires0 : BOOLEAN,
   auth : BOOLEAN, delete : BOOLEAN, wait : BOOLEAN]

NewInfo ==
  [login |-> FALSE, sent |-> FALSE, answered |-> FALSE, expires0 |-> FALSE,
   auth |-> FALSE, delete |-> FALSE, wait |-> FALSE]

\* A transaction: its trunk, whether it has Expires: 0, and the status of the response that
\* is on its way ("none" as long as the server has not got the REGISTER).
Register ==
  [server : SipServer, expires0 : BOOLEAN, status : {"none", "200", "401", "423", "error"}]

NoEvent == {}

TypeOK ==
  /\ DOMAIN servers \subseteq SipServer
  /\ \A s \in DOMAIN servers : servers[s] \in Flag
  /\ changes \subseteq DOMAIN servers
  /\ DOMAIN registers \subseteq SipServer
  /\ \A s \in DOMAIN registers : registers[s] \in CSipServerInfo
  /\ eventRegister \subseteq [server : DOMAIN registers, status : {"200", "error"}]
  /\ Cardinality(eventRegister) <= 1
  /\ DOMAIN requests \subseteq Request
  /\ \A r \in DOMAIN requests : requests[r] \in Register
  /\ bindings \subseteq SipServer
  /\ stop \in {"no", "deregister", "wait", "stopped"}
  /\ mixed \subseteq SipServer
  /\ silent \subseteq SipServer

Init ==
  /\ servers = [s \in {} |-> "FLAG_INSERT"]
  /\ changes = {}
  /\ registers = [s \in {} |-> NewInfo]
  /\ eventRegister = NoEvent
  /\ requests = [r \in {} |-> NewInfo]
  /\ bindings = {}
  /\ stop = "no"
  /\ mixed = {}
  /\ silent = {}

With(f, x, v) == [y \in DOMAIN f \cup {x} |-> IF y = x THEN v ELSE f[y]]
Without(f, x) == Restrict(f, DOMAIN f \ {x})

\* REGISTERs of a trunk that are open.
Open(s) == {r \in DOMAIN requests : requests[r].server = s}

\* m_clsRegisterMutex is free, the stack runs.
ListFree == eventRegister = NoEvent
Running == stop # "stopped"

\* The main thread holds the mutex of CSipServerMap and waits for the one of the list, and a
\* receiving thread has them the other way round.
Deadlock == eventRegister # NoEvent /\ changes # {}
-----------------------------------------------------------------------------
\* The main thread: CSipServerMap.

\* Load: the files name the trunks in files.
Load(files) ==
  /\ stop = "no"
  /\ changes = {}
  /\ servers' = [s \in DOMAIN servers \cup files |->
                   IF s \notin DOMAIN servers THEN "FLAG_INSERT"
                   ELSE IF s \in files THEN "FLAG_NO_CHANGE" ELSE "FLAG_DELETE"]
  /\ changes' = {s \in DOMAIN servers' : servers'[s] # "FLAG_NO_CHANGE"}
  /\ UNCHANGED <<registers, eventRegister, requests, bindings, stop, mixed, silent>>

\* Mutant: the deletion of a trunk that is still in the list is taken back.
InsertRegisterInfoAgain(s) ==
  /\ s \in changes /\ servers[s] = "FLAG_INSERT"
  /\ ListFree
  /\ registers' = IF s \in DOMAIN registers
                  THEN [registers EXCEPT ![s].delete = FALSE, ![s].expires0 = FALSE]
                  ELSE With(registers, s, NewInfo)
  /\ mixed' = IF s \in DOMAIN registers THEN mixed
              ELSE IF Open(s) = {} THEN mixed \ {s} ELSE mixed \cup {s}
  /\ silent' = IF s \in DOMAIN registers THEN silent ELSE silent \ {s}
  /\ changes' = changes \ {s}
  /\ UNCHANGED <<servers, eventRegister, requests, bindings, stop>>

\* InsertRegisterInfo does nothing for a trunk that is still in the list, as one is whose
\* deletion has not been answered.
InsertRegisterInfo(s) ==
  /\ s \in changes /\ servers[s] = "FLAG_INSERT"
  /\ ListFree
  /\ registers' = IF s \in DOMAIN registers THEN registers ELSE With(registers, s, NewInfo)
  /\ mixed' = IF s \in DOMAIN registers THEN mixed
              ELSE IF Open(s) = {} THEN mixed \ {s} ELSE mixed \cup {s}
  /\ silent' = IF s \in DOMAIN registers THEN silent ELSE silent \ {s}
  /\ changes' = changes \ {s}
  /\ UNCHANGED <<servers, eventRegister, requests, bindings, stop>>

\* A REGISTER with another expiry than 0 is open: its answer will be taken for the answer
\* to the one that ends the registration.
Crossed(s) == \E r \in Open(s) : ~ requests[r].expires0

\* Mutant: a trunk that is not logged in is erased, too.
DeletedLoggedOut(s) == registers[s].expires0 \/ ~ registers[s].login

Deleted(s) == registers[s].expires0

\* Mutant: the mutex of the list is not taken.
DeleteRegisterInfoUnlocked(s) ==
  /\ s \in changes /\ servers[s] = "FLAG_DELETE"
  /\ \/ s \notin DOMAIN registers /\ UNCHANGED <<registers, mixed>>
     \/ /\ s \in DOMAIN registers
        /\ registers' = IF Deleted(s) THEN Without(registers, s)
                        ELSE [registers EXCEPT ![s].delete = TRUE, ![s].expires0 = TRUE]
        /\ mixed' = IF registers[s].expires0 \/ Crossed(s) THEN mixed \cup {s} ELSE mixed
  /\ servers' = Without(servers, s)
  /\ changes' = changes \ {s}
  /\ UNCHANGED <<eventRegister, requests, bindings, stop, silent>>

\* DeleteRegisterInfo erases a trunk whose registration was ended before: also when that
\* has not been answered.
DeleteRegisterInfo(s) ==
  /\ s \in changes /\ servers[s] = "FLAG_DELETE"
  /\ ListFree
  /\ \/ s \notin DOMAIN registers /\ UNCHANGED <<registers, mixed>>
     \/ /\ s \in DOMAIN registers
        /\ registers' = IF Deleted(s) THEN Without(registers, s)
                        ELSE [registers EXCEPT ![s].delete = TRUE, ![s].expires0 = TRUE]
        /\ mixed' = IF registers[s].expires0 \/ Crossed(s) THEN mixed \cup {s} ELSE mixed
  /\ servers' = Without(servers, s)
  /\ changes' = changes \ {s}
  /\ UNCHANGED <<eventRegister, requests, bindings, stop, silent>>
-----------------------------------------------------------------------------
\* The register thread.

\* A REGISTER is due; halfTime says that half of m_iLoginTimeout is over.
Due(info, halfTime) ==
  IF info.login THEN (halfTime /\ info.answered) \/ info.expires0
  ELSE ~ info.sent /\ ~ info.wait

\* CreateRegister and SendSipMessage.
Send(s, info) ==
  /\ Request \ DOMAIN requests # {}
  /\ requests' = With(requests, CHOOSE r \in Request \ DOMAIN requests : TRUE,
       [server |-> s, expires0 |-> info.expires0, status |-> "none"])

\* One trunk of the loop of SipRegisterThread.
SendRegister(s) ==
  /\ Running
  /\ ListFree
  /\ s \in DOMAIN registers
  /\ \E halfTime \in BOOLEAN : Due(registers[s], halfTime)
  /\ Send(s, registers[s])
  /\ registers' = [registers EXCEPT ![s].sent = TRUE, ![s].answered = FALSE, ![s].auth = FALSE]
  /\ silent' = silent \ {s}
  /\ UNCHANGED <<servers, changes, eventRegister, bindings, stop, mixed>>

\* m_iNextSendTime has come.
WaitOver(s) ==
  /\ s \in DOMAIN registers /\ registers[s].wait
  /\ registers' = [registers EXCEPT ![s].wait = FALSE]
  /\ UNCHANGED <<servers, changes, eventRegister, requests, bindings, stop, mixed, silent>>
-----------------------------------------------------------------------------
\* The server a trunk registers with.

Answer(r, status) == requests' = [requests EXCEPT ![r].status = status]

Accept(r) ==
  /\ requests[r].status = "none"
  /\ bindings' = IF requests[r].expires0 THEN bindings \ {requests[r].server}
                 ELSE bindings \cup {requests[r].server}
  /\ Answer(r, "200")
  /\ UNCHANGED <<servers, changes, registers, eventRegister, stop, mixed, silent>>

Refuse(r, status) ==
  /\ requests[r].status = "none"
  /\ status = "423" => ~ requests[r].expires0
  /\ Answer(r, status)
  /\ UNCHANGED <<servers, changes, registers, eventRegister, bindings, stop, mixed, silent>>

\* The user agent will send a REGISTER in time: the half of m_iLoginTimeout that is left is
\* longer than the 32 seconds of a transaction.
Refreshed(s) ==
  /\ s \in DOMAIN registers
  /\ registers[s].login
  /\ Due(registers[s], TRUE)
  /\ ~ Deadlock

\* The binding ends because nobody refreshed it.
Expire(s) ==
  /\ s \in bindings
  /\ ~ Refreshed(s)
  /\ Open(s) = {}
  /\ bindings' = bindings \ {s}
  /\ UNCHANGED <<servers, changes, registers, eventRegister, requests, stop, mixed, silent>>
-----------------------------------------------------------------------------
\* RecvRegisterResponse: the response is for the trunk with its user id and IP address,
\* whichever of its REGISTERs it answers.

\* Mutant: the send time is not reset.
ClearLoginKeepsSendTime(info) == [info EXCEPT !.login = FALSE, !.answered = FALSE]

ClearLogin(info) == [info EXCEPT !.login = FALSE, !.sent = FALSE, !.answered = FALSE]

LoggedIn(info) ==
  IF info.expires0 THEN ClearLogin(info) ELSE [info EXCEPT !.login = TRUE, !.answered = TRUE]

RecvOk(r) ==
  LET s == requests[r].server IN
  /\ s \in DOMAIN registers
  /\ requests[r].status = "200"
  /\ registers' = [registers EXCEPT ![s] = LoggedIn(@)]
  /\ eventRegister' = {[server |-> s, status |-> "200"]}
  /\ requests' = Without(requests, r)
  /\ UNCHANGED mixed

\* CLEAR_LOGIN: the next REGISTER is sent in a minute.
Failed(info) == [ClearLogin(info) EXCEPT !.wait = TRUE]

\* Another error response of the server (also a 423 without Min-Expires), or a 401 to
\* credentials.
RecvError(r) ==
  LET s == requests[r].server IN
  /\ s \in DOMAIN registers
  /\ \/ requests[r].status = "error"
     \/ requests[r].status = "401" /\ registers[s].auth
  /\ registers' = [registers EXCEPT ![s] = Failed(@)]
  /\ eventRegister' = {[server |-> s, status |-> "error"]}
  /\ requests' = Without(requests, r)
  /\ UNCHANGED mixed

\* A 401 is answered with credentials if the last REGISTER of the trunk had none.
RecvUnauthorized(r) ==
  LET s == requests[r].server IN
  /\ s \in DOMAIN registers
  /\ requests[r].status = "401"
  /\ ~ registers[s].auth
  /\ requests' = [requests EXCEPT ![r] =
       [server |-> s, expires0 |-> registers[s].expires0, status |-> "none"]]
  /\ registers' = [registers EXCEPT ![s].auth = TRUE]
  /\ UNCHANGED <<eventRegister, mixed>>

\* 423: Min-Expires becomes the expiry, also of a trunk that is being deleted.
RecvIntervalTooBrief(r) ==
  LET s == requests[r].server IN
  /\ s \in DOMAIN registers
  /\ requests[r].status = "423"
  /\ requests' = [requests EXCEPT ![r] =
       [server |-> s, expires0 |-> FALSE, status |-> "none"]]
  /\ registers' = [registers EXCEPT ![s].expires0 = FALSE, ![s].auth = FALSE]
  /\ mixed' = IF registers[s].expires0 THEN mixed \cup {s} ELSE mixed
  /\ UNCHANGED eventRegister

\* The trunk is not in the list any more.
RecvUnknown(r) ==
  /\ requests[r].server \notin DOMAIN registers
  /\ requests' = Without(requests, r)
  /\ UNCHANGED <<registers, eventRegister, mixed>>

RecvAccepted(r) ==
  Running /\ ListFree /\ RecvOk(r) /\ UNCHANGED <<servers, changes, bindings, stop, silent>>

RecvRegisterResponse(r) ==
  /\ Running
  /\ ListFree
  /\ RecvOk(r) \/ RecvError(r) \/ RecvUnauthorized(r) \/ RecvIntervalTooBrief(r) \/ RecvUnknown(r)
  /\ UNCHANGED <<servers, changes, bindings, stop, silent>>

\* The REGISTER ends without a response of the server, which may have got it or not.  The
\* 408 of its transaction, or the 503, is looked up by a client IP address that only a
\* received message has: no trunk is found.
RecvTimeout(r) ==
  LET s == requests[r].server IN
  /\ Running
  /\ ListFree
  /\ requests' = Without(requests, r)
  /\ silent' = IF s \in DOMAIN registers /\ registers[s].sent /\ ~ registers[s].answered
                   /\ Open(s) = {r}
                THEN silent \cup {s} ELSE silent
  /\ UNCHANGED <<servers, changes, registers, eventRegister, bindings, stop, mixed>>

\* TcpSessionEnd: the TCP or TLS session with the server of a trunk ends.
TcpSessionEnd(s) ==
  /\ Running
  /\ ListFree
  /\ s \in DOMAIN registers
  /\ registers' = [registers EXCEPT ![s] = ClearLogin(@)]
  /\ silent' = silent \ {s}
  /\ UNCHANGED <<servers, changes, eventRegister, requests, bindings, stop, mixed>>

\* EventRegister: CSipServerMap::Set needs the mutex that the main thread may hold.  A trunk
\* that is deleted leaves the list after the 200 to its last REGISTER.
EventRegister ==
  /\ changes = {}
  /\ \E event \in eventRegister :
       LET s == event.server IN
       registers' = IF event.status = "200" /\ registers[s].expires0 /\ registers[s].delete
                    THEN Without(registers, s) ELSE registers
  /\ eventRegister' = NoEvent
  /\ UNCHANGED <<servers, changes, requests, bindings, stop, mixed, silent>>
-----------------------------------------------------------------------------
\* CSipUserAgent::Stop.

BeginStop ==
  /\ stop = "no"
  /\ changes = {}
  /\ stop' = "deregister"
  /\ UNCHANGED <<servers, changes, registers, eventRegister, requests, bindings, mixed, silent>>

DeRegister ==
  /\ stop = "deregister"
  /\ ListFree
  /\ registers' = [s \in DOMAIN registers |->
                     [registers[s] EXCEPT !.delete = TRUE, !.expires0 = TRUE]]
  /\ mixed' = mixed \cup {s \in DOMAIN registers : Crossed(s)}
  /\ stop' = "wait"
  /\ UNCHANGED <<servers, changes, eventRegister, requests, bindings, silent>>

\* No trunk is logged in, or ten seconds are over.  Trunks that are still in the list then
\* are forgotten.
EndStop ==
  /\ stop = "wait"
  /\ ListFree
  /\ mixed' = mixed \cup DOMAIN registers
  /\ registers' = [s \in {} |-> NewInfo]
  /\ requests' = [r \in {} |-> NewInfo]
  /\ stop' = "stopped"
  /\ UNCHANGED <<servers, changes, eventRegister, bindings, silent>>
-----------------------------------------------------------------------------
Respond(r) == Accept(r) \/ \E status \in {"401", "423", "error"} : Refuse(r, status)

Next ==
  \/ \E files \in SUBSET SipServer : Load(files)
  \/ \E s \in SipServer : InsertRegisterInfo(s) \/ DeleteRegisterInfo(s)
  \/ \E s \in SipServer : SendRegister(s) \/ WaitOver(s) \/ TcpSessionEnd(s) \/ Expire(s)
  \/ \E r \in DOMAIN requests : Respond(r) \/ RecvRegisterResponse(r) \/ RecvTimeout(r)
  \/ EventRegister
  \/ BeginStop \/ DeRegister \/ EndStop

Spec == Init /\ [][Next]_vars

\* The threads run and time passes; every REGISTER ends, by its response or without one.  A
\* server that is asked again and again accepts at last, and if it answers again and again
\* one of its responses arrives.
Fairness ==
  /\ \A s \in SipServer :
       /\ WF_vars(SendRegister(s)) /\ WF_vars(WaitOver(s))
       /\ WF_vars(InsertRegisterInfo(s)) /\ WF_vars(DeleteRegisterInfo(s))
  /\ WF_vars(EventRegister)
  /\ \A r \in Request :
       /\ SF_vars(r \in DOMAIN requests /\ (RecvRegisterResponse(r) \/ RecvTimeout(r)))
       /\ SF_vars(r \in DOMAIN requests /\ Accept(r))
       /\ SF_vars(r \in DOMAIN requests /\ RecvAccepted(r))

FairSpec == Spec /\ Fairness
-----------------------------------------------------------------------------
\* No trunk is forgotten while its server holds a registration of it.
NoForgottenRegistration == bindings \subseteq DOMAIN registers \cup mixed

\* A trunk that is logged in is registered: it is refreshed before the server forgets it,
\* unless a REGISTER of it got no response, after which nothing is sent for a trunk that is
\* logged in, or the register thread hangs in the deadlock.
LoginIsTrue ==
  \A s \in DOMAIN registers :
    registers[s].login /\ ~ registers[s].expires0 =>
      s \in bindings \cup mixed \cup silent \/ Deadlock

\* A trunk that was deleted leaves the list, unless its REGISTER got no response: a trunk
\* that is not logged in then sends no other one.
DeletedTrunkLeaves ==
  \A s \in SipServer :
    (s \in DOMAIN registers /\ registers[s].delete /\ registers[s].expires0) ~>
      (s \notin DOMAIN registers \/ ~ registers[s].expires0 \/ s \in silent \/ Deadlock)

\* A trunk that is in the list, not deleted and not at the stop.
Active(s) == s \in DOMAIN registers /\ ~ registers[s].delete /\ stop = "no"

\* What the comment of SipRegisterThread says: REGISTERs are sent periodically, for every
\* trunk that stays active, whatever became of the ones before.
RegistersPeriodically == \A s \in SipServer : []<>(Active(s) /\ ~ Deadlock => Open(s) # {})
=============================================================================
