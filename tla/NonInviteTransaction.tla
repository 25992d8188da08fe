------------------------ MODULE NonInviteTransaction ------------------------
(***************************************************************************)
(* The CSipNICTList of one stack and the CSipNISTList of another, over     *)
(* UDP.  As in InviteTransaction the stack threads are punctual, and a     *)
(* datagram is delivered before it is MaxDelay ticks old, any number of    *)
(* times, or lost.                                                         *)
(***************************************************************************)
EXTENDS SipTransactionList

CONSTANTS
  Thread, Stack, Cancel, StopTime,   \* of SipNICTList
  TimerJ                             \* of SipNISTList

ASSUME NonInviteAssumption ==
  /\ Udp = Key
  /\ Stack \notin Thread
  /\ Cancel \subseteq Key
  /\ StopTime \in 0 .. Cap
  /\ TimerJ \in 0 .. Cap

VARIABLES
  nict, upcalls, timedOut, begun, told, dropped,   \* the client's
  nist, offered, responses,                        \* the server's
  net,
  reoffered,   \* requests the server's user agent was called with more than once
  running      \* FALSE when the server's stack was stopped

clientVars == <<nict, upcalls, timedOut, begun, told, dropped>>
serverVars == <<nist, offered, responses>>
vars == <<clientVars, serverVars, net, reoffered, running>>

Client == INSTANCE SipNICTList
Server == INSTANCE SipNISTList

TypeOK ==
  /\ Client!TypeOK
  /\ Server!TypeOK
  /\ net \subseteq [method : {"REQUEST", "RESPONSE"}, key : begun,
                    status : Status \cup {NoResponse}, age : 0 .. MaxDelay - 1]

Init ==
  /\ Client!Init
  /\ Server!Init
  /\ reoffered = {}
  /\ running = TRUE
-----------------------------------------------------------------------------
ClientStep == UNCHANGED <<serverVars, reoffered, running>>
ServerStep == UNCHANGED clientVars

ClientSends == \E k \in Key : Client!SendRequest(k) /\ ClientStep

ClientReceives ==
  \E t \in Thread, m \in net :
    /\ m.method = "RESPONSE"
    /\ Client!RecvResponse(t, m.key, m.status)
    /\ ClientStep

ClientIsTold(t) == Client!Tell(t) /\ ClientStep

ClientDeletesCancel == \E k \in Key : Client!DeleteCancel(k) /\ ClientStep

ClientExecutes == Client!Execute /\ ClientStep

ClientTimesOut(k) == Client!TellTimeout(k) /\ ClientStep

ClientStops == Client!DeleteAll /\ ClientStep

ServerReceives ==
  \E m \in net :
    /\ m.method = "REQUEST"
    /\ running
    /\ \/ Server!RecvRequest(m.key) /\ reoffered' = reoffered \cup ({m.key} \cap offered)
       \/ Server!RecvRequestAgain(m.key) /\ UNCHANGED reoffered
    /\ ServerStep
    /\ UNCHANGED running

\* The user agent gives one final response, at most after provisional ones.
ServerAnswers(k) ==
  \E s \in Status :
    /\ k \in DOMAIN nist
    /\ ~ Final(nist[k].response)
    /\ Server!SendResponse(k, s)
    /\ ServerStep
    /\ UNCHANGED <<reoffered, running>>

ServerExecutes == Server!Execute /\ ServerStep /\ UNCHANGED <<reoffered, running>>

ServerStops ==
  /\ Server!DeleteAll
  /\ running' = FALSE
  /\ ServerStep
  /\ UNCHANGED reoffered

\* Nothing is due in either stack.
Punctual ==
  /\ upcalls = {}
  /\ timedOut = {}
  /\ \A k \in DOMAIN nict : ~ Client!Completed(nict[k]) /\ ~ Client!Due(nict[k])
  /\ \A k \in DOMAIN nist : ~ Server!Completed(nist[k])

Tick ==
  /\ Punctual
  /\ Client!Tick
  /\ Server!Tick
  /\ UNCHANGED <<reoffered, running>>

Next ==
  \/ ClientSends \/ ClientReceives \/ ClientDeletesCancel \/ ClientExecutes \/ ClientStops
  \/ \E t \in Thread \cup {Stack} : ClientIsTold(t)
  \/ \E k \in Key : ClientTimesOut(k) \/ ServerAnswers(k)
  \/ ServerReceives \/ ServerExecutes \/ ServerStops
  \/ Tick

Spec == Init /\ [][Next]_vars

\* The threads run and time passes, however often the network duplicates a datagram; the
\* user agent gives a final response to a request.
Fairness ==
  /\ SF_vars(Tick)
  /\ WF_vars(ClientExecutes)
  /\ \A k \in Key : WF_vars(ClientTimesOut(k))
  /\ \A t \in Thread \cup {Stack} : WF_vars(ClientIsTold(t))
  /\ WF_vars(ServerExecutes)
  /\ \A k \in Key : SF_vars(ServerAnswers(k) /\ Final(nist'[k].response))

FairSpec == Spec /\ Fairness
-----------------------------------------------------------------------------
\* The two lists and the network between them keep the contract: a request is not carried
\* out twice (no copy of it comes after Timer J), what its sender learns is what was
\* answered, and after a 408 nothing is learned any more.  A second call of the user agent
\* is no step of the contract.
contractClient ==
  [k \in Key |->
    IF k \notin begun THEN "idle"
    ELSE IF <<k, SIP_REQUEST_TIME_OUT>> \in told THEN "failed"
    ELSE IF Client!ToldFinal(k) THEN "answered"
    ELSE "waiting"]

contractServer ==
  [k \in Key |->
    IF k \notin offered THEN "idle"
    ELSE IF k \in reoffered THEN "working"
    ELSE IF \A s \in Status : Final(s) => <<k, s>> \notin responses THEN "working"
    ELSE "done"]

Contract == INSTANCE NonInviteContract WITH client <- contractClient, server <- contractServer

KeepsContract == Contract!Spec

\* Every request is answered for its sender, at last by the 408 of Execute.  The two
\* exceptions are the code's: a request that got a provisional response and no other is
\* given up without a word, and a CANCEL is forgotten when its INVITE ended.
EveryRequestReported ==
  \A k \in Key : k \in begun ~>
    (Client!ToldFinal(k) \/ k \in dropped \/ \E s \in Status : <<k, s>> \in told)
=============================================================================
