----------------------------- MODULE SipNICTList -----------------------------
(***************************************************************************)
(* The non-INVITE client transactions of a SIP stack: CSipNICTList, called *)
(* by CSipStack::SendSipMessage (requests), by CSipStack::RecvSipMessage   *)
(* (responses, in the receiving threads) and by the stack thread.          *)
(*                                                                         *)
(* The mutex of the list makes each of its operations atomic; the callback *)
(* into the user agent comes after the mutex is released (Tell), and so    *)
(* does the delivery of the 408 responses of Execute (TellTimeout).        *)
(***************************************************************************)
EXTENDS SipTransactionList

CONSTANTS
  Thread,    \* threads that receive responses
  Stack,     \* the stack thread
  Cancel,    \* the keys of CANCEL requests
  StopTime   \* how long a transaction is kept after a final response, in ticks

VARIABLES
  nict,      \* m_clsMap
  net,       \* datagrams on their way
  upcalls,   \* callbacks into the user agent under way
  timedOut,  \* Execute's clsResponseList: the requests whose 408 is not delivered
  begun,     \* requests ever sent
  told,      \* <<request, status>> the user agent was told
  dropped    \* transactions removed by DeleteCancel or by CSipStack::Stop

vars == <<nict, net, upcalls, timedOut, begun, told, dropped>>

\* m_pclsResponse (its status, NoResponse for NULL), m_iReSendCount and two ages.
CSipNonInviteTransaction ==
  [response : Status \cup {NoResponse}, resend : 0 .. MAX_ICT_RESEND_COUNT,
   start : 0 .. Cap, stop : Age]

NewNonInvite == [response |-> NoResponse, resend |-> 0, start |-> 0, stop |-> Off]

Upcall == [thread : Thread \cup {Stack}, key : Key, status : Status \cup {SIP_REQUEST_TIME_OUT}]

TypeOK ==
  /\ DOMAIN nict \subseteq begun
  /\ \A k \in DOMAIN nict :
       nict[k] \in CSipNonInviteTransaction /\ nict[k].resend < MAX_ICT_RESEND_COUNT
  /\ upcalls \subseteq Upcall
  /\ timedOut \subseteq begun
  /\ begun \subseteq Key
  /\ told \subseteq begun \X (Status \cup {SIP_REQUEST_TIME_OUT})
  /\ dropped \subseteq begun

Idle(t) == \A u \in upcalls : u.thread # t
ToldFinal(k) == \E s \in Status \cup {SIP_REQUEST_TIME_OUT} : Final(s) /\ <<k, s>> \in told

Init ==
  /\ nict = EmptyMap
  /\ net = {}
  /\ upcalls = {}
  /\ timedOut = {}
  /\ begun = {}
  /\ told = {}
  /\ dropped = {}
-----------------------------------------------------------------------------
\* SendSipMessage of a request with a fresh branch.
SendRequest(k) ==
  /\ k \notin begun
  /\ nict' = Insert(nict, k, NewNonInvite)
  /\ begun' = begun \cup {k}
  /\ net' = Sent(net, {Request("REQUEST", k)})
  /\ UNCHANGED <<upcalls, timedOut, told, dropped>>

\* A response with another status replaces the one that is held.
NewStatus(tr, s) == tr.response # s

Responded(tr, s) ==
  [tr EXCEPT !.response = s,
             !.stop = IF NewStatus(tr, s) /\ Final(s) THEN 0 ELSE @]

\* RecvSipMessage of a response; it is dropped when its transaction is gone.
RecvResponse(t, k, s) ==
  /\ Idle(t)
  /\ k \in DOMAIN nict
  /\ nict' = [nict EXCEPT ![k] = Responded(@, s)]
  /\ upcalls' = IF NewStatus(nict[k], s)
                THEN upcalls \cup {[thread |-> t, key |-> k, status |-> s]}
                ELSE upcalls
  /\ UNCHANGED <<net, timedOut, begun, told, dropped>>

\* The callback RecvResponse.
Tell(t) ==
  \E u \in upcalls :
    /\ u.thread = t
    /\ told' = told \cup {<<u.key, u.status>>}
    /\ upcalls' = upcalls \ {u}
    /\ UNCHANGED <<nict, net, timedOut, begun, dropped>>

\* The final response to the INVITE of a CANCEL arrives.
DeleteCancel(k) ==
  /\ k \in Cancel \cap DOMAIN nict
  /\ nict' = Erase(nict, {k})
  /\ dropped' = dropped \cup {k}
  /\ UNCHANGED <<net, upcalls, timedOut, begun, told>>
-----------------------------------------------------------------------------
\* The decisions of Execute on one transaction.
Stopped(tr) == tr.stop # Off
Completed(tr) == Stopped(tr) /\ tr.stop >= StopTime
Due(tr) == ~ Stopped(tr) /\ ReSendDue(tr)
\* Mutant: the limit is off by one.
ExhaustedLate(tr) == Due(tr) /\ tr.resend = MAX_ICT_RESEND_COUNT
Exhausted(tr) == Due(tr) /\ tr.resend + 1 = MAX_ICT_RESEND_COUNT
\* Mutant: a request that was not answered is deleted without a 408.
TimesOutNever(tr) == FALSE
\* A request that got a provisional response is deleted without a word.
TimesOut(tr) == Exhausted(tr) /\ tr.response = NoResponse

Execute ==
  LET chosen(P(_)) == {k \in DOMAIN nict : P(nict[k])}
      gone    == chosen(Completed) \cup chosen(Exhausted)
      resends == chosen(Due) \ gone
  IN  /\ Idle(Stack)
      /\ timedOut = {}
      /\ nict' = [k \in DOMAIN nict \ gone |->
                    IF k \in resends THEN [nict[k] EXCEPT !.resend = @ + 1] ELSE nict[k]]
      /\ timedOut' = chosen(TimesOut)
      /\ net' = Sent(net, {Request("REQUEST", k) : k \in resends \cap Udp})
      /\ UNCHANGED <<upcalls, begun, told, dropped>>

\* Execute, after it released the mutex: a 408 goes to the user agent.
TellTimeout(k) ==
  /\ Idle(Stack)
  /\ k \in timedOut
  /\ timedOut' = timedOut \ {k}
  /\ upcalls' = upcalls \cup {[thread |-> Stack, key |-> k, status |-> SIP_REQUEST_TIME_OUT]}
  /\ UNCHANGED <<nict, net, begun, told, dropped>>

\* CSipStack::Stop: every thread has ended, the list is emptied.
DeleteAll ==
  /\ upcalls = {}
  /\ timedOut = {}
  /\ nict # EmptyMap
  /\ nict' = EmptyMap
  /\ dropped' = dropped \cup DOMAIN nict
  /\ UNCHANGED <<net, upcalls, timedOut, begun, told>>

\* Time passes.
Tick ==
  /\ nict' = [k \in DOMAIN nict |->
                [nict[k] EXCEPT !.start = Older(@), !.stop = Older(@)]]
  /\ net' = OlderNet(net)
  /\ UNCHANGED <<upcalls, timedOut, begun, told, dropped>>
=============================================================================
