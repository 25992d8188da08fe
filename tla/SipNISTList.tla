----------------------------- MODULE SipNISTList -----------------------------
(***************************************************************************)
(* The non-INVITE server transactions of a SIP stack: CSipNISTList, called *)
(* by CSipStack::RecvSipMessage (requests), by CSipStack::SendSipMessage   *)
(* (the responses of the user agent) and by the stack thread.              *)
(***************************************************************************)
EXTENDS SipTransactionList

CONSTANT TimerJ   \* m_iTimerJ, in ticks

VARIABLES
  nist,       \* m_clsMap
  net,        \* datagrams on their way
  offered,    \* requests the user agent was called with
  responses   \* <<request, status>> the user agent sent

vars == <<nist, net, offered, responses>>

\* m_pclsResponse (its status, NoResponse for NULL) and the age of the stop time.
CSipNonInviteTransaction == [response : Status \cup {NoResponse}, stop : Age]

TypeOK ==
  /\ DOMAIN nist \subseteq offered
  /\ \A k \in DOMAIN nist : nist[k] \in CSipNonInviteTransaction
  /\ offered \subseteq Key
  /\ responses \subseteq offered \X Status

Init ==
  /\ nist = EmptyMap
  /\ net = {}
  /\ offered = {}
  /\ responses = {}
-----------------------------------------------------------------------------
\* A request that is not in the list is offered to the user agent.
RecvRequest(k) ==
  /\ k \notin DOMAIN nist
  /\ nist' = Insert(nist, k, [response |-> NoResponse, stop |-> Off])
  /\ offered' = offered \cup {k}
  /\ UNCHANGED <<net, responses>>

\* Another copy of it gets the response that is held.
RecvRequestAgain(k) ==
  /\ k \in DOMAIN nist
  /\ net' = Sent(net, IF nist[k].response = NoResponse THEN {}
                      ELSE {Response(k, nist[k].response)})
  /\ UNCHANGED <<nist, offered, responses>>

Answered(tr, s) == [tr EXCEPT !.response = s, !.stop = IF Final(s) THEN 0 ELSE @]

\* The user agent sends a response with another status than the one that is held.
SendResponse(k, s) ==
  /\ k \in DOMAIN nist
  /\ nist[k].response # s
  /\ nist' = [nist EXCEPT ![k] = Answered(@, s)]
  /\ net' = Sent(net, {Response(k, s)})
  /\ responses' = responses \cup {<<k, s>>}
  /\ UNCHANGED offered

\* Mutant: half of Timer J.
CompletedEarly(tr) == tr.stop # Off /\ 2 * tr.stop >= TimerJ

Completed(tr) == tr.stop # Off /\ tr.stop >= TimerJ

Execute ==
  /\ nist' = Erase(nist, {k \in DOMAIN nist : Completed(nist[k])})
  /\ UNCHANGED <<net, offered, responses>>

\* CSipStack::Stop.
DeleteAll ==
  /\ nist # EmptyMap
  /\ nist' = EmptyMap
  /\ UNCHANGED <<net, offered, responses>>

Tick ==
  /\ nist' = [k \in DOMAIN nist |-> [nist[k] EXCEPT !.stop = Older(@)]]
  /\ net' = OlderNet(net)
  /\ UNCHANGED <<offered, responses>>
=============================================================================
