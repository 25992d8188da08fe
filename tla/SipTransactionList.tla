------------------------- MODULE SipTransactionList -------------------------
(***************************************************************************)
(* What the INVITE client list (SipICTList) and the INVITE server list     *)
(* (SipISTList) share: CSipTransactionList with its retransmission table,  *)
(* the record CSipInviteTransaction, std::map as a partial function, and   *)
(* the datagrams between two stacks.                                       *)
(*                                                                         *)
(* A key is "branch CSeq-number method" (GetKey); an ACK has the key of    *)
(* its INVITE.  Time is counted in ticks of 500 ms, T1 of RFC 3261.  The   *)
(* code stores absolute times and compares differences (DiffTimeval); the  *)
(* model stores the differences, the age of each time stamp, saturated at  *)
(* Cap.  Off is a time stamp never taken (tv_sec = 0).                     *)
(***************************************************************************)
EXTENDS Integers, FiniteSets, Functions

CONSTANTS
  Key,          \* keys of the INVITE transactions
  Call,         \* SIP Call-IDs
  CallOf,       \* the Call-ID of each key
  Status,       \* response status codes in use
  Udp,          \* the keys whose messages travel over UDP
  MAX_ICT_RESEND_COUNT,
  ReSendTime,   \* m_arrICTReSendTime, in ticks
  Cap,          \* where ages saturate: no limit of the code is above it
  MaxDelay      \* a datagram younger than this can be delivered; 0: none is

ASSUME ListAssumption ==
  /\ CallOf \in [Key -> Call]
  /\ Status \subseteq 100 .. 699
  /\ Udp \subseteq Key
  /\ MAX_ICT_RESEND_COUNT \in Nat \ {0}
  /\ Cap \in Nat
  /\ ReSendTime \in [0 .. MAX_ICT_RESEND_COUNT - 1 -> 0 .. Cap]
  /\ MaxDelay \in Nat

SIP_TRYING == 100
SIP_OK == 200
SIP_UNAUTHORIZED == 401
SIP_REQUEST_TIME_OUT == 408
SIP_CONNECT_ERROR == 660

Final(s) == s >= SIP_OK
-----------------------------------------------------------------------------
Off == -1
Age == Off .. Cap
NoResponse == 0

\* One transaction.  response is the status of m_pclsResponse (NoResponse when
\* the pointer is NULL), status is m_iStatusCode, ack says m_pclsAck # NULL.
CSipInviteTransaction ==
  [response : Status \cup {NoResponse, SIP_TRYING},
   status   : Status \cup {NoResponse},
   ack      : BOOLEAN,
   resend   : 0 .. MAX_ICT_RESEND_COUNT,
   start    : 0 .. Cap,
   ring     : Age,
   stop     : Age]

NewTransaction ==
  [response |-> NoResponse, status |-> NoResponse, ack |-> FALSE,
   resend |-> 0, start |-> 0, ring |-> Off, stop |-> Off]

\* The next element of the retransmission table is due.
ReSendDue(tr) == tr.start >= ReSendTime[tr.resend]

\* m_clsMap.insert and m_clsMap.erase.
Insert(map, k, tr) == [j \in DOMAIN map \cup {k} |-> IF j = k THEN tr ELSE map[j]]
Erase(map, keys) == Restrict(map, DOMAIN map \ keys)
EmptyMap == [k \in {} |-> NewTransaction]

-----------------------------------------------------------------------------
\* A tick of the clock.
Older(age) == IF age \in {Off, Cap} THEN age ELSE age + 1
OlderTransaction(tr) ==
  [tr EXCEPT !.start = Older(@), !.ring = Older(@), !.stop = Older(@)]
OlderMap(map) == [k \in DOMAIN map |-> OlderTransaction(map[k])]

\* Datagrams.  One stays in the network, receivable any number of times or never,
\* until it is MaxDelay ticks old: loss, duplication and reordering.
Request(method, k)  == [method |-> method, key |-> k, status |-> NoResponse, age |-> 0]
Response(k, s)      == [method |-> "RESPONSE", key |-> k, status |-> s, age |-> 0]
Datagram ==
  [method : {"INVITE", "ACK", "RESPONSE"}, key : Key,
   status : Status \cup {NoResponse, SIP_TRYING}, age : 0 .. MaxDelay]

Sent(net, datagrams) == net \cup {d \in datagrams : d.age < MaxDelay}

OlderNet(net) ==
  {[m EXCEPT !.age = m.age + 1] : m \in {d \in net : d.age + 1 < MaxDelay}}
=============================================================================
