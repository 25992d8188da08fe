---------------------------- MODULE SipTcpClient ----------------------------
(***************************************************************************)
(* SIP over TCP, and the life of the messages it carries.  CSipStack::Send *)
(* writes to the socket that CTcpSocketMap has for the address.  If there  *)
(* is none, the first message starts a thread that connects, and those     *)
(* that follow wait in CTcpConnectMap until it is done.  A new socket goes *)
(* through a pipe to a thread that polls its sessions and closes them.     *)
(*                                                                         *)
(* A message belongs to a transaction.  Whoever needs it longer counts in  *)
(* m_iUseCount; what a transaction gives up is deleted when nobody counts, *)
(* by CSipDeleteQueue.  The count is changed without a lock: of two        *)
(* changes at the same time one may be lost.                               *)
(*                                                                         *)
(* The stack is stateful and has one polling thread, the default.  A       *)
(* connection attempt ends within its timeout; a peer may close a          *)
(* connection or not take what is sent, at any time.                       *)
(***************************************************************************)
EXTENDS Integers, Sequences, FiniteSets, Functions

CONSTANTS
  Address,     \* IP addresses and ports of peers
  Message,
  AddressOf,   \* [Message -> Address]: where a message is sent to
  Resent,      \* messages that a transaction sends again
  Sender,      \* threads that send
  Client,      \* threads that connect, SipTcpClientThread
  Socket,      \* socket numbers; a closed one is given out again
  NoSocket,
  MaxSocketPerThread,
  MaxUseCount  \* bound: a message that is counted so often is not sent again

ASSUME SipTcpClientAssumption ==
  /\ AddressOf \in [Message -> Address]
  /\ Sender \cap Client = {}
  /\ NoSocket \notin Socket
  /\ "count" \notin Socket \cup {NoSocket}
  /\ MaxSocketPerThread \in Nat \ {0}

VARIABLES
  sender,       \* what a sending thread does next
  client,       \* what a connecting thread does next
  connectMap,   \* m_clsTcpConnectMap
  socketMap,    \* m_clsTcpSocketMap
  remote,       \* the open sockets, and the peers they are connected to
  pipe,         \* sockets on their way to the polling thread
  sessions,     \* the session list of the polling thread
  closing,      \* the session it is closing
  socketCount,  \* m_iSocketCount of the polling thread
  transactions, \* messages that a transaction has
  useCount,     \* m_iUseCount
  deleteQueue,  \* gclsSipDeleteQueue
  freed,        \* messages that were deleted
  begun,        \* messages ever sent by the user agent
  orphans,      \* addresses whose connecting thread could not be started
  raced,        \* messages with a lost change of the count
  leaked        \* sockets that nobody closes

sockets == <<socketMap, remote, pipe, sessions, closing, socketCount, leaked>>
life == <<transactions, deleteQueue, freed, begun>>
vars == <<sender, client, connectMap, sockets, life, useCount, raced, orphans>>

Places(list, m) == {i \in DOMAIN list : list[i] = m}
Copies(list, m) == Cardinality(Places(list, m))

Nothing == [do |-> "Nothing"]

\* own: in SendSipMessage, which counts; otherwise the list that sends again holds its mutex.
SenderTask ==
  [do : {"Send", "Write", "Connect", "Start", "Wait", "End"}, message : Message, own : BOOLEAN]

\* ok: the connection was made and its first message written.
ClientTask ==
  [do : {"Connect", "SendFirst", "Delete", "Settle", "End"},
   message : Message, socket : Socket \cup {NoSocket}, list : Seq(Message), ok : BOOLEAN]

\* m_clsSipMessageList, and whether m_iCreateTime is 120 seconds ago.
CTcpConnectInfo == [list : Seq(Message), old : BOOLEAN]

TypeOK ==
  /\ sender \in [Sender -> SenderTask \cup {Nothing}]
  /\ client \in [Client -> ClientTask \cup {Nothing}]
  /\ DOMAIN connectMap \subseteq Address /\ Range(connectMap) \subseteq CTcpConnectInfo
  /\ DOMAIN socketMap \subseteq Address /\ Range(socketMap) \subseteq Socket
  /\ DOMAIN remote \subseteq Socket /\ Range(remote) \subseteq Address
  /\ pipe \in Seq(Socket)
  /\ sessions \cup leaked \subseteq Socket
  /\ closing \in {NoSocket} \cup Socket \cup {"count"}
  /\ socketCount \in 0 .. MaxSocketPerThread
  /\ useCount \in [Message -> Int]
  /\ deleteQueue \in Seq(begun)
  /\ transactions \cup freed \subseteq begun
  /\ begun \cup raced \subseteq Message
  /\ orphans \subseteq Address

Init ==
  /\ sender = [t \in Sender |-> Nothing]
  /\ client = [c \in Client |-> Nothing]
  /\ connectMap = [a \in {} |-> [list |-> <<>>, old |-> FALSE]]
  /\ socketMap = [a \in {} |-> NoSocket]
  /\ remote = [s \in {} |-> NoSocket]
  /\ pipe = <<>>
  /\ sessions = {}
  /\ closing = NoSocket
  /\ socketCount = 0
  /\ transactions = {}
  /\ useCount = [m \in Message |-> 0]
  /\ deleteQueue = <<>>
  /\ freed = {}
  /\ begun = {}
  /\ orphans = {}
  /\ raced = {}
  /\ leaked = {}

With(f, x, v) == [y \in DOMAIN f \cup {x} |-> IF y = x THEN v ELSE f[y]]
Without(f, x) == Restrict(f, DOMAIN f \ {x})

SenderDoes(t, step) == sender[t].do = step
ClientDoes(c, step) == client[c].do = step
SenderGoesOn(t, step) == sender' = [sender EXCEPT ![t].do = step]
ClientGoesOn(c, step) == client' = [client EXCEPT ![c].do = step]

To(t) == AddressOf[sender[t].message]
Of(c) == AddressOf[client[c].message]
-----------------------------------------------------------------------------
\* m_iUseCount.

\* The message whose count is the next thing thread t changes.
Counts(t, m) ==
  \/ /\ t \in Sender
     /\ SenderDoes(t, "Start") \/ SenderDoes(t, "Wait") \/ (SenderDoes(t, "End") /\ sender[t].own)
     /\ sender[t].message = m
  \/ /\ t \in Client
     /\ \/ ClientDoes(t, "End") /\ client[t].message = m
        \/ ClientDoes(t, "Settle") /\ client[t].list # <<>> /\ Head(client[t].list) = m

Change(t, m, by) ==
  \/ useCount' = [useCount EXCEPT ![m] = @ + by] /\ UNCHANGED raced
  \/ /\ raced = {}
     /\ \E u \in (Sender \cup Client) \ {t} : Counts(u, m)
     /\ raced' = raced \cup {m}
     /\ UNCHANGED useCount

\* CSipDeleteQueue::Insert, when a transaction ends.  A list that is sending the message
\* holds the mutex that this takes.
TransactionEnds(m) ==
  /\ m \in transactions
  /\ \A t \in Sender : sender[t] # Nothing /\ sender[t].message = m => sender[t].own
  /\ transactions' = transactions \ {m}
  /\ IF useCount[m] = 0
     THEN freed' = freed \cup {m} /\ UNCHANGED deleteQueue
     ELSE deleteQueue' = Append(deleteQueue, m) /\ UNCHANGED freed
  /\ UNCHANGED <<sender, client, connectMap, sockets, useCount, raced, begun, orphans>>

\* DeleteTimeout: the head of the queue, when its time has come and nobody counts.
DeleteTimeout ==
  /\ deleteQueue # <<>>
  /\ useCount[Head(deleteQueue)] <= 0
  /\ freed' = freed \cup {Head(deleteQueue)}
  /\ deleteQueue' = Tail(deleteQueue)
  /\ UNCHANGED <<sender, client, connectMap, sockets, useCount, raced, transactions, begun,
                 orphans>>
-----------------------------------------------------------------------------
\* CSipStack::Send.

SendSipMessage(t, m) ==
  /\ sender[t] = Nothing
  /\ m \notin begun
  /\ begun' = begun \cup {m}
  /\ transactions' = transactions \cup {m}
  /\ useCount' = [useCount EXCEPT ![m] = @ + 1]
  /\ sender' = [sender EXCEPT ![t] =
       [do |-> "Send", message |-> m, own |-> TRUE]]
  /\ UNCHANGED <<client, connectMap, sockets, deleteQueue, freed, raced, orphans>>

\* A copy of a request is answered by the response of its server transaction, which is sent
\* again with the mutex of the list held.
SendAgain(t, m) ==
  /\ sender[t] = Nothing
  /\ m \in transactions
  /\ \A u \in Sender : sender[u] # Nothing => sender[u].own
  /\ m \in Resent
  /\ useCount[m] < MaxUseCount
  /\ sender' = [sender EXCEPT ![t] =
       [do |-> "Send", message |-> m, own |-> FALSE]]
  /\ UNCHANGED <<client, connectMap, sockets, life, useCount, raced, orphans>>

\* m_clsTcpSocketMap has a socket for the address.
SocketFound(t) ==
  /\ SenderDoes(t, "Send")
  /\ To(t) \in DOMAIN socketMap
  /\ SenderGoesOn(t, "Write")
  /\ UNCHANGED <<client, connectMap, sockets, life, useCount, raced, orphans>>

\* SipTcpSend, without the mutex of the map: the socket may have been closed since, and its number
\* given out again.  The result is not looked at.
SocketSend(t) ==
  /\ SenderDoes(t, "Write")
  /\ SenderGoesOn(t, "End")
  /\ UNCHANGED <<client, connectMap, sockets, life, useCount, raced, orphans>>

NoSocketFound(t) ==
  /\ SenderDoes(t, "Send")
  /\ To(t) \notin DOMAIN socketMap
  /\ SenderGoesOn(t, "Connect")
  /\ UNCHANGED <<client, connectMap, sockets, life, useCount, raced, orphans>>

\* TcpConnectMap.Insert( address ): an attempt that lasts 120 seconds is taken for dead, and
\* the messages that wait for it are thrown away.
Connect(t) ==
  LET a == To(t)
      attempt == a \in DOMAIN connectMap
      waiting == IF attempt THEN connectMap[a].list ELSE <<>> IN
  /\ SenderDoes(t, "Connect")
  /\ IF attempt /\ ~ connectMap[a].old
     THEN SenderGoesOn(t, "Wait") /\ UNCHANGED <<connectMap, useCount>>
     ELSE /\ SenderGoesOn(t, "Start")
          /\ connectMap' = With(connectMap, a, [list |-> <<>>, old |-> FALSE])
          /\ useCount' = [m \in Message |-> useCount[m] - Copies(waiting, m)]
  /\ UNCHANGED <<client, sockets, life, raced, orphans>>

\* StartThread; when it fails the message is not sent, its count stays, and so does the entry
\* for the attempt.
Start(t) ==
  LET m == sender[t].message IN
  /\ SenderDoes(t, "Start")
  /\ Change(t, m, 1)
  /\ \/ \E c \in Client :
          /\ client[c] = Nothing
          /\ client' = [client EXCEPT ![c] =
               [do |-> "Connect", message |-> m, socket |-> NoSocket, list |-> <<>>, ok |-> FALSE]]
          /\ UNCHANGED orphans
     \/ /\ \A c \in Client : client[c] # Nothing
        /\ orphans' = orphans \cup {To(t)}
        /\ UNCHANGED client
  /\ SenderGoesOn(t, "End")
  /\ UNCHANGED <<connectMap, sockets, life>>

\* Mutant: a message that waits is not counted.
WaitUncounted(t) ==
  LET m == sender[t].message IN
  /\ SenderDoes(t, "Wait")
  /\ connectMap' = IF To(t) \in DOMAIN connectMap
                   THEN [connectMap EXCEPT ![To(t)].list = Append(@, m)] ELSE connectMap
  /\ SenderGoesOn(t, "End")
  /\ UNCHANGED <<client, sockets, life, useCount, raced, orphans>>

\* TcpConnectMap.Insert( address, message ): the attempt may have ended since Connect; the
\* message is not sent then.
Wait(t) ==
  LET m == sender[t].message IN
  /\ SenderDoes(t, "Wait")
  /\ IF To(t) \in DOMAIN connectMap
     THEN /\ Change(t, m, 1)
          /\ connectMap' = [connectMap EXCEPT ![To(t)].list = Append(@, m)]
     ELSE UNCHANGED <<connectMap, useCount, raced>>
  /\ SenderGoesOn(t, "End")
  /\ UNCHANGED <<client, sockets, life, orphans>>

\* SendSipMessage returns.
End(t) ==
  /\ SenderDoes(t, "End")
  /\ IF sender[t].own THEN Change(t, sender[t].message, -1) ELSE UNCHANGED <<useCount, raced>>
  /\ sender' = [sender EXCEPT ![t] = Nothing]
  /\ UNCHANGED <<client, connectMap, sockets, life, orphans>>
-----------------------------------------------------------------------------
\* SipTcpClientThread.

\* What follows a failure: the message is answered by a 503.
Failed(c) == client' = [client EXCEPT ![c].do = "Delete", ![c].socket = NoSocket]

TcpConnect(c) ==
  /\ ClientDoes(c, "Connect")
  /\ \/ \E s \in Socket \ DOMAIN remote :
          /\ remote' = With(remote, s, Of(c))
          /\ client' = [client EXCEPT ![c].do = "SendFirst", ![c].socket = s]
     \/ Failed(c) /\ UNCHANGED remote
  /\ UNCHANGED <<sender, connectMap, socketMap, pipe, sessions, closing, socketCount, leaked,
                 life, useCount, raced, orphans>>

\* The message the attempt was started for.  If it cannot be written the socket stays open.
SendFirst(c) ==
  /\ ClientDoes(c, "SendFirst")
  /\ \/ /\ client' = [client EXCEPT ![c].do = "Delete", ![c].ok = TRUE]
        /\ UNCHANGED leaked
     \/ Failed(c) /\ leaked' = leaked \cup {client[c].socket}
  /\ UNCHANGED <<sender, connectMap, socketMap, remote, pipe, sessions, closing, socketCount,
                 life, useCount, raced, orphans>>

\* Mutant: an attempt that failed does not delete its entry.
DeleteConnected(c) ==
  /\ ClientDoes(c, "Delete")
  /\ client' = [client EXCEPT ![c].do = "Settle",
       ![c].list = IF Of(c) \in DOMAIN connectMap /\ client[c].ok
                   THEN connectMap[Of(c)].list ELSE <<>>]
  /\ connectMap' = IF client[c].ok THEN Without(connectMap, Of(c)) ELSE connectMap
  /\ UNCHANGED <<sender, sockets, life, useCount, raced, orphans>>

\* TcpConnectMap.Delete: the attempt is over, and the thread has the messages that waited.
Delete(c) ==
  /\ ClientDoes(c, "Delete")
  /\ client' = [client EXCEPT ![c].do = "Settle",
       ![c].list = IF Of(c) \in DOMAIN connectMap THEN connectMap[Of(c)].list ELSE <<>>]
  /\ connectMap' = Without(connectMap, Of(c))
  /\ UNCHANGED <<sender, sockets, life, useCount, raced, orphans>>

\* Each of them is written, with the result ignored, or answered by a 503.
Settle(c) ==
  /\ ClientDoes(c, "Settle")
  /\ client[c].list # <<>>
  /\ Change(c, Head(client[c].list), -1)
  /\ client' = [client EXCEPT ![c].list = Tail(@)]
  /\ UNCHANGED <<sender, connectMap, sockets, life, orphans>>

\* Mutant: the limit is not looked at.
SendCommandUnlimited(c) ==
  /\ ClientDoes(c, "Settle")
  /\ client[c].list = <<>>
  /\ client' = [client EXCEPT ![c].do = "End", ![c].socket = NoSocket]
  /\ IF client[c].ok
     THEN pipe' = Append(pipe, client[c].socket) /\ socketCount' = socketCount + 1
     ELSE UNCHANGED <<pipe, socketCount>>
  /\ UNCHANGED <<sender, connectMap, socketMap, remote, sessions, closing, leaked, life, useCount,
                 raced, orphans>>

\* SendCommand hands the socket to the polling thread; it is closed if that has enough.
SendCommand(c) ==
  LET s == client[c].socket IN
  /\ ClientDoes(c, "Settle")
  /\ client[c].list = <<>>
  /\ client' = [client EXCEPT ![c].do = "End", ![c].socket = NoSocket]
  /\ IF ~ client[c].ok THEN UNCHANGED <<pipe, socketCount, remote>>
     ELSE IF socketCount < MaxSocketPerThread
     THEN pipe' = Append(pipe, s) /\ socketCount' = socketCount + 1 /\ UNCHANGED remote
     ELSE remote' = Without(remote, s) /\ UNCHANGED <<pipe, socketCount>>
  /\ UNCHANGED <<sender, connectMap, socketMap, sessions, closing, leaked, life, useCount, raced,
                 orphans>>

ClientEnd(c) ==
  /\ ClientDoes(c, "End")
  /\ Change(c, client[c].message, -1)
  /\ client' = [client EXCEPT ![c] = Nothing]
  /\ UNCHANGED <<sender, connectMap, sockets, life, orphans>>

\* 120 seconds pass while an attempt hangs.
TooLong(a) ==
  /\ a \in DOMAIN connectMap
  /\ ~ connectMap[a].old
  /\ connectMap' = [connectMap EXCEPT ![a].old = TRUE]
  /\ UNCHANGED <<sender, client, sockets, life, useCount, raced, orphans>>
-----------------------------------------------------------------------------
\* SipTcpListenThread and SipTcpThread.

\* A peer connects: its socket goes to the polling thread if that has room.
Accept(a) ==
  /\ socketCount < MaxSocketPerThread
  /\ \E s \in Socket \ DOMAIN remote :
       remote' = With(remote, s, a) /\ pipe' = Append(pipe, s)
  /\ socketCount' = socketCount + 1
  /\ UNCHANGED <<sender, client, connectMap, socketMap, sessions, closing, leaked, life, useCount,
                 raced, orphans>>

\* A socket comes through the pipe: TcpSocketMap.Insert keeps the one the address has.
RecvCommand ==
  LET s == Head(pipe) IN
  /\ closing = NoSocket
  /\ pipe # <<>>
  /\ pipe' = Tail(pipe)
  /\ sessions' = sessions \cup {s}
  /\ socketMap' = IF remote[s] \in DOMAIN socketMap THEN socketMap
                  ELSE With(socketMap, remote[s], s)
  /\ UNCHANGED <<sender, client, connectMap, remote, closing, socketCount, leaked, life, useCount,
                 raced, orphans>>

\* Mutant: the socket is closed before its address leaves the map.
CloseSessionFirst(s) ==
  /\ closing = NoSocket
  /\ s \in sessions
  /\ remote' = Without(remote, s)
  /\ sessions' = sessions \ {s}
  /\ closing' = "count"
  /\ UNCHANGED <<sender, client, connectMap, socketMap, pipe, socketCount, leaked, life, useCount,
                 raced, orphans>>

\* The peer closed a session or was silent for too long: the address leaves the map, whichever
\* socket the map has for it.
CloseSession(s) ==
  /\ closing = NoSocket
  /\ s \in sessions
  /\ socketMap' = Without(socketMap, remote[s])
  /\ closing' = s
  /\ UNCHANGED <<sender, client, connectMap, remote, pipe, sessions, socketCount, leaked, life,
                 useCount, raced, orphans>>

CloseSocket ==
  /\ closing \in Socket
  /\ remote' = Without(remote, closing)
  /\ sessions' = sessions \ {closing}
  /\ closing' = "count"
  /\ UNCHANGED <<sender, client, connectMap, socketMap, pipe, socketCount, leaked, life, useCount,
                 raced, orphans>>

DecreaseSocketCount ==
  /\ closing = "count"
  /\ socketCount' = socketCount - 1
  /\ closing' = NoSocket
  /\ UNCHANGED <<sender, client, connectMap, socketMap, remote, pipe, sessions, leaked, life,
                 useCount, raced, orphans>>
-----------------------------------------------------------------------------
SenderStep(t) ==
  \/ SocketFound(t) \/ SocketSend(t) \/ NoSocketFound(t) \/ Connect(t) \/ Start(t) \/ Wait(t)
  \/ End(t)

ClientStep(c) ==
  \/ TcpConnect(c) \/ SendFirst(c) \/ Delete(c) \/ Settle(c) \/ SendCommand(c)
  \/ ClientEnd(c)

TcpThreadStep == RecvCommand \/ CloseSocket \/ DecreaseSocketCount

Next ==
  \/ \E t \in Sender, m \in Message : SendSipMessage(t, m) \/ SendAgain(t, m)
  \/ \E t \in Sender : SenderStep(t)
  \/ \E c \in Client : ClientStep(c)
  \/ \E a \in Address : TooLong(a) \/ Accept(a)
  \/ \E s \in Socket : CloseSession(s)
  \/ TcpThreadStep
  \/ \E m \in Message : TransactionEnds(m)
  \/ DeleteTimeout

Spec == Init /\ [][Next]_vars
-----------------------------------------------------------------------------
\* Messages that a thread has a pointer to, or that wait in the map.
Used ==
  {sender[t].message : t \in {t \in Sender : sender[t] # Nothing}}
    \cup {client[c].message : c \in {c \in Client : client[c] # Nothing}}
    \cup (UNION {Range(client[c].list) : c \in {c \in Client : client[c] # Nothing}})
    \cup (UNION {Range(connectMap[a].list) : a \in DOMAIN connectMap})

\* No message is deleted while a thread uses it or it waits for a connection, as long as no
\* change of its count was lost.
NoUseAfterFree == Used \cap freed \subseteq raced

\* What the sockets of the connecting threads, of the pipe and of the sessions are.
Held == {client[c].socket : c \in {c \in Client : client[c] # Nothing}} \ {NoSocket}

\* Every open socket has one owner who will close it, except those of attempts whose first
\* message could not be written.  The map names sessions of their address only, and the count
\* that limits the sessions is exact, so that the session list is never full.
SocketsAccounted ==
  /\ DOMAIN remote = Held \cup Range(pipe) \cup sessions \cup leaked
  /\ Cardinality(DOMAIN remote) = Cardinality(Held) + Len(pipe) + Cardinality(sessions)
                                    + Cardinality(leaked)
  /\ \A a \in DOMAIN socketMap : socketMap[a] \in sessions \ {closing} /\ remote[socketMap[a]] = a
  /\ socketCount = Len(pipe) + Cardinality(sessions) + (IF closing = "count" THEN 1 ELSE 0)

\* Messages wait only for an attempt that somebody will end, so that none is forgotten; except
\* where the thread of the attempt could not be started.
NoneWaitsInVain ==
  \A a \in DOMAIN connectMap \ orphans :
    \/ \E t \in Sender : SenderDoes(t, "Start") /\ To(t) = a
    \/ \E c \in Client : client[c].do \in {"Connect", "SendFirst", "Delete"} /\ Of(c) = a

\* Who counts m: its senders, the threads that connect for it, and its places in the lists of
\* messages that wait in the map or that a thread took out of it and settles.
SendersOf(m) == {t \in Sender : sender[t] # Nothing /\ sender[t].own /\ sender[t].message = m}
ClientsOf(m) == {c \in Client : client[c] # Nothing /\ client[c].message = m}
Settled == [c \in Client |-> IF client[c] = Nothing THEN <<>> ELSE client[c].list]
Waiting == [a \in DOMAIN connectMap |-> connectMap[a].list]

PlacesIn(lists, m) == UNION {{x} \X Places(lists[x], m) : x \in DOMAIN lists}

\* How often m should be counted.
Uses(m) ==
  Cardinality(SendersOf(m)) + Cardinality(ClientsOf(m))
    + Cardinality(PlacesIn(Settled, m)) + Cardinality(PlacesIn(Waiting, m))

\* Nothing else is counted, so that a message that its transaction gave up is deleted once
\* nobody uses it; except messages whose thread could not be started or of whose changes one
\* was lost.
NoCountLeaked ==
  \A m \in Message \ raced :
    useCount[m] = Uses(m) \/ (AddressOf[m] \in orphans /\ useCount[m] > Uses(m))

\* The count of a message does what it is for: the message lives as long as it is used, and
\* not longer.
MessagesLiveWhileUsed == NoUseAfterFree /\ NoCountLeaked
=============================================================================
