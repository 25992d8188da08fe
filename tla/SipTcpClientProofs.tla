-------------------------- MODULE SipTcpClientProofs --------------------------
(***************************************************************************)
(* Theorems about SipTcpClient, for every set of peers, messages and       *)
(* threads: who owns the sockets, who answers the messages that wait, and  *)
(* that a message lives as long as it is used.                             *)
(***************************************************************************)
EXTENDS SipTcpClient, FiniteSetTheorems, TLAPS

\* The socket of a connecting thread.
SocketOf(c) == IF client[c] = Nothing THEN NoSocket ELSE client[c].socket

\* A connecting thread has a socket from TcpConnect until it gives it away or loses it, and a
\* list of messages only while it settles them.
ClientInv ==
  \A c \in Client : client[c] # Nothing =>
    /\ client[c].socket # NoSocket <=>
         client[c].do = "SendFirst" \/ (client[c].ok /\ client[c].do \in {"Delete", "Settle"})
    /\ client[c].do \in {"Connect", "SendFirst"} => ~ client[c].ok
    /\ client[c].do # "Settle" => client[c].list = <<>>

\* Every open socket has an owner, and one only.
OneOwner ==
  /\ DOMAIN remote = Held \cup Range(pipe) \cup sessions \cup leaked
  /\ Held \cap Range(pipe) = {} /\ Held \cap sessions = {} /\ Held \cap leaked = {}
  /\ Range(pipe) \cap sessions = {} /\ Range(pipe) \cap leaked = {} /\ sessions \cap leaked = {}
  /\ \A c, d \in Client : SocketOf(c) # NoSocket /\ SocketOf(c) = SocketOf(d) => c = d
  /\ \A i, j \in DOMAIN pipe : pipe[i] = pipe[j] => i = j

FiniteOwners == IsFiniteSet(Held) /\ IsFiniteSet(sessions) /\ IsFiniteSet(leaked)

\* TcpSocketMap names sessions that are not about to be closed.
MapNamesSessions ==
  \A a \in DOMAIN socketMap : socketMap[a] \in sessions \ {closing} /\ remote[socketMap[a]] = a

CountExact ==
  socketCount = Len(pipe) + Cardinality(sessions) + (IF closing = "count" THEN 1 ELSE 0)

ClosingIsSession == closing \in Socket => closing \in sessions

SocketInv ==
  OneOwner /\ FiniteOwners /\ MapNamesSessions /\ CountExact /\ ClosingIsSession

IInv == TypeOK /\ ClientInv /\ SocketInv
-----------------------------------------------------------------------------
\* Functions and sequences.

LEMMA WithFields ==
  ASSUME NEW f, NEW x, NEW v
  PROVE  /\ DOMAIN With(f, x, v) = DOMAIN f \cup {x}
         /\ With(f, x, v)[x] = v
         /\ \A y \in DOMAIN f \ {x} : With(f, x, v)[y] = f[y]
         /\ Range(With(f, x, v)) \subseteq Range(f) \cup {v}
  <1>1. /\ DOMAIN With(f, x, v) = DOMAIN f \cup {x}
        /\ With(f, x, v)[x] = v
        /\ \A y \in DOMAIN f \ {x} : With(f, x, v)[y] = f[y]
    BY DEF With
  <1>2. Range(With(f, x, v)) \subseteq Range(f) \cup {v}
    BY <1>1 DEF Range
  <1> QED
    BY <1>1, <1>2

LEMMA WithoutFields ==
  ASSUME NEW f, NEW x
  PROVE  /\ DOMAIN Without(f, x) = DOMAIN f \ {x}
         /\ \A y \in DOMAIN f \ {x} : Without(f, x)[y] = f[y]
         /\ Range(Without(f, x)) \subseteq Range(f)
  <1>1. /\ DOMAIN Without(f, x) = DOMAIN f \ {x}
        /\ \A y \in DOMAIN f \ {x} : Without(f, x)[y] = f[y]
    BY DEF Without, Restrict
  <1>2. Range(Without(f, x)) \subseteq Range(f)
    BY <1>1 DEF Range
  <1> QED
    BY <1>1, <1>2

LEMMA RangeAppend ==
  ASSUME NEW S, NEW s \in Seq(S), NEW x \in S
  PROVE  /\ Append(s, x) \in Seq(S)
         /\ Len(Append(s, x)) = Len(s) + 1
         /\ Range(Append(s, x)) = Range(s) \cup {x}
         /\ \A i \in DOMAIN s : Append(s, x)[i] = s[i]
         /\ DOMAIN Append(s, x) = DOMAIN s \cup {Len(s) + 1}
         /\ Append(s, x)[Len(s) + 1] = x
         /\ Len(s) + 1 \notin DOMAIN s
  <1>1. Append(s, x) \in Seq(S) /\ Len(Append(s, x)) = Len(s) + 1 /\ Len(s) \in Nat
    OBVIOUS
  <1>2. DOMAIN s = 1 .. Len(s) /\ DOMAIN Append(s, x) = 1 .. Len(s) + 1
    BY <1>1
  <1>3. \A i \in DOMAIN s : Append(s, x)[i] = s[i]
    OBVIOUS
  <1>4. Append(s, x)[Len(s) + 1] = x
    OBVIOUS
  <1>5. DOMAIN Append(s, x) = DOMAIN s \cup {Len(s) + 1} /\ Len(s) + 1 \notin DOMAIN s
    BY <1>1, <1>2
  <1>6. Range(Append(s, x)) = Range(s) \cup {x}
    BY <1>3, <1>4, <1>5 DEF Range
  <1> QED
    BY <1>1, <1>3, <1>4, <1>5, <1>6

LEMMA TailFields ==
  ASSUME NEW S, NEW s \in Seq(S), s # <<>>
  PROVE  /\ Tail(s) \in Seq(S) /\ Head(s) \in S /\ Head(s) = s[1]
         /\ Len(s) \in Nat \ {0} /\ Len(Tail(s)) = Len(s) - 1
         /\ DOMAIN s = 1 .. Len(s) /\ DOMAIN Tail(s) = 1 .. Len(s) - 1
         /\ \A i \in 1 .. Len(s) - 1 : Tail(s)[i] = s[i + 1]
  OBVIOUS

LEMMA RangeTail ==
  ASSUME NEW S, NEW s \in Seq(S), s # <<>>
  PROVE  /\ Range(s) = Range(Tail(s)) \cup {Head(s)}
         /\ (\A i, j \in DOMAIN s : s[i] = s[j] => i = j) => Head(s) \notin Range(Tail(s))
  <1>1. \A i \in DOMAIN s : i = 1 \/ (i - 1 \in DOMAIN Tail(s) /\ Tail(s)[i - 1] = s[i])
    BY TailFields
  <1>2. \A i \in DOMAIN Tail(s) : i + 1 \in DOMAIN s /\ i + 1 # 1 /\ s[i + 1] = Tail(s)[i]
    BY TailFields
  <1>3. 1 \in DOMAIN s /\ Head(s) = s[1]
    BY TailFields
  <1>4. Range(s) \subseteq Range(Tail(s)) \cup {Head(s)}
    BY <1>1, <1>3 DEF Range
  <1>5. Range(Tail(s)) \subseteq Range(s) /\ Head(s) \in Range(s)
    BY <1>2, <1>3 DEF Range
  <1>6. ASSUME \A i, j \in DOMAIN s : s[i] = s[j] => i = j
        PROVE  Head(s) \notin Range(Tail(s))
    BY <1>2, <1>3, <1>6 DEF Range
  <1> QED
    BY <1>4, <1>5, <1>6

\* A sequence without repetition is as long as it has members.
LEMMA InjectiveLength ==
  ASSUME NEW S, NEW s \in Seq(S), \A i, j \in DOMAIN s : s[i] = s[j] => i = j
  PROVE  IsFiniteSet(Range(s)) /\ Cardinality(Range(s)) = Len(s)
  <1>1. Len(s) \in Nat /\ DOMAIN s = 1 .. Len(s)
    OBVIOUS
  <1>2. s \in Bijection(1 .. Len(s), Range(s))
    BY <1>1 DEF Bijection, Injection, Surjection, Range, IsInjective
  <1>3. ExistsBijection(1 .. Len(s), Range(s))
    BY <1>2 DEF ExistsBijection
  <1>4. IsFiniteSet(1 .. Len(s))
    BY <1>1, FS_Interval
  <1> QED
    BY <1>1, <1>3, <1>4, FS_Bijection, FS_CountingElements
-----------------------------------------------------------------------------
\* The tasks of the threads.

SenderSteps == {"Send", "Write", "Connect", "Start", "Wait", "End"}
ClientSteps == {"Connect", "SendFirst", "Delete", "Settle", "End"}

LEMMA SenderTaskFields ==
  ASSUME NEW task \in SenderTask, NEW step \in SenderSteps
  PROVE  /\ [task EXCEPT !.do = step] \in SenderTask
         /\ [task EXCEPT !.do = step].do = step
         /\ [task EXCEPT !.do = step].message = task.message
         /\ [task EXCEPT !.do = step].own = task.own
  BY DEF SenderTask, SenderSteps

LEMMA SenderTaskTypes ==
  ASSUME NEW task \in SenderTask
  PROVE  /\ task.do \in SenderSteps /\ task.message \in Message /\ task.own \in BOOLEAN
         /\ task # Nothing
  <1>1. task.do \in SenderSteps /\ task.message \in Message /\ task.own \in BOOLEAN
    BY DEF SenderTask, SenderSteps
  <1>2. Nothing.do = "Nothing" /\ "Nothing" \notin SenderSteps
    BY DEF Nothing, SenderSteps
  <1> QED
    BY <1>1, <1>2

LEMMA ClientTaskTypes ==
  ASSUME NEW task \in ClientTask
  PROVE  /\ task.do \in ClientSteps /\ task.message \in Message /\ task.ok \in BOOLEAN
         /\ task.socket \in Socket \cup {NoSocket} /\ task.list \in Seq(Message)
         /\ task # Nothing
  <1>1. /\ task.do \in ClientSteps /\ task.message \in Message /\ task.ok \in BOOLEAN
        /\ task.socket \in Socket \cup {NoSocket} /\ task.list \in Seq(Message)
    BY DEF ClientTask, ClientSteps
  <1>2. Nothing.do = "Nothing" /\ "Nothing" \notin ClientSteps
    BY DEF Nothing, ClientSteps
  <1> QED
    BY <1>1, <1>2

\* What a step leaves of a task.
SameBut(new, task, step, socket, list, ok) ==
  /\ new \in ClientTask
  /\ new.do = step /\ new.message = task.message
  /\ new.socket = socket /\ new.list = list /\ new.ok = ok

LEMMA ClientTaskFields ==
  ASSUME NEW task \in ClientTask, NEW step \in ClientSteps, NEW socket \in Socket \cup {NoSocket},
         NEW list \in Seq(Message)
  PROVE  /\ SameBut([task EXCEPT !.do = step, !.socket = socket], task, step, socket, task.list,
                    task.ok)
         /\ SameBut([task EXCEPT !.do = step, !.ok = TRUE], task, step, task.socket, task.list,
                    TRUE)
         /\ SameBut([task EXCEPT !.do = step, !.list = list], task, step, task.socket, list,
                    task.ok)
         /\ SameBut([task EXCEPT !.list = list], task, task.do, task.socket, list, task.ok)
  <1>1. SameBut([task EXCEPT !.do = step, !.socket = socket], task, step, socket, task.list,
                task.ok)
    BY DEF ClientTask, ClientSteps, SameBut
  <1>2. SameBut([task EXCEPT !.do = step, !.ok = TRUE], task, step, task.socket, task.list, TRUE)
    BY DEF ClientTask, ClientSteps, SameBut
  <1>3. SameBut([task EXCEPT !.do = step, !.list = list], task, step, task.socket, list, task.ok)
    BY DEF ClientTask, ClientSteps, SameBut
  <1>4. SameBut([task EXCEPT !.list = list], task, task.do, task.socket, list, task.ok)
    BY DEF ClientTask, ClientSteps, SameBut
  <1> QED
    BY <1>1, <1>2, <1>3, <1>4

\* A thread that is about to do a step has a task.
LEMMA SenderBusy ==
  ASSUME TypeOK, NEW t \in Sender, NEW step \in SenderSteps, SenderDoes(t, step)
  PROVE  /\ sender[t] \in SenderTask /\ sender[t] # Nothing /\ sender[t].do = step
         /\ sender[t].message \in Message /\ sender[t].own \in BOOLEAN
         /\ To(t) = AddressOf[sender[t].message] /\ To(t) \in Address
  <1>1. sender[t].do = step
    BY DEF SenderDoes
  <1>2. sender[t] # Nothing
    BY <1>1 DEF Nothing, SenderSteps
  <1>3. sender[t] \in SenderTask
    BY <1>2 DEF TypeOK
  <1> QED
    BY <1>1, <1>3, SenderTaskTypes, SipTcpClientAssumption DEF To

LEMMA ClientBusy ==
  ASSUME TypeOK, NEW c \in Client, NEW step \in ClientSteps, ClientDoes(c, step)
  PROVE  /\ client[c] \in ClientTask /\ client[c] # Nothing /\ client[c].do = step
         /\ client[c].message \in Message /\ client[c].ok \in BOOLEAN
         /\ client[c].socket \in Socket \cup {NoSocket} /\ client[c].list \in Seq(Message)
         /\ Of(c) = AddressOf[client[c].message] /\ Of(c) \in Address
  <1>1. client[c].do = step
    BY DEF ClientDoes
  <1>2. client[c] # Nothing
    BY <1>1 DEF Nothing, ClientSteps
  <1>3. client[c] \in ClientTask
    BY <1>2 DEF TypeOK
  <1> QED
    BY <1>1, <1>3, ClientTaskTypes, SipTcpClientAssumption DEF Of

\* A sending thread goes on with the same message.
LEMMA SenderWent ==
  ASSUME TypeOK, NEW t \in Sender, NEW step \in SenderSteps, sender[t] \in SenderTask,
         SenderGoesOn(t, step)
  PROVE  /\ sender' \in [Sender -> SenderTask \cup {Nothing}]
         /\ sender'[t] \in SenderTask /\ sender'[t] # Nothing
         /\ sender'[t].do = step /\ sender'[t].message = sender[t].message
         /\ sender'[t].own = sender[t].own
         /\ \A u \in Sender \ {t} : sender'[u] = sender[u]
  <1>1. sender'[t] = [sender[t] EXCEPT !.do = step]
    BY DEF SenderGoesOn, TypeOK
  <1>2. \A u \in Sender \ {t} : sender'[u] = sender[u]
    BY DEF SenderGoesOn, TypeOK
  <1>3. sender'[t] \in SenderTask
    BY <1>1, SenderTaskFields
  <1>4. sender' \in [Sender -> SenderTask \cup {Nothing}]
    BY <1>3 DEF SenderGoesOn, TypeOK
  <1> QED
    BY <1>1, <1>2, <1>3, <1>4, SenderTaskFields, SenderTaskTypes

\* One entry of client changes.
LEMMA ClientWent ==
  ASSUME TypeOK, NEW c \in Client, NEW task \in ClientTask \cup {Nothing},
         client' = [client EXCEPT ![c] = task]
  PROVE  /\ client' \in [Client -> ClientTask \cup {Nothing}]
         /\ client'[c] = task
         /\ \A d \in Client \ {c} : client'[d] = client[d]
  BY DEF TypeOK

\* What each step of a connecting thread leaves of its task.
ClientChange(c, step, socket, list, ok) ==
  /\ client' \in [Client -> ClientTask \cup {Nothing}]
  /\ client'[c] \in ClientTask /\ client'[c] # Nothing
  /\ client'[c].do = step /\ client'[c].message = client[c].message
  /\ client'[c].socket = socket /\ client'[c].list = list /\ client'[c].ok = ok
  /\ \A d \in Client \ {c} : client'[d] = client[d]

LEMMA ClientChanged ==
  ASSUME TypeOK, NEW c \in Client, NEW step, NEW socket, NEW list, NEW ok, NEW task,
         SameBut(task, client[c], step, socket, list, ok), client' = [client EXCEPT ![c] = task]
  PROVE  ClientChange(c, step, socket, list, ok)
  <1>1. task \in ClientTask
    BY DEF SameBut
  <1>2. task # Nothing
    BY <1>1, ClientTaskTypes
  <1> QED
    BY <1>1, <1>2, ClientWent DEF SameBut, ClientChange
LEMMA FailedChange ==
  ASSUME TypeOK, NEW c \in Client, client[c] \in ClientTask, Failed(c)
  PROVE  ClientChange(c, "Delete", NoSocket, client[c].list, client[c].ok)
  <1> DEFINE task == [client[c] EXCEPT !.do = "Delete", !.socket = NoSocket]
  <1>1. client' = [client EXCEPT ![c] = task]
    BY DEF Failed, TypeOK
  <1>2. SameBut(task, client[c], "Delete", NoSocket, client[c].list, client[c].ok)
    <2>1. "Delete" \in ClientSteps /\ client[c].list \in Seq(Message)
      BY ClientTaskTypes DEF ClientSteps
    <2> QED
      BY <2>1, ClientTaskFields
  <1> HIDE DEF task
  <1> QED
    BY <1>1, <1>2, ClientChanged

LEMMA TcpConnectEffect ==
  ASSUME TypeOK, NEW c \in Client, TcpConnect(c)
  PROVE  /\ client[c] \in ClientTask /\ client[c].do = "Connect"
         /\ \/ \E s \in Socket \ DOMAIN remote :
                 /\ remote' = With(remote, s, Of(c))
                 /\ ClientChange(c, "SendFirst", s, client[c].list, client[c].ok)
            \/ /\ UNCHANGED remote
               /\ ClientChange(c, "Delete", NoSocket, client[c].list, client[c].ok)
  <1>1. client[c] \in ClientTask /\ client[c].do = "Connect" /\ client[c].list \in Seq(Message)
    BY ClientBusy DEF TcpConnect, ClientSteps
  <1>2. CASE Failed(c) /\ UNCHANGED remote
    BY <1>1, <1>2, FailedChange
  <1>3. ASSUME NEW s \in Socket \ DOMAIN remote,
               client' = [client EXCEPT ![c].do = "SendFirst", ![c].socket = s]
        PROVE  ClientChange(c, "SendFirst", s, client[c].list, client[c].ok)
    <2> DEFINE task == [client[c] EXCEPT !.do = "SendFirst", !.socket = s]
    <2>1. client' = [client EXCEPT ![c] = task]
      BY <1>3 DEF TypeOK
    <2>2. SameBut(task, client[c], "SendFirst", s, client[c].list, client[c].ok)
      BY <1>1, ClientTaskFields DEF ClientSteps
    <2> HIDE DEF task
    <2> QED
      BY <2>1, <2>2, ClientChanged
  <1> QED
    BY <1>1, <1>2, <1>3 DEF TcpConnect

LEMMA SendFirstEffect ==
  ASSUME TypeOK, NEW c \in Client, SendFirst(c)
  PROVE  /\ client[c] \in ClientTask /\ client[c].do = "SendFirst"
         /\ \/ /\ ClientChange(c, "Delete", client[c].socket, client[c].list, TRUE)
               /\ UNCHANGED leaked
            \/ /\ ClientChange(c, "Delete", NoSocket, client[c].list, client[c].ok)
               /\ leaked' = leaked \cup {client[c].socket}
  <1>1. /\ client[c] \in ClientTask /\ client[c].do = "SendFirst"
        /\ client[c].list \in Seq(Message) /\ client[c].socket \in Socket \cup {NoSocket}
    BY ClientBusy DEF SendFirst, ClientSteps
  <1>2. ASSUME client' = [client EXCEPT ![c].do = "Delete", ![c].ok = TRUE]
        PROVE  ClientChange(c, "Delete", client[c].socket, client[c].list, TRUE)
    <2> DEFINE task == [client[c] EXCEPT !.do = "Delete", !.ok = TRUE]
    <2>1. client' = [client EXCEPT ![c] = task]
      BY <1>2 DEF TypeOK
    <2>2. SameBut(task, client[c], "Delete", client[c].socket, client[c].list, TRUE)
      BY <1>1, ClientTaskFields DEF ClientSteps
    <2> HIDE DEF task
    <2> QED
      BY <2>1, <2>2, ClientChanged
  <1>3. \/ Failed(c) /\ leaked' = leaked \cup {client[c].socket}
        \/ client' = [client EXCEPT ![c].do = "Delete", ![c].ok = TRUE] /\ UNCHANGED leaked
    BY DEF SendFirst
  <1>4. CASE Failed(c) /\ leaked' = leaked \cup {client[c].socket}
    BY <1>1, <1>4, FailedChange
  <1>5. CASE client' = [client EXCEPT ![c].do = "Delete", ![c].ok = TRUE] /\ UNCHANGED leaked
    BY <1>1, <1>2, <1>5
  <1> QED
    BY <1>3, <1>4, <1>5

\* The messages that wait for a connection to a.
WaitingFor(a) == IF a \in DOMAIN connectMap THEN connectMap[a].list ELSE <<>>

LEMMA WaitingForType ==
  ASSUME TypeOK, NEW a
  PROVE  WaitingFor(a) \in Seq(Message)
  <1>1. ASSUME a \in DOMAIN connectMap
        PROVE  connectMap[a].list \in Seq(Message)
    BY <1>1 DEF TypeOK, Range, CTcpConnectInfo
  <1> QED
    BY <1>1 DEF WaitingFor

LEMMA DeleteEffect ==
  ASSUME TypeOK, NEW c \in Client, Delete(c)
  PROVE  /\ client[c] \in ClientTask /\ client[c].do = "Delete"
         /\ ClientChange(c, "Settle", client[c].socket, WaitingFor(Of(c)), client[c].ok)
         /\ connectMap' = Without(connectMap, Of(c))
  <1>1. client[c] \in ClientTask /\ client[c].do = "Delete"
    BY ClientBusy DEF Delete, ClientSteps
  <1> DEFINE task == [client[c] EXCEPT !.do = "Settle", !.list = WaitingFor(Of(c))]
  <1>2. client' = [client EXCEPT ![c] = task]
    BY DEF Delete, TypeOK, WaitingFor
  <1>3. SameBut(task, client[c], "Settle", client[c].socket, WaitingFor(Of(c)), client[c].ok)
    <2>1. WaitingFor(Of(c)) \in Seq(Message)
      BY WaitingForType
    <2> HIDE DEF WaitingFor
    <2> QED
      BY <1>1, <2>1, ClientTaskFields, SipTcpClientAssumption DEF ClientSteps
  <1> HIDE DEF task
  <1>4. ClientChange(c, "Settle", client[c].socket, WaitingFor(Of(c)), client[c].ok)
    BY <1>2, <1>3, ClientChanged
  <1> QED
    BY <1>1, <1>4 DEF Delete

LEMMA SettleEffect ==
  ASSUME TypeOK, NEW c \in Client, Settle(c)
  PROVE  /\ client[c] \in ClientTask /\ client[c].do = "Settle"
         /\ client[c].list \in Seq(Message) /\ client[c].list # <<>>
         /\ ClientChange(c, "Settle", client[c].socket, Tail(client[c].list), client[c].ok)
  <1>1. /\ client[c] \in ClientTask /\ client[c].do = "Settle" /\ client[c].list \in Seq(Message)
        /\ client[c].list # <<>> /\ client[c].socket \in Socket \cup {NoSocket}
    BY ClientBusy DEF Settle, ClientSteps
  <1> DEFINE list == Tail(client[c].list)
             task == [client[c] EXCEPT !.list = list]
  <1>2. client' = [client EXCEPT ![c] = task]
    BY DEF Settle, TypeOK
  <1>3. list \in Seq(Message)
    BY <1>1
  <1>4. SameBut(task, client[c], "Settle", client[c].socket, list, client[c].ok)
    <2> HIDE DEF list
    <2> QED
      BY <1>1, <1>3, ClientTaskFields DEF ClientSteps
  <1> HIDE DEF task
  <1> QED
    BY <1>1, <1>2, <1>4, ClientChanged

LEMMA SendCommandEffect ==
  ASSUME TypeOK, NEW c \in Client, SendCommand(c)
  PROVE  /\ client[c] \in ClientTask /\ client[c].do = "Settle" /\ client[c].list = <<>>
         /\ ClientChange(c, "End", NoSocket, <<>>, client[c].ok)
  <1>1. client[c] \in ClientTask /\ client[c].do = "Settle" /\ client[c].list = <<>>
    BY ClientBusy DEF SendCommand, ClientSteps
  <1> DEFINE task == [client[c] EXCEPT !.do = "End", !.socket = NoSocket]
  <1>2. client' = [client EXCEPT ![c] = task]
    BY DEF SendCommand, TypeOK
  <1>3. SameBut(task, client[c], "End", NoSocket, <<>>, client[c].ok)
    <2>1. "End" \in ClientSteps /\ client[c].list \in Seq(Message)
      BY <1>1, ClientTaskTypes DEF ClientSteps
    <2>2. SameBut(task, client[c], "End", NoSocket, client[c].list, client[c].ok)
      BY <1>1, <2>1, ClientTaskFields
    <2> HIDE DEF task
    <2> QED
      BY <1>1, <2>2
  <1> HIDE DEF task
  <1> QED
    BY <1>1, <1>2, <1>3, ClientChanged

LEMMA ClientEndEffect ==
  ASSUME TypeOK, NEW c \in Client, ClientEnd(c)
  PROVE  /\ client[c] \in ClientTask /\ client[c].do = "End"
         /\ client' \in [Client -> ClientTask \cup {Nothing}] /\ client'[c] = Nothing
         /\ \A d \in Client \ {c} : client'[d] = client[d]
  BY ClientBusy, ClientWent DEF ClientEnd, ClientSteps

\* Start: the attempt has a thread, or is an orphan.
LEMMA StartEffect ==
  ASSUME TypeOK, NEW t \in Sender, Start(t)
  PROVE  \/ \E c \in Client :
              /\ client[c] = Nothing
              /\ client' \in [Client -> ClientTask \cup {Nothing}]
              /\ client'[c] \in ClientTask /\ client'[c].do = "Connect"
              /\ client'[c].message = sender[t].message /\ client'[c].socket = NoSocket
              /\ client'[c].list = <<>> /\ client'[c].ok = FALSE
              /\ \A d \in Client \ {c} : client'[d] = client[d]
              /\ UNCHANGED orphans
         \/ UNCHANGED client /\ orphans' = orphans \cup {To(t)}
  <1>1. sender[t].message \in Message
    BY SenderBusy DEF Start, SenderSteps
  <1> DEFINE task == [do |-> "Connect", message |-> sender[t].message, socket |-> NoSocket,
                      list |-> <<>>, ok |-> FALSE]
  <1>2. /\ task \in ClientTask /\ task.do = "Connect" /\ task.message = sender[t].message
        /\ task.socket = NoSocket /\ task.list = <<>> /\ task.ok = FALSE
    BY <1>1 DEF ClientTask
  <1>3. ASSUME NEW c \in Client, client[c] = Nothing, client' = [client EXCEPT ![c] = task]
        PROVE  /\ client' \in [Client -> ClientTask \cup {Nothing}] /\ client'[c] = task
               /\ \A d \in Client \ {c} : client'[d] = client[d]
    <2> HIDE DEF task
    <2> QED
      BY <1>2, <1>3, ClientWent
  <1>4. \/ \E c \in Client : /\ client[c] = Nothing /\ client' = [client EXCEPT ![c] = task]
                             /\ UNCHANGED orphans
        \/ UNCHANGED client /\ orphans' = orphans \cup {To(t)}
    BY DEF Start
  <1> HIDE DEF task
  <1> QED
    BY <1>2, <1>3, <1>4
-----------------------------------------------------------------------------
\* Types.

\* The steps of a sending thread keep its message.
LEMMA SenderStepEffect ==
  ASSUME TypeOK, NEW t \in Sender, SenderStep(t)
  PROVE  /\ sender[t] \in SenderTask
         /\ \/ \E step \in SenderSteps : SenderGoesOn(t, step)
            \/ End(t) /\ sender' = [sender EXCEPT ![t] = Nothing]
  <1>1. ASSUME NEW step \in SenderSteps, SenderDoes(t, step)
        PROVE  sender[t] \in SenderTask
    BY <1>1, SenderBusy
  <1>2. \E step \in SenderSteps : SenderDoes(t, step)
    BY DEF SenderStep, SenderSteps, SocketFound, SocketSend, NoSocketFound, Connect, Start, Wait,
        End
  <1>3. CASE End(t)
    BY <1>1, <1>2, <1>3 DEF End
  <1>4. CASE ~ End(t)
    <2>1. \E step \in {"Write", "Connect", "Start", "Wait", "End"} : SenderGoesOn(t, step)
      BY <1>4 DEF SenderStep, SocketFound, SocketSend, NoSocketFound, Connect, Start, Wait
    <2> QED
      BY <1>1, <1>2, <2>1 DEF SenderSteps
  <1> QED
    BY <1>3, <1>4

\* A new task of a sending thread.
LEMMA SenderBegins ==
  ASSUME TypeOK, NEW t \in Sender, NEW m \in Message, SendSipMessage(t, m) \/ SendAgain(t, m)
  PROVE  /\ sender' \in [Sender -> SenderTask \cup {Nothing}]
         /\ sender[t] = Nothing /\ sender'[t] \in SenderTask
         /\ sender'[t].do = "Send" /\ sender'[t].message = m
         /\ sender'[t].own <=> m \notin begun
         /\ \A u \in Sender \ {t} : sender'[u] = sender[u]
  <1>1. PICK own \in BOOLEAN :
          /\ sender' = [sender EXCEPT ![t] = [do |-> "Send", message |-> m, own |-> own]]
          /\ own <=> m \notin begun
    BY DEF SendSipMessage, SendAgain, TypeOK
  <1> DEFINE task == [do |-> "Send", message |-> m, own |-> own]
  <1>2. task \in SenderTask /\ task.do = "Send" /\ task.message = m /\ task.own = own
    BY DEF SenderTask
  <1>3. sender' = [sender EXCEPT ![t] = task]
    BY <1>1
  <1>4. sender[t] = Nothing
    BY DEF SendSipMessage, SendAgain
  <1> HIDE DEF task
  <1>5. /\ sender'[t] = task /\ \A u \in Sender \ {t} : sender'[u] = sender[u]
        /\ sender' \in [Sender -> SenderTask \cup {Nothing}]
    BY <1>2, <1>3 DEF TypeOK
  <1> QED
    BY <1>1, <1>2, <1>4, <1>5

LEMMA SenderType ==
  ASSUME TypeOK, [Next]_vars
  PROVE  sender' \in [Sender -> SenderTask \cup {Nothing}]
  <1>1. ASSUME NEW t \in Sender, SenderStep(t)
        PROVE  sender' \in [Sender -> SenderTask \cup {Nothing}]
    <2>1. CASE sender' = [sender EXCEPT ![t] = Nothing]
      BY <2>1 DEF TypeOK
    <2> QED
      BY <1>1, <2>1, SenderStepEffect, SenderWent
  <1>2. ASSUME NEW t \in Sender, NEW m \in Message, SendSipMessage(t, m) \/ SendAgain(t, m)
        PROVE  sender' \in [Sender -> SenderTask \cup {Nothing}]
    BY <1>2, SenderBegins
  <1>3. CASE UNCHANGED sender
    BY <1>3 DEF TypeOK
  <1> QED
    BY <1>1, <1>2, <1>3
    DEF Next, vars, ClientStep, TcpConnect, SendFirst, Delete, Settle, SendCommand, ClientEnd,
        TooLong, Accept, CloseSession, TcpThreadStep, RecvCommand, CloseSocket,
        DecreaseSocketCount, TransactionEnds, DeleteTimeout

\* Steps that leave client as it is.
LEMMA ClientKept ==
  ASSUME [Next]_vars, ~ \E c \in Client : ClientStep(c), ~ \E t \in Sender : Start(t)
  PROVE  UNCHANGED client
  BY DEF Next, vars, SendSipMessage, SendAgain, SenderStep, SocketFound, SocketSend,
      NoSocketFound, Connect,
         Wait, End, TooLong, Accept, CloseSession, TcpThreadStep, RecvCommand, CloseSocket,
         DecreaseSocketCount, TransactionEnds, DeleteTimeout

LEMMA ClientType ==
  ASSUME TypeOK, [Next]_vars
  PROVE  client' \in [Client -> ClientTask \cup {Nothing}]
  <1>1. ASSUME NEW c \in Client, ClientStep(c)
        PROVE  client' \in [Client -> ClientTask \cup {Nothing}]
    BY <1>1, TcpConnectEffect, SendFirstEffect, DeleteEffect, SettleEffect, SendCommandEffect,
       ClientEndEffect
    DEF ClientStep, ClientChange
  <1>2. ASSUME NEW t \in Sender, Start(t)
        PROVE  client' \in [Client -> ClientTask \cup {Nothing}]
    <2>1. CASE UNCHANGED client
      BY <2>1 DEF TypeOK
    <2> QED
      BY <1>2, <2>1, StartEffect
  <1>3. CASE UNCHANGED client
    BY <1>3 DEF TypeOK
  <1> QED
    BY <1>1, <1>2, <1>3, ClientKept

\* The map of attempts: what a step may do to it.
MapBegins(t) ==
  /\ Connect(t) /\ connectMap' = With(connectMap, To(t), [list |-> <<>>, old |-> FALSE])
MapTakes(t) ==
  /\ Wait(t) /\ To(t) \in DOMAIN connectMap
  /\ connectMap' = [connectMap EXCEPT ![To(t)].list = Append(@, sender[t].message)]

LEMMA ConnectMapEffect ==
  ASSUME [Next]_vars
  PROVE  \/ UNCHANGED connectMap
         \/ \E t \in Sender : MapBegins(t) \/ MapTakes(t)
         \/ \E c \in Client : Delete(c) /\ connectMap' = Without(connectMap, Of(c))
         \/ \E a \in Address : TooLong(a)
  BY DEF Next, vars, SendSipMessage, SendAgain, SenderStep, SocketFound, SocketSend,
      NoSocketFound, Connect,
         Start, Wait, End, ClientStep, TcpConnect, SendFirst, Delete, Settle, SendCommand,
         ClientEnd, TooLong, Accept, CloseSession, TcpThreadStep, RecvCommand, CloseSocket,
         DecreaseSocketCount, TransactionEnds, DeleteTimeout, MapBegins, MapTakes

\* A message joins those that wait.
LEMMA MapTakesEffect ==
  ASSUME TypeOK, NEW t \in Sender, MapTakes(t)
  PROVE  LET a == To(t) IN
         /\ a \in Address /\ a \in DOMAIN connectMap /\ sender[t].message \in Message
         /\ DOMAIN connectMap' = DOMAIN connectMap
         /\ connectMap'[a] \in CTcpConnectInfo
         /\ connectMap'[a].list = Append(connectMap[a].list, sender[t].message)
         /\ \A b \in DOMAIN connectMap \ {a} : connectMap'[b] = connectMap[b]
  <1> DEFINE a == To(t)
  <1>1. a \in Address /\ sender[t].message \in Message
    BY SenderBusy DEF MapTakes, Wait, SenderSteps
  <1>2. a \in DOMAIN connectMap /\ connectMap[a] \in CTcpConnectInfo
    BY DEF MapTakes, TypeOK, Range
  <1>3. connectMap' = [connectMap EXCEPT ![a] =
                         [connectMap[a] EXCEPT !.list = Append(connectMap[a].list, sender[t].message)]]
    BY DEF MapTakes
  <1> DEFINE info == [connectMap[a] EXCEPT !.list = Append(connectMap[a].list, sender[t].message)]
  <1>4. info \in CTcpConnectInfo /\ info.list = Append(connectMap[a].list, sender[t].message)
    BY <1>1, <1>2 DEF CTcpConnectInfo
  <1>5. connectMap' = [connectMap EXCEPT ![a] = info]
    BY <1>3
  <1> HIDE DEF info, a
  <1>6. /\ DOMAIN connectMap' = DOMAIN connectMap /\ connectMap'[a] = info
        /\ \A b \in DOMAIN connectMap \ {a} : connectMap'[b] = connectMap[b]
    BY <1>2, <1>5
  <1> QED
    BY <1>1, <1>2, <1>4, <1>6 DEF a

LEMMA TooLongEffect ==
  ASSUME TypeOK, NEW a \in Address, TooLong(a)
  PROVE  /\ DOMAIN connectMap' = DOMAIN connectMap /\ a \in DOMAIN connectMap
         /\ connectMap'[a] \in CTcpConnectInfo /\ connectMap'[a].list = connectMap[a].list
         /\ \A b \in DOMAIN connectMap \ {a} : connectMap'[b] = connectMap[b]
  <1>1. a \in DOMAIN connectMap /\ connectMap[a] \in CTcpConnectInfo
    BY DEF TooLong, TypeOK, Range
  <1> DEFINE info == [connectMap[a] EXCEPT !.old = TRUE]
  <1>2. info \in CTcpConnectInfo /\ info.list = connectMap[a].list
    BY <1>1 DEF CTcpConnectInfo
  <1>3. connectMap' = [connectMap EXCEPT ![a] = info]
    BY DEF TooLong
  <1> HIDE DEF info
  <1> QED
    BY <1>1, <1>2, <1>3

LEMMA ConnectMapType ==
  ASSUME TypeOK, [Next]_vars
  PROVE  DOMAIN connectMap' \subseteq Address /\ Range(connectMap') \subseteq CTcpConnectInfo
  <1>1. DOMAIN connectMap \subseteq Address /\ Range(connectMap) \subseteq CTcpConnectInfo
    BY DEF TypeOK
  <1>2. ASSUME NEW t \in Sender, MapBegins(t)
        PROVE  DOMAIN connectMap' \subseteq Address /\ Range(connectMap') \subseteq CTcpConnectInfo
    <2> DEFINE info == [list |-> <<>>, old |-> FALSE]
    <2>1. info \in CTcpConnectInfo
      BY DEF CTcpConnectInfo
    <2>2. To(t) \in Address
      BY <1>2, SenderBusy DEF MapBegins, Connect, SenderSteps
    <2>3. connectMap' = With(connectMap, To(t), info)
      BY <1>2 DEF MapBegins
    <2> HIDE DEF info
    <2>4. /\ DOMAIN connectMap' = DOMAIN connectMap \cup {To(t)}
          /\ Range(connectMap') \subseteq Range(connectMap) \cup {info}
      BY <2>3, WithFields
    <2> QED
      BY <1>1, <2>1, <2>2, <2>4
  <1>3. ASSUME NEW t \in Sender, MapTakes(t)
        PROVE  DOMAIN connectMap' \subseteq Address /\ Range(connectMap') \subseteq CTcpConnectInfo
    BY <1>1, <1>3, MapTakesEffect DEF Range
  <1>4. ASSUME NEW c \in Client, connectMap' = Without(connectMap, Of(c))
        PROVE  DOMAIN connectMap' \subseteq Address /\ Range(connectMap') \subseteq CTcpConnectInfo
    BY <1>1, <1>4, WithoutFields
  <1>5. ASSUME NEW a \in Address, TooLong(a)
        PROVE  DOMAIN connectMap' \subseteq Address /\ Range(connectMap') \subseteq CTcpConnectInfo
    BY <1>1, <1>5, TooLongEffect DEF Range
  <1> QED
    BY <1>1, <1>2, <1>3, <1>4, <1>5, ConnectMapEffect
-----------------------------------------------------------------------------
\* What the steps of the connecting threads do to their sockets.

LEMMA ClientInvStep ==
  ASSUME TypeOK, ClientInv, [Next]_vars
  PROVE  ClientInv'
  <1> DEFINE Fine(task) ==
        /\ task.socket # NoSocket <=>
             task.do = "SendFirst" \/ (task.ok /\ task.do \in {"Delete", "Settle"})
        /\ task.do \in {"Connect", "SendFirst"} => ~ task.ok
        /\ task.do # "Settle" => task.list = <<>>
  <1>1. \A c \in Client : client[c] # Nothing => Fine(client[c])
    BY DEF ClientInv
  <1>2. ASSUME NEW c \in Client, client'[c] # Nothing => Fine(client'[c]),
               \A d \in Client \ {c} : client'[d] = client[d]
        PROVE  ClientInv'
    <2>1. \A d \in Client : client'[d] # Nothing => Fine(client'[d])
      BY <1>1, <1>2
    <2> QED
      BY <2>1 DEF ClientInv
  <1>3. ASSUME NEW c \in Client, ClientStep(c)
        PROVE  ClientInv'
    <2>1. client[c] \in ClientTask => client[c] # Nothing
      BY ClientTaskTypes
    <2>2. CASE TcpConnect(c)
      BY <1>1, <1>2, <2>1, <2>2, TcpConnectEffect, SipTcpClientAssumption DEF ClientChange
    <2>3. CASE SendFirst(c)
      <3>1. client[c].do = "SendFirst" /\ Fine(client[c])
        BY <1>1, <2>1, <2>3, SendFirstEffect
      <3>2. CASE ClientChange(c, "Delete", client[c].socket, client[c].list, TRUE)
        BY <1>2, <3>1, <3>2 DEF ClientChange
      <3>3. CASE ClientChange(c, "Delete", NoSocket, client[c].list, client[c].ok)
        BY <1>2, <3>1, <3>3 DEF ClientChange
      <3> QED
        BY <2>3, <3>2, <3>3, SendFirstEffect
    <2>4. CASE Delete(c)
      BY <1>1, <1>2, <2>1, <2>4, DeleteEffect DEF ClientChange
    <2>5. CASE Settle(c)
      BY <1>1, <1>2, <2>1, <2>5, SettleEffect DEF ClientChange
    <2>6. CASE SendCommand(c)
      BY <1>1, <1>2, <2>1, <2>6, SendCommandEffect DEF ClientChange
    <2>7. CASE ClientEnd(c)
      BY <1>2, <2>7, ClientEndEffect
    <2> QED
      BY <1>3, <2>2, <2>3, <2>4, <2>5, <2>6, <2>7 DEF ClientStep
  <1>4. CASE UNCHANGED client
    BY <1>4 DEF ClientInv
  <1>5. ASSUME NEW t \in Sender, Start(t)
        PROVE  ClientInv'
    BY <1>2, <1>4, <1>5, StartEffect
  <1> QED
    BY <1>3, <1>4, <1>5, ClientKept

\* A connecting thread gets a socket, or has one no longer.
Gets(c, s) ==
  /\ SocketOf(c) = NoSocket /\ SocketOf(c)' = s
  /\ \A d \in Client \ {c} : SocketOf(d)' = SocketOf(d)
Gives(c) ==
  /\ SocketOf(c) # NoSocket /\ SocketOf(c)' = NoSocket
  /\ \A d \in Client \ {c} : SocketOf(d)' = SocketOf(d)
SameSockets == \A c \in Client : SocketOf(c)' = SocketOf(c)

Connected(c, s) ==
  /\ Gets(c, s)
  /\ \E a \in Address : remote' = With(remote, s, a)
  /\ UNCHANGED <<socketMap, pipe, sessions, closing, socketCount, leaked>>

Leaks(c) ==
  /\ Gives(c)
  /\ leaked' = leaked \cup {SocketOf(c)}
  /\ UNCHANGED <<socketMap, remote, pipe, sessions, closing, socketCount>>

HandsOver(c) ==
  /\ Gives(c)
  /\ socketCount < MaxSocketPerThread
  /\ pipe' = Append(pipe, SocketOf(c)) /\ socketCount' = socketCount + 1
  /\ UNCHANGED <<socketMap, remote, sessions, closing, leaked>>

Closes(c) ==
  /\ Gives(c)
  /\ remote' = Without(remote, SocketOf(c))
  /\ UNCHANGED <<socketMap, pipe, sessions, closing, socketCount, leaked>>

LEMMA ClientStepSockets ==
  ASSUME TypeOK, ClientInv, NEW c \in Client, ClientStep(c)
  PROVE  \/ \E s \in Socket \ DOMAIN remote : Connected(c, s)
         \/ Leaks(c) \/ HandsOver(c) \/ Closes(c)
         \/ UNCHANGED sockets /\ SameSockets
  <1>1. client[c] \in ClientTask => client[c] # Nothing /\ SocketOf(c) = client[c].socket
    BY ClientTaskTypes DEF SocketOf
  <1>2. ASSUME NEW step, NEW socket, NEW list, NEW ok, ClientChange(c, step, socket, list, ok)
        PROVE  SocketOf(c)' = socket /\ \A d \in Client \ {c} : SocketOf(d)' = SocketOf(d)
    BY <1>2 DEF ClientChange, SocketOf
  <1>3. CASE TcpConnect(c)
    <2>1. client[c] \in ClientTask /\ client[c].do = "Connect" /\ SocketOf(c) = NoSocket
      BY <1>1, <1>3, TcpConnectEffect DEF ClientInv
    <2>2. ASSUME NEW s \in Socket \ DOMAIN remote, remote' = With(remote, s, Of(c)),
                 ClientChange(c, "SendFirst", s, client[c].list, client[c].ok)
          PROVE  Connected(c, s)
      <3>1. Of(c) \in Address
        BY <2>1, ClientBusy DEF ClientDoes, ClientSteps
      <3>2. Gets(c, s)
        BY <1>2, <2>1, <2>2 DEF Gets
      <3> QED
        BY <1>3, <2>2, <3>1, <3>2 DEF Connected, TcpConnect
    <2>3. ASSUME UNCHANGED remote,
                 ClientChange(c, "Delete", NoSocket, client[c].list, client[c].ok)
          PROVE  UNCHANGED sockets /\ SameSockets
      <3>1. SameSockets
        BY <1>2, <2>1, <2>3 DEF SameSockets
      <3> QED
        BY <1>3, <2>3, <3>1 DEF sockets, TcpConnect
    <2> QED
      BY <1>3, <2>2, <2>3, TcpConnectEffect
  <1>4. CASE SendFirst(c)
    <2>1. client[c] \in ClientTask /\ SocketOf(c) = client[c].socket /\ SocketOf(c) # NoSocket
      BY <1>1, <1>4, SendFirstEffect DEF ClientInv
    <2>2. ASSUME UNCHANGED leaked,
                 ClientChange(c, "Delete", client[c].socket, client[c].list, TRUE)
          PROVE  UNCHANGED sockets /\ SameSockets
      <3>1. SameSockets
        BY <1>2, <2>1, <2>2 DEF SameSockets
      <3> QED
        BY <1>4, <2>2, <3>1 DEF sockets, SendFirst
    <2>3. ASSUME leaked' = leaked \cup {client[c].socket},
                 ClientChange(c, "Delete", NoSocket, client[c].list, client[c].ok)
          PROVE  Leaks(c)
      <3>1. Gives(c)
        BY <1>2, <2>1, <2>3 DEF Gives
      <3> QED
        BY <1>4, <2>1, <2>3, <3>1 DEF Leaks, SendFirst
    <2> QED
      BY <1>4, <2>2, <2>3, SendFirstEffect
  <1>5. CASE Delete(c)
    <2>1. SameSockets
      BY <1>1, <1>2, <1>5, DeleteEffect DEF SameSockets
    <2> QED
      BY <1>5, <2>1 DEF sockets, Delete
  <1>6. CASE Settle(c)
    <2>1. SameSockets
      BY <1>1, <1>2, <1>6, SettleEffect DEF SameSockets
    <2> QED
      BY <1>6, <2>1 DEF sockets, Settle
  <1>7. CASE SendCommand(c)
    <2>1. /\ client[c] \in ClientTask /\ SocketOf(c) = client[c].socket
          /\ SocketOf(c) # NoSocket <=> client[c].ok
      BY <1>1, <1>7, SendCommandEffect DEF ClientInv
    <2>2. SocketOf(c)' = NoSocket /\ \A d \in Client \ {c} : SocketOf(d)' = SocketOf(d)
      BY <1>2, <1>7, SendCommandEffect
    <2>3. CASE client[c].ok /\ socketCount < MaxSocketPerThread
      BY <1>7, <2>1, <2>2, <2>3 DEF HandsOver, Gives, SendCommand
    <2>4. CASE client[c].ok /\ ~ (socketCount < MaxSocketPerThread)
      BY <1>7, <2>1, <2>2, <2>4 DEF Closes, Gives, SendCommand
    <2>5. CASE ~ client[c].ok
      <3>1. SameSockets
        BY <2>1, <2>2, <2>5 DEF SameSockets
      <3> QED
        BY <1>7, <2>5, <3>1 DEF sockets, SendCommand
    <2> QED
      BY <2>3, <2>4, <2>5
  <1>8. CASE ClientEnd(c)
    <2>1. SocketOf(c) = NoSocket
      BY <1>1, <1>8, ClientEndEffect DEF ClientInv
    <2>2. SameSockets
      BY <1>8, <2>1, ClientEndEffect DEF SameSockets, SocketOf
    <2> QED
      BY <1>8, <2>2 DEF sockets, ClientEnd
  <1> QED
    BY <1>3, <1>4, <1>5, <1>6, <1>7, <1>8 DEF ClientStep

\* What any step does to the sockets.
LEMMA StepSockets ==
  ASSUME TypeOK, ClientInv, [Next]_vars
  PROVE  \/ \E c \in Client :
              \/ \E s \in Socket \ DOMAIN remote : Connected(c, s)
              \/ Leaks(c) \/ HandsOver(c) \/ Closes(c)
         \/ /\ SameSockets
            /\ \/ UNCHANGED sockets
               \/ \E a \in Address : Accept(a)
               \/ \E s \in Socket : CloseSession(s)
               \/ TcpThreadStep
  <1>1. CASE UNCHANGED client
    <2>1. SameSockets
      BY <1>1 DEF SameSockets, SocketOf
    <2>2. \/ UNCHANGED sockets
          \/ \E a \in Address : Accept(a)
          \/ \E s \in Socket : CloseSession(s)
          \/ TcpThreadStep
          \/ \E c \in Client : ClientStep(c)
      BY DEF Next, vars, SendSipMessage, SendAgain, SenderStep, SocketFound, SocketSend,
          NoSocketFound,
             Connect, Start, Wait, End, TooLong, TransactionEnds, DeleteTimeout
    <2> QED
      BY <2>1, <2>2, ClientStepSockets
  <1>2. ASSUME NEW t \in Sender, Start(t), NEW c \in Client, client[c] = Nothing,
               client'[c] \in ClientTask, client'[c].socket = NoSocket,
               \A d \in Client \ {c} : client'[d] = client[d]
        PROVE  SameSockets /\ UNCHANGED sockets
    <2>1. SameSockets
      BY <1>2 DEF SameSockets, SocketOf
    <2> QED
      BY <1>2, <2>1 DEF Start
  <1> QED
    BY <1>1, <1>2, StartEffect, ClientKept, ClientStepSockets
-----------------------------------------------------------------------------
\* The owners of the sockets.

LEMMA HeldIs ==
  /\ Held = {SocketOf(c) : c \in Client} \ {NoSocket}
  /\ Held' = {SocketOf(c)' : c \in Client} \ {NoSocket}
  BY DEF Held, SocketOf

LEMMA HeldSame ==
  ASSUME SameSockets
  PROVE  Held' = Held
  BY HeldIs DEF SameSockets

LEMMA HeldGets ==
  ASSUME NEW c \in Client, NEW s \in Socket, Gets(c, s)
  PROVE  Held' = Held \cup {s}
  BY HeldIs, SipTcpClientAssumption DEF Gets

LEMMA HeldGives ==
  ASSUME OneOwner, NEW c \in Client, Gives(c)
  PROVE  Held' = Held \ {SocketOf(c)} /\ SocketOf(c) \in Held
  BY HeldIs DEF Gives, OneOwner

\* What the invariant says of the sockets by themselves.
LEMMA SocketFacts ==
  ASSUME TypeOK, SocketInv
  PROVE  /\ Len(pipe) \in Nat /\ Cardinality(sessions) \in Nat /\ socketCount \in Nat
         /\ DOMAIN remote \subseteq Socket /\ NoSocket \notin DOMAIN remote
         /\ IsFiniteSet(Held) /\ IsFiniteSet(sessions) /\ IsFiniteSet(leaked)
         /\ pipe \in Seq(Socket)
  <1>1. Cardinality(sessions) \in Nat
    BY FS_CardinalityType DEF SocketInv, FiniteOwners
  <1>2. Len(pipe) \in Nat /\ pipe \in Seq(Socket)
    BY DEF TypeOK
  <1>3. socketCount \in Nat
    BY SipTcpClientAssumption DEF TypeOK
  <1>4. DOMAIN remote \subseteq Socket /\ NoSocket \notin DOMAIN remote
    BY SipTcpClientAssumption DEF TypeOK
  <1> QED
    BY <1>1, <1>2, <1>3, <1>4 DEF SocketInv, FiniteOwners

LEMMA ConnectedStep ==
  ASSUME TypeOK, SocketInv, NEW c \in Client, NEW s \in Socket \ DOMAIN remote, Connected(c, s)
  PROVE  SocketInv'
  <1>1. PICK a \in Address : remote' = With(remote, s, a)
    BY DEF Connected
  <1>2. UNCHANGED <<socketMap, pipe, sessions, closing, socketCount, leaked>> /\ Gets(c, s)
    BY DEF Connected
  <1>3. Held' = Held \cup {s} /\ s \notin Held \cup Range(pipe) \cup sessions \cup leaked
    BY <1>2, HeldGets DEF SocketInv, OneOwner
  <1>4. DOMAIN remote' = DOMAIN remote \cup {s} /\ \A r \in DOMAIN remote : remote'[r] = remote[r]
    BY <1>1 DEF With
  <1>5. \A d, e \in Client : SocketOf(d)' # NoSocket /\ SocketOf(d)' = SocketOf(e)' => d = e
    <2>1. \A d \in Client : SocketOf(d) # s
      BY <1>3, HeldIs, SipTcpClientAssumption
    <2> QED
      BY <1>2, <2>1 DEF Gets, SocketInv, OneOwner
  <1>6. OneOwner'
    BY <1>2, <1>3, <1>4, <1>5 DEF SocketInv, OneOwner
  <1>7. FiniteOwners'
    BY <1>2, <1>3, SocketFacts, FS_AddElement DEF FiniteOwners
  <1>8. MapNamesSessions'
    BY <1>2, <1>4 DEF SocketInv, MapNamesSessions, OneOwner
  <1>9. CountExact' /\ ClosingIsSession'
    BY <1>2 DEF SocketInv, CountExact, ClosingIsSession
  <1> QED
    BY <1>6, <1>7, <1>8, <1>9 DEF SocketInv

\* A thread that gives its socket away: what is left to the others.
LEMMA GivesFacts ==
  ASSUME TypeOK, SocketInv, NEW c \in Client, Gives(c)
  PROVE  /\ SocketOf(c) \in Held /\ SocketOf(c) \in Socket /\ Held' = Held \ {SocketOf(c)}
         /\ IsFiniteSet(Held')
         /\ SocketOf(c) \notin Range(pipe) \cup sessions \cup leaked
         /\ \A d, e \in Client : SocketOf(d)' # NoSocket /\ SocketOf(d)' = SocketOf(e)' => d = e
  <1>1. SocketOf(c) \in Held /\ Held' = Held \ {SocketOf(c)}
    BY HeldGives DEF SocketInv
  <1>2. SocketOf(c) \notin Range(pipe) \cup sessions \cup leaked
    BY <1>1 DEF SocketInv, OneOwner
  <1>3. SocketOf(c) \in Socket
    BY <1>1, SocketFacts DEF SocketInv, OneOwner
  <1>4. \A d, e \in Client : SocketOf(d)' # NoSocket /\ SocketOf(d)' = SocketOf(e)' => d = e
    BY DEF Gives, SocketInv, OneOwner
  <1>5. IsFiniteSet(Held')
    BY <1>1, SocketFacts, FS_RemoveElement
  <1> QED
    BY <1>1, <1>2, <1>3, <1>4, <1>5

LEMMA LeaksStep ==
  ASSUME TypeOK, SocketInv, NEW c \in Client, Leaks(c)
  PROVE  SocketInv'
  <1>1. /\ UNCHANGED <<socketMap, remote, pipe, sessions, closing, socketCount>> /\ Gives(c)
        /\ leaked' = leaked \cup {SocketOf(c)}
    BY DEF Leaks
  <1>2. OneOwner'
    BY <1>1, GivesFacts DEF SocketInv, OneOwner
  <1>3. FiniteOwners'
    BY <1>1, GivesFacts, SocketFacts, FS_AddElement DEF FiniteOwners
  <1>4. MapNamesSessions' /\ CountExact' /\ ClosingIsSession'
    BY <1>1 DEF SocketInv, MapNamesSessions, CountExact, ClosingIsSession
  <1> QED
    BY <1>2, <1>3, <1>4 DEF SocketInv

\* A socket goes into the pipe.
LEMMA PipeTakes ==
  ASSUME TypeOK, SocketInv, NEW s \in Socket, s \notin Range(pipe), pipe' = Append(pipe, s)
  PROVE  /\ Range(pipe') = Range(pipe) \cup {s} /\ Len(pipe') = Len(pipe) + 1
         /\ \A i, j \in DOMAIN pipe' : pipe'[i] = pipe'[j] => i = j
  <1>1. pipe \in Seq(Socket) /\ \A i, j \in DOMAIN pipe : pipe[i] = pipe[j] => i = j
    BY SocketFacts DEF SocketInv, OneOwner
  <1>2. \A i \in DOMAIN pipe : pipe[i] # s
    BY DEF Range
  <1> QED
    BY <1>1, <1>2, RangeAppend

LEMMA HandsOverStep ==
  ASSUME TypeOK, SocketInv, NEW c \in Client, HandsOver(c)
  PROVE  SocketInv'
  <1>1. /\ UNCHANGED <<socketMap, remote, sessions, closing, leaked>> /\ Gives(c)
        /\ pipe' = Append(pipe, SocketOf(c)) /\ socketCount' = socketCount + 1
    BY DEF HandsOver
  <1>2. /\ Range(pipe') = Range(pipe) \cup {SocketOf(c)} /\ Len(pipe') = Len(pipe) + 1
        /\ \A i, j \in DOMAIN pipe' : pipe'[i] = pipe'[j] => i = j
    BY <1>1, GivesFacts, PipeTakes
  <1>3. OneOwner'
    BY <1>1, <1>2, GivesFacts DEF SocketInv, OneOwner
  <1>4. FiniteOwners'
    BY <1>1, GivesFacts, SocketFacts DEF FiniteOwners
  <1>5. CountExact'
    BY <1>1, <1>2, SocketFacts DEF SocketInv, CountExact
  <1>6. MapNamesSessions' /\ ClosingIsSession'
    BY <1>1 DEF SocketInv, MapNamesSessions, ClosingIsSession
  <1> QED
    BY <1>3, <1>4, <1>5, <1>6 DEF SocketInv

LEMMA ClosesStep ==
  ASSUME TypeOK, SocketInv, NEW c \in Client, Closes(c)
  PROVE  SocketInv'
  <1>1. /\ UNCHANGED <<socketMap, pipe, sessions, closing, socketCount, leaked>> /\ Gives(c)
        /\ remote' = Without(remote, SocketOf(c))
    BY DEF Closes
  <1>2. /\ DOMAIN remote' = DOMAIN remote \ {SocketOf(c)}
        /\ \A s \in DOMAIN remote \ {SocketOf(c)} : remote'[s] = remote[s]
    BY <1>1, WithoutFields
  <1>3. OneOwner'
    BY <1>1, <1>2, GivesFacts DEF SocketInv, OneOwner
  <1>4. FiniteOwners'
    BY <1>1, GivesFacts, SocketFacts DEF FiniteOwners
  <1>5. MapNamesSessions'
    BY <1>1, <1>2, GivesFacts DEF SocketInv, MapNamesSessions, OneOwner
  <1>6. CountExact' /\ ClosingIsSession'
    BY <1>1 DEF SocketInv, CountExact, ClosingIsSession
  <1> QED
    BY <1>3, <1>4, <1>5, <1>6 DEF SocketInv

LEMMA AcceptStep ==
  ASSUME TypeOK, SocketInv, SameSockets, NEW a \in Address, Accept(a)
  PROVE  SocketInv'
  <1>1. PICK s \in Socket \ DOMAIN remote :
          remote' = With(remote, s, a) /\ pipe' = Append(pipe, s)
    BY DEF Accept
  <1>2. UNCHANGED <<socketMap, sessions, closing, leaked>> /\ socketCount' = socketCount + 1
    BY DEF Accept
  <1>3. Held' = Held
    BY HeldSame
  <1>4. s \notin Held \cup Range(pipe) \cup sessions \cup leaked
    BY DEF SocketInv, OneOwner
  <1>5. /\ Range(pipe') = Range(pipe) \cup {s} /\ Len(pipe') = Len(pipe) + 1
        /\ \A i, j \in DOMAIN pipe' : pipe'[i] = pipe'[j] => i = j
    BY <1>1, <1>4, PipeTakes
  <1>6. DOMAIN remote' = DOMAIN remote \cup {s} /\ \A r \in DOMAIN remote : remote'[r] = remote[r]
    BY <1>1 DEF With
  <1>7. OneOwner'
    BY <1>2, <1>3, <1>4, <1>5, <1>6 DEF SocketInv, OneOwner, SameSockets
  <1>8. FiniteOwners'
    BY <1>2, <1>3 DEF SocketInv, FiniteOwners
  <1>9. MapNamesSessions'
    BY <1>2, <1>6 DEF SocketInv, MapNamesSessions, OneOwner
  <1>10. CountExact'
    BY <1>2, <1>5, SocketFacts DEF SocketInv, CountExact
  <1>11. ClosingIsSession'
    BY <1>2 DEF SocketInv, ClosingIsSession
  <1> QED
    BY <1>7, <1>8, <1>9, <1>10, <1>11 DEF SocketInv

LEMMA RecvCommandStep ==
  ASSUME TypeOK, SocketInv, SameSockets, RecvCommand
  PROVE  SocketInv'
  <1> DEFINE s == Head(pipe)
  <1>1. /\ UNCHANGED <<remote, closing, socketCount, leaked>> /\ closing = NoSocket
        /\ pipe # <<>> /\ pipe' = Tail(pipe) /\ sessions' = sessions \cup {s}
        /\ socketMap' = IF remote[s] \in DOMAIN socketMap THEN socketMap
                        ELSE With(socketMap, remote[s], s)
    BY DEF RecvCommand
  <1>2. pipe \in Seq(Socket) /\ \A i, j \in DOMAIN pipe : pipe[i] = pipe[j] => i = j
    BY SocketFacts DEF SocketInv, OneOwner
  <1>3. Range(pipe) = Range(pipe') \cup {s} /\ s \notin Range(pipe')
    BY <1>1, <1>2, RangeTail
  <1>4. \A i, j \in DOMAIN pipe' : pipe'[i] = pipe'[j] => i = j
    <2>1. \A i \in DOMAIN pipe' : i \in Nat /\ i + 1 \in DOMAIN pipe /\ pipe'[i] = pipe[i + 1]
      BY <1>1, <1>2, TailFields
    <2> QED
      BY <1>2, <2>1
  <1>5. Held' = Held
    BY HeldSame
  <1>6. s \notin Held \cup sessions \cup leaked /\ s # NoSocket
    BY <1>3, SocketFacts DEF SocketInv, OneOwner
  <1> HIDE DEF s
  <1>7. OneOwner'
    BY <1>1, <1>3, <1>4, <1>5, <1>6 DEF SocketInv, OneOwner, SameSockets
  <1>8. IsFiniteSet(sessions') /\ Cardinality(sessions') = Cardinality(sessions) + 1
    BY <1>1, <1>6, SocketFacts, FS_AddElement
  <1>9. FiniteOwners'
    BY <1>1, <1>5, <1>8 DEF SocketInv, FiniteOwners
  <1>10. MapNamesSessions'
    <2>1. CASE remote[s] \in DOMAIN socketMap
      BY <1>1, <2>1 DEF SocketInv, MapNamesSessions
    <2>2. CASE remote[s] \notin DOMAIN socketMap
      <3>1. /\ DOMAIN socketMap' = DOMAIN socketMap \cup {remote[s]} /\ socketMap'[remote[s]] = s
            /\ \A a \in DOMAIN socketMap : socketMap'[a] = socketMap[a]
        BY <1>1, <2>2 DEF With
      <3> QED
        BY <1>1, <1>6, <3>1 DEF SocketInv, MapNamesSessions
    <2> QED
      BY <2>1, <2>2
  <1>11. CountExact'
    <2>1. Len(pipe') = Len(pipe) - 1
      BY <1>1, <1>2, TailFields
    <2> QED
      BY <1>1, <1>8, <2>1, SocketFacts DEF SocketInv, CountExact
  <1>12. ClosingIsSession'
    BY <1>1, SipTcpClientAssumption DEF ClosingIsSession
  <1> QED
    BY <1>7, <1>9, <1>10, <1>11, <1>12 DEF SocketInv

LEMMA CloseSessionStep ==
  ASSUME TypeOK, SocketInv, SameSockets, NEW s \in Socket, CloseSession(s)
  PROVE  SocketInv'
  <1>1. /\ UNCHANGED <<remote, pipe, sessions, socketCount, leaked>>
        /\ closing = NoSocket /\ closing' = s /\ s \in sessions
        /\ socketMap' = Without(socketMap, remote[s])
    BY DEF CloseSession
  <1>2. Held' = Held
    BY HeldSame
  <1>3. /\ DOMAIN socketMap' = DOMAIN socketMap \ {remote[s]}
        /\ \A a \in DOMAIN socketMap \ {remote[s]} : socketMap'[a] = socketMap[a]
    BY <1>1, WithoutFields
  <1>4. OneOwner' /\ FiniteOwners'
    BY <1>1, <1>2 DEF SocketInv, OneOwner, FiniteOwners, SameSockets
  <1>5. MapNamesSessions'
    BY <1>1, <1>3 DEF SocketInv, MapNamesSessions
  <1>6. CountExact' /\ ClosingIsSession'
    BY <1>1, SipTcpClientAssumption DEF SocketInv, CountExact, ClosingIsSession
  <1> QED
    BY <1>4, <1>5, <1>6 DEF SocketInv

LEMMA CloseSocketStep ==
  ASSUME TypeOK, SocketInv, SameSockets, CloseSocket
  PROVE  SocketInv'
  <1>1. /\ UNCHANGED <<socketMap, pipe, socketCount, leaked>>
        /\ closing \in Socket /\ closing' = "count" /\ sessions' = sessions \ {closing}
        /\ remote' = Without(remote, closing)
    BY DEF CloseSocket
  <1>2. Held' = Held
    BY HeldSame
  <1>3. closing \in sessions
    BY <1>1 DEF SocketInv, ClosingIsSession
  <1>4. /\ DOMAIN remote' = DOMAIN remote \ {closing}
        /\ \A s \in DOMAIN remote \ {closing} : remote'[s] = remote[s]
    BY <1>1, WithoutFields
  <1>5. OneOwner'
    BY <1>1, <1>2, <1>3, <1>4 DEF SocketInv, OneOwner, SameSockets
  <1>6. IsFiniteSet(sessions') /\ Cardinality(sessions') = Cardinality(sessions) - 1
    BY <1>1, <1>3, SocketFacts, FS_RemoveElement
  <1>7. FiniteOwners'
    BY <1>1, <1>2, <1>6 DEF SocketInv, FiniteOwners
  <1>8. MapNamesSessions'
    BY <1>1, <1>4, SocketFacts, SipTcpClientAssumption
    DEF SocketInv, MapNamesSessions, OneOwner, TypeOK
  <1>9. CountExact'
    BY <1>1, <1>6, SocketFacts, SipTcpClientAssumption DEF SocketInv, CountExact
  <1>10. ClosingIsSession'
    BY <1>1, SipTcpClientAssumption DEF ClosingIsSession
  <1> QED
    BY <1>5, <1>7, <1>8, <1>9, <1>10 DEF SocketInv

LEMMA DecreaseSocketCountStep ==
  ASSUME TypeOK, SocketInv, SameSockets, DecreaseSocketCount
  PROVE  SocketInv'
  <1>1. /\ UNCHANGED <<socketMap, remote, pipe, sessions, leaked>>
        /\ closing = "count" /\ closing' = NoSocket /\ socketCount' = socketCount - 1
    BY DEF DecreaseSocketCount
  <1>2. Held' = Held
    BY HeldSame
  <1>3. OneOwner' /\ FiniteOwners'
    BY <1>1, <1>2 DEF SocketInv, OneOwner, FiniteOwners, SameSockets
  <1>4. MapNamesSessions'
    BY <1>1, SipTcpClientAssumption DEF SocketInv, MapNamesSessions, TypeOK
  <1>5. CountExact'
    BY <1>1, SocketFacts, SipTcpClientAssumption DEF SocketInv, CountExact
  <1>6. ClosingIsSession'
    BY <1>1, SipTcpClientAssumption DEF ClosingIsSession
  <1> QED
    BY <1>3, <1>4, <1>5, <1>6 DEF SocketInv

LEMMA SocketInvStep ==
  ASSUME TypeOK, ClientInv, SocketInv, [Next]_vars
  PROVE  SocketInv'
  <1>1. ASSUME UNCHANGED sockets, SameSockets
        PROVE  SocketInv'
    <2>1. Held' = Held
      BY <1>1, HeldSame
    <2> QED
      BY <1>1, <2>1 DEF SocketInv, OneOwner, FiniteOwners, MapNamesSessions, CountExact,
                        ClosingIsSession, sockets, SameSockets
  <1>2. ASSUME TcpThreadStep, SameSockets
        PROVE  SocketInv'
    BY <1>2, RecvCommandStep, CloseSocketStep, DecreaseSocketCountStep DEF TcpThreadStep
  <1> QED
    BY <1>1, <1>2, StepSockets, ConnectedStep, LeaksStep, HandsOverStep, ClosesStep, AcceptStep,
       CloseSessionStep
-----------------------------------------------------------------------------
\* Types, continued.

LEMMA CopiesType ==
  ASSUME NEW list \in Seq(Message), NEW m
  PROVE  /\ IsFiniteSet(Places(list, m)) /\ Copies(list, m) \in Nat
         /\ Copies(list, m) = Cardinality(Places(list, m))
  <1>1. DOMAIN list = 1 .. Len(list) /\ Len(list) \in Nat
    OBVIOUS
  <1>2. IsFiniteSet(DOMAIN list)
    BY <1>1, FS_Interval
  <1>3. IsFiniteSet(Places(list, m))
    BY <1>2, FS_Subset DEF Places
  <1> QED
    BY <1>3, FS_CardinalityType DEF Copies

LEMMA SocketTypes ==
  ASSUME TypeOK, ClientInv, SocketInv, [Next]_vars
  PROVE  /\ DOMAIN socketMap' \subseteq Address /\ Range(socketMap') \subseteq Socket
         /\ DOMAIN remote' \subseteq Socket /\ Range(remote') \subseteq Address
         /\ pipe' \in Seq(Socket) /\ sessions' \cup leaked' \subseteq Socket
         /\ closing' \in {NoSocket} \cup Socket \cup {"count"}
         /\ socketCount' \in 0 .. MaxSocketPerThread
  <1> DEFINE Typed ==
        /\ DOMAIN socketMap \subseteq Address /\ Range(socketMap) \subseteq Socket
        /\ DOMAIN remote \subseteq Socket /\ Range(remote) \subseteq Address
        /\ pipe \in Seq(Socket) /\ sessions \cup leaked \subseteq Socket
        /\ closing \in {NoSocket} \cup Socket \cup {"count"}
        /\ socketCount \in 0 .. MaxSocketPerThread
  <1> SUFFICES Typed'
    OBVIOUS
  <1>1. Typed
    BY DEF TypeOK
  <1>2. MaxSocketPerThread \in Nat
    BY SipTcpClientAssumption
  <1>3. ASSUME NEW c \in Client, NEW s \in Socket \ DOMAIN remote, Connected(c, s)
        PROVE  Typed'
    <2>1. PICK a \in Address : remote' = With(remote, s, a)
      BY <1>3 DEF Connected
    <2>2. DOMAIN remote' \subseteq Socket /\ Range(remote') \subseteq Address
      BY <1>1, <2>1 DEF With, Range
    <2> QED
      BY <1>1, <1>3, <2>2 DEF Connected
  <1>4. ASSUME NEW c \in Client, Leaks(c)
        PROVE  Typed'
    BY <1>1, <1>4, GivesFacts DEF Leaks
  <1>5. ASSUME NEW c \in Client, HandsOver(c)
        PROVE  Typed'
    BY <1>1, <1>2, <1>5, GivesFacts DEF HandsOver
  <1>6. ASSUME NEW c \in Client, Closes(c)
        PROVE  Typed'
    <2>1. DOMAIN remote' \subseteq DOMAIN remote /\ Range(remote') \subseteq Range(remote)
      BY <1>6 DEF Closes, Without, Restrict, Range
    <2> QED
      BY <1>1, <1>6, <2>1 DEF Closes
  <1>7. ASSUME NEW a \in Address, Accept(a)
        PROVE  Typed'
    <2>1. PICK s \in Socket : remote' = With(remote, s, a) /\ pipe' = Append(pipe, s)
      BY <1>7 DEF Accept
    <2>2. DOMAIN remote' \subseteq Socket /\ Range(remote') \subseteq Address
      BY <1>1, <2>1 DEF With, Range
    <2> QED
      BY <1>1, <1>2, <1>7, <2>1, <2>2 DEF Accept
  <1>8. ASSUME NEW s \in Socket, CloseSession(s)
        PROVE  Typed'
    <2>1. /\ DOMAIN socketMap' \subseteq DOMAIN socketMap
          /\ Range(socketMap') \subseteq Range(socketMap)
      BY <1>8 DEF CloseSession, Without, Restrict, Range
    <2> QED
      BY <1>1, <1>8, <2>1 DEF CloseSession
  <1>9. CASE RecvCommand
    <2> DEFINE s == Head(pipe)
    <2>1. s \in Socket /\ s \in Range(pipe) /\ pipe' \in Seq(Socket)
      BY <1>1, <1>9, TailFields, RangeTail DEF RecvCommand
    <2>2. remote[s] \in Address
      BY <1>1, <2>1 DEF SocketInv, OneOwner, Range
    <2>3. /\ UNCHANGED <<remote, closing, socketCount, leaked>> /\ sessions' = sessions \cup {s}
          /\ socketMap' = IF remote[s] \in DOMAIN socketMap THEN socketMap
                          ELSE With(socketMap, remote[s], s)
      BY <1>9 DEF RecvCommand
    <2> HIDE DEF s
    <2>4. DOMAIN socketMap' \subseteq Address /\ Range(socketMap') \subseteq Socket
      BY <1>1, <2>1, <2>2, <2>3 DEF With, Range
    <2> QED
      BY <1>1, <2>1, <2>3, <2>4
  <1>10. CASE CloseSocket
    <2>1. DOMAIN remote' \subseteq DOMAIN remote /\ Range(remote') \subseteq Range(remote)
      BY <1>10 DEF CloseSocket, Without, Restrict, Range
    <2> QED
      BY <1>1, <1>10, <2>1 DEF CloseSocket
  <1>11. CASE DecreaseSocketCount
    <2>1. socketCount' \in 0 .. MaxSocketPerThread
      BY <1>1, <1>2, <1>11, SocketFacts DEF DecreaseSocketCount, SocketInv, CountExact
    <2> QED
      BY <1>1, <1>11, <2>1 DEF DecreaseSocketCount
  <1>12. CASE UNCHANGED sockets
    BY <1>1, <1>12 DEF sockets
  <1> HIDE DEF Typed
  <1> QED
    BY <1>3, <1>4, <1>5, <1>6, <1>7, <1>8, <1>9, <1>10, <1>11, <1>12, StepSockets
    DEF TcpThreadStep

\* The count of a message is what it was, or one more or less; except where an attempt is taken
\* for dead, and the messages that waited for it are thrown away.
Recounts(m, by) ==
  \/ useCount' = [useCount EXCEPT ![m] = @ + by] /\ UNCHANGED raced
  \/ raced' = raced \cup {m} /\ UNCHANGED useCount

LEMMA UseCountEffect ==
  ASSUME TypeOK, [Next]_vars
  PROVE  \/ UNCHANGED <<useCount, raced>>
         \/ \E m \in Message, by \in {1, -1} : Recounts(m, by)
         \/ \E t \in Sender :
              /\ Connect(t) /\ UNCHANGED raced
              /\ useCount' = [m \in Message |-> useCount[m] - Copies(WaitingFor(To(t)), m)]
  <1>1. ASSUME NEW t \in Sender, NEW m \in Message, SendSipMessage(t, m)
        PROVE  Recounts(m, 1)
    BY <1>1 DEF SendSipMessage, Recounts
  <1>2. ASSUME NEW t \in Sender, Start(t)
        PROVE  sender[t].message \in Message /\ Recounts(sender[t].message, 1)
    BY <1>2, SenderBusy DEF Start, SenderSteps, Change, Recounts
  <1>3. ASSUME NEW t \in Sender, Wait(t), ~ UNCHANGED <<useCount, raced>>
        PROVE  sender[t].message \in Message /\ Recounts(sender[t].message, 1)
    BY <1>3, SenderBusy DEF Wait, SenderSteps, Change, Recounts
  <1>4. ASSUME NEW t \in Sender, End(t), ~ UNCHANGED <<useCount, raced>>
        PROVE  sender[t].message \in Message /\ Recounts(sender[t].message, -1)
    BY <1>4, SenderBusy DEF End, SenderSteps, Change, Recounts
  <1>5. ASSUME NEW c \in Client, Settle(c)
        PROVE  Head(client[c].list) \in Message /\ Recounts(Head(client[c].list), -1)
    BY <1>5, SettleEffect, TailFields DEF Settle, Change, Recounts
  <1>6. ASSUME NEW c \in Client, ClientEnd(c)
        PROVE  client[c].message \in Message /\ Recounts(client[c].message, -1)
    BY <1>6, ClientBusy DEF ClientEnd, ClientSteps, Change, Recounts
  <1>7. ASSUME NEW t \in Sender, Connect(t)
        PROVE  \/ UNCHANGED <<useCount, raced>>
               \/ /\ UNCHANGED raced
                  /\ useCount' = [m \in Message |-> useCount[m] - Copies(WaitingFor(To(t)), m)]
    BY <1>7 DEF Connect, WaitingFor
  <1>8. \/ UNCHANGED <<useCount, raced>>
        \/ \E t \in Sender, m \in Message : SendSipMessage(t, m)
        \/ \E t \in Sender : Start(t) \/ Wait(t) \/ End(t) \/ Connect(t)
        \/ \E c \in Client : Settle(c) \/ ClientEnd(c)
    BY DEF Next, vars, SendAgain, SenderStep, SocketFound, SocketSend, NoSocketFound, ClientStep,
        TcpConnect,
           SendFirst, Delete, SendCommand, TooLong, Accept, CloseSession, TcpThreadStep,
           RecvCommand, CloseSocket, DecreaseSocketCount, TransactionEnds, DeleteTimeout
  <1> QED
    BY <1>1, <1>2, <1>3, <1>4, <1>5, <1>6, <1>7, <1>8

LEMMA UseCountType ==
  ASSUME TypeOK, [Next]_vars
  PROVE  useCount' \in [Message -> Int] /\ raced' \subseteq Message
  <1>1. useCount \in [Message -> Int] /\ raced \subseteq Message
    BY DEF TypeOK
  <1>2. ASSUME NEW m \in Message, NEW by \in {1, -1}, Recounts(m, by)
        PROVE  useCount' \in [Message -> Int] /\ raced' \subseteq Message
    BY <1>1, <1>2 DEF Recounts
  <1>3. ASSUME NEW a, useCount' = [m \in Message |-> useCount[m] - Copies(WaitingFor(a), m)]
        PROVE  useCount' \in [Message -> Int]
    <2>1. \A m \in Message : Copies(WaitingFor(a), m) \in Nat
      BY WaitingForType, CopiesType
    <2> QED
      BY <1>1, <1>3, <2>1
  <1> QED
    BY <1>1, <1>2, <1>3, UseCountEffect

\* The life of a message, from the transaction that has it to its end.
LEMMA LifeEffect ==
  ASSUME [Next]_vars
  PROVE  \/ UNCHANGED life
         \/ \E t \in Sender, m \in Message : SendSipMessage(t, m)
         \/ \E m \in Message : TransactionEnds(m)
         \/ DeleteTimeout
  BY DEF Next, vars, life, SendAgain, SenderStep, SocketFound, SocketSend, NoSocketFound, Connect,
      Start, Wait,
         End, ClientStep, TcpConnect, SendFirst, Delete, Settle, SendCommand, ClientEnd, TooLong,
         Accept, CloseSession, TcpThreadStep, RecvCommand, CloseSocket, DecreaseSocketCount

LEMMA LifeType ==
  ASSUME TypeOK, [Next]_vars
  PROVE  /\ deleteQueue' \in Seq(begun') /\ transactions' \cup freed' \subseteq begun'
         /\ begun' \subseteq Message
  <1>1. /\ deleteQueue \in Seq(begun) /\ transactions \cup freed \subseteq begun
        /\ begun \subseteq Message
    BY DEF TypeOK
  <1>2. ASSUME NEW t \in Sender, NEW m \in Message, SendSipMessage(t, m)
        PROVE  /\ deleteQueue' \in Seq(begun') /\ transactions' \cup freed' \subseteq begun'
               /\ begun' \subseteq Message
    <2>1. /\ begun' = begun \cup {m} /\ transactions' = transactions \cup {m}
          /\ UNCHANGED <<deleteQueue, freed>>
      BY <1>2 DEF SendSipMessage
    <2>2. deleteQueue \in Seq(begun')
      BY <1>1, <2>1
    <2> QED
      BY <1>1, <2>1, <2>2
  <1>3. ASSUME NEW m \in Message, TransactionEnds(m)
        PROVE  /\ deleteQueue' \in Seq(begun') /\ transactions' \cup freed' \subseteq begun'
               /\ begun' \subseteq Message
    BY <1>1, <1>3 DEF TransactionEnds
  <1>4. CASE DeleteTimeout
    BY <1>1, <1>4 DEF DeleteTimeout
  <1>5. CASE UNCHANGED life
    BY <1>1, <1>5 DEF life
  <1> QED
    BY <1>2, <1>3, <1>4, <1>5, LifeEffect

LEMMA OrphansType ==
  ASSUME TypeOK, [Next]_vars
  PROVE  orphans' \subseteq Address /\ orphans \subseteq orphans'
  <1>1. ASSUME NEW t \in Sender, Start(t)
        PROVE  orphans' \subseteq Address /\ orphans \subseteq orphans'
    <2>1. To(t) \in Address
      BY <1>1, SenderBusy DEF Start, SenderSteps
    <2>2. UNCHANGED orphans \/ orphans' = orphans \cup {To(t)}
      BY <1>1, StartEffect
    <2> QED
      BY <2>1, <2>2 DEF TypeOK
  <1>2. UNCHANGED orphans \/ \E t \in Sender : Start(t)
    BY DEF Next, vars, SendSipMessage, SendAgain, SenderStep, SocketFound, SocketSend,
        NoSocketFound, Connect,
           Wait, End, ClientStep, TcpConnect, SendFirst, Delete, Settle, SendCommand, ClientEnd,
           TooLong, Accept, CloseSession, TcpThreadStep, RecvCommand, CloseSocket,
           DecreaseSocketCount, TransactionEnds, DeleteTimeout
  <1> QED
    BY <1>1, <1>2 DEF TypeOK

LEMMA TypeStep ==
  ASSUME TypeOK, ClientInv, SocketInv, [Next]_vars
  PROVE  TypeOK'
  <1>1. /\ sender' \in [Sender -> SenderTask \cup {Nothing}]
        /\ client' \in [Client -> ClientTask \cup {Nothing}]
    BY SenderType, ClientType
  <1>2. DOMAIN connectMap' \subseteq Address /\ Range(connectMap') \subseteq CTcpConnectInfo
    BY ConnectMapType
  <1>3. useCount' \in [Message -> Int] /\ raced' \subseteq Message /\ orphans' \subseteq Address
    BY UseCountType, OrphansType
  <1>4. /\ deleteQueue' \in Seq(begun') /\ transactions' \cup freed' \subseteq begun'
        /\ begun' \subseteq Message
    BY LifeType
  <1> QED
    BY <1>1, <1>2, <1>3, <1>4, SocketTypes DEF TypeOK

LEMMA IInvInit == Init => IInv
  <1> SUFFICES ASSUME Init
               PROVE  IInv
    OBVIOUS
  <1>1. TypeOK
    BY SipTcpClientAssumption DEF Init, TypeOK, Range
  <1>2. ClientInv /\ Held = {}
    BY DEF Init, ClientInv, Held
  <1>3. OneOwner
    BY <1>2 DEF Init, OneOwner, SocketOf, Range
  <1>4. FiniteOwners /\ MapNamesSessions
    BY <1>2, FS_EmptySet DEF Init, FiniteOwners, MapNamesSessions
  <1>5. CountExact /\ ClosingIsSession
    BY FS_EmptySet, SipTcpClientAssumption DEF Init, CountExact, ClosingIsSession
  <1> QED
    BY <1>1, <1>2, <1>3, <1>4, <1>5 DEF IInv, SocketInv

LEMMA IInvStep == IInv /\ [Next]_vars => IInv'
  BY TypeStep, ClientInvStep, SocketInvStep DEF IInv

\* IInv, which the theorems below start from, holds in every state: what a connecting thread has
\* at each of its steps, and who owns each open socket.
THEOREM Invariance == Spec => []IInv
  BY IInvInit, IInvStep, PTL DEF Spec

\* Everything in the maps, the pipe and the queues has its type, and the polling thread never
\* has more sockets than MaxSocketPerThread.
THEOREM TypeCorrect == Spec => []TypeOK
  <1>1. IInv => TypeOK
    BY DEF IInv
  <1> QED
    BY <1>1, Invariance, PTL

\* Two sets that have nothing in common.
LEMMA DisjointUnion ==
  ASSUME NEW S, NEW T, IsFiniteSet(S), IsFiniteSet(T), S \cap T = {}
  PROVE  IsFiniteSet(S \cup T) /\ Cardinality(S \cup T) = Cardinality(S) + Cardinality(T)
  <1>1. Cardinality(S) \in Nat /\ Cardinality(T) \in Nat
    BY FS_CardinalityType
  <1> QED
    BY <1>1, FS_Union, FS_EmptySet

\* Every open socket has one owner who will close it, except those SendFirst leaks; the map of
\* sockets names sessions of their address only, and the count that limits them is exact.
THEOREM NoSocketLost == Spec => []SocketsAccounted
  <1>1. ASSUME IInv
        PROVE  SocketsAccounted
    <2>1. OneOwner /\ FiniteOwners /\ MapNamesSessions /\ CountExact
      BY <1>1 DEF IInv, SocketInv
    <2>2. IsFiniteSet(Range(pipe)) /\ Cardinality(Range(pipe)) = Len(pipe)
      BY <1>1, <2>1, InjectiveLength DEF IInv, TypeOK, OneOwner
    <2>3. /\ IsFiniteSet(Held \cup Range(pipe))
          /\ Cardinality(Held \cup Range(pipe)) = Cardinality(Held) + Len(pipe)
      BY <2>1, <2>2, DisjointUnion DEF OneOwner, FiniteOwners
    <2>4. /\ IsFiniteSet((Held \cup Range(pipe)) \cup sessions)
          /\ Cardinality((Held \cup Range(pipe)) \cup sessions)
               = Cardinality(Held) + Len(pipe) + Cardinality(sessions)
      <3>1. (Held \cup Range(pipe)) \cap sessions = {}
        BY <2>1 DEF OneOwner
      <3> QED
        BY <2>1, <2>3, <3>1, DisjointUnion DEF FiniteOwners
    <2>5. Cardinality(((Held \cup Range(pipe)) \cup sessions) \cup leaked)
            = Cardinality(Held) + Len(pipe) + Cardinality(sessions) + Cardinality(leaked)
      <3>1. ((Held \cup Range(pipe)) \cup sessions) \cap leaked = {}
        BY <2>1 DEF OneOwner
      <3> QED
        BY <2>1, <2>4, <3>1, DisjointUnion DEF FiniteOwners
    <2> QED
      BY <2>1, <2>5 DEF SocketsAccounted, OneOwner, MapNamesSessions, CountExact
  <1> QED
    BY <1>1, Invariance, PTL
-----------------------------------------------------------------------------
\* The messages that wait.

\* A thread that changes its task does one of its steps.
LEMMA SenderKept ==
  ASSUME TypeOK, [Next]_vars, NEW t \in Sender, sender'[t] # sender[t]
  PROVE  \/ SenderStep(t)
         \/ \E m \in Message : SendSipMessage(t, m) \/ SendAgain(t, m)
  <1>1. ASSUME NEW u \in Sender, SenderStep(u)
        PROVE  u = t
    <2>1. CASE sender' = [sender EXCEPT ![u] = Nothing]
      BY <2>1 DEF TypeOK
    <2>2. ASSUME NEW step \in SenderSteps, SenderGoesOn(u, step)
          PROVE  u = t
      BY <2>2 DEF SenderGoesOn, TypeOK
    <2> QED
      BY <1>1, <2>1, <2>2, SenderStepEffect
  <1>2. ASSUME NEW u \in Sender, NEW m \in Message, SendSipMessage(u, m) \/ SendAgain(u, m)
        PROVE  u = t
    BY <1>2, SenderBegins
  <1>3. \/ \E u \in Sender : SenderStep(u)
        \/ \E u \in Sender, m \in Message : SendSipMessage(u, m) \/ SendAgain(u, m)
    BY DEF Next, vars, ClientStep, TcpConnect, SendFirst, Delete, Settle, SendCommand, ClientEnd,
           TooLong, Accept, CloseSession, TcpThreadStep, RecvCommand, CloseSocket,
           DecreaseSocketCount, TransactionEnds, DeleteTimeout
  <1> QED
    BY <1>1, <1>2, <1>3

LEMMA ClientStepOthers ==
  ASSUME TypeOK, NEW c \in Client, ClientStep(c)
  PROVE  /\ client[c] # Nothing
         /\ \A d \in Client \ {c} : client'[d] = client[d]
  BY ClientTaskTypes, TcpConnectEffect, SendFirstEffect, DeleteEffect, SettleEffect,
     SendCommandEffect, ClientEndEffect
  DEF ClientStep, ClientChange

LEMMA ClientKeeps ==
  ASSUME TypeOK, [Next]_vars, NEW c \in Client, client'[c] # client[c]
  PROVE  \/ ClientStep(c)
         \/ \E t \in Sender :
              /\ Start(t) /\ client[c] = Nothing /\ UNCHANGED orphans
              /\ client'[c] \in ClientTask /\ client'[c].do = "Connect"
              /\ client'[c].message = sender[t].message /\ client'[c].list = <<>>
  BY ClientStepOthers, StartEffect, ClientKept

\* A thread about to start an attempt starts it, or gives it up for an orphan.
LEMMA StartingKept ==
  ASSUME TypeOK, [Next]_vars, NEW t \in Sender, SenderDoes(t, "Start"), ~ Start(t)
  PROVE  sender'[t] = sender[t]
  BY SenderKept
  DEF SenderStep, SendSipMessage, SendAgain, SenderDoes, SocketFound, SocketSend, NoSocketFound,
      Connect, Wait,
      End, Nothing

\* A thread that connects goes on until it deletes the attempt.
LEMMA ConnectingKept ==
  ASSUME TypeOK, [Next]_vars, NEW c \in Client,
         client[c].do \in {"Connect", "SendFirst", "Delete"}, ~ Delete(c)
  PROVE  client'[c].do \in {"Connect", "SendFirst", "Delete"} /\ Of(c)' = Of(c)
  <1>1. CASE client'[c] = client[c]
    BY <1>1 DEF Of
  <1>2. client[c] # Nothing
    BY DEF Nothing
  <1>3. CASE TcpConnect(c)
    BY <1>3, TcpConnectEffect DEF ClientChange, Of
  <1>4. CASE SendFirst(c)
    BY <1>4, SendFirstEffect DEF ClientChange, Of
  <1>5. ~ Settle(c) /\ ~ SendCommand(c) /\ ~ ClientEnd(c)
    BY DEF Settle, SendCommand, ClientEnd, ClientDoes
  <1> QED
    BY <1>1, <1>2, <1>3, <1>4, <1>5, ClientKeeps DEF ClientStep

LEMMA NoneWaitsInVainStep ==
  ASSUME TypeOK, NoneWaitsInVain, [Next]_vars
  PROVE  NoneWaitsInVain'
  <1> SUFFICES ASSUME NEW a \in DOMAIN connectMap' \ orphans'
               PROVE  \/ \E t \in Sender : SenderDoes(t, "Start")' /\ To(t)' = a
                      \/ \E c \in Client :
                           /\ client'[c].do \in {"Connect", "SendFirst", "Delete"}
                           /\ Of(c)' = a
    BY DEF NoneWaitsInVain
  <1>1. a \notin orphans
    BY OrphansType
  <1>2. CASE a \notin DOMAIN connectMap
    <2>1. PICK t \in Sender : MapBegins(t)
      <3>1. ASSUME NEW c \in Client, connectMap' = Without(connectMap, Of(c))
            PROVE  FALSE
        BY <1>2, <3>1 DEF Without, Restrict
      <3>2. ASSUME NEW t \in Sender, MapTakes(t)
            PROVE  FALSE
        BY <1>2, <3>2, MapTakesEffect
      <3>3. ASSUME NEW b \in Address, TooLong(b)
            PROVE  FALSE
        BY <1>2, <3>3, TooLongEffect
      <3> QED
        BY <1>2, <3>1, <3>2, <3>3, ConnectMapEffect
    <2>2. sender[t] \in SenderTask /\ SenderGoesOn(t, "Start")
      <3>1. sender[t] \in SenderTask
        BY <2>1, SenderBusy DEF MapBegins, Connect, SenderSteps
      <3>2. To(t) = a
        BY <1>2, <2>1 DEF MapBegins, With
      <3> QED
        BY <1>2, <2>1, <3>1, <3>2 DEF MapBegins, Connect
    <2>3. sender'[t].do = "Start" /\ sender'[t].message = sender[t].message
      BY <2>2, SenderWent DEF SenderSteps
    <2>4. To(t) = a
      BY <1>2, <2>1 DEF MapBegins, With
    <2> QED
      BY <2>3, <2>4 DEF SenderDoes, To
  <1>3. ASSUME NEW t \in Sender, SenderDoes(t, "Start"), To(t) = a, Start(t)
        PROVE  \E c \in Client : client'[c].do = "Connect" /\ Of(c)' = a
    <2>1. PICK c \in Client : client'[c].do = "Connect" /\ client'[c].message = sender[t].message
      BY <1>1, <1>3, StartEffect
    <2> QED
      BY <1>3, <2>1 DEF Of, To
  <1>4. ASSUME NEW t \in Sender, SenderDoes(t, "Start"), To(t) = a, ~ Start(t)
        PROVE  SenderDoes(t, "Start")' /\ To(t)' = a
    BY <1>4, StartingKept DEF SenderDoes, To
  <1>5. ASSUME NEW c \in Client, client[c].do \in {"Connect", "SendFirst", "Delete"}, Of(c) = a
        PROVE  /\ client'[c].do \in {"Connect", "SendFirst", "Delete"}
               /\ Of(c)' = a
    <2>1. ~ Delete(c)
      BY <1>5, DeleteEffect DEF Without, Restrict
    <2> QED
      BY <1>5, <2>1, ConnectingKept
  <1> QED
    BY <1>1, <1>2, <1>3, <1>4, <1>5 DEF NoneWaitsInVain

\* A message waits only for an attempt that some thread will end.
THEOREM NoMessageForgotten == Spec => []NoneWaitsInVain
  <1>1. Init => NoneWaitsInVain
    BY DEF Init, NoneWaitsInVain
  <1>2. IInv /\ NoneWaitsInVain /\ [Next]_vars => NoneWaitsInVain'
    BY NoneWaitsInVainStep DEF IInv
  <1> QED
    BY <1>1, <1>2, Invariance, PTL DEF Spec
-----------------------------------------------------------------------------
\* How often a message is in a list, and in a family of lists.

LEMMA CopiesEmpty ==
  ASSUME NEW m
  PROVE  Copies(<<>>, m) = 0 /\ Places(<<>>, m) = {}
  <1>1. Places(<<>>, m) = {}
    BY DEF Places
  <1> QED
    BY <1>1, FS_EmptySet DEF Copies

LEMMA CopiesAppend ==
  ASSUME NEW list \in Seq(Message), NEW x \in Message, NEW m
  PROVE  Copies(Append(list, x), m) = Copies(list, m) + (IF x = m THEN 1 ELSE 0)
  <1> DEFINE n == Len(list) + 1
  <1>1. /\ DOMAIN Append(list, x) = DOMAIN list \cup {n} /\ n \notin DOMAIN list
        /\ Append(list, x)[n] = x /\ \A i \in DOMAIN list : Append(list, x)[i] = list[i]
    BY RangeAppend
  <1>2. IsFiniteSet(Places(list, m)) /\ Cardinality(Places(list, m)) \in Nat
    BY CopiesType
  <1>3. n \notin Places(list, m)
    BY <1>1 DEF Places
  <1> HIDE DEF n
  <1>4. CASE x = m
    <2>1. Places(Append(list, x), m) = Places(list, m) \cup {n}
      BY <1>1, <1>4 DEF Places
    <2> QED
      BY <1>2, <1>3, <1>4, <2>1, FS_AddElement DEF Copies
  <1>5. CASE x # m
    <2>1. Places(Append(list, x), m) = Places(list, m)
      BY <1>1, <1>5 DEF Places
    <2> QED
      BY <1>2, <1>5, <2>1 DEF Copies
  <1> QED
    BY <1>4, <1>5

LEMMA CopiesTail ==
  ASSUME NEW list \in Seq(Message), list # <<>>, NEW m
  PROVE  Copies(Tail(list), m) = Copies(list, m) - (IF Head(list) = m THEN 1 ELSE 0)
  <1>1. /\ Tail(list) \in Seq(Message) /\ Head(list) = list[1] /\ 1 \in DOMAIN list
        /\ \A i \in DOMAIN Tail(list) :
             i \in Nat /\ i + 1 \in DOMAIN list \ {1} /\ Tail(list)[i] = list[i + 1]
        /\ \A i \in DOMAIN list \ {1} : i \in Nat /\ i - 1 \in DOMAIN Tail(list)
    BY TailFields
  <1> DEFINE S == Places(Tail(list), m)
             T == Places(list, m) \ {1}
             f == [i \in S |-> i + 1]
  <1>2. IsFiniteSet(S) /\ IsFiniteSet(Places(list, m)) /\ Cardinality(Places(list, m)) \in Nat
    BY <1>1, CopiesType
  <1>3. S \subseteq Nat /\ \A i \in S : i + 1 \in T
    BY <1>1 DEF Places
  <1>4. \A j \in T : j \in Nat /\ j - 1 \in S /\ (j - 1) + 1 = j
    <2>1. ASSUME NEW j \in T
          PROVE  j \in Nat /\ j - 1 \in S /\ (j - 1) + 1 = j
      <3>1. j \in DOMAIN list \ {1} /\ list[j] = m
        BY DEF Places
      <3>2. j \in Nat /\ j - 1 \in DOMAIN Tail(list) /\ (j - 1) + 1 = j
        BY <1>1, <3>1
      <3> QED
        BY <1>1, <3>1, <3>2 DEF Places
    <2> QED
      BY <2>1
  <1> HIDE DEF S, T
  <1>5. f \in Bijection(S, T)
    <2>1. f \in [S -> T] /\ \A i, j \in S : f[i] = f[j] => i = j
      BY <1>3
    <2>2. \A j \in T : \E i \in S : f[i] = j
      BY <1>4
    <2> QED
      BY <2>1, <2>2 DEF Bijection, Injection, Surjection, IsInjective
  <1>6. Cardinality(T) = Cardinality(S)
    BY <1>2, <1>5, FS_Bijection DEF ExistsBijection
  <1>7. Cardinality(T) = Cardinality(Places(list, m)) - (IF Head(list) = m THEN 1 ELSE 0)
    <2>1. 1 \in Places(list, m) <=> Head(list) = m
      BY <1>1 DEF Places
    <2>2. Cardinality(Places(list, m) \ {1})
            = IF 1 \in Places(list, m) THEN Cardinality(Places(list, m)) - 1
              ELSE Cardinality(Places(list, m))
      BY <1>2, FS_RemoveElement
    <2> QED
      BY <1>2, <2>1, <2>2 DEF T
  <1> QED
    BY <1>6, <1>7 DEF Copies, S

\* The places a single list has in a family.
LEMMA PlacesOfOne ==
  ASSUME NEW list \in Seq(Message), NEW x, NEW m
  PROVE  /\ IsFiniteSet({x} \X Places(list, m))
         /\ Cardinality({x} \X Places(list, m)) = Copies(list, m)
  <1>1. IsFiniteSet(Places(list, m)) /\ Copies(list, m) \in Nat
    BY CopiesType
  <1>2. IsFiniteSet({x}) /\ Cardinality({x}) = 1
    BY FS_Singleton
  <1> QED
    BY <1>1, <1>2, FS_Product DEF Copies

\* The list a family has for x.
ListAt(lists, x) == IF x \in DOMAIN lists THEN lists[x] ELSE <<>>

\* When one list of a family changes, comes or goes, so does its part of the places.
LEMMA PlacesInChange ==
  ASSUME NEW old, NEW new, NEW x, NEW m,
         ListAt(old, x) \in Seq(Message), ListAt(new, x) \in Seq(Message),
         DOMAIN old \ {x} = DOMAIN new \ {x},
         \A y \in DOMAIN old \ {x} : new[y] = old[y],
         IsFiniteSet(PlacesIn(old, m))
  PROVE  /\ IsFiniteSet(PlacesIn(new, m))
         /\ Cardinality(PlacesIn(new, m))
              = Cardinality(PlacesIn(old, m)) - Copies(ListAt(old, x), m) + Copies(ListAt(new, x), m)
  <1> DEFINE s == ListAt(old, x)
             t == ListAt(new, x)
             rest == UNION {{y} \X Places(old[y], m) : y \in DOMAIN old \ {x}}
             S == {x} \X Places(s, m)
             T == {x} \X Places(t, m)
  <1>1. PlacesIn(old, m) = rest \cup S
    BY CopiesEmpty DEF PlacesIn, ListAt
  <1>2. PlacesIn(new, m) = rest \cup T
    BY CopiesEmpty DEF PlacesIn, ListAt
  <1>3. rest \cap S = {} /\ rest \cap T = {}
    OBVIOUS
  <1>4. /\ IsFiniteSet(S) /\ Cardinality(S) = Copies(s, m) /\ Copies(s, m) \in Nat
        /\ IsFiniteSet(T) /\ Cardinality(T) = Copies(t, m) /\ Copies(t, m) \in Nat
    <2>1. IsFiniteSet(S) /\ Cardinality(S) = Copies(s, m)
      BY PlacesOfOne
    <2>2. IsFiniteSet(T) /\ Cardinality(T) = Copies(t, m)
      BY PlacesOfOne
    <2>3. Copies(s, m) \in Nat /\ Copies(t, m) \in Nat
      BY CopiesType
    <2> HIDE DEF S, T
    <2> QED
      BY <2>1, <2>2, <2>3
  <1> HIDE DEF rest, S, T, s, t
  <1>5. IsFiniteSet(rest) /\ Cardinality(rest) \in Nat
    <2>1. rest \subseteq PlacesIn(old, m)
      BY <1>1
    <2> QED
      BY <2>1, FS_Subset, FS_CardinalityType
  <1>6. Cardinality(PlacesIn(old, m)) = Cardinality(rest) + Copies(s, m)
    BY <1>1, <1>3, <1>4, <1>5, DisjointUnion
  <1>7. /\ IsFiniteSet(PlacesIn(new, m))
        /\ Cardinality(PlacesIn(new, m)) = Cardinality(rest) + Copies(t, m)
    <2>1. IsFiniteSet(rest \cup T) /\ Cardinality(rest \cup T) = Cardinality(rest) + Cardinality(T)
      BY <1>3, <1>4, <1>5, DisjointUnion, Zenon
    <2> QED
      BY <1>2, <1>4, <2>1
  <1> QED
    BY <1>4, <1>5, <1>6, <1>7 DEF s, t
-----------------------------------------------------------------------------
\* The count of a message.

FiniteUses ==
  \A m \in Message :
    /\ IsFiniteSet(SendersOf(m)) /\ IsFiniteSet(ClientsOf(m))
    /\ IsFiniteSet(PlacesIn(Settled, m)) /\ IsFiniteSet(PlacesIn(Waiting, m))

\* NoCountLeaked, in the form that is kept: while no attempt was given up for an orphan the count
\* is exact, and it never falls short.
Counted ==
  \A m \in Message \ raced :
    /\ useCount[m] >= Uses(m)
    /\ AddressOf[m] \notin orphans => useCount[m] = Uses(m)

CountInv == FiniteUses /\ Counted

LEMMA UsesType ==
  ASSUME FiniteUses, NEW m \in Message
  PROVE  /\ Cardinality(SendersOf(m)) \in Nat /\ Cardinality(ClientsOf(m)) \in Nat
         /\ Cardinality(PlacesIn(Settled, m)) \in Nat
         /\ Cardinality(PlacesIn(Waiting, m)) \in Nat /\ Uses(m) \in Nat
  <1>1. /\ Cardinality(SendersOf(m)) \in Nat /\ Cardinality(ClientsOf(m)) \in Nat
        /\ Cardinality(PlacesIn(Settled, m)) \in Nat
        /\ Cardinality(PlacesIn(Waiting, m)) \in Nat
    BY FS_CardinalityType DEF FiniteUses
  <1> QED
    BY <1>1 DEF Uses

\* One use more, one less, or none: what a step does to who counts m.
SendersBy(m, by) ==
  IsFiniteSet(SendersOf(m))' /\ Cardinality(SendersOf(m))' = Cardinality(SendersOf(m)) + by
ClientsBy(m, by) ==
  IsFiniteSet(ClientsOf(m))' /\ Cardinality(ClientsOf(m))' = Cardinality(ClientsOf(m)) + by
SettledBy(m, by) ==
  /\ IsFiniteSet(PlacesIn(Settled, m))'
  /\ Cardinality(PlacesIn(Settled, m))' = Cardinality(PlacesIn(Settled, m)) + by
WaitingBy(m, by) ==
  /\ IsFiniteSet(PlacesIn(Waiting, m))'
  /\ Cardinality(PlacesIn(Waiting, m))' = Cardinality(PlacesIn(Waiting, m)) + by

LEMMA UsesBy ==
  ASSUME FiniteUses, NEW m \in Message, NEW i \in Int, NEW j \in Int, NEW k \in Int, NEW l \in Int,
         SendersBy(m, i), ClientsBy(m, j), SettledBy(m, k), WaitingBy(m, l)
  PROVE  Uses(m)' = Uses(m) + (i + j + k + l)
  BY UsesType DEF SendersBy, ClientsBy, SettledBy, WaitingBy, Uses

LEMMA FiniteBy ==
  ASSUME \A m \in Message : \E i, j, k, l \in Int :
           SendersBy(m, i) /\ ClientsBy(m, j) /\ SettledBy(m, k) /\ WaitingBy(m, l)
  PROVE  FiniteUses'
  BY DEF FiniteUses, SendersBy, ClientsBy, SettledBy, WaitingBy

\* Senders.

LEMMA SendersSame ==
  ASSUME FiniteUses, NEW m \in Message, SendersOf(m)' = SendersOf(m)
  PROVE  SendersBy(m, 0)
  BY UsesType DEF SendersBy, FiniteUses

LEMMA SendersUnchanged ==
  ASSUME FiniteUses, UNCHANGED sender, NEW m \in Message
  PROVE  SendersBy(m, 0)
  BY SendersSame DEF SendersOf

LEMMA SendersGoOn ==
  ASSUME TypeOK, FiniteUses, NEW t \in Sender, NEW step \in SenderSteps, sender[t] \in SenderTask,
         SenderGoesOn(t, step), NEW m \in Message
  PROVE  SendersBy(m, 0)
  <1>1. sender[t] # Nothing
    BY SenderTaskTypes
  <1>2. SendersOf(m)' = SendersOf(m)
    BY <1>1, SenderWent DEF SendersOf
  <1> QED
    BY <1>2, SendersSame

LEMMA SendersBegin ==
  ASSUME TypeOK, FiniteUses, NEW t \in Sender, NEW x \in Message,
         SendSipMessage(t, x) \/ SendAgain(t, x), NEW m \in Message
  PROVE  SendersBy(m, IF x \notin begun /\ m = x THEN 1 ELSE 0)
  <1>1. /\ sender[t] = Nothing /\ sender'[t] # Nothing /\ sender'[t].message = x
        /\ sender'[t].own <=> x \notin begun
        /\ \A u \in Sender \ {t} : sender'[u] = sender[u]
    BY SenderBegins, SenderTaskTypes
  <1>2. CASE x \notin begun /\ m = x
    <2>1. SendersOf(m)' = SendersOf(m) \cup {t} /\ t \notin SendersOf(m)
      BY <1>1, <1>2 DEF SendersOf
    <2>2. IsFiniteSet(SendersOf(m))
      BY DEF FiniteUses
    <2> QED
      BY <1>2, <2>1, <2>2, FS_AddElement DEF SendersBy
  <1>3. CASE ~ (x \notin begun /\ m = x)
    <2>1. SendersOf(m)' = SendersOf(m)
      BY <1>1, <1>3 DEF SendersOf
    <2> QED
      BY <1>3, <2>1, SendersSame
  <1> QED
    BY <1>2, <1>3

LEMMA SendersEnd ==
  ASSUME TypeOK, FiniteUses, NEW t \in Sender, End(t), NEW m \in Message
  PROVE  SendersBy(m, IF sender[t].own /\ m = sender[t].message THEN -1 ELSE 0)
  <1>1. /\ sender[t] # Nothing /\ sender'[t] = Nothing
        /\ \A u \in Sender \ {t} : sender'[u] = sender[u]
    BY SenderBusy DEF End, SenderSteps, TypeOK
  <1>2. CASE sender[t].own /\ m = sender[t].message
    <2>1. SendersOf(m)' = SendersOf(m) \ {t} /\ t \in SendersOf(m)
      BY <1>1, <1>2 DEF SendersOf
    <2>2. IsFiniteSet(SendersOf(m)) /\ Cardinality(SendersOf(m)) \in Nat
      BY UsesType DEF FiniteUses
    <2> QED
      BY <1>2, <2>1, <2>2, FS_RemoveElement DEF SendersBy
  <1>3. CASE ~ (sender[t].own /\ m = sender[t].message)
    <2>1. SendersOf(m)' = SendersOf(m)
      BY <1>1, <1>3 DEF SendersOf
    <2> QED
      BY <1>3, <2>1, SendersSame
  <1> QED
    BY <1>2, <1>3

\* Connecting threads.

LEMMA ClientsSame ==
  ASSUME FiniteUses, NEW m \in Message, ClientsOf(m)' = ClientsOf(m)
  PROVE  ClientsBy(m, 0)
  BY UsesType DEF ClientsBy, FiniteUses

LEMMA ClientsUnchanged ==
  ASSUME FiniteUses, UNCHANGED client, NEW m \in Message
  PROVE  ClientsBy(m, 0) /\ SettledBy(m, 0)
  <1>1. ClientsOf(m)' = ClientsOf(m) /\ PlacesIn(Settled, m)' = PlacesIn(Settled, m)
    BY DEF ClientsOf, PlacesIn, Settled
  <1>2. ClientsBy(m, 0)
    BY <1>1, ClientsSame
  <1>3. SettledBy(m, 0)
    BY <1>1, UsesType DEF SettledBy, FiniteUses
  <1> QED
    BY <1>2, <1>3

LEMMA SettledChange ==
  ASSUME FiniteUses, NEW c \in Client, NEW s \in Seq(Message), NEW t \in Seq(Message),
         IF client[c] = Nothing THEN s = <<>> ELSE s = client[c].list,
         IF client'[c] = Nothing THEN t = <<>> ELSE t = client'[c].list,
         \A d \in Client \ {c} : client'[d] = client[d], NEW m \in Message
  PROVE  SettledBy(m, Copies(t, m) - Copies(s, m))
  <1> DEFINE old == Settled
             new == Settled'
  <1>1. DOMAIN old = Client /\ DOMAIN new = Client
    BY DEF Settled
  <1>2. ListAt(old, c) = s /\ ListAt(new, c) = t /\ \A d \in Client \ {c} : new[d] = old[d]
    BY DEF Settled, ListAt
  <1>3. IsFiniteSet(PlacesIn(old, m)) /\ Cardinality(PlacesIn(old, m)) \in Nat
    BY UsesType DEF FiniteUses
  <1>4. Copies(s, m) \in Nat /\ Copies(t, m) \in Nat
    BY CopiesType
  <1> HIDE DEF old, new
  <1>5. /\ IsFiniteSet(PlacesIn(new, m))
        /\ Cardinality(PlacesIn(new, m))
             = Cardinality(PlacesIn(old, m)) - Copies(s, m) + Copies(t, m)
    <2>1. ListAt(old, c) \in Seq(Message) /\ ListAt(new, c) \in Seq(Message)
      BY <1>2
    <2>2. DOMAIN old \ {c} = DOMAIN new \ {c} /\ \A d \in DOMAIN old \ {c} : new[d] = old[d]
      BY <1>1, <1>2
    <2>3. /\ IsFiniteSet(PlacesIn(new, m))
          /\ Cardinality(PlacesIn(new, m)) = Cardinality(PlacesIn(old, m))
                                              - Copies(ListAt(old, c), m) + Copies(ListAt(new, c), m)
      BY <1>3, <2>1, <2>2, PlacesInChange
    <2> QED
      BY <1>2, <2>3
  <1>6. Cardinality(PlacesIn(new, m))
          = Cardinality(PlacesIn(old, m)) + (Copies(t, m) - Copies(s, m))
    BY <1>3, <1>4, <1>5
  <1>7. PlacesIn(Settled, m)' = PlacesIn(new, m)
    BY DEF PlacesIn, new
  <1> QED
    BY <1>5, <1>6, <1>7 DEF SettledBy, old

\* A connecting thread goes on with the same message and, but for Delete and Settle, the same
\* list.
LEMMA ClientsChange ==
  ASSUME TypeOK, FiniteUses, NEW c \in Client, client[c] \in ClientTask, NEW step, NEW socket,
         NEW list \in Seq(Message), NEW ok, ClientChange(c, step, socket, list, ok),
         NEW m \in Message
  PROVE  ClientsBy(m, 0) /\ SettledBy(m, Copies(list, m) - Copies(client[c].list, m))
  <1>1. client[c] # Nothing /\ client[c].list \in Seq(Message)
    BY ClientTaskTypes
  <1>2. ClientsOf(m)' = ClientsOf(m)
    BY <1>1 DEF ClientChange, ClientsOf
  <1>3. SettledBy(m, Copies(list, m) - Copies(client[c].list, m))
    BY <1>1, SettledChange DEF ClientChange
  <1> QED
    BY <1>2, <1>3, ClientsSame

LEMMA ClientsStart ==
  ASSUME TypeOK, FiniteUses, NEW c \in Client, client[c] = Nothing, client'[c] \in ClientTask,
         client'[c].list = <<>>, \A d \in Client \ {c} : client'[d] = client[d], NEW m \in Message
  PROVE  ClientsBy(m, IF m = client'[c].message THEN 1 ELSE 0) /\ SettledBy(m, 0)
  <1>1. client'[c] # Nothing
    BY ClientTaskTypes
  <1>2. SettledBy(m, 0)
    <2>1. <<>> \in Seq(Message) /\ Copies(<<>>, m) = 0
      BY CopiesEmpty
    <2>2. SettledBy(m, Copies(<<>>, m) - Copies(<<>>, m))
      BY <1>1, <2>1, SettledChange
    <2> QED
      BY <2>1, <2>2
  <1>3. IsFiniteSet(ClientsOf(m)) /\ Cardinality(ClientsOf(m)) \in Nat
    BY UsesType DEF FiniteUses
  <1>4. CASE m = client'[c].message
    <2>1. ClientsOf(m)' = ClientsOf(m) \cup {c} /\ c \notin ClientsOf(m)
      BY <1>1, <1>4 DEF ClientsOf
    <2> QED
      BY <1>2, <1>3, <1>4, <2>1, FS_AddElement DEF ClientsBy
  <1>5. CASE m # client'[c].message
    <2>1. ClientsOf(m)' = ClientsOf(m)
      BY <1>1, <1>5 DEF ClientsOf
    <2> QED
      BY <1>2, <1>5, <2>1, ClientsSame
  <1> QED
    BY <1>4, <1>5

LEMMA ClientsEnd ==
  ASSUME TypeOK, FiniteUses, NEW c \in Client, client[c] \in ClientTask, client[c].list = <<>>,
         client'[c] = Nothing, \A d \in Client \ {c} : client'[d] = client[d], NEW m \in Message
  PROVE  ClientsBy(m, IF m = client[c].message THEN -1 ELSE 0) /\ SettledBy(m, 0)
  <1>1. client[c] # Nothing
    BY ClientTaskTypes
  <1>2. SettledBy(m, 0)
    <2>1. <<>> \in Seq(Message) /\ Copies(<<>>, m) = 0
      BY CopiesEmpty
    <2>2. SettledBy(m, Copies(<<>>, m) - Copies(<<>>, m))
      BY <1>1, <2>1, SettledChange
    <2> QED
      BY <2>1, <2>2
  <1>3. IsFiniteSet(ClientsOf(m)) /\ Cardinality(ClientsOf(m)) \in Nat
    BY UsesType DEF FiniteUses
  <1>4. CASE m = client[c].message
    <2>1. ClientsOf(m)' = ClientsOf(m) \ {c} /\ c \in ClientsOf(m)
      BY <1>1, <1>4 DEF ClientsOf
    <2> QED
      BY <1>2, <1>3, <1>4, <2>1, FS_RemoveElement DEF ClientsBy
  <1>5. CASE m # client[c].message
    <2>1. ClientsOf(m)' = ClientsOf(m)
      BY <1>1, <1>5 DEF ClientsOf
    <2> QED
      BY <1>2, <1>5, <2>1, ClientsSame
  <1> QED
    BY <1>4, <1>5

\* Lists that wait.

LEMMA WaitingSame ==
  ASSUME FiniteUses, NEW m \in Message, Waiting' = Waiting
  PROVE  WaitingBy(m, 0)
  <1>1. PlacesIn(Waiting, m)' = PlacesIn(Waiting, m)
    BY DEF PlacesIn
  <1> QED
    BY <1>1, UsesType DEF WaitingBy, FiniteUses

LEMMA WaitingUnchanged ==
  ASSUME FiniteUses, UNCHANGED connectMap, NEW m \in Message
  PROVE  WaitingBy(m, 0)
  BY WaitingSame DEF Waiting

LEMMA WaitingChange ==
  ASSUME TypeOK, FiniteUses, NEW a \in Address, NEW t \in Seq(Message),
         DOMAIN connectMap \ {a} = DOMAIN connectMap' \ {a},
         \A b \in DOMAIN connectMap \ {a} : connectMap'[b] = connectMap[b],
         a \in DOMAIN connectMap' => t = connectMap'[a].list,
         a \notin DOMAIN connectMap' => t = <<>>, NEW m \in Message
  PROVE  WaitingBy(m, Copies(t, m) - Copies(WaitingFor(a), m))
  <1> DEFINE old == Waiting
             new == Waiting'
             s == WaitingFor(a)
  <1>1. s \in Seq(Message)
    BY WaitingForType
  <1>2. /\ DOMAIN old \ {a} = DOMAIN new \ {a}
        /\ \A b \in DOMAIN old \ {a} : new[b] = old[b]
    BY DEF Waiting
  <1>3. ListAt(old, a) = s /\ ListAt(new, a) = t
    BY DEF Waiting, WaitingFor, ListAt
  <1>4. IsFiniteSet(PlacesIn(old, m)) /\ Cardinality(PlacesIn(old, m)) \in Nat
    BY UsesType DEF FiniteUses
  <1>5. Copies(s, m) \in Nat /\ Copies(t, m) \in Nat
    BY <1>1, CopiesType
  <1> HIDE DEF old, new, s
  <1>6. /\ IsFiniteSet(PlacesIn(new, m))
        /\ Cardinality(PlacesIn(new, m))
             = Cardinality(PlacesIn(old, m)) - Copies(s, m) + Copies(t, m)
    <2>1. ListAt(old, a) \in Seq(Message) /\ ListAt(new, a) \in Seq(Message)
      BY <1>1, <1>3
    <2>2. /\ IsFiniteSet(PlacesIn(new, m))
          /\ Cardinality(PlacesIn(new, m)) = Cardinality(PlacesIn(old, m))
                                              - Copies(ListAt(old, a), m) + Copies(ListAt(new, a), m)
      BY <1>2, <1>4, <2>1, PlacesInChange
    <2> QED
      BY <1>3, <2>2
  <1>7. Cardinality(PlacesIn(new, m))
          = Cardinality(PlacesIn(old, m)) + (Copies(t, m) - Copies(s, m))
    BY <1>4, <1>5, <1>6
  <1>8. PlacesIn(Waiting, m)' = PlacesIn(new, m)
    BY DEF PlacesIn, new
  <1> QED
    BY <1>6, <1>7, <1>8 DEF WaitingBy, old, s
-----------------------------------------------------------------------------
\* The count agrees with the uses.

LEMMA CountedSame ==
  ASSUME TypeOK, Counted, [Next]_vars, \A m \in Message : Uses(m)' = Uses(m),
         UNCHANGED <<useCount, raced>>
  PROVE  Counted'
  BY OrphansType DEF Counted

LEMMA CountedRecounts ==
  ASSUME TypeOK, CountInv, [Next]_vars, NEW m \in Message, NEW by \in {1, -1}, Recounts(m, by),
         \A n \in Message : Uses(n)' = Uses(n) + (IF n = m THEN by ELSE 0)
  PROVE  Counted'
  <1> SUFFICES ASSUME NEW n \in Message \ raced'
               PROVE  /\ useCount'[n] >= Uses(n)'
                      /\ AddressOf[n] \notin orphans' => useCount'[n] = Uses(n)'
    BY DEF Counted
  <1>1. n \notin raced /\ (AddressOf[n] \notin orphans' => AddressOf[n] \notin orphans)
    BY OrphansType DEF Recounts
  <1>2. useCount[n] >= Uses(n) /\ (AddressOf[n] \notin orphans => useCount[n] = Uses(n))
    BY <1>1 DEF CountInv, Counted
  <1>3. useCount[n] \in Int /\ Uses(n) \in Nat
    BY UsesType DEF CountInv, TypeOK
  <1>4. useCount'[n] = useCount[n] + (IF n = m THEN by ELSE 0)
    BY <1>3 DEF Recounts, TypeOK
  <1>5. Uses(n)' = Uses(n) + (IF n = m THEN by ELSE 0)
    OBVIOUS
  <1>6. CASE n = m
    BY <1>1, <1>2, <1>3, <1>4, <1>5, <1>6
  <1>7. CASE n # m
    BY <1>1, <1>2, <1>3, <1>4, <1>5, <1>7
  <1> QED
    BY <1>6, <1>7

\* Steps that change neither a task nor the map of attempts.
LEMMA CountQuiet ==
  ASSUME TypeOK, CountInv, [Next]_vars, UNCHANGED <<sender, client, Waiting, useCount, raced>>
  PROVE  CountInv'
  <1>1. \A m \in Message :
          SendersBy(m, 0) /\ ClientsBy(m, 0) /\ SettledBy(m, 0) /\ WaitingBy(m, 0)
    BY SendersUnchanged, ClientsUnchanged, WaitingSame DEF CountInv
  <1>2. \A m \in Message : Uses(m)' = Uses(m)
    BY <1>1, UsesBy, UsesType DEF CountInv
  <1> QED
    BY <1>1, <1>2, FiniteBy, CountedSame DEF CountInv

LEMMA CountSendSipMessage ==
  ASSUME TypeOK, CountInv, [Next]_vars, NEW t \in Sender, NEW m \in Message, SendSipMessage(t, m)
  PROVE  CountInv'
  <1>1. /\ UNCHANGED <<client, connectMap>> /\ m \notin begun /\ Recounts(m, 1)
    BY DEF SendSipMessage, Recounts
  <1>2. \A n \in Message :
          /\ SendersBy(n, IF n = m THEN 1 ELSE 0)
          /\ ClientsBy(n, 0) /\ SettledBy(n, 0) /\ WaitingBy(n, 0)
    BY <1>1, SendersBegin, ClientsUnchanged, WaitingUnchanged DEF CountInv
  <1>3. \A n \in Message : Uses(n)' = Uses(n) + (IF n = m THEN 1 ELSE 0)
    BY <1>2, UsesBy, UsesType DEF CountInv
  <1> QED
    BY <1>1, <1>2, <1>3, FiniteBy, CountedRecounts DEF CountInv

LEMMA CountSendAgain ==
  ASSUME TypeOK, CountInv, [Next]_vars, NEW t \in Sender, NEW m \in Message, SendAgain(t, m)
  PROVE  CountInv'
  <1>1. /\ UNCHANGED <<client, connectMap, useCount, raced>> /\ m \in begun
    BY DEF SendAgain, TypeOK
  <1>2. \A n \in Message :
          SendersBy(n, 0) /\ ClientsBy(n, 0) /\ SettledBy(n, 0) /\ WaitingBy(n, 0)
    BY <1>1, SendersBegin, ClientsUnchanged, WaitingUnchanged DEF CountInv
  <1>3. \A n \in Message : Uses(n)' = Uses(n)
    BY <1>2, UsesBy, UsesType DEF CountInv
  <1> QED
    BY <1>1, <1>2, <1>3, FiniteBy, CountedSame DEF CountInv

LEMMA CountFindsSocket ==
  ASSUME TypeOK, CountInv, [Next]_vars, NEW t \in Sender,
         SocketFound(t) \/ SocketSend(t) \/ NoSocketFound(t)
  PROVE  CountInv'
  <1>1. /\ UNCHANGED <<client, connectMap, useCount, raced>> /\ sender[t] \in SenderTask
        /\ SenderGoesOn(t, "Write") \/ SenderGoesOn(t, "Connect") \/ SenderGoesOn(t, "End")
    BY SenderBusy DEF SocketFound, SocketSend, NoSocketFound, SenderSteps
  <1>2. \A n \in Message :
          SendersBy(n, 0) /\ ClientsBy(n, 0) /\ SettledBy(n, 0) /\ WaitingBy(n, 0)
    BY <1>1, SendersGoOn, ClientsUnchanged, WaitingUnchanged DEF CountInv, SenderSteps
  <1>3. \A n \in Message : Uses(n)' = Uses(n)
    BY <1>2, UsesBy, UsesType DEF CountInv
  <1> QED
    BY <1>1, <1>2, <1>3, FiniteBy, CountedSame DEF CountInv

\* Those that waited for an attempt that is taken for dead are counted no longer.
LEMMA CountConnect ==
  ASSUME TypeOK, CountInv, [Next]_vars, NEW t \in Sender, Connect(t)
  PROVE  CountInv'
  <1> DEFINE a == To(t)
  <1>1. sender[t] \in SenderTask /\ a \in Address /\ UNCHANGED <<client, raced>>
    BY SenderBusy DEF Connect, SenderSteps
  <1>2. \A m \in Message : ClientsBy(m, 0) /\ SettledBy(m, 0)
    BY <1>1, ClientsUnchanged DEF CountInv
  <1>3. \A m \in Message : SendersBy(m, 0)
    <2>1. SenderGoesOn(t, "Wait") \/ SenderGoesOn(t, "Start")
      BY DEF Connect
    <2> QED
      BY <1>1, <2>1, SendersGoOn DEF CountInv, SenderSteps
  <1>4. CASE UNCHANGED <<connectMap, useCount>>
    <2>1. \A m \in Message : WaitingBy(m, 0)
      BY <1>4, WaitingUnchanged DEF CountInv
    <2>2. \A m \in Message : Uses(m)' = Uses(m)
      BY <1>2, <1>3, <2>1, UsesBy, UsesType DEF CountInv
    <2> QED
      BY <1>1, <1>2, <1>3, <1>4, <2>1, <2>2, FiniteBy, CountedSame DEF CountInv
  <1>5. CASE /\ connectMap' = With(connectMap, a, [list |-> <<>>, old |-> FALSE])
             /\ useCount' = [m \in Message |-> useCount[m] - Copies(WaitingFor(a), m)]
    <2>1. /\ DOMAIN connectMap \ {a} = DOMAIN connectMap' \ {a} /\ a \in DOMAIN connectMap'
          /\ \A b \in DOMAIN connectMap \ {a} : connectMap'[b] = connectMap[b]
          /\ connectMap'[a].list = <<>>
      BY <1>5 DEF With
    <2>2. \A m \in Message : Copies(WaitingFor(a), m) \in Nat
      BY WaitingForType, CopiesType
    <2>3. \A m \in Message : WaitingBy(m, 0 - Copies(WaitingFor(a), m))
      <3>1. <<>> \in Seq(Message) /\ \A m \in Message : Copies(<<>>, m) = 0
        BY CopiesEmpty
      <3> HIDE DEF a
      <3>2. \A m \in Message : WaitingBy(m, Copies(<<>>, m) - Copies(WaitingFor(a), m))
        BY <1>1, <2>1, <3>1, WaitingChange DEF CountInv
      <3> QED
        BY <3>1, <3>2
    <2>4. \A m \in Message : Uses(m)' = Uses(m) - Copies(WaitingFor(a), m)
      <3>1. ASSUME NEW m \in Message
            PROVE  Uses(m)' = Uses(m) - Copies(WaitingFor(a), m)
        <4>1. 0 - Copies(WaitingFor(a), m) \in Int /\ Uses(m) \in Nat
          BY <2>2, UsesType DEF CountInv
        <4>2. Uses(m)' = Uses(m) + (0 + 0 + 0 + (0 - Copies(WaitingFor(a), m)))
          BY <1>2, <1>3, <2>3, <4>1, UsesBy DEF CountInv
        <4> QED
          BY <2>2, <4>1, <4>2
      <3> QED
        BY <3>1
    <2>5. FiniteUses'
      <3>1. \A m \in Message : 0 - Copies(WaitingFor(a), m) \in Int
        BY <2>2
      <3> QED
        BY <1>2, <1>3, <2>3, <3>1, FiniteBy
    <2>6. Counted'
      <3> SUFFICES ASSUME NEW m \in Message \ raced'
                   PROVE  /\ useCount'[m] >= Uses(m)'
                          /\ AddressOf[m] \notin orphans' => useCount'[m] = Uses(m)'
        BY DEF Counted
      <3>1. m \notin raced /\ (AddressOf[m] \notin orphans' => AddressOf[m] \notin orphans)
        BY <1>1, OrphansType
      <3>2. useCount[m] >= Uses(m) /\ (AddressOf[m] \notin orphans => useCount[m] = Uses(m))
        BY <3>1 DEF CountInv, Counted
      <3>3. useCount[m] \in Int /\ Uses(m) \in Nat /\ Copies(WaitingFor(a), m) \in Nat
        BY <2>2, UsesType DEF CountInv, TypeOK
      <3>4. useCount'[m] = useCount[m] - Copies(WaitingFor(a), m)
        BY <1>5
      <3>5. Uses(m)' = Uses(m) - Copies(WaitingFor(a), m)
        BY <2>4
      <3> QED
        BY <3>1, <3>2, <3>3, <3>4, <3>5
    <2> QED
      BY <2>5, <2>6 DEF CountInv
  <1> QED
    BY <1>4, <1>5 DEF Connect, WaitingFor
\* The thread of the attempt counts the message too; where there is none, the count stays too
\* high for good.
LEMMA CountStart ==
  ASSUME TypeOK, CountInv, [Next]_vars, NEW t \in Sender, Start(t)
  PROVE  CountInv'
  <1> DEFINE m == sender[t].message
  <1>1. /\ sender[t] \in SenderTask /\ m \in Message /\ To(t) = AddressOf[m]
        /\ UNCHANGED connectMap /\ SenderGoesOn(t, "End") /\ Recounts(m, 1)
    BY SenderBusy DEF Start, SenderSteps, Change, Recounts
  <1>2. \A n \in Message : SendersBy(n, 0) /\ WaitingBy(n, 0)
    BY <1>1, SendersGoOn, WaitingUnchanged DEF CountInv, SenderSteps
  <1> HIDE DEF m
  <1>3. ASSUME NEW c \in Client, client[c] = Nothing, client'[c] \in ClientTask,
               client'[c].message = m, client'[c].list = <<>>,
               \A d \in Client \ {c} : client'[d] = client[d]
        PROVE  CountInv'
    <2>1. \A n \in Message : ClientsBy(n, IF n = m THEN 1 ELSE 0) /\ SettledBy(n, 0)
      BY <1>3, ClientsStart DEF CountInv
    <2>2. \A n \in Message : Uses(n)' = Uses(n) + (IF n = m THEN 1 ELSE 0)
      BY <1>2, <2>1, UsesBy, UsesType DEF CountInv
    <2> QED
      BY <1>1, <1>2, <2>1, <2>2, FiniteBy, CountedRecounts DEF CountInv
  <1>4. CASE UNCHANGED client /\ orphans' = orphans \cup {To(t)}
    <2>1. \A n \in Message : ClientsBy(n, 0) /\ SettledBy(n, 0)
      BY <1>4, ClientsUnchanged DEF CountInv
    <2>2. \A n \in Message : Uses(n)' = Uses(n)
      BY <1>2, <2>1, UsesBy, UsesType DEF CountInv
    <2>3. Counted'
      <3> SUFFICES ASSUME NEW n \in Message \ raced'
                   PROVE  /\ useCount'[n] >= Uses(n)'
                          /\ AddressOf[n] \notin orphans' => useCount'[n] = Uses(n)'
        BY DEF Counted
      <3>1. n \notin raced /\ (AddressOf[n] \notin orphans' => AddressOf[n] \notin orphans /\ n # m)
        BY <1>1, <1>4 DEF Recounts
      <3>2. useCount[n] >= Uses(n) /\ (AddressOf[n] \notin orphans => useCount[n] = Uses(n))
        BY <3>1 DEF CountInv, Counted
      <3>3. useCount[n] \in Int /\ Uses(n) \in Nat /\ useCount \in [Message -> Int]
        BY UsesType DEF CountInv, TypeOK
      <3>4. useCount'[n] >= useCount[n] /\ (n # m => useCount'[n] = useCount[n])
            /\ useCount'[n] \in Int
        BY <1>1, <3>3 DEF Recounts
      <3>5. Uses(n)' = Uses(n)
        BY <2>2
      <3> QED
        BY <3>1, <3>2, <3>3, <3>4, <3>5
    <2> QED
      BY <1>2, <2>1, <2>3, FiniteBy DEF CountInv
  <1> QED
    BY <1>3, <1>4, StartEffect DEF m

LEMMA CountWait ==
  ASSUME TypeOK, CountInv, [Next]_vars, NEW t \in Sender, Wait(t)
  PROVE  CountInv'
  <1> DEFINE m == sender[t].message
             a == To(t)
  <1>1. /\ sender[t] \in SenderTask /\ m \in Message /\ a \in Address
        /\ UNCHANGED client /\ SenderGoesOn(t, "End")
    BY SenderBusy DEF Wait, SenderSteps
  <1>2. \A n \in Message : SendersBy(n, 0) /\ ClientsBy(n, 0) /\ SettledBy(n, 0)
    BY <1>1, SendersGoOn, ClientsUnchanged DEF CountInv, SenderSteps
  <1>3. CASE a \in DOMAIN connectMap
    <2>1. MapTakes(t) /\ Recounts(m, 1)
      BY <1>3 DEF Wait, MapTakes, Change, Recounts
    <2> DEFINE s == WaitingFor(a)
               l == Append(s, m)
    <2>2. /\ DOMAIN connectMap' = DOMAIN connectMap /\ connectMap'[a].list = l
          /\ \A b \in DOMAIN connectMap \ {a} : connectMap'[b] = connectMap[b]
      BY <1>3, <2>1, MapTakesEffect DEF WaitingFor
    <2>3. s \in Seq(Message) /\ l \in Seq(Message)
      BY <1>1, WaitingForType, RangeAppend
    <2>4. \A n \in Message : Copies(s, n) \in Nat
                             /\ Copies(l, n) = Copies(s, n) + (IF n = m THEN 1 ELSE 0)
      BY <1>1, <2>3, CopiesAppend, CopiesType
    <2> HIDE DEF m, a, l
    <2>5. \A n \in Message : WaitingBy(n, Copies(l, n) - Copies(s, n))
      BY <1>1, <1>3, <2>2, <2>3, WaitingChange DEF CountInv
    <2> HIDE DEF s
    <2>6. \A n \in Message : Copies(l, n) - Copies(s, n) = IF n = m THEN 1 ELSE 0
      BY <2>4
    <2>7. \A n \in Message : WaitingBy(n, IF n = m THEN 1 ELSE 0)
      BY <2>5, <2>6
    <2>8. \A n \in Message : Uses(n)' = Uses(n) + (IF n = m THEN 1 ELSE 0)
      BY <1>2, <2>7, UsesBy, UsesType DEF CountInv
    <2> QED
      BY <1>1, <1>2, <2>1, <2>7, <2>8, FiniteBy, CountedRecounts DEF CountInv
  <1>4. CASE a \notin DOMAIN connectMap
    <2>1. UNCHANGED <<connectMap, useCount, raced>>
      BY <1>4 DEF Wait
    <2>2. \A n \in Message : WaitingBy(n, 0)
      BY <2>1, WaitingUnchanged DEF CountInv
    <2>3. \A n \in Message : Uses(n)' = Uses(n)
      BY <1>2, <2>2, UsesBy, UsesType DEF CountInv
    <2> QED
      BY <1>2, <2>1, <2>2, <2>3, FiniteBy, CountedSame DEF CountInv
  <1> QED
    BY <1>3, <1>4

LEMMA CountEnd ==
  ASSUME TypeOK, CountInv, [Next]_vars, NEW t \in Sender, End(t)
  PROVE  CountInv'
  <1> DEFINE m == sender[t].message
  <1>1. m \in Message /\ UNCHANGED <<client, connectMap>> /\ sender[t].own \in BOOLEAN
    BY SenderBusy DEF End, SenderSteps
  <1>2. \A n \in Message : ClientsBy(n, 0) /\ SettledBy(n, 0) /\ WaitingBy(n, 0)
    BY <1>1, ClientsUnchanged, WaitingUnchanged DEF CountInv
  <1>3. CASE sender[t].own
    <2>1. Recounts(m, -1)
      BY <1>3 DEF End, Change, Recounts
    <2>2. \A n \in Message : SendersBy(n, IF n = m THEN -1 ELSE 0)
      BY <1>3, SendersEnd DEF CountInv
    <2>3. \A n \in Message : Uses(n)' = Uses(n) + (IF n = m THEN -1 ELSE 0)
      BY <1>2, <2>2, UsesBy, UsesType DEF CountInv
    <2> HIDE DEF m
    <2> QED
      BY <1>1, <1>2, <2>1, <2>2, <2>3, FiniteBy, CountedRecounts DEF CountInv
  <1>4. CASE ~ sender[t].own
    <2>1. UNCHANGED <<useCount, raced>>
      BY <1>4 DEF End
    <2>2. \A n \in Message : SendersBy(n, 0)
      BY <1>4, SendersEnd DEF CountInv
    <2>3. \A n \in Message : Uses(n)' = Uses(n)
      BY <1>2, <2>2, UsesBy, UsesType DEF CountInv
    <2> QED
      BY <1>2, <2>1, <2>2, <2>3, FiniteBy, CountedSame DEF CountInv
  <1> QED
    BY <1>3, <1>4

LEMMA CountClientGoesOn ==
  ASSUME TypeOK, ClientInv, CountInv, [Next]_vars, NEW c \in Client,
         TcpConnect(c) \/ SendFirst(c) \/ SendCommand(c)
  PROVE  CountInv'
  <1>1. UNCHANGED <<sender, connectMap, useCount, raced>>
    BY DEF TcpConnect, SendFirst, SendCommand
  <1>2. \E step, socket, ok :
          client[c] \in ClientTask /\ ClientChange(c, step, socket, client[c].list, ok)
    BY TcpConnectEffect, SendFirstEffect, SendCommandEffect
  <1>3. \A n \in Message : ClientsBy(n, 0) /\ SettledBy(n, 0)
    <2>1. PICK step, socket, ok :
            client[c] \in ClientTask /\ ClientChange(c, step, socket, client[c].list, ok)
      BY <1>2
    <2>2. client[c].list \in Seq(Message)
      BY <2>1, ClientTaskTypes
    <2>3. \A n \in Message : Copies(client[c].list, n) - Copies(client[c].list, n) = 0
      BY <2>2, CopiesType
    <2> QED
      BY <2>1, <2>2, <2>3, ClientsChange DEF CountInv
  <1>4. \A n \in Message : SendersBy(n, 0) /\ WaitingBy(n, 0)
    BY <1>1, SendersUnchanged, WaitingUnchanged DEF CountInv
  <1>5. \A n \in Message : Uses(n)' = Uses(n)
    BY <1>3, <1>4, UsesBy, UsesType DEF CountInv
  <1> QED
    BY <1>1, <1>3, <1>4, <1>5, FiniteBy, CountedSame DEF CountInv

\* Those that waited change hands.
LEMMA CountDelete ==
  ASSUME TypeOK, ClientInv, CountInv, [Next]_vars, NEW c \in Client, Delete(c)
  PROVE  CountInv'
  <1> DEFINE a == Of(c)
             s == WaitingFor(a)
  <1>1. /\ client[c] \in ClientTask /\ a \in Address /\ client[c].list = <<>>
        /\ ClientChange(c, "Settle", client[c].socket, s, client[c].ok)
        /\ connectMap' = Without(connectMap, a) /\ UNCHANGED <<sender, useCount, raced>>
    <2>1. client[c] \in ClientTask /\ client[c] # Nothing /\ a \in Address
      BY ClientBusy DEF Delete, ClientSteps
    <2> QED
      BY <2>1, DeleteEffect DEF Delete, ClientInv
  <1>2. /\ DOMAIN connectMap \ {a} = DOMAIN connectMap' \ {a} /\ a \notin DOMAIN connectMap'
        /\ \A b \in DOMAIN connectMap \ {a} : connectMap'[b] = connectMap[b]
    BY <1>1 DEF Without, Restrict
  <1>3. s \in Seq(Message) /\ \A n \in Message : Copies(s, n) \in Nat /\ Copies(<<>>, n) = 0
    BY WaitingForType, CopiesType, CopiesEmpty
  <1> HIDE DEF a
  <1>4. \A n \in Message : WaitingBy(n, Copies(<<>>, n) - Copies(s, n))
    <2>1. <<>> \in Seq(Message)
      OBVIOUS
    <2> QED
      BY <1>1, <1>2, <2>1, WaitingChange DEF CountInv
  <1> HIDE DEF s
  <1>5. \A n \in Message : ClientsBy(n, 0) /\ SettledBy(n, Copies(s, n) - Copies(<<>>, n))
    BY <1>1, <1>3, ClientsChange DEF CountInv
  <1>6. \A n \in Message : SendersBy(n, 0)
    BY <1>1, SendersUnchanged DEF CountInv
  <1>7. \A n \in Message : /\ Copies(s, n) - Copies(<<>>, n) \in Int
                           /\ Copies(<<>>, n) - Copies(s, n) \in Int
                           /\ (Copies(s, n) - Copies(<<>>, n)) + (Copies(<<>>, n) - Copies(s, n)) = 0
    BY <1>3
  <1>8. \A n \in Message : Uses(n)' = Uses(n)
    <2>1. ASSUME NEW n \in Message
          PROVE  Uses(n)' = Uses(n)
      <3> DEFINE k == Copies(s, n) - Copies(<<>>, n)
                 l == Copies(<<>>, n) - Copies(s, n)
      <3>1. k \in Int /\ l \in Int /\ k + l = 0 /\ SettledBy(n, k) /\ WaitingBy(n, l)
        BY <1>4, <1>5, <1>7
      <3> HIDE DEF k, l
      <3>2. Uses(n)' = Uses(n) + (0 + 0 + k + l)
        BY <1>5, <1>6, <3>1, UsesBy DEF CountInv
      <3> QED
        BY <3>1, <3>2, UsesType DEF CountInv
    <2> QED
      BY <2>1
  <1> QED
    BY <1>1, <1>4, <1>5, <1>6, <1>7, <1>8, FiniteBy, CountedSame DEF CountInv

LEMMA CountSettle ==
  ASSUME TypeOK, CountInv, [Next]_vars, NEW c \in Client, Settle(c)
  PROVE  CountInv'
  <1> DEFINE s == client[c].list
             m == Head(s)
  <1>1. /\ client[c] \in ClientTask /\ s \in Seq(Message) /\ s # <<>>
        /\ ClientChange(c, "Settle", client[c].socket, Tail(s), client[c].ok)
        /\ UNCHANGED <<sender, connectMap>> /\ Recounts(m, -1)
    BY SettleEffect DEF Settle, Change, Recounts
  <1>2. m \in Message /\ Tail(s) \in Seq(Message)
    BY <1>1, TailFields
  <1>3. \A n \in Message : Copies(Tail(s), n) - Copies(s, n) = IF n = m THEN -1 ELSE 0
    <2>1. \A n \in Message : /\ Copies(s, n) \in Nat
                             /\ Copies(Tail(s), n) = Copies(s, n) - (IF m = n THEN 1 ELSE 0)
      BY <1>1, CopiesTail, CopiesType
    <2> QED
      BY <2>1
  <1>4. \A n \in Message : ClientsBy(n, 0) /\ SettledBy(n, Copies(Tail(s), n) - Copies(s, n))
    BY <1>1, <1>2, ClientsChange DEF CountInv
  <1> HIDE DEF s, m
  <1>5. \A n \in Message : SettledBy(n, IF n = m THEN -1 ELSE 0)
    BY <1>3, <1>4
  <1>6. \A n \in Message : SendersBy(n, 0) /\ WaitingBy(n, 0)
    BY <1>1, SendersUnchanged, WaitingUnchanged DEF CountInv
  <1>7. \A n \in Message : Uses(n)' = Uses(n) + (IF n = m THEN -1 ELSE 0)
    BY <1>4, <1>5, <1>6, UsesBy, UsesType DEF CountInv
  <1> QED
    BY <1>1, <1>2, <1>4, <1>5, <1>6, <1>7, FiniteBy, CountedRecounts DEF CountInv

LEMMA CountClientEnd ==
  ASSUME TypeOK, ClientInv, CountInv, [Next]_vars, NEW c \in Client, ClientEnd(c)
  PROVE  CountInv'
  <1> DEFINE m == client[c].message
  <1>1. /\ client[c] \in ClientTask /\ client[c].list = <<>> /\ client'[c] = Nothing
        /\ \A d \in Client \ {c} : client'[d] = client[d]
        /\ UNCHANGED <<sender, connectMap>> /\ m \in Message /\ Recounts(m, -1)
    BY ClientEndEffect, ClientTaskTypes DEF ClientEnd, Change, Recounts, ClientInv
  <1>2. \A n \in Message : ClientsBy(n, IF n = m THEN -1 ELSE 0) /\ SettledBy(n, 0)
    BY <1>1, ClientsEnd DEF CountInv
  <1> HIDE DEF m
  <1>3. \A n \in Message : SendersBy(n, 0) /\ WaitingBy(n, 0)
    BY <1>1, SendersUnchanged, WaitingUnchanged DEF CountInv
  <1>4. \A n \in Message : Uses(n)' = Uses(n) + (IF n = m THEN -1 ELSE 0)
    BY <1>2, <1>3, UsesBy, UsesType DEF CountInv
  <1> QED
    BY <1>1, <1>2, <1>3, <1>4, FiniteBy, CountedRecounts DEF CountInv

LEMMA CountTooLong ==
  ASSUME TypeOK, CountInv, [Next]_vars, NEW a \in Address, TooLong(a)
  PROVE  CountInv'
  <1>1. Waiting' = Waiting
    <2>1. /\ DOMAIN connectMap' = DOMAIN connectMap
          /\ \A b \in DOMAIN connectMap : connectMap'[b].list = connectMap[b].list
      BY TooLongEffect
    <2> QED
      BY <2>1 DEF Waiting
  <1> QED
    BY <1>1, CountQuiet DEF TooLong

LEMMA CountInvStep ==
  ASSUME TypeOK, ClientInv, CountInv, [Next]_vars
  PROVE  CountInv'
  <1>1. ASSUME NEW t \in Sender, SenderStep(t)
        PROVE  CountInv'
    BY <1>1, CountFindsSocket, CountConnect, CountStart, CountWait, CountEnd DEF SenderStep
  <1>2. ASSUME NEW c \in Client, ClientStep(c)
        PROVE  CountInv'
    BY <1>2, CountClientGoesOn, CountDelete, CountSettle, CountClientEnd DEF ClientStep
  <1>3. ASSUME UNCHANGED <<sender, client, connectMap, useCount, raced>>
        PROVE  CountInv'
    <2>1. Waiting' = Waiting
      BY <1>3 DEF Waiting
    <2> QED
      BY <1>3, <2>1, CountQuiet
  <1>4. \/ \E t \in Sender : SenderStep(t)
        \/ \E t \in Sender, m \in Message : SendSipMessage(t, m) \/ SendAgain(t, m)
        \/ \E c \in Client : ClientStep(c)
        \/ \E a \in Address : TooLong(a)
        \/ UNCHANGED <<sender, client, connectMap, useCount, raced>>
    BY DEF Next, vars, Accept, CloseSession, TcpThreadStep, RecvCommand, CloseSocket,
           DecreaseSocketCount, TransactionEnds, DeleteTimeout
  <1> QED
    BY <1>1, <1>2, <1>3, <1>4, CountSendSipMessage, CountSendAgain, CountTooLong
-----------------------------------------------------------------------------
\* No message is deleted while it is used.

\* What is sent again belongs to a transaction, and what a transaction gave up does not.
LentKept ==
  \A t \in Sender : sender[t] # Nothing /\ ~ sender[t].own => sender[t].message \in transactions
GivenUp == transactions \cap (freed \cup Range(deleteQueue)) = {}

LifeInv == LentKept /\ GivenUp /\ NoUseAfterFree

\* Used, spelled out for a message.
UsedBySome(m) ==
  \/ \E t \in Sender : sender[t] # Nothing /\ sender[t].message = m
  \/ \E c \in Client : client[c] # Nothing /\ client[c].message = m
  \/ \E c \in Client : client[c] # Nothing /\ m \in Range(client[c].list)
  \/ \E a \in DOMAIN connectMap : m \in Range(connectMap[a].list)

LEMMA UsedIs ==
  ASSUME NEW m
  PROVE  (m \in Used <=> UsedBySome(m)) /\ (m \in Used' <=> UsedBySome(m)')
  <1> DEFINE A == {sender[t].message : t \in {t \in Sender : sender[t] # Nothing}}
             B == {client[c].message : c \in {c \in Client : client[c] # Nothing}}
             C == UNION {Range(client[c].list) : c \in {c \in Client : client[c] # Nothing}}
             D == UNION {Range(connectMap[a].list) : a \in DOMAIN connectMap}
  <1>1. Used = ((A \cup B) \cup C) \cup D
    BY DEF Used
  <1>2. Used' = ((A' \cup B') \cup C') \cup D'
    BY DEF Used
  <1>3. /\ m \in A <=> \E t \in Sender : sender[t] # Nothing /\ sender[t].message = m
        /\ m \in A' <=> \E t \in Sender : sender'[t] # Nothing /\ sender'[t].message = m
    OBVIOUS
  <1>4. /\ m \in B <=> \E c \in Client : client[c] # Nothing /\ client[c].message = m
        /\ m \in B' <=> \E c \in Client : client'[c] # Nothing /\ client'[c].message = m
    OBVIOUS
  <1>5. /\ m \in C <=> \E c \in Client : client[c] # Nothing /\ m \in Range(client[c].list)
        /\ m \in C' <=> \E c \in Client : client'[c] # Nothing /\ m \in Range(client'[c].list)
    OBVIOUS
  <1>6. /\ m \in D <=> \E a \in DOMAIN connectMap : m \in Range(connectMap[a].list)
        /\ m \in D' <=> \E a \in DOMAIN connectMap' : m \in Range(connectMap'[a].list)
    OBVIOUS
  <1> HIDE DEF A, B, C, D
  <1> QED
    BY <1>1, <1>2, <1>3, <1>4, <1>5, <1>6 DEF UsedBySome

\* A list that a message is in has a place for it.
LEMMA PlaceIsCounted ==
  ASSUME NEW lists, NEW x \in DOMAIN lists, NEW m, m \in Range(lists[x]),
         IsFiniteSet(PlacesIn(lists, m))
  PROVE  Cardinality(PlacesIn(lists, m)) # 0
  <1>1. PICK i \in DOMAIN lists[x] : lists[x][i] = m
    BY DEF Range
  <1>2. <<x, i>> \in PlacesIn(lists, m)
    BY <1>1 DEF PlacesIn, Places
  <1> QED
    BY <1>2, FS_EmptySet

\* Whoever uses a message counts, unless it was lent by the list of transactions.
LEMMA UsedIsCounted ==
  ASSUME FiniteUses, NEW m \in Message, m \in Used,
         \A t \in Sender : sender[t] # Nothing /\ sender[t].message = m => sender[t].own
  PROVE  Uses(m) >= 1
  <1>1. /\ Cardinality(SendersOf(m)) \in Nat /\ Cardinality(ClientsOf(m)) \in Nat
        /\ Cardinality(PlacesIn(Settled, m)) \in Nat
        /\ Cardinality(PlacesIn(Waiting, m)) \in Nat
        /\ IsFiniteSet(SendersOf(m)) /\ IsFiniteSet(ClientsOf(m))
        /\ IsFiniteSet(PlacesIn(Settled, m)) /\ IsFiniteSet(PlacesIn(Waiting, m))
    BY UsesType DEF FiniteUses
  <1>2. ASSUME NEW t \in Sender, sender[t] # Nothing, sender[t].message = m
        PROVE  Cardinality(SendersOf(m)) # 0
    <2>1. t \in SendersOf(m)
      BY <1>2 DEF SendersOf
    <2> QED
      BY <1>1, <2>1, FS_EmptySet
  <1>3. ASSUME NEW c \in Client, client[c] # Nothing, client[c].message = m
        PROVE  Cardinality(ClientsOf(m)) # 0
    <2>1. c \in ClientsOf(m)
      BY <1>3 DEF ClientsOf
    <2> QED
      BY <1>1, <2>1, FS_EmptySet
  <1>4. ASSUME NEW c \in Client, client[c] # Nothing, m \in Range(client[c].list)
        PROVE  Cardinality(PlacesIn(Settled, m)) # 0
    <2>1. c \in DOMAIN Settled /\ Settled[c] = client[c].list
      BY <1>4 DEF Settled
    <2> QED
      BY <1>1, <1>4, <2>1, PlaceIsCounted
  <1>5. ASSUME NEW a \in DOMAIN connectMap, m \in Range(connectMap[a].list)
        PROVE  Cardinality(PlacesIn(Waiting, m)) # 0
    <2>1. a \in DOMAIN Waiting /\ Waiting[a] = connectMap[a].list
      BY DEF Waiting
    <2> QED
      BY <1>1, <1>5, <2>1, PlaceIsCounted
  <1>6. \/ Cardinality(SendersOf(m)) # 0 \/ Cardinality(ClientsOf(m)) # 0
        \/ Cardinality(PlacesIn(Settled, m)) # 0 \/ Cardinality(PlacesIn(Waiting, m)) # 0
    BY <1>2, <1>3, <1>4, <1>5, UsedIs DEF UsedBySome
  <1> QED
    BY <1>1, <1>6 DEF Uses

\* A step brings no message into use, except when a thread begins to send it.
LEMMA UsedStep ==
  ASSUME TypeOK, [Next]_vars, NEW m \in Used', m \notin Used
  PROVE  \E t \in Sender : SendSipMessage(t, m) \/ SendAgain(t, m)
  <1> SUFFICES ASSUME ~ \E t \in Sender : SendSipMessage(t, m) \/ SendAgain(t, m)
               PROVE  m \in Used
    OBVIOUS
  <1>1. ASSUME NEW t \in Sender, sender'[t] # Nothing, sender'[t].message = m
        PROVE  m \in Used
    <2>1. CASE sender'[t] = sender[t]
      BY <1>1, <2>1, UsedIs DEF UsedBySome
    <2>2. CASE SenderStep(t)
      <3>1. sender[t] \in SenderTask /\ sender[t] # Nothing
        BY <2>2, SenderStepEffect, SenderTaskTypes
      <3>2. \E step \in SenderSteps : SenderGoesOn(t, step)
        BY <1>1, <2>2, SenderStepEffect DEF TypeOK
      <3>3. sender[t].message = m
        BY <1>1, <3>1, <3>2, SenderWent
      <3> QED
        BY <3>1, <3>3, UsedIs DEF UsedBySome
    <2>3. ASSUME NEW x \in Message, SendSipMessage(t, x) \/ SendAgain(t, x)
          PROVE  FALSE
      BY <1>1, <2>3, SenderBegins
    <2> QED
      BY <2>1, <2>2, <2>3, SenderKept
  <1>2. ASSUME NEW t \in Sender, Start(t), sender[t].message = m
        PROVE  m \in Used
    BY <1>2, SenderBusy, UsedIs DEF Start, SenderSteps, UsedBySome
  <1>3. ASSUME NEW c \in Client, client'[c] # Nothing, client'[c].message = m
        PROVE  m \in Used
    <2>1. CASE client'[c] = client[c]
      BY <1>3, <2>1, UsedIs DEF UsedBySome
    <2>2. CASE ClientStep(c)
      <3>1. client[c].message = m
        BY <1>3, <2>2, TcpConnectEffect, SendFirstEffect, DeleteEffect, SettleEffect,
           SendCommandEffect, ClientEndEffect
        DEF ClientStep, ClientChange
      <3> QED
        BY <2>2, <3>1, ClientStepOthers, UsedIs DEF UsedBySome
    <2> QED
      BY <1>2, <1>3, <2>1, <2>2, ClientKeeps
  <1>4. ASSUME NEW c \in Client, client'[c] # Nothing, m \in Range(client'[c].list)
        PROVE  m \in Used
    <2>1. Range(<<>>) = {}
      BY DEF Range
    <2>2. ASSUME client[c] \in ClientTask, m \in Range(client[c].list)
          PROVE  m \in Used
      BY <2>2, ClientTaskTypes, UsedIs DEF UsedBySome
    <2>3. CASE client'[c] = client[c]
      BY <1>4, <2>3, UsedIs DEF UsedBySome
    <2>4. CASE TcpConnect(c) \/ SendFirst(c) \/ SendCommand(c)
      BY <1>4, <2>1, <2>2, <2>4, TcpConnectEffect, SendFirstEffect, SendCommandEffect
      DEF ClientChange
    <2>5. CASE Delete(c)
      <3>1. m \in Range(WaitingFor(Of(c)))
        BY <1>4, <2>5, DeleteEffect DEF ClientChange
      <3>2. Of(c) \in DOMAIN connectMap /\ m \in Range(connectMap[Of(c)].list)
        BY <2>1, <3>1 DEF WaitingFor
      <3> QED
        BY <3>2, UsedIs DEF UsedBySome
    <2>6. CASE Settle(c)
      <3>1. /\ client[c] \in ClientTask /\ client[c].list \in Seq(Message)
            /\ client[c].list # <<>> /\ client'[c].list = Tail(client[c].list)
        BY <2>6, SettleEffect DEF ClientChange
      <3>2. m \in Range(client[c].list)
        BY <1>4, <3>1, RangeTail
      <3> QED
        BY <2>2, <3>1, <3>2
    <2>7. CASE ClientEnd(c)
      BY <1>4, <2>7, ClientEndEffect
    <2>8. CASE client'[c].list = <<>>
      BY <1>4, <2>1, <2>8
    <2> QED
      BY <2>3, <2>4, <2>5, <2>6, <2>7, <2>8, ClientKeeps DEF ClientStep
  <1>5. ASSUME NEW a \in DOMAIN connectMap', m \in Range(connectMap'[a].list)
        PROVE  m \in Used
    <2>1. CASE a \in DOMAIN connectMap /\ connectMap'[a].list = connectMap[a].list
      BY <1>5, <2>1, UsedIs DEF UsedBySome
    <2>2. ASSUME NEW t \in Sender, MapBegins(t)
          PROVE  m \in Used
      <3>1. connectMap'[a] = [list |-> <<>>, old |-> FALSE]
            \/ (a \in DOMAIN connectMap /\ connectMap'[a] = connectMap[a])
        BY <2>2 DEF MapBegins, With
      <3>2. connectMap'[a].list # <<>>
        BY <1>5 DEF Range
      <3> QED
        BY <2>1, <3>1, <3>2
    <2>3. ASSUME NEW t \in Sender, MapTakes(t)
          PROVE  m \in Used
      <3>1. CASE a # To(t)
        BY <2>1, <2>3, <3>1, MapTakesEffect
      <3>2. CASE a = To(t)
        <4>1. /\ a \in DOMAIN connectMap /\ sender[t].message \in Message
              /\ connectMap'[a].list = Append(connectMap[a].list, sender[t].message)
          BY <2>3, <3>2, MapTakesEffect
        <4>2. connectMap[a].list \in Seq(Message)
          BY <4>1, WaitingForType DEF WaitingFor
        <4>3. m \in Range(connectMap[a].list) \/ m = sender[t].message
          BY <1>5, <4>1, <4>2, RangeAppend
        <4>4. sender[t] # Nothing
          BY <2>3, SenderBusy DEF MapTakes, Wait, SenderSteps
        <4> QED
          BY <4>1, <4>3, <4>4, UsedIs DEF UsedBySome
      <3> QED
        BY <3>1, <3>2
    <2>4. ASSUME NEW c \in Client, connectMap' = Without(connectMap, Of(c))
          PROVE  m \in Used
      <3>1. a \in DOMAIN connectMap /\ connectMap'[a] = connectMap[a]
        BY <2>4 DEF Without, Restrict
      <3> QED
        BY <2>1, <3>1
    <2>5. ASSUME NEW b \in Address, TooLong(b)
          PROVE  m \in Used
      BY <2>1, <2>5, TooLongEffect
    <2>6. CASE UNCHANGED connectMap
      BY <1>5, <2>1, <2>6
    <2> QED
      BY <2>2, <2>3, <2>4, <2>5, <2>6, ConnectMapEffect
  <1>6. \/ \E t \in Sender : sender'[t] # Nothing /\ sender'[t].message = m
        \/ \E c \in Client : client'[c] # Nothing /\ client'[c].message = m
        \/ \E c \in Client : client'[c] # Nothing /\ m \in Range(client'[c].list)
        \/ \E a \in DOMAIN connectMap' : m \in Range(connectMap'[a].list)
    BY UsedIs DEF UsedBySome
  <1> QED
    BY <1>1, <1>3, <1>4, <1>5, <1>6
\* What was lost stays lost.
LEMMA RacedKept ==
  ASSUME TypeOK, [Next]_vars
  PROVE  raced \subseteq raced'
  BY UseCountEffect DEF Recounts

LEMMA LentKeptStep ==
  ASSUME TypeOK, LifeInv, [Next]_vars
  PROVE  LentKept'
  <1> SUFFICES ASSUME NEW t \in Sender, sender'[t] # Nothing, ~ sender'[t].own
               PROVE  sender'[t].message \in transactions'
    BY DEF LentKept
  <1>1. CASE sender'[t] = sender[t]
    <2>1. sender[t].message \in transactions
      BY <1>1 DEF LifeInv, LentKept
    <2>2. ASSUME NEW m \in Message, TransactionEnds(m)
          PROVE  sender[t].message \in transactions'
      BY <1>1, <2>1, <2>2 DEF TransactionEnds
    <2>3. CASE UNCHANGED life
      BY <1>1, <2>1, <2>3 DEF life
    <2>4. CASE DeleteTimeout
      BY <1>1, <2>1, <2>4 DEF DeleteTimeout
    <2>5. ASSUME NEW u \in Sender, NEW m \in Message, SendSipMessage(u, m)
          PROVE  sender[t].message \in transactions'
      BY <1>1, <2>1, <2>5 DEF SendSipMessage
    <2> QED
      BY <1>1, <2>2, <2>3, <2>4, <2>5, LifeEffect
  <1>2. CASE SenderStep(t)
    <2>1. sender[t] \in SenderTask /\ sender[t] # Nothing
      BY <1>2, SenderStepEffect, SenderTaskTypes
    <2>2. \E step \in SenderSteps : SenderGoesOn(t, step)
      BY <1>2, SenderStepEffect DEF TypeOK
    <2>3. sender[t].message = sender'[t].message /\ sender[t].own = sender'[t].own
      BY <2>1, <2>2, SenderWent
    <2>4. sender[t].message \in transactions
      BY <2>1, <2>3 DEF LifeInv, LentKept
    <2>5. UNCHANGED transactions
      BY <1>2 DEF SenderStep, SocketFound, SocketSend, NoSocketFound, Connect, Start, Wait, End,
          life
    <2> QED
      BY <2>3, <2>4, <2>5
  <1>3. ASSUME NEW m \in Message, SendSipMessage(t, m) \/ SendAgain(t, m)
        PROVE  sender'[t].message \in transactions'
    BY <1>3, SenderBegins DEF SendSipMessage, SendAgain, life
  <1> QED
    BY <1>1, <1>2, <1>3, SenderKept

LEMMA GivenUpStep ==
  ASSUME TypeOK, LifeInv, [Next]_vars
  PROVE  GivenUp'
  <1>1. /\ deleteQueue \in Seq(begun) /\ transactions \subseteq begun /\ freed \subseteq begun
        /\ Range(deleteQueue) \subseteq begun
        /\ transactions \cap (freed \cup Range(deleteQueue)) = {}
    BY DEF TypeOK, LifeInv, GivenUp, Range
  <1>2. ASSUME NEW t \in Sender, NEW m \in Message, SendSipMessage(t, m)
        PROVE  GivenUp'
    <2>1. /\ m \notin begun /\ transactions' = transactions \cup {m}
          /\ freed' = freed /\ Range(deleteQueue)' = Range(deleteQueue)
      BY <1>2 DEF SendSipMessage
    <2> QED
      BY <1>1, <2>1 DEF GivenUp
  <1>3. ASSUME NEW m \in Message, TransactionEnds(m)
        PROVE  GivenUp'
    <2>1. /\ m \in begun /\ transactions' = transactions \ {m}
          /\ \/ freed' = freed \cup {m} /\ deleteQueue' = deleteQueue
             \/ freed' = freed /\ deleteQueue' = Append(deleteQueue, m)
      BY <1>1, <1>3 DEF TransactionEnds
    <2>2. deleteQueue' = Append(deleteQueue, m) =>
            \A x \in Range(deleteQueue') : x \in Range(deleteQueue) \/ x = m
      BY <1>1, <2>1, RangeAppend
    <2>3. freed' \cup Range(deleteQueue') \subseteq freed \cup Range(deleteQueue) \cup {m}
      BY <2>1, <2>2
    <2> QED
      BY <1>1, <2>1, <2>3 DEF GivenUp
  <1>4. CASE DeleteTimeout
    <2>1. /\ deleteQueue # <<>> /\ deleteQueue' = Tail(deleteQueue)
          /\ freed' = freed \cup {Head(deleteQueue)} /\ transactions' = transactions
      BY <1>4 DEF DeleteTimeout
    <2>2. Head(deleteQueue) \in Range(deleteQueue)
      BY <1>1, <2>1 DEF Range
    <2>3. Range(deleteQueue') \subseteq Range(deleteQueue)
      BY <1>1, <2>1, RangeTail
    <2> QED
      BY <1>1, <2>1, <2>2, <2>3 DEF GivenUp
  <1>5. CASE UNCHANGED life
    <2>1. /\ transactions' = transactions /\ freed' = freed
          /\ Range(deleteQueue)' = Range(deleteQueue)
      BY <1>5 DEF life
    <2> QED
      BY <1>1, <2>1 DEF GivenUp
  <1> QED
    BY <1>2, <1>3, <1>4, <1>5, LifeEffect

\* What nobody counts, and no list of transactions lends, is not used.
LEMMA NobodyUses ==
  ASSUME TypeOK, CountInv, NEW m \in Message \ raced, useCount[m] <= 0,
         \A t \in Sender : sender[t] # Nothing /\ sender[t].message = m => sender[t].own
  PROVE  m \notin Used
  <1> SUFFICES ASSUME m \in Used PROVE FALSE
    OBVIOUS
  <1>1. Uses(m) >= 1
    BY UsedIsCounted DEF CountInv
  <1>2. Uses(m) \in Nat /\ useCount[m] \in Int /\ useCount[m] >= Uses(m)
    BY UsesType DEF CountInv, Counted, TypeOK
  <1> QED
    BY <1>1, <1>2

LEMMA NoUseAfterFreeStep ==
  ASSUME TypeOK, CountInv, LifeInv, [Next]_vars
  PROVE  NoUseAfterFree'
  <1> SUFFICES ASSUME NEW m \in Used', m \in freed', m \notin raced'
               PROVE  FALSE
    BY DEF NoUseAfterFree
  <1>1. /\ freed \subseteq begun /\ begun \subseteq Message /\ transactions \cap freed = {}
        /\ deleteQueue \in Seq(begun) /\ transactions \cap Range(deleteQueue) = {}
        /\ Used \cap freed \subseteq raced
    BY DEF TypeOK, LifeInv, GivenUp, NoUseAfterFree
  <1>2. m \notin raced
    BY RacedKept
  <1>3. CASE m \in freed
    <2>1. m \notin Used
      BY <1>1, <1>2, <1>3
    <2>2. PICK t \in Sender : SendSipMessage(t, m) \/ SendAgain(t, m)
      BY <2>1, UsedStep
    <2> QED
      BY <1>1, <1>3, <2>2 DEF SendSipMessage, SendAgain
  <1>4. CASE m \notin freed
    <2>1. CASE \E t \in Sender, x \in Message : SendSipMessage(t, x)
      BY <1>4, <2>1 DEF SendSipMessage
    <2>2. ASSUME NEW x \in Message, TransactionEnds(x)
          PROVE  FALSE
      <3>1. m = x /\ useCount[m] = 0
        BY <1>4, <2>2 DEF TransactionEnds
      <3>2. /\ \A t \in Sender : sender[t] # Nothing /\ sender[t].message = m => sender[t].own
            /\ UNCHANGED <<sender, client, connectMap>>
        BY <2>2, <3>1 DEF TransactionEnds
      <3>3. m \in Used
        BY <3>2, UsedIs DEF UsedBySome
      <3> QED
        BY <1>2, <3>1, <3>2, <3>3, NobodyUses
    <2>3. CASE DeleteTimeout
      <3>1. /\ deleteQueue # <<>> /\ m = Head(deleteQueue) /\ useCount[m] <= 0
            /\ UNCHANGED <<sender, client, connectMap>>
        BY <1>4, <2>3 DEF DeleteTimeout
      <3>2. m \in Range(deleteQueue) /\ m \in Message
        BY <1>1, <3>1 DEF Range
      <3>3. \A t \in Sender : sender[t] # Nothing /\ sender[t].message = m => sender[t].own
        BY <1>1, <3>2 DEF LifeInv, LentKept
      <3>4. m \in Used
        BY <3>1, UsedIs DEF UsedBySome
      <3> QED
        BY <1>2, <3>1, <3>2, <3>3, <3>4, NobodyUses
    <2>4. CASE UNCHANGED life
      BY <1>4, <2>4 DEF life
    <2> QED
      BY <2>1, <2>2, <2>3, <2>4, LifeEffect
  <1> QED
    BY <1>3, <1>4

\* Nobody uses or counts a message yet.
LEMMA LifeInit ==
  ASSUME Init
  PROVE  CountInv /\ LifeInv
  <1>1. /\ \A t \in Sender : sender[t] = Nothing
        /\ \A c \in Client : client[c] = Nothing
        /\ DOMAIN connectMap = {} /\ freed = {} /\ transactions = {} /\ raced = {}
        /\ \A m \in Message : useCount[m] = 0
    BY DEF Init
  <1>2. ASSUME NEW m \in Message
        PROVE  SendersOf(m) = {} /\ ClientsOf(m) = {} /\ PlacesIn(Settled, m) = {}
               /\ PlacesIn(Waiting, m) = {}
    <2>1. SendersOf(m) = {} /\ ClientsOf(m) = {}
      BY <1>1 DEF SendersOf, ClientsOf
    <2>2. /\ DOMAIN Settled = Client /\ \A c \in Client : Settled[c] = <<>>
          /\ DOMAIN Waiting = {}
      BY <1>1 DEF Settled, Waiting
    <2>3. \A c \in Client : Places(Settled[c], m) = {}
      BY <2>2 DEF Places
    <2> QED
      BY <2>1, <2>2, <2>3 DEF PlacesIn
  <1>3. IsFiniteSet({}) /\ Cardinality({}) = 0
    BY FS_EmptySet
  <1>4. CountInv
    <2>1. \A m \in Message : Uses(m) = 0
      BY <1>2, <1>3 DEF Uses
    <2>2. FiniteUses
      BY <1>2, <1>3 DEF FiniteUses
    <2>3. Counted
      BY <1>1, <2>1 DEF Counted
    <2> QED
      BY <2>2, <2>3 DEF CountInv
  <1>5. LifeInv
    BY <1>1 DEF LifeInv, LentKept, GivenUp, NoUseAfterFree
  <1> QED
    BY <1>4, <1>5

\* NoUseAfterFree and NoCountLeaked: as long as no change of its count was lost, a message is not
\* deleted while a thread works on it or it waits for a connection, and nothing is counted that
\* nobody would give back; for any threads, messages, peers and sockets.  This is what m_iUseCount
\* and CSipDeleteQueue are for.
THEOREM MessagesOutliveUses == Spec => []MessagesLiveWhileUsed
  <1>1. Init => CountInv /\ LifeInv
    BY LifeInit
  <1>2. IInv /\ CountInv /\ LifeInv /\ [Next]_vars => (CountInv /\ LifeInv)'
    BY CountInvStep, LentKeptStep, GivenUpStep, NoUseAfterFreeStep DEF IInv, LifeInv
  <1>3. IInv /\ CountInv /\ LifeInv => MessagesLiveWhileUsed
    <2> SUFFICES ASSUME IInv, CountInv, LifeInv PROVE MessagesLiveWhileUsed
      OBVIOUS
    <2>1. ASSUME NEW m \in Message \ raced
          PROVE  useCount[m] = Uses(m) \/ (AddressOf[m] \in orphans /\ useCount[m] > Uses(m))
      <3>1. Uses(m) \in Nat /\ useCount[m] \in Int
        BY UsesType DEF CountInv, IInv, TypeOK
      <3>2. useCount[m] >= Uses(m) /\ (AddressOf[m] \notin orphans => useCount[m] = Uses(m))
        BY DEF CountInv, Counted
      <3> QED
        BY <3>1, <3>2
    <2> QED
      BY <2>1 DEF MessagesLiveWhileUsed, NoCountLeaked, LifeInv
  <1> QED
    BY <1>1, <1>2, <1>3, Invariance, PTL DEF Spec
=============================================================================
