--------------------------- MODULE SipServerCalls ---------------------------
(***************************************************************************)
(* The calls of the IP-PBX: KSipServer answers every INVITE by an INVITE   *)
(* of its own and keeps the two legs in a map, Call-ID to Call-ID of the   *)
(* peer.  A second map holds the legs made for a blind transfer, a third   *)
(* the RTP ports between the legs.                                         *)
(*                                                                         *)
(* The callbacks of the user agent run in the receiving threads and in the *)
(* stack thread (408), without a lock.  Each looks legs up, calls the user *)
(* agent and changes the maps in sections that are locked one by one:      *)
(* todo[t] holds the sections thread t has still to do, with the values it *)
(* read before.  Between two of them any other thread may run.             *)
(*                                                                         *)
(* The dialogs are those of SipUserAgent, a call of the user agent being   *)
(* one step; every INVITE sent gets a final response, as the client        *)
(* transactions promise.  A phone that transfers sends one REFER, when its *)
(* leg is connected; the 200 to an INVITE carries an SDP.  Ringing,        *)
(* re-INVITEs, PRACK and NOTIFY change no state of the server and are left *)
(* out.                                                                    *)
(***************************************************************************)
EXTENDS Naturals, Sequences, FiniteSets, Functions

CONSTANTS
  Caller,     \* Call-IDs of the INVITEs that phones send
  Callee,     \* Call-IDs that the server makes for INVITEs of its own
  NoCallId,   \* the empty string
  Receiver,   \* receiving threads
  Stack,      \* the stack thread
  Port,       \* the first ports of the blocks of SOCKET_COUNT_PER_MEDIA RTP ports
  Service     \* what phones use: subsets of {"forward", "pickup", "blind", "attended"}

ASSUME SipServerCallsAssumption ==
  /\ Caller \cap Callee = {}
  /\ NoCallId \notin Caller \cup Callee
  /\ Stack \notin Receiver
  /\ Port \subseteq {4 * n : n \in 1 .. 100}
  /\ Service \subseteq {"forward", "pickup", "blind", "attended"}

Thread == Receiver \cup {Stack}
Leg == Caller \cup Callee
CallId == Leg \cup {NoCallId}

VARIABLES
  dialog,    \* m_clsDialogMap of the user agent
  pending,   \* INVITEs the server sent that have no final response yet
  calls,     \* gclsCallMap
  trans,     \* gclsTransCallMap
  rtp,       \* gclsRtpMap: m_bStop by first port
  todo,      \* per thread, the locked sections its handler has still to do
  used,      \* Call-IDs that exist or existed
  referred,  \* legs whose phone sent a REFER
  recorded,  \* legs with a call record
  joined,    \* caller legs that were connected to a peer and not given away since
  broken,    \* legs that a handler leaves alone in a way the properties name
  lost       \* ports that a handler forgets in a way the properties name

vars == <<dialog, pending, calls, trans, rtp, todo, used, referred, recorded, joined, broken, lost>>
maps == <<calls, trans, rtp>>
history == <<recorded, joined, broken, lost>>

\* m_sttStartTime, m_sttEndTime, m_sttCancelTime are taken; m_pclsInvite # NULL.
CSipDialog == [start : BOOLEAN, end : BOOLEAN, cancel : BOOLEAN, invite : BOOLEAN]

NewDialog(received) ==
  [start |-> FALSE, end |-> FALSE, cancel |-> FALSE, invite |-> received]

\* m_strPeerCallId, m_bRecv, m_iPeerRtpPort.
CCallInfo == [peer : CallId, recv : BOOLEAN, port : Nat]
Info(peer, recv, port) == [peer |-> peer, recv |-> recv, port |-> port]

Section == {"CreatePort", "CreateCall", "Insert", "StartCall", "AcceptCall", "StopCall",
  "DeleteDialog", "SaveCdr", "EventCallStart", "TransStart", "EventCallEnd", "TransEnd",
  "ConnectTrans", "Delete", "DeleteKeepPort", "TransDelete", "TransDeleteKeepPort",
  "Forward", "EventBlindTransfer", "CreateTransPort", "StartTrans", "TransInsert",
  "ScreenedTransfer", "UnscreenedTransfer", "Reconnect", "Redial", "StartNew",
  "StartCallNew", "SelectToRing", "SelectOld",
  "InsertOld", "DeleteOne", "Join", "UpdateOld"}

\* The first port of the block a port is in.
Block(port) == port - (port % 4)

\* The block a leg's entry refers to.
BlockOf(info) == Block(IF info.recv THEN info.port ELSE info.port - 2)

\* A leg has one half of a block, an RTP and an RTCP port.
FirstOfHalf(port) == port % 2 = 0

\* A locked section, with the Call-IDs and the port it was given.
Task == [do : Section, call : CallId, peer : CallId, port : Nat]
Step(do, c, peer, port) == [do |-> do, call |-> c, peer |-> peer, port |-> port]
On(do, c) == Step(do, c, NoCallId, 0)

TypeOK ==
  /\ DOMAIN dialog \subseteq Leg
  /\ \A c \in DOMAIN dialog : dialog[c] \in CSipDialog
  /\ pending \subseteq Callee
  /\ DOMAIN calls \subseteq CallId
  /\ \A c \in DOMAIN calls : calls[c] \in CCallInfo /\ FirstOfHalf(calls[c].port)
  /\ DOMAIN trans \subseteq Leg
  /\ \A c \in DOMAIN trans : trans[c] \in CCallInfo /\ FirstOfHalf(trans[c].port)
  /\ DOMAIN rtp \subseteq Port
  /\ \A p \in DOMAIN rtp : rtp[p] \in BOOLEAN
  /\ todo \in [Thread -> Seq(Task)]
  /\ used \cup referred \cup recorded \cup joined \subseteq Leg
  /\ broken \subseteq CallId
  /\ lost \subseteq Nat

Init ==
  /\ dialog = [c \in {} |-> NewDialog(TRUE)]
  /\ pending = {}
  /\ calls = [c \in {} |-> Info(NoCallId, TRUE, 0)]
  /\ trans = [c \in {} |-> Info(NoCallId, TRUE, 0)]
  /\ rtp = [p \in {} |-> FALSE]
  /\ todo = [t \in Thread |-> <<>>]
  /\ used = {}
  /\ referred = {}
  /\ recorded = {}
  /\ joined = {}
  /\ broken = {}
  /\ lost = {}
-----------------------------------------------------------------------------
\* The user agent.

Known(c) == c \in DOMAIN dialog
Live(c) == Known(c) /\ ~ dialog[c].end
Connected(c) == Live(c) /\ dialog[c].start

\* The legs that are in the map as those whose INVITE was received.
Receiving == {c \in DOMAIN calls : calls[c].recv}

Without(f, S) == Restrict(f, DOMAIN f \ S)
With(f, x, v) == [y \in DOMAIN f \cup {x} |-> IF y = x THEN v ELSE f[y]]

\* StopCall: BYE for a connected leg, an error response to a received INVITE, CANCEL
\* for one that was sent.
AfterStop(c) ==
  IF ~ Known(c) THEN dialog
  ELSE IF dialog[c].invite \/ (dialog[c].start /\ ~ dialog[c].end) THEN Without(dialog, {c})
  ELSE IF ~ dialog[c].start /\ ~ dialog[c].end THEN [dialog EXCEPT ![c].cancel = TRUE]
  ELSE dialog

\* AcceptCall answers a received INVITE; it does not look at the end time.
Acceptable(c) == Known(c) /\ dialog[c].invite
Accept(c) == dialog' = [dialog EXCEPT ![c].start = TRUE, ![c].invite = FALSE]

\* Call-IDs are fresh; the model has as many as Callee.
FreshCallId == CHOOSE c \in Callee \ used : TRUE
-----------------------------------------------------------------------------
\* The threads.

Begin(t, steps) == todo[t] = <<>> /\ todo' = [todo EXCEPT ![t] = steps]
Does(t, section) == todo[t] # <<>> /\ Head(todo[t]).do = section
Continue(t, more) == todo' = [todo EXCEPT ![t] = more \o Tail(@)]

\* CSipServer::StopCall.
Refuse(c) == <<On("SaveCdr", c), On("StopCall", c)>>

\* EventIncomingCall: where the INVITE goes depends on the users and the set-up.
EventIncomingCall(c) ==
  {Refuse(c), <<On("CreatePort", c)>>}
    \cup (IF "forward" \in Service THEN {<<On("Forward", c)>>} ELSE {})
    \cup (IF "pickup" \in Service THEN {<<On("SelectToRing", c)>>} ELSE {})

\* What the user agent does with a message and the callback it makes.
RecvInvite(t, c) ==
  /\ c \in Caller \ used
  /\ used' = used \cup {c}
  /\ dialog' = With(dialog, c, NewDialog(TRUE))
  /\ \E steps \in EventIncomingCall(c) : Begin(t, steps)
  /\ UNCHANGED <<pending, maps, referred, history>>

RecvCancel(t, c) ==
  /\ Live(c) /\ dialog[c].invite
  /\ dialog' = [dialog EXCEPT ![c].end = TRUE]
  /\ Begin(t, <<On("EventCallEnd", c), On("DeleteDialog", c)>>)
  /\ UNCHANGED <<pending, maps, used, referred, history>>

RecvBye(t, c) ==
  /\ Connected(c)
  /\ dialog' = [dialog EXCEPT ![c].end = TRUE]
  /\ Begin(t, <<On("EventCallEnd", c), On("DeleteDialog", c)>>)
  /\ UNCHANGED <<pending, maps, used, referred, history>>

\* A 200, also to an INVITE that was cancelled.
RecvOk(t, c) ==
  /\ c \in pending
  /\ pending' = pending \ {c}
  /\ Known(c)
  /\ dialog' = [dialog EXCEPT ![c].start = TRUE]
  /\ Begin(t, <<On("EventCallStart", c)>>)
  /\ UNCHANGED <<maps, used, referred, history>>

\* An error response or the 408 of the stack thread.
RecvError(t, c) ==
  /\ c \in pending
  /\ pending' = pending \ {c}
  /\ Known(c)
  /\ dialog' = [dialog EXCEPT ![c].end = TRUE]
  /\ Begin(t, <<On("EventCallEnd", c), On("DeleteDialog", c)>>)
  /\ UNCHANGED <<maps, used, referred, history>>

\* REFER to a user, or to the other call of the same phone, when no event of the leg is
\* being handled.
RecvRefer(t, c) ==
  /\ Connected(c)
  /\ \A u \in Thread : \A i \in DOMAIN todo[u] : todo[u][i].call # c
  /\ c \notin referred
  /\ \/ /\ "blind" \in Service
        /\ Begin(t, <<On("EventBlindTransfer", c)>>)
     \/ /\ "attended" \in Service
        /\ \E r \in DOMAIN dialog \ {c} :
             /\ c \in DOMAIN calls => calls[c].peer # r
             /\ Begin(t, <<Step(IF dialog[r].start THEN "ScreenedTransfer"
                                ELSE "UnscreenedTransfer", c, r, 0)>>)
  /\ referred' = referred \cup {c}
  /\ UNCHANGED <<dialog, pending, maps, used, history>>
-----------------------------------------------------------------------------
\* Sections of the user agent.

DeleteDialog(t) ==
  /\ Does(t, "DeleteDialog")
  /\ dialog' = Without(dialog, {Head(todo[t]).call})
  /\ Continue(t, <<>>)
  /\ UNCHANGED <<pending, maps, used, referred, history>>

StopCall(t) ==
  /\ Does(t, "StopCall")
  /\ dialog' = AfterStop(Head(todo[t]).call)
  /\ Continue(t, <<>>)
  /\ UNCHANGED <<pending, maps, used, referred, history>>

\* EventCallStart answers the peer; if that is not to be answered a re-INVITE is sent.  A peer
\* that is ending has stopped, or will not stop, the leg that was answered.
AcceptCall(t) ==
  LET s == Head(todo[t]) IN
  /\ Does(t, "AcceptCall")
  /\ IF Acceptable(s.call)
     THEN Accept(s.call) /\ joined' = joined \cup ({s.call} \cap Receiving)
     ELSE UNCHANGED <<dialog, joined>>
  /\ broken' = broken \cup (IF Live(s.call) THEN {} ELSE {s.call, s.peer})
  /\ Continue(t, <<>>)
  /\ UNCHANGED <<pending, maps, used, referred, recorded, lost>>

\* SaveCdr writes a record if the user agent still has the dialog.
SaveCdr(t) ==
  /\ Does(t, "SaveCdr")
  /\ recorded' = recorded \cup ({Head(todo[t]).call} \cap DOMAIN dialog)
  /\ Continue(t, <<>>)
  /\ UNCHANGED <<dialog, pending, maps, used, referred, joined, broken, lost>>
-----------------------------------------------------------------------------
\* CCallMap.

\* Mutant: the second half of the block is one port further, not SOCKET_COUNT_PER_MEDIA.
PairNextPort(map, recv, send, port) ==
  [c \in {recv, send} \cup DOMAIN map |->
     IF c \in DOMAIN map THEN map[c]
     ELSE IF c = recv THEN Info(send, TRUE, port)
     ELSE Info(recv, FALSE, port + 1)]

\* Insert of a pair: each leg unless it is there.
Pair(map, recv, send, port) ==
  [c \in {recv, send} \cup DOMAIN map |->
     IF c \in DOMAIN map THEN map[c]
     ELSE IF c = recv THEN Info(send, TRUE, port)
     ELSE Info(recv, FALSE, port + 2)]

\* Both legs that Delete erases, and the RTP port it stops.
Both(map, c) == IF c \in DOMAIN map THEN {c, map[c].peer} \cap DOMAIN map ELSE {}

\* Mutant: the port in the entry that is asked for, not in that of the received leg.
PortOfLeg(map, c) == {map[d].port : d \in {c} \cap DOMAIN map} \cap DOMAIN rtp
PortOf(map, c) == {map[d].port : d \in {d \in Both(map, c) : map[d].recv}} \cap DOMAIN rtp

\* CRtpMap::SetStop.
SetStop(ports) == rtp' = [p \in DOMAIN rtp |-> rtp[p] \/ p \in ports]

\* A pair is inserted although one of its legs ended, was left alone, or is the empty
\* Call-ID: what ended found no peer in the map and will not come back.
InsertedLate(recv, send) ==
  IF Live(recv) /\ Live(send) /\ {recv, send} \cap broken = {} THEN {} ELSE {recv, send}

Insert(t) ==
  LET s == Head(todo[t]) IN
  /\ Does(t, "Insert")
  /\ calls' = Pair(calls, s.call, s.peer, s.port)
  /\ broken' = broken \cup InsertedLate(s.call, s.peer)
  /\ Continue(t, <<>>)
  /\ UNCHANGED <<dialog, pending, trans, rtp, used, referred, recorded, joined, lost>>

\* Delete of a pair of the call map.
Delete(t) ==
  LET c == Head(todo[t]).call IN
  /\ Does(t, "Delete")
  /\ SetStop(PortOf(calls, c))
  /\ calls' = Without(calls, Both(calls, c))
  /\ Continue(t, <<>>)
  /\ UNCHANGED <<dialog, pending, trans, used, referred, history>>

DeleteKeepPort(t) ==
  /\ Does(t, "DeleteKeepPort")
  /\ calls' = Without(calls, Both(calls, Head(todo[t]).call))
  /\ Continue(t, <<>>)
  /\ UNCHANGED <<dialog, pending, trans, rtp, used, referred, history>>

TransDelete(t) ==
  LET c == Head(todo[t]).call IN
  /\ Does(t, "TransDelete")
  /\ SetStop(PortOf(trans, c))
  /\ trans' = Without(trans, Both(trans, c))
  /\ Continue(t, <<>>)
  /\ UNCHANGED <<dialog, pending, calls, used, referred, history>>

TransDeleteKeepPort(t) ==
  /\ Does(t, "TransDeleteKeepPort")
  /\ trans' = Without(trans, Both(trans, Head(todo[t]).call))
  /\ Continue(t, <<>>)
  /\ UNCHANGED <<dialog, pending, calls, rtp, used, referred, history>>

\* The RTP thread of a stopped port closes the sockets.
RtpThread(p) ==
  /\ p \in DOMAIN rtp /\ rtp[p]
  /\ rtp' = Without(rtp, {p})
  /\ UNCHANGED <<dialog, pending, calls, trans, todo, used, referred, history>>
-----------------------------------------------------------------------------
\* EventIncomingCall.

\* The user forwards his calls: 302, and the dialog is gone.
Forward(t) ==
  LET c == Head(todo[t]).call IN
  /\ Does(t, "Forward")
  /\ IF Acceptable(c)
     THEN dialog' = Without(dialog, {c}) /\ Continue(t, <<>>)
     ELSE Continue(t, Refuse(c)) /\ UNCHANGED dialog
  /\ UNCHANGED <<pending, maps, used, referred, history>>

CreatePort(t) ==
  LET c == Head(todo[t]).call IN
  /\ Does(t, "CreatePort")
  /\ \/ /\ Port \subseteq DOMAIN rtp
        /\ Continue(t, Refuse(c))
        /\ UNCHANGED rtp
     \/ \E p \in Port \ DOMAIN rtp :
          /\ rtp' = With(rtp, p, FALSE)
          /\ Continue(t, <<Step("CreateCall", c, NoCallId, p)>>)
  /\ UNCHANGED <<dialog, pending, calls, trans, used, referred, history>>

\* CreateCall makes the dialog of the second leg; its INVITE is sent after the pair is
\* in the map.  If it fails the RTP port is not given back.
CreateCall(t) ==
  LET s == Head(todo[t])
      new == FreshCallId IN
  /\ Does(t, "CreateCall")
  /\ \/ /\ Callee \ used # {}
        /\ used' = used \cup {new}
        /\ dialog' = With(dialog, new, NewDialog(FALSE))
        /\ Continue(t, <<Step("Insert", s.call, new, s.port), On("StartCall", new)>>)
        /\ UNCHANGED lost
     \/ /\ Continue(t, Refuse(s.call))
        /\ lost' = lost \cup {s.port}
        /\ UNCHANGED <<used, dialog>>
  /\ UNCHANGED <<pending, maps, referred, recorded, joined, broken>>

\* The INVITE of CreateCall is sent, whatever became of its dialog.  The branch for a StartCall
\* that fails is never taken: SendSipMessage would have to find a client transaction of the same
\* key (SipICTList.cpp:57-96), and CreateInvite has just given the INVITE a Via branch with the next
\* number of a counter (SipDialog.cpp:58-63, SipUtility.cpp:106-123); the result of Send is not
\* looked at (SipStackComm.hpp:36-45).
StartCall(t) ==
  /\ Does(t, "StartCall")
  /\ pending' = pending \cup {Head(todo[t]).call}
  /\ Continue(t, <<>>)
  /\ UNCHANGED <<dialog, maps, used, referred, history>>
-----------------------------------------------------------------------------
\* EventCallStart and EventCallEnd.

EventCallStart(t) ==
  LET c == Head(todo[t]).call IN
  /\ Does(t, "EventCallStart")
  /\ Continue(t, IF c \in DOMAIN calls
                 THEN <<Step("AcceptCall", calls[c].peer, c, 0)>>
                 ELSE <<On("TransStart", c)>>)
  /\ UNCHANGED <<dialog, pending, maps, used, referred, history>>

\* A leg that is in neither map is stopped.
TransStart(t) ==
  LET c == Head(todo[t]).call IN
  /\ Does(t, "TransStart")
  /\ Continue(t, IF c \in DOMAIN trans
                 THEN <<Step("ConnectTrans", c, trans[c].peer, trans[c].port)>>
                 ELSE <<On("StopCall", c)>>)
  /\ UNCHANGED <<dialog, pending, maps, used, referred, history>>

\* Mutant: the new pair is inserted before the old one is taken out.
ConnectTransBeforeDelete(t) ==
  LET s == Head(todo[t])
      found == s.peer \in DOMAIN calls
      other == IF found THEN calls[s.peer].peer ELSE NoCallId IN
  /\ Does(t, "ConnectTrans")
  /\ Continue(t, <<Step("Insert", other, s.call, s.port - 2)>>
                   \o (IF found THEN <<On("StopCall", s.peer), On("Delete", s.peer)>> ELSE <<>>)
                   \o <<On("TransDeleteKeepPort", s.call)>>)
  /\ joined' = joined \ {s.peer}
  /\ UNCHANGED <<dialog, pending, maps, used, referred, recorded, broken, lost>>

\* Mutant: the port of the transfer is stopped with its entry.
ConnectTransStopsPort(t) ==
  LET s == Head(todo[t])
      found == s.peer \in DOMAIN calls
      other == IF found THEN calls[s.peer].peer ELSE NoCallId IN
  /\ Does(t, "ConnectTrans")
  /\ Continue(t, (IF found THEN <<On("StopCall", s.peer), On("Delete", s.peer)>> ELSE <<>>)
                   \o <<Step("Insert", other, s.call, s.port - 2), On("TransDelete", s.call)>>)
  /\ joined' = joined \ {s.peer}
  /\ UNCHANGED <<dialog, pending, maps, used, referred, recorded, broken, lost>>

\* The user the call is transferred to answered: the leg that sent the REFER is stopped
\* and its peer is paired with the new leg.
ConnectTrans(t) ==
  LET s == Head(todo[t])
      found == s.peer \in DOMAIN calls
      other == IF found THEN calls[s.peer].peer ELSE NoCallId IN
  /\ Does(t, "ConnectTrans")
  /\ Continue(t, (IF found THEN <<On("StopCall", s.peer), On("Delete", s.peer)>> ELSE <<>>)
                   \o <<Step("Insert", other, s.call, s.port - 2), On("TransDeleteKeepPort", s.call)>>)
  /\ joined' = joined \ {s.peer}
  /\ UNCHANGED <<dialog, pending, maps, used, referred, recorded, broken, lost>>

\* Mutant: the pair stays in the map.
EventCallEndKeepsPair(t) ==
  LET c == Head(todo[t]).call IN
  /\ Does(t, "EventCallEnd")
  /\ Continue(t, IF c \in DOMAIN calls
                 THEN <<On("SaveCdr", IF calls[c].recv THEN c ELSE calls[c].peer),
                        On("StopCall", calls[c].peer)>>
                 ELSE <<On("TransEnd", c)>>)
  /\ UNCHANGED <<dialog, pending, maps, used, referred, history>>

\* Mutant: the record is written for the leg that ended.
EventCallEndRecordsLeg(t) ==
  LET c == Head(todo[t]).call IN
  /\ Does(t, "EventCallEnd")
  /\ Continue(t, IF c \in DOMAIN calls
                 THEN <<On("SaveCdr", c), On("StopCall", calls[c].peer), On("Delete", c)>>
                 ELSE <<On("TransEnd", c)>>)
  /\ UNCHANGED <<dialog, pending, maps, used, referred, history>>

\* Mutant: the leg that ended is stopped, not its peer.
EventCallEndStopsItself(t) ==
  LET c == Head(todo[t]).call IN
  /\ Does(t, "EventCallEnd")
  /\ Continue(t, IF c \in DOMAIN calls
                 THEN <<On("SaveCdr", IF calls[c].recv THEN c ELSE calls[c].peer),
                        On("StopCall", c), On("Delete", c)>>
                 ELSE <<On("TransEnd", c)>>)
  /\ UNCHANGED <<dialog, pending, maps, used, referred, history>>

EventCallEnd(t) ==
  LET c == Head(todo[t]).call IN
  /\ Does(t, "EventCallEnd")
  /\ Continue(t, IF c \in DOMAIN calls
                 THEN <<On("SaveCdr", IF calls[c].recv THEN c ELSE calls[c].peer),
                        On("StopCall", calls[c].peer), On("Delete", c)>>
                 ELSE <<On("TransEnd", c)>>)
  /\ UNCHANGED <<dialog, pending, maps, used, referred, history>>

\* A leg that sent a REFER and has lost its pair is found here as well: the leg made for it
\* is forgotten and its RTP port stopped, even if it was answered and is being paired.
TransEnd(t) ==
  LET c == Head(todo[t]).call IN
  /\ Does(t, "TransEnd")
  /\ IF c \in DOMAIN trans
     THEN /\ Continue(t, <<On("TransDelete", c)>>)
          /\ broken' = broken \cup (IF trans[c].recv THEN {trans[c].peer} ELSE {})
          /\ lost' = lost \cup (IF trans[c].recv THEN {Block(trans[c].port)} ELSE {})
     ELSE Continue(t, <<>>) /\ UNCHANGED <<broken, lost>>
  /\ UNCHANGED <<dialog, pending, maps, used, referred, recorded, joined>>
-----------------------------------------------------------------------------
\* EventBlindTransfer.

EventBlindTransfer(t) ==
  LET c == Head(todo[t]).call IN
  /\ Does(t, "EventBlindTransfer")
  /\ \/ /\ c \in DOMAIN calls
        /\ Known(calls[c].peer)
        /\ Continue(t, <<On("CreateTransPort", c)>>)
     \/ Continue(t, <<>>)                 \* the user is not registered, or no pair
  /\ UNCHANGED <<dialog, pending, maps, used, referred, history>>

CreateTransPort(t) ==
  LET c == Head(todo[t]).call IN
  /\ Does(t, "CreateTransPort")
  /\ \/ /\ Port \subseteq DOMAIN rtp
        /\ Continue(t, <<>>)
        /\ UNCHANGED rtp
     \/ \E p \in Port \ DOMAIN rtp :
          /\ rtp' = With(rtp, p, FALSE)
          /\ Continue(t, <<Step("StartTrans", c, NoCallId, p)>>)
  /\ UNCHANGED <<dialog, pending, calls, trans, used, referred, history>>

\* StartCall makes the dialog and sends its INVITE; the maps do not know it yet.
StartTrans(t) ==
  LET s == Head(todo[t])
      new == FreshCallId IN
  /\ Does(t, "StartTrans")
  /\ \/ /\ Callee \ used # {}
        /\ used' = used \cup {new}
        /\ dialog' = With(dialog, new, NewDialog(FALSE))
        /\ pending' = pending \cup {new}
        /\ Continue(t, <<Step("TransInsert", s.call, new, s.port)>>)
        /\ UNCHANGED lost
     \/ /\ Continue(t, <<>>)
        /\ lost' = lost \cup {s.port}
        /\ UNCHANGED <<used, dialog, pending>>
  /\ UNCHANGED <<maps, referred, recorded, joined, broken>>

\* The new leg may have been answered, or have ended, before it is in the map.
TransInsert(t) ==
  LET s == Head(todo[t]) IN
  /\ Does(t, "TransInsert")
  /\ trans' = Pair(trans, s.call, s.peer, s.port)
  /\ broken' = broken \cup (IF Live(s.peer) /\ ~ dialog[s.peer].start THEN {} ELSE {s.peer})
  /\ lost' = lost \cup (IF Live(s.peer) /\ ~ dialog[s.peer].start THEN {} ELSE {s.port})
  /\ Continue(t, <<>>)
  /\ UNCHANGED <<dialog, pending, calls, rtp, used, referred, recorded, joined>>
-----------------------------------------------------------------------------
\* EventTransfer: the legs s.call and s.peer of one phone give way to a call between their
\* peers.  The RTP port of the second pair is kept for it; if the phone was called in that
\* pair, what is kept is the second half of the block, which SetStop does not know.  From
\* then on the entries of the call name ports one half further, after another transfer
\* those of the next block, whoever has it.

KeptPort(info) == IF info.recv THEN {} ELSE {BlockOf(info), Block(info.port)}

EventTransfer(t, section, next) ==
  LET s == Head(todo[t]) IN
  /\ Does(t, section)
  /\ IF {s.call, s.peer} \subseteq DOMAIN calls
     THEN LET first == calls[s.call].peer
              second == calls[s.peer].peer
              port == calls[s.peer].port IN
          /\ todo' = [todo EXCEPT ![t] =
               <<On("Delete", s.call), On("DeleteKeepPort", s.peer),
                 Step(next, first, second, port), On("StopCall", s.call), On("StopCall", s.peer)>>
               \o (IF next = "Redial" THEN <<Step("StartNew", first, second, port)>> ELSE <<>>)]
          /\ joined' = joined \ {s.call, s.peer, first, second}
          /\ lost' = lost \cup KeptPort(calls[s.peer])
     ELSE Continue(t, <<>>) /\ UNCHANGED <<joined, lost>>
  /\ UNCHANGED <<dialog, pending, maps, used, referred, recorded, broken>>

\* When a peer has gone in between, false is returned: the pairs are out of the map, all
\* the legs stay.
TransferFails(t) ==
  LET s == Head(todo[t]) IN
  /\ todo' = [todo EXCEPT ![t] = <<>>]
  /\ broken' = broken \cup {todo[t][2].call, todo[t][3].call, s.call, s.peer}
  /\ lost' = lost \cup {Block(s.port)}

\* The second pair ended while it was taken out of the map: its port is being closed.
StoppedPort(port) == IF port \in DOMAIN rtp /\ ~ rtp[port] THEN {} ELSE {Block(port)}

\* The second call was connected: its peer and the first one's are paired.
Reconnect(t) ==
  LET s == Head(todo[t]) IN
  /\ Does(t, "Reconnect")
  /\ IF Known(s.call) /\ Known(s.peer)
     THEN /\ Continue(t, <<Step("Insert", s.call, s.peer, s.port)>>)
          /\ lost' = lost \cup StoppedPort(s.port)
          /\ UNCHANGED broken
     ELSE TransferFails(t)
  /\ UNCHANGED <<dialog, pending, maps, used, referred, recorded, joined>>

\* The second call was still ringing: the user rung is called again, by the first peer.
Redial(t) ==
  LET s == Head(todo[t]) IN
  /\ Does(t, "Redial")
  /\ IF Known(s.call)
     THEN /\ Continue(t, <<>>)
          /\ lost' = lost \cup StoppedPort(s.port)
          /\ UNCHANGED broken
     ELSE TransferFails(t)
  /\ UNCHANGED <<dialog, pending, maps, used, referred, recorded, joined>>

\* Both peers are stopped when the user is not registered any more; the port is forgotten.
StartNew(t) ==
  LET s == Head(todo[t]) IN
  /\ Does(t, "StartNew")
  /\ \/ /\ Continue(t, <<On("StopCall", s.peer), Step("StartCallNew", s.call, NoCallId, s.port)>>)
        /\ UNCHANGED lost
     \/ /\ Continue(t, <<On("StopCall", s.call), On("StopCall", s.peer)>>)
        /\ lost' = lost \cup {Block(s.port)}
  /\ UNCHANGED <<dialog, pending, maps, used, referred, recorded, joined, broken>>

\* The result of StartCall is not looked at: after a failure the Call-ID is empty.
StartCallNew(t) ==
  LET s == Head(todo[t])
      new == FreshCallId IN
  /\ Does(t, "StartCallNew")
  /\ \/ /\ Callee \ used # {}
        /\ used' = used \cup {new}
        /\ dialog' = With(dialog, new, NewDialog(FALSE))
        /\ pending' = pending \cup {new}
        /\ Continue(t, <<Step("Insert", new, s.call, s.port)>>)
     \/ /\ Continue(t, <<Step("Insert", NoCallId, s.call, s.port)>>)
        /\ UNCHANGED <<used, dialog, pending>>
  /\ UNCHANGED <<maps, referred, history>>
-----------------------------------------------------------------------------
\* PickUp: the caller of a ringing leg is connected with the phone that asks for it.

SelectToRing(t) ==
  LET c == Head(todo[t]).call
      ringing == {o \in DOMAIN calls : ~ calls[o].recv /\ Known(o) /\ ~ dialog[o].start} IN
  /\ Does(t, "SelectToRing")
  /\ \/ \E o \in ringing : Continue(t, <<Step("SelectOld", c, o, 0)>>)
     \/ Continue(t, Refuse(c))            \* nobody of the group is called
  /\ UNCHANGED <<dialog, pending, maps, used, referred, history>>

SelectOld(t) ==
  LET s == Head(todo[t]) IN
  /\ Does(t, "SelectOld")
  /\ Continue(t, IF s.peer \in DOMAIN calls
                 THEN <<Step("InsertOld", s.call, calls[s.peer].peer, calls[s.peer].port),
                        Step("DeleteOne", s.peer, s.call, 0), On("StopCall", s.peer),
                        Step("Join", s.call, calls[s.peer].peer, 0)>>
                 ELSE Refuse(s.call))
  /\ UNCHANGED <<dialog, pending, maps, used, referred, history>>

\* The entry of the ringing leg becomes the new leg's: Insert of one Call-ID.
InsertOld(t) ==
  LET s == Head(todo[t]) IN
  /\ Does(t, "InsertOld")
  /\ calls' = With(calls, s.call, Info(s.peer, FALSE, s.port))
  /\ Continue(t, <<>>)
  /\ UNCHANGED <<dialog, pending, trans, rtp, used, referred, history>>

\* The ringing leg may have just ended: its EventCallEnd still ends the caller.
DeleteOne(t) ==
  LET s == Head(todo[t]) IN
  /\ Does(t, "DeleteOne")
  /\ calls' = Without(calls, {s.call})
  /\ broken' = broken \cup (IF Live(s.call) THEN {} ELSE Both(calls, s.call) \cup {s.peer})
  /\ Continue(t, <<>>)
  /\ UNCHANGED <<dialog, pending, trans, rtp, used, referred, recorded, joined, lost>>

\* The caller is answered.  If that is not possible any more the entry of the new leg
\* stays in the map.
Join(t) ==
  LET s == Head(todo[t]) IN
  /\ Does(t, "Join")
  /\ IF Acceptable(s.peer)
     THEN /\ Accept(s.peer)
          /\ joined' = joined \cup ({s.peer} \cap Receiving)
          /\ Continue(t, <<Step("UpdateOld", s.call, s.peer, 0)>>)
          /\ UNCHANGED broken
     ELSE /\ Continue(t, Refuse(s.call))
          /\ broken' = broken \cup {s.call, s.peer}
          /\ UNCHANGED <<dialog, joined>>
  /\ UNCHANGED <<pending, maps, used, referred, recorded, lost>>

UpdateOld(t) ==
  LET s == Head(todo[t]) IN
  /\ Does(t, "UpdateOld")
  /\ IF s.peer \in DOMAIN calls
     THEN /\ calls' = [calls EXCEPT ![s.peer].peer = s.call]
          /\ Continue(t, <<Step("AcceptCall", s.call, s.peer, 0)>>)
          /\ UNCHANGED broken
     ELSE /\ Continue(t, <<On("StopCall", s.peer)>> \o Refuse(s.call))
          /\ broken' = broken \cup {s.call, s.peer}
          /\ UNCHANGED calls
  /\ UNCHANGED <<dialog, pending, trans, rtp, used, referred, recorded, joined, lost>>
-----------------------------------------------------------------------------
PhoneActs ==
  \E t \in Receiver, c \in Leg :
    \/ RecvInvite(t, c) \/ RecvCancel(t, c) \/ RecvBye(t, c) \/ RecvOk(t, c)
    \/ RecvRefer(t, c)

FinalResponse == \E t \in Thread, c \in Callee : RecvError(t, c)

\* The next section of a thread's handler.
Handle(t) ==
  \/ DeleteDialog(t) \/ StopCall(t) \/ AcceptCall(t) \/ SaveCdr(t)
  \/ Insert(t) \/ Delete(t) \/ DeleteKeepPort(t) \/ TransDelete(t) \/ TransDeleteKeepPort(t)
  \/ Forward(t) \/ CreatePort(t) \/ CreateCall(t) \/ StartCall(t)
  \/ EventCallStart(t) \/ TransStart(t) \/ ConnectTrans(t) \/ EventCallEnd(t) \/ TransEnd(t)
  \/ EventBlindTransfer(t) \/ CreateTransPort(t) \/ StartTrans(t) \/ TransInsert(t)
  \/ EventTransfer(t, "ScreenedTransfer", "Reconnect") \/ Reconnect(t)
  \/ EventTransfer(t, "UnscreenedTransfer", "Redial") \/ Redial(t) \/ StartNew(t)
  \/ StartCallNew(t)
  \/ SelectToRing(t) \/ SelectOld(t) \/ InsertOld(t) \/ DeleteOne(t) \/ Join(t) \/ UpdateOld(t)

Next ==
  \/ PhoneActs
  \/ FinalResponse
  \/ \E t \in Thread : Handle(t)
  \/ \E p \in Port : RtpThread(p)

Spec == Init /\ [][Next]_vars

\* Threads run, RTP threads poll every second, and every INVITE gets a final response.
Fairness ==
  /\ \A t \in Thread : WF_vars(Handle(t))
  /\ SF_vars(FinalResponse)
  /\ \A p \in Port : WF_vars(RtpThread(p))

FairSpec == Spec /\ Fairness
-----------------------------------------------------------------------------
Idle == \A t \in Thread : todo[t] = <<>>

\* When the threads rest every leg has its peer: two dialogs that name each other in the
\* map.  The others are being cancelled, ring for a transfer, or were left alone by one of the
\* handlers that "broken" names.
NoOrphanLeg ==
  Idle => \A c \in DOMAIN dialog :
    \/ c \in pending /\ dialog[c].cancel
    \/ c \in DOMAIN calls /\ Known(calls[c].peer) /\ calls[c].peer \in DOMAIN calls
         /\ calls[calls[c].peer].peer = c
    \/ c \in DOMAIN trans
    \/ c \in broken

\* No pair outlives its legs.
NoGhostPair ==
  Idle => \A c \in DOMAIN calls : Known(c) \/ c \in broken \/ calls[c].peer \in broken

Holds(port) ==
  \/ \E c \in DOMAIN calls : BlockOf(calls[c]) = port
  \/ \E c \in DOMAIN trans : BlockOf(trans[c]) = port

\* An RTP port that is not being closed belongs to a pair of one of the maps.
PortsReturn ==
  Idle => \A p \in DOMAIN rtp : rtp[p] \/ Holds(p) \/ p \in lost

\* A pair has its RTP ports as long as it is in the map, and no other pair has them.
PairHasPort ==
  Idle => \A c \in DOMAIN calls :
    LET p == BlockOf(calls[c]) IN
    \/ c \in broken
    \/ p \in lost
    \/ /\ p \in DOMAIN rtp /\ ~ rtp[p]
       /\ \A d \in DOMAIN calls \ {c, calls[c].peer} : BlockOf(calls[d]) # p

\* Every call that was connected leaves a record.
EveryCallRecorded ==
  Idle => \A c \in joined \ broken : Known(c) \/ c \in recorded

\* When one leg of a pair ends the other one is ended too: no phone stays in a call that
\* nobody else is in.
BothLegsEnd ==
  \A c \in Leg, d \in Leg :
    (c \in DOMAIN calls /\ calls[c].peer = d /\ ~ Live(d)) ~> (~ Known(c) \/ c \in broken)
=============================================================================
