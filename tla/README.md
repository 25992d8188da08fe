# TLA+ models of CppSipStack

The repository is a SIP stack in C++ (`SipStack`, `SipUserAgent`, the parsers) and the
programs built on it: an IP-PBX (`KSipServer`), a load balancer, clients and tests.  This
directory holds TLA+ models of it, the TLC configurations that check them on small
instances, and proofs that hold for every instance.  `PROJECT.json` says which definition
models which lines, and lists runs, mutants, findings, hazards and theorems.

## 1. Inventory

### 1.1 What the system is made of

| Component | State | Operations | Talks to |
|---|---|---|---|
| INVITE client transactions, `CSipICTList` | `m_clsMap`: key to request, last response, ACK, retransmission count, start, ring and stop time | `Insert` (INVITE, ACK, response), `Execute` every 20 ms, `DeleteAll` | called by `CSipStack`; calls back `RecvResponse` (408) |
| INVITE server transactions, `CSipISTList` | the same record | `Insert` (INVITE, its copies, ACK, response), `Execute`, `DeleteAll` | calls back `RecvRequest`, `SendTimeout` |
| Non-INVITE transactions, `CSipNICTList`, `CSipNISTList` | request, response, times | `Insert`, `Execute`, `DeleteCancel`, `DeleteAll` | as above |
| `CSipStack` | the lists, the transports, the callback list, `m_bStopEvent` | `SendSipMessage`, `RecvSipMessage`, `Start`, `Stop` | user agent above, network below |
| Message lifetime, `CSipDeleteQueue` | messages with the time of their deletion; `m_iUseCount` in each message | `Insert`, `DeleteTimeout`, `DeleteAll` | every list |
| SIP over TCP/TLS | connections being made with the messages that wait, sockets by address, sessions per thread | connect, send, receive, time out, close | `CSipStack` |
| Receive queue (optional, off by default) | a queue with a condition variable | `Insert`, `Select`, `BroadCast` | filled by the TCP and TLS threads |
| Calls, `CSipUserAgent` | `m_clsDialogMap`: dialogs with INVITE, CANCEL, start and end time, a copy of the received INVITE | `StartCall`, `StopCall`, `AcceptCall`, `RingCall`, `HoldCall`, ...; handlers of INVITE, CANCEL, BYE and of responses | `CSipStack`; calls the application back |
| Registration client | `m_clsRegisterList` under its own mutex | the register thread, `RecvRegisterResponse`, `InsertRegisterInfo`, `UpdateRegisterInfo`, `DeleteRegisterInfo`, `DeRegister` | `CSipStack`; calls `EventRegister` back with the mutex held |
| `KSipServer` calls | `CCallMap` (Call-ID to peer Call-ID), the same for transfers, RTP ports, call records | the `Event...` callbacks, pick-up, transfer | user agent, `CRtpMap` |
| `KSipServer` registrar and trunks | `CUserMap`, `CNonceMap`, `CSipServerMap` | REGISTER, timeouts, re-reading the XML files | registration client |
| `SipLoadBalancer` | user to server map, server list | `Insert`, `Select`, `DeleteIfSet`, ... | each map calls the other |
| `TcpStack`, `HttpStack` | client map, threads and sessions | connect, send, receive, delete threads | not used by the SIP stack |
| Parsers, platform | none, or wrappers of system calls | pure functions | everything |

### 1.2 How they interact

A message is received by one of `m_iUdpThreadCount` UDP threads (one by default in the stack,
ten in `KSipServer`) or by a TCP or TLS thread, goes through the transaction list of its kind, and reaches the user agent and
the application as callbacks in the same thread.  The application calls the user agent from
its own threads, or from inside a callback.  A single stack thread runs `Execute` of the four
lists every 20 ms; its callbacks (a 408 for an INVITE nobody answered, `SendTimeout` for a 200
nobody acknowledged) run in that thread.  Each list and each map has one mutex; no mutex is
held while a message is sent by the user agent or a callback runs.  The exception is
`m_clsRegisterMutex`.

### 1.3 What is hard, and what correctness means

| Component | Hard behaviour | What makes it correct |
|---|---|---|
| Client transactions | timers against answers; the ACK that the dialog builds with its *latest* branch; the scan by Call-ID | the table is not read past its end; no INVITE disappears without a word; no timeout after an ACK; no ACK stops another INVITE |
| Server transactions | copies of the INVITE, ACKs with a branch of their own, 200s nobody acknowledges | each ACK stops its own transaction; an accepted INVITE leaves only acknowledged or reported; the pointer `Execute` keeps stays valid |
| Both over a network | loss, duplication, reordering, delay | one offer per INVITE, one answer learned, no timeout without a loss |
| Calls | every handler is cut by unlocks; application, receiving and stack thread overlap | `StopCall` has an effect, one answer per INVITE, no event after the end, every call is reported, no dialog lost without a BYE |
| Non-INVITE, delete queue | a CANCEL deleted by the INVITE's answer; use counts changed without lock | no message freed while used; every request reported |
| PBX | two dialogs, one map entry, callbacks of both legs at once | both legs end together, one record per call, ports given back |
| Registration | mutex held during callbacks; delete and re-insert | no deadlock, a re-inserted server registers again |
| TCP connections | a message queued while the attempt ends | every message is sent or failed |

The hazards of the code, line by line, are under `hazards` in `PROJECT.json`.

## 2. Plan

In the order of what matters most:

1. `SipTransactionList`, `SipICTList`, `SipISTList`: the INVITE transactions. **done**
2. `InviteTransaction` composes the two over a network and implements `InviteContract`. **done**
3. `SipUserAgent`: the calls on top of what (2) promises. **done, without PRACK**
4. `SipServerCalls`: the PBX - pairs of legs, RTP ports and call records - on the callbacks
   of (3). **done: forwarding, pick-up, blind and attended transfer**
5. `SipNICTList`, `SipNISTList`, composed over a network by `NonInviteTransaction`, which
   implements `NonInviteContract`. **done**
6. `SipRegister`: trunks, register thread, responses, and the two mutexes. **done**
7. `SipTcpClient`: connections, their threads, and the life of messages. **done, TCP with one
   polling thread**
8. Proofs: `SipICTListProofs`, `SipISTListProofs`, `SipRegisterProofs`, `SipUserAgentProofs`,
   `SipServerCallsProofs`, `SipTcpClientProofs`, and two refinements, `InviteTransactionProofs`
   and `NonInviteTransactionProofs`. **done**

Left for later: theorems about `SipServerCalls` with pick-up and transfers; the receive queue;
the registrar; the load balancer, whose maps are independent of all of this.

## 3. The modules

### 3.1 INVITE transactions

`SipTransactionList` - what the lists share: the record `CSipInviteTransaction`, the
retransmission table, `std::map` as a partial function, datagrams.  A *key* is what `GetKey`
computes, branch, CSeq number and method, an ACK having the key of its INVITE; keys are
abstract values with a Call-ID (`CallOf`) and a CSeq number (`CSeqOf`).  The code keeps
absolute times and compares differences; the model keeps the differences (the *age* of a time
stamp, in ticks of 500 ms), which grow with `Tick` and saturate at `Cap`, above which no
comparison distinguishes them.  `Off` is a time stamp never taken.

`SipICTList` - `CSipICTList`.  `SendInvite`, `RecvResponse` and `SendAck` are the three uses of
`Insert`; each holds the mutex once and is one action.  `AckFound`, `AckScan` and `AckRefused`
are the branches of the ACK's case.  `Execute` is one locked pass over the list, with
`Unanswered`, `GiveUp`, `RingsTooLong` and `Completed` the tests of its branches;
`TellTimeout` is the loop after the unlock.  `Tell` is the callback with
`CSipUserAgent::SetInviteResponse` behind it, which creates the ACK from the dialog; `HangUp`
deletes the dialog.  `DeleteAll` is the end of `CSipStack::Stop`.

`SipISTList` - `CSipISTList`, in the same way: `RecvInvite`, `RecvInviteAgain`, `RecvAck`
(`AckFound`, `AckScan`), `SendResponse`, `Execute`, `SendTimeout`, `DeleteAll`.

`InviteTransaction` - a caller's client list and a callee's server list (two INSTANCEs) that
share a set of datagrams.  A datagram may be received any number of times, in any order, or
never, until it is `MaxDelay` ticks old.

`InviteContract` - the abstract specification: per INVITE a caller and a callee, no time and
no messages.  The caller learns the callee's answer and no other, or gives up; the callee is
called once and sees its answer confirmed only after the caller learned how the INVITE ended.
`KeepsContract` is the refinement, through the mapping at the end of `InviteTransaction`; a
callee that is called again for the same INVITE is back in "offered", which is no step of the
contract.

### 3.2 Non-INVITE transactions

`SipNICTList` and `SipNISTList` - `CSipNICTList` and `CSipNISTList`: `SendRequest`,
`RecvResponse`, `Tell`, `Execute`, `TellTimeout`, `DeleteCancel` (the final response to an
INVITE drops the transaction of its CANCEL), `DeleteAll`; `RecvRequest`, `RecvRequestAgain`,
`SendResponse`, `Execute`, `DeleteAll`.  They have no ACK, and the 408 is made only when there
was no response at all.

`NonInviteTransaction` composes the two as `InviteTransaction` does, and either stack may
stop.  `NonInviteContract` is what it implements: a request is carried out at most once, and
its sender learns the answer that was given, or that there was none, and never the one after
the other.

### 3.3 Calls

`SipUserAgent` - the dialog map.  `dialog[c]` records which time stamps are taken and whether
the copy of the received INVITE is there.  `todo[t]` is what thread `t` does after its last
unlock: messages to send, callbacks to make, sections to lock again, in the order of the code.
The first locked section of a handler is the action that fills `todo[t]`; `SendSipMessage`,
`CallBack`, `InsertDialog`, `AnswerReInvite`, `CancelInvite`, `SetCallEnd` and `Delete` are
the steps that follow.  `StopCall` has the four cases of the code (`StopConnected`,
`StopIncoming`, `StopOutgoing`, `StopNothing`).  The layer below appears as the contract
promises it: `pending` are the calls whose INVITE has no final response yet, `PeerResponds`
gives one, `InviteTimeout` is the 408, `SendTimeout` the report of `CSipISTList`.  A 302
without a Contact makes no second INVITE (`Reports`, `CallAgain`, `ReportResponse`).  The
actions of the peer are external.  A CANCEL may come for any call whose INVITE or re-INVITE
the peer sent, and `RecvCancelRequest` finds a dialog by its Call-ID alone.  When that is a
call of the application which is not connected here, there is no copy of an INVITE to make
the 487 from: the code goes through a NULL pointer (`SipUserAgentCancel.hpp:53-59`), `NullInvite`
is that state, and the thread does not go on from it.

`SipServerCalls` - KSipServer's calls.  `calls` and `trans` are the two `CCallMap`s, `rtp` is
`m_bStop` of each pair of ports, `dialog` and `pending` are `SipUserAgent` seen from its
callbacks, an operation of the user agent being one step.  The callbacks take no lock of
their own: `todo[t]` holds the sections thread `t` has still to do, each with the Call-IDs and
the port that the handler read before, so a section works on what may no longer be true.
`RecvInvite`, `RecvCancel`, `RecvBye`, `RecvOk`, `RecvError`, `RecvRefer` begin a handler;
there is one action per section (`CreatePort`, `CreateCall`, `Insert`, `StartCall`,
`EventCallStart`, `EventCallEnd`, `SaveCdr`, `Delete`, `Reconnect`, `Join`, ...).  `RtpThread`
is the end of the relay thread, which gives the ports back.  `StartCall`, the one that sends
the INVITE made by `CreateCall`, has no failing branch (`SipServerUserAgent.hpp:259-265`): it
returns what `SendSipMessage` does, which is false only for an INVITE whose key the client list
has already (`SipICTList.cpp:57-96`), and `CreateInvite` has just drawn a new branch
(`SipDialog.cpp:58-63`); a failing `Send` is not looked at (`SipStackComm.hpp:36-45`).

`SipRegister` - KSipServer's trunks.  `Load` is its main thread, which holds the mutex of
`CSipServerMap` while it calls `InsertRegisterInfo` and `DeleteRegisterInfo`;
`SendRegister` is the register thread; `RecvRegisterResponse` is the handler in a receiving
thread, which calls `EventRegister` with the list's mutex held (`eventRegister`), and that
callback takes the map's mutex.  `RecvTimeout` is the end of a REGISTER without a response of
the server: the 408 of `CSipNICTList`, or the 503 of a TCP connection that failed, has no
`m_strClientIp`, so that the handler finds no trunk and changes nothing; `silent` are the trunks
this happened to.  `TcpSessionEnd` clears the login of a trunk.  `BeginStop`, `DeRegister` and
`EndStop` are `CSipUserAgent::Stop`.  `bindings` is what the servers of the trunks believe; it
ends by a REGISTER, or by `Expire` when the user agent is not about to refresh it.

`SipTcpClient` - messages over TCP.  A sending thread looks the address up and, without the
map's mutex, writes to the socket it found (`SocketFound`, `SocketSend`: by then its number may
be another connection's) or, if there is none, enters the message in `CTcpConnectMap`; the first one starts a connecting
thread (`Connect`, `Start`), the others wait (`Wait`).  The connecting thread connects, sends
what waits (`SendFirst`, `Delete`, `Settle`), and hands the socket through a pipe to the
polling thread (`SendCommand`, `RecvCommand`), which closes it at last (`CloseSession`,
`CloseSocket`, `DecreaseSocketCount`).  A closed socket number is given out again.
`useCount` is `m_iUseCount`, changed without a lock: `Change` may lose one of two changes at
the same time.

### 3.4 Proofs

`SipICTListProofs`, `SipISTListProofs`, `InviteTransactionProofs`, `NonInviteTransactionProofs`,
`SipRegisterProofs`, `SipUserAgentProofs`, `SipServerCallsProofs` and `SipTcpClientProofs` hold
the theorems of section 6.

Definitions whose comment begins with "Mutant" change another definition the way a mistake in
that code would; `PROJECT.json` pairs each with the property that then fails.

## 4. The runs

| Run | Instance | What it shows |
|---|---|---|
| `ict` | 2 INVITEs of a call, one on UDP and one on TCP; table of 3, Timer D 2, ring timeout 3 ticks; statuses 180, 200, 401, 660; two receiving threads | types, table bound, `NoStrayAck`, `NoSilentEnd`, `NoTimeoutAfterAck`; under fairness every INVITE is reported |
| `ist` | 2 INVITEs of a call, a third key that only an ACK has; statuses 180, 200, 401, 487 | ACK matching, give-up and its report, life of the reported 200, the table's end (`TypeOK`); under fairness answered INVITEs end |
| `invite` | 2 INVITEs of a call, network delay 1 tick | no false timeout, the contract |
| `calls` | one call from either side, one receiving, two application and the stack thread; up to 3 INVITEs; statuses 200, 401, 486 | the nine properties of the calls, with `AcceptCall`, `StopCall` and forwarding in two threads at once; under fairness every call is reported |
| `calls_redirect` | two application threads, status 302 added; violation expected | finding 1 |
| `calls_unacked` | two application threads; violation expected | finding 2 |
| `pbx` | one caller, one call to it and one from the server, one port, forwarding; 2 receiving threads and the stack thread | whichever leg ends first: both end, one record, the ports return, no pair without legs |
| `pbx_services` | 2 callers, 3 legs of the server, 2 blocks of ports, all services; 1 receiving thread and the stack thread | what every leg and every port belongs to after any sequence of transfers and pick-ups |
| `non_invite` | one request, which may be a CANCEL; table of 4, delay 1 tick, Timer J as long as the table | executed at most once, the contract; under fairness every request is reported |
| `register` | one trunk, 2 open REGISTERs, any of which may get no response | the list agrees with the server; under fairness a deleted trunk leaves |
| `register_timeout` | the same; violation expected | finding 3 |
| `tcp` | 2 messages to a peer, one of them sent again; 2 sending and 2 connecting threads, 2 sockets, one session per polling thread | no message is used after its deletion or counted for ever, none waits in vain, sockets are accounted for |

**Bounds.**  Two INVITEs of one call are what all the interference between transactions needs:
branch and Call-ID confusion involve a transaction and one other.  The tables are shortened
(2 to 4 instead of 11 entries) and the timers scaled so that every branch of `Execute` happens
and timers expire in every order that the real ones allow; `Cap` is the largest limit.  Three
INVITEs in `calls` give a first INVITE, a retry with credentials and a re-INVITE, or re-INVITEs
of both sides.  Calls do not share state other than the map, so one Call-ID is enough.  A 180
takes no time stamp of a dialog and makes no message, and is left out of `calls` for its size;
with it the nine properties hold as well (2 965 201 states, five minutes).

Non-INVITE transactions are found by their key and nothing else, so one key is enough; two
independent ones were checked too (283 139 states).  Trunks share only the two mutexes and
`Stop`, so `register` has one; two REGISTERs are what an old answer needs to meet a new
request.  `pbx` has the two legs of a call and two threads to handle them at once, the code's
default being ten (`SipServerSetup.cpp:62`); `pbx_services` has the single thread that the
shipped `SipServer.xml` sets, with a second call and a leg for a transfer, and all the services
together.  In `tcp`, `MaxUseCount` bounds how often the transaction sends again, `raced` lets
one change of each count be lost, and `SYMMETRY` permutes threads and sockets, which nothing
orders (only invariants are checked there; without symmetry the same instance has 14.2 million
states and passes).

Distinct states: `ict` 224 055, `ist` 93 767, `invite` 697 621, `calls` 751 931, `pbx` 39 581,
`pbx_services` 1 178 387, `non_invite` 2 761, `register` 70 577, `tcp` 2 177 285.

`CHECK_DEADLOCK FALSE` is used where the system may really stop: a call ends, and with it all
that `calls` and the PBX runs have to do; the connections of `tcp` are closed when every
message is gone; `register` has a deadlock of the code, see below, and a stopped user agent.

**Fairness.**  The lists: weak fairness of `Tick`, `Execute` and of the callbacks - the clock
advances, the stack thread loops until `Stop` and a thread that runs is not suspended for
ever.  Nothing is assumed of the user agent, the peer or the network.  In `non_invite`, `Tick`
is strongly fair, since copies of a datagram may arrive without end within a tick and disable
it for a moment, and the answering user agent, strongly fair too, gives a final response to
what it is asked.  The calls: weak fairness of every thread's next step, of delivery of what is
in `inbox`, and of `InviteTimeout`, which is what `EveryInviteReported` of the lists justifies.
The application and the peer are under no obligation.  The PBX: weak fairness of every thread
that handles something and of the relay threads; `FinalResponse` is strongly fair (the thread
that tells it may be busy again and again) and again what the lists justify.  Registration:
the threads run, and every REGISTER ends, by its response or without one; a server that is
asked again and again accepts at last, and one of its acceptances arrives (strong fairness, of
the network and of a mutex that others take in between).

**Assumptions that a reader should know.**

* `Disciplined` (runs `ict`, `invite`): the user agent has one open INVITE per call and an
  INVITE gets one final response.  The code does not enforce it: `HoldCall` and `ResumeCall`
  send a re-INVITE whatever is outstanding.  `NoSilentEnd` and `NoTimeoutAfterAck` are proved
  without it; `NoStrayAck` and `EveryInviteReported` need it.
* `overtaken` (run `invite`): responses overtake each other only in a call of one INVITE.
  Otherwise a late 180 replaces the stored 200 (`SipICTList.cpp:120`), the repeated 200 is told
  again and is acknowledged with the re-INVITE's branch (`SipDialog.cpp:82`), and
  `KeepsContract` does not hold.
* `Punctual`: no 500 ms tick passes while something is due in a list that is polled every 20 ms.
* `CalledAgain` excepts an INVITE answered by 401: its ACK deletes the server transaction at
  once (`SipISTList.cpp:117-122`), and a copy that comes later is offered again.
* `MaxDelay` is 1 tick in `non_invite`.  The last retransmission leaves at 31.5 s and Timer J
  ends at 32 s, so a copy that the network holds for half a second is executed again: with 2
  `KeepsContract` fails.
* `calls` has one receiving thread, the default (`SipStackSetup.cpp`).  With two, a CANCEL can be
  handled between the 180 and the insertion of the dialog and is lost for the call.
* `Proper` (runs `ist`, `invite`): the second final response of an INVITE is the 487 of a CANCEL
  that raced `AcceptCall`, and is sent before the 200 is retransmitted, within 500 ms.  The code
  does not enforce it.  A 487 that came half a minute later would replace the 200
  (`SipISTList.cpp:151-157`), which is deleted at once when nobody sends it
  (`SipDeleteQueue.cpp:48-52`), while `Execute` may still hold it.
* The process ends in `NullInvite`; `EveryCallReported` promises nothing then.
* `HoldCall` is used on connected calls and after the last re-INVITE was answered.
* The PBX: a phone sends one REFER per leg, when no event of the leg is being handled; a 200
  carries an SDP.
* `broken` names the legs a handler of the PBX leaves alone: the caller's CANCEL crosses the
  callee's 200 (`AcceptCall` fails and its result is not looked at); a transfer whose
  transferor has ended (the pair is inserted under an empty Call-ID); `EventTransfer` that
  returns false after it deleted both pairs; a blind transfer's leg answered before
  `TransMap.Insert`; `TransEnd` against `EventCallStart`; a pick-up that cannot join; a CANCEL
  before `Insert`.  `lost` names the ports that go with them, and those that are lost when
  `CreateCall` of a forwarded call, the `StartCall` of a blind transfer (`StartTrans`) or the
  look-up of the user a transfer calls anew (`StartNew`) fails, or that a leg keeps as its second
  port, which `SetStop` does not know.  The properties say that nothing else is lost.
* `mixed` names the trunks whose REGISTERs the code cannot tell apart: deleted, or deregistered
  at the stop, while a REGISTER with an expiry is open; deleted twice; inserted again while old
  REGISTERs are open; answered by 423 during deletion; left when `Stop` gives up waiting.
* `silent` names the trunks whose last REGISTER got no response (finding 3); `LoginIsTrue` and
  `DeletedTrunkLeaves` except them, and `register_timeout` is the run about them.
* `Expire`: a server keeps a binding as long as the user agent will refresh it in time, since the
  half of the expiry that is left then is longer than the 32 s of a transaction, and while a
  REGISTER of the trunk is open.
* The deadlock of `register` is there (operator `Deadlock`): the main thread holds the trunk
  map's mutex and waits for the list's, a receiving thread holds the list's in `EventRegister`
  and waits for the map's.  `DeletedTrunkLeaves` and `LoginIsTrue` say what holds unless it
  happens.
* TCP: the stack is stateful with one polling thread, and the result of writing is ignored, as
  in the code.  A message is given up, and no more is promised of it, when the attempt ended
  between `Connect` and `Wait`, or is older than its timeout, and `orphans` are the addresses
  whose thread could not be started.  `leaked` are the sockets nobody closes: a connecting
  thread that cannot send its first message returns without closing.  `SetUseTimeout(false)` is
  never copied to the session (`TcpSessionList.cpp:30`, `246`), so sessions time out.

## 5. Findings

1. **`StopCall` after a 302** (`calls_redirect`).  `SetInviteResponse` takes `m_sttEndTime`
   before it follows the redirection.  From then on `StopCall` sends neither CANCEL nor BYE,
   keeps the dialog and returns true; its comment promises one or the other.
2. **A 200 without ACK** (`calls_unacked`).  `CSipISTList::Execute` hands `SendTimeout` the 200,
   whose CSeq method is INVITE; `CSipUserAgent::SendTimeout` acts only on the method ACK.  The
   call stays in the dialog map as connected.
3. **A REGISTER without response** (`register_timeout`).  `RecvRegisterResponse` looks for the
   trunk by user id and client IP address, which the 408 of the transaction and the 503 of a
   failed connection do not have.  The send time stays set, so a trunk that is not logged in is
   never registered again, and the response time stays 0, so one that is logged in is never
   refreshed; the register thread's comment says it sends REGISTERs periodically.  Only the end
   of a TCP session, or a deletion of a trunk that is logged in, starts it again.

## 6. What is proved

TLAPS proves the theorems below for every value of the constants: any number of INVITEs,
calls, trunks and threads, any retransmission table and timers.  They rest on the named
assumptions of the modules (`ListAssumption`, `ICTAssumption`, `ISTAssumption`,
`InviteTransactionAssumption`, `NonInviteAssumption`, `UserAgentAssumption`,
`SipServerCallsAssumption`, `SipTcpClientAssumption`: the kinds of the constants, which TLC
evaluates in the runs) and, where a theorem names them, on the hypotheses `Disciplined`,
`Numbered`, `Timely`, `Prompt`, `OneReceiver` and `PlainCalls` below.

| Module | Theorem | Property |
|---|---|---|
| `SipICTListProofs` | `Invariance`, `TypeCorrect`, `NoReadPastTable`, `NoInviteLost`, `AckStopsTimers`, `NoAckGoesAstray` | `TypeOK`, `ReSendIndexInTable`, `NoSilentEnd`, `NoTimeoutAfterAck`, `NoStrayAck` |
| `SipISTListProofs` | `TypeCorrect`, `NoForeignAck`, `NoDanglingResponse`, `NoAcceptLost` | `TypeOK`, `AckedByOwnAck`, `UnackedStillHeld`, `NoLostAccept` |
| `InviteTransactionProofs` | `Invariance`, `ContractKept`, `NobodyTimesOutFalsely` | `KeepsContract`, `NoFalseTimeout` |
| `NonInviteTransactionProofs` | `TypeCorrect`, `ContractKept` | `TypeOK`, `KeepsContract` |
| `SipRegisterProofs` | `TypeCorrect`, `NoTrunkForgotten`, `LoginIsRegistered` | `TypeOK`, `NoForgottenRegistration`, `LoginIsTrue` |
| `SipUserAgentProofs` | `TypeCorrect`, `AnsweredOnce`, `CancelFindsInvite`, `NoCallAfterStop`, `StopEffective`, `EndIsLast`, `CancelNotLost`, `NoConnectedCallLost` | `TypeOK`, `OneAnswer`, `CancelHasInvite`, `NoInviteAfterCancel`, `StopTakesEffect`, `NothingAfterEnd`, `CancelAnswered`, `ConnectedEndsWithBye` |
| `SipServerCallsProofs` | `TypeCorrect`, `Invariance`, `GhostsNever`, `OrphansNever`, `RecordsKept`, `PortsComeBack`, `PairsHavePorts` | `TypeOK`, `NoGhostPair`, `NoOrphanLeg`, `EveryCallRecorded`, `PortsReturn`, `PairHasPort` |
| `SipTcpClientProofs` | `Invariance`, `TypeCorrect`, `NoSocketLost`, `NoMessageForgotten`, `MessagesOutliveUses` | `TypeOK`, `SocketsAccounted`, `NoneWaitsInVain`, `MessagesLiveWhileUsed` |

The invariants that make the induction work, and why the property alone does not:

* `SipICTListProofs`: `IInv` adds `AckedIsStopped`, `TimedOutAreGone` (an INVITE whose 408 is
  not delivered yet is not in the list), `AckIsOfTold` (the user agent acknowledges what it
  was told) and `StoppedIsTold` (a stopped transaction is one whose end the user agent knows,
  is about to hear, or that a stray ACK stopped).  `NoSilentEnd` speaks of transactions that
  left the list; what they were while they were in it must be known before.  `NoStrayAck` needs
  `DInv`, which is about a `Disciplined` user agent only: a call has one INVITE that is open
  for the user agent or still runs in the list (`OneLive`), the dialog holds that one
  (`LatestIsLive`) and its ACK carries its own branch (`AckIsOwn`); that the next INVITE of the
  call does not find the last one running is what `FinalIsHeld`, `AckIsPending`,
  `ConnectErrorStops` and `AbandonedIsOver` are for: between the final response and its ACK a
  callback is under way, unless the dialog is gone.
* `SipISTListProofs`: `FinalIsResponse`, `StoppedIsSettled` (a transaction with a stop time
  holds its ACK or has a final response, a 200 being reported or about to be) and
  `UnackedIsAccepted` (the INVITE whose 200 `Execute` keeps after the unlock is in the list, still
  holds that 200, and has been retransmitted) with `AckedByOwnAck`: the loop after the unlock
  works on state that other threads may have changed, and these say what they cannot change.
  That it was retransmitted is what excludes a 487 in its place, by `Proper`.
* `InviteTransactionProofs`: the refinement has a step of `InviteContract` for every action of
  the caller and the callee, and none for the network.  Four invariants say why no other step
  can happen.  `BasicInv` has the types and what was not told yet.  `AnswerInv`: an INVITE has
  one final response, and every one that is held, sent, called back or told is that one, or
  Execute's 408, which is then the only thing told.  `DisciplineInv` is what `DInv` is above,
  here with a network that repeats responses: as long as no response overtook another, a call
  has one INVITE that lives (`OneLive`, `LatestIsLive`), its ACK is its own (`AckIsOwn`,
  `AckIsPending`, `FinalIsHeld`); afterwards the call has only one INVITE
  (`AloneIfOvertaken`); in both cases an ACK that the callee accepts is of an INVITE whose
  caller knows the answer (`AckIsOfTold`).  `TimeInv`: a copy of the INVITE that the network
  may still deliver was sent before the server's transaction stopped, and the caller sends no
  more of them (`StoppedIsDue`, `InviteIsFresh`); so nothing is on its way when `CSipISTList`
  forgets the INVITE (`ForgottenIsOver`) and it is not offered again, unless it was answered by
  401 (`ReofferedIsChallenged`).  The hypotheses: `Disciplined`; `Numbered`, the INVITEs of a call
  have different CSeq numbers, as `CSipDialog` counts them; `Timely`, the table is sorted and
  no datagram is on its way longer than the 5 seconds that `StopTime` stands for.

  `NoFalseTimeout` counts retransmissions, and what stops them is far from the counter: the
  INVITE arrives, is answered, the answer arrives, is told, and the ACK arrives.  `DeliveryInv`
  says that no station of this way forgets what the one before it did: who received a copy of
  the INVITE holds its answer (`ReceivedWasSent`, `AnswerIsHeld`), whose answer came has heard
  it (`ReceivedIsHeard`, `HeardWasAnswered`), and who received the ACK holds it, unless the
  INVITE was offered again (`ReceivedIsAcked`).  On it rest the two deadlines of `PunctualInv`.
  `AnswerIsDue`: for a caller that waits, the INVITE or a response is on its way and as old as
  the time it waits, or at most `MaxDelay` younger; so it waits less than twice `MaxDelay`.
  `AckIsDue`: for a 200 without ACK, the 200 is on its way, or is being told, or its ACK is on
  its way, none of them late; otherwise the caller gave up or hung up.  The theorem assumes
  `Prompt` as well: an INVITE and its response have arrived before the last retransmission.
  In the code that is 31.5 s (`SipTransactionList.cpp:22`) for two datagrams of at most 5 s.
  `invite` satisfies it with equality; with `MaxDelay` 2 in that run TLC finds the property
  violated, the last copy of the INVITE leaving while the first is still on its way.
* `NonInviteTransactionProofs`: the refinement needs three invariants.  `ReportInv` says where
  everything that is held, on its way, called back or told comes from: a response of the
  server's user agent, or Execute's 408, which is then the only thing that is ever reported of
  its request.  `TimeInv` is about the clock: a copy of a request is on its way no longer than
  `LastSend + MaxDelay` after the server answered, and the client, whose request is older than
  the answer, sends no more copies when the server forgets it (`RequestIsFresh`,
  `AnsweredAfterBegun`, `ForgottenIsOver`).  `OneFinal` says that the answer is the same
  whenever it is repeated.  The theorem assumes `Timely`: the retransmission table is sorted
  and `LastSend + MaxDelay <= TimerJ`.  In the code these are 31.5 s and 32 s, which leaves a
  datagram half a second; section 4 says what happens with a slower network.
* `SipRegisterProofs`: `OpenEnds`, `OpenAgrees`, `AnswerAgrees` and `EventAgrees` tie every
  REGISTER that is open, every answer under way and every callback begun to the list and to
  the server's binding, for the trunks that are not `mixed`; the two properties are about the
  list and the binding only, and a step in between would break them.  `LoginIsTrue` needs why
  a server does not forget a trunk that is logged in: `LoginIsKept`, the register thread is going
  to refresh it, or its REGISTER is open, or it is `silent`; `SilentIsOver`, a silent trunk
  has none open; and `DeadlockStays`, since in the deadlock nothing is refreshed.
* `SipUserAgentProofs`: everything the threads have still to do is one set, `AllTasks`, and the
  lemmas `NewTasks`, `TasksStay` and `DialogStep` say of an arbitrary step which tasks it adds,
  which it is through with and what it does to a dialog.  On these rest `AnswerSpent` (a call
  with an answer is not unanswered), `CallMade` (a dialog exists only after an INVITE of either
  side; the dialog of a received call has its copy of the INVITE until it is connected, which
  is why a CANCEL of such a call finds it) and `StopKept` (a cancel time means that a CANCEL was made, an end time that
  the application hears of the end).  `StopEffective` assumes that 302 is not among the
  statuses, as finding 1 shows it must.  `EndIsLast` and `CancelNotLost` are about the order of
  what the threads have left, which `AllTasks` forgets: `Moves` says that a step begins a
  handler, continues one after its locked section, or takes one task, and `Tidy` that a locked
  section comes last, that `EventCallEnd` is followed by the deletion of the dialog and the 180
  by its insertion, and that all of these but a 408 belong to a receiving thread.  With
  `AfterInvite` (whatever there is of a call follows its first INVITE), `QuietAfterEnd` is
  inductive: after `EventCallEnd` only a 408 is left to tell, and a dialog that is still there
  is what its receiving thread deletes next.  For the CANCEL, `WaitsForAnswer` says that a
  received call that is not answered has a dialog that is not connected and that nothing
  deletes, and `RungIsKnown` that the dialog is there after the 180 or its insertion is still
  to do, and `CancelAfterRinging` that the CANCEL comes after the 180.  `CancelFindsInvite`
  and `CancelNotLost` are about the calls the peer made; on those of the application the first
  is false (`NullInvite`).  Both theorems assume `OneReceiver`, the stack's default; with two receiving threads
  they are false.  `NoConnectedCallLost` needs no such hypothesis.  A dialog is deleted by a
  later locked section than the one that decided it, and what must not happen in between is
  that the call becomes connected.  `DeleteIsDue` says why it cannot: the peer has ended the
  call, or the INVITE has failed and the dialog is cancelled, or has neither a start time nor
  another INVITE open.
  That there is no other one is `OneOpen`: a call has at most one INVITE that is to be sent,
  pending, or answered by a message on its way.  `IncomingClosed`, `OutgoingNoInvite` and
  `CrossedInvite` keep the calls of the peer apart from those of the application, and
  `PeerEnds` ties the sections that end a call to the BYE or CANCEL that came.
* `SipServerCallsProofs`: `TypeCorrect` holds with every service.  The port of an entry has no
  bound: an attended transfer of a phone that was called makes the pair anew from the second
  half of its block (`CallMap.cpp:69-81`), so the ports of the entries wander by two each time,
  and `TypeInv` keeps only that they are the first of a half of a block.  The other theorems
  assume `PlainCalls`, that forwarding is the only service, and hold for any number of legs, of
  ports and of receiving threads.  `CallsInv` is about what threads know that is no longer true.
  `Handlers` lists what a handler can be from each of its sections on, and `PlainSteps` and
  `PlainTurns` reduce every step to a thread that turns the rest `r` of its handler into `s`;
  there is one lemma per part of the invariant for such a step (`Pairs_1`, `Ending_1`, ...).
  `SetupAlone` and `PlacedInv`: a leg that is being made is known to one thread and inserted
  once.  `Pairs`, `Dialogs`, `Ending`, `Starting` and `BrokenPairs` tie the map, the dialogs and
  the Call-IDs a handler has read before: both are still a pair, or neither is in the map.
  `NoOrphanLeg` and `NoGhostPair` speak of threads at rest; in between, every dialog has its
  peer, is being set up or is going (`Covered`), the peer of a pair that is being deleted is
  going too (`PeerLeaves`), and a pair without a leg is about to be deleted (`PairsGo`).
  `Records` says that a leg which is stopped, or whose pair is deleted, has its record before.
  `PortsInv`: a port is stopped, lost, in the hands of one thread, or that of one pair.
* `SipTcpClientProofs`: `ClientInv` says what a connecting thread holds at each of its steps,
  `SocketInv` that every open socket has exactly one owner (a connecting thread, the pipe, the
  polling thread, or nobody: `leaked`) and that `socketCount` counts the last two exactly.
  `CountInv` says that a message's `useCount`, unless two threads changed it at the same time,
  is never less than its uses in the map of connections, in lists and in sending threads, and
  exact while no attempt was given up for an `orphan`; the uses are finite sets, so that their
  number can change by one.  `LifeInv` adds what the transaction lists lend (`LentKept`,
  `GivenUp`).  `Spec` gives all of this for any number of threads, sockets and messages.

Only model-checked: the properties of `SipServerCalls` with pick-up and transfers, where
`pbx_services` has one receiving thread (all six invariants hold in its instance).  With two receiving threads
TLC finds `NoOrphanLeg` violated by each of these services, `NoGhostPair` by both transfers,
`PortsReturn` and `EveryCallRecorded` by attended transfer: their handlers leave more than
`broken` and `lost` name, so `PlainCalls` cannot simply be dropped.  Liveness (`EveryInviteReported`,
`EveryAnsweredInviteEnds`, `EveryCallReported`, `EveryRequestReported`, `BothLegsEnd`,
`DeletedTrunkLeaves`) is out of the prover's reach and stays with TLC.

## 7. Not modelled

* `CSipStack`: the stateless mode, the order of `Start` and `Stop` beyond the end of the lists,
  the checks of a message's header fields.
* TCP and TLS: reading and framing, more than one polling thread, the end of the stack.  TLS
  repeats the structure of TCP with a handshake.  UDP is the network of the transactions.
* The receive queue: `m_iTcpCallBackThreadCount` is 0 in the stack and in `KSipServer`.
* The calls: SDP, media addresses, tags and the route set, PRACK, NOTIFY, MESSAGE, OPTIONS,
  which copy fields or send one message in one locked section.
* The registrar and the nonces of `KSipServer`: two maps with one locked section per request;
  the digest and the XML files are functions of strings and I/O.  Its `StopCallAll`.
* Registration: NAT keepalives, a REGISTER that `SendSipMessage` refuses, and
  `UpdateRegisterInfo`, which `CSipServerMap` never reaches.
* `SipLoadBalancer`: tables that are independent of calls; the lock order of its two maps is
  among the hazards.  `TcpStack` and `HttpStack`: not used by the SIP stack.
* The parsers: sequential functions of strings; what the lists use of them (key, method,
  Call-ID, CSeq) is modelled where it is used.
* Platform wrappers, demonstrations, tests, Android and MFC copies of the libraries, and the
  vendored openssl, opensrtp and WpdPack.  These are most of the repository's lines: the
  program's own core (`SipStack`, `SipUserAgent`, `KSipServer` and what they need) is about
  19 500 of some 217 000 lines.
