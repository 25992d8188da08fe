---------------------------- MODULE SipUserAgent ----------------------------
(***************************************************************************)
(* The calls of a SIP user agent: the dialog map of CSipUserAgent, used by *)
(* the threads that receive messages, by the stack thread (timeouts) and   *)
(* by the threads of the application.                                      *)
(*                                                                         *)
(* A method of CSipUserAgent locks the map, looks at the dialog, changes   *)
(* it and unlocks; what it then does without the lock (sending messages,   *)
(* calling the application back, locking again) is what the thread has     *)
(* still to do, one step each.  Between two steps every other thread may   *)
(* run.  A callback may itself call StopCall, AcceptCall and the others:   *)
(* the model lets a thread of the application make the call at that point. *)
(*                                                                         *)
(* The transaction layer below is taken as its specifications promise: it  *)
(* delivers a message at most once, and every INVITE gets one final        *)
(* response, from the peer or the 408 of the stack thread.  A request that *)
(* EventIncomingRequestAuth refuses is one that does not arrive.           *)
(***************************************************************************)
EXTENDS Naturals, Sequences, FiniteSets, Functions

CONSTANTS
  Call,         \* SIP Call-IDs, of calls the application or a peer starts
  Receiver,     \* threads that receive messages
  App,          \* threads of the application
  Stack,        \* the stack thread
  Status,       \* status codes of the responses the peer gives to an INVITE
  MaxInvites    \* bound: INVITEs of one call in both directions, repeated ones included

ASSUME UserAgentAssumption ==
  /\ Receiver \cap App = {}
  /\ Stack \notin Receiver \cup App
  /\ Status \subseteq 101 .. 699
  /\ MaxInvites \in Nat \ {0}

Thread == Receiver \cup App \cup {Stack}

SIP_RINGING == 180
SIP_SESSION_PROGRESS == 183
SIP_OK == 200
SIP_MULTIPLE_CHOICES == 300
SIP_MOVED_TEMPORARILY == 302
SIP_UNAUTHORIZED == 401
SIP_PROXY_AUTHENTICATION_REQUIRED == 407
SIP_REQUEST_TIME_OUT == 408
SIP_GONE == 410
SIP_REQUEST_TERMINATED == 487
SIP_NOT_ACCEPTABLE_HERE == 488
SIP_DECLINE == 603
SIP_CONNECT_ERROR == 660

VARIABLES
  dialog,     \* m_clsDialogMap
  todo,       \* per thread, what is left of its handler after the last unlock
  inbox,      \* messages on their way to the user agent
  sent,       \* messages the user agent sent
  invites,    \* how many INVITEs the user agent and the peer made for a call
  pending,    \* calls with an INVITE that has no final response yet
  peer,       \* what the peer of a call did: subsets of PeerAct
  told,       \* callbacks the application got for the present dialog of a call
  late,       \* callbacks after EventCallEnd
  stopped,    \* <<call, was it connected>> of the present dialogs StopCall found
  answers,    \* final responses made to the INVITE of the present dialog
  timeouts,   \* calls whose 200 was reported as not acknowledged
  ghosts      \* calls whose present dialog was made by a re-INVITE that came after the
              \* dialog of the call had been deleted

vars == <<dialog, todo, inbox, sent, invites, pending, peer, told, late, stopped,
          answers, timeouts, ghosts>>

history == <<late, stopped, answers, timeouts, ghosts>>

\* m_sttStartTime, m_sttEndTime, m_sttCancelTime are taken; m_pclsInvite # NULL.
CSipDialog == [start : BOOLEAN, end : BOOLEAN, cancel : BOOLEAN, invite : BOOLEAN]

\* Mutant: the constructor does not clear m_sttCancelTime.
NewDialogWithoutCancel(received) == [start |-> FALSE, end |-> FALSE, invite |-> received]

NewDialog(received) ==
  [start |-> FALSE, end |-> FALSE, cancel |-> FALSE, invite |-> received]

PeerAct == {"INVITE", "ReINVITE", "CANCEL", "BYE", "answered"}

\* A message, a callback or a locked section.  A request has the status 0.
Step(do, c, name, s) == [do |-> do, call |-> c, name |-> name, status |-> s]
Send(c, method, s)   == Step("send", c, method, s)
Event(c, name, s)    == Step("event", c, name, s)
Lock(c, section)     == Step("lock", c, section, 0)
Message(c, method, s) == [call |-> c, name |-> method, status |-> s]

Methods == {"INVITE", "ACK", "CANCEL", "BYE"}
Events == {"EventIncomingCall", "EventReInvite", "EventReInviteResponse",
           "EventCallRing", "EventCallStart", "EventCallEnd"}
Sections == {"InsertDialog", "AnswerReInvite", "CancelInvite", "SetCallEnd", "Delete"}

Task == [do : {"send"}, call : Call, name : Methods, status : 0 .. 699]
        \cup [do : {"event"}, call : Call, name : Events, status : 0 .. 699]
        \cup [do : {"lock"}, call : Call, name : Sections, status : {0}]

TypeOK ==
  /\ DOMAIN dialog \subseteq Call
  /\ \A c \in DOMAIN dialog : dialog[c] \in CSipDialog
  /\ todo \in [Thread -> Seq(Task)]
  /\ inbox \cup sent \subseteq [call : Call, name : Methods, status : 0 .. 699]
  /\ invites \in [Call -> 0 .. MaxInvites]
  /\ pending \subseteq Call
  /\ peer \in [Call -> SUBSET PeerAct]
  /\ told \cup late \subseteq [call : Call, name : Events, status : 0 .. 699]
  /\ stopped \subseteq Call \X BOOLEAN
  /\ timeouts \cup ghosts \subseteq Call
  /\ answers \in [Call -> Nat]

Init ==
  /\ dialog = [c \in {} |-> NewDialog(TRUE)]
  /\ todo = [t \in Thread |-> <<>>]
  /\ inbox = {}
  /\ sent = {}
  /\ invites = [c \in Call |-> 0]
  /\ pending = {}
  /\ peer = [c \in Call |-> {}]
  /\ told = {}
  /\ late = {}
  /\ stopped = {}
  /\ answers = [c \in Call |-> 0]
  /\ timeouts = {}
  /\ ghosts = {}
-----------------------------------------------------------------------------
\* A thread without work begins a handler that leaves steps to do.
Begin(t, steps) == todo[t] = <<>> /\ todo' = [todo EXCEPT ![t] = steps]

Queued(step) == \E t \in Thread : \E i \in DOMAIN todo[t] : todo[t][i] = step

Known(c) == c \in DOMAIN dialog
Put(c, d) == dialog' = [b \in DOMAIN dialog \cup {c} |-> IF b = c THEN d ELSE dialog[b]]
Remove(c) == dialog' = Restrict(dialog, DOMAIN dialog \ {c})

\* CSipDialog::CreateInvite, here or at the peer, makes one more INVITE.
CreateInvite(c) ==
  /\ invites[c] < MaxInvites
  /\ invites' = [invites EXCEPT ![c] = @ + 1]

CountAnswer(c) == answers' = [answers EXCEPT ![c] = @ + 1]

\* An incoming call that is neither answered nor rejected.
Unanswered(c) == Known(c) /\ ~ dialog[c].start /\ dialog[c].invite

\* StartCall, or CreateCall and the StartCall that sends its INVITE.
StartCall(t, c) ==
  /\ invites[c] = 0
  /\ CreateInvite(c)
  /\ Put(c, NewDialog(FALSE))
  /\ Begin(t, <<Send(c, "INVITE", 0)>>)
  /\ UNCHANGED <<inbox, sent, pending, peer, told, history>>

StopConnected(t, c) ==
  /\ dialog[c].start
  /\ ~ dialog[c].end
  /\ Remove(c)
  /\ Begin(t, <<Send(c, "BYE", 0)>>)
  /\ UNCHANGED answers

StopIncoming(t, c) ==
  /\ Unanswered(c)
  /\ Remove(c)
  /\ Begin(t, <<Send(c, "INVITE", SIP_DECLINE)>>)
  /\ CountAnswer(c)

StopOutgoing(t, c) ==
  /\ ~ dialog[c].start
  /\ ~ dialog[c].invite
  /\ ~ dialog[c].cancel
  /\ ~ dialog[c].end
  /\ Put(c, [dialog[c] EXCEPT !.cancel = TRUE])
  /\ Begin(t, <<Send(c, "CANCEL", 0)>>)
  /\ UNCHANGED answers

\* StopCall returns true and has nothing to do.
StopNothing(t, c) ==
  /\ \/ dialog[c].start /\ dialog[c].end
     \/ /\ ~ dialog[c].start
        /\ ~ dialog[c].invite
        /\ dialog[c].cancel \/ dialog[c].end
  /\ Begin(t, <<>>)
  /\ UNCHANGED <<dialog, answers>>

StopCall(t, c) ==
  /\ Known(c)
  /\ \/ StopConnected(t, c) \/ StopIncoming(t, c) \/ StopOutgoing(t, c) \/ StopNothing(t, c)
  /\ stopped' = stopped \cup {<<c, dialog[c].start>>}
  /\ UNCHANGED <<inbox, sent, invites, pending, peer, told, late, timeouts, ghosts>>

\* StopCall with the number the call is forwarded to.
ForwardCall(t, c) ==
  /\ Unanswered(c)
  /\ Remove(c)
  /\ Begin(t, <<Send(c, "INVITE", SIP_MOVED_TEMPORARILY)>>)
  /\ CountAnswer(c)
  /\ UNCHANGED <<inbox, sent, invites, pending, peer, told, late, stopped, timeouts, ghosts>>

RingCall(t, c) ==
  /\ Unanswered(c)
  /\ Begin(t, <<Send(c, "INVITE", SIP_SESSION_PROGRESS)>>)
  /\ UNCHANGED <<dialog, inbox, sent, invites, pending, peer, told, history>>

\* Mutant: the start time is not taken.
AcceptedWithoutStart(d) == [d EXCEPT !.invite = FALSE]
\* Mutant: the copy of the INVITE is not given up and the start time is not taken.
AcceptedUnchanged(d) == d

Accepted(d) == [d EXCEPT !.start = TRUE, !.invite = FALSE]

AcceptCall(t, c) ==
  /\ Unanswered(c)
  /\ Put(c, Accepted(dialog[c]))
  /\ Begin(t, <<Send(c, "INVITE", SIP_OK)>>)
  /\ CountAnswer(c)
  /\ UNCHANGED <<inbox, sent, invites, pending, peer, told, late, stopped, timeouts, ghosts>>

\* HoldCall and ResumeCall, of an application that uses them as the transaction layer
\* needs it: on connected calls, and not before the last re-INVITE is answered.
HoldCall(t, c) ==
  /\ Known(c)
  /\ dialog[c].start
  /\ c \notin pending
  /\ ~ Queued(Send(c, "INVITE", 0))
  /\ \A m \in inbox : m.call = c => m.status < SIP_OK
  /\ CreateInvite(c)
  /\ Begin(t, <<Send(c, "INVITE", 0)>>)
  /\ UNCHANGED <<dialog, inbox, sent, pending, peer, told, history>>
-----------------------------------------------------------------------------
Receive(c, method, s) ==
  /\ Message(c, method, s) \in inbox
  /\ inbox' = inbox \ {Message(c, method, s)}

\* RecvInviteRequest: no SDP, a re-INVITE, a new call.
RecvInviteRequest(t, c) ==
  /\ Receive(c, "INVITE", 0)
  /\ \/ Begin(t, <<Send(c, "INVITE", SIP_NOT_ACCEPTABLE_HERE)>>)
     \/ Known(c) /\ Begin(t, <<Event(c, "EventReInvite", 0), Lock(c, "AnswerReInvite")>>)
     \/ ~ Known(c) /\ Begin(t, <<Send(c, "INVITE", SIP_RINGING), Lock(c, "InsertDialog")>>)
  /\ UNCHANGED <<dialog, sent, invites, pending, peer, told, history>>

RecvCancelRequest(t, c) ==
  /\ Receive(c, "CANCEL", 0)
  /\ Begin(t, <<Send(c, "CANCEL", SIP_OK), Lock(c, "CancelInvite")>>)
  /\ UNCHANGED <<dialog, sent, invites, pending, peer, told, history>>

RecvByeRequest(t, c) ==
  /\ Receive(c, "BYE", 0)
  /\ Begin(t, <<Send(c, "BYE", SIP_OK), Lock(c, "SetCallEnd")>>)
  /\ UNCHANGED <<dialog, sent, invites, pending, peer, told, history>>

Challenge(s) == s \in {SIP_UNAUTHORIZED, SIP_PROXY_AUTHENTICATION_REQUIRED}
Success(s) == s >= SIP_OK /\ s < SIP_MULTIPLE_CHOICES

\* Mutant: m_sttCancelTime is not looked at.
RetriesCancelled(d, s) == Challenge(s) \/ (s = SIP_MOVED_TEMPORARILY /\ ~ d.start)

\* The INVITE is sent once more, with credentials or to the new target.
Retries(d, s) ==
  /\ ~ d.cancel
  /\ Challenge(s) \/ (s = SIP_MOVED_TEMPORARILY /\ ~ d.start)

\* Mutant: an error response to a re-INVITE takes the end time too.
RespondedToReInvite(d, s) ==
  [d EXCEPT !.start = @ \/ Success(s),
            !.end = @ \/ (s >= SIP_MULTIPLE_CHOICES /\ ~ Challenge(s))]

Responded(d, s) ==
  [d EXCEPT !.start = @ \/ Success(s),
            !.end = @ \/ (s >= SIP_MULTIPLE_CHOICES /\ ~ Challenge(s) /\ ~ d.start)]

\* Mutant: the application is not told of a challenge that is not answered.
ReportWithoutChallenge(d, c, s) ==
  IF Challenge(s) THEN <<>>
  ELSE IF s < SIP_OK THEN <<Event(c, "EventCallRing", s)>>
  ELSE IF d.start THEN <<Event(c, "EventReInviteResponse", s)>>
  ELSE IF Success(s) THEN <<Event(c, "EventCallStart", s)>>
  ELSE <<Event(c, "EventCallEnd", s), Lock(c, "Delete")>>

\* Mutant: an error response to a re-INVITE ends the call.
ReportAsInitial(d, c, s) ==
  IF s < SIP_OK THEN <<Event(c, "EventCallRing", s)>>
  ELSE IF d.start /\ Success(s) THEN <<Event(c, "EventReInviteResponse", s)>>
  ELSE IF Success(s) THEN <<Event(c, "EventCallStart", s)>>
  ELSE <<Event(c, "EventCallEnd", s), Lock(c, "Delete")>>

\* What the application is told of a response that is not answered by an INVITE.
Report(d, c, s) ==
  IF s < SIP_OK THEN <<Event(c, "EventCallRing", s)>>
  ELSE IF d.start /\ ~ Challenge(s) THEN <<Event(c, "EventReInviteResponse", s)>>
  ELSE IF Success(s) THEN <<Event(c, "EventCallStart", s)>>
  ELSE <<Event(c, "EventCallEnd", s), Lock(c, "Delete")>>

\* A 302 need not have a Contact to call again.
Reports(d, s) == ~ Retries(d, s) \/ s = SIP_MOVED_TEMPORARILY

Ack(c, s) == IF s >= SIP_OK /\ s # SIP_CONNECT_ERROR THEN <<Send(c, "ACK", 0)>> ELSE <<>>

CallAgain(t, c, s) ==
  /\ Retries(dialog[c], s)
  /\ CreateInvite(c)
  /\ Begin(t, Ack(c, s) \o <<Send(c, "INVITE", 0)>>)

ReportResponse(t, c, s) ==
  /\ Reports(dialog[c], s)
  /\ Begin(t, Ack(c, s) \o Report(dialog[c], c, s))
  /\ UNCHANGED invites

\* RecvInviteResponse: SetInviteResponse up to its unlock.
SetInviteResponse(t, c, s) ==
  \/ ~ Known(c) /\ Begin(t, <<>>) /\ UNCHANGED <<dialog, invites>>
  \/ /\ Known(c)
     /\ CallAgain(t, c, s) \/ ReportResponse(t, c, s)
     /\ Put(c, Responded(dialog[c], s))

RecvInviteResponse(t, c, s) ==
  /\ Receive(c, "INVITE", s)
  /\ SetInviteResponse(t, c, s)
  /\ UNCHANGED <<sent, pending, peer, told, history>>

\* CSipICTList::Execute made up a 408: its delivery, in the stack thread.
InviteTimeout(c) ==
  /\ c \in pending
  /\ pending' = pending \ {c}
  /\ SetInviteResponse(Stack, c, SIP_REQUEST_TIME_OUT)
  /\ UNCHANGED <<inbox, sent, peer, told, history>>

\* CSipISTList::Execute reports a 200 that was not acknowledged.  The message is the
\* response, whose method is that of its CSeq header: INVITE.
SendTimeout(c) ==
  LET method == "INVITE"
  IN  /\ Message(c, "INVITE", SIP_OK) \in sent
      /\ c \notin timeouts
      /\ timeouts' = timeouts \cup {c}
      /\ Begin(Stack, IF method = "ACK"
                      THEN <<Event(c, "EventCallEnd", SIP_GONE), Lock(c, "Delete")>>
                      ELSE <<>>)
      /\ UNCHANGED <<dialog, inbox, sent, invites, pending, peer, told, late, stopped, answers,
                     ghosts>>
-----------------------------------------------------------------------------
\* The next step of thread t is of the given kind; it is done, and more steps may follow.
AtStep(t, do, name) == todo[t] # <<>> /\ Head(todo[t]).do = do /\ Head(todo[t]).name = name
Continue(t, more) == todo' = [todo EXCEPT ![t] = Tail(@) \o more]
ThisCall(t) == Head(todo[t]).call

SendSipMessage(t) ==
  /\ todo[t] # <<>>
  /\ LET m == Head(todo[t])
     IN  /\ m.do = "send"
         /\ sent' = sent \cup {Message(m.call, m.name, m.status)}
         /\ pending' = IF m.name = "INVITE" /\ m.status = 0
                       THEN pending \cup {m.call} ELSE pending
  /\ Continue(t, <<>>)
  /\ UNCHANGED <<dialog, inbox, invites, peer, told, history>>

CallBack(t) ==
  /\ todo[t] # <<>>
  /\ LET e == Head(todo[t])
     IN  /\ e.do = "event"
         /\ told' = told \cup {Message(e.call, e.name, e.status)}
         /\ late' = IF \E m \in told : m.call = e.call /\ m.name = "EventCallEnd"
                    THEN late \cup {Message(e.call, e.name, e.status)} ELSE late
  /\ Continue(t, <<>>)
  /\ UNCHANGED <<dialog, inbox, sent, invites, pending, peer, stopped, answers, timeouts, ghosts>>

\* The dialog of a new call; what was recorded of an earlier one is forgotten.
InsertDialog(t) ==
  LET c == ThisCall(t)
  IN  /\ AtStep(t, "lock", "InsertDialog")
      /\ IF Known(c)
         THEN /\ Continue(t, <<>>)
              /\ UNCHANGED <<dialog, told, history>>
         ELSE /\ Put(c, NewDialog(TRUE))
              /\ Continue(t, <<Event(c, "EventIncomingCall", 0)>>)
              /\ told' = {m \in told : m.call # c}
              /\ late' = {m \in late : m.call # c}
              /\ stopped' = stopped \ ({c} \X BOOLEAN)
              /\ answers' = [answers EXCEPT ![c] = 0]
              /\ timeouts' = timeouts \ {c}
              /\ ghosts' = IF invites[c] > 1 THEN ghosts \cup {c} ELSE ghosts
      /\ UNCHANGED <<inbox, sent, invites, pending, peer>>

AnswerReInvite(t) ==
  LET c == ThisCall(t)
  IN  /\ AtStep(t, "lock", "AnswerReInvite")
      /\ Continue(t, IF Known(c) THEN <<Send(c, "INVITE", SIP_OK)>> ELSE <<>>)
      /\ UNCHANGED <<dialog, inbox, sent, invites, pending, peer, told, history>>

\* Mutant: the test of m_sttStartTime is inverted.
ConnectedToCancel(c) == Known(c) /\ dialog[c].start

CanCancel(c) == Known(c) /\ ~ dialog[c].start

\* The section would make the 487 from m_pclsInvite, which is NULL: the process ends.
NullInvite(t) ==
  /\ AtStep(t, "lock", "CancelInvite")
  /\ CanCancel(ThisCall(t))
  /\ ~ dialog[ThisCall(t)].invite

\* RecvCancelRequest after its 200; the 487 is made from m_pclsInvite.
CancelInvite(t) ==
  LET c == ThisCall(t)
  IN  /\ AtStep(t, "lock", "CancelInvite")
      /\ ~ NullInvite(t)
      /\ IF CanCancel(c)
         THEN /\ Put(c, [dialog[c] EXCEPT !.end = TRUE])
              /\ Continue(t, <<Send(c, "INVITE", SIP_REQUEST_TERMINATED),
                               Event(c, "EventCallEnd", SIP_REQUEST_TERMINATED),
                               Lock(c, "Delete")>>)
         ELSE /\ Continue(t, <<>>)
              /\ UNCHANGED dialog
      /\ UNCHANGED <<inbox, sent, invites, pending, peer, told, history>>

SetCallEnd(t) ==
  LET c == ThisCall(t)
  IN  /\ AtStep(t, "lock", "SetCallEnd")
      /\ IF Known(c)
         THEN /\ Put(c, [dialog[c] EXCEPT !.end = TRUE])
              /\ Continue(t, <<Event(c, "EventCallEnd", SIP_OK), Lock(c, "Delete")>>)
         ELSE /\ Continue(t, <<>>)
              /\ UNCHANGED dialog
      /\ UNCHANGED <<inbox, sent, invites, pending, peer, told, history>>

\* Mutant: the dialog stays.
DeleteNothing(t) ==
  /\ AtStep(t, "lock", "Delete")
  /\ Continue(t, <<>>)
  /\ UNCHANGED <<dialog, inbox, sent, invites, pending, peer, told, history>>

Delete(t) ==
  /\ AtStep(t, "lock", "Delete")
  /\ Remove(ThisCall(t))
  /\ Continue(t, <<>>)
  /\ UNCHANGED <<inbox, sent, invites, pending, peer, told, history>>
-----------------------------------------------------------------------------
\* The peers.  They answer the INVITEs of the user agent, and for a call they hold:
PeerSends(c, act, method) ==
  /\ act \notin peer[c]
  /\ "BYE" \notin peer[c]
  /\ peer' = [peer EXCEPT ![c] = @ \cup {act}]
  /\ inbox' = inbox \cup {Message(c, method, 0)}
  /\ UNCHANGED <<dialog, todo, sent, pending, told, history>>

Established(c) == "answered" \in peer[c] \/ Message(c, "INVITE", SIP_OK) \in sent

PeerInvites(c) == invites[c] = 0 /\ CreateInvite(c) /\ PeerSends(c, "INVITE", "INVITE")
PeerReInvites(c) ==
  Established(c) /\ CreateInvite(c) /\ PeerSends(c, "ReINVITE", "INVITE")
PeerHangsUp(c) == Established(c) /\ UNCHANGED invites /\ PeerSends(c, "BYE", "BYE")

\* As RFC 3261 asks, the peer waits for a provisional response before its CANCEL: the 180,
\* or the 100 with which the transaction layer answers a copy of a re-INVITE.
PeerCancels(c) ==
  /\ \/ "INVITE" \in peer[c] /\ Message(c, "INVITE", SIP_RINGING) \in sent
     \/ "ReINVITE" \in peer[c] /\ Message(c, "INVITE", 0) \notin inbox
  /\ PeerSends(c, "CANCEL", "CANCEL")
  /\ UNCHANGED invites

\* Challenges and redirections end sometime: the bound MaxInvites.
PeerResponds(c, s) ==
  /\ c \in pending
  /\ Challenge(s) \/ s = SIP_MOVED_TEMPORARILY => invites[c] < MaxInvites
  /\ pending' = IF s >= SIP_OK THEN pending \ {c} ELSE pending
  /\ peer' = IF Success(s) THEN [peer EXCEPT ![c] = @ \cup {"answered"}] ELSE peer
  /\ inbox' = inbox \cup {Message(c, "INVITE", s)}
  /\ UNCHANGED <<dialog, todo, sent, invites, told, history>>

Handle(t, c) ==
  \/ RecvInviteRequest(t, c) \/ RecvCancelRequest(t, c) \/ RecvByeRequest(t, c)
  \/ \E s \in Status : RecvInviteResponse(t, c, s)

Proceed(t) ==
  \/ SendSipMessage(t) \/ CallBack(t)
  \/ InsertDialog(t) \/ AnswerReInvite(t) \/ CancelInvite(t) \/ SetCallEnd(t) \/ Delete(t)

Application(t, c) ==
  \/ StartCall(t, c) \/ StopCall(t, c) \/ ForwardCall(t, c)
  \/ RingCall(t, c) \/ AcceptCall(t, c) \/ HoldCall(t, c)

Peer(c) ==
  \/ PeerInvites(c) \/ PeerReInvites(c) \/ PeerHangsUp(c) \/ PeerCancels(c)
  \/ \E s \in Status : PeerResponds(c, s)

Next ==
  \/ \E t \in App, c \in Call : Application(t, c)
  \/ \E t \in Receiver, c \in Call : Handle(t, c)
  \/ \E t \in Thread : Proceed(t)
  \/ \E c \in Call : InviteTimeout(c) \/ SendTimeout(c) \/ Peer(c)

Spec == Init /\ [][Next]_vars

\* Every thread goes on, what is on its way arrives, and an INVITE times out when nobody
\* answers it: the promise EveryInviteReported of SipICTList.
Fairness ==
  /\ \A t \in Thread : WF_vars(Proceed(t))
  /\ \A c \in Call : WF_vars(InviteTimeout(c)) /\ WF_vars(\E t \in Receiver : Handle(t, c))

FairSpec == Spec /\ Fairness
-----------------------------------------------------------------------------
\* The user agent made the message, and sent it or is about to.
Made(c, method, s) == Message(c, method, s) \in sent \/ Queued(Send(c, method, s))

\* The application was told, or is about to be, that the call ended.
EndReported(c) ==
  \/ \E m \in told : m.call = c /\ m.name = "EventCallEnd"
  \/ \E t \in Thread : \E i \in DOMAIN todo[t] :
       todo[t][i].call = c /\ todo[t][i].name = "EventCallEnd"

\* StopCall ends the call, as its documentation says: a connected call with a BYE, a
\* received one with an error response, one that was sent with a CANCEL, unless the
\* application hears that the call has ended anyway.
StopTakesEffect ==
  \A c \in Call :
    /\ <<c, TRUE>> \in stopped => Made(c, "BYE", 0) \/ EndReported(c)
    /\ <<c, FALSE>> \in stopped =>
         Made(c, "CANCEL", 0) \/ Made(c, "INVITE", SIP_DECLINE) \/ EndReported(c)

\* No callback about a call follows its EventCallEnd, another EventCallEnd included,
\* when one thread receives the messages; a 408 is told by the stack thread and can
\* overlap with anything.
NothingAfterEnd ==
  \A m \in late :
    \/ m.status = SIP_REQUEST_TIME_OUT
    \/ Message(m.call, "EventCallEnd", SIP_REQUEST_TIME_OUT) \in told

\* AcceptCall and the two StopCalls, from any threads, make one final response to a
\* received INVITE between them.
OneAnswer == \A c \in Call : answers[c] <= 1

\* RecvCancelRequest makes its 487 from the copy of the INVITE in the dialog without a
\* look at the pointer: it is there in every call the peer made that is not connected.  In
\* a call of the application it need not be: when the peer's re-INVITE and its CANCEL
\* overtake the 200, the dialog has neither a start time nor a copy.
CancelHasInvite == \A t \in Thread : NullInvite(t) => "INVITE" \notin peer[ThisCall(t)]

\* A CANCEL that follows a provisional response is never lost on a call the peer made:
\* once RecvCancelRequest looked at the dialog, the INVITE has a final response.  With one
\* receiving thread; a second one may look before RecvInviteRequest inserts the dialog.
CancelAnswered ==
  \A c \in Call :
    \/ ~ {"INVITE", "CANCEL"} \subseteq peer[c]
    \/ Message(c, "CANCEL", 0) \in inbox
    \/ Queued(Lock(c, "CancelInvite"))
    \/ \E s \in {SIP_OK, SIP_MOVED_TEMPORARILY, SIP_REQUEST_TERMINATED,
                 SIP_NOT_ACCEPTABLE_HERE, SIP_DECLINE} : Made(c, "INVITE", s)

\* The dialog of a connected call goes away only with a BYE of one side, so that the
\* other side does not stay connected; or when a CANCEL crossed the answer, and the
\* side that cancelled has to hang up.  A re-INVITE that crosses the BYE makes a dialog
\* anew, to which answers of the former one may apply.
ConnectedEndsWithBye ==
  [][\A c \in DOMAIN dialog \ DOMAIN dialog' :
       dialog[c].start =>
         \/ Queued(Send(c, "BYE", 0))'
         \/ peer[c] \cap {"BYE", "CANCEL"} # {}
         \/ dialog[c].cancel
         \/ c \in ghosts]_vars

\* After StopCall cancelled a call that is not connected, no response makes the user
\* agent call again.
NoInviteAfterCancel ==
  [][\A c \in DOMAIN dialog :
       dialog[c].cancel /\ ~ dialog[c].start /\ Queued(Send(c, "INVITE", 0))' =>
         Queued(Send(c, "INVITE", 0))]_vars

\* The application hears EventCallStart or EventCallEnd of every call it started and that
\* waits for an answer, a cancelled one included, unless the process ends by NullInvite.
EveryCallReported ==
  \A c \in Call :
    (c \in pending /\ Known(c) /\ ~ dialog[c].start /\ ~ dialog[c].invite) ~>
      \/ \E m \in told : m.call = c /\ m.name \in {"EventCallStart", "EventCallEnd"}
      \/ \E t \in Thread : NullInvite(t)

\* When CSipISTList reports that no ACK came for a 200, the call is ended.
UnackedCallEnds ==
  \A c \in timeouts : Known(c) => dialog[c].end \/ EndReported(c)
=============================================================================
