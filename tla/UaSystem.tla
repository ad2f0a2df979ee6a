------------------------------ MODULE UaSystem ------------------------------
(***************************************************************************)
(* A server built with UaCreateServer and the clients that call it through *)
(* UaConnectServer, UaSendSynchronousRequest, UaSendDatagram and           *)
(* UaDisconnectServer: modules UaServer and UaClient around one port.      *)
(***************************************************************************)
EXTENDS UaServer, UaClient

vars == <<portVars, serverVars, clientVars>>

TypeOK == PortTypeOK /\ ServerTypeOK /\ ClientTypeOK

Init == PortInit /\ ServerInit /\ ClientInit

\* What the server's process does of itself.
ServerNext ==
    \/ AllocateServer
    \/ UaCreateServer
    \/ TerminateClosesPort
    \/ TerminateFrees
    \/ ReuseHandle
    \/ UaServerWorker
    \/ AstrayReceive
    \/ AstrayReceiveFails

ServerStep == ServerNext /\ UNCHANGED clientVars

Next ==
    \/ ServerStep
    \/ \E c \in Clients : ClientStep(c) /\ UNCHANGED serverVars

Spec == Init /\ [][Next]_vars

(***************************************************************************)
(* Threads that can run do run: a function that was entered goes on, the   *)
(* worker goes on unless it waits for a message that has not come, a       *)
(* client whose call is completed returns.  Nothing obliges the owner to   *)
(* create or terminate a server, a client to call, a receive to fail at an *)
(* open port, or another port to get a message or be closed.               *)
(***************************************************************************)
Fairness ==
    /\ WF_vars(UaCreateServer /\ UNCHANGED clientVars)
    /\ WF_vars(TerminateFrees /\ UNCHANGED clientVars)
    /\ WF_vars(UaServerWorker /\ ~Idle /\ UNCHANGED clientVars)
    /\ \A c \in Clients : WF_vars(ClientReturns(c) /\ UNCHANGED serverVars)

FairSpec == Spec /\ Fairness

-----------------------------------------------------------------------------
(***************************************************************************)
(* Safety.                                                                 *)
(***************************************************************************)

WorkerRuns == wpc \notin {"none", "exited"}

\* As long as the worker has an instruction to execute the UA_SERVER, its
\* message buffer and its attribute buffer are allocated, although another
\* thread frees them: UaTerminateServer frees only after the wait for the
\* thread, UaCreateServer's cleanup only when there is no thread.
NoUseAfterFree == WorkerRuns => heap = Allocations

\* UaCreateServer gives all or nothing: when it is not under way and there is
\* no server, no memory, no handle and no thread of a failed attempt is left,
\* and no client that reached the short-lived port is still blocked on it.
CreateAllOrNothing ==
    opc = "off" =>
      /\ heap = {}
      /\ port # "open"
      /\ wpc = "none"
      /\ \A c \in Clients : ~Blocked(c)

\* The messages that wait at the port, and the one being processed.
InHand == wpc \in {"process", "reply", "cancel", "accept", "reject"}

Notices == {"PORT_CLOSED", "CLIENT_DIED"}

\* The message at position i of what the worker still has to do: 0 is the one
\* it has received and not begun to handle.
ToDo(i) == IF i = 0 THEN msg ELSE queue[i]

ToDoPositions ==
    DOMAIN queue \cup (IF wpc = "process" THEN {0} ELSE {})

\* UaAlpcDisconnect closes the handle in the PORT_CONTEXT and frees it without
\* asking whether it is there: every notice of this port on its way to it
\* names a client that still has both, and no other message of that client
\* comes after the notice, a second notice least of all.  A notice of another
\* port, whose context is not this server's, it can meet only while
\* UaTerminateServer waits, and only where handle values are reused.
NoticeFindsContext ==
    /\ \A i \in ToDoPositions :
         ToDo(i).type \in Notices =>
           /\ ToDo(i).client \in contexts
           /\ ToDo(i).client \in commHandles
           /\ \A j \in ToDoPositions : j > i => ToDo(j).client # ToDo(i).client
    /\ wpc = "stray" => HandleReuse /\ opc = "joining"

\* A PORT_CONTEXT lives exactly as long as the handle it holds, except inside
\* UaAlpcConnect between its allocation and the accept: no context is leaked
\* by a refused connection, and no handle is left without the context that
\* alone knows it.
ContextHoldsHandle ==
    contexts = commHandles
               \cup (IF wpc = "accept" THEN {msg.client} ELSE {})
               \cup (IF wpc = "reject" THEN contexts \cap {msg.client} ELSE {})

\* The message that tells the server of the end of c is still to be handled.
Due(c) ==
    \E i \in ToDoPositions : ToDo(i).type \in Notices /\ ToDo(i).client = c

\* While the server serves, every communication handle (and so, by the
\* property above, every PORT_CONTEXT) is of a client that is connected, or
\* the message that will give it back is on its way: none is leaked however a
\* client ends.
HandlesAreLiveOrDue ==
    port = "open" => \A c \in commHandles : conn[c] = "open" \/ Due(c)

\* A client whose synchronous request succeeded holds the answer to that very
\* request, of its own and not an earlier one; one whose request failed holds
\* the request it made.
ReplyMatchesRequest ==
    \A c \in Clients :
      /\ result[c] = "answered" => buf[c].answered
      /\ result[c] = "failed" => ~buf[c].answered
      /\ result[c] \in {"answered", "failed"} =>
           buf[c].from = c /\ buf[c].n = sends[c]

\* The worker ends because receiving failed, never because of what one client
\* did: every handler returns a success status whatever became of the client it
\* served.  What a handler returns can end it only on a message of another
\* port, after the close of its own.
WorkerEndsAtReceive ==
    wexit = "process" =>
      HandleReuse /\ port # "open" /\ msg \in Strays \cup {Null}

\* A client blocked in a call is never forgotten: its message waits at the
\* port or is in the worker's hands, on a path that completes the call if the
\* worker goes on.  The one exception is a client whose reply or refusal was
\* made and failed, a status ua.c ignores.
NoForgottenClient ==
    \A c \in Clients \ unanswered :
      /\ call[c] = "connect" =>
           \/ \E i \in ToDoPositions : /\ ToDo(i).type = "CONNECTION_REQUEST"
                                       /\ ToDo(i).client = c
           \/ wpc \in {"accept", "reject"} /\ msg.client = c
      /\ call[c] = "request" =>
           \/ \E i \in ToDoPositions : /\ ToDo(i).type = "REQUEST"
                                       /\ ToDo(i).client = c
           \/ wpc = "reply" /\ msg.client = c

\* The worker never waits for the next message while the kernel retains one
\* that required a continuation: each is cancelled, or went with the port.
NothingRetained == wpc \in {"waiting", "exited"} => held = {}

\* The messages that go to a callback of the user.
Sends == {"REQUEST", "DATAGRAM"}

HandedOver(c) ==
    wpc = "process" /\ wpc' # "process" /\ msg.type \in Sends /\ msg.client = c

\* A callback never sees a message twice nor two messages of a client out of
\* order, although all pass through one buffer that is never cleared: each one
\* it is given is later than the last.
HandledInOrder ==
    [][\A c \in Clients :
         IF HandedOver(c) THEN handled'[c] > handled[c]
                          ELSE handled'[c] = handled[c]]_vars

-----------------------------------------------------------------------------
(***************************************************************************)
(* Why the types and NoUseAfterFree hold: where the owner is tells what is *)
(* allocated, what the handle is worth and whether there is a worker.      *)
(***************************************************************************)

\* The handlers run only on a message that was received.
MessageInHand ==
    /\ InHand => msg \in Message
    /\ wpc = "stray" => msg \in Strays

\* The worker is at another port only after the close of its own.
StrayInv ==
    /\ hport = "foreign" => HandleReuse
    /\ wpc \in {"astray", "stray"} => HandleReuse /\ opc = "joining"

\* Where a client is tells what the kernel knows of it: a call is blocked only
\* in a client that waits for it and on a port that is open, and only such a
\* client has passed a buffer.
CallOK(c) ==
    /\ cpc[c] = "idle" => conn[c] = "none" /\ call[c] = "idle"
    /\ cpc[c] = "connecting" =>
         \/ conn[c] = "pending" /\ call[c] = "connect" /\ port = "open"
         \/ conn[c] = "open" /\ call[c] = "ok"
         \/ conn[c] = "none" /\ call[c] = "fail"
    /\ cpc[c] = "connected" => conn[c] = "open" /\ call[c] = "idle"
    /\ cpc[c] = "requesting" =>
         /\ conn[c] = "open"
         /\ \/ call[c] = "request" /\ port = "open"
            \/ call[c] \in {"ok", "fail"}
    /\ cpc[c] \in {"closed", "dead"} => conn[c] = "closed" /\ call[c] = "idle"
    /\ cpc[c] \in {"connecting", "requesting"} <=> cmsg[c] # Null

CallInv == \A c \in Clients : CallOK(c)

OwnerInv ==
    /\ opc = "off" => heap = {} /\ hport = "unset" /\ wpc = "none"
    /\ opc = "attributes" =>
         heap = {"Server"} /\ hport = "unset" /\ wpc = "none"
    /\ opc = "message" =>
         /\ heap = {"Server", "MessageAttributes"}
         /\ hport = "unset"
         /\ wpc = "none"
    /\ opc = "port" => heap = Allocations /\ hport = "unset" /\ wpc = "none"
    /\ opc = "thread" => heap = Allocations /\ hport = "valid" /\ wpc = "none"
    /\ opc = "cleanup" => hport \in {"unset", "valid"} /\ wpc = "none"
    /\ opc = "running" => heap = Allocations /\ hport = "valid" /\ wpc # "none"
    /\ opc = "joining" =>
         heap = Allocations /\ hport \in {"stale", "foreign"} /\ wpc # "none"
    /\ opc = "terminated" => heap = {} /\ hport = "unset" /\ wpc = "exited"
    /\ port = "open" <=> hport = "valid"

CoreInv == TypeOK /\ MessageInHand /\ StrayInv /\ CallInv /\ OwnerInv

-----------------------------------------------------------------------------
(***************************************************************************)
(* Why the other safety properties hold: what is true of every message     *)
(* that is still to be handled, of two of one client, and of the one whose *)
(* handling has begun.                                                     *)
(***************************************************************************)
\* A connection request is of a client without a context, any other message of
\* one with context and handle; a notice is of one that is gone; a request is
\* the one its live client is blocked in; a send was not handled before.
MessageOK(m) ==
    /\ m.type = "CONNECTION_REQUEST" =>
         /\ m.client \notin contexts
         /\ m.client \notin commHandles
         /\ port = "open" => conn[m.client] \in {"pending", "closed"}
    /\ m.type # "CONNECTION_REQUEST" =>
         /\ m.client \in contexts
         /\ m.client \in commHandles
    /\ m.type \in Notices => conn[m.client] = "closed"
    /\ m.cont => m.type = "DATAGRAM"
    /\ m.type \in Sends =>
         m.data.n > handled[m.client] /\ m.data.n <= sends[m.client]
    /\ m.type = "REQUEST" /\ port = "open" /\ conn[m.client] = "open" =>
         call[m.client] = "request" /\ m.data = buf[m.client]

MessagesOK == \A i \in ToDoPositions : MessageOK(ToDo(i))

\* m comes before n from the same client: m is neither a connection request nor
\* a notice, and what follows a request is no send.
InOrder(m, n) ==
    m.client = n.client =>
      /\ m.type # "CONNECTION_REQUEST"
      /\ m.type \notin Notices
      /\ m.type = "REQUEST" => n.type \notin Sends
      /\ m.type \in Sends /\ n.type \in Sends => m.data.n < n.data.n

QueueInOrder ==
    \A i, j \in ToDoPositions : i < j => InOrder(ToDo(i), ToDo(j))

Answer(d) == [d EXCEPT !.answered = TRUE]

\* A handler that has begun on its message.
HandlerInv ==
    /\ wpc = "reply" =>
         /\ msg.type = "REQUEST"
         /\ msg.client \in contexts
         /\ \A j \in DOMAIN queue :
              queue[j].client = msg.client => queue[j].type \notin Sends
         /\ port = "open" /\ conn[msg.client] = "open" =>
              call[msg.client] = "request" /\ msg.data = Answer(buf[msg.client])
    /\ wpc \in {"accept", "reject"} =>
         /\ msg.client \notin commHandles
         /\ \A j \in DOMAIN queue : queue[j].client # msg.client
         /\ port = "open" => conn[msg.client] \in {"pending", "closed"}
    /\ wpc = "accept" => msg.client \in contexts

\* The kernel retains at most the message in the worker's hands.
HeldInv ==
    held \subseteq (IF wpc \in {"process", "cancel"} /\ msg.cont
                      THEN {msg.client} ELSE {})

ClosedInv == port # "open" => queue = <<>> /\ held = {}

\* The kernel's view of a connection and the worker's agree.
ConnInv ==
    \A c \in Clients :
      /\ conn[c] = "open" => c \in commHandles
      /\ conn[c] \in {"none", "pending"} => c \notin commHandles

\* A blocked request is the last send of its caller, in the caller's buffer.
DataInv ==
    \A c \in Clients :
      /\ handled[c] <= sends[c]
      /\ cpc[c] = "requesting" =>
           buf[c] = [from |-> c, n |-> sends[c], answered |-> FALSE]

\* Unless a handler's failure ended the worker nobody is forgotten.
NotForgotten == wexit # "process" => NoForgottenClient

\* Whatever ended the worker, it is gone.
ExitInv == wexit # "none" => wpc = "exited"

\* What does not depend on what a reply holds and on what a handler returns, so
\* that it is also true of FirstLibrary.
WorkInv ==
    /\ MessagesOK
    /\ QueueInOrder
    /\ HandlerInv
    /\ ContextHoldsHandle
    /\ HeldInv
    /\ ClosedInv
    /\ ConnInv
    /\ DataInv
    /\ NotForgotten
    /\ ExitInv

\* The buffer a call passed holds the request, or the answer to it.
CopyInv ==
    \A c \in Clients :
      cpc[c] = "requesting" =>
        cmsg[c] = IF call[c] = "ok" THEN Answer(buf[c]) ELSE buf[c]

\* What ua.c adds: OnRequest answers, and every handler succeeds.
AnswersInv == CopyInv /\ ReplyMatchesRequest /\ WorkerEndsAtReceive

IInv == CoreInv /\ WorkInv /\ AnswersInv

-----------------------------------------------------------------------------
(***************************************************************************)
(* Liveness, under FairSpec.                                               *)
(***************************************************************************)

\* A client's call, which passes no timeout, returns: whether it is accepted,
\* answered, refused or cut off by the port closing.  What can keep it waiting
\* is the failure of its reply or refusal, and the end of the worker with the
\* port left open.
CallReturns ==
    \A c \in Clients :
      Blocked(c) ~> (~Blocked(c) \/ c \in unanswered \/ wpc = "exited")

\* UaTerminateServer returns: the wait without timeout ends.
TerminateReturns == opc = "joining" ~> opc = "terminated"

\* Once a client has disconnected or died, its context and handle are given
\* back, unless the server is terminated or its worker ends before it learns
\* of it.
DisconnectReclaims ==
    \A c \in Clients :
      (cpc[c] \in {"closed", "dead"} /\ c \in contexts)
        ~> (c \notin contexts \/ port = "closed" \/ wpc = "exited")
=============================================================================
