------------------------------ MODULE UaServer ------------------------------
(***************************************************************************)
(* The server half of ua.c.  Two threads share one UA_SERVER: the owner,   *)
(* which calls UaCreateServer and later UaTerminateServer, and the worker  *)
(* UaCreateServer starts, which receives one message after another into    *)
(* Server->PortMessage and handles it.  Allocation, port creation, thread  *)
(* creation, accepting and the OnConnect callback may each fail.           *)
(*                                                                         *)
(* The value of the closed ConnectionPortHandle stays in the UA_SERVER     *)
(* until the worker is gone; the process may give that value to another    *)
(* handle meanwhile ("foreign").  The worker then receives what was sent   *)
(* to another port: a stray.                                               *)
(***************************************************************************)
EXTENDS AlpcPort, FiniteSets

CONSTANTS
    HandleReuse,    \* TRUE: a closed handle's value may be handed out again
    ReceiveMayFail, \* TRUE: receiving may fail although the port is open
    ReplyMayFail    \* TRUE: replying to, or refusing, a client that waits may
                    \* fail

ASSUME ServerAssumption ==
    /\ HandleReuse \in BOOLEAN
    /\ ReceiveMayFail \in BOOLEAN
    /\ ReplyMayFail \in BOOLEAN

VARIABLES
    opc,          \* where the owner is
    heap,         \* which of the server's three allocations are live
    hport,        \* Server->ConnectionPortHandle
    wpc,          \* where the worker is
    wexit,        \* which of its two breaks ended the worker
    msg,          \* the contents of Server->PortMessage
    contexts,     \* clients with a live PORT_CONTEXT
    commHandles,  \* clients whose CommunicationPortHandle is open
    handled,      \* per client: the last send OnRequest or OnDatagram was given
    unanswered    \* observed: the clients whose reply or refusal failed while
                  \* they waited for it

serverVars == <<opc, heap, hport, wpc, wexit, msg, contexts, commHandles,
                handled, unanswered>>

\* A message of another port of the process, from nobody this server knows.
Strays == [type : Types, client : {Null}]

Allocations == {"Server", "MessageAttributes", "PortMessage"}

ServerTypeOK ==
    /\ opc \in {"off", "attributes", "message", "port", "thread", "cleanup",
                "running", "joining", "terminated"}
    /\ heap \subseteq Allocations
    /\ hport \in {"unset", "valid", "stale", "foreign"}
    /\ wpc \in {"none", "receive", "waiting", "astray", "stray", "process",
                "reply", "cancel", "accept", "reject", "exited"}
    /\ wexit \in {"none", "receive", "process"}
    /\ msg \in Message \cup Strays \cup {Null}
    /\ contexts \subseteq Clients
    /\ commHandles \subseteq Clients
    /\ handled \in [Clients -> 0..MaxSends]
    /\ unanswered \subseteq Clients

ServerInit ==
    /\ opc = "off"
    /\ heap = {}
    /\ hport = "unset"
    /\ wpc = "none"
    /\ wexit = "none"
    /\ msg = Null
    /\ contexts = {}
    /\ commHandles = {}
    /\ handled = [c \in Clients |-> 0]
    /\ unanswered = {}

-----------------------------------------------------------------------------
\* The owner: UaCreateServer.  Its first allocation failing returns NULL and
\* changes nothing, so only its success is an action.

workerVars == <<wpc, wexit, contexts, commHandles, handled, unanswered>>

Allocate(x, next) ==
    /\ heap' = heap \cup {x}
    /\ opc' = next
    /\ UNCHANGED <<hport, msg, workerVars, portVars>>

CreateFails ==
    /\ opc' = "cleanup"
    /\ UNCHANGED <<heap, hport, msg, workerVars, portVars>>

AllocateServer ==
    /\ opc = "off"
    /\ Allocate("Server", "attributes")

\* MessageAttributes; AlpcInitializeMessageAttribute may fail after it.
AllocateAttributes ==
    /\ opc = "attributes"
    /\ \/ Allocate("MessageAttributes", "message")
       \/ Allocate("MessageAttributes", "cleanup")
       \/ CreateFails

AllocateMessage ==
    /\ opc = "message"
    /\ \/ Allocate("PortMessage", "port")
       \/ CreateFails

CreatePort ==
    /\ opc = "port"
    /\ \/ /\ SysCreatePort
          /\ hport' = "valid"
          /\ opc' = "thread"
          /\ UNCHANGED <<heap, msg, workerVars>>
       \/ CreateFails

\* From here on clients and the owner go on while the worker runs.
StartWorker ==
    /\ opc = "thread"
    /\ \/ /\ wpc' = "receive"
          /\ opc' = "running"
          /\ UNCHANGED <<heap, hport, wexit, msg, contexts, commHandles, handled,
                         unanswered, portVars>>
       \/ CreateFails

\* A variant of the cleanup that forgets the port.
CleanupFreesOnly ==
    /\ opc = "cleanup"
    /\ heap' = {}
    /\ hport' = "unset"
    /\ msg' = Null
    /\ opc' = "off"
    /\ UNCHANGED <<workerVars, portVars>>

\* The Cleanup label: what was obtained is given back, and NULL returned.
Cleanup ==
    /\ opc = "cleanup"
    /\ IF hport # "unset" THEN SysClosePort ELSE UNCHANGED portVars
    /\ heap' = {}
    /\ hport' = "unset"
    /\ msg' = Null
    /\ opc' = "off"
    /\ UNCHANGED workerVars

-----------------------------------------------------------------------------
\* The owner: UaTerminateServer.

\* A variant that waits for a worker it has not told to stop.
TerminateClosesNothing ==
    /\ opc = "running"
    /\ opc' = "joining"
    /\ UNCHANGED <<heap, hport, msg, workerVars, portVars>>

\* NtClose(Server->ConnectionPortHandle)
TerminateClosesPort ==
    /\ opc = "running"
    /\ SysClosePort
    /\ hport' = "stale"
    /\ opc' = "joining"
    /\ UNCHANGED <<heap, msg, workerVars>>

\* A variant that does not wait for the worker's thread.
WorkerIsDoneUnwaited == TRUE

\* NtWaitForSingleObject(Server->ServerThreadHandle) has returned.
WorkerIsDone == wpc = "exited"

TerminateFrees ==
    /\ opc = "joining"
    /\ WorkerIsDone
    /\ heap' = heap \ Allocations
    /\ hport' = "unset"
    /\ msg' = Null
    /\ opc' = "terminated"
    /\ UNCHANGED <<workerVars, portVars>>

\* The rest of the process opens a handle that gets the closed handle's value,
\* and closes it again.
ReuseHandle ==
    /\ HandleReuse
    /\ \/ hport = "stale" /\ hport' = "foreign"
       \/ hport = "foreign" /\ hport' = "stale"
    /\ UNCHANGED <<opc, heap, msg, workerVars, portVars>>

-----------------------------------------------------------------------------
\* The worker: UaServerWorker.

ownerVars == <<opc, heap, hport>>

\* What the worker keeps of its clients.
clientState == <<contexts, commHandles, handled, unanswered>>

GoTo(l) == wpc' = l /\ UNCHANGED wexit

Exit(why) == wpc' = "exited" /\ wexit' = why

\* What follows a handler: the loop goes on, or breaks on a failure status.
Returns(ok) == IF ok THEN GoTo("receive") ELSE Exit("process")

\* The call enters the kernel with the handle's value: it waits at the port
\* the handle names then, and a handle that names none fails the call.
EnterReceive ==
    /\ wpc = "receive"
    /\ \/ hport = "valid" /\ GoTo("waiting")
       \/ hport = "foreign" /\ GoTo("astray")
       \/ hport = "stale" /\ Exit("receive")
    /\ UNCHANGED <<ownerVars, msg, clientState, portVars>>

Receive ==
    /\ wpc = "waiting"
    /\ SysReceive
    /\ msg' = Head(queue)
    /\ GoTo("process")
    /\ UNCHANGED <<ownerVars, clientState>>

\* A variant that handles Server->PortMessage even when receiving failed.
AfterFailedReceiveProcess ==
    IF msg = Null THEN Exit("receive") ELSE GoTo("process")

AfterFailedReceive == Exit("receive")

\* The port was closed under the call, or the call fails for want of resources.
ReceiveFails ==
    /\ wpc = "waiting"
    /\ port = "closed" \/ ReceiveMayFail
    /\ AfterFailedReceive
    /\ UNCHANGED <<ownerVars, msg, clientState, portVars>>

\* The port a foreign handle names has a message.
AstrayReceive ==
    /\ wpc = "astray"
    /\ msg' \in Strays
    /\ GoTo("stray")
    /\ UNCHANGED <<ownerVars, clientState, portVars>>

\* The port a foreign handle names is closed by its owner, or is no port.
AstrayReceiveFails ==
    /\ wpc = "astray"
    /\ Exit("receive")
    /\ UNCHANGED <<ownerVars, msg, clientState, portVars>>

-----------------------------------------------------------------------------
\* The worker: UaProcessMessage, one action per case and per system call.

Processing(types) == wpc = "process" /\ msg.type \in types

\* A variant that never calls OnRequest and OnDatagram.
HandNothing == UNCHANGED handled

\* The message is handed to OnRequest or OnDatagram.
Hand == handled' = [handled EXCEPT ![msg.client] = msg.data.n]

\* AlpcGetMessageAttribute finds the context attribute in a buffer that was
\* initialised with it.
HasContextAttribute == "MessageAttributes" \in heap

\* UaAlpcRequest: OnRequest answers in place.
UaAlpcRequest ==
    /\ Processing({"REQUEST"})
    /\ Hand
    /\ msg' = [msg EXCEPT !.data.answered = TRUE]
    /\ GoTo("reply")
    /\ UNCHANGED <<ownerVars, contexts, commHandles, unanswered, portVars>>

\* A variant, the one of the older library: the reply's status is returned.
ReplyStatusOfTheCall(delivered) == Returns(delivered)

\* UaAlpcRequest ignores the status of the reply.
ReplyStatus(delivered) == Returns(TRUE)

Deliverable(c) == hport = "valid" /\ call[c] = "request"

\* The reply to c, or the refusal of c, fails for want of resources: c waits on.
LeftWaiting(c) ==
    /\ ReplyMayFail
    /\ unanswered' = unanswered \cup {c}
    /\ UNCHANGED portVars

\* The reply is sent with the handle, whatever it names by now.
UaAlpcRequestReplies ==
    /\ wpc = "reply"
    /\ \/ /\ IF hport = "valid" THEN SysReply(msg.client, msg.data)
                                ELSE UNCHANGED portVars
          /\ ReplyStatus(Deliverable(msg.client))
          /\ UNCHANGED unanswered
       \/ /\ Deliverable(msg.client)
          /\ LeftWaiting(msg.client)
          /\ ReplyStatus(FALSE)
    /\ UNCHANGED <<ownerVars, msg, contexts, commHandles, handled>>

\* A variant that never cancels a message that requires a continuation.
NeedsCancelNever == FALSE

NeedsCancel == msg.cont

UaAlpcDatagram ==
    /\ Processing({"DATAGRAM"})
    /\ IF HasContextAttribute
         THEN /\ Hand
              /\ IF NeedsCancel THEN GoTo("cancel") ELSE Returns(TRUE)
         ELSE Returns(FALSE) /\ UNCHANGED handled
    /\ UNCHANGED <<ownerVars, msg, contexts, commHandles, unanswered, portVars>>

UaAlpcDatagramCancels ==
    /\ wpc = "cancel"
    /\ IF hport = "valid" THEN SysCancel(msg.client) ELSE UNCHANGED portVars
    /\ Returns(TRUE)
    /\ UNCHANGED <<ownerVars, msg, clientState>>

\* A variant that leaves the PORT_CONTEXT allocated.
FreeContextNot(c) == contexts

FreeContext(c) == contexts \ {c}

\* A variant of the switch that takes every message it does not know for the
\* end of a connection.
DisconnectTypesOrDefault == {"PORT_CLOSED", "CLIENT_DIED", "OTHER"}

\* A variant without the case for the death of a client.
DisconnectTypesClosedOnly == {"PORT_CLOSED"}

DisconnectTypes == {"PORT_CLOSED", "CLIENT_DIED"}

\* UaAlpcDisconnect: returns the status of NtClose.
UaAlpcDisconnect ==
    /\ Processing(DisconnectTypes)
    /\ IF HasContextAttribute
         THEN /\ commHandles' = commHandles \ {msg.client}
              /\ contexts' = FreeContext(msg.client)
              /\ Returns(msg.client \in commHandles)
         ELSE Returns(FALSE) /\ UNCHANGED <<contexts, commHandles>>
    /\ UNCHANGED <<ownerVars, msg, handled, unanswered, portVars>>

\* A variant, the one of the demonstration server: without memory for the
\* context the request is neither accepted nor refused.
WithoutContextIgnore == Exit("process")

\* A variant that returns success without having refused.
WithoutContextGoOn == Returns(TRUE)

WithoutContext == GoTo("reject")

\* UaAlpcConnect up to its first NtAlpcAcceptConnectPort: OnConnect agrees and
\* there is memory for the context, or the connection is to be refused.
UaAlpcConnect ==
    /\ Processing({"CONNECTION_REQUEST"})
    /\ \/ contexts' = contexts \cup {msg.client} /\ GoTo("accept")
       \/ UNCHANGED contexts /\ WithoutContext
    /\ UNCHANGED <<ownerVars, msg, commHandles, handled, unanswered, portVars>>

UaAlpcConnectAccepts ==
    /\ wpc = "accept"
    /\ \/ /\ hport = "valid"
          /\ SysAccept(msg.client)
          /\ commHandles' = commHandles \cup {msg.client}
          /\ Returns(TRUE)
       \/ UNCHANGED <<commHandles, portVars>> /\ GoTo("reject")
    /\ UNCHANGED <<ownerVars, msg, contexts, handled, unanswered>>

Refusable(c) == hport = "valid" /\ CanAccept(c)

\* The call with AcceptConnection FALSE, and the context freed if there is one.
UaAlpcConnectRejects ==
    /\ wpc = "reject"
    /\ \/ /\ IF hport = "valid" THEN SysReject(msg.client) ELSE UNCHANGED portVars
          /\ UNCHANGED unanswered
       \/ Refusable(msg.client) /\ LeftWaiting(msg.client)
    /\ contexts' = FreeContext(msg.client)
    /\ Returns(TRUE)
    /\ UNCHANGED <<ownerVars, msg, commHandles, handled>>

\* The default case: every type that has no case of its own.
ProcessOther ==
    /\ Processing(Types \ ({"REQUEST", "DATAGRAM", "CONNECTION_REQUEST"}
                            \cup DisconnectTypes))
    /\ Returns(TRUE)
    /\ UNCHANGED <<ownerVars, msg, clientState, portVars>>

\* The same handlers on a stray: they close, free, accept and answer what is the
\* other port's, through contexts its owner made.  A type in "failing" is of a
\* handler whose status may be a failure.
ProcessStray(failing) ==
    /\ wpc = "stray"
    /\ \/ GoTo("receive")
       \/ msg.type \in failing /\ Exit("process")
    /\ UNCHANGED <<ownerVars, msg, clientState, portVars>>

\* Only UaAlpcDisconnect returns the status of a call.
UaProcessStray == ProcessStray(DisconnectTypes)

-----------------------------------------------------------------------------
UaCreateServer ==
    \/ AllocateAttributes
    \/ AllocateMessage
    \/ CreatePort
    \/ StartWorker
    \/ Cleanup

UaProcessMessage ==
    \/ UaAlpcRequest
    \/ UaAlpcRequestReplies
    \/ UaAlpcDatagram
    \/ UaAlpcDatagramCancels
    \/ UaAlpcDisconnect
    \/ UaAlpcConnect
    \/ UaAlpcConnectAccepts
    \/ UaAlpcConnectRejects
    \/ ProcessOther
    \/ UaProcessStray

UaServerWorker ==
    \/ EnterReceive
    \/ Receive
    \/ ReceiveFails
    \/ UaProcessMessage

\* The worker waits and nothing has come: that this ends is nobody's promise.
Idle == wpc = "waiting" /\ port = "open" /\ queue = <<>>
=============================================================================
