----------------------------- MODULE SrvChannel -----------------------------
(***************************************************************************)
(* server.c, the demonstration program's server: SrvInitializeChannel,     *)
(* called once by main, and the worker thread it starts, which owns its    *)
(* buffers and is never told to stop.  The connection port's handle stays  *)
(* valid until the process ends.                                           *)
(***************************************************************************)
EXTENDS AlpcPort

CONSTANT Failures  \* TRUE: allocations and system calls may fail

ASSUME SrvAssumption == Failures \in BOOLEAN

VARIABLES
    ipc,           \* where SrvInitializeChannel is, or how it returned
    wpc,           \* where the worker is
    wheap,         \* which of the worker's two buffers are live
    bufferLength,  \* its BufferLength
    msg,           \* the contents of its PortMessage
    contexts,      \* clients with a live PORT_CONTEXT
    commHandles,   \* clients whose CommunicationPortHandle is open
    handled        \* per client: the last counter it was sent

srvVars == <<ipc, wpc, wheap, bufferLength, msg, contexts, commHandles, handled>>

Buffers == {"MessageAttributes", "PortMessage"}

\* Lengths: a message without a body, with a counter, and the longest.
Size(m) == IF m.type \in {"REQUEST", "DATAGRAM"} THEN 1 ELSE 0
MaxLength == 2

SrvTypeOK ==
    /\ ipc \in {"create", "thread", "ready", "failed"}
    /\ wpc \in {"none", "attributes", "initialize", "message", "receive",
                "process", "accept", "reject", "exited"}
    /\ wheap \subseteq Buffers
    /\ bufferLength \in 0..MaxLength
    /\ msg \in Message \cup {Null}
    /\ contexts \subseteq Clients
    /\ commHandles \subseteq Clients
    /\ handled \in [Clients -> 0..MaxSends]

SrvInit ==
    /\ ipc = "create"
    /\ wpc = "none"
    /\ wheap = {}
    /\ bufferLength = MaxLength
    /\ msg = Null
    /\ contexts = {}
    /\ commHandles = {}
    /\ handled = [c \in Clients |-> 0]

-----------------------------------------------------------------------------
\* SrvInitializeChannel

loopVars == <<bufferLength, msg, contexts, commHandles, handled>>

CreatePort ==
    /\ ipc = "create"
    /\ \/ SysCreatePort /\ ipc' = "thread"
       \/ Failures /\ ipc' = "failed" /\ UNCHANGED portVars
    /\ UNCHANGED <<wpc, wheap, loopVars>>

\* A variant that leaves the port open.
WithoutThreadReturn == UNCHANGED portVars

WithoutThread == SysClosePort

CreateThread ==
    /\ ipc = "thread"
    /\ \/ ipc' = "ready" /\ wpc' = "attributes" /\ UNCHANGED portVars
       \/ Failures /\ ipc' = "failed" /\ WithoutThread /\ UNCHANGED wpc
    /\ UNCHANGED <<wheap, loopVars>>

-----------------------------------------------------------------------------
\* SrvServerWorker

GoTo(l) == wpc' = l /\ UNCHANGED wheap

\* The worker returns; nothing closes the port.
Leave(freed) == wpc' = "exited" /\ wheap' = wheap \ freed

AllocateAttributes ==
    /\ wpc = "attributes"
    /\ \/ wheap' = wheap \cup {"MessageAttributes"} /\ wpc' = "initialize"
       \/ Failures /\ Leave({})
    /\ UNCHANGED <<ipc, loopVars, portVars>>

\* A variant that returns without the free.
FreedUninitializedNot == {}

FreedUninitialized == {"MessageAttributes"}

InitializeAttributes ==
    /\ wpc = "initialize"
    /\ \/ GoTo("message")
       \/ Failures /\ Leave(FreedUninitialized)
    /\ UNCHANGED <<ipc, loopVars, portVars>>

FreedWithoutMessage == {"MessageAttributes"}

AllocateMessage ==
    /\ wpc = "message"
    /\ \/ wheap' = wheap \cup {"PortMessage"} /\ wpc' = "receive"
       \/ Failures /\ Leave(FreedWithoutMessage)
    /\ UNCHANGED <<ipc, loopVars, portVars>>

\* What comes before the loop; each step that fails returns by its own way out.
Prepare == AllocateAttributes \/ InitializeAttributes \/ AllocateMessage

Freed == {"PortMessage", "MessageAttributes"}

\* The loop is left.
Exit == Leave(Freed)

Returns(ok) == IF ok THEN GoTo("receive") ELSE Exit

\* A variant that passes on what the last call left in BufferLength.
RoomLeft == bufferLength

\* BufferLength is set again before every call.
Room == MaxLength

\* A message that does not fit stays in the queue and the call fails.
Receive ==
    /\ wpc = "receive"
    /\ queue # <<>>
    /\ bufferLength' = Size(Head(queue))
    /\ IF Size(Head(queue)) <= Room
         THEN /\ SysReceive
              /\ msg' = Head(queue)
              /\ GoTo("process")
         ELSE /\ Exit
              /\ UNCHANGED <<msg, portVars>>
    /\ UNCHANGED <<ipc, contexts, commHandles, handled>>

\* A variant that handles PortMessage even when receiving failed.
AfterFailedReceiveProcess == IF msg = Null THEN Exit ELSE GoTo("process")

AfterFailedReceive == Exit

ReceiveFails ==
    /\ wpc = "receive"
    /\ Failures
    /\ AfterFailedReceive
    /\ UNCHANGED <<ipc, loopVars, portVars>>

-----------------------------------------------------------------------------
\* SrvProcessMessage

Processing(types) == wpc = "process" /\ msg.type \in types

Hand == handled' = [handled EXCEPT ![msg.client] = msg.data.n]

\* A variant that does not reply.
ReplyNothing == UNCHANGED portVars

\* The request goes back as its own reply.
Reply == SysReply(msg.client, msg.data)

OnAlpcRequest ==
    /\ Processing({"REQUEST"})
    /\ Hand
    /\ \/ Reply /\ Returns(TRUE)
       \/ Failures /\ UNCHANGED portVars /\ Returns(FALSE)
    /\ UNCHANGED <<ipc, bufferLength, msg, contexts, commHandles>>

\* OnAlpcDatagram and the cancel that follows it.
OnAlpcDatagram ==
    /\ Processing({"DATAGRAM"})
    /\ Hand
    /\ IF msg.cont THEN SysCancel(msg.client) ELSE UNCHANGED portVars
    /\ Returns(TRUE)
    /\ UNCHANGED <<ipc, bufferLength, msg, contexts, commHandles>>

\* A variant that keeps the PORT_CONTEXT.
FreeContextNot(c) == contexts

FreeContext(c) == contexts \ {c}

OnAlpcDisconnection ==
    /\ Processing({"PORT_CLOSED", "CLIENT_DIED"})
    /\ commHandles' = commHandles \ {msg.client}
    /\ contexts' = FreeContext(msg.client)
    /\ Returns(msg.client \in commHandles)
    /\ UNCHANGED <<ipc, bufferLength, msg, handled, portVars>>

\* A variant that goes on with the next message.
WithoutMemoryGoOn == Returns(TRUE)

\* Without memory for the context the request is neither accepted nor refused.
WithoutMemory == Returns(FALSE)

\* OnAlpcConnection up to its first call.
OnAlpcConnection ==
    /\ Processing({"CONNECTION_REQUEST"})
    /\ \/ contexts' = contexts \cup {msg.client} /\ GoTo("accept")
       \/ Failures /\ UNCHANGED contexts /\ WithoutMemory
    /\ UNCHANGED <<ipc, bufferLength, msg, commHandles, handled, portVars>>

OnAlpcConnectionAccepts ==
    /\ wpc = "accept"
    /\ \/ /\ SysAccept(msg.client)
          /\ commHandles' = commHandles \cup {msg.client}
          /\ Returns(TRUE)
       \/ Failures /\ GoTo("reject") /\ UNCHANGED <<commHandles, portVars>>
    /\ UNCHANGED <<ipc, bufferLength, msg, contexts, handled>>

\* The call with AcceptConnection FALSE; the context is not freed.
OnAlpcConnectionRejects ==
    /\ wpc = "reject"
    /\ \/ SysReject(msg.client) /\ Returns(TRUE)
       \/ Failures /\ UNCHANGED portVars /\ Returns(FALSE)
    /\ UNCHANGED <<ipc, loopVars>>

SrvInitializeChannel == CreatePort \/ CreateThread

SrvProcessMessage ==
    \/ OnAlpcRequest
    \/ OnAlpcDatagram
    \/ OnAlpcDisconnection
    \/ OnAlpcConnection
    \/ OnAlpcConnectionAccepts
    \/ OnAlpcConnectionRejects

SrvServerWorker == Prepare \/ Receive \/ ReceiveFails \/ SrvProcessMessage
=============================================================================
