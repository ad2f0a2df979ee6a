--------------------------- MODULE ObjectLibrary ---------------------------
(***************************************************************************)
(* AdvancedLocalProcedureCall.c, the generation of the library before      *)
(* ua.c.  Its server half lives in a SERVER_OBJECT; its client half keeps  *)
(* each connection in a CLIENT_OBJECT it allocates, which SrvConnectServer *)
(* returns or NULL; the sends return TRUE or FALSE.                        *)
(***************************************************************************)
EXTENDS AlpcPort

\* As in module UaServer: what the rest of the process, receiving, and replying
\* to a client that waits may do.
CONSTANTS HandleReuse, ReceiveMayFail, ReplyMayFail

ASSUME LibraryAssumption ==
    {HandleReuse, ReceiveMayFail, ReplyMayFail} \subseteq BOOLEAN

VARIABLES
    owner,         \* where the thread that creates and terminates the server is
    serverObject,  \* the live ones of the server's three allocations
    handle,        \* ServerObject->ConnectionPortHandle
    worker,        \* where the worker is
    status,        \* which call's failure was its last Status
    portMessage,   \* the contents of ServerObject->PortMessage
    portContexts,  \* per client: its PORT_CONTEXT, without or with its handle
    given,         \* per client: the last send OnRequest or OnDatagram was given
    unserved,      \* observed: the clients whose reply or refusal failed while
                   \* they waited for it
    place,         \* per client: where its thread is
    objects,       \* per client: its CLIENT_OBJECT, without or with its handle
    dataBuffer,    \* per client: its RequestDataBuffer
    sent,          \* per client: how many sends it has made
    outcome        \* observed per client: the way out of its last call

libServerVars == <<owner, serverObject, handle, worker, status, portMessage,
                   portContexts, given, unserved>>

libClientVars == <<place, objects, dataBuffer, sent, outcome>>

libVars == <<portVars, libServerVars, libClientVars>>

LibInit ==
    /\ PortInit
    /\ owner = "off"
    /\ serverObject = {}
    /\ handle = "unset"
    /\ worker = "none"
    /\ status = "none"
    /\ portMessage = Null
    /\ portContexts = [c \in Clients |-> "none"]
    /\ given = [c \in Clients |-> 0]
    /\ unserved = {}
    /\ place = [c \in Clients |-> "idle"]
    /\ objects = [c \in Clients |-> "none"]
    /\ dataBuffer = [c \in Clients |-> NoData(c)]
    /\ sent = [c \in Clients |-> 0]
    /\ outcome = [c \in Clients |-> "none"]

-----------------------------------------------------------------------------
\* SrvCreateServer, one action per call that may fail.

libWorkerVars == <<worker, status, portContexts, given, unserved>>

GotoCleanup ==
    /\ owner' = "cleanup"
    /\ UNCHANGED <<serverObject, handle, portMessage, libWorkerVars, portVars>>

Allocated(part, next) ==
    /\ serverObject' = serverObject \cup {part}
    /\ owner' = next
    /\ UNCHANGED <<handle, portMessage, libWorkerVars, portVars>>

AllocateServerObject ==
    /\ owner = "off"
    /\ Allocated("Server", "attributes")

AllocateMessageAttributes ==
    /\ owner = "attributes"
    /\ Allocated("MessageAttributes", "initialize") \/ GotoCleanup

InitializeMessageAttribute ==
    /\ owner = "initialize"
    /\ \/ /\ owner' = "message"
          /\ UNCHANGED <<serverObject, handle, portMessage, libWorkerVars,
                         portVars>>
       \/ GotoCleanup

AllocatePortMessage ==
    /\ owner = "message"
    /\ Allocated("PortMessage", "port") \/ GotoCleanup

CreatePort ==
    /\ owner = "port"
    /\ \/ /\ SysCreatePort
          /\ handle' = "valid"
          /\ owner' = "thread"
          /\ UNCHANGED <<serverObject, portMessage, libWorkerVars>>
       \/ GotoCleanup

CreateThread ==
    /\ owner = "thread"
    /\ \/ /\ worker' = "receive"
          /\ owner' = "running"
          /\ UNCHANGED <<serverObject, handle, status, portMessage, portContexts,
                         given, unserved, portVars>>
       \/ GotoCleanup

\* The Cleanup label gives back what is not NULL.
Cleanup ==
    /\ owner = "cleanup"
    /\ IF handle = "unset" THEN UNCHANGED portVars ELSE SysClosePort
    /\ serverObject' = serverObject \ {"MessageAttributes", "PortMessage", "Server"}
    /\ handle' = "unset"
    /\ portMessage' = Null
    /\ owner' = "off"
    /\ UNCHANGED libWorkerVars

SrvCreateServer ==
    \/ AllocateServerObject
    \/ AllocateMessageAttributes
    \/ InitializeMessageAttribute
    \/ AllocatePortMessage
    \/ CreatePort
    \/ CreateThread
    \/ Cleanup

-----------------------------------------------------------------------------
\* SrvTerminateServer up to its wait.
SrvTerminateServer ==
    /\ owner = "running"
    /\ SysClosePort
    /\ handle' = "stale"
    /\ owner' = "joining"
    /\ UNCHANGED <<serverObject, portMessage, libWorkerVars>>

\* The thread has ended: its memory is freed.
SrvTerminateServerReturns ==
    /\ owner = "joining"
    /\ worker = "exited"
    /\ serverObject' = serverObject \ {"PortMessage", "MessageAttributes", "Server"}
    /\ handle' = "unset"
    /\ portMessage' = Null
    /\ owner' = "terminated"
    /\ UNCHANGED <<libWorkerVars, portVars>>

\* The rest of the process gets the closed handle's value for another, and
\* closes that.
OthersUseHandle ==
    /\ HandleReuse
    /\ \/ handle = "stale" /\ handle' = "foreign"
       \/ handle = "foreign" /\ handle' = "stale"
    /\ UNCHANGED <<owner, serverObject, portMessage, libWorkerVars, portVars>>

-----------------------------------------------------------------------------
\* SrvServerWorker.

ownerVars == <<owner, serverObject, handle>>

contextVars == <<portContexts, given, unserved>>

WorkerGoesTo(l) == worker' = l /\ UNCHANGED status

WorkerReturns(reason) == worker' = "exited" /\ status' = reason

ReceiveOn ==
    /\ worker = "receive"
    /\ \/ handle = "valid" /\ WorkerGoesTo("waiting")
       \/ handle = "foreign" /\ WorkerGoesTo("astray")
       \/ handle = "stale" /\ WorkerReturns("receive")
    /\ UNCHANGED <<ownerVars, portMessage, contextVars, portVars>>

MessageReceived ==
    /\ worker = "waiting"
    /\ SysReceive
    /\ portMessage' = Head(queue)
    /\ WorkerGoesTo("process")
    /\ UNCHANGED <<ownerVars, contextVars>>

NothingReceived ==
    /\ \/ worker = "waiting" /\ (port = "closed" \/ ReceiveMayFail)
       \/ worker = "astray"
    /\ WorkerReturns("receive")
    /\ UNCHANGED <<ownerVars, portMessage, contextVars, portVars>>

\* A message of the port that has the handle's value now.
OthersMessageReceived ==
    /\ worker = "astray"
    /\ \E t \in Types : portMessage' = [type |-> t, client |-> Null]
    /\ WorkerGoesTo("stray")
    /\ UNCHANGED <<ownerVars, contextVars, portVars>>

-----------------------------------------------------------------------------
\* SrvProcessMessage and its handlers.

Type(t) == worker = "process" /\ portMessage.type = t

Sender == portMessage.client

\* AlpcGetMessageAttribute finds the context attribute.
ContextAttribute == "MessageAttributes" \in serverObject

GiveToCallback == given' = [given EXCEPT ![Sender] = portMessage.data.n]

\* A handler's Status, by which the loop goes on or ends.
HandlerStatus(success) ==
    IF success THEN WorkerGoesTo("receive") ELSE WorkerReturns("process")

\* OnRequest answers in the buffer.
SrvAlpcRequest ==
    /\ Type("REQUEST")
    /\ GiveToCallback
    /\ portMessage' = [portMessage EXCEPT !.data.answered = TRUE]
    /\ WorkerGoesTo("reply")
    /\ UNCHANGED <<ownerVars, portContexts, unserved, portVars>>

\* The call that was to end c's wait fails, and its status goes unread.
FailsUnread(c) == unserved' = unserved \cup {c} /\ UNCHANGED portVars

SrvAlpcRequestReplies ==
    /\ worker = "reply"
    /\ \/ /\ IF handle = "valid" THEN SysReply(Sender, portMessage.data)
                                 ELSE UNCHANGED portVars
          /\ UNCHANGED unserved
       \/ /\ ReplyMayFail /\ handle = "valid" /\ call[Sender] = "request"
          /\ FailsUnread(Sender)
    /\ HandlerStatus(TRUE)
    /\ UNCHANGED <<ownerVars, portMessage, portContexts, given>>

SrvAlpcDatagram ==
    /\ Type("DATAGRAM")
    /\ IF ~ContextAttribute
         THEN HandlerStatus(FALSE) /\ UNCHANGED given
         ELSE /\ GiveToCallback
              /\ IF portMessage.cont THEN WorkerGoesTo("cancel")
                                     ELSE HandlerStatus(TRUE)
    /\ UNCHANGED <<ownerVars, portMessage, portContexts, unserved, portVars>>

SrvAlpcDatagramCancels ==
    /\ worker = "cancel"
    /\ IF handle = "valid" THEN SysCancel(Sender) ELSE UNCHANGED portVars
    /\ HandlerStatus(TRUE)
    /\ UNCHANGED <<ownerVars, portMessage, contextVars>>

FreePortContext == portContexts' = [portContexts EXCEPT ![Sender] = "none"]

\* Both types of message; the status is that of NtClose.
SrvAlpcDisconnect ==
    /\ Type("PORT_CLOSED") \/ Type("CLIENT_DIED")
    /\ IF ~ContextAttribute
         THEN HandlerStatus(FALSE) /\ UNCHANGED portContexts
         ELSE HandlerStatus(portContexts[Sender] = "open") /\ FreePortContext
    /\ UNCHANGED <<ownerVars, portMessage, given, unserved, portVars>>

\* OnConnect declines, there is no memory, or the connection is accepted.
SrvAlpcConnect ==
    /\ Type("CONNECTION_REQUEST")
    /\ \/ WorkerGoesTo("declined") /\ UNCHANGED portContexts
       \/ WorkerGoesTo("nomemory") /\ UNCHANGED portContexts
       \/ /\ WorkerGoesTo("accept")
          /\ portContexts' = [portContexts EXCEPT ![Sender] = "allocated"]
    /\ UNCHANGED <<ownerVars, portMessage, given, unserved, portVars>>

SrvAlpcConnectAccepts ==
    /\ worker = "accept"
    /\ \/ /\ handle = "valid"
          /\ SysAccept(Sender)
          /\ portContexts' = [portContexts EXCEPT ![Sender] = "open"]
          /\ HandlerStatus(TRUE)
       \/ UNCHANGED <<portContexts, portVars>> /\ WorkerGoesTo("unaccepted")
    /\ UNCHANGED <<ownerVars, portMessage, given, unserved>>

\* NtAlpcAcceptConnectPort with AcceptConnection FALSE.
Refuse ==
    \/ /\ IF handle = "valid" THEN SysReject(Sender) ELSE UNCHANGED portVars
       /\ UNCHANGED unserved
    \/ /\ ReplyMayFail /\ handle = "valid" /\ CanAccept(Sender)
       /\ FailsUnread(Sender)

\* A variant that returns without having refused.
RefuseNothing == UNCHANGED <<portVars, unserved>>

RefuseDeclined == Refuse

RefuseWithoutMemory == Refuse

RefuseUnaccepted == Refuse

\* The three refusals: only after a failed accept is there a context to free.
SrvAlpcConnectRefuses ==
    /\ \/ worker = "declined" /\ RefuseDeclined /\ UNCHANGED portContexts
       \/ worker = "nomemory" /\ RefuseWithoutMemory /\ UNCHANGED portContexts
       \/ worker = "unaccepted" /\ RefuseUnaccepted /\ FreePortContext
    /\ HandlerStatus(TRUE)
    /\ UNCHANGED <<ownerVars, portMessage, given>>

ProcessDefault ==
    /\ Type("OTHER")
    /\ HandlerStatus(TRUE)
    /\ UNCHANGED <<ownerVars, portMessage, contextVars, portVars>>

\* What another port sent is handled with what is its own; SrvAlpcDisconnect
\* alone may return a failure.
ProcessOthersMessage ==
    /\ worker = "stray"
    /\ \/ HandlerStatus(TRUE)
       \/ portMessage.type \in {"PORT_CLOSED", "CLIENT_DIED"} /\ HandlerStatus(FALSE)
    /\ UNCHANGED <<ownerVars, portMessage, contextVars, portVars>>

SrvProcessMessage ==
    \/ SrvAlpcRequest
    \/ SrvAlpcRequestReplies
    \/ SrvAlpcDatagram
    \/ SrvAlpcDatagramCancels
    \/ SrvAlpcDisconnect
    \/ SrvAlpcConnect
    \/ SrvAlpcConnectAccepts
    \/ SrvAlpcConnectRefuses
    \/ ProcessDefault
    \/ ProcessOthersMessage

SrvServerWorker ==
    \/ ReceiveOn
    \/ MessageReceived
    \/ NothingReceived
    \/ OthersMessageReceived
    \/ SrvProcessMessage

LibServer ==
    \/ SrvCreateServer
    \/ SrvTerminateServer
    \/ SrvTerminateServerReturns
    \/ OthersUseHandle
    \/ SrvServerWorker

-----------------------------------------------------------------------------
\* The client half.

TooLongOrNoMemory(c) ==
    \E o \in {"overflow", "nomem"} : outcome' = [outcome EXCEPT ![c] = o]

\* SrvConnectServer allocates the object first of all.
SrvConnectServer(c) ==
    /\ place[c] = "idle"
    /\ \/ /\ objects' = [objects EXCEPT ![c] = "allocated"]
          /\ place' = [place EXCEPT ![c] = "building"]
          /\ UNCHANGED outcome
       \/ /\ outcome' = [outcome EXCEPT ![c] = "nomem"]
          /\ UNCHANGED <<objects, place>>
    /\ UNCHANGED <<dataBuffer, sent, portVars>>

\* A variant that returns NULL with the object allocated.
CleanupNothing(c) == objects

\* The Cleanup label, to which every failure goes.
CleanupObject(c) == [objects EXCEPT ![c] = "none"]

\* The message is built; then comes NtAlpcConnectPort.
SrvConnectServerCalls(c) ==
    /\ place[c] = "building"
    /\ \/ /\ TooLongOrNoMemory(c)
          /\ objects' = CleanupObject(c)
          /\ place' = [place EXCEPT ![c] = "idle"]
          /\ UNCHANGED portVars
       \/ /\ SysConnect(c, NoData(c))
          /\ place' = [place EXCEPT ![c] = "connecting"]
          /\ outcome' = [outcome EXCEPT ![c] = "none"]
          /\ UNCHANGED objects
    /\ UNCHANGED <<dataBuffer, sent>>

SrvConnectServerReturns(c) ==
    /\ place[c] = "connecting"
    /\ SysReturn(c)
    /\ IF call[c] = "ok"
         THEN /\ objects' = [objects EXCEPT ![c] = "connected"]
              /\ place' = [place EXCEPT ![c] = "connected"]
              /\ outcome' = [outcome EXCEPT ![c] = "connected"]
         ELSE /\ objects' = CleanupObject(c)
              /\ place' = [place EXCEPT ![c] = "idle"]
              /\ outcome' = [outcome EXCEPT ![c] = "refused"]
    /\ UNCHANGED <<dataBuffer, sent>>

MaySendNow(c) == place[c] = "connected" /\ sent[c] < MaxSends

NextMessage(c) == [from |-> c, n |-> sent[c] + 1, answered |-> FALSE]

SendReturnsEarly(c) ==
    TooLongOrNoMemory(c) /\ UNCHANGED <<place, objects, dataBuffer, sent, portVars>>

SrvSendSynchronousRequest(c) ==
    /\ MaySendNow(c)
    /\ \/ SendReturnsEarly(c)
       \/ /\ SysRequest(c, NextMessage(c))
          /\ place' = [place EXCEPT ![c] = "requesting"]
          /\ dataBuffer' = [dataBuffer EXCEPT ![c] = NextMessage(c)]
          /\ sent' = [sent EXCEPT ![c] = @ + 1]
          /\ outcome' = [outcome EXCEPT ![c] = "none"]
          /\ UNCHANGED objects

\* The copy back does not ask for the status.
SrvSendSynchronousRequestReturns(c) ==
    /\ place[c] = "requesting"
    /\ dataBuffer' = [dataBuffer EXCEPT ![c] = cmsg[c]]
    /\ SysReturn(c)
    /\ place' = [place EXCEPT ![c] = "connected"]
    /\ outcome' = [outcome EXCEPT
                     ![c] = IF call[c] = "ok" THEN "answered" ELSE "failed"]
    /\ UNCHANGED <<objects, sent>>

SrvSendDatagram(c) ==
    /\ MaySendNow(c)
    /\ \/ SendReturnsEarly(c)
       \/ /\ Len(queue) < QueueBound
          /\ \E k \in BOOLEAN : SysDatagram(c, NextMessage(c), k)
          /\ sent' = [sent EXCEPT ![c] = @ + 1]
          /\ outcome' = [outcome EXCEPT
                           ![c] = IF CanSend(c) THEN "sent" ELSE "dropped"]
          /\ UNCHANGED <<place, objects, dataBuffer>>

CloseHandle(c) == SysHangup(c, <<Notice("PORT_CLOSED", c)>>)

SrvDisconnectServer(c) ==
    /\ place[c] = "connected"
    /\ CloseHandle(c)
    /\ objects' = [objects EXCEPT ![c] = "none"]
    /\ place' = [place EXCEPT ![c] = "closed"]
    /\ UNCHANGED <<dataBuffer, sent, outcome>>

\* The process of the client ends, and with it all it had.
LibClientDies(c) ==
    /\ place[c] \notin {"closed", "dead"}
    /\ \E t \in {"PORT_CLOSED", "CLIENT_DIED"} :
         \/ SysHangup(c, <<Notice(t, c)>>)
         \/ /\ place[c] = "requesting"
            /\ SysHangup(c, <<Notice("OTHER", c), Notice(t, c)>>)
    /\ objects' = [objects EXCEPT ![c] = "none"]
    /\ place' = [place EXCEPT ![c] = "dead"]
    /\ UNCHANGED <<dataBuffer, sent, outcome>>

LibClient(c) ==
    \/ SrvConnectServer(c)
    \/ SrvConnectServerCalls(c)
    \/ SrvConnectServerReturns(c)
    \/ SrvSendSynchronousRequest(c)
    \/ SrvSendSynchronousRequestReturns(c)
    \/ SrvSendDatagram(c)
    \/ SrvDisconnectServer(c)
    \/ LibClientDies(c)

LibNext ==
    \/ LibServer /\ UNCHANGED libClientVars
    \/ \E c \in Clients : LibClient(c) /\ UNCHANGED libServerVars

LibSpec == LibInit /\ [][LibNext]_libVars

-----------------------------------------------------------------------------
\* A CLIENT_OBJECT is there exactly while its connection is being made or used,
\* and holds the handle exactly while the client's end is open and its connect
\* has returned: SrvConnectServer leaks no object on any of its failures,
\* SrvDisconnectServer no handle, and neither is gone under a blocked call.
ObjectsHoldConnections ==
    \A c \in Clients :
      /\ objects[c] # "none" <=>
           place[c] \in {"building", "connecting", "connected", "requesting"}
      /\ objects[c] = "connected" =>
           conn[c] = "open" /\ place[c] \in {"connected", "requesting"}
      /\ conn[c] = "open" => objects[c] # "none"

\* How ua.c sees this generation: initialising the attributes and building a
\* message are no steps there, and the three refusals are one place.
Ua == INSTANCE UaSystem
        WITH opc <- IF owner = "initialize" THEN "message" ELSE owner,
             heap <- serverObject,
             hport <- handle,
             wpc <- IF worker \in {"declined", "nomemory", "unaccepted"}
                      THEN "reject" ELSE worker,
             wexit <- status,
             msg <- portMessage,
             contexts <- {c \in Clients : portContexts[c] # "none"},
             commHandles <- {c \in Clients : portContexts[c] = "open"},
             handled <- given,
             unanswered <- unserved,
             cpc <- [c \in Clients |->
                       IF place[c] = "building" THEN "idle" ELSE place[c]],
             buf <- dataBuffer,
             sends <- sent,
             result <- outcome

\* This generation does with connections, contexts, replies and refusals what
\* ua.c does, although it has an object for each connection, a status of the
\* worker's own and three calls that refuse (120, 134 and 146) written out one
\* by one: every behaviour of it is one of UaSystem.
IsUaSystem == Ua!Spec
=============================================================================
