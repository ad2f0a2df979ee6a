------------------------ MODULE ObjectLibrary_proofs ------------------------
(***************************************************************************)
(* The generation with client objects keeps them exactly with its          *)
(* connections, and implements UaSystem.  What makes its steps steps of    *)
(* UaSystem is that a connection request is of a client that has no        *)
(* PORT_CONTEXT: a refusal then has no older one to free, and an accept    *)
(* none to lose.  Last, what a worker does that ka.c gives NULL.           *)
(***************************************************************************)
EXTENDS KaServer, AlpcPort_proofs

LibInHand == worker \in {"process", "reply", "cancel", "accept", "declined",
                         "nomemory", "unaccepted"}

LibTypeOK ==
    /\ PortTypeOK
    /\ serverObject \subseteq {"Server", "MessageAttributes", "PortMessage"}
    /\ portContexts \in [Clients -> {"none", "allocated", "open"}]
    /\ place \in [Clients -> {"idle", "building", "connecting", "connected",
                              "requesting", "closed", "dead"}]
    /\ objects \in [Clients -> {"none", "allocated", "connected"}]
    /\ sent \in [Clients -> 0..MaxSends]
    /\ LibInHand => portMessage \in Message

\* There is a worker only after SrvCreateServer.
LibOwnerInv == worker # "none" => owner \in {"running", "joining", "terminated"}

\* Where a client is tells what the kernel knows of it, and what its object is.
LibCallOK(c) ==
    /\ place[c] \in {"idle", "building"} => conn[c] = "none" /\ call[c] = "idle"
    /\ place[c] = "connecting" =>
         \/ conn[c] = "pending" /\ call[c] = "connect"
         \/ conn[c] = "open" /\ call[c] = "ok"
         \/ conn[c] = "none" /\ call[c] = "fail"
    /\ place[c] = "connected" => conn[c] = "open" /\ call[c] = "idle"
    /\ place[c] = "requesting" =>
         conn[c] = "open" /\ call[c] \in {"request", "ok", "fail"}
    /\ place[c] \in {"closed", "dead"} => conn[c] = "closed" /\ call[c] = "idle"

ObjectOK(c) ==
    /\ objects[c] = "allocated" <=> place[c] \in {"building", "connecting"}
    /\ objects[c] = "connected" <=> place[c] \in {"connected", "requesting"}

LibCallInv == \A c \in Clients : LibCallOK(c) /\ ObjectOK(c)

\* The worker has a connection request in its hands.
Connecting ==
    \/ worker = "process" /\ portMessage.type = "CONNECTION_REQUEST"
    \/ worker \in {"accept", "declined", "nomemory", "unaccepted"}

\* A connection request in the queue is the only one of its client, which waits
\* for the answer or is gone and has no PORT_CONTEXT; the one in hand has the
\* context made for it, and no other.
RequestsInv ==
    /\ port # "open" => queue = <<>>
    /\ \A i \in DOMAIN queue : queue[i].type = "CONNECTION_REQUEST" =>
         /\ portContexts[queue[i].client] = "none"
         /\ conn[queue[i].client] \in {"pending", "closed"}
         /\ Connecting => portMessage.client # queue[i].client
         /\ \A j \in DOMAIN queue :
              queue[j].type = "CONNECTION_REQUEST" /\ j # i
                => queue[j].client # queue[i].client
    /\ Connecting =>
         /\ port = "open" => conn[portMessage.client] \in {"pending", "closed"}
         /\ portContexts[portMessage.client] =
              IF worker \in {"accept", "unaccepted"} THEN "allocated" ELSE "none"
    /\ \A c \in Clients :
         /\ portContexts[c] = "open" => conn[c] \in {"open", "closed"}
         /\ portContexts[c] = "allocated" =>
              worker \in {"accept", "unaccepted"} /\ c = portMessage.client

LibInv == LibTypeOK /\ LibOwnerInv /\ LibCallInv /\ RequestsInv

LEMMA LibInit0 == LibInit => LibInv
<1> SUFFICES ASSUME LibInit PROVE LibInv
  OBVIOUS
<1>1. PortTypeOK
  BY DEF LibInit, PortInit, PortTypeOK
<1>2. LibTypeOK
  BY <1>1, PortAssumption DEF LibInit, LibTypeOK, LibInHand
<1>3. LibOwnerInv
  BY DEF LibInit, LibOwnerInv
<1>4. LibCallInv
  BY DEF LibInit, PortInit, LibCallInv, LibCallOK, ObjectOK
<1>5. RequestsInv
  BY DEF LibInit, PortInit, RequestsInv, Connecting
<1> QED BY <1>2, <1>3, <1>4, <1>5 DEF LibInv

-----------------------------------------------------------------------------
(***************************************************************************)
(* Types.                                                                  *)
(***************************************************************************)
LEMMA LibOwnerTypeStep ==
    ASSUME LibTypeOK, LibOwnerInv, UNCHANGED libClientVars,
           \/ SrvCreateServer \/ SrvTerminateServer
           \/ SrvTerminateServerReturns \/ OthersUseHandle
    PROVE  LibTypeOK' /\ LibOwnerInv'
<1> USE DEF LibTypeOK, LibOwnerInv, LibInHand, libWorkerVars, libClientVars
<1>1. CASE AllocateServerObject
  BY <1>1, PortTypeStutter DEF AllocateServerObject, Allocated
<1>2. CASE AllocateMessageAttributes
  BY <1>2, PortTypeStutter DEF AllocateMessageAttributes, Allocated, GotoCleanup
<1>3. CASE InitializeMessageAttribute
  BY <1>3, PortTypeStutter DEF InitializeMessageAttribute, GotoCleanup
<1>4. CASE AllocatePortMessage
  BY <1>4, PortTypeStutter DEF AllocatePortMessage, Allocated, GotoCleanup
<1>5. CASE CreatePort
  BY <1>5, PortTypeStutter, PortTypeStep DEF CreatePort, GotoCleanup
<1>6. CASE CreateThread
  BY <1>6, PortTypeStutter DEF CreateThread, GotoCleanup
<1>7. CASE Cleanup
  BY <1>7, PortTypeStutter, PortTypeStep DEF Cleanup
<1>8. CASE SrvTerminateServer
  BY <1>8, PortTypeStep DEF SrvTerminateServer
<1>9. CASE SrvTerminateServerReturns
  BY <1>9, PortTypeStutter DEF SrvTerminateServerReturns
<1>10. CASE OthersUseHandle
  BY <1>10, PortTypeStutter DEF OthersUseHandle
<1> QED
  BY <1>1, <1>2, <1>3, <1>4, <1>5, <1>6, <1>7, <1>8, <1>9, <1>10
  DEF SrvCreateServer

LEMMA LibWorkerTypeStep ==
    ASSUME LibTypeOK, LibOwnerInv, UNCHANGED libClientVars, SrvServerWorker
    PROVE  LibTypeOK' /\ LibOwnerInv'
<1> USE DEF LibTypeOK, LibOwnerInv, LibInHand, ownerVars, contextVars,
            libClientVars, WorkerGoesTo, WorkerReturns, HandlerStatus, Sender
<1>0. LibInHand => /\ portMessage.client \in Clients
                   /\ portMessage.data \in Data
                   /\ [portMessage EXCEPT !.data.answered = TRUE] \in Message
  BY MessageFields
<1>1. CASE ReceiveOn
  BY <1>1, PortTypeStutter DEF ReceiveOn
<1>2. CASE MessageReceived
  BY <1>2, PortTypeStep DEF MessageReceived
<1>3. CASE NothingReceived
  BY <1>3, PortTypeStutter DEF NothingReceived
<1>4. CASE OthersMessageReceived
  BY <1>4, PortTypeStutter DEF OthersMessageReceived
<1>5. CASE SrvAlpcRequest
  BY <1>0, <1>5, PortTypeStutter DEF SrvAlpcRequest, Type
<1>6. CASE SrvAlpcRequestReplies
  BY <1>0, <1>6, PortTypeStutter, PortTypeStep
  DEF SrvAlpcRequestReplies, FailsUnread
<1>7. CASE SrvAlpcDatagram
  BY <1>0, <1>7, PortTypeStutter DEF SrvAlpcDatagram, Type
<1>8. CASE SrvAlpcDatagramCancels
  BY <1>0, <1>8, PortTypeStutter, PortTypeStep DEF SrvAlpcDatagramCancels
<1>9. CASE SrvAlpcDisconnect
  BY <1>0, <1>9, PortTypeStutter DEF SrvAlpcDisconnect, Type, FreePortContext
<1>10. CASE SrvAlpcConnect
  BY <1>0, <1>10, PortTypeStutter DEF SrvAlpcConnect, Type
<1>11. CASE SrvAlpcConnectAccepts
  BY <1>0, <1>11, PortTypeStutter, PortTypeStep DEF SrvAlpcConnectAccepts
<1>12. CASE SrvAlpcConnectRefuses
  BY <1>0, <1>12, PortTypeStutter, PortTypeStep
  DEF SrvAlpcConnectRefuses, Refuse, RefuseDeclined, RefuseWithoutMemory,
      RefuseUnaccepted, FreePortContext, FailsUnread
<1>13. CASE ProcessDefault \/ ProcessOthersMessage
  BY <1>13, PortTypeStutter DEF ProcessDefault, ProcessOthersMessage, Type
<1> QED
  BY <1>1, <1>2, <1>3, <1>4, <1>5, <1>6, <1>7, <1>8, <1>9, <1>10, <1>11,
     <1>12, <1>13
  DEF SrvServerWorker, SrvProcessMessage

LEMMA LibClientTypeStep ==
    ASSUME LibTypeOK, LibOwnerInv, UNCHANGED libServerVars, NEW c \in Clients,
           LibClient(c)
    PROVE  LibTypeOK' /\ LibOwnerInv'
<1> USE DEF LibTypeOK, LibOwnerInv, LibInHand, libServerVars
<1>1. CASE SrvConnectServer(c)
  BY <1>1, PortTypeStutter DEF SrvConnectServer
<1>2. CASE SrvConnectServerCalls(c)
  BY <1>2, PortTypeStutter, PortTypeStep, MessageTypes
  DEF SrvConnectServerCalls, CleanupObject
<1>3. CASE SrvConnectServerReturns(c)
  BY <1>3, PortTypeStep DEF SrvConnectServerReturns, CleanupObject
<1>4. CASE SrvSendSynchronousRequest(c)
  <2>1. CASE SendReturnsEarly(c)
    BY <2>1, PortTypeStutter DEF SendReturnsEarly
  <2>2. CASE ~SendReturnsEarly(c)
    <3>1. NextMessage(c) \in Data /\ sent[c] + 1 \in 0..MaxSends
      BY <1>4, PortAssumption
      DEF SrvSendSynchronousRequest, MaySendNow, NextMessage, Data
    <3>2. PortTypeOK'
      BY <1>4, <2>2, <3>1, PortTypeStep DEF SrvSendSynchronousRequest
    <3>3. place' = [place EXCEPT ![c] = "requesting"]
            /\ sent' = [sent EXCEPT ![c] = @ + 1] /\ UNCHANGED objects
      BY <1>4, <2>2 DEF SrvSendSynchronousRequest
    <3> QED BY <3>1, <3>2, <3>3
  <2> QED BY <2>1, <2>2
<1>5. CASE SrvSendSynchronousRequestReturns(c)
  BY <1>5, PortTypeStep DEF SrvSendSynchronousRequestReturns
<1>6. CASE SrvSendDatagram(c)
  <2>1. CASE SendReturnsEarly(c)
    BY <2>1, PortTypeStutter DEF SendReturnsEarly
  <2>2. CASE ~SendReturnsEarly(c)
    <3>1. NextMessage(c) \in Data /\ sent[c] + 1 \in 0..MaxSends
      BY <1>6, PortAssumption
      DEF SrvSendDatagram, MaySendNow, NextMessage, Data
    <3> QED BY <1>6, <2>2, <3>1, PortTypeStep DEF SrvSendDatagram
  <2> QED BY <2>1, <2>2
<1>7. CASE SrvDisconnectServer(c)
  <2>1. <<Notice("PORT_CLOSED", c)>> \in Seq(Message)
    BY MessageTypes DEF Types
  <2> QED BY <1>7, <2>1, PortTypeStep DEF SrvDisconnectServer, CloseHandle
<1>8. CASE LibClientDies(c)
  <2>1. \A t \in {"PORT_CLOSED", "CLIENT_DIED"} :
          /\ <<Notice(t, c)>> \in Seq(Message)
          /\ <<Notice("OTHER", c), Notice(t, c)>> \in Seq(Message)
    BY MessageTypes DEF Types
  <2> QED BY <1>8, <2>1, PortTypeStep DEF LibClientDies
<1> QED
  BY <1>1, <1>2, <1>3, <1>4, <1>5, <1>6, <1>7, <1>8 DEF LibClient

-----------------------------------------------------------------------------
(***************************************************************************)
(* Calls and objects.                                                      *)
(***************************************************************************)

\* What a step of the server asks of the kernel.
LEMMA ServerAsks ==
    ASSUME LibServer
    PROVE  \/ UNCHANGED portVars \/ SysCreatePort \/ SysClosePort \/ SysReceive
           \/ SysReply(Sender, portMessage.data) \/ SysAccept(Sender)
           \/ SysReject(Sender) \/ SysCancel(Sender)
  BY DEF LibServer, SrvCreateServer, AllocateServerObject,
         AllocateMessageAttributes, InitializeMessageAttribute,
         AllocatePortMessage, Allocated, GotoCleanup, CreatePort, CreateThread,
         Cleanup, SrvTerminateServer, SrvTerminateServerReturns,
         OthersUseHandle, SrvServerWorker, ReceiveOn, MessageReceived,
         NothingReceived, OthersMessageReceived, SrvProcessMessage,
         SrvAlpcRequest, SrvAlpcRequestReplies, SrvAlpcDatagram,
         SrvAlpcDatagramCancels, SrvAlpcDisconnect, SrvAlpcConnect,
         SrvAlpcConnectAccepts, SrvAlpcConnectRefuses, Refuse, RefuseDeclined,
         RefuseWithoutMemory, RefuseUnaccepted, FailsUnread, ProcessDefault,
         ProcessOthersMessage

LEMMA ServerCallStep ==
    ASSUME LibTypeOK, LibCallInv, LibServer, UNCHANGED libClientVars
    PROVE  LibCallInv'
<1> SUFFICES ASSUME NEW c \in Clients PROVE LibCallOK(c)' /\ ObjectOK(c)'
  BY DEF LibCallInv
<1>1. LibCallOK(c) /\ ObjectOK(c)
  BY DEF LibCallInv
<1>2. place' = place /\ objects' = objects
  BY DEF libClientVars
<1>3. PortTypeOK
  BY DEF LibTypeOK
<1>4. CASE UNCHANGED portVars \/ SysCreatePort \/ SysReceive \/ SysCancel(Sender)
  BY <1>1, <1>2, <1>4
  DEF LibCallOK, ObjectOK, portVars, SysCreatePort, SysReceive, SysCancel
<1>5. CASE SysClosePort
  BY <1>1, <1>2, <1>3, <1>5
  DEF LibCallOK, ObjectOK, SysClosePort, Blocked, PortTypeOK
<1>6. CASE SysReply(Sender, portMessage.data)
  BY <1>1, <1>2, <1>3, <1>6 DEF LibCallOK, ObjectOK, SysReply, PortTypeOK
<1>7. CASE SysAccept(Sender)
  BY <1>1, <1>2, <1>3, <1>7
  DEF LibCallOK, ObjectOK, SysAccept, CanAccept, PortTypeOK
<1>8. CASE SysReject(Sender)
  BY <1>1, <1>2, <1>3, <1>8
  DEF LibCallOK, ObjectOK, SysReject, CanAccept, PortTypeOK
<1> QED BY <1>4, <1>5, <1>6, <1>7, <1>8, ServerAsks

LEMMA ClientCallStep ==
    ASSUME LibTypeOK, LibCallInv, NEW c \in Clients, LibClient(c)
    PROVE  LibCallInv'
<1> SUFFICES ASSUME NEW d \in Clients PROVE LibCallOK(d)' /\ ObjectOK(d)'
  BY DEF LibCallInv
<1>1. LibCallOK(d) /\ ObjectOK(d)
  BY DEF LibCallInv
<1>0. /\ conn \in [Clients -> {"none", "pending", "open", "closed"}]
      /\ call \in [Clients -> {"idle", "connect", "request", "ok", "fail"}]
      /\ place \in [Clients -> {"idle", "building", "connecting", "connected",
                                "requesting", "closed", "dead"}]
      /\ objects \in [Clients -> {"none", "allocated", "connected"}]
  BY DEF LibTypeOK, PortTypeOK
<1> USE <1>0 DEF LibCallOK, ObjectOK, portVars
<1>2. CASE SrvConnectServer(c)
  BY <1>1, <1>2 DEF SrvConnectServer
<1>3. CASE SrvConnectServerCalls(c)
  BY <1>1, <1>3 DEF SrvConnectServerCalls, SysConnect, CleanupObject
<1>4. CASE SrvConnectServerReturns(c)
  BY <1>1, <1>4 DEF SrvConnectServerReturns, SysReturn, CleanupObject
<1>5. CASE SrvSendSynchronousRequest(c)
  BY <1>1, <1>5
  DEF SrvSendSynchronousRequest, MaySendNow, SendReturnsEarly, SysRequest
<1>6. CASE SrvSendSynchronousRequestReturns(c)
  BY <1>1, <1>6 DEF SrvSendSynchronousRequestReturns, SysReturn
<1>7. CASE SrvSendDatagram(c)
  BY <1>1, <1>7 DEF SrvSendDatagram, SendReturnsEarly, SysDatagram
<1>8. CASE SrvDisconnectServer(c)
  BY <1>1, <1>8 DEF SrvDisconnectServer, CloseHandle, SysHangup
<1>9. CASE LibClientDies(c)
  BY <1>1, <1>9 DEF LibClientDies, SysHangup
<1> QED
  BY <1>2, <1>3, <1>4, <1>5, <1>6, <1>7, <1>8, <1>9 DEF LibClient

-----------------------------------------------------------------------------
(***************************************************************************)
(* Connection requests and PORT_CONTEXTs.                                  *)
(***************************************************************************)
LEMMA QueueTypes ==
    ASSUME LibTypeOK
    PROVE  \A i \in DOMAIN queue : queue[i] \in Message /\ queue[i].client \in Clients
<1>1. queue \in Seq(Message)
  BY DEF LibTypeOK, PortTypeOK
<1>2. \A i \in DOMAIN queue : queue[i] \in Message
  BY <1>1
<1>3. \A m \in Message : m.client \in Clients
  BY DEF Message
<1> QED BY <1>2, <1>3

\* Whatever leaves worker, message, contexts and port alone.
LEMMA QuietRequestsStep ==
    ASSUME RequestsInv,
           UNCHANGED <<portVars, worker, portMessage, portContexts>>
    PROVE  RequestsInv'
  BY DEF RequestsInv, Connecting, portVars

LEMMA OwnerRequestsStep ==
    ASSUME LibTypeOK, LibOwnerInv, RequestsInv,
           \/ SrvCreateServer \/ SrvTerminateServer
           \/ SrvTerminateServerReturns \/ OthersUseHandle
    PROVE  RequestsInv'
<1> USE DEF libWorkerVars
<1>1. CASE \/ AllocateServerObject \/ AllocateMessageAttributes
           \/ InitializeMessageAttribute \/ AllocatePortMessage
           \/ OthersUseHandle \/ GotoCleanup
  BY <1>1, QuietRequestsStep
  DEF AllocateServerObject, AllocateMessageAttributes, Allocated, GotoCleanup,
      InitializeMessageAttribute, AllocatePortMessage, OthersUseHandle
<1>2. CASE owner = "port" /\ SysCreatePort /\ UNCHANGED libWorkerVars
  <2>1. worker = "none"
    BY <1>2 DEF LibOwnerInv
  <2> QED BY <1>2, <2>1 DEF SysCreatePort, RequestsInv, Connecting
<1>3. CASE CreateThread /\ ~GotoCleanup
  <2>1. worker = "none" /\ worker' = "receive" /\ UNCHANGED <<portVars, portContexts>>
    BY <1>3 DEF CreateThread, LibOwnerInv
  <2> QED BY <2>1 DEF RequestsInv, Connecting, portVars
<1>4. CASE SysClosePort /\ UNCHANGED libWorkerVars
           /\ (worker = "none" \/ UNCHANGED portMessage)
  <2>1. /\ queue' = <<>> /\ port' = "closed"
        /\ \A c \in Clients : conn[c] \in {"open", "closed"} => conn'[c] = conn[c]
    BY <1>4 DEF SysClosePort
  <2> QED BY <1>4, <2>1 DEF RequestsInv, Connecting
<1>5. CASE Cleanup
  <2>1. worker = "none"
    BY <1>5 DEF Cleanup, LibOwnerInv
  <2>2. CASE handle = "unset"
    BY <1>5, <2>1, <2>2 DEF Cleanup, RequestsInv, Connecting, portVars
  <2> QED BY <1>4, <1>5, <2>1, <2>2 DEF Cleanup
<1>6. CASE SrvTerminateServerReturns
  BY <1>6 DEF SrvTerminateServerReturns, RequestsInv, Connecting, portVars
<1> QED
  BY <1>1, <1>2, <1>3, <1>4, <1>5, <1>6
  DEF SrvCreateServer, CreatePort, CreateThread, SrvTerminateServer

LEMMA ReceiveRequestsStep ==
    ASSUME LibTypeOK, RequestsInv, MessageReceived
    PROVE  RequestsInv'
<1>1. /\ queue \in Seq(Message) /\ queue # <<>> /\ queue' = Tail(queue)
      /\ portMessage' = Head(queue)
      /\ UNCHANGED <<port, conn, portContexts>>
      /\ worker' = "process" /\ ~Connecting
  BY DEF MessageReceived, SysReceive, WorkerGoesTo, contextVars, LibTypeOK,
         PortTypeOK, Connecting
<1>2. /\ 1 \in DOMAIN queue /\ portMessage' = queue[1]
      /\ \A i \in DOMAIN queue' :
           i + 1 \in DOMAIN queue /\ i + 1 # 1 /\ queue'[i] = queue[i + 1]
      /\ \A i, j \in DOMAIN queue' : i # j => i + 1 # j + 1
  BY <1>1
<1>3. portMessage'.client \in Clients
  BY <1>2, QueueTypes
<1>4. Connecting' <=> queue[1].type = "CONNECTION_REQUEST"
  BY <1>1, <1>2 DEF Connecting
<1>5. port = "open" /\ worker = "waiting"
  BY <1>1 DEF RequestsInv, MessageReceived
<1> QED BY <1>1, <1>2, <1>3, <1>4, <1>5 DEF RequestsInv

LEMMA ConnectRequestsStep ==
    ASSUME LibTypeOK, RequestsInv, SrvAlpcConnect
    PROVE  RequestsInv'
<1>1. Connecting /\ portMessage.client \in Clients
  BY MessageFields
  DEF SrvAlpcConnect, Type, Connecting, LibTypeOK, LibInHand
<1>2. /\ UNCHANGED <<portMessage, port, conn, queue>>
      /\ \/ worker' \in {"declined", "nomemory"} /\ UNCHANGED portContexts
         \/ /\ worker' = "accept"
            /\ portContexts' = [portContexts EXCEPT ![portMessage.client] = "allocated"]
  BY DEF SrvAlpcConnect, WorkerGoesTo, portVars, Sender
<1>3. Connecting'
  BY <1>2 DEF Connecting
<1>4. worker = "process"
  BY DEF SrvAlpcConnect, Type
<1>5. portContexts \in [Clients -> {"none", "allocated", "open"}]
  BY DEF LibTypeOK
<1> QED BY <1>1, <1>2, <1>3, <1>4, <1>5, QueueTypes DEF RequestsInv

LEMMA AcceptsRequestsStep ==
    ASSUME LibTypeOK, RequestsInv, SrvAlpcConnectAccepts
    PROVE  RequestsInv'
<1>1. Connecting /\ portMessage.client \in Clients /\ worker = "accept"
  BY MessageFields
  DEF SrvAlpcConnectAccepts, Connecting, LibTypeOK, LibInHand
<1>2. /\ portContexts \in [Clients -> {"none", "allocated", "open"}]
      /\ conn \in [Clients -> {"none", "pending", "open", "closed"}]
  BY DEF LibTypeOK, PortTypeOK
<1>3. UNCHANGED portMessage
  BY DEF SrvAlpcConnectAccepts
<1>4. CASE UNCHANGED <<portContexts, portVars>> /\ worker' = "unaccepted"
  BY <1>1, <1>3, <1>4 DEF RequestsInv, Connecting, portVars
<1>5. CASE SysAccept(Sender) /\ worker' = "receive"
           /\ portContexts' = [portContexts EXCEPT ![Sender] = "open"]
  <2>1. /\ conn' = [conn EXCEPT ![portMessage.client] = "open"]
        /\ UNCHANGED <<port, queue>>
    BY <1>5 DEF SysAccept, Sender
  <2>2. ~Connecting'
    BY <1>5 DEF Connecting
  <2> QED BY <1>1, <1>2, <1>5, <2>1, <2>2, QueueTypes DEF RequestsInv, Sender
<1> QED
  BY <1>4, <1>5
  DEF SrvAlpcConnectAccepts, HandlerStatus, WorkerGoesTo, WorkerReturns

LEMMA RefusesRequestsStep ==
    ASSUME LibTypeOK, RequestsInv, SrvAlpcConnectRefuses
    PROVE  RequestsInv'
<1>1. Connecting /\ portMessage.client \in Clients
  BY MessageFields
  DEF SrvAlpcConnectRefuses, Connecting, LibTypeOK, LibInHand
<1>2. /\ portContexts \in [Clients -> {"none", "allocated", "open"}]
      /\ conn \in [Clients -> {"none", "pending", "open", "closed"}]
  BY DEF LibTypeOK, PortTypeOK
<1>3. worker' = "receive" /\ ~Connecting' /\ UNCHANGED portMessage
  BY DEF SrvAlpcConnectRefuses, HandlerStatus, WorkerGoesTo, Connecting
<1>4. portContexts' = [portContexts EXCEPT ![portMessage.client] = "none"]
  <2>1. CASE worker \in {"declined", "nomemory"}
    BY <1>1, <1>2, <2>1 DEF SrvAlpcConnectRefuses, RequestsInv
  <2> QED BY <2>1 DEF SrvAlpcConnectRefuses, FreePortContext, Sender
<1>5. /\ UNCHANGED <<port, queue>>
      /\ \A c \in Clients : conn'[c] = conn[c] \/ c = portMessage.client
  BY <1>2
  DEF SrvAlpcConnectRefuses, Refuse, RefuseDeclined, RefuseWithoutMemory,
      RefuseUnaccepted, FailsUnread, SysReject, Sender, portVars
<1> QED BY <1>1, <1>2, <1>3, <1>4, <1>5, QueueTypes DEF RequestsInv

LEMMA DisconnectRequestsStep ==
    ASSUME LibTypeOK, RequestsInv, SrvAlpcDisconnect
    PROVE  RequestsInv'
<1>1. /\ ~Connecting /\ ~Connecting'
      /\ UNCHANGED <<portMessage, port, conn, queue>>
      /\ worker = "process"
  BY DEF SrvAlpcDisconnect, Type, HandlerStatus, WorkerGoesTo, WorkerReturns,
         Connecting, portVars
<1>2. portContexts \in [Clients -> {"none", "allocated", "open"}]
  BY DEF LibTypeOK
<1>3. \A c \in Clients : portContexts'[c] \in {portContexts[c], "none"}
  BY <1>2 DEF SrvAlpcDisconnect, FreePortContext
<1> QED BY <1>1, <1>2, <1>3, QueueTypes DEF RequestsInv

LEMMA WorkerRequestsStep ==
    ASSUME LibTypeOK, RequestsInv, SrvServerWorker
    PROVE  RequestsInv'
<1> USE DEF WorkerGoesTo, WorkerReturns, HandlerStatus, contextVars
<1>1. CASE \/ ReceiveOn \/ NothingReceived \/ OthersMessageReceived
           \/ SrvAlpcDatagram \/ ProcessDefault \/ ProcessOthersMessage
           \/ SrvAlpcRequest
  <2>1. ~Connecting /\ ~Connecting' /\ worker \notin {"accept", "unaccepted"}
    BY <1>1
    DEF ReceiveOn, NothingReceived, OthersMessageReceived, SrvAlpcDatagram,
        ProcessDefault, ProcessOthersMessage, SrvAlpcRequest, Type, Connecting
  <2>2. UNCHANGED <<portContexts, portVars>>
    BY <1>1
    DEF ReceiveOn, NothingReceived, OthersMessageReceived, SrvAlpcDatagram,
        ProcessDefault, ProcessOthersMessage, SrvAlpcRequest
  <2> QED BY <2>1, <2>2 DEF RequestsInv, portVars
<1>2. CASE SrvAlpcRequestReplies \/ SrvAlpcDatagramCancels
  <2>1. ~Connecting /\ ~Connecting' /\ worker \notin {"accept", "unaccepted"}
    BY <1>2
    DEF SrvAlpcRequestReplies, SrvAlpcDatagramCancels, Connecting
  <2>2. UNCHANGED <<portContexts, port, queue, conn>>
    BY <1>2
    DEF SrvAlpcRequestReplies, SrvAlpcDatagramCancels, SysReply, SysCancel,
        FailsUnread, portVars
  <2> QED BY <2>1, <2>2 DEF RequestsInv
<1> QED
  BY <1>1, <1>2, ReceiveRequestsStep, ConnectRequestsStep, AcceptsRequestsStep,
     RefusesRequestsStep, DisconnectRequestsStep
  DEF SrvServerWorker, SrvProcessMessage

\* What a client appends that is no connection request.
LEMMA AppendRequestsStep ==
    ASSUME LibTypeOK, RequestsInv, NEW c \in Clients, NEW s \in Seq(Message),
           \A i \in DOMAIN s : s[i].type # "CONNECTION_REQUEST",
           queue' = queue \/ (port = "open" /\ queue' = queue \o s),
           conn' = conn \/ conn' = [conn EXCEPT ![c] = "closed"],
           UNCHANGED <<port, worker, portMessage, portContexts>>
    PROVE  RequestsInv'
<1>1. /\ queue \in Seq(Message)
      /\ conn \in [Clients -> {"none", "pending", "open", "closed"}]
  BY DEF LibTypeOK, PortTypeOK
<1>2. \A i \in DOMAIN queue' : queue'[i].type = "CONNECTION_REQUEST" =>
        i \in DOMAIN queue /\ queue'[i] = queue[i]
  <2>1. CASE queue' = queue
    BY <2>1
  <2>2. CASE queue' = queue \o s
    <3>1. \A i \in DOMAIN (queue \o s) :
            \/ i \in DOMAIN queue /\ (queue \o s)[i] = queue[i]
            \/ i - Len(queue) \in DOMAIN s
                 /\ (queue \o s)[i] = s[i - Len(queue)]
      BY <1>1
    <3> QED BY <2>2, <3>1
  <2> QED BY <2>1, <2>2
<1>3. \A d \in Clients : conn'[d] \in {conn[d], "closed"}
  BY <1>1
<1>4. Connecting' = Connecting
  BY DEF Connecting
<1>5. Connecting => portMessage.client \in Clients
  BY MessageFields DEF Connecting, LibTypeOK, LibInHand
<1>6. \A i \in DOMAIN queue : queue[i].client \in Clients
  BY QueueTypes
<1>7. port' # "open" => queue' = <<>>
  BY DEF RequestsInv
<1> QED BY <1>2, <1>3, <1>4, <1>5, <1>6, <1>7 DEF RequestsInv

LEMMA ConnectCallsRequestsStep ==
    ASSUME LibTypeOK, LibCallInv, RequestsInv, NEW c \in Clients,
           place[c] = "building", SysConnect(c, NoData(c)),
           UNCHANGED <<worker, portMessage, portContexts>>
    PROVE  RequestsInv'
<1>1. CASE port # "open"
  BY <1>1 DEF SysConnect, RequestsInv, Connecting
<1>2. CASE port = "open"
  <2> DEFINE m == Msg("CONNECTION_REQUEST", c, NoData(c), FALSE)
  <2>1. /\ queue' = Append(queue, m)
        /\ conn' = [conn EXCEPT ![c] = "pending"]
        /\ UNCHANGED port
    BY <1>2 DEF SysConnect
  <2>2. /\ queue \in Seq(Message)
        /\ conn \in [Clients -> {"none", "pending", "open", "closed"}]
        /\ portContexts \in [Clients -> {"none", "allocated", "open"}]
    BY DEF LibTypeOK, PortTypeOK
  <2>3. conn[c] = "none"
    BY DEF LibCallInv, LibCallOK
  <2>4. Connecting => portMessage.client # c
    BY <1>2, <2>3 DEF RequestsInv
  <2>5. portContexts[c] = "none"
    BY <2>2, <2>3, <2>4 DEF RequestsInv, Connecting
  <2>6. \A i \in DOMAIN queue :
          queue[i].type = "CONNECTION_REQUEST" => queue[i].client # c
    BY <2>3 DEF RequestsInv
  <2>7. m.client = c /\ m \in Message
    BY MessageTypes DEF Msg, Types
  <2>8. \A i \in DOMAIN queue' :
          \/ i \in DOMAIN queue /\ queue'[i] = queue[i]
          \/ i = Len(queue) + 1 /\ queue'[i] = m
    <3> HIDE DEF m
    <3> QED BY <2>1, <2>2, <2>7
  <2>9. Connecting' = Connecting
    BY DEF Connecting
  <2>10. Connecting => portMessage.client \in Clients
    BY MessageFields DEF Connecting, LibTypeOK, LibInHand
  <2>11. \A i \in DOMAIN queue : queue[i].client \in Clients
    BY QueueTypes
  <2>12. \A i \in DOMAIN queue' : queue'[i].type = "CONNECTION_REQUEST" =>
           /\ portContexts'[queue'[i].client] = "none"
           /\ conn'[queue'[i].client] \in {"pending", "closed"}
           /\ Connecting' => portMessage'.client # queue'[i].client
           /\ \A j \in DOMAIN queue' :
                queue'[j].type = "CONNECTION_REQUEST" /\ j # i
                  => queue'[j].client # queue'[i].client
    <3> HIDE DEF m
    <3> SUFFICES ASSUME NEW i \in DOMAIN queue',
                        queue'[i].type = "CONNECTION_REQUEST"
                 PROVE  /\ portContexts'[queue'[i].client] = "none"
                        /\ conn'[queue'[i].client] \in {"pending", "closed"}
                        /\ Connecting' => portMessage'.client # queue'[i].client
                        /\ \A j \in DOMAIN queue' :
                             queue'[j].type = "CONNECTION_REQUEST" /\ j # i
                               => queue'[j].client # queue'[i].client
      OBVIOUS
    <3>1. CASE i \in DOMAIN queue /\ queue'[i] = queue[i]
      <4>1. /\ portContexts[queue[i].client] = "none"
            /\ conn[queue[i].client] \in {"pending", "closed"}
            /\ Connecting => portMessage.client # queue[i].client
            /\ \A j \in DOMAIN queue :
                 queue[j].type = "CONNECTION_REQUEST" /\ j # i
                   => queue[j].client # queue[i].client
        BY <3>1 DEF RequestsInv
      <4>2. queue[i].client # c
        BY <2>6, <3>1
      <4>3. conn'[queue[i].client] = conn[queue[i].client]
        BY <2>1, <2>2, <2>11, <3>1, <4>2
      <4> QED BY <2>7, <2>8, <2>9, <3>1, <4>1, <4>2, <4>3
    <3>2. CASE i = Len(queue) + 1 /\ queue'[i] = m
      <4>1. conn'[c] = "pending"
        BY <2>1, <2>2
      <4> QED BY <2>4, <2>5, <2>6, <2>7, <2>8, <2>9, <3>2, <4>1
    <3> QED BY <2>8, <3>1, <3>2
  <2>13. /\ \A d \in Clients \ {c} : conn'[d] = conn[d]
         /\ conn'[c] = "pending"
    BY <2>1, <2>2
  <2>14. port' = "open" /\ worker' = worker /\ portMessage' = portMessage
           /\ portContexts' = portContexts
    BY <1>2, <2>1
  <2>15. Connecting' =>
           /\ port' = "open" =>
                conn'[portMessage'.client] \in {"pending", "closed"}
           /\ portContexts'[portMessage'.client] =
                IF worker' \in {"accept", "unaccepted"} THEN "allocated"
                                                       ELSE "none"
    BY <1>2, <2>4, <2>9, <2>10, <2>13, <2>14 DEF RequestsInv
  <2>16. \A d \in Clients :
           /\ portContexts'[d] = "open" => conn'[d] \in {"open", "closed"}
           /\ portContexts'[d] = "allocated" =>
                worker' \in {"accept", "unaccepted"} /\ d = portMessage'.client
    BY <2>5, <2>13, <2>14 DEF RequestsInv
  <2> HIDE DEF m
  <2> QED BY <2>12, <2>14, <2>15, <2>16 DEF RequestsInv
<1> QED BY <1>1, <1>2

LEMMA ClientRequestsStep ==
    ASSUME LibTypeOK, LibCallInv, RequestsInv, UNCHANGED libServerVars,
           NEW c \in Clients, LibClient(c)
    PROVE  RequestsInv'
<1>0. UNCHANGED <<worker, portMessage, portContexts>>
  BY DEF libServerVars
<1>q. CASE UNCHANGED portVars
  BY <1>0, <1>q, QuietRequestsStep
<1>r. CASE SysReturn(c)
  BY <1>0, <1>r DEF SysReturn, RequestsInv, Connecting
<1>d. ASSUME NEW m \in Message, m.type # "CONNECTION_REQUEST", UNCHANGED <<port, conn>>,
             queue' = queue \/ (port = "open" /\ queue' = Append(queue, m))
      PROVE  RequestsInv'
  <2>1. /\ <<m>> \in Seq(Message)
        /\ \A i \in DOMAIN <<m>> : <<m>>[i].type # "CONNECTION_REQUEST"
    BY <1>d
  <2>2. queue \in Seq(Message)
    BY DEF LibTypeOK, PortTypeOK
  <2>3. Append(queue, m) = queue \o <<m>>
    BY <2>2
  <2> QED BY <1>0, <1>d, <2>1, <2>3, AppendRequestsStep
<1>h. ASSUME NEW s \in Seq(Message), SysHangup(c, s),
             \A i \in DOMAIN s : s[i].type # "CONNECTION_REQUEST"
      PROVE  RequestsInv'
  BY <1>0, <1>h, AppendRequestsStep DEF SysHangup, CanSend
<1>n. ASSUME NEW n \in Message, n.type # "CONNECTION_REQUEST",
             NEW o \in Message, o.type # "CONNECTION_REQUEST",
             SysHangup(c, <<n>>) \/ SysHangup(c, <<o, n>>)
      PROVE  RequestsInv'
  <2>1. /\ <<n>> \in Seq(Message) /\ <<o, n>> \in Seq(Message)
        /\ \A i \in DOMAIN <<n>> : <<n>>[i].type # "CONNECTION_REQUEST"
        /\ \A i \in DOMAIN <<o, n>> : <<o, n>>[i].type # "CONNECTION_REQUEST"
    BY <1>n
  <2> QED BY <1>n, <1>h, <2>1
<1>1. CASE SrvConnectServer(c)
  BY <1>1, <1>q DEF SrvConnectServer
<1>2. CASE SrvConnectServerCalls(c)
  BY <1>0, <1>2, <1>q, ConnectCallsRequestsStep DEF SrvConnectServerCalls
<1>3. CASE SrvConnectServerReturns(c) \/ SrvSendSynchronousRequestReturns(c)
  BY <1>3, <1>r DEF SrvConnectServerReturns, SrvSendSynchronousRequestReturns
<1>4. NextMessage(c) \in Data \/ ~MaySendNow(c)
  BY PortAssumption DEF MaySendNow, NextMessage, Data, LibTypeOK
<1>5. CASE SrvSendSynchronousRequest(c)
  <2>1. CASE SysRequest(c, NextMessage(c))
    <3>1. /\ Msg("REQUEST", c, NextMessage(c), FALSE) \in Message
          /\ Msg("REQUEST", c, NextMessage(c), FALSE).type # "CONNECTION_REQUEST"
      BY <1>4, <1>5, MessageTypes DEF SrvSendSynchronousRequest, Types, Msg
    <3> QED BY <2>1, <3>1, <1>d DEF SysRequest, CanSend
  <2> QED BY <1>5, <2>1, <1>q DEF SrvSendSynchronousRequest, SendReturnsEarly
<1>6. CASE SrvSendDatagram(c)
  <2>1. ASSUME NEW k \in BOOLEAN, SysDatagram(c, NextMessage(c), k)
        PROVE  RequestsInv'
    <3>1. /\ Msg("DATAGRAM", c, NextMessage(c), k) \in Message
          /\ Msg("DATAGRAM", c, NextMessage(c), k).type # "CONNECTION_REQUEST"
      BY <1>4, <1>6, MessageTypes DEF SrvSendDatagram, Types, Msg
    <3> QED BY <2>1, <3>1, <1>d DEF SysDatagram, CanSend
  <2> QED BY <1>6, <2>1, <1>q DEF SrvSendDatagram, SendReturnsEarly
<1>7. \A t \in {"PORT_CLOSED", "CLIENT_DIED", "OTHER"} :
        Notice(t, c) \in Message /\ Notice(t, c).type # "CONNECTION_REQUEST"
  BY MessageTypes DEF Types, Notice, Msg
<1>8. CASE SrvDisconnectServer(c)
  <2>1. SysHangup(c, <<Notice("PORT_CLOSED", c)>>)
    BY <1>8 DEF SrvDisconnectServer, CloseHandle
  <2> QED BY <1>7, <2>1, <1>n
<1>9. CASE LibClientDies(c)
  <2>1. PICK t \in {"PORT_CLOSED", "CLIENT_DIED"} :
          \/ SysHangup(c, <<Notice(t, c)>>)
          \/ SysHangup(c, <<Notice("OTHER", c), Notice(t, c)>>)
    BY <1>9 DEF LibClientDies
  <2> DEFINE n == Notice(t, c)
             o == Notice("OTHER", c)
  <2>2. /\ n \in Message /\ n.type # "CONNECTION_REQUEST"
        /\ o \in Message /\ o.type # "CONNECTION_REQUEST"
    BY <1>7
  <2>3. SysHangup(c, <<n>>) \/ SysHangup(c, <<o, n>>)
    BY <2>1
  <2> HIDE DEF n, o
  <2> QED BY <2>2, <2>3, <1>n
<1> QED
  BY <1>1, <1>2, <1>3, <1>5, <1>6, <1>8, <1>9 DEF LibClient

LEMMA LibInvStep == LibInv /\ [LibNext]_libVars => LibInv'
<1> SUFFICES ASSUME LibInv, [LibNext]_libVars PROVE LibInv'
  OBVIOUS
<1> USE DEF LibInv
<1>1. CASE UNCHANGED libVars
  BY <1>1, PortTypeStutter
  DEF libVars, portVars, libServerVars, libClientVars, LibTypeOK, LibInHand,
      LibOwnerInv, LibCallInv, LibCallOK, ObjectOK, RequestsInv, Connecting
<1>2. CASE LibServer /\ UNCHANGED libClientVars
  BY <1>2, LibOwnerTypeStep, LibWorkerTypeStep, ServerCallStep,
     OwnerRequestsStep, WorkerRequestsStep
  DEF LibServer
<1>3. ASSUME NEW c \in Clients, LibClient(c), UNCHANGED libServerVars
      PROVE  LibInv'
  BY <1>3, LibClientTypeStep, ClientCallStep, ClientRequestsStep
<1> QED BY <1>1, <1>2, <1>3 DEF LibNext

LEMMA LibInvariant == LibSpec => []LibInv
  BY LibInit0, LibInvStep, PTL DEF LibSpec

\* SrvConnectServer, SrvDisconnectServer and the sends neither leak a
\* CLIENT_OBJECT nor free one that a call is using, and an open connection has
\* the object that alone knows its handle.
THEOREM ObjectsAreRight == LibSpec => []ObjectsHoldConnections
<1>1. LibInv => ObjectsHoldConnections
  <2> SUFFICES ASSUME LibInv, NEW c \in Clients
               PROVE  /\ objects[c] # "none" <=>
                           place[c] \in {"building", "connecting", "connected",
                                         "requesting"}
                      /\ objects[c] = "connected" =>
                           /\ conn[c] = "open"
                           /\ place[c] \in {"connected", "requesting"}
                      /\ conn[c] = "open" => objects[c] # "none"
    BY DEF ObjectsHoldConnections
  <2>1. LibCallOK(c) /\ ObjectOK(c)
    BY DEF LibInv, LibCallInv
  <2>2. /\ place[c] \in {"idle", "building", "connecting", "connected",
                         "requesting", "closed", "dead"}
        /\ objects[c] \in {"none", "allocated", "connected"}
    BY DEF LibInv, LibTypeOK
  <2> QED BY <2>1, <2>2 DEF LibCallOK, ObjectOK
<1> QED BY <1>1, LibInvariant, PTL

-----------------------------------------------------------------------------
(***************************************************************************)
(* Every step is one of UaSystem, or none of its.  First the kernel's      *)
(* calls, which are the same.                                              *)
(***************************************************************************)
LEMMA SameServerCalls ==
    /\ SysCreatePort => Ua!SysCreatePort
    /\ SysClosePort => Ua!SysClosePort
    /\ SysReceive => Ua!SysReceive
    /\ \A c, d : SysReply(c, d) => Ua!SysReply(c, d)
    /\ \A c : SysAccept(c) => Ua!SysAccept(c)
    /\ \A c : SysReject(c) => Ua!SysReject(c)
    /\ \A c : SysCancel(c) => Ua!SysCancel(c)
    /\ UNCHANGED portVars <=> UNCHANGED Ua!portVars
  BY DEF SysCreatePort, Ua!SysCreatePort, SysClosePort, Ua!SysClosePort,
         Blocked, Ua!Blocked, SysReceive, Ua!SysReceive, SysReply, Ua!SysReply,
         SysAccept, Ua!SysAccept, CanAccept, Ua!CanAccept, SysReject,
         Ua!SysReject, SysCancel, Ua!SysCancel, portVars, Ua!portVars

LEMMA SameClientCalls ==
    /\ \A c : NoData(c) = Ua!NoData(c)
    /\ \A t, c : Notice(t, c) = Ua!Notice(t, c)
    /\ \A c : CanSend(c) <=> Ua!CanSend(c)
    /\ \A c, d : SysConnect(c, d) => Ua!SysConnect(c, d)
    /\ \A c, d : SysRequest(c, d) => Ua!SysRequest(c, d)
    /\ \A c, d, k : SysDatagram(c, d, k) => Ua!SysDatagram(c, d, k)
    /\ \A c : SysReturn(c) => Ua!SysReturn(c)
    /\ \A c, s : SysHangup(c, s) => Ua!SysHangup(c, s)
  BY DEF NoData, Ua!NoData, Msg, Ua!Msg, Notice, Ua!Notice, CanSend, Ua!CanSend,
         SysConnect, Ua!SysConnect, SysRequest, Ua!SysRequest, SysDatagram,
         Ua!SysDatagram, SysReturn, Ua!SysReturn, SysHangup, Ua!SysHangup

\* SrvCreateServer, but for initialising the attributes, and SrvTerminateServer.
LEMMA LibOwnerIsUa ==
    ASSUME LibInv,
           \/ SrvCreateServer \/ SrvTerminateServer
           \/ SrvTerminateServerReturns \/ OthersUseHandle
    PROVE  Ua!ServerNext \/ UNCHANGED <<Ua!portVars, Ua!serverVars>>
<1> USE DEF libWorkerVars, Ua!workerVars, Allocated, Ua!Allocate, GotoCleanup,
            Ua!CreateFails
<1>1. AllocateServerObject => Ua!AllocateServer
  BY SameServerCalls DEF AllocateServerObject, Ua!AllocateServer
<1>2. AllocateMessageAttributes => Ua!AllocateAttributes
  BY SameServerCalls DEF AllocateMessageAttributes, Ua!AllocateAttributes
<1>3. InitializeMessageAttribute =>
        Ua!AllocateMessage \/ UNCHANGED <<Ua!portVars, Ua!serverVars>>
  BY SameServerCalls
  DEF InitializeMessageAttribute, Ua!AllocateMessage, Ua!serverVars
<1>4. AllocatePortMessage => Ua!AllocateMessage
  BY SameServerCalls DEF AllocatePortMessage, Ua!AllocateMessage
<1>5. CreatePort => Ua!CreatePort
  BY SameServerCalls DEF CreatePort, Ua!CreatePort
<1>6. CreateThread => Ua!StartWorker
  BY SameServerCalls DEF CreateThread, Ua!StartWorker
<1>7. Cleanup => Ua!Cleanup
  BY SameServerCalls DEF Cleanup, Ua!Cleanup, LibInv, LibTypeOK
<1>8. SrvTerminateServer => Ua!TerminateClosesPort
  BY SameServerCalls DEF SrvTerminateServer, Ua!TerminateClosesPort
<1>9. SrvTerminateServerReturns => Ua!TerminateFrees
  BY SameServerCalls
  DEF SrvTerminateServerReturns, Ua!TerminateFrees, Ua!WorkerIsDone,
      Ua!Allocations
<1>10. OthersUseHandle => Ua!ReuseHandle
  BY SameServerCalls DEF OthersUseHandle, Ua!ReuseHandle
<1> QED
  BY <1>1, <1>2, <1>3, <1>4, <1>5, <1>6, <1>7, <1>8, <1>9, <1>10
  DEF SrvCreateServer, Ua!ServerNext, Ua!UaCreateServer

\* The worker.
LEMMA LibWorkerIsUa ==
    ASSUME LibInv, SrvServerWorker
    PROVE  Ua!ServerNext
<1> USE DEF ownerVars, Ua!ownerVars, contextVars, Ua!clientState, WorkerGoesTo,
            Ua!GoTo, WorkerReturns, Ua!Exit, HandlerStatus, Ua!Returns, Sender
<1>0. /\ portContexts \in [Clients -> {"none", "allocated", "open"}]
      /\ LibInHand => portMessage.client \in Clients
  BY MessageFields DEF LibInv, LibTypeOK
<1>1. ReceiveOn => Ua!EnterReceive
  BY SameServerCalls DEF ReceiveOn, Ua!EnterReceive
<1>2. MessageReceived => Ua!Receive
  BY SameServerCalls DEF MessageReceived, Ua!Receive
<1>3. NothingReceived => Ua!ReceiveFails \/ Ua!AstrayReceiveFails
  BY SameServerCalls
  DEF NothingReceived, Ua!ReceiveFails, Ua!AfterFailedReceive,
      Ua!AstrayReceiveFails
<1>4. OthersMessageReceived => Ua!AstrayReceive
  BY SameServerCalls
  DEF OthersMessageReceived, Ua!AstrayReceive, Ua!Strays, Types, Ua!Types
<1>5. SrvAlpcRequest => Ua!UaAlpcRequest
  BY SameServerCalls
  DEF SrvAlpcRequest, Ua!UaAlpcRequest, Type, Ua!Processing, GiveToCallback,
      Ua!Hand
<1>6. SrvAlpcRequestReplies => Ua!UaAlpcRequestReplies
  BY SameServerCalls
  DEF SrvAlpcRequestReplies, Ua!UaAlpcRequestReplies, Ua!ReplyStatus,
      Ua!Deliverable, Ua!LeftWaiting, FailsUnread
<1>7. SrvAlpcDatagram => Ua!UaAlpcDatagram
  BY SameServerCalls
  DEF SrvAlpcDatagram, Ua!UaAlpcDatagram, Type, Ua!Processing, GiveToCallback,
      Ua!Hand, ContextAttribute, Ua!HasContextAttribute, Ua!NeedsCancel
<1>8. SrvAlpcDatagramCancels => Ua!UaAlpcDatagramCancels
  BY SameServerCalls DEF SrvAlpcDatagramCancels, Ua!UaAlpcDatagramCancels
<1>9. SrvAlpcDisconnect => Ua!UaAlpcDisconnect
  BY <1>0, SameServerCalls
  DEF SrvAlpcDisconnect, Ua!UaAlpcDisconnect, Type, Ua!Processing,
      Ua!DisconnectTypes, ContextAttribute, Ua!HasContextAttribute,
      FreePortContext, Ua!FreeContext, LibInHand
<1>10. SrvAlpcConnect => Ua!UaAlpcConnect
  <2> SUFFICES ASSUME SrvAlpcConnect PROVE Ua!UaAlpcConnect
    OBVIOUS
  <2>1. portContexts[portMessage.client] = "none"
    BY DEF SrvAlpcConnect, Type, LibInv, RequestsInv, Connecting
  <2> QED
    BY <1>0, <2>1, SameServerCalls
    DEF SrvAlpcConnect, Ua!UaAlpcConnect, Type, Ua!Processing,
        Ua!WithoutContext, LibInHand
<1>11. SrvAlpcConnectAccepts => Ua!UaAlpcConnectAccepts
  <2> SUFFICES ASSUME SrvAlpcConnectAccepts PROVE Ua!UaAlpcConnectAccepts
    OBVIOUS
  <2>1. portContexts[portMessage.client] = "allocated"
    BY DEF SrvAlpcConnectAccepts, LibInv, RequestsInv, Connecting
  <2> QED
    BY <1>0, <2>1, SameServerCalls
    DEF SrvAlpcConnectAccepts, Ua!UaAlpcConnectAccepts, LibInHand
<1>12. SrvAlpcConnectRefuses => Ua!UaAlpcConnectRejects
  <2> SUFFICES ASSUME SrvAlpcConnectRefuses PROVE Ua!UaAlpcConnectRejects
    OBVIOUS
  <2>1. portContexts[portMessage.client] =
          IF worker = "unaccepted" THEN "allocated" ELSE "none"
    BY DEF SrvAlpcConnectRefuses, LibInv, RequestsInv, Connecting
  <2> QED
    BY <1>0, <2>1, SameServerCalls
    DEF SrvAlpcConnectRefuses, Ua!UaAlpcConnectRejects, Refuse, RefuseDeclined,
        RefuseWithoutMemory, RefuseUnaccepted, Ua!FreeContext, FreePortContext,
        Ua!Refusable, CanAccept, Ua!CanAccept, Ua!LeftWaiting, FailsUnread,
        LibInHand
<1>13. ProcessDefault => Ua!ProcessOther
  BY SameServerCalls
  DEF ProcessDefault, Ua!ProcessOther, Type, Ua!Processing, Ua!Types,
      Ua!DisconnectTypes
<1>14. ProcessOthersMessage => Ua!UaProcessStray
  BY SameServerCalls
  DEF ProcessOthersMessage, Ua!UaProcessStray, Ua!ProcessStray,
      Ua!DisconnectTypes
<1> QED
  BY <1>1, <1>2, <1>3, <1>4, <1>5, <1>6, <1>7, <1>8, <1>9, <1>10, <1>11,
     <1>12, <1>13, <1>14
  DEF SrvServerWorker, SrvProcessMessage, Ua!ServerNext, Ua!UaServerWorker,
      Ua!UaProcessMessage

\* The clients.
LEMMA LibClientIsUa ==
    ASSUME LibInv, NEW c \in Clients, LibClient(c)
    PROVE  Ua!ClientStep(c) \/ UNCHANGED <<Ua!portVars, Ua!clientVars>>
<1>0. place \in [Clients -> {"idle", "building", "connecting", "connected",
                             "requesting", "closed", "dead"}]
  BY DEF LibInv, LibTypeOK
<1> USE <1>0, SameServerCalls, SameClientCalls
    DEF TooLongOrNoMemory, Ua!ReturnEarly, Ua!EarlyStatus
<1>1. SrvConnectServer(c) =>
        Ua!UaConnectServer(c) \/ UNCHANGED <<Ua!portVars, Ua!clientVars>>
  BY DEF SrvConnectServer, Ua!UaConnectServer, Ua!clientVars
<1>2. SrvConnectServerCalls(c) => Ua!UaConnectServer(c)
  BY DEF SrvConnectServerCalls, Ua!UaConnectServer
<1>3. SrvConnectServerReturns(c) => Ua!UaConnectServerReturns(c)
  BY DEF SrvConnectServerReturns, Ua!UaConnectServerReturns
<1>4. SrvSendSynchronousRequest(c) => Ua!UaSendSynchronousRequest(c)
  BY DEF SrvSendSynchronousRequest, Ua!UaSendSynchronousRequest,
         SendReturnsEarly, MaySendNow, Ua!MaySend, NextMessage, Ua!NextData
<1>5. SrvSendSynchronousRequestReturns(c) =>
        Ua!UaSendSynchronousRequestReturns(c)
  BY DEF SrvSendSynchronousRequestReturns, Ua!UaSendSynchronousRequestReturns,
         Ua!CopyBack
<1>6. SrvSendDatagram(c) => Ua!UaSendDatagram(c)
  BY DEF SrvSendDatagram, Ua!UaSendDatagram,
         SendReturnsEarly, MaySendNow, Ua!MaySend, NextMessage, Ua!NextData
<1>7. SrvDisconnectServer(c) => Ua!UaDisconnectServer(c)
  BY DEF SrvDisconnectServer, CloseHandle, Ua!UaDisconnectServer
<1>8. LibClientDies(c) => Ua!ClientDies(c)
  BY DEF LibClientDies, Ua!ClientDies
<1> QED
  BY <1>1, <1>2, <1>3, <1>4, <1>5, <1>6, <1>7, <1>8
  DEF LibClient, Ua!ClientStep, Ua!ClientCalls, Ua!ClientReturns

\* Every behaviour of this generation is one of ua.c's: what it does differently
\* is nothing its clients and its port can tell.
THEOREM LibraryIsUaSystem == LibSpec => IsUaSystem
<1>1. LibInit => Ua!Init
  BY DEF LibInit, PortInit, Ua!Init, Ua!PortInit, Ua!ServerInit, Ua!ClientInit,
         NoData, Ua!NoData
<1>2. LibInv /\ [LibNext]_libVars => [Ua!Next]_(Ua!vars)
  <2> SUFFICES ASSUME LibInv, [LibNext]_libVars PROVE [Ua!Next]_(Ua!vars)
    OBVIOUS
  <2>1. UNCHANGED libVars => UNCHANGED <<Ua!portVars, Ua!serverVars, Ua!clientVars>>
    BY SameServerCalls
    DEF libVars, libServerVars, libClientVars, Ua!serverVars, Ua!clientVars
  <2>2. UNCHANGED libServerVars => UNCHANGED Ua!serverVars
    BY DEF libServerVars, Ua!serverVars
  <2>3. UNCHANGED libClientVars => UNCHANGED Ua!clientVars
    BY DEF libClientVars, Ua!clientVars
  <2>4. CASE LibServer /\ UNCHANGED libClientVars
    BY <2>3, <2>4, LibOwnerIsUa, LibWorkerIsUa
    DEF LibServer, Ua!Next, Ua!ServerStep, Ua!vars
  <2>5. ASSUME NEW c \in Clients, LibClient(c), UNCHANGED libServerVars
        PROVE  [Ua!Next]_(Ua!vars)
    BY <2>2, <2>5, LibClientIsUa DEF Ua!Next, Ua!vars
  <2> QED BY <2>1, <2>4, <2>5 DEF LibNext, Ua!vars
<1> QED BY <1>1, <1>2, LibInvariant, PTL DEF LibSpec, IsUaSystem, Ua!Spec

-----------------------------------------------------------------------------
(***************************************************************************)
(* The kernel-mode library.                                                *)
(***************************************************************************)
KaServerActions ==
    \/ AllocateServerObject \/ AllocateMessageAttributes
    \/ InitializeMessageAttribute \/ AllocatePortMessage \/ CreatePort
    \/ CreateThread \/ Cleanup \/ SrvTerminateServer
    \/ SrvTerminateServerReturns \/ OthersUseHandle

LEMMA KaServerIsLibServer == KaServerStep => LibServer /\ UNCHANGED libClientVars
  BY DEF KaServerStep, KaCreateServer, KaCreateThread, KaTerminateServer,
         KaServerWorker, KaProcessMessage, KaAlpcRequest, KaAlpcDatagram,
         KaAlpcDisconnect, KaAlpcConnect, LibServer, SrvCreateServer,
         SrvServerWorker, SrvProcessMessage

LEMMA KaClientIsLibClient ==
    ASSUME NEW c \in Clients, KaClientStep(c)
    PROVE  LibClient(c) /\ UNCHANGED libServerVars
  BY DEF KaClientStep, KaConnectServer, KaSendSynchronousRequest,
         KaSendDatagram, KaDisconnectServer, LibClient

LEMMA KaLibInvariant == KaSpec => []LibInv
<1>1. KaInit => LibInv
  BY LibInit0 DEF KaInit
<1>2. LibInv /\ [KaNext]_kaVars => LibInv'
  <2>1. KaServerStep => LibNext
    BY KaServerIsLibServer DEF LibNext
  <2>2. \A c \in Clients : KaClientStep(c) => LibNext
    BY KaClientIsLibClient DEF LibNext
  <2>3. KaServerWorkerFaults \/ UNCHANGED kaVars => UNCHANGED libVars
    BY DEF KaServerWorkerFaults, kaVars
  <2> QED BY <2>1, <2>2, <2>3, LibInvStep DEF KaNext
<1> QED BY <1>1, <1>2, PTL DEF KaSpec

\* With the NULL that ka.c passes nothing is ever received: no connection is
\* accepted, no request answered, no callback called.
ServesNothing ==
    /\ context = Null
    /\ worker \in {"none", "receive"}
    /\ \A c \in Clients : portContexts[c] = "none" /\ given[c] = 0
    /\ \A c \in Clients : call[c] # "ok"
    /\ outcome \in [Clients -> {"none", "refused", "answered", "failed", "sent",
                                "dropped", "overflow", "nomem"}]

LEMMA ServesNothingStep ==
    ASSUME StartContext = Null, LibInv, ServesNothing, [KaNext]_kaVars
    PROVE  ServesNothing'
<1>0. /\ PortTypeOK
      /\ call \in [Clients -> {"idle", "connect", "request", "ok", "fail"}]
  BY DEF LibInv, LibTypeOK, PortTypeOK
<1>1. CASE KaServerStep
  <2>1. ~KaServerWorker
    BY DEF KaServerWorker, ServesNothing
  <2>2. KaServerActions /\ context' \in {context, StartContext}
    BY <1>1, <2>1
    DEF KaServerStep, KaCreateServer, KaCreateThread, KaTerminateServer,
        KaServerActions
  <2>3. worker' \in {worker, "receive"} /\ UNCHANGED <<portContexts, given>>
    BY <2>2
    DEF KaServerActions, AllocateServerObject, AllocateMessageAttributes,
        InitializeMessageAttribute, AllocatePortMessage, CreatePort,
        CreateThread, Cleanup, SrvTerminateServer, SrvTerminateServerReturns,
        OthersUseHandle, Allocated, GotoCleanup, libWorkerVars
  <2>4. UNCHANGED outcome
    BY <1>1 DEF KaServerStep, libClientVars
  <2>5. UNCHANGED portVars \/ SysCreatePort \/ SysClosePort
    BY <2>2
    DEF KaServerActions, AllocateServerObject, AllocateMessageAttributes,
        InitializeMessageAttribute, AllocatePortMessage, CreatePort,
        CreateThread, Cleanup, SrvTerminateServer, SrvTerminateServerReturns,
        OthersUseHandle, Allocated, GotoCleanup
  <2>6. \A c \in Clients : call'[c] # "ok"
    BY <2>5 DEF ServesNothing, portVars, SysCreatePort, SysClosePort
  <2> QED BY <2>2, <2>3, <2>4, <2>6 DEF ServesNothing
<1>2. ASSUME NEW c \in Clients, KaClientStep(c) PROVE ServesNothing'
  <2>1. LibClient(c) /\ UNCHANGED <<worker, portContexts, given, context>>
    BY <1>2, KaClientIsLibClient DEF KaClientStep, libServerVars
  <2> DEFINE Unserved ==
        /\ \A d \in Clients : call'[d] # "ok"
        /\ outcome' \in [Clients -> {"none", "refused", "answered", "failed",
                                     "sent", "dropped", "overflow", "nomem"}]
  <2> USE <1>0 DEF ServesNothing, portVars
  <2>2. SrvConnectServer(c) => Unserved
    BY DEF SrvConnectServer
  <2>3. SrvConnectServerCalls(c) => Unserved
    BY DEF SrvConnectServerCalls, TooLongOrNoMemory, SysConnect
  <2>4. SrvConnectServerReturns(c) => Unserved
    BY DEF SrvConnectServerReturns, SysReturn
  <2>5. SrvSendSynchronousRequest(c) => Unserved
    BY DEF SrvSendSynchronousRequest, SendReturnsEarly, TooLongOrNoMemory,
           SysRequest
  <2>6. SrvSendSynchronousRequestReturns(c) => Unserved
    BY DEF SrvSendSynchronousRequestReturns, SysReturn
  <2>7. SrvSendDatagram(c) => Unserved
    BY DEF SrvSendDatagram, SendReturnsEarly, TooLongOrNoMemory, SysDatagram
  <2>8. SrvDisconnectServer(c) \/ LibClientDies(c) => Unserved
    BY DEF SrvDisconnectServer, CloseHandle, LibClientDies, SysHangup
  <2>9. Unserved
    BY <2>1, <2>2, <2>3, <2>4, <2>5, <2>6, <2>7, <2>8 DEF LibClient
  <2> QED BY <2>1, <2>9
<1>3. CASE KaServerWorkerFaults \/ UNCHANGED kaVars
  BY <1>3
  DEF KaServerWorkerFaults, kaVars, libVars, portVars, libServerVars,
      libClientVars, ServesNothing
<1> QED BY <1>1, <1>2, <1>3 DEF KaNext

\* A worker created with the NULL of ka.c (ka.c:347) never receives a message.
THEOREM NullServesNothing ==
    StartContext = Null => (KaSpec => []ServesNothing)
<1> SUFFICES ASSUME StartContext = Null PROVE KaSpec => []ServesNothing
  OBVIOUS
<1>1. KaInit => ServesNothing
  BY DEF KaInit, LibInit, PortInit, ServesNothing
<1>2. LibInv /\ ServesNothing /\ [KaNext]_kaVars => ServesNothing'
  BY ServesNothingStep
<1> QED BY <1>1, <1>2, KaLibInvariant, PTL DEF KaSpec
=============================================================================
