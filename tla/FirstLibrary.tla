---------------------------- MODULE FirstLibrary ----------------------------
(***************************************************************************)
(* AdvancedLocalProcedureCallServer.c, the first generation of the         *)
(* library.  It has no OnRequest: a request is sent back as its own reply. *)
(* The status of that reply, and of the last accept or refusal, is what    *)
(* its worker goes on or ends by.  The rest of its server half takes the   *)
(* steps of module UaServer.                                               *)
(*                                                                         *)
(* A client is a CLIENT_OBJECT with a message buffer of its own.  The      *)
(* library sends datagrams only; a user makes a request with the system    *)
(* call, on the handle in the object, as client.c does.  "handled" counts  *)
(* a request as given to a callback when it is sent back.                  *)
(***************************************************************************)
EXTENDS UaRpc

VARIABLE clientHeap  \* per client: which of its two allocations are live

firstVars == <<vars, clientHeap>>

ClientAllocations == {"ClientObject", "PortMessage"}

FirstInit == Init /\ clientHeap = [c \in Clients |-> {}]

-----------------------------------------------------------------------------
\* The server half.

\* A variant that sends nothing back.
EchoNothing == UNCHANGED portVars

\* The request goes back as its own reply.
Echo == SysReply(msg.client, msg.data)

SrvAlpcRequest ==
    /\ Processing({"REQUEST"})
    /\ Hand
    /\ \/ /\ IF hport = "valid" THEN Echo ELSE UNCHANGED portVars
          /\ Returns(Deliverable(msg.client))
          /\ UNCHANGED unanswered
       \/ /\ Deliverable(msg.client)
          /\ LeftWaiting(msg.client)
          /\ Returns(FALSE)
    /\ UNCHANGED <<ownerVars, msg, contexts, commHandles>>

SrvAlpcDatagram == UaAlpcDatagram \/ UaAlpcDatagramCancels

SrvAlpcDisconnect == UaAlpcDisconnect

\* A variant that does not assign the status of the refusal: that of the accept
\* before it, which failed, stays.
RefusedOfTheAccept == FALSE

\* The call with AcceptConnection FALSE succeeds.
Refused == Refusable(msg.client)

SrvAlpcConnectRejects ==
    /\ wpc = "reject"
    /\ \/ /\ IF hport = "valid" THEN SysReject(msg.client) ELSE UNCHANGED portVars
          /\ Returns(Refused)
          /\ UNCHANGED unanswered
       \/ /\ Refusable(msg.client)
          /\ LeftWaiting(msg.client)
          /\ Returns(FALSE)
    /\ contexts' = FreeContext(msg.client)
    /\ UNCHANGED <<ownerVars, msg, commHandles, handled>>

SrvAlpcConnect ==
    UaAlpcConnect \/ UaAlpcConnectAccepts \/ SrvAlpcConnectRejects

\* A stray's handler returns the status of the call it made, but for a datagram.
SrvProcessStray ==
    ProcessStray({"REQUEST", "CONNECTION_REQUEST"} \cup DisconnectTypes)

SrvProcessMessage ==
    \/ SrvAlpcRequest
    \/ SrvAlpcDatagram
    \/ SrvAlpcDisconnect
    \/ SrvAlpcConnect
    \/ ProcessOther
    \/ SrvProcessStray

SrvServerWorker ==
    EnterReceive \/ Receive \/ ReceiveFails \/ SrvProcessMessage

SrvCreateServer == AllocateServer \/ UaCreateServer

SrvTerminateServer == TerminateClosesPort \/ TerminateFrees

FirstServer ==
    \/ SrvCreateServer
    \/ SrvTerminateServer
    \/ SrvServerWorker
    \/ ReuseHandle
    \/ AstrayReceive
    \/ AstrayReceiveFails

-----------------------------------------------------------------------------
\* The client half.

\* A variant that forgets the message buffer.
CleanupClientObject(live) == live \ {"ClientObject"}

\* The Cleanup label of SrvConnectServer.
CleanupClient(live) == live \ ClientAllocations

\* SrvConnectServer up to NtAlpcConnectPort: one of its two allocations fails,
\* or the call is made.
SrvConnectServer(c) ==
    \/ /\ cpc[c] = "idle"
       /\ \E live \in {{}, {"ClientObject"}} :
            clientHeap' = [clientHeap EXCEPT ![c] = CleanupClient(live)]
       /\ result' = [result EXCEPT ![c] = "nomem"]
       /\ UNCHANGED <<cpc, buf, sends, portVars>>
    \/ /\ UaConnectServer(c)
       /\ cpc'[c] = "connecting"
       /\ clientHeap' = [clientHeap EXCEPT ![c] = ClientAllocations]

SrvConnectServerReturns(c) ==
    /\ UaConnectServerReturns(c)
    /\ clientHeap' = [clientHeap EXCEPT
                        ![c] = IF call[c] = "ok" THEN @ ELSE CleanupClient(@)]

\* SrvSendDatagram builds the message in the client's buffer; a SHORT never
\* exceeds the maximum length.
SrvSendDatagram(c) ==
    /\ UaSendDatagram(c)
    /\ sends'[c] > sends[c]
    /\ UNCHANGED clientHeap

\* The user's own synchronous request.
Request(c) ==
    /\ UaSendSynchronousRequest(c)
    /\ sends'[c] > sends[c]
    /\ UNCHANGED clientHeap

RequestReturns(c) ==
    UaSendSynchronousRequestReturns(c) /\ UNCHANGED clientHeap

SrvDisconnectServer(c) ==
    /\ UaDisconnectServer(c)
    /\ clientHeap' = [clientHeap EXCEPT ![c] = CleanupClient(@)]

FirstClientDies(c) ==
    /\ ClientDies(c)
    /\ clientHeap' = [clientHeap EXCEPT ![c] = {}]

FirstClientReturns(c) == SrvConnectServerReturns(c) \/ RequestReturns(c)

FirstClient(c) ==
    \/ SrvConnectServer(c)
    \/ SrvSendDatagram(c)
    \/ Request(c)
    \/ SrvDisconnectServer(c)
    \/ FirstClientDies(c)
    \/ FirstClientReturns(c)

FirstNext ==
    \/ FirstServer /\ UNCHANGED <<clientVars, clientHeap>>
    \/ \E c \in Clients : FirstClient(c) /\ UNCHANGED serverVars

\* As in UaSystem, threads that can run do run, and nothing obliges a receive to
\* fail at an open port.
FirstSpec ==
    /\ FirstInit /\ [][FirstNext]_firstVars
    /\ WF_firstVars(UaCreateServer /\ UNCHANGED <<clientVars, clientHeap>>)
    /\ WF_firstVars(/\ SrvServerWorker /\ ~Idle
                    /\ UNCHANGED <<clientVars, clientHeap>>)
    /\ \A c \in Clients :
         WF_firstVars(FirstClientReturns(c) /\ UNCHANGED serverVars)

-----------------------------------------------------------------------------
\* What one client can do to the others: a handler ends the worker only when
\* the port is closed, or the client it served is gone or is left waiting.
\* A client that was refused or answered, or is there, never ends it.
OnlyTheUnservedEndWorker ==
    wexit = "process" /\ port = "open" =>
      /\ msg \in Message
      /\ conn[msg.client] = "closed" \/ Blocked(msg.client)

\* A client's object and its message buffer are live exactly while it makes or
\* uses a connection: SrvConnectServer leaks neither on any of its failures,
\* and neither is freed under a call that uses them.
ClientHeapIsRight ==
    \A c \in Clients :
      clientHeap[c] = IF cpc[c] \in {"connecting", "connected", "requesting"}
                        THEN ClientAllocations ELSE {}

\* A blocked call comes to an end, or the worker has: nothing but the end of
\* the worker leaves a client waiting.
CallsEndOrWorkerDoes ==
    \A c \in Clients : Blocked(c) ~> (~Blocked(c) \/ wpc = "exited")
=============================================================================
