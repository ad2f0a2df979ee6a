------------------------------ MODULE KaServer ------------------------------
(***************************************************************************)
(* ka.c, the library in kernel mode.  Its functions make the calls of the  *)
(* generation with client objects (module ObjectLibrary) with kernel       *)
(* memory and the Zw* names, but its thread is created by                  *)
(* PsCreateSystemThread, which is given a start context of NULL: the       *)
(* worker is not given the server it serves.                               *)
(*                                                                         *)
(* Function by function ka.c is AdvancedLocalProcedureCall.c with these    *)
(* names, so that module's actions stand here under the names of ka.c.     *)
(***************************************************************************)
EXTENDS ObjectLibrary

CONSTANT StartContext  \* the last argument of PsCreateSystemThread: NULL in
                       \* ka.c, "Server" where its worker is to serve

VARIABLES
    context,  \* the worker's parameter ServerObject: "Server", or Null
    system    \* "up", or "stopped" by a fault in kernel mode

kaVars == <<libVars, context, system>>

KaInit == LibInit /\ context = Null /\ system = "up"

-----------------------------------------------------------------------------------------
\* The server half.
KaCreateThread ==
    /\ CreateThread
    /\ context' = IF worker' = "receive" THEN StartContext ELSE context

KaCreateServer ==
    \/ /\ \/ AllocateServerObject
          \/ AllocateMessageAttributes
          \/ InitializeMessageAttribute
          \/ AllocatePortMessage
          \/ CreatePort
          \/ Cleanup
       /\ UNCHANGED context
    \/ KaCreateThread

KaTerminateServer == SrvTerminateServer \/ SrvTerminateServerReturns

KaAlpcRequest == SrvAlpcRequest \/ SrvAlpcRequestReplies

KaAlpcDatagram == SrvAlpcDatagram \/ SrvAlpcDatagramCancels

KaAlpcDisconnect == SrvAlpcDisconnect

KaAlpcConnect ==
    SrvAlpcConnect \/ SrvAlpcConnectAccepts \/ SrvAlpcConnectRefuses

KaProcessMessage ==
    \/ KaAlpcRequest
    \/ KaAlpcDatagram
    \/ KaAlpcDisconnect
    \/ KaAlpcConnect
    \/ ProcessDefault
    \/ ProcessOthersMessage

\* Every iteration begins with a read of ServerObject.
KaServerWorker ==
    /\ context # Null
    /\ \/ ReceiveOn
       \/ MessageReceived
       \/ NothingReceived
       \/ OthersMessageReceived
       \/ KaProcessMessage

\* The address NULL is not mapped, and a fault in kernel mode stops the system.
KaServerWorkerFaults ==
    /\ worker = "receive"
    /\ context = Null
    /\ system' = "stopped"
    /\ UNCHANGED <<libVars, context>>

KaServerStep ==
    /\ \/ KaCreateServer
       \/ KaTerminateServer /\ UNCHANGED context
       \/ KaServerWorker /\ UNCHANGED context
       \/ OthersUseHandle /\ UNCHANGED context
    /\ UNCHANGED <<libClientVars, system>>

-----------------------------------------------------------------------------
\* The client half, with a KA_CLIENT_OBJECT per connection.
KaConnectServer(c) ==
    \/ SrvConnectServer(c)
    \/ SrvConnectServerCalls(c)
    \/ SrvConnectServerReturns(c)

KaSendSynchronousRequest(c) ==
    SrvSendSynchronousRequest(c) \/ SrvSendSynchronousRequestReturns(c)

KaSendDatagram(c) == SrvSendDatagram(c)

KaDisconnectServer(c) == SrvDisconnectServer(c)

KaClientStep(c) ==
    /\ \/ KaConnectServer(c)
       \/ KaSendSynchronousRequest(c)
       \/ KaSendDatagram(c)
       \/ KaDisconnectServer(c)
       \/ LibClientDies(c)
    /\ UNCHANGED <<libServerVars, context, system>>

KaNext ==
    /\ system = "up"
    /\ \/ KaServerStep
       \/ KaServerWorkerFaults
       \/ \E c \in Clients : KaClientStep(c)

KaSpec == KaInit /\ [][KaNext]_kaVars

-----------------------------------------------------------------------------
\* KaServerWorker declares its parameter "IN PKA_SERVER_OBJECT ServerObject",
\* which is not OPTIONAL: a worker that runs was given the server.
WorkerIsGivenServer == worker \notin {"none", "exited"} => context = "Server"
=============================================================================
