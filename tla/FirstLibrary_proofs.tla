------------------------- MODULE FirstLibrary_proofs -------------------------
(***************************************************************************)
(* The first generation of the library: its steps are those of UaSystem    *)
(* but for the handlers whose status its worker goes on or ends by: the    *)
(* one that sends a request back, the one that refuses a connection, and   *)
(* both on a message of another port.  So what is proved of the steps of   *)
(* UaSystem holds, and these are left.                                     *)
(***************************************************************************)
EXTENDS FirstLibrary, UaRpc_proofs

-----------------------------------------------------------------------------
(***************************************************************************)
(* Its steps.                                                              *)
(***************************************************************************)
OwnHandler ==
    /\ SrvAlpcRequest \/ SrvAlpcConnectRejects \/ SrvProcessStray
    /\ UNCHANGED clientVars

LEMMA ClientsStepAlike ==
    ASSUME NEW c \in Clients, FirstClient(c)
    PROVE  ClientStep(c)
<1>1. SrvConnectServer(c) => UaConnectServer(c)
  BY DEF SrvConnectServer, UaConnectServer, ReturnEarly, EarlyStatus
<1>2. FirstClientReturns(c) => ClientReturns(c)
  BY DEF FirstClientReturns, SrvConnectServerReturns, RequestReturns,
         ClientReturns
<1> QED
  BY <1>1, <1>2
  DEF FirstClient, SrvSendDatagram, Request, SrvDisconnectServer,
      FirstClientDies, ClientStep, ClientCalls

LEMMA StepsAlike == [FirstNext]_firstVars => [Next]_vars \/ OwnHandler
<1>1. FirstServer =>
        ServerNext \/ SrvAlpcRequest \/ SrvAlpcConnectRejects \/ SrvProcessStray
  BY DEF FirstServer, SrvCreateServer, SrvTerminateServer, SrvServerWorker,
         SrvProcessMessage, SrvAlpcDatagram, SrvAlpcDisconnect, SrvAlpcConnect,
         ServerNext, UaServerWorker, UaProcessMessage
<1> QED
  BY <1>1, ClientsStepAlike
  DEF FirstNext, firstVars, Next, ServerStep, OwnHandler

\* What the handler of a request does.
LEMMA EchoFacts ==
    ASSUME CoreInv, WorkInv, SrvAlpcRequest
    PROVE  /\ wpc = "process" /\ msg.type = "REQUEST"
           /\ msg \in Message /\ msg.client \in Clients /\ msg.data \in Data
           /\ MessageOK(msg)
           /\ \A j \in DOMAIN queue : /\ MessageOK(queue[j])
                                      /\ queue[j] \in Message
                                      /\ InOrder(msg, queue[j])
           /\ handled' = [handled EXCEPT ![msg.client] = msg.data.n]
           /\ UNCHANGED <<ownerVars, port, queue, conn, held, msg, contexts,
                          commHandles>>
           /\ unanswered \subseteq unanswered' /\ unanswered' \subseteq Clients
           /\ \/ wpc' = "receive" /\ UNCHANGED wexit
              \/ wpc' = "exited" /\ wexit' = "process"
           /\ \/ Echo
              \/ UNCHANGED portVars
           /\ call[msg.client] = "request" /\ wexit' # "process" => Echo
<1>1. /\ wpc = "process" /\ msg.type = "REQUEST"
      /\ handled' = [handled EXCEPT ![msg.client] = msg.data.n]
      /\ UNCHANGED <<ownerVars, port, queue, conn, held, msg, contexts,
                     commHandles>>
      /\ unanswered' \in {unanswered, unanswered \cup {msg.client}}
      /\ \/ wpc' = "receive" /\ UNCHANGED wexit
         \/ wpc' = "exited" /\ wexit' = "process"
      /\ Echo \/ UNCHANGED portVars
  BY DEF SrvAlpcRequest, LeftWaiting, Processing, Hand, Returns, GoTo, Exit,
         Echo, SysReply, portVars
<1>2. msg \in Message /\ msg.client \in Clients /\ msg.data \in Data
  BY <1>1, MessageFields DEF CoreInv, MessageInHand, InHand
<1>3. /\ MessageOK(msg)
      /\ \A j \in DOMAIN queue : /\ MessageOK(queue[j])
                                 /\ queue[j] \in Message
                                 /\ InOrder(msg, queue[j])
  BY <1>1, MessageFacts DEF CoreInv, TypeOK, WorkInv
<1>4. call[msg.client] = "request" /\ wexit' # "process" => Echo
  <2>1. call[msg.client] = "request" => hport = "valid"
    BY <1>2, BlockedFacts DEF CoreInv, OwnerInv
  <2> QED BY <2>1 DEF SrvAlpcRequest, Returns, Exit
<1> QED BY <1>1, <1>2, <1>3, <1>4 DEF CoreInv, TypeOK, ServerTypeOK

\* What the refusal of a connection does.
LEMMA RefusalFacts ==
    ASSUME CoreInv, WorkInv, SrvAlpcConnectRejects
    PROVE  /\ wpc = "reject"
           /\ msg \in Message /\ msg.client \in Clients
           /\ contexts' = contexts \ {msg.client}
           /\ UNCHANGED <<ownerVars, port, queue, cmsg, held, msg, commHandles,
                          handled>>
           /\ unanswered \subseteq unanswered' /\ unanswered' \subseteq Clients
           /\ \/ wpc' = "receive" /\ UNCHANGED wexit
              \/ wpc' = "exited" /\ wexit' = "process"
           /\ \/ SysReject(msg.client)
              \/ UNCHANGED portVars
           /\ \A c \in Clients : c # msg.client =>
                conn'[c] = conn[c] /\ call'[c] = call[c]
           /\ \/ conn'[msg.client] = conn[msg.client]
              \/ conn[msg.client] = "pending" /\ conn'[msg.client] = "none"
           /\ \/ call'[msg.client] = call[msg.client]
              \/ call[msg.client] = "connect" /\ call'[msg.client] = "fail"
           /\ wexit' # "process" =>
                call'[msg.client] \notin {"connect", "request"}
<1>1. /\ wpc = "reject" /\ contexts' = contexts \ {msg.client}
      /\ UNCHANGED <<ownerVars, port, queue, cmsg, held, msg, commHandles,
                     handled>>
      /\ unanswered' \in {unanswered, unanswered \cup {msg.client}}
      /\ \/ wpc' = "receive" /\ UNCHANGED wexit
         \/ wpc' = "exited" /\ wexit' = "process"
      /\ SysReject(msg.client) \/ UNCHANGED portVars
      /\ wexit' # "process" => Refused /\ SysReject(msg.client)
  BY DEF SrvAlpcConnectRejects, LeftWaiting, Returns, GoTo, Exit, FreeContext,
         SysReject, portVars, Refused, Refusable
<1>2. /\ msg \in Message /\ msg.client \in Clients
      /\ unanswered \subseteq unanswered' /\ unanswered' \subseteq Clients
  BY <1>1, MessageFields
  DEF CoreInv, TypeOK, ServerTypeOK, MessageInHand, InHand
<1>3. CanAccept(msg.client) => call[msg.client] = "connect"
  BY <1>2, BlockedFacts DEF CanAccept
<1>4. CASE SysReject(msg.client) /\ CanAccept(msg.client)
  <2>1. /\ conn[msg.client] = "pending"
        /\ conn' = [conn EXCEPT ![msg.client] = "none"]
        /\ call' = [call EXCEPT ![msg.client] = "fail"]
    BY <1>4 DEF SysReject, CanAccept
  <2>2. /\ conn'[msg.client] = "none" /\ call'[msg.client] = "fail"
        /\ \A c \in Clients : c # msg.client =>
             conn'[c] = conn[c] /\ call'[c] = call[c]
    BY <1>2, <2>1 DEF CoreInv, TypeOK, PortTypeOK
  <2> QED BY <1>1, <1>2, <1>3, <1>4, <2>1, <2>2
<1>5. CASE ~(SysReject(msg.client) /\ CanAccept(msg.client))
  <2>1. UNCHANGED <<conn, call>> /\ wexit' = "process"
    BY <1>1, <1>5 DEF SysReject, Refused, Refusable, portVars
  <2> QED BY <1>1, <1>2, <2>1
<1> QED BY <1>4, <1>5

\* What a handler does to a message of another port.
LEMMA StrayFacts ==
    ASSUME CoreInv, SrvProcessStray
    PROVE  /\ wpc = "stray" /\ msg \in Strays /\ port # "open"
           /\ UNCHANGED <<ownerVars, msg, clientState, portVars>>
           /\ \/ wpc' = "receive" /\ UNCHANGED wexit
              \/ wpc' = "exited" /\ wexit' = "process"
  BY DEF SrvProcessStray, ProcessStray, GoTo, Exit, CoreInv, MessageInHand,
         StrayInv, OwnerInv

-----------------------------------------------------------------------------
(***************************************************************************)
(* These handlers keep what every step of UaSystem keeps.                  *)
(***************************************************************************)
LEMMA OwnCoreStep ==
    ASSUME CoreInv, WorkInv, OwnHandler
    PROVE  CoreInv'
<1> USE DEF CoreInv, TypeOK, OwnHandler
<1>1. /\ wpc \notin {"none", "exited"}
      /\ wpc' \in {"receive", "exited"} /\ wexit' \in {wexit, "process"}
      /\ UNCHANGED <<ownerVars, port, msg, commHandles>>
      /\ contexts' \subseteq contexts
      /\ handled' \in [Clients -> 0..MaxSends]
      /\ unanswered' \subseteq Clients
  <2>1. CASE SrvAlpcRequest
    BY <2>1, EchoFacts, MessageFields DEF ServerTypeOK
  <2>2. CASE SrvAlpcConnectRejects
    BY <2>2, RefusalFacts DEF ServerTypeOK
  <2>3. CASE SrvProcessStray
    BY <2>3, StrayFacts DEF ServerTypeOK, clientState, portVars
  <2> QED BY <2>1, <2>2, <2>3
<1>2. \/ UNCHANGED portVars
      \/ /\ msg.client \in Clients /\ msg.data \in Data
         /\ SysReply(msg.client, msg.data) \/ SysReject(msg.client)
  <2>1. CASE SrvAlpcRequest
    BY <2>1, EchoFacts DEF Echo
  <2>2. CASE SrvAlpcConnectRejects
    BY <2>2, RefusalFacts, MessageFields
  <2>3. CASE SrvProcessStray
    BY <2>3, StrayFacts
  <2> QED BY <2>1, <2>2, <2>3
<1>3. PortTypeOK' /\ CallInv'
  BY <1>1, <1>2, PortTypeStep, PortTypeStutter, CallSysStep
<1>4. ServerTypeOK' /\ ClientTypeOK'
  BY <1>1 DEF ServerTypeOK, ClientTypeOK, ownerVars, clientVars
<1>5. MessageInHand' /\ StrayInv'
  BY <1>1 DEF MessageInHand, InHand, StrayInv, ownerVars
<1>6. OwnerInv'
  BY <1>1 DEF OwnerInv, ownerVars
<1> QED BY <1>3, <1>4, <1>5, <1>6

LEMMA StrayWorkStep ==
    ASSUME CoreInv, WorkInv, SrvProcessStray, UNCHANGED clientVars
    PROVE  WorkInv'
<1>1. /\ ~InHand /\ ~InHand' /\ UNCHANGED <<clientState, portVars>>
      /\ wexit' = wexit \/ wpc' = "exited"
  BY StrayFacts DEF InHand
<1>2. wexit = "none"
  BY StrayFacts DEF WorkInv, ExitInv, CoreInv, TypeOK, ServerTypeOK
<1>3. ExitInv'
  BY <1>1, <1>2 DEF ExitInv
<1> QED BY <1>1, <1>2, <1>3, QuietStep

LEMMA EchoWorkStep ==
    ASSUME CoreInv, WorkInv, SrvAlpcRequest, UNCHANGED clientVars
    PROVE  WorkInv'
<1> USE DEF WorkInv, CoreInv, TypeOK
<1> DEFINE d == msg.client
<1>1. /\ wpc = "process" /\ msg.type = "REQUEST"
      /\ msg \in Message /\ d \in Clients
      /\ MessageOK(msg)
      /\ \A j \in DOMAIN queue : /\ MessageOK(queue[j]) /\ queue[j] \in Message
                                 /\ InOrder(msg, queue[j])
      /\ handled' = [handled EXCEPT ![d] = msg.data.n]
      /\ UNCHANGED <<port, queue, conn, held, msg, contexts, commHandles>>
      /\ unanswered \subseteq unanswered'
      /\ \/ wpc' = "receive" /\ UNCHANGED wexit
         \/ wpc' = "exited" /\ wexit' = "process"
  BY EchoFacts
<1>2. /\ \A c \in Clients : c # d => call'[c] = call[c]
      /\ wexit' # "process" => call'[d] # "request"
      /\ \A c \in Clients : call'[c] # "ok" => call'[c] = call[c]
  <2>1. CASE Echo
    BY <1>1, <2>1 DEF Echo, SysReply, PortTypeOK
  <2>2. CASE ~Echo
    BY <2>2, EchoFacts DEF portVars
  <2> QED BY <2>1, <2>2
<1>3. MessagesOK' /\ QueueInOrder'
  <2>1. \A j \in DOMAIN queue, m \in Message : m = queue[j] => MessageOK(m)'
    <3> SUFFICES ASSUME NEW j \in DOMAIN queue, NEW m \in Message, m = queue[j]
                 PROVE  MessageOK(m)'
      OBVIOUS
    <3>1. MessageOK(m) /\ m.client \in Clients
      BY <1>1, MessageFields
    <3>2. m.client = d => m.type \notin Sends
      BY <1>1 DEF InOrder, Sends
    <3>3. m.client # d =>
            /\ handled'[m.client] = handled[m.client]
            /\ call'[m.client] = call[m.client]
      BY <1>1, <1>2, <3>1 DEF ServerTypeOK
    <3> QED BY <1>1, <3>1, <3>2, <3>3 DEF MessageOK, clientVars, Sends
  <2> QED BY <1>1, <2>1, QueueOnly
<1>4. HandlerInv' /\ ContextHoldsHandle'
  BY <1>1 DEF HandlerInv, ContextHoldsHandle
<1>5. HeldInv'
  BY <1>1 DEF HeldInv, MessageOK
<1>6. DataInv'
  BY <1>1 DEF DataInv, MessageOK, Sends, clientVars, ServerTypeOK
<1>7. ClosedInv' /\ ConnInv' /\ ExitInv'
  BY <1>1 DEF ClosedInv, ConnInv, ExitInv
<1>8. NotForgotten'
  <2> SUFFICES ASSUME wexit' # "process" PROVE NoForgottenClient'
    BY DEF NotForgotten
  <2>1. NoForgottenClient /\ wpc' = "receive"
    BY <1>1 DEF NotForgotten
  <2> QED BY <1>1, <1>2, <2>1, HandledIsNotForgotten DEF NoForgottenClient
<1> QED BY <1>3, <1>4, <1>5, <1>6, <1>7, <1>8

LEMMA RefusalWorkStep ==
    ASSUME CoreInv, WorkInv, SrvAlpcConnectRejects, UNCHANGED clientVars
    PROVE  WorkInv'
<1> USE DEF WorkInv, CoreInv, TypeOK
<1> DEFINE d == msg.client
<1>1. /\ wpc = "reject" /\ msg \in Message /\ d \in Clients
      /\ contexts' = contexts \ {d}
      /\ UNCHANGED <<port, queue, held, msg, commHandles, handled>>
      /\ unanswered \subseteq unanswered'
      /\ \/ wpc' = "receive" /\ UNCHANGED wexit
         \/ wpc' = "exited" /\ wexit' = "process"
      /\ \A c \in Clients : c # d => conn'[c] = conn[c] /\ call'[c] = call[c]
      /\ conn'[d] = conn[d] \/ conn'[d] = "none"
      /\ wexit' # "process" => call'[d] \notin {"connect", "request"}
  BY RefusalFacts
<1>2. /\ d \notin commHandles
      /\ \A j \in DOMAIN queue : queue[j].client # d
      /\ contexts = commHandles \cup (contexts \cap {d})
  BY <1>1 DEF HandlerInv, ContextHoldsHandle
<1>3. /\ ToDoPositions' = ToDoPositions /\ ToDoPositions = DOMAIN queue
      /\ \A i \in ToDoPositions : ToDo(i)' = ToDo(i) /\ ToDo(i) = queue[i]
  <2>1. ToDoPositions' = ToDoPositions /\ ToDoPositions = DOMAIN queue
    BY <1>1 DEF ToDoPositions
  <2>2. \A i \in ToDoPositions : ToDo(i)' = ToDo(i) /\ ToDo(i) = queue[i]
    BY <1>1, <2>1 DEF ToDo, PortTypeOK
  <2> QED BY <2>1, <2>2
<1>4. MessagesOK' /\ QueueInOrder'
  <2>1. \A m \in Message : MessageOK(m) /\ m.client # d => MessageOK(m)'
    BY <1>1, MessageFields DEF MessageOK, clientVars
  <2> QED BY <1>2, <1>3, <2>1, ToDoTypes DEF MessagesOK, QueueInOrder
<1>5. HandlerInv' /\ ContextHoldsHandle' /\ HeldInv'
  BY <1>1, <1>2 DEF HandlerInv, ContextHoldsHandle, HeldInv
<1>6. ConnInv' /\ ClosedInv' /\ ExitInv' /\ DataInv'
  BY <1>1, <1>2 DEF ConnInv, ClosedInv, ExitInv, DataInv, clientVars
<1>7. NotForgotten'
  <2> SUFFICES ASSUME wexit' # "process" PROVE NoForgottenClient'
    BY DEF NotForgotten
  <2>1. NoForgottenClient
    BY <1>1 DEF NotForgotten
  <2> QED BY <1>1, <1>3, <2>1 DEF NoForgottenClient
<1> QED BY <1>4, <1>5, <1>6, <1>7

\* A request that is sent back counts as served, and is the next one.
LEMMA EchoRpcStep ==
    ASSUME CoreInv, WorkInv, RpcInv, SrvAlpcRequest, UNCHANGED clientVars
    PROVE  RpcInv' /\ Service!Serve(msg.client)
<1> USE DEF CoreInv, TypeOK
<1> DEFINE d == msg.client
<1>1. /\ wpc = "process" /\ wpc' \in {"receive", "exited"}
      /\ msg.type = "REQUEST" /\ msg \in Message /\ d \in Clients
      /\ MessageOK(msg)
      /\ handled' = [handled EXCEPT ![d] = msg.data.n]
      /\ UNCHANGED <<port, queue, conn, commHandles>>
      /\ Echo \/ UNCHANGED portVars
  BY EchoFacts
<1>2. NoGap' /\ LastSent' /\ msg.data.n = handled[d] + 1
  BY <1>1, GapHand DEF RpcInv, Sends
<1>3. /\ handled \in [Clients -> 0..MaxSends] /\ handled[d] < sends[d]
      /\ handled[d] \in Nat /\ sends[d] \in Nat
  <2>1. /\ handled \in [Clients -> 0..MaxSends]
        /\ handled[d] \in Nat /\ sends[d] \in Nat
    BY <1>1, PortAssumption DEF ServerTypeOK, ClientTypeOK
  <2>2. handled[d] + 1 <= sends[d]
    BY <1>1, <1>2 DEF MessageOK, Sends
  <2> QED BY <2>1, <2>2
<1>4. FreshInv'
  BY <1>1 DEF RpcInv, FreshInv, clientVars
<1>5. ASSUME NEW c \in Clients, cpc[c] = "requesting", call'[c] = "ok"
      PROVE  handled'[c] = sends[c]
  <2>1. CASE c # d
    <3>1. call[c] = "ok"
      BY <1>1, <1>5, <2>1 DEF Echo, SysReply, portVars, PortTypeOK
    <3> QED BY <1>1, <1>3, <1>5, <2>1, <3>1 DEF RpcInv, AnswerInv
  <2>2. CASE c = d
    <3>1. call[d] # "ok"
      BY <1>3, <1>5, <2>2 DEF RpcInv, AnswerInv
    <3>2. call[d] = "request"
      BY <1>1, <1>5, <2>2, <3>1 DEF Echo, SysReply, portVars
    <3>3. port = "open" /\ conn[d] = "open"
      BY <1>1, <3>2, BlockedFacts
    <3>4. msg.data = buf[d]
      BY <1>1, <3>3 DEF MessageOK
    <3>5. buf[d] = [from |-> d, n |-> sends[d], answered |-> FALSE]
      BY <1>1, <1>5, <2>2 DEF WorkInv, DataInv
    <3>6. msg.data.n = sends[d]
      BY <3>4, <3>5
    <3> QED BY <1>1, <1>3, <2>2, <3>6
  <2> QED BY <2>1, <2>2
<1>6. AnswerInv'
  BY <1>1, <1>5 DEF AnswerInv, clientVars
<1>7. Service!Serve(d)
  BY <1>1, <1>2, <1>3 DEF Service!Serve, Phase, Outcome, clientVars
<1> QED BY <1>2, <1>4, <1>6, <1>7 DEF RpcInv

LEMMA OwnRpcStep ==
    ASSUME CoreInv, WorkInv, RpcInv, OwnHandler
    PROVE  RpcInv' /\ [Service!Next]_(Service!serviceVars)
<1> USE DEF OwnHandler
<1>1. CASE SrvAlpcRequest
  <2>1. msg.client \in Clients
    BY <1>1, EchoFacts
  <2> QED BY <1>1, <2>1, EchoRpcStep DEF Service!Next
<1>2. CASE SrvAlpcConnectRejects
  <2>1. /\ wpc = "reject" /\ wpc' \in {"receive", "exited"}
        /\ UNCHANGED <<port, queue, msg, commHandles, handled>>
        /\ \A c \in Clients : conn'[c] = "open" => conn[c] = "open"
        /\ \A c \in Clients : call'[c] = "ok" => call[c] = "ok"
    BY <1>2, RefusalFacts
  <2>2. RpcInv'
    BY <2>1, QuietRpcStep
  <2>3. UNCHANGED Service!serviceVars
    BY <2>1 DEF clientVars, Service!serviceVars, Phase, Outcome
  <2> QED BY <2>2, <2>3
<1>3. CASE SrvProcessStray
  <2>1. /\ wpc = "stray" /\ wpc' \in {"receive", "exited"}
        /\ UNCHANGED <<port, queue, conn, call, msg, commHandles, handled>>
    BY <1>3, StrayFacts DEF clientState, portVars
  <2>2. RpcInv'
    BY <2>1, QuietRpcStep
  <2>3. UNCHANGED Service!serviceVars
    BY <2>1 DEF clientVars, Service!serviceVars, Phase, Outcome
  <2> QED BY <2>2, <2>3
<1> QED BY <1>1, <1>2, <1>3

\* The notice of a client that is gone is still to be handled after either.
LEMMA OwnHandlesStep ==
    ASSUME CoreInv, WorkInv, HandlesAreLiveOrDue, OwnHandler
    PROVE  HandlesAreLiveOrDue'
<1> SUFFICES ASSUME port' = "open", NEW c \in commHandles'
             PROVE  conn'[c] = "open" \/ Due(c)'
  BY DEF HandlesAreLiveOrDue
<1>1. /\ wpc' # "process" /\ UNCHANGED <<port, queue, commHandles>>
      /\ wpc = "process" => msg.type \notin Notices
      /\ conn'[c] = conn[c]
  <2>1. CASE SrvAlpcRequest
    BY <2>1, EchoFacts DEF Notices
  <2>2. CASE SrvAlpcConnectRejects
    <3>1. wpc = "reject" /\ wpc' # "process"
          /\ UNCHANGED <<port, queue, commHandles>>
      BY <2>2, RefusalFacts
    <3>2. c \in Clients /\ c # msg.client
      BY <3>1 DEF WorkInv, HandlerInv, CoreInv, TypeOK, ServerTypeOK
    <3> QED BY <2>2, <3>1, <3>2, RefusalFacts
  <2>3. CASE SrvProcessStray
    BY <2>3, StrayFacts DEF clientState, portVars
  <2> QED BY <2>1, <2>2, <2>3 DEF OwnHandler
<1> QED BY <1>1, DueStays DEF HandlesAreLiveOrDue, CoreInv, TypeOK

-----------------------------------------------------------------------------
(***************************************************************************)
(* What becomes of a worker that a handler ended.                          *)
(***************************************************************************)

\* A handler that ends the worker leaves its client unserved.
LEMMA EndingIsUnserved ==
    ASSUME CoreInv, WorkInv,
           SrvAlpcRequest \/ SrvAlpcConnectRejects \/ SrvProcessStray,
           wexit' = "process"
    PROVE  OnlyTheUnservedEndWorker'
<1> DEFINE d == msg.client
<1>0. hport # "valid" => port # "open"
  BY DEF CoreInv, OwnerInv
<1>1. wexit # "process"
  BY EchoFacts, RefusalFacts, StrayFacts DEF WorkInv, ExitInv
<1> SUFFICES ASSUME port = "open", conn'[d] # "closed", ~SrvProcessStray
             PROVE  call'[d] \in {"connect", "request"}
  BY EchoFacts, RefusalFacts, StrayFacts
  DEF OnlyTheUnservedEndWorker, Blocked, portVars
<1>2. CASE SrvAlpcRequest
  <2>1. conn[d] = "open"
    <3>1. d \in commHandles /\ d \in Clients /\ conn' = conn
      BY <1>2, EchoFacts DEF MessageOK
    <3> QED BY <3>1 DEF WorkInv, ConnInv, CoreInv, TypeOK, PortTypeOK
  <2>2. call[d] = "request"
    BY <1>2, <2>1, EchoFacts DEF MessageOK
  <2>3. UNCHANGED portVars
    BY <1>0, <1>1, <1>2, <2>2
    DEF SrvAlpcRequest, LeftWaiting, Returns, GoTo, Deliverable
  <2> QED BY <2>2, <2>3 DEF portVars
<1>3. CASE SrvAlpcConnectRejects
  <2>1. wpc = "reject" /\ d \in Clients
    BY <1>3, RefusalFacts
  <2>2. ASSUME Refused /\ SysReject(d) /\ Returns(Refused) PROVE FALSE
    BY <1>1, <2>2 DEF Returns, GoTo
  <2>3. UNCHANGED portVars \/ (~Refused /\ hport = "valid" /\ SysReject(d))
    BY <1>3, <2>2, <1>1 DEF SrvAlpcConnectRejects, LeftWaiting, Refused
  <2>4. UNCHANGED <<conn, call>>
    BY <2>3 DEF Refused, Refusable, SysReject, portVars
  <2>5. conn[d] = "pending"
    BY <2>1, <2>4 DEF WorkInv, HandlerInv
  <2> QED BY <2>1, <2>4, <2>5, BlockedFacts
<1> QED BY <1>2, <1>3

\* No other step ends the worker so, and none serves a client it left, nor
\* brings back one that is gone or a port that is closed.
LEMMA UnservedStays ==
    ASSUME CoreInv, WorkInv, OnlyTheUnservedEndWorker, [Next]_vars
    PROVE  OnlyTheUnservedEndWorker'
<1> USE DEF CoreInv, TypeOK
<1> SUFFICES ASSUME wexit' = "process", port' = "open"
             PROVE  /\ msg' \in Message
                    /\ \/ conn'[msg'.client] = "closed"
                       \/ call'[msg'.client] \in {"connect", "request"}
  BY DEF OnlyTheUnservedEndWorker, Blocked
<1>1. wexit = "process" /\ wpc = "exited"
  <2>1. wexit = "process"
    <3>1. CASE ServerStep
      BY <3>1, EndsStep DEF ServerStep, WorkerEndsAtReceive
    <3> QED BY <3>1 DEF Next, vars, serverVars
  <2> QED BY <2>1 DEF WorkInv, ExitInv
<1>2. CASE ServerStep
  <2>1. opc \in {"running", "joining", "terminated"}
    BY <1>1 DEF OwnerInv, ServerTypeOK
  <2>2. TerminateClosesPort \/ TerminateFrees \/ ReuseHandle
    BY <1>1, <1>2, <2>1
    DEF ServerStep, ServerNext, AllocateServer, UaCreateServer,
        AllocateAttributes, AllocateMessage, CreatePort, StartWorker, Cleanup,
        UaServerWorker, AstrayReceive, AstrayReceiveFails, EnterReceive, Receive,
        ReceiveFails, UaProcessStray, ProcessStray,
        UaProcessMessage, UaAlpcRequest, UaAlpcRequestReplies, UaAlpcDatagram,
        UaAlpcDatagramCancels, UaAlpcDisconnect, UaAlpcConnect,
        UaAlpcConnectAccepts, UaAlpcConnectRejects, ProcessOther, Processing
  <2>3. UNCHANGED <<port, conn, call, msg>>
    BY <2>2
    DEF TerminateClosesPort, TerminateFrees, ReuseHandle, SysClosePort, OwnerInv,
        portVars
  <2> QED BY <1>1, <2>3 DEF OnlyTheUnservedEndWorker, Blocked
<1>3. ASSUME NEW c \in Clients, ClientStep(c), UNCHANGED serverVars
      PROVE  /\ msg' \in Message
             /\ \/ conn'[msg'.client] = "closed"
                \/ call'[msg'.client] \in {"connect", "request"}
  <2> DEFINE d == msg.client
  <2>0. UNCHANGED <<msg, port>>
    BY <1>3
    DEF serverVars, ClientStep, ClientCalls, ClientReturns, UaConnectServer,
        UaConnectServerReturns, UaSendSynchronousRequest,
        UaSendSynchronousRequestReturns, UaSendDatagram, UaDisconnectServer,
        ClientDies, ReturnEarly, SysConnect, SysRequest, SysDatagram,
        SysReturn, SysHangup, portVars
  <2>1. UNCHANGED msg /\ msg \in Message /\ d \in Clients
    BY <1>1, <2>0, MessageFields DEF OnlyTheUnservedEndWorker
  <2>2. CASE UaDisconnectServer(c) \/ ClientDies(c)
    <3>1. PICK n : SysHangup(c, n)
      BY <2>2 DEF UaDisconnectServer, ClientDies
    <3>2. /\ UNCHANGED port /\ conn'[c] = "closed"
          /\ d # c => conn'[d] = conn[d] /\ call'[d] = call[d]
      BY <3>1 DEF SysHangup, PortTypeOK
    <3> QED BY <1>1, <2>1, <3>2 DEF OnlyTheUnservedEndWorker, Blocked
  <2>3. CASE ~(UaDisconnectServer(c) \/ ClientDies(c))
    <3>1. /\ UNCHANGED port
          /\ d # c => conn'[d] = conn[d] /\ call'[d] = call[d]
          /\ conn[c] # "closed" /\ ~Blocked(c)
      <4>1. CallOK(c)
        BY DEF CallInv
      <4>2. CASE ReturnEarly(c) /\ cpc[c] \in {"idle", "connected"}
        BY <4>1, <4>2 DEF ReturnEarly, portVars, CallOK, Blocked
      <4>3. CASE UaConnectServer(c) /\ ~ReturnEarly(c)
        <5>1. SysConnect(c, NoData(c)) /\ cpc[c] = "idle"
          BY <4>3 DEF UaConnectServer
        <5> QED BY <2>1, <4>1, <5>1 DEF SysConnect, PortTypeOK, CallOK, Blocked
      <4>4. CASE UaSendSynchronousRequest(c) /\ ~ReturnEarly(c)
        <5>1. SysRequest(c, NextData(c)) /\ cpc[c] = "connected"
          BY <4>4 DEF UaSendSynchronousRequest, MaySend
        <5> QED BY <2>1, <4>1, <5>1 DEF SysRequest, PortTypeOK, CallOK, Blocked
      <4>5. CASE UaSendDatagram(c) /\ ~ReturnEarly(c)
        BY <4>1, <4>5 DEF UaSendDatagram, SysDatagram, MaySend, CallOK, Blocked
      <4>6. CASE ClientReturns(c)
        <5>1. SysReturn(c) /\ cpc[c] \in {"connecting", "requesting"}
          BY <4>6
          DEF ClientReturns, UaConnectServerReturns,
              UaSendSynchronousRequestReturns
        <5> QED BY <2>1, <4>1, <5>1 DEF SysReturn, PortTypeOK, CallOK, Blocked
      <4> QED
        BY <1>3, <2>3, <4>2, <4>3, <4>4, <4>5, <4>6
        DEF ClientStep, ClientCalls, UaConnectServer, UaSendSynchronousRequest,
            UaSendDatagram, MaySend
    <3> QED BY <1>1, <2>1, <3>1 DEF OnlyTheUnservedEndWorker, Blocked
  <2> QED BY <2>2, <2>3
<1>4. CASE UNCHANGED vars
  BY <1>1, <1>4 DEF vars, portVars, serverVars, OnlyTheUnservedEndWorker, Blocked
<1> QED BY <1>2, <1>3, <1>4 DEF Next

-----------------------------------------------------------------------------
(***************************************************************************)
(* The inductive invariant of the first generation, and what follows.      *)
(***************************************************************************)
FirstInv == CoreInv /\ WorkInv /\ RpcInv /\ OnlyTheUnservedEndWorker

LEMMA FirstInvInit == FirstInit => FirstInv /\ Service!Init
<1>1. Init => OnlyTheUnservedEndWorker
  BY DEF Init, ServerInit, OnlyTheUnservedEndWorker
<1> QED BY <1>1, CoreInit, WorkInit, RpcInit DEF FirstInit, FirstInv

LEMMA FirstInvStep ==
    ASSUME FirstInv, [FirstNext]_firstVars
    PROVE  FirstInv' /\ [Service!Next]_(Service!serviceVars)
<1> USE DEF FirstInv
<1>1. CASE [Next]_vars
  BY <1>1, CoreStep, WorkStep, RpcStep, UnservedStays
<1>2. CASE OwnHandler
  <2>1. CoreInv' /\ WorkInv'
    BY <1>2, OwnCoreStep, EchoWorkStep, RefusalWorkStep, StrayWorkStep
    DEF OwnHandler
  <2>2. OnlyTheUnservedEndWorker'
    <3>1. wexit' # "process" => OnlyTheUnservedEndWorker'
      BY DEF OnlyTheUnservedEndWorker
    <3> QED BY <1>2, <3>1, EndingIsUnserved DEF OwnHandler
  <2> QED BY <1>2, <2>1, <2>2, OwnRpcStep
<1> QED BY <1>1, <1>2, StepsAlike

THEOREM FirstInvariant == FirstSpec => []FirstInv
<1>1. FirstInit => FirstInv
  BY FirstInvInit
<1>2. FirstInv /\ [FirstNext]_firstVars => FirstInv'
  BY FirstInvStep
<1> QED BY <1>1, <1>2, PTL DEF FirstSpec

\* The server and the clients of AdvancedLocalProcedureCallServer.c are the
\* service ua.h declares, although a reply is the request and a handler may end
\* the worker: nothing is sent back twice, out of order or past another.
THEOREM FirstLibraryIsRpcService == FirstSpec => IsRpcService
<1>1. FirstInit => Service!Init
  BY FirstInvInit
<1>2. FirstInv /\ [FirstNext]_firstVars =>
        [Service!Next]_(Service!serviceVars)
  BY FirstInvStep
<1> QED
  BY <1>1, <1>2, FirstInvariant, PTL DEF FirstSpec, IsRpcService, Service!Spec

\* A handler that fails ends the worker for everybody
\* (AdvancedLocalProcedureCallServer.c:259-261), but only when the port is
\* closed or its own client is gone or left waiting: a client that was served
\* or refused never costs the others their server.
THEOREM OnlyUnservedEndWorker == FirstSpec => []OnlyTheUnservedEndWorker
<1>1. FirstInv => OnlyTheUnservedEndWorker
  BY DEF FirstInv
<1> QED BY <1>1, FirstInvariant, PTL

\* However the worker ends, it uses nothing that is freed, its handlers find
\* the context and the handle they close, or are at another port's message with
\* their own port closed, and context and handle live and die together.
THEOREM FirstServerIsSafe ==
    FirstSpec => [](NoUseAfterFree /\ NoticeFindsContext /\ ContextHoldsHandle)
<1>1. CoreInv => NoUseAfterFree
  BY DEF CoreInv, TypeOK, ServerTypeOK, OwnerInv, NoUseAfterFree, WorkerRuns
<1>2. FirstInv => NoUseAfterFree /\ NoticeFindsContext /\ ContextHoldsHandle
  BY <1>1, WorkFindsContext DEF FirstInv, WorkInv
<1> QED BY <1>2, FirstInvariant, PTL

\* Nor does it leak the handle of a client that is gone, while it serves.
THEOREM FirstHandlesAreNotLeaked == FirstSpec => []HandlesAreLiveOrDue
<1>1. FirstInit => HandlesAreLiveOrDue
  BY DEF FirstInit, Init, PortInit, HandlesAreLiveOrDue
<1>2. FirstInv /\ HandlesAreLiveOrDue /\ [FirstNext]_firstVars =>
        HandlesAreLiveOrDue'
  <2> SUFFICES ASSUME FirstInv, HandlesAreLiveOrDue, [FirstNext]_firstVars
               PROVE  HandlesAreLiveOrDue'
    OBVIOUS
  <2> QED BY StepsAlike, HandlesStep, OwnHandlesStep DEF FirstInv, RpcInv
<1> QED BY <1>1, <1>2, FirstInvariant, PTL DEF FirstSpec

-----------------------------------------------------------------------------
(***************************************************************************)
(* The first generation's clients.                                         *)
(***************************************************************************)
HeapTypeOK ==
    /\ cpc \in [Clients -> {"idle", "connecting", "connected", "requesting",
                            "closed", "dead"}]
    /\ clientHeap \in [Clients -> SUBSET ClientAllocations]

ClientHeapInv == HeapTypeOK /\ ClientHeapIsRight

\* A step of c that leaves the other clients alone and c's own object as its
\* new place asks for.
LEMMA HeapOfOne ==
    ASSUME ClientHeapInv, NEW c \in Clients,
           NEW l \in {"idle", "connecting", "connected", "requesting", "closed",
                      "dead"},
           cpc' = [cpc EXCEPT ![c] = l],
           clientHeap' = [clientHeap EXCEPT
                            ![c] = IF l \in {"connecting", "connected",
                                             "requesting"}
                                     THEN ClientAllocations ELSE {}]
    PROVE  ClientHeapInv'
BY DEF ClientHeapInv, HeapTypeOK, ClientHeapIsRight

LEMMA ClientHeapStep ==
    ASSUME ClientHeapInv, NEW c \in Clients, FirstClient(c)
    PROVE  ClientHeapInv'
<1> USE DEF ClientHeapInv, HeapTypeOK
<1>0. /\ cpc[c] \in {"idle", "closed", "dead"} => clientHeap[c] = {}
      /\ cpc[c] \in {"connecting", "connected", "requesting"} =>
           clientHeap[c] = ClientAllocations
      /\ \A live \in SUBSET ClientAllocations : CleanupClient(live) = {}
  BY DEF ClientHeapIsRight, CleanupClient
<1>1. CASE SrvConnectServer(c)
  <2>1. CASE UNCHANGED cpc /\ cpc[c] = "idle"
    <3>1. clientHeap' = [clientHeap EXCEPT ![c] = {}]
      BY <1>0, <1>1, <2>1 DEF SrvConnectServer, ClientAllocations
    <3> QED BY <2>1, <3>1, <1>0 DEF ClientHeapIsRight
  <2>2. CASE ~(UNCHANGED cpc /\ cpc[c] = "idle")
    <3>1. /\ cpc' = [cpc EXCEPT ![c] = "connecting"]
          /\ clientHeap' = [clientHeap EXCEPT ![c] = ClientAllocations]
      BY <1>1, <2>2 DEF SrvConnectServer, UaConnectServer, ReturnEarly
    <3> QED BY <3>1, HeapOfOne
  <2> QED BY <2>1, <2>2
<1>2. CASE SrvConnectServerReturns(c)
  <2>1. CASE call[c] = "ok"
    <3>1. /\ cpc' = [cpc EXCEPT ![c] = "connected"]
          /\ clientHeap' = [clientHeap EXCEPT ![c] = ClientAllocations]
      BY <1>0, <1>2, <2>1 DEF SrvConnectServerReturns, UaConnectServerReturns
    <3> QED BY <3>1, HeapOfOne
  <2>2. CASE call[c] # "ok"
    <3>1. /\ cpc' = [cpc EXCEPT ![c] = "idle"]
          /\ clientHeap' = [clientHeap EXCEPT ![c] = {}]
      BY <1>0, <1>2, <2>2 DEF SrvConnectServerReturns, UaConnectServerReturns
    <3> QED BY <3>1, HeapOfOne
  <2> QED BY <2>1, <2>2
<1>3. CASE SrvSendDatagram(c)
  <2>1. UNCHANGED <<cpc, clientHeap>>
    BY <1>3 DEF SrvSendDatagram, UaSendDatagram, ReturnEarly
  <2> QED BY <2>1 DEF ClientHeapIsRight
<1>4. CASE Request(c)
  <2>1. cpc' = cpc \/ cpc' = [cpc EXCEPT ![c] = "requesting"]
    BY <1>4 DEF Request, UaSendSynchronousRequest, ReturnEarly
  <2>2. cpc[c] = "connected" /\ UNCHANGED clientHeap
    BY <1>4 DEF Request, UaSendSynchronousRequest, MaySend
  <2> QED BY <2>1, <2>2 DEF ClientHeapIsRight
<1>5. CASE RequestReturns(c)
  <2>1. /\ cpc' = [cpc EXCEPT ![c] = "connected"] /\ cpc[c] = "requesting"
        /\ UNCHANGED clientHeap
    BY <1>5 DEF RequestReturns, UaSendSynchronousRequestReturns
  <2> QED BY <2>1 DEF ClientHeapIsRight
<1>6. CASE SrvDisconnectServer(c)
  <2>1. /\ cpc' = [cpc EXCEPT ![c] = "closed"]
        /\ clientHeap' = [clientHeap EXCEPT ![c] = {}]
    BY <1>0, <1>6 DEF SrvDisconnectServer, UaDisconnectServer
  <2> QED BY <2>1, HeapOfOne
<1>7. CASE FirstClientDies(c)
  <2>1. /\ cpc' = [cpc EXCEPT ![c] = "dead"]
        /\ clientHeap' = [clientHeap EXCEPT ![c] = {}]
    BY <1>7 DEF FirstClientDies, ClientDies
  <2> QED BY <2>1, HeapOfOne
<1> QED
  BY <1>1, <1>2, <1>3, <1>4, <1>5, <1>6, <1>7
  DEF FirstClient, FirstClientReturns

\* Each of SrvConnectServer's failures frees what it allocated, and a client's
\* object and buffer stay until it disconnects.
THEOREM ClientHeapsAreRight == FirstSpec => []ClientHeapIsRight
<1>1. FirstInit => ClientHeapInv
  BY DEF FirstInit, Init, ClientInit, ClientHeapInv, HeapTypeOK,
         ClientHeapIsRight
<1>2. ClientHeapInv /\ [FirstNext]_firstVars => ClientHeapInv'
  <2> SUFFICES ASSUME ClientHeapInv, [FirstNext]_firstVars
               PROVE  ClientHeapInv'
    OBVIOUS
  <2>1. CASE UNCHANGED <<cpc, clientHeap>>
    BY <2>1 DEF ClientHeapInv, HeapTypeOK, ClientHeapIsRight
  <2> QED
    BY <2>1, ClientHeapStep DEF FirstNext, firstVars, vars, clientVars
<1>3. ClientHeapInv => ClientHeapIsRight
  BY DEF ClientHeapInv
<1> QED BY <1>1, <1>2, <1>3, PTL DEF FirstSpec
=============================================================================
