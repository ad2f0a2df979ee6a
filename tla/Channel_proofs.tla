--------------------------- MODULE Channel_proofs ---------------------------
(***************************************************************************)
(* Theorems about the demonstration program, for every number of messages  *)
(* and with any allocation or system call failing.                         *)
(***************************************************************************)
EXTENDS Channel, AlpcPort_proofs

-----------------------------------------------------------------------------
(***************************************************************************)
(* The inductive invariant: where the two threads are, and what is true of *)
(* the messages that are still to be handled.                              *)
(***************************************************************************)

\* How far SrvInitializeChannel has come tells whether there is a port and a
\* worker, and main calls nothing before it has returned.
InitInv ==
    /\ ipc = "create" => port = "none" /\ wpc = "none" /\ mpc = "init"
    /\ ipc = "thread" => port = "open" /\ wpc = "none" /\ mpc = "init"
    /\ ipc = "ready" => port = "open" /\ wpc # "none"
    /\ ipc = "failed" => port # "open" /\ wpc = "none"
    /\ mpc \notin {"init", "getchar"} => ipc = "ready"

HeapInv ==
    /\ wpc \in {"none", "attributes", "exited"} => wheap = {}
    /\ wpc \in {"initialize", "message"} => wheap = {"MessageAttributes"}
    /\ wpc \in {"receive", "process", "accept", "reject"} => wheap = Buffers
    /\ wpc \in {"process", "accept", "reject"} => msg \in Message

CountInv ==
    /\ test = DatagramTest \/ mpc \in {"allocate", "connect", "connecting"} =>
         answered = 0
    /\ mpc \in {"loop", "requesting"} => answered <= counter
    /\ mpc = "requesting" => test = SyncTest /\ counter < MaxSends
    /\ mpc = "init" => test = DatagramTest

\* The test c has not connected, or it is over.
Unstarted(c) ==
    \/ test = DatagramTest /\ c # test
    \/ c = test /\ mpc \in {"init", "allocate", "connect"}

Over(c) == (test = SyncTest /\ c # test) \/ (c = test /\ mpc = "getchar")

CallOK(c) ==
    /\ Unstarted(c) => conn[c] = "none" /\ call[c] = "idle"
    /\ c = test /\ mpc = "connecting" =>
         \/ conn[c] = "pending" /\ call[c] = "connect"
         \/ conn[c] = "open" /\ call[c] = "ok"
         \/ conn[c] = "none" /\ call[c] = "fail"
    /\ c = test /\ mpc = "loop" => conn[c] = "open" /\ call[c] = "idle"
    /\ c = test /\ mpc = "requesting" =>
         conn[c] = "open" /\ call[c] \in {"request", "ok"}
    /\ Over(c) => conn[c] \in {"none", "closed"} /\ call[c] = "idle"

CallInv == \A c \in Clients : CallOK(c)

ControlInv == TypeOK /\ InitInv /\ HeapInv /\ CountInv /\ CallInv

\* What the worker still has to do: 0 is the message it has received and not
\* begun to handle.
ToDo(i) == IF i = 0 THEN msg ELSE queue[i]

ToDoPositions ==
    DOMAIN queue \cup (IF wpc = "process" THEN {0} ELSE {})

MessageOK(m) ==
    /\ m.type \notin {"CLIENT_DIED", "OTHER"}
    /\ m.type = "CONNECTION_REQUEST" =>
         conn[m.client] = "pending" /\ m.client \notin commHandles
    /\ m.type # "CONNECTION_REQUEST" => m.client \in commHandles
    /\ m.type = "PORT_CLOSED" => conn[m.client] = "closed"

MessagesOK == \A i \in ToDoPositions : MessageOK(ToDo(i))

\* m comes before n.
InOrder(m, n) ==
    /\ m.client = n.client => m.type \notin {"CONNECTION_REQUEST", "PORT_CLOSED"}
    /\ ~(m.client = SyncTest /\ n.client = DatagramTest)

QueueInOrder == \A i, j \in ToDoPositions : i < j => InOrder(ToDo(i), ToDo(j))

HandlerInv ==
    wpc \in {"accept", "reject"} =>
      /\ conn[msg.client] = "pending"
      /\ msg.client \notin commHandles
      /\ \A j \in DOMAIN queue : InOrder(msg, queue[j])
      /\ msg.type = "CONNECTION_REQUEST"

\* The kernel's view of a connection and the worker's agree, and a connection
\* that was closed is known to be or is about to be.
ConnInv ==
    /\ \A c \in Clients :
         /\ conn[c] = "open" => c \in commHandles
         /\ conn[c] \in {"none", "pending"} => c \notin commHandles
    /\ wpc # "exited" /\ conn[DatagramTest] = "closed"
         /\ DatagramTest \in commHandles =>
           \E i \in ToDoPositions : /\ ToDo(i).type = "PORT_CLOSED"
                                    /\ ToDo(i).client = DatagramTest

\* Once the second test's connection request is in the worker's hands nothing
\* is left of the first test.
SyncServed ==
    \/ conn[SyncTest] \in {"open", "closed"}
    \/ wpc \in {"accept", "reject"} /\ msg.client = SyncTest

ServedInv ==
    SyncServed =>
      /\ DatagramTest \notin commHandles
      /\ \A i \in ToDoPositions : ToDo(i).client # DatagramTest

NotForgotten ==
    \A c \in Clients :
      wpc # "exited" =>
        /\ call[c] = "connect" =>
             \/ \E i \in ToDoPositions : /\ ToDo(i).type = "CONNECTION_REQUEST"
                                         /\ ToDo(i).client = c
             \/ wpc \in {"accept", "reject"} /\ msg.client = c
        /\ call[c] = "request" =>
             \E i \in ToDoPositions : /\ ToDo(i).type = "REQUEST"
                                      /\ ToDo(i).client = c

QueueInv ==
    /\ MessagesOK
    /\ QueueInOrder
    /\ HandlerInv
    /\ ConnInv
    /\ ServedInv
    /\ NotForgotten
    /\ LeaksOnlyRefused

IInv == ControlInv /\ QueueInv

-----------------------------------------------------------------------------
(***************************************************************************)
(* ControlInv: the types, the two threads' places, and the calls.          *)
(***************************************************************************)
LEMMA ControlInit == Init => ControlInv
<1> SUFFICES ASSUME Init PROVE ControlInv
  OBVIOUS
<1> USE DEF Init, PortInit, SrvInit, CliInit
<1>1. PortTypeOK
  BY DEF PortTypeOK
<1>2. SrvTypeOK
  BY PortAssumption DEF SrvTypeOK, MaxLength
<1>3. CliTypeOK
  <2>1. 0 \in 0..MaxSends
    BY PortAssumption
  <2>2. DatagramTest \in Clients
    BY TestsAssumption
  <2> QED BY <2>1, <2>2 DEF CliTypeOK
<1>4. InitInv
  BY DEF InitInv
<1>5. HeapInv
  BY DEF HeapInv
<1>6. CountInv
  BY DEF CountInv
<1>7. CallInv
  BY TestsAssumption DEF CallInv, CallOK, Unstarted, Over
<1> QED BY <1>1, <1>2, <1>3, <1>4, <1>5, <1>6, <1>7 DEF ControlInv, TypeOK

\* A message has one of the two lengths, each within the longest.
LEMMA SizeType ==
    /\ \A m \in Message : Size(m) \in 0..MaxLength
    /\ MaxLength \in 0..MaxLength
<1>1. \A m \in Message : Size(m) = 0 \/ Size(m) = 1
  BY DEF Size
<1> QED BY <1>1 DEF MaxLength

\* The types of what the worker keeps.
LEMMA WorkerTypes ==
    ASSUME ControlInv, SrvServerWorker
    PROVE  PortTypeOK' /\ SrvTypeOK'
<1> USE DEF loopVars, GoTo, Exit, Leave, Returns, Freed,
            FreedUninitialized, FreedWithoutMessage
<1>0. /\ PortTypeOK /\ SrvTypeOK
      /\ wpc \in {"process", "accept", "reject"} =>
           /\ msg \in Message
           /\ msg.client \in Clients
           /\ msg.data \in Data
           /\ msg.data.n \in 0..MaxSends
  BY MessageFields DEF ControlInv, TypeOK, HeapInv
<1>1. CASE Prepare
  BY <1>0, <1>1, PortTypeStutter
  DEF Prepare, AllocateAttributes, InitializeAttributes, AllocateMessage,
      SrvTypeOK, Buffers
<1>2. CASE Receive
  <2>1. Head(queue) \in Message
    BY <1>0, <1>2 DEF Receive, PortTypeOK
  <2>2. PortTypeOK'
    BY <1>0, <1>2, PortTypeStep, PortTypeStutter DEF Receive
  <2>3. bufferLength' \in 0..MaxLength
    BY <1>2, <2>1, SizeType DEF Receive
  <2> QED BY <1>0, <1>2, <2>1, <2>2, <2>3 DEF Receive, SrvTypeOK
<1>3. CASE ReceiveFails
  BY <1>0, <1>3, PortTypeStutter DEF ReceiveFails, AfterFailedReceive, SrvTypeOK
<1>4. CASE OnAlpcRequest
  <2>1. PortTypeOK'
    BY <1>0, <1>4, PortTypeStep, PortTypeStutter
    DEF OnAlpcRequest, Processing, Reply
  <2> QED BY <1>0, <1>4, <2>1 DEF OnAlpcRequest, Processing, Hand, SrvTypeOK
<1>5. CASE OnAlpcDatagram
  <2>1. PortTypeOK'
    BY <1>0, <1>5, PortTypeStep, PortTypeStutter DEF OnAlpcDatagram, Processing
  <2> QED BY <1>0, <1>5, <2>1 DEF OnAlpcDatagram, Processing, Hand, SrvTypeOK
<1>6. CASE OnAlpcDisconnection
  BY <1>0, <1>6, PortTypeStutter
  DEF OnAlpcDisconnection, FreeContext, SrvTypeOK
<1>7. CASE OnAlpcConnection
  BY <1>0, <1>7, PortTypeStutter
  DEF OnAlpcConnection, Processing, WithoutMemory, SrvTypeOK
<1>8. CASE OnAlpcConnectionAccepts
  <2>1. PortTypeOK'
    BY <1>0, <1>8, PortTypeStep, PortTypeStutter DEF OnAlpcConnectionAccepts
  <2> QED BY <1>0, <1>8, <2>1 DEF OnAlpcConnectionAccepts, SrvTypeOK
<1>9. CASE OnAlpcConnectionRejects
  <2>1. PortTypeOK'
    BY <1>0, <1>9, PortTypeStep, PortTypeStutter DEF OnAlpcConnectionRejects
  <2> QED BY <1>0, <1>9, <2>1 DEF OnAlpcConnectionRejects, SrvTypeOK
<1> QED
  BY <1>1, <1>2, <1>3, <1>4, <1>5, <1>6, <1>7, <1>8, <1>9
  DEF SrvServerWorker, SrvProcessMessage

\* The types of what main keeps.
LEMMA MainTypes ==
    ASSUME ControlInv, Main
    PROVE  PortTypeOK' /\ CliTypeOK'
<1>0. /\ PortTypeOK /\ CliTypeOK /\ CountInv
      /\ test \in Clients /\ MaxSends \in Nat
      /\ DatagramTest \in Clients /\ SyncTest \in Clients
  BY PortAssumption, TestsAssumption DEF ControlInv, TypeOK, CliTypeOK
<1>1. CASE ChannelInitialized
  BY <1>0, <1>1, PortTypeStutter DEF ChannelInitialized, CliTypeOK
<1>2. CASE AllocateMessageOfTest
  BY <1>0, <1>2, PortTypeStutter
  DEF AllocateMessageOfTest, TestReturns, CliTypeOK
<1>3. CASE Connect
  <2>1. PortTypeOK'
    BY <1>0, <1>3, PortTypeStep, MessageTypes DEF Connect
  <2> QED BY <1>0, <1>3, <2>1 DEF Connect, CliTypeOK
<1>4. CASE ConnectReturns
  <2>1. PortTypeOK'
    BY <1>0, <1>4, PortTypeStep DEF ConnectReturns
  <2>2. 0 \in 0..MaxSends
    BY <1>0
  <2>3. CASE call[test] = "ok"
    BY <1>0, <1>4, <2>1, <2>2, <2>3 DEF ConnectReturns, CliTypeOK
  <2>4. CASE call[test] # "ok"
    BY <1>0, <1>4, <2>1, <2>2, <2>4 DEF ConnectReturns, TestReturns, CliTypeOK
  <2> QED BY <2>3, <2>4
<1>5. CASE SendDatagram \/ SendRequest
  <2>1. counter < MaxSends /\ counter + 1 \in 0..MaxSends
    BY <1>0, <1>5
    DEF SendDatagram, SendRequest, InLoop, LoopGoesOn, CliTypeOK
  <2>2. CounterMessage \in Data
    BY <1>0, <2>1 DEF CounterMessage, Data
  <2>3. PortTypeOK'
    BY <1>0, <1>5, <2>2, PortTypeStep, PortTypeStutter
    DEF SendDatagram, SendRequest
  <2>4. CliTypeOK'
    BY <1>0, <1>5, <2>1
    DEF SendDatagram, SendRequest, CliTypeOK, portVars
  <2> QED BY <2>3, <2>4
<1>6. CASE RequestReturns
  <2>1. /\ counter + 1 \in 0..MaxSends
        /\ answered + 1 \in 0..MaxSends
    BY <1>0, <1>6 DEF RequestReturns, CountInv, CliTypeOK
  <2>2. PortTypeOK'
    BY <1>0, <1>6, PortTypeStep DEF RequestReturns
  <2> QED BY <1>0, <1>6, <2>1, <2>2 DEF RequestReturns, CliTypeOK
<1>7. CASE CloseAndReturn
  <2>1. <<Notice("PORT_CLOSED", test)>> \in Seq(Message)
    BY <1>0, MessageTypes DEF Types
  <2>2. PortTypeOK'
    BY <1>0, <1>7, <2>1, PortTypeStep DEF CloseAndReturn, Close
  <2> QED BY <1>0, <1>7, <2>2 DEF CloseAndReturn, TestReturns, CliTypeOK
<1> QED BY <1>1, <1>2, <1>3, <1>4, <1>5, <1>6, <1>7 DEF Main

LEMMA TypeStep ==
    ASSUME ControlInv, [Next]_vars
    PROVE  TypeOK'
<1> USE DEF TypeOK
<1>0. PortTypeOK /\ SrvTypeOK /\ CliTypeOK
  BY DEF ControlInv
<1>1. CASE WorkerStep
  BY <1>0, <1>1, WorkerTypes DEF WorkerStep, cliVars, CliTypeOK
<1>2. CASE Main /\ UNCHANGED srvVars
  BY <1>0, <1>2, MainTypes DEF srvVars, SrvTypeOK
<1>3. CASE SrvInitializeChannel /\ UNCHANGED cliVars
  <2>1. PortTypeOK'
    BY <1>0, <1>3, PortTypeStep, PortTypeStutter
    DEF SrvInitializeChannel, CreatePort, CreateThread, WithoutThread
  <2>2. SrvTypeOK'
    BY <1>0, <1>3
    DEF SrvInitializeChannel, CreatePort, CreateThread, loopVars, SrvTypeOK
  <2> QED BY <1>0, <1>3, <2>1, <2>2 DEF cliVars, CliTypeOK
<1>4. CASE UNCHANGED vars
  BY <1>0, <1>4, PortTypeStutter
  DEF vars, srvVars, cliVars, SrvTypeOK, CliTypeOK
<1> QED BY <1>1, <1>2, <1>3, <1>4 DEF Next, MainStep

LEMMA InitInvStep ==
    ASSUME ControlInv, [Next]_vars
    PROVE  InitInv' /\ HeapInv'
<1> USE DEF InitInv, HeapInv
<1>0. /\ InitInv /\ HeapInv /\ PortTypeOK /\ SrvTypeOK
      /\ TypeOK'
  BY TypeStep DEF ControlInv, TypeOK
<1>1. CASE CreatePort /\ UNCHANGED cliVars
  BY <1>0, <1>1 DEF CreatePort, SysCreatePort, portVars, cliVars, loopVars
<1>2. CASE CreateThread /\ UNCHANGED cliVars
  BY <1>0, <1>2
  DEF CreateThread, WithoutThread, SysClosePort, portVars, cliVars, loopVars
<1>3. CASE Main /\ UNCHANGED srvVars
  <2>1. ipc = "ready" \/ mpc' = "getchar"
    BY <1>0, <1>3
    DEF Main, ChannelInitialized, AllocateMessageOfTest, Connect,
        ConnectReturns, SendDatagram, SendRequest, InLoop, RequestReturns,
        CloseAndReturn
  <2>2. UNCHANGED port
    BY <1>3
    DEF Main, ChannelInitialized, AllocateMessageOfTest, Connect, SysConnect,
        ConnectReturns, SysReturn, SendDatagram, SendRequest, SysDatagram,
        SysRequest, RequestReturns, CloseAndReturn, Close, SysHangup, portVars
  <2>3. ipc \in {"ready", "failed"}
    BY <1>0, <1>3
    DEF Main, ChannelInitialized, AllocateMessageOfTest, Connect,
        ConnectReturns, SendDatagram, SendRequest, InLoop, RequestReturns,
        CloseAndReturn
  <2> QED BY <1>0, <1>3, <2>1, <2>2, <2>3 DEF srvVars
<1>4. CASE WorkerStep
  <2>1. ipc = "ready" /\ port = "open"
    BY <1>0, <1>4
    DEF WorkerStep, SrvServerWorker, Prepare, AllocateAttributes,
        InitializeAttributes, AllocateMessage, Receive,
        ReceiveFails, SrvProcessMessage, OnAlpcRequest, OnAlpcDatagram,
        OnAlpcDisconnection, OnAlpcConnection, OnAlpcConnectionAccepts,
        OnAlpcConnectionRejects, Processing, SrvTypeOK
  <2>2. UNCHANGED <<ipc, port, mpc>> /\ wpc' # "none" /\ HeapInv'
    <3> USE DEF loopVars, GoTo, Exit, Leave, Returns, Freed,
                FreedUninitialized, FreedWithoutMessage, Buffers
    <3>1. CASE Prepare
      BY <1>0, <1>4, <3>1
        DEF WorkerStep, Prepare, AllocateAttributes, InitializeAttributes,
            AllocateMessage, portVars, cliVars
    <3>2. CASE Receive
      <4>1. Head(queue) \in Message
        BY <1>0, <3>2 DEF Receive, PortTypeOK
      <4> QED
        BY <1>0, <1>4, <3>2, <4>1
        DEF WorkerStep, Receive, SysReceive, portVars, cliVars
    <3>3. CASE ReceiveFails
      BY <1>0, <1>4, <3>3
      DEF WorkerStep, ReceiveFails, AfterFailedReceive, portVars, cliVars
    <3>4. CASE OnAlpcRequest
      BY <1>0, <1>4, <3>4
      DEF WorkerStep, OnAlpcRequest, Processing, Reply, SysReply, portVars, cliVars
    <3>5. CASE OnAlpcDatagram
      BY <1>0, <1>4, <3>5
      DEF WorkerStep, OnAlpcDatagram, Processing, SysCancel, portVars, cliVars
    <3>6. CASE OnAlpcDisconnection
      BY <1>0, <1>4, <3>6
      DEF WorkerStep, OnAlpcDisconnection, Processing, portVars, cliVars
    <3>7. CASE OnAlpcConnection
      BY <1>0, <1>4, <3>7
      DEF WorkerStep, OnAlpcConnection, Processing, WithoutMemory, portVars,
          cliVars
    <3>8. CASE OnAlpcConnectionAccepts
      BY <1>0, <1>4, <3>8
      DEF WorkerStep, OnAlpcConnectionAccepts, SysAccept, portVars, cliVars
    <3>9. CASE OnAlpcConnectionRejects
      BY <1>0, <1>4, <3>9
      DEF WorkerStep, OnAlpcConnectionRejects, SysReject, portVars, cliVars
    <3> QED
      BY <1>4, <3>1, <3>2, <3>3, <3>4, <3>5, <3>6, <3>7, <3>8, <3>9
      DEF WorkerStep, SrvServerWorker, SrvProcessMessage
  <2> QED BY <1>0, <2>1, <2>2
<1>5. CASE UNCHANGED vars
  BY <1>0, <1>5 DEF vars, portVars, srvVars, cliVars
<1> QED
  BY <1>1, <1>2, <1>3, <1>4, <1>5
  DEF Next, MainStep, SrvInitializeChannel

\* A connection that is pending or a request that waits is of the test that main
\* is in.
LEMMA BlockedIsTest ==
    ASSUME ControlInv, NEW c \in Clients
    PROVE  /\ conn[c] = "pending" =>
                c = test /\ mpc = "connecting" /\ call[c] = "connect"
           /\ call[c] = "request" => c = test /\ mpc = "requesting"
           /\ call[c] = "connect" => c = test /\ mpc = "connecting"
  BY TestsAssumption
  DEF ControlInv, TypeOK, CliTypeOK, CallInv, CallOK, Unstarted, Over

LEMMA CountInvStep ==
    ASSUME ControlInv, [Next]_vars
    PROVE  CountInv'
<1> USE DEF CountInv
<1>0. CountInv /\ CliTypeOK /\ MaxSends \in Nat /\ DatagramTest # SyncTest
  BY PortAssumption, TestsAssumption DEF ControlInv, TypeOK
<1>1. CASE UNCHANGED cliVars
  BY <1>0, <1>1 DEF cliVars
<1>2. CASE ChannelInitialized \/ AllocateMessageOfTest \/ Connect
  BY <1>0, <1>2, TestsAssumption
  DEF ChannelInitialized, AllocateMessageOfTest, Connect, TestReturns, CliTypeOK
<1>3. CASE ConnectReturns
  BY <1>0, <1>3, TestsAssumption DEF ConnectReturns, TestReturns, CliTypeOK
<1>4. CASE SendDatagram \/ SendRequest
  BY <1>0, <1>4
  DEF SendDatagram, SendRequest, InLoop, LoopGoesOn, CliTypeOK
<1>5. CASE RequestReturns
  BY <1>0, <1>5 DEF RequestReturns, CliTypeOK
<1>6. CASE CloseAndReturn
  BY <1>0, <1>6, TestsAssumption DEF CloseAndReturn, TestReturns, CliTypeOK
<1> QED
  BY <1>1, <1>2, <1>3, <1>4, <1>5, <1>6
  DEF Next, MainStep, WorkerStep, Main, vars

LEMMA CallInvStep ==
    ASSUME ControlInv, [Next]_vars
    PROVE  CallInv'
<1> SUFFICES ASSUME NEW c \in Clients PROVE CallOK(c)'
  BY DEF CallInv
<1> USE DEF CallOK, Unstarted, Over
<1>0. /\ CallOK(c) /\ CallOK(test) /\ CountInv /\ InitInv
      /\ PortTypeOK /\ CliTypeOK /\ test \in Clients
      /\ Clients = {DatagramTest, SyncTest} /\ DatagramTest # SyncTest
  BY TestsAssumption DEF ControlInv, TypeOK, CallInv, CliTypeOK
<1>1. CASE UNCHANGED <<conn, call>> /\ UNCHANGED cliVars
  BY <1>0, <1>1 DEF cliVars
<1>2. CASE SrvInitializeChannel /\ UNCHANGED cliVars
  <2>1. mpc = "init" /\ test = DatagramTest
    BY <1>0, <1>2
    DEF SrvInitializeChannel, CreatePort, CreateThread, InitInv, CountInv
  <2>2. conn[c] = "none" /\ call[c] = "idle"
    BY <1>0, <2>1
  <2>3. conn'[c] = "none" /\ call'[c] = "idle"
    BY <1>0, <1>2, <2>2
    DEF SrvInitializeChannel, CreatePort, CreateThread, WithoutThread,
        SysCreatePort, SysClosePort, Blocked, portVars, PortTypeOK
  <2> QED BY <1>0, <1>2, <2>1, <2>3 DEF cliVars
<1>3. CASE WorkerStep
  <2>1. UNCHANGED cliVars
    BY <1>3 DEF WorkerStep
  <2>2. wpc \in {"process", "accept", "reject"} => msg.client \in Clients
    BY MessageFields DEF ControlInv, HeapInv
  <2>3. CASE OnAlpcRequest
    BY <1>0, <2>1, <2>2, <2>3, BlockedIsTest
    DEF OnAlpcRequest, Processing, Reply, SysReply, PortTypeOK, portVars, cliVars
  <2>4. CASE OnAlpcConnectionAccepts
    BY <1>0, <2>1, <2>2, <2>4, BlockedIsTest
    DEF OnAlpcConnectionAccepts, SysAccept, CanAccept, PortTypeOK, portVars,
        cliVars
  <2>5. CASE OnAlpcConnectionRejects
    BY <1>0, <2>1, <2>2, <2>5, BlockedIsTest
    DEF OnAlpcConnectionRejects, SysReject, CanAccept, PortTypeOK, portVars,
        cliVars
  <2>6. CASE Prepare \/ Receive \/ ReceiveFails \/ OnAlpcDatagram
               \/ OnAlpcDisconnection \/ OnAlpcConnection
    BY <1>1, <2>1, <2>6
    DEF Prepare, AllocateAttributes, InitializeAttributes,
        AllocateMessage, Receive, SysReceive, ReceiveFails,
        OnAlpcDatagram, SysCancel, OnAlpcDisconnection, OnAlpcConnection,
        portVars
  <2> QED
    BY <1>3, <2>3, <2>4, <2>5, <2>6
    DEF WorkerStep, SrvServerWorker, SrvProcessMessage
<1>4. CASE ChannelInitialized \/ AllocateMessageOfTest
  BY <1>0, <1>4
  DEF ChannelInitialized, AllocateMessageOfTest, TestReturns, portVars, CountInv
<1>5. CASE Connect
  BY <1>0, <1>5 DEF Connect, SysConnect, PortTypeOK
<1>6. CASE ConnectReturns
  BY <1>0, <1>6 DEF ConnectReturns, SysReturn, TestReturns, PortTypeOK
<1>7. CASE SendDatagram
  BY <1>0, <1>7 DEF SendDatagram, SysDatagram, InLoop, portVars
<1>8. CASE SendRequest
  <2>1. port = "open"
    BY <1>0, <1>8 DEF SendRequest, InLoop, InitInv
  <2> QED
    BY <1>0, <1>8, <2>1
    DEF SendRequest, SysRequest, CanSend, InLoop, PortTypeOK, portVars
<1>9. CASE RequestReturns
  BY <1>0, <1>9 DEF RequestReturns, SysReturn, PortTypeOK, CountInv
<1>10. CASE CloseAndReturn
  BY <1>0, <1>10 DEF CloseAndReturn, Close, SysHangup, TestReturns, PortTypeOK
<1>11. CASE UNCHANGED vars
  BY <1>1, <1>11 DEF vars, portVars
<1> QED
  BY <1>2, <1>3, <1>4, <1>5, <1>6, <1>7, <1>8, <1>9, <1>10, <1>11
  DEF Next, MainStep, Main

LEMMA ControlStep == ControlInv /\ [Next]_vars => ControlInv'
  BY TypeStep, InitInvStep, CountInvStep, CallInvStep DEF ControlInv

\* Every variable of the demonstration program keeps its type.
THEOREM ChannelTypeCorrect == Spec => []TypeOK
<1>1. ControlInv => TypeOK
  BY DEF ControlInv
<1> QED BY <1>1, ControlInit, ControlStep, PTL DEF Spec

\* Whichever of its ways out the worker takes, its two buffers are live before
\* and gone after it.
THEOREM WorkerBuffersAreRight == Spec => []WorkerBuffersLive
<1>1. ControlInv => WorkerBuffersLive
  BY DEF ControlInv, HeapInv, WorkerBuffersLive
<1> QED BY <1>1, ControlInit, ControlStep, PTL DEF Spec

\* A channel that could not be initialised leaves no port to connect to.
THEOREM FailedChannelHasNoPort == Spec => []NoPortWithoutWorker
<1>1. ControlInv => NoPortWithoutWorker
  BY DEF ControlInv, InitInv, NoPortWithoutWorker
<1> QED BY <1>1, ControlInit, ControlStep, PTL DEF Spec

-----------------------------------------------------------------------------
(***************************************************************************)
(* QueueInv: how a step moves the messages that are still to be handled.   *)
(***************************************************************************)
LEMMA ToDoFacts ==
    ASSUME ControlInv
    PROVE  /\ \A i \in ToDoPositions : i \in Nat /\ ToDo(i) \in Message
           /\ \A j \in DOMAIN queue : /\ j \in ToDoPositions /\ j > 0
                                      /\ ToDo(j) = queue[j]
                                      /\ queue[j] \in Message
           /\ wpc = "process" => 0 \in ToDoPositions /\ ToDo(0) = msg
           /\ wpc # "process" => ToDoPositions = DOMAIN queue
<1>1. queue \in Seq(Message) /\ (wpc = "process" => msg \in Message)
  BY DEF ControlInv, TypeOK, PortTypeOK, HeapInv
<1>2. \A j \in DOMAIN queue : j \in Nat /\ j > 0 /\ queue[j] \in Message
  BY <1>1
<1>3. \A j \in DOMAIN queue : j \in ToDoPositions /\ ToDo(j) = queue[j]
  BY <1>2 DEF ToDoPositions, ToDo
<1>4. /\ wpc = "process" => ToDoPositions = DOMAIN queue \cup {0}
      /\ wpc # "process" => ToDoPositions = DOMAIN queue
      /\ ToDo(0) = msg
  BY DEF ToDoPositions, ToDo
<1> QED BY <1>1, <1>2, <1>3, <1>4

\* The message in hand leaves, or none was in hand.
LEMMA ToDoLeaves ==
    ASSUME ControlInv, MessagesOK, QueueInOrder, UNCHANGED queue,
           wpc' # "process"
    PROVE  /\ ToDoPositions' = DOMAIN queue
           /\ \A j \in DOMAIN queue : ToDo(j)' = queue[j]
           /\ \A j \in DOMAIN queue : MessageOK(queue[j])
           /\ wpc = "process" =>
                /\ MessageOK(msg)
                /\ \A j \in DOMAIN queue : InOrder(msg, queue[j])
           /\ QueueInOrder'
<1>1. ToDoPositions' = DOMAIN queue /\ \A j \in DOMAIN queue : j > 0
  <2>1. ToDoPositions' = DOMAIN queue
    BY DEF ToDoPositions
  <2> QED BY <2>1, ToDoFacts
<1>2. \A j \in DOMAIN queue : ToDo(j)' = queue[j]
  BY <1>1 DEF ToDo
<1>3. \A j \in DOMAIN queue : MessageOK(queue[j])
  BY ToDoFacts DEF MessagesOK
<1>4. wpc = "process" => MessageOK(msg)
  BY ToDoFacts DEF MessagesOK
<1>5. wpc = "process" => \A j \in DOMAIN queue : InOrder(msg, queue[j])
  BY ToDoFacts DEF QueueInOrder
<1>6. QueueInOrder'
  BY <1>1, <1>2, ToDoFacts DEF QueueInOrder
<1> QED BY <1>1, <1>2, <1>3, <1>4, <1>5, <1>6

\* The oldest message is received.
LEMMA ToDoReceive ==
    ASSUME ControlInv, wpc = "receive", queue # <<>>,
           queue' = Tail(queue), msg' = Head(queue), wpc' = "process"
    PROVE  /\ \A i \in ToDoPositions' : /\ i \in Nat
                                        /\ i + 1 \in ToDoPositions
                                        /\ ToDo(i)' = ToDo(i + 1)
           /\ \A i \in ToDoPositions : /\ i - 1 \in ToDoPositions'
                                       /\ ToDo(i - 1)' = ToDo(i)
<1>1. queue \in Seq(Message)
  BY DEF ControlInv, TypeOK, PortTypeOK
<1>2. /\ DOMAIN queue = 1..Len(queue) /\ Len(queue) \in Nat \ {0}
      /\ DOMAIN queue' = 1..(Len(queue) - 1)
      /\ \A i \in 1..(Len(queue) - 1) : queue'[i] = queue[i + 1]
      /\ msg' = queue[1]
  BY <1>1
<1>3. ToDoPositions = 1..Len(queue) /\ ToDoPositions' = 0..(Len(queue) - 1)
  BY <1>2 DEF ToDoPositions
<1>4. \A i \in 0..(Len(queue) - 1) : ToDo(i)' = ToDo(i + 1)
  BY <1>2 DEF ToDo
<1> QED BY <1>2, <1>3, <1>4

\* A message of main joins the queue.
LEMMA ToDoJoin ==
    ASSUME ControlInv, NEW m \in Message, queue' = Append(queue, m),
           UNCHANGED <<wpc, msg>>
    PROVE  /\ ToDoPositions' = ToDoPositions \cup {Len(queue) + 1}
           /\ \A i \in ToDoPositions : /\ i \in Nat /\ i < Len(queue) + 1
                                       /\ ToDo(i)' = ToDo(i)
           /\ Len(queue) \in Nat
           /\ \A i : i = Len(queue) + 1 => ToDo(i)' = m
<1>1. queue \in Seq(Message)
  BY DEF ControlInv, TypeOK, PortTypeOK
<1>2. /\ Len(queue) \in Nat /\ DOMAIN queue = 1..Len(queue)
      /\ DOMAIN queue' = 1..(Len(queue) + 1)
      /\ \A i \in 1..Len(queue) : queue'[i] = queue[i]
      /\ queue'[Len(queue) + 1] = m
  BY <1>1
<1>3. ToDoPositions' = ToDoPositions \cup {Len(queue) + 1}
  BY <1>2 DEF ToDoPositions
<1>4. \A i \in ToDoPositions : i \in 0..Len(queue)
  BY <1>2 DEF ToDoPositions
<1>5. \A i \in 0..Len(queue) : ToDo(i)' = ToDo(i)
  BY <1>2 DEF ToDo
<1>6. \A i : i = Len(queue) + 1 => ToDo(i)' = m
  BY <1>2 DEF ToDo
<1> QED BY <1>2, <1>3, <1>4, <1>5, <1>6

-----------------------------------------------------------------------------
(***************************************************************************)
(* Steps that move no message and no connection.                           *)
(***************************************************************************)
LEMMA QuietStep ==
    ASSUME ControlInv, QueueInv,
           UNCHANGED <<queue, conn, msg, commHandles, contexts>>,
           \A c \in Clients :
             call'[c] \in {"connect", "request"} => call'[c] = call[c],
           \/ wpc' = wpc
           \/ /\ wpc \notin {"process", "accept", "reject", "exited"}
              /\ wpc' \notin {"process", "accept", "reject"}
           \/ wpc = "accept" /\ wpc' = "reject"
    PROVE  QueueInv'
<1> USE DEF QueueInv
<1>1. /\ ToDoPositions' = ToDoPositions
      /\ \A i \in ToDoPositions : ToDo(i)' = ToDo(i)
  BY DEF ToDoPositions, ToDo
<1>2. MessagesOK'
  BY <1>1 DEF MessagesOK, MessageOK
<1>3. QueueInOrder'
  BY <1>1 DEF QueueInOrder
<1>4. HandlerInv'
  BY DEF HandlerInv
<1>5. ConnInv'
  BY <1>1 DEF ConnInv
<1>6. ServedInv'
  BY <1>1 DEF ServedInv, SyncServed
<1>7. NotForgotten'
  BY <1>1 DEF NotForgotten
<1>8. LeaksOnlyRefused'
  BY DEF LeaksOnlyRefused
<1> QED BY <1>2, <1>3, <1>4, <1>5, <1>6, <1>7, <1>8

LEMMA ReceiveStep ==
    ASSUME ControlInv, QueueInv, wpc = "receive", queue # <<>>,
           queue' = Tail(queue), msg' = Head(queue), wpc' = "process",
           UNCHANGED <<conn, call, commHandles, contexts>>
    PROVE  QueueInv'
<1> USE DEF QueueInv
<1>1. MessagesOK'
  BY ToDoReceive DEF MessagesOK, MessageOK
<1>2. QueueInOrder'
  <2> SUFFICES ASSUME NEW i \in ToDoPositions', NEW j \in ToDoPositions', i < j
               PROVE  InOrder(ToDo(i)', ToDo(j)')
    BY DEF QueueInOrder, InOrder
  <2>1. i + 1 < j + 1
    BY ToDoReceive
  <2> QED BY <2>1, ToDoReceive DEF QueueInOrder
<1>3. HandlerInv'
  BY DEF HandlerInv
<1>4. ConnInv'
  BY ToDoReceive DEF ConnInv
<1>5. ServedInv'
  BY ToDoReceive DEF ServedInv, SyncServed
<1>6. NotForgotten'
  BY ToDoReceive DEF NotForgotten
<1>7. LeaksOnlyRefused'
  BY DEF LeaksOnlyRefused
<1> QED BY <1>1, <1>2, <1>3, <1>4, <1>5, <1>6, <1>7

-----------------------------------------------------------------------------
(***************************************************************************)
(* The handlers: the message in hand leaves "process".                     *)
(***************************************************************************)
LEMMA RequestHandled ==
    ASSUME ControlInv, QueueInv, OnAlpcRequest
    PROVE  QueueInv'
<1> USE DEF QueueInv
<1>1. /\ wpc = "process" /\ msg.type = "REQUEST"
      /\ wpc' \in {"receive", "exited"}
      /\ UNCHANGED <<queue, conn, msg, commHandles, contexts>>
  BY DEF OnAlpcRequest, Processing, Reply, SysReply, Returns, GoTo, Exit, Leave,
         portVars
<1>2. \A c \in Clients :
        call'[c] \in {"connect", "request"} =>
          call'[c] = call[c] /\ (c # msg.client \/ wpc' = "exited"
                                              \/ call[c] # "request")
  BY DEF OnAlpcRequest, Reply, SysReply, Returns, Exit, Leave, portVars, ControlInv,
         TypeOK, PortTypeOK
<1>3. MessagesOK'
  BY <1>1, ToDoLeaves DEF MessagesOK, MessageOK
<1>4. QueueInOrder'
  BY <1>1, ToDoLeaves
<1>5. HandlerInv'
  BY <1>1 DEF HandlerInv
<1>6. ConnInv'
  BY <1>1, ToDoFacts, ToDoLeaves DEF ConnInv, ToDoPositions
<1>7. ServedInv'
  BY <1>1, ToDoFacts, ToDoLeaves DEF ServedInv, SyncServed
<1>8. NotForgotten'
  BY <1>1, <1>2, ToDoFacts, ToDoLeaves DEF NotForgotten, ToDoPositions
<1>9. LeaksOnlyRefused'
  BY <1>1 DEF LeaksOnlyRefused
<1> QED BY <1>3, <1>4, <1>5, <1>6, <1>7, <1>8, <1>9

LEMMA DatagramHandled ==
    ASSUME ControlInv, QueueInv, OnAlpcDatagram
    PROVE  QueueInv'
<1> USE DEF QueueInv
<1>1. /\ wpc = "process" /\ msg.type = "DATAGRAM"
      /\ wpc' = "receive"
      /\ UNCHANGED <<queue, conn, call, msg, commHandles, contexts>>
  BY DEF OnAlpcDatagram, Processing, SysCancel, Returns, GoTo, portVars
<1>2. MessagesOK'
  BY <1>1, ToDoLeaves DEF MessagesOK, MessageOK
<1>3. QueueInOrder'
  BY <1>1, ToDoLeaves
<1>4. HandlerInv'
  BY <1>1 DEF HandlerInv
<1>5. ConnInv'
  BY <1>1, ToDoFacts, ToDoLeaves DEF ConnInv, ToDoPositions
<1>6. ServedInv'
  BY <1>1, ToDoFacts, ToDoLeaves DEF ServedInv, SyncServed
<1>7. NotForgotten'
  BY <1>1, ToDoFacts, ToDoLeaves DEF NotForgotten, ToDoPositions
<1>8. LeaksOnlyRefused'
  BY <1>1 DEF LeaksOnlyRefused
<1> QED BY <1>2, <1>3, <1>4, <1>5, <1>6, <1>7, <1>8

LEMMA DisconnectionHandled ==
    ASSUME ControlInv, QueueInv, OnAlpcDisconnection
    PROVE  QueueInv'
<1> USE DEF QueueInv
<1>1. /\ wpc = "process" /\ msg.type \in {"PORT_CLOSED", "CLIENT_DIED"}
      /\ wpc' \in {"receive", "exited"}
      /\ commHandles' = commHandles \ {msg.client}
      /\ contexts' = contexts \ {msg.client}
      /\ UNCHANGED <<queue, conn, call, msg>>
  BY DEF OnAlpcDisconnection, Processing, FreeContext, Returns, GoTo, Exit, Leave,
         portVars
<1>2. /\ msg.type = "PORT_CLOSED"
      /\ conn[msg.client] = "closed"
      /\ \A j \in DOMAIN queue : queue[j].client # msg.client
  BY <1>1, ToDoLeaves DEF MessageOK, InOrder
<1>3. MessagesOK'
  BY <1>1, <1>2, ToDoLeaves DEF MessagesOK, MessageOK
<1>4. QueueInOrder'
  BY <1>1, ToDoLeaves
<1>5. HandlerInv'
  BY <1>1 DEF HandlerInv
<1>6. ConnInv'
  BY <1>1, <1>2, ToDoFacts, ToDoLeaves DEF ConnInv, ToDoPositions
<1>7. ServedInv'
  BY <1>1, ToDoFacts, ToDoLeaves DEF ServedInv, SyncServed
<1>8. NotForgotten'
  BY <1>1, <1>2, ToDoFacts, ToDoLeaves DEF NotForgotten, ToDoPositions
<1>9. LeaksOnlyRefused'
  BY <1>1 DEF LeaksOnlyRefused
<1> QED BY <1>3, <1>4, <1>5, <1>6, <1>7, <1>8, <1>9

LEMMA ConnectionHandled ==
    ASSUME ControlInv, QueueInv, OnAlpcConnection
    PROVE  QueueInv'
<1> USE DEF QueueInv
<1>0. msg.client \in Clients /\ Clients = {DatagramTest, SyncTest}
  BY MessageFields, TestsAssumption
  DEF ControlInv, HeapInv, OnAlpcConnection, Processing
<1>1. /\ wpc = "process" /\ msg.type = "CONNECTION_REQUEST"
      /\ \/ wpc' = "accept" /\ contexts' = contexts \cup {msg.client}
         \/ wpc' = "reject" /\ contexts' = contexts
         \/ wpc' = "exited" /\ contexts' = contexts
      /\ UNCHANGED <<queue, conn, call, msg, commHandles>>
  BY DEF OnAlpcConnection, Processing, WithoutMemory, Returns, GoTo, Exit, Leave,
         portVars
<1>2. /\ conn[msg.client] = "pending" /\ msg.client \notin commHandles
      /\ \A j \in DOMAIN queue : InOrder(msg, queue[j])
  BY <1>1, ToDoLeaves DEF MessageOK
<1>3. MessagesOK'
  BY <1>1, ToDoLeaves DEF MessagesOK, MessageOK
<1>4. QueueInOrder'
  BY <1>1, ToDoLeaves
<1>5. HandlerInv'
  BY <1>1, <1>2 DEF HandlerInv, InOrder
<1>6. ConnInv'
  BY <1>1, ToDoFacts, ToDoLeaves DEF ConnInv, ToDoPositions
<1>7. ServedInv'
  <2>1. CASE msg.client = SyncTest
    <3>1. test = SyncTest
      BY <1>0, <1>2, <2>1, BlockedIsTest
    <3>2. conn[DatagramTest] \in {"none", "closed"}
      BY <1>0, <3>1, TestsAssumption DEF ControlInv, CallInv, CallOK, Over
    <3>3. ~\E i \in ToDoPositions : /\ ToDo(i).type = "PORT_CLOSED"
                                     /\ ToDo(i).client = DatagramTest
      BY <1>1, <1>2, <2>1, ToDoFacts DEF ToDoPositions, InOrder
    <3>4. DatagramTest \notin commHandles
      BY <1>0, <1>1, <3>2, <3>3 DEF ConnInv
    <3>5. \A j \in DOMAIN queue : queue[j].client # DatagramTest
      BY <1>2, <2>1 DEF InOrder
    <3> QED BY <1>1, <3>4, <3>5, ToDoLeaves DEF ServedInv
  <2>2. CASE msg.client # SyncTest
    BY <1>1, <2>2, ToDoFacts, ToDoLeaves DEF ServedInv, SyncServed
  <2> QED BY <2>1, <2>2
<1>8. NotForgotten'
  BY <1>1, ToDoFacts, ToDoLeaves DEF NotForgotten, ToDoPositions
<1>9. LeaksOnlyRefused'
  BY <1>1 DEF LeaksOnlyRefused
<1> QED BY <1>3, <1>4, <1>5, <1>6, <1>7, <1>8, <1>9

LEMMA AcceptHandled ==
    ASSUME ControlInv, QueueInv, OnAlpcConnectionAccepts
    PROVE  QueueInv'
<1> USE DEF QueueInv
<1>0. /\ wpc = "accept" /\ msg.client \in Clients
      /\ Clients = {DatagramTest, SyncTest} /\ DatagramTest # SyncTest
  BY MessageFields, TestsAssumption
  DEF ControlInv, HeapInv, OnAlpcConnectionAccepts
<1>1. CASE /\ wpc' = "reject"
           /\ UNCHANGED <<queue, conn, call, msg, commHandles, contexts>>
  BY <1>0, <1>1, QuietStep
<1>2. CASE wpc' # "reject"
  <2>1. /\ wpc' = "receive"
        /\ conn' = [conn EXCEPT ![msg.client] = "open"]
        /\ call' = [call EXCEPT ![msg.client] = "ok"]
        /\ commHandles' = commHandles \cup {msg.client}
        /\ UNCHANGED <<queue, msg, contexts>>
    BY <1>2 DEF OnAlpcConnectionAccepts, SysAccept, Returns, GoTo
  <2>2. /\ conn[msg.client] = "pending" /\ msg.type = "CONNECTION_REQUEST"
        /\ \A j \in DOMAIN queue : InOrder(msg, queue[j])
    BY <1>0 DEF HandlerInv
  <2>3. \A j \in DOMAIN queue : /\ queue[j].client # msg.client
                                 /\ queue[j].client \in Clients
    BY <2>2, ToDoFacts, MessageFields DEF InOrder
  <2>4. conn \in [Clients -> {"none", "pending", "open", "closed"}]
        /\ call \in [Clients -> {"idle", "connect", "request", "ok", "fail"}]
    BY DEF ControlInv, TypeOK, PortTypeOK
  <2>5. MessagesOK'
    BY <1>0, <2>1, <2>3, <2>4, ToDoLeaves DEF MessagesOK, MessageOK
  <2>6. QueueInOrder'
    BY <2>1, ToDoLeaves
  <2>7. HandlerInv'
    BY <2>1 DEF HandlerInv
  <2>8. ConnInv'
    BY <1>0, <2>1, <2>4, ToDoFacts, ToDoLeaves DEF ConnInv, ToDoPositions
  <2>9. ServedInv'
    <3>1. CASE msg.client = SyncTest
      BY <1>0, <2>1, <3>1, ToDoFacts, ToDoLeaves DEF ServedInv, SyncServed
    <3>2. CASE msg.client = DatagramTest
      <4>1. test = DatagramTest
        BY <1>0, <2>2, <3>2, BlockedIsTest
      <4>2. conn[SyncTest] = "none"
        BY <1>0, <4>1 DEF ControlInv, CallInv, CallOK, Unstarted
      <4> QED BY <1>0, <2>1, <2>4, <3>2, <4>2 DEF ServedInv, SyncServed
    <3> QED BY <1>0, <3>1, <3>2
  <2>10. NotForgotten'
    BY <1>0, <2>1, <2>4, ToDoFacts, ToDoLeaves DEF NotForgotten
  <2>11. LeaksOnlyRefused'
    BY <1>0, <2>1, <2>4
    DEF LeaksOnlyRefused, ControlInv, TypeOK, SrvTypeOK
  <2> QED BY <2>5, <2>6, <2>7, <2>8, <2>9, <2>10, <2>11
<1> QED
  BY <1>0, <1>1, <1>2 DEF OnAlpcConnectionAccepts, GoTo, Returns, portVars

LEMMA RejectHandled ==
    ASSUME ControlInv, QueueInv, OnAlpcConnectionRejects
    PROVE  QueueInv'
<1> USE DEF QueueInv
<1>0. /\ wpc = "reject" /\ msg.client \in Clients
  BY MessageFields DEF ControlInv, HeapInv, OnAlpcConnectionRejects
<1>1. /\ wpc' \in {"receive", "exited"}
      /\ wpc' # "exited" => SysReject(msg.client)
      /\ SysReject(msg.client) \/ UNCHANGED portVars
      /\ UNCHANGED <<msg, commHandles, contexts>>
  BY DEF OnAlpcConnectionRejects, Returns, GoTo, Exit, Leave, loopVars
<1>2. /\ conn[msg.client] = "pending" /\ msg.client \notin commHandles
      /\ call[msg.client] = "connect"
      /\ msg.type = "CONNECTION_REQUEST" /\ port = "open"
      /\ \A j \in DOMAIN queue : InOrder(msg, queue[j])
  BY <1>0, BlockedIsTest
  DEF HandlerInv, ControlInv, InitInv, TypeOK, SrvTypeOK
<1>3. \A j \in DOMAIN queue : /\ queue[j].client # msg.client
                               /\ queue[j].client \in Clients
  BY <1>2, ToDoFacts, MessageFields DEF InOrder
<1>4. conn \in [Clients -> {"none", "pending", "open", "closed"}]
      /\ call \in [Clients -> {"idle", "connect", "request", "ok", "fail"}]
  BY DEF ControlInv, TypeOK, PortTypeOK
<1>5. /\ UNCHANGED queue
      /\ \A c \in Clients \ {msg.client} : conn'[c] = conn[c] /\ call'[c] = call[c]
      /\ conn'[msg.client] \in {"none", "pending"}
      /\ wpc' # "exited" => call'[msg.client] = "fail"
  BY <1>0, <1>1, <1>2, <1>4 DEF SysReject, CanAccept, portVars
<1>6. MessagesOK'
  BY <1>0, <1>1, <1>3, <1>5, ToDoLeaves DEF MessagesOK, MessageOK
<1>7. QueueInOrder'
  BY <1>0, <1>1, <1>5, ToDoLeaves
<1>8. HandlerInv'
  BY <1>1 DEF HandlerInv
<1>9. ConnInv'
  BY <1>0, <1>1, <1>2, <1>5, TestsAssumption, ToDoFacts, ToDoLeaves DEF ConnInv
<1>10. ServedInv'
  BY <1>0, <1>1, <1>2, <1>5, TestsAssumption, ToDoFacts, ToDoLeaves
  DEF ServedInv, SyncServed
<1>11. NotForgotten'
  BY <1>0, <1>1, <1>5, ToDoFacts, ToDoLeaves DEF NotForgotten
<1>12. LeaksOnlyRefused'
  BY <1>0, <1>1, <1>5 DEF LeaksOnlyRefused, ControlInv, TypeOK, SrvTypeOK
<1> QED BY <1>6, <1>7, <1>8, <1>9, <1>10, <1>11, <1>12

-----------------------------------------------------------------------------
(***************************************************************************)
(* Main's steps: a message joins the queue, or a call returns.             *)
(***************************************************************************)
LEMMA JoinStep ==
    ASSUME ControlInv, QueueInv, NEW m \in Message,
           queue' = Append(queue, m), UNCHANGED <<wpc, msg, commHandles>>,
           \A n \in Message : MessageOK(n) => MessageOK(n)',
           MessageOK(m)', \A i \in ToDoPositions : InOrder(ToDo(i), m)
    PROVE  MessagesOK' /\ QueueInOrder'
<1> USE DEF QueueInv
<1>1. MessagesOK'
  BY ToDoFacts, ToDoJoin DEF MessagesOK
<1>2. QueueInOrder'
  <2> SUFFICES ASSUME NEW i \in ToDoPositions', NEW j \in ToDoPositions', i < j
               PROVE  InOrder(ToDo(i)', ToDo(j)')
    BY DEF QueueInOrder, InOrder
  <2>1. CASE j \in ToDoPositions
    <3>1. i \in ToDoPositions
      BY <2>1, ToDoJoin
    <3> QED BY <2>1, <3>1, ToDoJoin DEF QueueInOrder
  <2>2. CASE j \notin ToDoPositions
    <3>1. j = Len(queue) + 1 /\ i \in ToDoPositions
      BY <2>2, ToDoJoin
    <3> QED BY <3>1, ToDoJoin
  <2> QED BY <2>1, <2>2
<1> QED BY <1>1, <1>2

\* While main is not connecting no connection is in the worker's hands, and none
\* is pending.
LEMMA NonePending ==
    ASSUME ControlInv, QueueInv, mpc # "connecting"
    PROVE  /\ \A c \in Clients : conn[c] # "pending"
           /\ wpc \notin {"accept", "reject"}
<1>1. \A c \in Clients : conn[c] # "pending"
  BY BlockedIsTest
<1>2. wpc \in {"accept", "reject"} => msg.client \in Clients
  BY MessageFields DEF ControlInv, HeapInv
<1> QED BY <1>1, <1>2 DEF QueueInv, HandlerInv

\* Every message to come is of a test that has connected and, if its test is
\* still going on, is not the end of it.
LEMMA ToDoClients ==
    ASSUME ControlInv, QueueInv, NEW i \in ToDoPositions
    PROVE  /\ ToDo(i).client \in Clients
           /\ conn[ToDo(i).client] # "none"
           /\ ToDo(i).type = "CONNECTION_REQUEST" =>
                conn[ToDo(i).client] = "pending"
           /\ ToDo(i).type = "PORT_CLOSED" => conn[ToDo(i).client] = "closed"
<1>1. ToDo(i) \in Message /\ MessageOK(ToDo(i))
  BY ToDoFacts DEF QueueInv, MessagesOK
<1>2. ToDo(i).client \in Clients
  BY <1>1, MessageFields
<1> QED BY <1>1, <1>2 DEF MessageOK, QueueInv, ConnInv

LEMMA ConnectStep ==
    ASSUME ControlInv, QueueInv, Connect, UNCHANGED srvVars
    PROVE  QueueInv'
<1> USE DEF QueueInv
<1>0. /\ test \in Clients /\ Clients = {DatagramTest, SyncTest}
      /\ DatagramTest # SyncTest /\ port = "open"
      /\ conn[test] = "none" /\ mpc = "connect"
      /\ conn \in [Clients -> {"none", "pending", "open", "closed"}]
      /\ call \in [Clients -> {"idle", "connect", "request", "ok", "fail"}]
  BY TestsAssumption
  DEF ControlInv, TypeOK, PortTypeOK, CliTypeOK, Connect, InitInv, CallInv,
      CallOK, Unstarted
<1>1. PICK m \in Message :
        /\ m = Msg("CONNECTION_REQUEST", test, NoData(test), FALSE)
        /\ m.client = test /\ m.type = "CONNECTION_REQUEST"
  BY <1>0, MessageTypes DEF Types, Msg
<1>2. /\ queue' = Append(queue, m)
      /\ conn' = [conn EXCEPT ![test] = "pending"]
      /\ call' = [call EXCEPT ![test] = "connect"]
      /\ UNCHANGED <<wpc, msg, commHandles, contexts>>
  BY <1>0, <1>1 DEF Connect, SysConnect, srvVars
<1>3. test \notin commHandles
  BY <1>0 DEF ConnInv
<1>4. \A n \in Message : MessageOK(n) => MessageOK(n)'
  BY <1>0, <1>2, MessageFields DEF MessageOK
<1>5. MessageOK(m)'
  BY <1>0, <1>1, <1>2, <1>3 DEF MessageOK
<1>6. test = DatagramTest => conn[SyncTest] = "none"
  BY <1>0 DEF ControlInv, CallInv, CallOK, Unstarted
<1>7. \A i \in ToDoPositions : InOrder(ToDo(i), m)
  BY <1>0, <1>1, <1>6, ToDoClients DEF InOrder
<1>8. MessagesOK' /\ QueueInOrder'
  BY <1>1, <1>2, <1>4, <1>5, <1>7, JoinStep
<1>9. HandlerInv'
  BY <1>0, <1>2, NonePending DEF HandlerInv
<1>10. ConnInv'
  <2>1. \A c \in Clients : conn'[c] = IF c = test THEN "pending" ELSE conn[c]
    BY <1>0, <1>2
  <2>2. \A c \in Clients : /\ conn'[c] = "open" => c \in commHandles'
                          /\ conn'[c] \in {"none", "pending"} =>
                               c \notin commHandles'
    BY <1>2, <1>3, <2>1 DEF ConnInv
  <2>3. conn'[DatagramTest] = "closed" => conn[DatagramTest] = "closed"
    BY <1>0, <2>1
  <2> QED BY <1>2, <2>2, <2>3, ToDoJoin DEF ConnInv
<1>11. ServedInv'
  BY <1>0, <1>1, <1>2, <1>6, ToDoJoin, NonePending DEF ServedInv, SyncServed
<1>12. NotForgotten'
  <2>1. \A c \in Clients : call'[c] = IF c = test THEN "connect" ELSE call[c]
    BY <1>0, <1>2
  <2>2. \E i \in ToDoPositions' : ToDo(i)' = m
    BY <1>2, ToDoJoin
  <2>3. \A i \in ToDoPositions : i \in ToDoPositions' /\ ToDo(i)' = ToDo(i)
    BY <1>2, ToDoJoin
  <2> SUFFICES ASSUME NEW c \in Clients, wpc # "exited"
               PROVE
        /\ call'[c] = "connect" =>
             \/ \E i \in ToDoPositions' :
                  ToDo(i)'.type = "CONNECTION_REQUEST" /\ ToDo(i)'.client = c
             \/ wpc \in {"accept", "reject"} /\ msg.client = c
        /\ call'[c] = "request" =>
             \E i \in ToDoPositions' :
               ToDo(i)'.type = "REQUEST" /\ ToDo(i)'.client = c
    BY <1>2 DEF NotForgotten
  <2>4. CASE c = test
    BY <1>1, <2>1, <2>2, <2>4
  <2>5. CASE c # test
    BY <2>1, <2>3, <2>5 DEF NotForgotten
  <2> QED BY <2>4, <2>5
<1>13. LeaksOnlyRefused'
  BY <1>0, <1>2 DEF LeaksOnlyRefused, ControlInv, TypeOK, SrvTypeOK
<1> QED BY <1>8, <1>9, <1>10, <1>11, <1>12, <1>13

\* A datagram or a request of a test that is connected.
LEMMA SendStep ==
    ASSUME ControlInv, QueueInv, mpc = "loop", UNCHANGED srvVars,
           NEW m \in Message, m.client = test,
           m.type \in {"DATAGRAM", "REQUEST"},
           queue' = Append(queue, m), UNCHANGED conn,
           \/ UNCHANGED call
           \/ m.type = "REQUEST" /\ call' = [call EXCEPT ![test] = "request"]
    PROVE  QueueInv'
<1> USE DEF QueueInv
<1>0. /\ test \in Clients /\ Clients = {DatagramTest, SyncTest}
      /\ DatagramTest # SyncTest
      /\ conn[test] = "open" /\ test \in commHandles
      /\ test = DatagramTest => conn[SyncTest] = "none"
      /\ call \in [Clients -> {"idle", "connect", "request", "ok", "fail"}]
  BY TestsAssumption
  DEF ControlInv, TypeOK, PortTypeOK, CliTypeOK, CallInv, CallOK, Unstarted,
      ConnInv
<1>1. UNCHANGED <<wpc, msg, commHandles, contexts>>
  BY DEF srvVars
<1>2. \A n \in Message : MessageOK(n) => MessageOK(n)'
  BY <1>1 DEF MessageOK
<1>3. MessageOK(m)'
  BY <1>0, <1>1 DEF MessageOK
<1>4. \A i \in ToDoPositions : InOrder(ToDo(i), m)
  BY <1>0, ToDoClients DEF InOrder
<1>5. MessagesOK' /\ QueueInOrder'
  BY <1>1, <1>2, <1>3, <1>4, JoinStep
<1>6. HandlerInv'
  BY <1>1, NonePending DEF HandlerInv
<1>7. ConnInv'
  BY <1>1, ToDoJoin DEF ConnInv
<1>8. ServedInv'
  BY <1>0, <1>1, ToDoJoin, NonePending DEF ServedInv, SyncServed
<1>9. NotForgotten'
  BY <1>0, <1>1, ToDoJoin DEF NotForgotten
<1>10. LeaksOnlyRefused'
  BY <1>1 DEF LeaksOnlyRefused
<1> QED BY <1>5, <1>6, <1>7, <1>8, <1>9, <1>10

LEMMA CloseStep ==
    ASSUME ControlInv, QueueInv, CloseAndReturn, UNCHANGED srvVars
    PROVE  QueueInv'
<1> USE DEF QueueInv
<1>0. /\ test \in Clients /\ Clients = {DatagramTest, SyncTest}
      /\ DatagramTest # SyncTest /\ port = "open" /\ mpc = "loop"
      /\ conn[test] = "open" /\ test \in commHandles
      /\ test = DatagramTest => conn[SyncTest] = "none"
      /\ conn \in [Clients -> {"none", "pending", "open", "closed"}]
      /\ call \in [Clients -> {"idle", "connect", "request", "ok", "fail"}]
  BY TestsAssumption
  DEF ControlInv, TypeOK, PortTypeOK, CliTypeOK, CloseAndReturn, InitInv,
      CallInv, CallOK, Unstarted, ConnInv
<1>1. PICK m \in Message :
        /\ m = Notice("PORT_CLOSED", test)
        /\ m.client = test /\ m.type = "PORT_CLOSED"
  BY <1>0, MessageTypes DEF Types, Notice, Msg
<1>2. /\ queue' = Append(queue, m)
      /\ conn' = [conn EXCEPT ![test] = "closed"]
      /\ call' = [call EXCEPT ![test] = "idle"]
      /\ UNCHANGED <<wpc, msg, commHandles, contexts>>
  <2>1. queue' = queue \o <<m>>
    BY <1>0, <1>1 DEF CloseAndReturn, Close, SysHangup, CanSend
  <2>2. queue \o <<m>> = Append(queue, m)
    BY <1>1 DEF ControlInv, TypeOK, PortTypeOK
  <2> QED
    BY <1>0, <2>1, <2>2 DEF CloseAndReturn, Close, SysHangup, srvVars
<1>3. \A n \in Message : MessageOK(n) => MessageOK(n)'
  BY <1>0, <1>2, MessageFields DEF MessageOK
<1>4. MessageOK(m)'
  BY <1>0, <1>1, <1>2 DEF MessageOK
<1>5. \A i \in ToDoPositions : InOrder(ToDo(i), m)
  BY <1>0, <1>1, ToDoClients DEF InOrder
<1>6. MessagesOK' /\ QueueInOrder'
  BY <1>1, <1>2, <1>3, <1>4, <1>5, JoinStep
<1>7. HandlerInv'
  BY <1>0, <1>2, NonePending DEF HandlerInv
<1>8. ConnInv'
  BY <1>0, <1>1, <1>2, ToDoJoin DEF ConnInv
<1>9. ServedInv'
  BY <1>0, <1>1, <1>2, ToDoJoin, NonePending DEF ServedInv, SyncServed
<1>10. NotForgotten'
  BY <1>0, <1>2, ToDoJoin DEF NotForgotten
<1>11. LeaksOnlyRefused'
  BY <1>0, <1>2 DEF LeaksOnlyRefused, ControlInv, TypeOK, SrvTypeOK
<1> QED BY <1>6, <1>7, <1>8, <1>9, <1>10, <1>11

LEMMA MainQueueStep ==
    ASSUME ControlInv, QueueInv, Main, UNCHANGED srvVars
    PROVE  QueueInv'
<1>0. UNCHANGED <<wpc, msg, commHandles, contexts>>
  BY DEF srvVars
<1>1. /\ test \in Clients /\ port \in {"none", "open", "closed"}
      /\ call \in [Clients -> {"idle", "connect", "request", "ok", "fail"}]
      /\ mpc = "loop" => conn[test] = "open" /\ port = "open"
  BY DEF ControlInv, TypeOK, PortTypeOK, CliTypeOK, CallInv, CallOK, InitInv
<1>2. CASE ChannelInitialized \/ AllocateMessageOfTest
  BY <1>0, <1>2, QuietStep
  DEF ChannelInitialized, AllocateMessageOfTest, portVars
<1>3. CASE Connect
  BY <1>3, ConnectStep
<1>4. CASE ConnectReturns \/ RequestReturns
  BY <1>0, <1>1, <1>4, QuietStep DEF ConnectReturns, RequestReturns, SysReturn
<1>5. CASE SendDatagram
  <2>1. mpc = "loop" /\ counter + 1 \in 0..MaxSends
    BY <1>5, PortAssumption
    DEF SendDatagram, InLoop, LoopGoesOn, ControlInv, TypeOK, CliTypeOK
  <2>2. ASSUME NEW k \in BOOLEAN, SysDatagram(test, CounterMessage, k)
        PROVE  QueueInv'
    <3> DEFINE m == Msg("DATAGRAM", test, CounterMessage, k)
    <3>1. CounterMessage \in Data
      BY <1>1, <2>1 DEF CounterMessage, Data
    <3>2. m \in Message /\ m.client = test /\ m.type = "DATAGRAM"
      BY <1>1, <3>1, MessageTypes DEF Types, Msg
    <3>3. queue' = Append(queue, m) /\ UNCHANGED <<conn, call>>
      BY <1>1, <2>1, <2>2 DEF SysDatagram, CanSend
    <3> HIDE DEF m
    <3> QED BY <2>1, <3>2, <3>3, SendStep
  <2>3. CASE UNCHANGED portVars
    BY <1>0, <2>3, QuietStep DEF portVars
  <2> QED BY <1>5, <2>2, <2>3 DEF SendDatagram
<1>6. CASE SendRequest
  <2>1. mpc = "loop" /\ counter + 1 \in 0..MaxSends
    BY <1>6, PortAssumption
    DEF SendRequest, InLoop, LoopGoesOn, ControlInv, TypeOK, CliTypeOK
  <2>2. CASE SysRequest(test, CounterMessage)
    <3> DEFINE m == Msg("REQUEST", test, CounterMessage, FALSE)
    <3>1. CounterMessage \in Data
      BY <1>1, <2>1 DEF CounterMessage, Data
    <3>2. m \in Message /\ m.client = test /\ m.type = "REQUEST"
      BY <1>1, <3>1, MessageTypes DEF Types, Msg
    <3>3. /\ queue' = Append(queue, m) /\ UNCHANGED conn
          /\ call' = [call EXCEPT ![test] = "request"]
      BY <1>1, <2>1, <2>2 DEF SysRequest, CanSend
    <3> HIDE DEF m
    <3> QED BY <2>1, <3>2, <3>3, SendStep
  <2>3. CASE UNCHANGED portVars
    BY <1>0, <2>3, QuietStep DEF portVars
  <2> QED BY <1>6, <2>2, <2>3 DEF SendRequest
<1>7. CASE CloseAndReturn
  BY <1>7, CloseStep
<1> QED BY <1>2, <1>3, <1>4, <1>5, <1>6, <1>7 DEF Main

-----------------------------------------------------------------------------
(***************************************************************************)
(* IInv is inductive.                                                      *)
(***************************************************************************)
LEMMA QueueInit == Init => QueueInv
<1> SUFFICES ASSUME Init PROVE QueueInv
  OBVIOUS
<1> USE DEF Init, PortInit, SrvInit, CliInit
<1>1. ToDoPositions = {}
  BY DEF ToDoPositions
<1>2. \A c \in Clients : conn[c] = "none" /\ call[c] = "idle"
  OBVIOUS
<1>3. MessagesOK /\ QueueInOrder /\ HandlerInv
  BY <1>1 DEF MessagesOK, QueueInOrder, HandlerInv
<1>4. ConnInv /\ ServedInv
  BY <1>1, <1>2, TestsAssumption DEF ConnInv, ServedInv, SyncServed
<1>5. NotForgotten /\ LeaksOnlyRefused
  BY <1>2 DEF NotForgotten, LeaksOnlyRefused
<1> QED BY <1>3, <1>4, <1>5 DEF QueueInv

\* The port is closed again before anybody has connected.
LEMMA NoThreadStep ==
    ASSUME ControlInv, QueueInv, ipc = "thread", SysClosePort,
           UNCHANGED <<wpc, loopVars>>
    PROVE  QueueInv'
<1> USE DEF QueueInv
<1>1. /\ wpc = "none" /\ queue' = <<>>
      /\ UNCHANGED <<wpc, msg, commHandles, contexts>>
  BY DEF ControlInv, InitInv, SysClosePort, loopVars
<1>2. \A c \in Clients : conn[c] = "none" /\ call[c] = "idle"
  BY TestsAssumption
  DEF ControlInv, InitInv, CountInv, CallInv, CallOK, Unstarted, TypeOK,
      CliTypeOK
<1>3. \A c \in Clients : conn'[c] = "none" /\ call'[c] = "idle"
  BY <1>2 DEF SysClosePort, Blocked
<1>4. ToDoPositions' = {}
  BY <1>1 DEF ToDoPositions
<1>5. MessagesOK' /\ QueueInOrder' /\ HandlerInv'
  BY <1>1, <1>4 DEF MessagesOK, QueueInOrder, HandlerInv
<1>6. ConnInv' /\ ServedInv'
  BY <1>1, <1>2, <1>3, <1>4, TestsAssumption
  DEF ConnInv, ServedInv, SyncServed
<1>7. NotForgotten' /\ LeaksOnlyRefused'
  BY <1>1, <1>2, <1>3, <1>4, TestsAssumption
  DEF NotForgotten, LeaksOnlyRefused, ControlInv, TypeOK, SrvTypeOK
<1> QED BY <1>5, <1>6, <1>7

LEMMA InitializeQueueStep ==
    ASSUME ControlInv, QueueInv, SrvInitializeChannel, UNCHANGED cliVars
    PROVE  QueueInv'
<1>1. CASE CreatePort
  BY <1>1, QuietStep DEF CreatePort, SysCreatePort, loopVars, portVars
<1>2. CASE CreateThread
  <2>1. ipc = "thread" /\ wpc = "none" /\ UNCHANGED loopVars
    BY <1>2 DEF CreateThread, ControlInv, InitInv
  <2>2. CASE wpc' = "attributes" /\ UNCHANGED portVars
    BY <2>1, <2>2, QuietStep DEF loopVars, portVars
  <2>3. CASE SysClosePort /\ UNCHANGED wpc
    BY <2>1, <2>3, NoThreadStep
  <2> QED BY <1>2, <2>2, <2>3 DEF CreateThread, WithoutThread
<1> QED BY <1>1, <1>2 DEF SrvInitializeChannel

LEMMA WorkerQueueStep ==
    ASSUME ControlInv, QueueInv, SrvServerWorker, UNCHANGED cliVars
    PROVE  QueueInv'
<1> USE DEF GoTo, Exit, Leave
<1>1. CASE Prepare
  BY <1>1, QuietStep DEF Prepare, AllocateAttributes,
                         InitializeAttributes,
                         AllocateMessage, loopVars,
                         portVars
<1>2. CASE Receive
  <2>1. CASE SysReceive /\ msg' = Head(queue) /\ wpc' = "process"
    BY <1>2, <2>1, ReceiveStep DEF Receive, SysReceive
  <2>2. CASE Exit /\ UNCHANGED <<msg, portVars>>
    BY <1>2, <2>2, QuietStep DEF Receive, portVars
  <2> QED BY <1>2, <2>1, <2>2 DEF Receive
<1>3. CASE ReceiveFails
  BY <1>3, QuietStep DEF ReceiveFails, AfterFailedReceive, loopVars, portVars
<1> QED
  BY <1>1, <1>2, <1>3, RequestHandled, DatagramHandled, DisconnectionHandled,
     ConnectionHandled, AcceptHandled, RejectHandled
  DEF SrvServerWorker, SrvProcessMessage

LEMMA QueueStep == ControlInv /\ QueueInv /\ [Next]_vars => QueueInv'
<1> SUFFICES ASSUME ControlInv, QueueInv, [Next]_vars PROVE QueueInv'
  OBVIOUS
<1>1. CASE UNCHANGED vars
  BY <1>1, QuietStep DEF vars, portVars, srvVars
<1> QED
  BY <1>1, InitializeQueueStep, WorkerQueueStep, MainQueueStep
  DEF Next, MainStep, WorkerStep

LEMMA Inductive == Spec => []IInv
<1>1. Init => IInv
  BY ControlInit, QueueInit DEF IInv
<1>2. IInv /\ [Next]_vars => IInv'
  BY ControlStep, QueueStep DEF IInv
<1> QED BY <1>1, <1>2, PTL DEF Spec

\* When the second test is connected, nothing of the first is left: its
\* datagrams are handled and its connection is closed.
THEOREM TestsAreSerial == Spec => []TestsDoNotOverlap
<1>1. IInv => TestsDoNotOverlap
  <2> SUFFICES ASSUME IInv, conn[SyncTest] = "open"
               PROVE  /\ DatagramTest \notin commHandles
                      /\ \A i \in DOMAIN queue : queue[i].client # DatagramTest
    BY DEF TestsDoNotOverlap
  <2> QED
    BY ToDoFacts DEF IInv, QueueInv, ServedInv, SyncServed
<1> QED BY <1>1, Inductive, PTL

\* Only a connection whose accept failed leaks its PORT_CONTEXT.
THEOREM ContextsLeakOnlyRefused == Spec => []LeaksOnlyRefused
<1>1. IInv => LeaksOnlyRefused
  BY DEF IInv, QueueInv
<1> QED BY <1>1, Inductive, PTL

\* A call that waits has its message in the queue or in the worker's hands,
\* unless the worker has ended.
THEOREM BlockedCallsAreServed == Spec => []BlockedIsServed
<1>1. IInv => BlockedIsServed
  <2> SUFFICES ASSUME IInv, NEW c \in Clients, Blocked(c), wpc # "exited"
               PROVE  \/ \E i \in DOMAIN queue : queue[i].client = c
                      \/ /\ wpc \in {"process", "accept", "reject"}
                         /\ msg.client = c
    BY DEF BlockedIsServed
  <2>1. \/ \E i \in ToDoPositions : ToDo(i).client = c
        \/ wpc \in {"accept", "reject"} /\ msg.client = c
    BY DEF IInv, QueueInv, NotForgotten, Blocked
  <2>2. \A i \in ToDoPositions :
          \/ i \in DOMAIN queue /\ ToDo(i) = queue[i]
          \/ wpc = "process" /\ ToDo(i) = msg
    BY ToDoFacts DEF IInv, ToDoPositions, ToDo
  <2> QED BY <2>1, <2>2
<1> QED BY <1>1, Inductive, PTL

-----------------------------------------------------------------------------
(***************************************************************************)
(* The counters: those still to be handled of a test are increasing, lie   *)
(* above the last one handled and do not exceed the last one sent.         *)
(***************************************************************************)
Counts(m) == m.type \in {"REQUEST", "DATAGRAM"}

\* The last counter the test c may have sent.
Last(c) ==
    IF c # test THEN IF test = DatagramTest THEN 0 ELSE MaxSends
    ELSE IF mpc \in {"init", "allocate", "connect", "connecting"} THEN 0
    ELSE IF mpc = "loop" THEN counter
    ELSE IF mpc = "requesting" THEN counter + 1
    ELSE MaxSends

HandledIsSent == \A c \in Clients : handled[c] <= Last(c)

ToDoIsSent ==
    \A i \in ToDoPositions : Counts(ToDo(i)) =>
      /\ handled[ToDo(i).client] < ToDo(i).data.n
      /\ ToDo(i).data.n <= Last(ToDo(i).client)

ToDoIncreases ==
    \A i, j \in ToDoPositions :
      i < j /\ Counts(ToDo(i)) /\ Counts(ToDo(j))
        /\ ToDo(i).client = ToDo(j).client =>
          ToDo(i).data.n < ToDo(j).data.n

NumbersInv == HandledIsSent /\ ToDoIsSent /\ ToDoIncreases

LEMMA NumberTypes ==
    ASSUME ControlInv
    PROVE  /\ MaxSends \in Nat
           /\ handled \in [Clients -> 0..MaxSends]
           /\ counter \in 0..MaxSends /\ test \in Clients
           /\ mpc = "requesting" => counter < MaxSends
           /\ \A m \in Message : /\ m.client \in Clients
                                 /\ m.data.n \in 0..MaxSends
           /\ \A c \in Clients : Last(c) \in 0..MaxSends
<1>1. /\ MaxSends \in Nat
      /\ handled \in [Clients -> 0..MaxSends]
      /\ counter \in 0..MaxSends /\ test \in Clients
      /\ mpc = "requesting" => counter < MaxSends
  BY PortAssumption
  DEF ControlInv, TypeOK, SrvTypeOK, CliTypeOK, CountInv
<1>2. \A c \in Clients : Last(c) \in 0..MaxSends
  BY <1>1 DEF Last
<1> QED BY <1>1, <1>2, MessageFields

LEMMA LastType == ControlInv => \A c \in Clients : Last(c) \in 0..MaxSends
<1>1. ControlInv =>
        /\ MaxSends \in Nat /\ counter \in 0..MaxSends
        /\ mpc = "requesting" => counter < MaxSends
  BY NumberTypes
<1> QED BY <1>1 DEF Last

\* What a test has sent it has sent for good.
LEMMA LastGrows ==
    ASSUME ControlInv, ControlInv', [Next]_vars, NEW c \in Clients
    PROVE  Last(c) <= Last(c)'
<1>0. /\ MaxSends \in Nat /\ counter \in 0..MaxSends
      /\ counter' \in 0..MaxSends
      /\ mpc = "requesting" => counter < MaxSends
      /\ mpc' = "requesting" => counter' < MaxSends
      /\ Last(c) \in 0..MaxSends
      /\ Clients = {DatagramTest, SyncTest} /\ DatagramTest # SyncTest
      /\ test \in Clients
  BY NumberTypes, TestsAssumption DEF ControlInv, CountInv, TypeOK, CliTypeOK
<1>1. CASE UNCHANGED cliVars
  BY <1>0, <1>1 DEF cliVars, Last
<1>2. CASE ChannelInitialized
  BY <1>0, <1>2 DEF ChannelInitialized, Last
<1>3. CASE AllocateMessageOfTest
  BY <1>0, <1>3 DEF AllocateMessageOfTest, TestReturns, Last
<1>4. CASE Connect
  BY <1>0, <1>4 DEF Connect, Last
<1>5. CASE ConnectReturns
  BY <1>0, <1>5 DEF ConnectReturns, TestReturns, Last
<1>6. CASE SendDatagram
  BY <1>0, <1>6 DEF SendDatagram, InLoop, Last
<1>7. CASE SendRequest
  <2>1. mpc = "loop" /\ UNCHANGED test
    BY <1>7 DEF SendRequest, InLoop
  <2>2. CASE mpc' = "requesting" /\ counter' = counter
    BY <1>0, <2>1, <2>2 DEF Last
  <2>3. CASE mpc' = "loop" /\ counter' = counter + 1
    BY <1>0, <2>1, <2>3 DEF Last
  <2> QED BY <1>7, <2>1, <2>2, <2>3 DEF SendRequest
<1>8. CASE RequestReturns
  BY <1>0, <1>8 DEF RequestReturns, Last
<1>9. CASE CloseAndReturn
  BY <1>0, <1>9 DEF CloseAndReturn, TestReturns, Last
<1> QED
  BY <1>1, <1>2, <1>3, <1>4, <1>5, <1>6, <1>7, <1>8, <1>9
  DEF Next, MainStep, WorkerStep, Main, vars

\* A step after which no more is to be handled than before.
LEMMA NumbersQuiet ==
    ASSUME ControlInv, ControlInv', NumbersInv, [Next]_vars,
           UNCHANGED <<queue, handled>>,
           wpc' = "process" => wpc = "process" /\ UNCHANGED msg
    PROVE  NumbersInv'
<1>1. \A i \in ToDoPositions' : i \in ToDoPositions /\ ToDo(i)' = ToDo(i)
  <2>1. DOMAIN queue' = DOMAIN queue /\ \A i \in DOMAIN queue : i # 0
    BY ToDoFacts
  <2> QED BY <2>1 DEF ToDoPositions, ToDo
<1>2. \A i \in ToDoPositions : /\ ToDo(i).client \in Clients
                               /\ ToDo(i).data.n \in 0..MaxSends
  BY ToDoFacts, NumberTypes
<1>3. \A c \in Clients : /\ Last(c) \in Nat /\ Last(c)' \in Nat
                         /\ handled[c] \in Nat /\ Last(c) <= Last(c)'
  <2>1. (\A c \in Clients : Last(c) \in 0..MaxSends)'
    BY LastType, PTL
  <2> QED BY <2>1, NumberTypes, LastGrows
<1>4. HandledIsSent'
  BY <1>3 DEF NumbersInv, HandledIsSent
<1>5. ToDoIsSent'
  BY <1>1, <1>2, <1>3 DEF NumbersInv, ToDoIsSent, Counts
<1>6. ToDoIncreases'
  BY <1>1 DEF NumbersInv, ToDoIncreases, Counts
<1> QED BY <1>4, <1>5, <1>6 DEF NumbersInv

LEMMA NumbersReceive ==
    ASSUME ControlInv, NumbersInv, wpc = "receive", queue # <<>>,
           queue' = Tail(queue), msg' = Head(queue), wpc' = "process",
           UNCHANGED <<handled, cliVars>>
    PROVE  NumbersInv'
<1>1. \A c \in Clients : Last(c)' = Last(c)
  BY DEF cliVars, Last
<1>2. HandledIsSent'
  BY <1>1 DEF NumbersInv, HandledIsSent
<1>3. ToDoIsSent'
  <2>1. \A i \in ToDoPositions : ToDo(i).client \in Clients
    BY ToDoFacts, NumberTypes
  <2> QED BY <1>1, <2>1, ToDoReceive DEF NumbersInv, ToDoIsSent, Counts
<1>4. ToDoIncreases'
  <2> SUFFICES ASSUME NEW i \in ToDoPositions', NEW j \in ToDoPositions', i < j,
                      Counts(ToDo(i)'), Counts(ToDo(j)'),
                      ToDo(i)'.client = ToDo(j)'.client
               PROVE  ToDo(i)'.data.n < ToDo(j)'.data.n
    BY DEF ToDoIncreases, Counts
  <2>1. i + 1 < j + 1
    BY ToDoReceive
  <2> QED BY <2>1, ToDoReceive DEF NumbersInv, ToDoIncreases
<1> QED BY <1>2, <1>3, <1>4 DEF NumbersInv

\* The counter in hand is handed to OnAlpcRequest or OnAlpcDatagram.
LEMMA NumbersHand ==
    ASSUME ControlInv, NumbersInv, wpc = "process", Counts(msg), Hand,
           wpc' # "process", UNCHANGED <<queue, cliVars>>
    PROVE  /\ NumbersInv'
           /\ handled'[msg.client] > handled[msg.client]
<1>0. /\ handled \in [Clients -> 0..MaxSends] /\ MaxSends \in Nat
      /\ 0 \in ToDoPositions /\ ToDo(0) = msg /\ msg \in Message
      /\ msg.client \in Clients /\ msg.data.n \in 0..MaxSends
  BY ToDoFacts, NumberTypes DEF ControlInv, HeapInv
<1>1. /\ handled[msg.client] < msg.data.n
      /\ msg.data.n <= Last(msg.client)
  BY <1>0 DEF NumbersInv, ToDoIsSent
<1>2. \A c \in Clients :
        handled'[c] = IF c = msg.client THEN msg.data.n ELSE handled[c]
  BY <1>0 DEF Hand
<1>3. \A c \in Clients : Last(c)' = Last(c)
  BY DEF cliVars, Last
<1>4. \A i \in ToDoPositions' : /\ i \in ToDoPositions /\ i > 0
                                /\ ToDo(i)' = ToDo(i)
                                /\ ToDo(i).client \in Clients
  <2>1. ToDoPositions' = DOMAIN queue
    BY DEF ToDoPositions
  <2>2. \A i \in DOMAIN queue : i > 0 /\ ToDo(i)' = queue[i]
    BY ToDoFacts DEF ToDo
  <2> QED BY <2>1, <2>2, ToDoFacts, NumberTypes
<1>5. HandledIsSent'
  BY <1>1, <1>2, <1>3 DEF NumbersInv, HandledIsSent
<1>6. ToDoIsSent'
  BY <1>0, <1>2, <1>3, <1>4 DEF NumbersInv, ToDoIsSent, ToDoIncreases, Counts
<1>7. ToDoIncreases'
  BY <1>4 DEF NumbersInv, ToDoIncreases, Counts
<1> QED BY <1>0, <1>1, <1>2, <1>5, <1>6, <1>7 DEF NumbersInv

\* A message of main joins the queue; its counter, if it has one, is new.
LEMMA NumbersJoin ==
    ASSUME ControlInv, ControlInv', NumbersInv, [Next]_vars, NEW m \in Message,
           queue' = Append(queue, m), UNCHANGED <<wpc, msg, handled>>,
           Counts(m) => /\ Last(m.client) < m.data.n
                        /\ m.data.n <= Last(m.client)'
    PROVE  NumbersInv'
<1>1. \A i \in ToDoPositions : /\ ToDo(i).client \in Clients
                               /\ ToDo(i).data.n \in Nat
  BY ToDoFacts, NumberTypes
<1>2. \A c \in Clients : /\ Last(c) \in Nat /\ Last(c)' \in Nat
                         /\ handled[c] \in Nat /\ Last(c) <= Last(c)'
  <2>1. (\A c \in Clients : Last(c) \in 0..MaxSends)'
    BY LastType, PTL
  <2> QED BY <2>1, NumberTypes, LastGrows
<1>3. m.client \in Clients /\ m.data.n \in Nat
  BY NumberTypes
<1>4. HandledIsSent'
  BY <1>2 DEF NumbersInv, HandledIsSent
<1>5. ToDoIsSent'
  BY <1>1, <1>2, <1>3, ToDoJoin
  DEF NumbersInv, HandledIsSent, ToDoIsSent, Counts
<1>6. ToDoIncreases'
  <2> SUFFICES ASSUME NEW i \in ToDoPositions', NEW j \in ToDoPositions', i < j,
                      Counts(ToDo(i)'), Counts(ToDo(j)'),
                      ToDo(i)'.client = ToDo(j)'.client
               PROVE  ToDo(i)'.data.n < ToDo(j)'.data.n
    BY DEF ToDoIncreases, Counts
  <2>1. i \in ToDoPositions
    BY ToDoJoin
  <2>2. CASE j \in ToDoPositions
    BY <2>1, <2>2, ToDoJoin DEF NumbersInv, ToDoIncreases
  <2>3. CASE j \notin ToDoPositions
    <3>1. ToDo(j)' = m /\ ToDo(i)' = ToDo(i)
      BY <2>1, <2>3, ToDoJoin
    <3>2. ToDo(i).data.n <= Last(m.client)
      BY <2>1, <3>1 DEF NumbersInv, ToDoIsSent
    <3> QED BY <1>1, <1>2, <1>3, <2>1, <3>1, <3>2
  <2> QED BY <2>2, <2>3
<1> QED BY <1>4, <1>5, <1>6 DEF NumbersInv

-----------------------------------------------------------------------------
LEMMA NumbersInit == Init => NumbersInv
<1> SUFFICES ASSUME Init PROVE NumbersInv
  OBVIOUS
<1>1. ToDoPositions = {}
  BY DEF Init, PortInit, SrvInit, ToDoPositions
<1>2. HandledIsSent
  BY PortAssumption, TestsAssumption
  DEF Init, SrvInit, CliInit, Last, HandledIsSent
<1> QED BY <1>1, <1>2 DEF NumbersInv, ToDoIsSent, ToDoIncreases

\* The worker hands a counter over once, and only with its message.
HandsInOrder ==
    \A c \in Clients :
      IF wpc = "process" /\ wpc' # wpc
           /\ msg.client = c /\ msg.type \in {"REQUEST", "DATAGRAM"}
        THEN handled'[c] > handled[c]
        ELSE handled'[c] = handled[c]

LEMMA NumbersWorker ==
    ASSUME ControlInv, ControlInv', NumbersInv, WorkerStep
    PROVE  NumbersInv' /\ HandsInOrder
<1>0. UNCHANGED cliVars /\ [Next]_vars
  BY DEF WorkerStep, Next
<1> USE DEF GoTo, Exit, Leave, Returns
<1>1. CASE OnAlpcRequest \/ OnAlpcDatagram
  <2>1. /\ wpc = "process" /\ Counts(msg) /\ Hand
        /\ wpc' # "process" /\ UNCHANGED queue
    BY <1>1
    DEF OnAlpcRequest, OnAlpcDatagram, Processing, Counts, Reply, SysReply,
        SysCancel, portVars
  <2>2. \A c \in Clients : c # msg.client => handled'[c] = handled[c]
    BY <2>1, NumberTypes DEF Hand
  <2>3. NumbersInv' /\ handled'[msg.client] > handled[msg.client]
    BY <1>0, <2>1, NumbersHand
  <2> QED BY <2>1, <2>2, <2>3 DEF HandsInOrder, Counts
<1>2. CASE Receive
  <2>1. wpc = "receive" /\ queue # <<>> /\ UNCHANGED handled
    BY <1>2 DEF Receive
  <2>2. CASE SysReceive /\ msg' = Head(queue) /\ wpc' = "process"
    BY <1>0, <2>1, <2>2, NumbersReceive DEF SysReceive, HandsInOrder
  <2>3. CASE Exit /\ UNCHANGED <<msg, portVars>>
    BY <1>0, <2>1, <2>3, NumbersQuiet DEF portVars, HandsInOrder
  <2> QED BY <1>2, <2>2, <2>3 DEF Receive
<1>3. CASE Prepare \/ ReceiveFails \/ OnAlpcDisconnection \/ OnAlpcConnection
             \/ OnAlpcConnectionAccepts \/ OnAlpcConnectionRejects
  <2>1. /\ UNCHANGED <<queue, handled>> /\ wpc' # "process"
        /\ wpc = "process" => ~Counts(msg)
    BY <1>3
    DEF Prepare, AllocateAttributes, InitializeAttributes,
        AllocateMessage, ReceiveFails, AfterFailedReceive,
        OnAlpcDisconnection, OnAlpcConnection, WithoutMemory, Processing,
        OnAlpcConnectionAccepts, SysAccept, OnAlpcConnectionRejects, SysReject,
        Counts, loopVars, portVars
  <2> QED BY <1>0, <2>1, NumbersQuiet DEF HandsInOrder, Counts
<1> QED
  BY <1>1, <1>2, <1>3 DEF WorkerStep, SrvServerWorker, SrvProcessMessage

LEMMA NumbersMain ==
    ASSUME ControlInv, ControlInv', NumbersInv, Main, UNCHANGED srvVars
    PROVE  NumbersInv'
<1>0. UNCHANGED <<wpc, msg, handled>> /\ [Next]_vars
  BY DEF srvVars, Next, MainStep
<1>1. /\ test \in Clients /\ counter \in 0..MaxSends /\ MaxSends \in Nat
      /\ mpc = "connect" => port = "open"
      /\ mpc = "loop" => conn[test] = "open" /\ port = "open"
      /\ Clients = {DatagramTest, SyncTest} /\ DatagramTest # SyncTest
  BY PortAssumption, TestsAssumption
  DEF ControlInv, TypeOK, CliTypeOK, CallInv, CallOK, InitInv
<1>2. CASE ChannelInitialized \/ AllocateMessageOfTest \/ ConnectReturns
             \/ RequestReturns
  BY <1>0, <1>2, NumbersQuiet
  DEF ChannelInitialized, AllocateMessageOfTest, ConnectReturns, RequestReturns,
      SysReturn, portVars
<1>3. CASE Connect
  <2>1. PICK m \in Message :
          /\ m = Msg("CONNECTION_REQUEST", test, NoData(test), FALSE)
          /\ m.type = "CONNECTION_REQUEST"
    BY <1>1, MessageTypes DEF Types, Msg
  <2>2. queue' = Append(queue, m)
    BY <1>1, <1>3, <2>1 DEF Connect, SysConnect
  <2> QED BY <1>0, <2>1, <2>2, NumbersJoin DEF Counts
<1>4. CASE SendDatagram \/ SendRequest
  <2>1. mpc = "loop" /\ counter + 1 \in 0..MaxSends
    BY <1>1, <1>4 DEF SendDatagram, SendRequest, InLoop, LoopGoesOn
  <2>2. CounterMessage \in Data /\ CounterMessage.n = counter + 1
    BY <1>1, <2>1 DEF CounterMessage, Data
  <2>3. \A c : c = test => Last(c) = counter
    BY <2>1 DEF Last
  <2>4. \A c : c = test => Last(c)' = counter + 1
    BY <1>1, <1>4, <2>1 DEF SendDatagram, SendRequest, Last
  <2>5. CASE UNCHANGED portVars
    BY <1>0, <2>5, NumbersQuiet DEF portVars
  <2>6. ASSUME NEW m \in Message, m.client = test, m.data = CounterMessage,
               queue' = Append(queue, m)
        PROVE  NumbersInv'
    <3>1. Last(m.client) < m.data.n /\ m.data.n <= Last(m.client)'
      BY <1>1, <2>2, <2>3, <2>4, <2>6
    <3> QED BY <1>0, <2>6, <3>1, NumbersJoin
  <2>7. ASSUME NEW k \in BOOLEAN, SysDatagram(test, CounterMessage, k)
        PROVE  NumbersInv'
    <3> DEFINE m == Msg("DATAGRAM", test, CounterMessage, k)
    <3>1. m \in Message /\ m.client = test /\ m.data = CounterMessage
      BY <1>1, <2>2, MessageTypes DEF Types, Msg
    <3>2. queue' = Append(queue, m)
      BY <1>1, <2>1, <2>7 DEF SysDatagram, CanSend
    <3> HIDE DEF m
    <3> QED BY <2>6, <3>1, <3>2
  <2>8. CASE SysRequest(test, CounterMessage)
    <3> DEFINE m == Msg("REQUEST", test, CounterMessage, FALSE)
    <3>1. m \in Message /\ m.client = test /\ m.data = CounterMessage
      BY <1>1, <2>2, MessageTypes DEF Types, Msg
    <3>2. queue' = Append(queue, m)
      BY <1>1, <2>1, <2>8 DEF SysRequest, CanSend
    <3> HIDE DEF m
    <3> QED BY <2>6, <3>1, <3>2
  <2> QED BY <1>4, <2>5, <2>7, <2>8 DEF SendDatagram, SendRequest
<1>5. CASE CloseAndReturn
  <2>1. PICK m \in Message :
          m = Notice("PORT_CLOSED", test) /\ m.type = "PORT_CLOSED"
    BY <1>1, MessageTypes DEF Types, Notice, Msg
  <2>2. queue' = queue \o <<m>>
    BY <1>1, <1>5, <2>1 DEF CloseAndReturn, Close, SysHangup, CanSend
  <2>3. queue' = Append(queue, m)
    BY <2>1, <2>2 DEF ControlInv, TypeOK, PortTypeOK
  <2> QED BY <1>0, <2>1, <2>3, NumbersJoin DEF Counts
<1> QED BY <1>2, <1>3, <1>4, <1>5 DEF Main

\* No message is left when the port is closed again for want of a worker.
LEMMA NumbersInitialize ==
    ASSUME ControlInv, ControlInv', NumbersInv, SrvInitializeChannel,
           UNCHANGED cliVars
    PROVE  NumbersInv' /\ HandsInOrder
<1>0. /\ [Next]_vars /\ wpc = "none" /\ wpc' # "process"
      /\ UNCHANGED handled
  BY DEF Next, MainStep, SrvInitializeChannel, CreatePort, CreateThread,
         loopVars, ControlInv, InitInv
<1>1. CASE UNCHANGED queue
  BY <1>0, <1>1, NumbersQuiet DEF HandsInOrder
<1>2. CASE queue' = <<>>
  <2>1. ToDoPositions' = {}
    BY <1>0, <1>2 DEF ToDoPositions
  <2>2. \A c \in Clients : Last(c)' = Last(c)
    BY DEF cliVars, Last
  <2>3. HandledIsSent'
    BY <1>0, <2>2 DEF NumbersInv, HandledIsSent
  <2> QED
    BY <1>0, <2>1, <2>3
    DEF NumbersInv, ToDoIsSent, ToDoIncreases, HandsInOrder
<1> QED
  BY <1>1, <1>2
  DEF SrvInitializeChannel, CreatePort, SysCreatePort, CreateThread,
      WithoutThread, SysClosePort, portVars

LEMMA NumbersStep ==
    ControlInv /\ ControlInv' /\ NumbersInv /\ [Next]_vars =>
      NumbersInv' /\ (HandsInOrder \/ UNCHANGED vars)
<1> SUFFICES ASSUME ControlInv, ControlInv', NumbersInv, [Next]_vars
             PROVE  NumbersInv' /\ (HandsInOrder \/ UNCHANGED vars)
  OBVIOUS
<1>1. CASE UNCHANGED vars
  BY <1>1, NumbersQuiet DEF vars, portVars, srvVars
<1>2. CASE Main /\ UNCHANGED srvVars
  <2>1. HandsInOrder
    BY <1>2 DEF srvVars, HandsInOrder
  <2> QED BY <1>2, <2>1, NumbersMain
<1> QED
  BY <1>1, <1>2, NumbersWorker, NumbersInitialize DEF Next, MainStep

\* The counters of a test are handed over in the order sent and none twice,
\* however many sends failed in between.
THEOREM CountersArriveInOrder == Spec => CountersInOrder
<1>1. ControlInv /\ ControlInv' /\ NumbersInv /\ [Next]_vars =>
        NumbersInv' /\ [HandsInOrder]_vars
  BY NumbersStep
<1> QED
  BY <1>1, ControlInit, NumbersInit, ControlStep, PTL
  DEF Spec, CountersInOrder, HandsInOrder
=============================================================================
