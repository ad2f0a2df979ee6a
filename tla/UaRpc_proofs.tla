----------------------------- MODULE UaRpc_proofs -----------------------------
(***************************************************************************)
(* UaSystem implements RpcService, for any number of clients and sends.    *)
(***************************************************************************)
EXTENDS UaRpc, UaSystem_proofs

-----------------------------------------------------------------------------
(***************************************************************************)
(* How a step moves the numbers of the sends that are still to be handled. *)
(***************************************************************************)

\* No send is handled and none made.
LEMMA GapSame ==
    ASSUME PortTypeOK, NoGap, LastSent, UNCHANGED <<queue, handled, sends>>,
           wpc' = wpc \/ wpc' # "process", wpc' = "process" => UNCHANGED msg,
           wpc = "process" /\ wpc' # "process" => msg.type \notin Sends,
           port' = "open" =>
             \A c \in Clients : conn'[c] = "open" =>
               \/ port = "open" /\ conn[c] = "open"
               \/ sends[c] = handled[c]
    PROVE  NoGap' /\ LastSent'
<1>1. /\ ToDoPositions' \subseteq ToDoPositions
      /\ \A i \in ToDoPositions' : ToDo(i)' = ToDo(i)
      /\ wpc' = wpc => ToDoPositions' = ToDoPositions
      /\ ToDoPositions \ ToDoPositions' \subseteq {0}
  BY ToDoSame
<1>2. 0 \in ToDoPositions => wpc = "process" /\ ToDo(0) = msg
  BY DEF ToDoPositions, ToDo, PortTypeOK
<1>3. \A i, c, n : IsSend(i, c, n)' <=> IsSend(i, c, n)
  BY <1>1, <1>2 DEF IsSend
<1>4. NoGap'
  BY <1>1, <1>3 DEF NoGap, IsSend
<1>5. LastSent'
  BY <1>1, <1>3 DEF LastSent, IsSend
<1> QED BY <1>4, <1>5

LEMMA GapReceive ==
    ASSUME PortTypeOK, NoGap, LastSent, wpc = "waiting", Receive,
           UNCHANGED clientVars
    PROVE  NoGap' /\ LastSent'
<1>1. /\ \A i \in ToDoPositions' :
           i + 1 \in ToDoPositions /\ ToDo(i)' = ToDo(i + 1)
      /\ \A i \in ToDoPositions :
           /\ i \in Nat \ {0}
           /\ i - 1 \in ToDoPositions'
           /\ ToDo(i - 1)' = ToDo(i)
  BY ToDoReceive
<1>2. \A i \in ToDoPositions' : i \in Nat
  BY DEF ToDoPositions, PortTypeOK, Receive, SysReceive
<1>3. UNCHANGED <<port, conn, handled, sends>>
  BY DEF Receive, SysReceive, clientVars, clientState
<1>4. /\ \A i \in ToDoPositions' :
           \A c, n : IsSend(i, c, n)' => IsSend(i + 1, c, n)
      /\ \A i \in ToDoPositions :
           \A c, n, j : IsSend(i, c, n) /\ j = i - 1 => IsSend(j, c, n)'
  BY <1>1 DEF IsSend
<1>5. NoGap'
  <2> SUFFICES ASSUME NEW i \in ToDoPositions', NEW c \in Clients,
                      NEW n \in 0..MaxSends, IsSend(i, c, n)',
                      n # handled[c] + 1
               PROVE  \E j \in ToDoPositions' : j < i /\ IsSend(j, c, n - 1)'
    BY <1>3 DEF NoGap
  <2>1. PICK j \in ToDoPositions : j < i + 1 /\ IsSend(j, c, n - 1)
    BY <1>1, <1>4 DEF NoGap
  <2>2. PICK k \in ToDoPositions' : k = j - 1
    BY <1>1
  <2>3. k < i
    BY <1>1, <1>2, <2>1, <2>2
  <2> QED BY <1>4, <2>1, <2>2, <2>3
<1>6. LastSent'
  BY <1>1, <1>3, <1>4 DEF LastSent
<1> QED BY <1>5, <1>6

\* A callback is given a send: it was the next.
LEMMA GapHand ==
    ASSUME CoreInv, WorkInv, NoGap, LastSent,
           wpc = "process", wpc' # "process", msg.type \in Sends,
           handled' = [handled EXCEPT ![msg.client] = msg.data.n],
           UNCHANGED <<port, queue, conn, clientVars>>
    PROVE  /\ NoGap' /\ LastSent'
           /\ msg.data.n = handled[msg.client] + 1
<1> USE DEF CoreInv, TypeOK
<1> DEFINE d == msg.client
           m == msg.data.n
<1>1. /\ msg \in Message /\ d \in Clients /\ m \in 0..MaxSends
      /\ MessageOK(msg) /\ \A j \in DOMAIN queue : InOrder(msg, queue[j])
  BY MessageFacts, MessageFields DEF MessageInHand, InHand, WorkInv
<1>2. /\ handled[d] \in Nat /\ m \in Nat /\ sends[d] \in Nat
      /\ m <= sends[d] /\ m > handled[d]
      /\ handled'[d] = m
      /\ \A c \in Clients : c # d => handled'[c] = handled[c]
  <2>1. handled \in [Clients -> 0..MaxSends] /\ sends \in [Clients -> 0..MaxSends]
    BY DEF ServerTypeOK, ClientTypeOK
  <2>2. m > handled[d] /\ m <= sends[d]
    BY <1>1 DEF MessageOK
  <2> QED BY <1>1, <2>1, <2>2, PortAssumption
<1>3. /\ ToDoPositions = DOMAIN queue \cup {0} /\ ToDoPositions' = DOMAIN queue
      /\ 0 \notin DOMAIN queue /\ ToDo(0) = msg
      /\ \A i \in DOMAIN queue : /\ i \in Nat /\ i > 0 /\ ToDo(i) = queue[i]
                                 /\ ToDo(i)' = ToDo(i)
  BY DEF ToDoPositions, ToDo, PortTypeOK
<1>4. IsSend(0, d, m) /\ \A c, n : IsSend(0, c, n) => c = d /\ n = m
  BY <1>3 DEF IsSend
<1>5. \A i, c, n : IsSend(i, c, n)' <=> IsSend(i, c, n) /\ i # 0
  BY <1>3 DEF IsSend
<1>6. m = handled[d] + 1
  BY <1>1, <1>3, <1>4 DEF NoGap
<1> HIDE DEF d, m
<1>7. NoGap'
  <2> SUFFICES ASSUME NEW i \in ToDoPositions', NEW c \in Clients,
                      NEW n \in 0..MaxSends, IsSend(i, c, n)'
               PROVE  \/ n = handled'[c] + 1
                      \/ \E j \in ToDoPositions' : j < i /\ IsSend(j, c, n - 1)'
    BY DEF NoGap
  <2>1. IsSend(i, c, n) /\ i \in DOMAIN queue
    BY <1>3, <1>5
  <2>2. \/ n = handled[c] + 1
        \/ \E j \in ToDoPositions : j < i /\ IsSend(j, c, n - 1)
    BY <1>3, <2>1 DEF NoGap
  <2>3. CASE c # d
    BY <1>2, <1>3, <1>4, <1>5, <2>2, <2>3
  <2>4. CASE c = d
    <3>1. n > m
      BY <1>1, <1>3, <2>1, <2>4 DEF IsSend, InOrder, d, m
    <3>2. PICK j \in ToDoPositions : j < i /\ IsSend(j, c, n - 1)
      BY <1>2, <1>6, <2>2, <2>4, <3>1
    <3>3. CASE j = 0
      BY <1>2, <1>4, <2>4, <3>2, <3>3
    <3>4. CASE j # 0
      BY <1>3, <1>5, <3>2, <3>4
    <3> QED BY <3>3, <3>4
  <2> QED BY <2>3, <2>4
<1>8. LastSent'
  <2> SUFFICES ASSUME port = "open", NEW c \in Clients, conn[c] = "open",
                      NEW n, n = sends[c], n # handled'[c]
               PROVE  \E i \in ToDoPositions' : IsSend(i, c, n)'
    BY DEF LastSent, clientVars
  <2>1. n = handled[c] \/ \E i \in ToDoPositions : IsSend(i, c, n)
    BY DEF LastSent
  <2>2. n # handled[c]
    BY <1>2, <1>6
  <2>3. PICK i \in ToDoPositions : IsSend(i, c, n)
    BY <2>1, <2>2
  <2>4. i # 0
    BY <1>2, <1>4, <2>3
  <2> QED BY <1>3, <1>5, <2>3, <2>4
<1> QED BY <1>6, <1>7, <1>8 DEF d, m

\* The port is closed: at most the message in hand is left.
LEMMA GapClose ==
    ASSUME PortTypeOK, NoGap, port' # "open", queue' = <<>>, wpc' = wpc,
           wpc = "process" => UNCHANGED msg, UNCHANGED <<handled, sends>>
    PROVE  NoGap' /\ LastSent'
<1>1. /\ ToDoPositions' \subseteq ToDoPositions \cap {0}
      /\ \A i \in ToDoPositions' : ToDo(i)' = ToDo(i)
      /\ \A i \in ToDoPositions : i \in Nat
  BY DEF ToDoPositions, ToDo, PortTypeOK
<1>2. NoGap'
  <2> SUFFICES ASSUME NEW i \in ToDoPositions', NEW c \in Clients,
                      NEW n \in 0..MaxSends, IsSend(i, c, n)'
               PROVE  n = handled[c] + 1
    BY DEF NoGap
  <2>1. i = 0 /\ i \in ToDoPositions /\ IsSend(i, c, n)
    BY <1>1 DEF IsSend
  <2> QED BY <1>1, <2>1 DEF NoGap
<1> QED BY <1>2 DEF LastSent

\* Messages that are no sends join.
LEMMA GapJoin ==
    ASSUME PortTypeOK, NoGap, LastSent,
           NEW s \in Seq(Message), queue' = queue \o s,
           \A k \in 1..Len(s) : s[k].type \notin Sends,
           UNCHANGED <<wpc, msg, handled, sends, port>>,
           \A c \in Clients : conn'[c] = "open" => conn[c] = "open"
    PROVE  NoGap' /\ LastSent'
<1>1. /\ \A i \in ToDoPositions : i \in ToDoPositions' /\ ToDo(i)' = ToDo(i)
      /\ \A i \in ToDoPositions' :
           \/ i \in ToDoPositions
           \/ /\ i - Len(queue) \in 1..Len(s)
              /\ ToDo(i)' = s[i - Len(queue)]
  BY ToDoJoin
<1>2. \A i, c, n : IsSend(i, c, n)' <=> IsSend(i, c, n)
  BY <1>1 DEF IsSend
<1>3. NoGap'
  BY <1>1, <1>2 DEF NoGap, IsSend
<1>4. LastSent'
  BY <1>1, <1>2 DEF LastSent
<1> QED BY <1>3, <1>4

\* A send joins: it is the next after the last.
LEMMA GapSend ==
    ASSUME CoreInv, WorkInv, NoGap, LastSent, NEW c \in Clients, CanSend(c),
           NEW m \in Message, queue' = Append(queue, m),
           m.type \in Sends, m.client = c, m.data.n = sends[c] + 1,
           sends' = [sends EXCEPT ![c] = @ + 1],
           UNCHANGED <<wpc, msg, handled, port, conn>>
    PROVE  NoGap' /\ LastSent'
<1>0. PortTypeOK /\ sends \in [Clients -> 0..MaxSends] /\ sends[c] \in Nat
  BY PortAssumption DEF CoreInv, TypeOK, ClientTypeOK
<1> DEFINE s == <<m>>
<1>1. /\ s \in Seq(Message) /\ queue' = queue \o s
      /\ Len(s) = 1 /\ 1..Len(s) = {1} /\ s[1] = m
  BY <1>0, OneJoins
<1> HIDE DEF s
<1>2. /\ \A i \in ToDoPositions :
           /\ i \in ToDoPositions' /\ ToDo(i)' = ToDo(i)
           /\ i \in Nat /\ i <= Len(queue)
      /\ \A i \in ToDoPositions' :
           i \in ToDoPositions \/ (i \in Nat /\ i > Len(queue) /\ ToDo(i)' = m)
      /\ \E i \in ToDoPositions' : ToDo(i)' = m
  <2>1. /\ \A i \in ToDoPositions' :
             \/ i \in ToDoPositions
             \/ /\ i \in Nat /\ i > Len(queue)
                /\ i - Len(queue) \in 1..Len(s)
                /\ ToDo(i)' = s[i - Len(queue)]
        /\ \A i \in ToDoPositions :
             /\ i \in ToDoPositions' /\ ToDo(i)' = ToDo(i)
             /\ i \in Nat /\ i <= Len(queue)
    BY <1>0, <1>1, ToDoJoin
  <2>2. \E i \in ToDoPositions' : ToDo(i)' = m
    BY <1>0, OneJoins
  <2> QED BY <1>1, <2>1, <2>2
<1>3. Len(queue) \in Nat
  BY <1>0 DEF PortTypeOK
<1>4. \/ sends[c] = handled[c]
      \/ \E i \in ToDoPositions : IsSend(i, c, sends[c])
  BY DEF LastSent, CanSend
<1>5. \A i \in ToDoPositions : \A d, n : IsSend(i, d, n) <=> IsSend(i, d, n)'
  BY <1>2 DEF IsSend
<1>6. NoGap'
  <2> SUFFICES ASSUME NEW i \in ToDoPositions', NEW d \in Clients,
                      NEW n \in 0..MaxSends, IsSend(i, d, n)'
               PROVE  \/ n = handled[d] + 1
                      \/ \E j \in ToDoPositions' : j < i /\ IsSend(j, d, n - 1)'
    BY DEF NoGap
  <2>1. CASE i \in ToDoPositions
    BY <1>2, <1>5, <2>1 DEF NoGap
  <2>2. CASE i \notin ToDoPositions
    <3>1. i \in Nat /\ i > Len(queue) /\ d = c /\ n = sends[c] + 1
      BY <1>2, <2>2 DEF IsSend
    <3>2. n - 1 = sends[c]
      BY <1>0, <3>1
    <3>3. \A j \in ToDoPositions : j < i
      BY <1>2, <1>3, <3>1
    <3> QED BY <1>2, <1>4, <1>5, <3>1, <3>2, <3>3
  <2> QED BY <2>1, <2>2
<1>7. LastSent'
  <2> SUFFICES ASSUME NEW d \in Clients, conn[d] = "open", port = "open",
                      NEW n, n = sends'[d], n # handled[d]
               PROVE  \E i \in ToDoPositions' : IsSend(i, d, n)'
    BY DEF LastSent
  <2>1. CASE d = c
    BY <1>0, <1>2, <2>1 DEF IsSend
  <2>2. CASE d # c
    <3>1. n = sends[d]
      BY <1>0, <2>2
    <3>2. \E i \in ToDoPositions : IsSend(i, d, n)
      BY <3>1 DEF LastSent
    <3> QED BY <1>2, <1>5, <3>2
  <2> QED BY <2>1, <2>2
<1> QED BY <1>6, <1>7

-----------------------------------------------------------------------------
(***************************************************************************)
(* The steps of the server.                                                *)
(***************************************************************************)
LEMMA HandRpcStep ==
    ASSUME CoreInv, WorkInv, RpcInv, UNCHANGED clientVars,
           UaAlpcRequest \/ UaAlpcDatagram
    PROVE  RpcInv' /\ Service!Serve(msg.client)
<1> USE DEF CoreInv, TypeOK
<1> DEFINE d == msg.client
<1>1. /\ wpc = "process" /\ wpc' # "process" /\ wpc' # "none"
      /\ msg.type \in Sends
      /\ handled' = [handled EXCEPT ![d] = msg.data.n]
      /\ UNCHANGED portVars
      /\ wpc' = "reply" => msg.type = "REQUEST" /\ msg'.client = d
  <2>1. /\ wpc = "process" /\ wpc' # "process" /\ msg.type \in Sends
        /\ handled' = [handled EXCEPT ![d] = msg.data.n]
    BY HandsOver
  <2>2. UNCHANGED portVars /\ wpc' # "none"
    BY DEF UaAlpcRequest, UaAlpcDatagram, GoTo, Returns, Exit
  <2>3. wpc' = "reply" => msg.type = "REQUEST" /\ msg'.client = d
    <3>1. CASE UaAlpcRequest
      <4>1. msg.type = "REQUEST" /\ msg' = [msg EXCEPT !.data.answered = TRUE]
        BY <3>1 DEF UaAlpcRequest, Processing
      <4>2. msg \in Message
        BY <2>1 DEF MessageInHand, InHand
      <4> QED BY <4>1, <4>2 DEF Message
    <3>2. CASE UaAlpcDatagram
      BY <3>2 DEF UaAlpcDatagram, GoTo, Returns, Exit
    <3> QED BY <3>1, <3>2
  <2> QED BY <2>1, <2>2, <2>3
<1>2. NoGap' /\ LastSent' /\ msg.data.n = handled[d] + 1
  BY <1>1, GapHand DEF RpcInv, portVars
<1>3. /\ msg \in Message /\ d \in Clients /\ MessageOK(msg)
  BY <1>1, MessageFacts, MessageFields DEF MessageInHand, InHand, WorkInv
<1>4. /\ handled \in [Clients -> 0..MaxSends] /\ sends \in [Clients -> 0..MaxSends]
      /\ handled[d] \in Nat /\ sends[d] \in Nat
      /\ handled[d] < sends[d]
  <2>1. /\ handled \in [Clients -> 0..MaxSends]
        /\ sends \in [Clients -> 0..MaxSends]
    BY DEF ServerTypeOK, ClientTypeOK
  <2>2. handled[d] \in Nat /\ sends[d] \in Nat
    BY <1>3, <2>1, PortAssumption
  <2>3. handled[d] + 1 <= sends[d]
    BY <1>1, <1>2, <1>3 DEF MessageOK
  <2> QED BY <2>1, <2>2, <2>3
<1>5. FreshInv'
  BY <1>1 DEF RpcInv, FreshInv, clientVars
<1>6. AnswerInv'
  <2>1. ASSUME wpc' = "reply", port = "open", conn[d] = "open"
        PROVE  handled'[d] = sends[d]
    <3>1. call[d] = "request" /\ msg.data = buf[d]
      BY <1>1, <1>3, <2>1 DEF MessageOK
    <3>2. cpc[d] = "requesting"
      BY <1>3, <3>1, BlockedFacts DEF PortTypeOK
    <3>3. buf[d] = [from |-> d, n |-> sends[d], answered |-> FALSE]
      BY <1>3, <3>2 DEF WorkInv, DataInv
    <3>4. buf[d].n = sends[d]
      BY <3>3
    <3> QED BY <1>1, <1>3, <1>4, <3>1, <3>4
  <2>2. ASSUME NEW c \in Clients, cpc[c] = "requesting", call[c] = "ok"
        PROVE  handled'[c] = sends[c]
    BY <1>1, <1>3, <1>4, <2>2 DEF RpcInv, AnswerInv
  <2> QED BY <1>1, <2>1, <2>2 DEF AnswerInv, portVars, clientVars
<1>7. Service!Serve(d)
  BY <1>1, <1>2, <1>4 DEF Service!Serve, Phase, Outcome, clientVars
<1> QED BY <1>2, <1>5, <1>6, <1>7 DEF RpcInv

\* A server step that neither hands over a send nor begins a reply.
LEMMA QuietRpcStep ==
    ASSUME CoreInv, WorkInv, RpcInv, UNCHANGED <<clientVars, queue, handled>>,
           wpc' = wpc \/ wpc' \notin {"process", "reply", "none"},
           wpc' \in {"process", "reply"} => UNCHANGED msg,
           wpc = "process" /\ wpc' # "process" => msg.type \notin Sends,
           wpc = "none" => UNCHANGED commHandles,
           UNCHANGED port \/ wpc' = "none",
           \A c \in Clients : conn'[c] = "open" =>
             conn[c] = "open" \/ cpc[c] \in {"idle", "connecting"},
           \A c \in Clients : cpc[c] = "requesting" /\ call'[c] = "ok" =>
             call[c] = "ok" \/ handled[c] = sends[c]
    PROVE  RpcInv'
<1> USE DEF CoreInv, TypeOK, RpcInv
<1>1. FreshInv'
  BY DEF FreshInv, clientVars
<1>2. \A c \in Clients :
        cpc[c] \in {"idle", "connecting"} => sends[c] = 0 /\ handled[c] = 0
  <2> SUFFICES ASSUME NEW c \in Clients, cpc[c] \in {"idle", "connecting"}
               PROVE  sends[c] = 0 /\ handled[c] = 0
    OBVIOUS
  <2>1. sends[c] = 0
    BY DEF FreshInv
  <2>2. handled[c] <= sends[c]
    BY DEF WorkInv, DataInv
  <2>3. handled[c] \in Nat
    BY PortAssumption DEF ServerTypeOK
  <2> QED BY <2>1, <2>2, <2>3
<1>3. wpc = "none" => \A c \in Clients : conn[c] # "open"
  BY DEF FreshInv, WorkInv, ConnInv
<1>4. AnswerInv'
  <2>1. wpc = "reply" => msg.client \in Clients
    BY MessageFields DEF MessageInHand, InHand
  <2>2. wpc = "reply" /\ port = "open" /\ conn'[msg.client] = "open" =>
          handled[msg.client] = sends[msg.client]
    BY <1>2, <2>1 DEF AnswerInv
  <2> QED BY <2>2 DEF AnswerInv, clientVars
<1>5. port' = "open" => \A c \in Clients : conn'[c] = "open" =>
        (port = "open" /\ conn[c] = "open") \/ sends[c] = handled[c]
  BY <1>2, <1>3
<1>6. NoGap' /\ LastSent'
  BY <1>5, GapSame DEF clientVars
<1> QED BY <1>1, <1>4, <1>6

LEMMA CloseRpcStep ==
    ASSUME CoreInv, WorkInv, RpcInv, SysClosePort, UNCHANGED workerVars,
           UNCHANGED clientVars, UNCHANGED msg \/ wpc = "none"
    PROVE  RpcInv'
<1> USE DEF CoreInv, TypeOK, RpcInv
<1>1. /\ port' = "closed" /\ queue' = <<>> /\ wpc' = wpc
      /\ UNCHANGED <<handled, sends, cpc, commHandles>>
      /\ \A c \in Clients : call'[c] = "ok" => call[c] = "ok"
  BY DEF SysClosePort, workerVars, clientVars, Blocked, PortTypeOK
<1>2. FreshInv' /\ AnswerInv'
  BY <1>1 DEF FreshInv, AnswerInv
<1>3. NoGap' /\ LastSent'
  BY <1>1, GapClose
<1> QED BY <1>2, <1>3

LEMMA OwnerRpcStep ==
    ASSUME CoreInv, WorkInv, RpcInv, UNCHANGED clientVars,
           \/ AllocateServer \/ UaCreateServer
           \/ TerminateClosesPort \/ TerminateFrees \/ ReuseHandle
    PROVE  RpcInv' /\ UNCHANGED handled
<1>1. CASE CreatePort
  <2>1. wpc = "none" /\ UNCHANGED <<queue, conn, call, workerVars>>
    BY <1>1
    DEF CreatePort, CoreInv, OwnerInv, SysCreatePort, CreateFails, portVars
  <2> QED BY <2>1, QuietRpcStep DEF workerVars
<1>2. CASE Cleanup
  <2>1. wpc = "none" /\ UNCHANGED workerVars
    BY <1>2 DEF Cleanup, CoreInv, OwnerInv
  <2>2. CASE hport # "unset"
    BY <1>2, <2>1, <2>2, CloseRpcStep DEF Cleanup, workerVars
  <2>3. CASE hport = "unset"
    BY <1>2, <2>1, <2>3, QuietRpcStep DEF Cleanup, portVars, workerVars
  <2> QED BY <2>2, <2>3
<1>3. CASE TerminateClosesPort
  BY <1>3, CloseRpcStep DEF TerminateClosesPort, workerVars
<1>4. CASE TerminateFrees
  <2>1. wpc = "exited" /\ UNCHANGED <<portVars, workerVars>>
    BY <1>4 DEF TerminateFrees, WorkerIsDone
  <2> QED BY <2>1, QuietRpcStep DEF portVars, workerVars
<1>5. CASE StartWorker
  <2>1. wpc = "none" /\ (wpc' = wpc \/ wpc' = "receive")
        /\ UNCHANGED <<portVars, msg, commHandles, handled>>
    BY <1>5
    DEF StartWorker, CoreInv, OwnerInv, CreateFails, workerVars
  <2> QED BY <2>1, QuietRpcStep DEF portVars
<1>6. CASE AllocateServer \/ AllocateAttributes \/ AllocateMessage \/ ReuseHandle
  <2>1. UNCHANGED <<portVars, msg, workerVars>>
    BY <1>6
    DEF AllocateServer, AllocateAttributes, AllocateMessage, ReuseHandle,
        Allocate, CreateFails
  <2> QED BY <2>1, QuietRpcStep DEF portVars, workerVars
<1> QED BY <1>1, <1>2, <1>3, <1>4, <1>5, <1>6 DEF UaCreateServer

LEMMA WorkerRpcStep ==
    ASSUME CoreInv, WorkInv, RpcInv, UNCHANGED clientVars,
           UaServerWorker \/ AstrayReceive \/ AstrayReceiveFails,
           ~(UaAlpcRequest \/ UaAlpcDatagram)
    PROVE  RpcInv' /\ UNCHANGED handled
<1>1. CASE Receive
  <2>1. /\ wpc = "waiting" /\ wpc' = "process"
        /\ UNCHANGED <<port, conn, call, commHandles, handled>>
    BY <1>1 DEF Receive, SysReceive, GoTo, clientState
  <2>2. NoGap' /\ LastSent'
    BY <1>1, <2>1, GapReceive DEF CoreInv, TypeOK, RpcInv
  <2> QED BY <2>1, <2>2 DEF RpcInv, FreshInv, AnswerInv, clientVars
<1>2. CASE \/ EnterReceive \/ ReceiveFails \/ ProcessOther
           \/ AstrayReceive \/ AstrayReceiveFails \/ UaProcessStray
  <2>1. /\ UNCHANGED <<portVars, commHandles, handled>>
        /\ wpc # "none" /\ wpc' \notin {"process", "reply", "none"}
        /\ wpc = "process" => msg.type \notin Sends
    BY <1>2
    DEF EnterReceive, ReceiveFails, AstrayReceive, AstrayReceiveFails,
        ProcessOther, UaProcessStray, ProcessStray, Processing,
        AfterFailedReceive, Returns, GoTo, Exit, Sends, clientState
  <2> QED BY <2>1, QuietRpcStep DEF portVars
<1>3. CASE UaAlpcRequestReplies
  <2>1. /\ wpc = "reply" /\ wpc' = "receive"
        /\ UNCHANGED <<port, queue, conn, msg, commHandles, handled>>
    BY <1>3
    DEF UaAlpcRequestReplies, LeftWaiting, ReplyStatus, Returns, GoTo, SysReply,
        portVars
  <2>2. msg.client \in Clients
    BY <2>1, MessageFields DEF CoreInv, MessageInHand, InHand
  <2>3. \A c \in Clients : call'[c] = "ok" =>
          call[c] = "ok" \/ (c = msg.client /\ call[c] = "request")
    BY <1>3, <2>2
    DEF UaAlpcRequestReplies, LeftWaiting, SysReply, portVars, CoreInv, TypeOK,
        PortTypeOK
  <2>4. call[msg.client] = "request" =>
          handled[msg.client] = sends[msg.client]
    BY <2>1, <2>2, BlockedFacts DEF RpcInv, AnswerInv
  <2> QED BY <2>1, <2>3, <2>4, QuietRpcStep
<1>4. CASE UaAlpcDatagramCancels \/ UaAlpcDisconnect \/ UaAlpcConnect
           \/ UaAlpcConnectRejects
  <2>1. /\ wpc # "none" /\ wpc' \notin {"process", "reply", "none"}
        /\ UNCHANGED <<port, queue, msg, handled>>
        /\ wpc = "process" => msg.type \notin Sends
    BY <1>4
    DEF UaAlpcDatagramCancels, UaAlpcDisconnect, UaAlpcConnect,
        UaAlpcConnectRejects, Processing, DisconnectTypes, WithoutContext,
        Returns, GoTo, Exit, SysCancel, SysReject, LeftWaiting, portVars, Sends,
        clientState
  <2>2. \A c \in Clients : /\ conn'[c] = "open" => conn[c] = "open"
                           /\ call'[c] = "ok" => call[c] = "ok"
    <3>1. CASE UaAlpcConnectRejects
      BY <3>1 DEF UaAlpcConnectRejects, SysReject, LeftWaiting, portVars,
                  CoreInv, TypeOK, PortTypeOK
    <3>2. CASE ~UaAlpcConnectRejects
      BY <1>4, <3>2
      DEF UaAlpcDatagramCancels, UaAlpcDisconnect, UaAlpcConnect, SysCancel,
          portVars
    <3> QED BY <3>1, <3>2
  <2> QED BY <2>1, <2>2, QuietRpcStep
<1>5. CASE UaAlpcConnectAccepts
  <2>1. /\ wpc = "accept" /\ wpc' \in {"receive", "reject"}
        /\ UNCHANGED <<port, queue, msg, handled>>
    BY <1>5 DEF UaAlpcConnectAccepts, Returns, GoTo, SysAccept, portVars
  <2>2. \A c \in Clients :
          /\ conn'[c] = "open" => conn[c] = "open" \/ cpc[c] = "connecting"
          /\ call'[c] = "ok" => call[c] = "ok" \/ cpc[c] = "connecting"
    BY <1>5, BlockedFacts
    DEF UaAlpcConnectAccepts, SysAccept, CanAccept, portVars, CoreInv, TypeOK,
        PortTypeOK
  <2> QED BY <2>1, <2>2, QuietRpcStep
<1> QED BY <1>1, <1>2, <1>3, <1>4, <1>5 DEF UaServerWorker, UaProcessMessage

-----------------------------------------------------------------------------
(***************************************************************************)
(* The steps of a client.                                                  *)
(***************************************************************************)

\* FreshInv and AnswerInv, whatever a client does.
LEMMA ClientRpcStep ==
    ASSUME CoreInv, WorkInv, RpcInv, NEW c \in Clients, UNCHANGED serverVars,
           UNCHANGED port,
           \A d \in Clients : d # c =>
             /\ conn'[d] = conn[d] /\ call'[d] = call[d]
             /\ cpc'[d] = cpc[d] /\ sends'[d] = sends[d],
           cpc'[c] \in {"idle", "connecting"} =>
             cpc[c] \in {"idle", "connecting"} /\ sends'[c] = sends[c],
           conn'[c] = "open" => conn[c] = "open" /\ call[c] # "request",
           cpc'[c] # "requesting" \/ call'[c] # "ok"
    PROVE  FreshInv' /\ AnswerInv'
<1> USE DEF CoreInv, TypeOK, RpcInv
<1>1. FreshInv'
  BY DEF FreshInv, serverVars
<1>2. wpc = "reply" => msg.client \in Clients
  BY MessageFields DEF MessageInHand, InHand
<1>3. wpc = "reply" /\ port = "open" /\ conn'[msg.client] = "open" =>
        handled[msg.client] = sends'[msg.client]
  BY <1>2 DEF AnswerInv, WorkInv, HandlerInv
<1>4. AnswerInv'
  BY <1>3 DEF AnswerInv, serverVars
<1> QED BY <1>1, <1>4

LEMMA EarlyRpcStep ==
    ASSUME CoreInv, WorkInv, RpcInv, NEW c \in Clients, UNCHANGED serverVars,
           cpc[c] \in {"idle", "connected"}, ReturnEarly(c)
    PROVE  RpcInv' /\ Service!Decline(c)
<1> USE DEF CoreInv, TypeOK, RpcInv
<1>1. UNCHANGED <<port, queue, conn, call, cpc, sends, wpc, msg, handled>>
  BY DEF ReturnEarly, portVars, serverVars
<1>2. call[c] = "idle"
  BY DEF CallInv, CallOK
<1>3. FreshInv' /\ AnswerInv'
  BY <1>1, <1>2, ClientRpcStep
<1>4. NoGap' /\ LastSent'
  BY <1>1, GapSame
<1>5. PICK r \in EarlyStatus : result' = [result EXCEPT ![c] = r]
  BY DEF ReturnEarly
<1>6. Outcome' = [Outcome EXCEPT ![c] = "declined"]
  BY <1>5 DEF Outcome, ClientTypeOK
<1>7. Phase' = [Phase EXCEPT ![c] = Phase[c]] /\ Phase[c] = cpc[c]
  BY <1>1 DEF Phase, ClientTypeOK
<1>8. Service!Decline(c)
  BY <1>1, <1>6, <1>7 DEF Service!Decline, Service!Becomes
<1> QED BY <1>3, <1>4, <1>8

\* A client's move from one place to another with a new result, as the service
\* sees it.
LEMMA Moves ==
    ASSUME ClientTypeOK, NEW c \in Clients, NEW to, NEW what,
           to \notin {"closed", "dead"}, what \notin EarlyStatus,
           cpc[c] \notin {"closed", "dead"},
           cpc' = [cpc EXCEPT ![c] = to], result' = [result EXCEPT ![c] = what]
    PROVE  Service!Becomes(c, cpc[c], to, what)
<1>1. Phase[c] = cpc[c] /\ Phase' = [Phase EXCEPT ![c] = to]
  BY DEF Phase, ClientTypeOK
<1>2. Outcome' = [Outcome EXCEPT ![c] = what]
  BY DEF Outcome, ClientTypeOK
<1> QED BY <1>1, <1>2 DEF Service!Becomes

LEMMA ConnectsRpcStep ==
    ASSUME CoreInv, WorkInv, RpcInv, NEW c \in Clients, UNCHANGED serverVars,
           UaConnectServer(c)
    PROVE  RpcInv' /\ (Service!Decline(c) \/ Service!Connect(c))
<1> USE DEF CoreInv, TypeOK, RpcInv
<1>1. /\ cpc[c] = "idle" /\ conn[c] = "none" /\ call[c] = "idle"
      /\ UNCHANGED <<wpc, msg, handled>>
  BY DEF UaConnectServer, CallInv, CallOK, serverVars
<1>2. CASE ReturnEarly(c)
  BY <1>1, <1>2, EarlyRpcStep
<1>3. CASE /\ SysConnect(c, NoData(c))
           /\ cpc' = [cpc EXCEPT ![c] = "connecting"]
           /\ result' = [result EXCEPT ![c] = "none"]
           /\ UNCHANGED <<buf, sends>>
  <2>1. /\ UNCHANGED <<port, sends>>
        /\ cpc'[c] = "connecting" /\ conn'[c] # "open"
        /\ \A d \in Clients : d # c =>
             conn'[d] = conn[d] /\ call'[d] = call[d] /\ cpc'[d] = cpc[d]
    BY <1>1, <1>3 DEF SysConnect, PortTypeOK, ClientTypeOK
  <2>2. FreshInv' /\ AnswerInv'
    BY <1>1, <2>1, ClientRpcStep
  <2>3. \A d \in Clients : conn'[d] = "open" => conn[d] = "open"
    BY <2>1
  <2>4. NoGap' /\ LastSent'
    <3>1. CASE port = "open"
      <4>1. PICK m \in Message : /\ queue' = Append(queue, m)
                                /\ m.type \notin Sends
        <5>1. PICK m \in Message :
                m = Msg("CONNECTION_REQUEST", c, NoData(c), FALSE)
          BY MessageTypes DEF Msg, Message, Types
        <5>2. m.type \notin Sends
          BY <5>1 DEF Msg, Sends
        <5>3. queue' = Append(queue, m)
          BY <1>3, <3>1, <5>1 DEF SysConnect
        <5> QED BY <5>2, <5>3
      <4> DEFINE s == <<m>>
      <4>2. /\ s \in Seq(Message) /\ queue' = queue \o s
            /\ \A k \in 1..Len(s) : s[k].type \notin Sends
        BY <1>1, <4>1, OneJoins
      <4> HIDE DEF s
      <4> QED BY <1>1, <2>1, <2>3, <4>2, GapJoin
    <3>2. CASE port # "open"
      BY <1>1, <1>3, <2>1, <2>3, <3>2, GapSame DEF SysConnect
    <3> QED BY <3>1, <3>2
  <2>5. Service!Connect(c)
    BY <1>1, <1>3, Moves DEF Service!Connect, EarlyStatus
  <2> QED BY <2>2, <2>4, <2>5
<1> QED BY <1>2, <1>3 DEF UaConnectServer

LEMMA ReturnsRpcStep ==
    ASSUME CoreInv, WorkInv, RpcInv, NEW c \in Clients, UNCHANGED serverVars,
           UaConnectServerReturns(c) \/ UaSendSynchronousRequestReturns(c)
    PROVE  RpcInv' /\ (Service!Connected(c) \/ Service!Answered(c))
<1> USE DEF CoreInv, TypeOK, RpcInv
<1>1. /\ UNCHANGED <<port, queue, conn, sends, wpc, msg, handled>>
      /\ call[c] \in {"ok", "fail"} /\ call'[c] = "idle"
      /\ cpc[c] \in {"connecting", "requesting"}
      /\ cpc'[c] \in {"connected", "idle"}
      /\ cpc'[c] = "idle" => cpc[c] = "connecting"
      /\ \A d \in Clients : d # c => call'[d] = call[d] /\ cpc'[d] = cpc[d]
  BY DEF UaConnectServerReturns, UaSendSynchronousRequestReturns, SysReturn,
         PortTypeOK, ClientTypeOK, serverVars
<1>2. FreshInv' /\ AnswerInv'
  BY <1>1, ClientRpcStep
<1>3. NoGap' /\ LastSent'
  BY <1>1, GapSame
<1>4. CASE UaConnectServerReturns(c)
  <2>1. CASE call[c] = "ok"
    <3>1. /\ cpc[c] = "connecting" /\ cpc' = [cpc EXCEPT ![c] = "connected"]
          /\ result' = [result EXCEPT ![c] = "connected"]
      BY <1>4, <2>1 DEF UaConnectServerReturns
    <3>2. Service!Becomes(c, "connecting", "connected", "connected")
      BY <3>1, Moves DEF EarlyStatus
    <3> QED BY <1>1, <1>2, <1>3, <3>2 DEF Service!Connected
  <2>2. CASE call[c] # "ok"
    <3>1. /\ cpc[c] = "connecting" /\ cpc' = [cpc EXCEPT ![c] = "idle"]
          /\ result' = [result EXCEPT ![c] = "refused"]
      BY <1>4, <2>2 DEF UaConnectServerReturns
    <3>2. Service!Becomes(c, "connecting", "idle", "refused")
      BY <3>1, Moves DEF EarlyStatus
    <3> QED BY <1>1, <1>2, <1>3, <3>2 DEF Service!Connected
  <2> QED BY <2>1, <2>2
<1>5. CASE UaSendSynchronousRequestReturns(c)
  <2>1. CASE call[c] = "ok"
    <3>1. /\ cpc[c] = "requesting" /\ cpc' = [cpc EXCEPT ![c] = "connected"]
          /\ result' = [result EXCEPT ![c] = "answered"]
      BY <1>5, <2>1 DEF UaSendSynchronousRequestReturns
    <3>2. Service!Becomes(c, "requesting", "connected", "answered")
      BY <3>1, Moves DEF EarlyStatus
    <3>3. handled[c] = sends[c]
      BY <1>5, <2>1, <3>1 DEF AnswerInv
    <3> QED BY <1>1, <1>2, <1>3, <3>2, <3>3 DEF Service!Answered
  <2>2. CASE call[c] # "ok"
    <3>1. /\ cpc[c] = "requesting" /\ cpc' = [cpc EXCEPT ![c] = "connected"]
          /\ result' = [result EXCEPT ![c] = "failed"]
      BY <1>5, <2>2 DEF UaSendSynchronousRequestReturns
    <3>2. Service!Becomes(c, "requesting", "connected", "failed")
      BY <3>1, Moves DEF EarlyStatus
    <3> QED BY <1>1, <1>2, <1>3, <3>2 DEF Service!Answered
  <2> QED BY <2>1, <2>2
<1> QED BY <1>2, <1>3, <1>4, <1>5

\* A send that finds the port closed goes nowhere.
LEMMA GapNotSent ==
    ASSUME NoGap, UNCHANGED <<queue, wpc, msg, handled>>, port' # "open"
    PROVE  NoGap' /\ LastSent'
<1>1. UNCHANGED ToDoPositions /\ \A i : ToDo(i)' = ToDo(i)
  BY DEF ToDoPositions, ToDo
<1>2. \A i, c, n : IsSend(i, c, n)' <=> IsSend(i, c, n)
  BY <1>1 DEF IsSend
<1> QED BY <1>1, <1>2 DEF NoGap, LastSent

LEMMA RequestsRpcStep ==
    ASSUME CoreInv, WorkInv, RpcInv, NEW c \in Clients, UNCHANGED serverVars,
           UaSendSynchronousRequest(c)
    PROVE  RpcInv' /\ (Service!Decline(c) \/ Service!Request(c))
<1> USE DEF CoreInv, TypeOK, RpcInv
<1>1. /\ cpc[c] = "connected" /\ conn[c] = "open" /\ call[c] = "idle"
      /\ sends[c] < MaxSends
      /\ UNCHANGED <<wpc, msg, handled>>
  BY DEF UaSendSynchronousRequest, MaySend, CallInv, CallOK, serverVars
<1>2. CASE ReturnEarly(c)
  BY <1>1, <1>2, EarlyRpcStep
<1>3. CASE /\ SysRequest(c, NextData(c))
           /\ cpc' = [cpc EXCEPT ![c] = "requesting"]
           /\ buf' = [buf EXCEPT ![c] = NextData(c)]
           /\ sends' = [sends EXCEPT ![c] = @ + 1]
           /\ result' = [result EXCEPT ![c] = "none"]
  <2>1. /\ UNCHANGED <<port, conn>>
        /\ cpc'[c] = "requesting" /\ call'[c] # "ok"
        /\ \A d \in Clients : d # c =>
             /\ conn'[d] = conn[d] /\ call'[d] = call[d]
             /\ cpc'[d] = cpc[d] /\ sends'[d] = sends[d]
    BY <1>3 DEF SysRequest, PortTypeOK, ClientTypeOK
  <2>2. FreshInv' /\ AnswerInv'
    BY <1>1, <2>1, ClientRpcStep
  <2>3. NoGap' /\ LastSent'
    <3>1. CASE CanSend(c)
      <4>1. NextData(c) \in Data
        BY NextDataType DEF UaSendSynchronousRequest
      <4>2. PICK m \in Message : m = Msg("REQUEST", c, NextData(c), FALSE)
        BY <4>1 DEF Msg, Message, Types
      <4>3. m.type \in Sends /\ m.client = c /\ m.data.n = sends[c] + 1
        BY <4>2 DEF Msg, NextData, Sends
      <4>4. queue' = Append(queue, m)
        BY <1>3, <3>1, <4>2 DEF SysRequest
      <4> QED BY <1>1, <1>3, <2>1, <3>1, <4>3, <4>4, GapSend
    <3>2. CASE ~CanSend(c)
      <4>1. port # "open" /\ UNCHANGED queue
        BY <1>1, <1>3, <3>2 DEF SysRequest, CanSend
      <4> QED BY <1>1, <2>1, <4>1, GapNotSent
    <3> QED BY <3>1, <3>2
  <2>4. Service!Request(c)
    <3>1. Service!Becomes(c, "connected", "requesting", "none")
      BY <1>1, <1>3, Moves DEF EarlyStatus
    <3> QED BY <1>1, <1>3, <3>1 DEF Service!Request, Service!Sent
  <2> QED BY <2>2, <2>3, <2>4
<1> QED BY <1>2, <1>3 DEF UaSendSynchronousRequest

LEMMA DatagramsRpcStep ==
    ASSUME CoreInv, WorkInv, RpcInv, NEW c \in Clients, UNCHANGED serverVars,
           UaSendDatagram(c)
    PROVE  RpcInv' /\ (Service!Decline(c) \/ Service!Post(c))
<1> USE DEF CoreInv, TypeOK, RpcInv
<1>1. /\ cpc[c] = "connected" /\ conn[c] = "open" /\ call[c] = "idle"
      /\ sends[c] < MaxSends
      /\ UNCHANGED <<wpc, msg, handled>>
  BY DEF UaSendDatagram, MaySend, CallInv, CallOK, serverVars
<1>2. CASE ReturnEarly(c)
  BY <1>1, <1>2, EarlyRpcStep
<1>3. ASSUME NEW k \in BOOLEAN, SysDatagram(c, NextData(c), k),
             sends' = [sends EXCEPT ![c] = @ + 1],
             result' = [result EXCEPT
                          ![c] = IF CanSend(c) THEN "sent" ELSE "dropped"],
             UNCHANGED <<cpc, buf>>
      PROVE  RpcInv' /\ Service!Post(c)
  <2>1. /\ UNCHANGED <<port, conn, call, cpc>>
        /\ \A d \in Clients : d # c => sends'[d] = sends[d]
    BY <1>3 DEF SysDatagram, ClientTypeOK
  <2>2. FreshInv' /\ AnswerInv'
    BY <1>1, <2>1, ClientRpcStep
  <2>3. NoGap' /\ LastSent'
    <3>1. CASE CanSend(c)
      <4>1. NextData(c) \in Data
        BY NextDataType DEF UaSendDatagram
      <4>2. PICK m \in Message : m = Msg("DATAGRAM", c, NextData(c), k)
        BY <4>1 DEF Msg, Message, Types
      <4>3. m.type \in Sends /\ m.client = c /\ m.data.n = sends[c] + 1
        BY <4>2 DEF Msg, NextData, Sends
      <4>4. queue' = Append(queue, m)
        BY <1>3, <3>1, <4>2 DEF SysDatagram
      <4> QED BY <1>1, <1>3, <2>1, <2>2, <3>1, <4>3, <4>4, GapSend
    <3>2. CASE ~CanSend(c)
      <4>1. port # "open" /\ UNCHANGED queue
        BY <1>1, <1>3, <3>2 DEF SysDatagram, CanSend
      <4> QED BY <1>1, <2>1, <4>1, GapNotSent
    <3> QED BY <3>1, <3>2
  <2>4. Service!Post(c)
    <3>1. cpc' = [cpc EXCEPT ![c] = "connected"]
      BY <1>1, <1>3 DEF ClientTypeOK
    <3>2. \/ Service!Becomes(c, "connected", "connected", "sent")
          \/ Service!Becomes(c, "connected", "connected", "dropped")
      <4>1. CASE CanSend(c)
        <5>1. result' = [result EXCEPT ![c] = "sent"]
          BY <1>3, <4>1
        <5> QED BY <1>1, <3>1, <5>1, Moves DEF EarlyStatus
      <4>2. CASE ~CanSend(c)
        <5>1. result' = [result EXCEPT ![c] = "dropped"]
          BY <1>3, <4>2
        <5> QED BY <1>1, <3>1, <5>1, Moves DEF EarlyStatus
      <4> QED BY <4>1, <4>2
    <3> QED BY <1>1, <1>3, <3>2 DEF Service!Post, Service!Sent
  <2> QED BY <2>2, <2>3, <2>4
<1> QED BY <1>2, <1>3 DEF UaSendDatagram

LEMMA HangsUpRpcStep ==
    ASSUME CoreInv, WorkInv, RpcInv, NEW c \in Clients, UNCHANGED serverVars,
           UaDisconnectServer(c) \/ ClientDies(c)
    PROVE  RpcInv' /\ Service!Leave(c)
<1> USE DEF CoreInv, TypeOK, RpcInv
<1>1. PICK s \in Seq(Message) :
        /\ queue' = queue \o s
        /\ \A k \in 1..Len(s) : s[k].type \notin Sends
  <2>1. \A t \in {"PORT_CLOSED", "CLIENT_DIED", "OTHER"} :
          Notice(t, c) \in Message /\ Notice(t, c).type = t
    BY MessageTypes DEF Notice, Msg, Types
  <2>2. ASSUME NEW n \in Seq(Message), SysHangup(c, n),
               \A k \in 1..Len(n) : n[k].type \notin Sends
        PROVE  \E s \in Seq(Message) :
                 /\ queue' = queue \o s
                 /\ \A k \in 1..Len(s) : s[k].type \notin Sends
    <3>1. CASE CanSend(c)
      BY <2>2, <3>1 DEF SysHangup
    <3>2. CASE ~CanSend(c)
      <4>1. /\ queue' = queue \o <<>> /\ <<>> \in Seq(Message)
            /\ 1..Len(<<>>) = {}
        BY <2>2, <3>2 DEF SysHangup, PortTypeOK
      <4> QED BY <4>1
    <3> QED BY <3>1, <3>2
  <2>3. ASSUME NEW t \in Notices, SysHangup(c, <<Notice(t, c)>>)
        PROVE  \E s \in Seq(Message) :
                 /\ queue' = queue \o s
                 /\ \A k \in 1..Len(s) : s[k].type \notin Sends
    <3> DEFINE n == <<Notice(t, c)>>
    <3>1. /\ n \in Seq(Message) /\ SysHangup(c, n)
          /\ \A k \in 1..Len(n) : n[k].type \notin Sends
      BY <2>1, <2>3 DEF Notices, Sends
    <3> HIDE DEF n
    <3> QED BY <2>2, <3>1
  <2>4. ASSUME NEW t \in Notices,
               SysHangup(c, <<Notice("OTHER", c), Notice(t, c)>>)
        PROVE  \E s \in Seq(Message) :
                 /\ queue' = queue \o s
                 /\ \A k \in 1..Len(s) : s[k].type \notin Sends
    <3> DEFINE n == <<Notice("OTHER", c), Notice(t, c)>>
    <3>1. n \in Seq(Message) /\ SysHangup(c, n) /\ Len(n) = 2
          /\ n[1].type = "OTHER" /\ n[2].type = t
      BY <2>1, <2>4 DEF Notices
    <3> HIDE DEF n
    <3>2. \A k \in 1..Len(n) : n[k].type \notin Sends
      BY <3>1 DEF Notices, Sends
    <3> QED BY <2>2, <3>1, <3>2
  <2> QED BY <2>3, <2>4 DEF UaDisconnectServer, ClientDies, Notices
<1>2. /\ UNCHANGED <<port, sends, result, wpc, msg, handled>>
      /\ conn'[c] = "closed" /\ call'[c] = "idle"
      /\ \A d \in Clients : d # c =>
           conn'[d] = conn[d] /\ call'[d] = call[d]
      /\ cpc[c] \notin {"closed", "dead"}
      /\ \E to \in {"closed", "dead"} : cpc' = [cpc EXCEPT ![c] = to]
  BY DEF SysHangup, UaDisconnectServer, ClientDies, PortTypeOK, ClientTypeOK,
         serverVars
<1>3. /\ cpc'[c] \in {"closed", "dead"}
      /\ \A d \in Clients : d # c => cpc'[d] = cpc[d]
      /\ \A d \in Clients : conn'[d] = "open" => conn[d] = "open"
  BY <1>2 DEF ClientTypeOK
<1>4. FreshInv' /\ AnswerInv'
  BY <1>2, <1>3, ClientRpcStep
<1>5. NoGap' /\ LastSent'
  BY <1>1, <1>2, <1>3, GapJoin
<1>6. Service!Leave(c)
  <2>1. Phase[c] # "gone" /\ Phase' = [Phase EXCEPT ![c] = "gone"]
    BY <1>2 DEF Phase, ClientTypeOK
  <2>2. UNCHANGED Outcome
    BY <1>2 DEF Outcome
  <2> QED BY <1>2, <2>1, <2>2 DEF Service!Leave
<1> QED BY <1>4, <1>5, <1>6

-----------------------------------------------------------------------------
(***************************************************************************)
(* The refinement.                                                         *)
(***************************************************************************)
LEMMA RpcInit == Init => RpcInv /\ Service!Init
<1> SUFFICES ASSUME Init PROVE RpcInv /\ Service!Init
  OBVIOUS
<1> USE DEF Init, PortInit, ServerInit, ClientInit
<1>1. ToDoPositions = {}
  BY DEF ToDoPositions
<1>2. RpcInv
  BY <1>1 DEF RpcInv, FreshInv, AnswerInv, NoGap, LastSent
<1>3. Service!Init
  BY DEF Service!Init, Phase, Outcome, EarlyStatus
<1> QED BY <1>2, <1>3

LEMMA RpcStep ==
    ASSUME CoreInv, WorkInv, RpcInv, [Next]_vars
    PROVE  RpcInv' /\ [Service!Next]_(Service!serviceVars)
<1>1. CASE ServerStep
  <2>1. UNCHANGED clientVars
    BY <1>1 DEF ServerStep
  <2>2. CASE UaAlpcRequest \/ UaAlpcDatagram
    <3>1. msg.client \in Clients
      BY <2>2, MessageFields
      DEF UaAlpcRequest, UaAlpcDatagram, Processing, CoreInv, MessageInHand,
          InHand
    <3>2. RpcInv' /\ Service!Serve(msg.client)
      BY <2>1, <2>2, HandRpcStep
    <3> QED BY <3>1, <3>2 DEF Service!Next
  <2>3. CASE ~(UaAlpcRequest \/ UaAlpcDatagram)
    <3>1. RpcInv' /\ UNCHANGED handled
      BY <1>1, <2>1, <2>3, OwnerRpcStep, WorkerRpcStep
      DEF ServerStep, ServerNext
    <3>2. UNCHANGED Service!serviceVars
      BY <2>1, <3>1 DEF clientVars, Service!serviceVars, Phase, Outcome
    <3> QED BY <3>1, <3>2
  <2> QED BY <2>2, <2>3
<1>2. ASSUME NEW c \in Clients, ClientStep(c), UNCHANGED serverVars
      PROVE  RpcInv' /\ [Service!Next]_(Service!serviceVars)
  <2>1. CASE UaConnectServer(c)
    BY <1>2, <2>1, ConnectsRpcStep DEF Service!Next
  <2>2. CASE UaSendSynchronousRequest(c)
    BY <1>2, <2>2, RequestsRpcStep DEF Service!Next
  <2>3. CASE UaSendDatagram(c)
    BY <1>2, <2>3, DatagramsRpcStep DEF Service!Next
  <2>4. CASE UaDisconnectServer(c) \/ ClientDies(c)
    BY <1>2, <2>4, HangsUpRpcStep DEF Service!Next
  <2>5. CASE UaConnectServerReturns(c) \/ UaSendSynchronousRequestReturns(c)
    BY <1>2, <2>5, ReturnsRpcStep DEF Service!Next
  <2> QED BY <1>2, <2>1, <2>2, <2>3, <2>4, <2>5
          DEF ClientStep, ClientCalls, ClientReturns
<1>3. CASE UNCHANGED vars
  <2>1. UNCHANGED <<portVars, clientVars, wpc, msg, commHandles, handled>>
    BY <1>3 DEF vars, serverVars
  <2>2. RpcInv'
    BY <2>1, QuietRpcStep DEF portVars
  <2>3. UNCHANGED Service!serviceVars
    BY <2>1 DEF clientVars, Service!serviceVars, Phase, Outcome
  <2> QED BY <2>2, <2>3
<1> QED BY <1>1, <1>2, <1>3 DEF Next

\* The library with its server, worker, port and messages (ua.c) is the service
\* its header declares: every step of it is a step of RpcService or none.
THEOREM LibraryIsRpcService == Spec => IsRpcService
<1>1. Init => RpcInv /\ Service!Init
  BY RpcInit
<1>2. IInv /\ RpcInv /\ [Next]_vars =>
        RpcInv' /\ [Service!Next]_(Service!serviceVars)
  BY RpcStep DEF IInv
<1> QED BY <1>1, <1>2, Invariant, PTL DEF Spec, IsRpcService, Service!Spec

-----------------------------------------------------------------------------
(***************************************************************************)
(* No handle is leaked while the server serves.                            *)
(***************************************************************************)

\* What the worker still has to do of a client's notices is kept by every step
\* but the handling of one.
LEMMA DueStays ==
    ASSUME PortTypeOK, UNCHANGED queue, wpc' = wpc \/ wpc' # "process",
           wpc' = "process" => UNCHANGED msg, NEW c, Due(c),
           wpc = "process" /\ wpc' # wpc =>
             msg.type \notin Notices \/ msg.client # c
    PROVE  Due(c)'
<1>1. PICK i \in ToDoPositions : ToDo(i).type \in Notices /\ ToDo(i).client = c
  BY DEF Due
<1>2. i = 0 => wpc = "process" /\ ToDo(i) = msg
  BY DEF ToDoPositions, ToDo, PortTypeOK
<1>3. i \in ToDoPositions'
  BY <1>1, <1>2, ToDoSame
<1>4. ToDo(i)' = ToDo(i)
  BY <1>3, ToDoSame
<1> QED BY <1>1, <1>3, <1>4 DEF Due, Notices

LEMMA HandlesServerStep ==
    ASSUME CoreInv, WorkInv, FreshInv, HandlesAreLiveOrDue, ServerNext
    PROVE  HandlesAreLiveOrDue'
<1>0. /\ PortTypeOK /\ ServerTypeOK
      /\ MessageInHand /\ OwnerInv /\ ConnInv
  BY DEF CoreInv, TypeOK, WorkInv
<1> SUFFICES ASSUME port' = "open", NEW c \in commHandles'
             PROVE  conn'[c] = "open" \/ Due(c)'
  BY DEF HandlesAreLiveOrDue
<1>1. CASE CreatePort
  BY <1>0, <1>1 DEF CreatePort, OwnerInv, FreshInv, CreateFails, workerVars
<1>2. CASE Receive
  <2>1. /\ wpc = "waiting" /\ conn' = conn /\ c \in commHandles /\ port = "open"
    BY <1>2 DEF Receive, SysReceive, clientState
  <2>2. CASE Due(c)
    <3>1. PICK i \in ToDoPositions :
            ToDo(i).type \in Notices /\ ToDo(i).client = c
      BY <2>2 DEF Due
    <3>2. i - 1 \in ToDoPositions' /\ ToDo(i - 1)' = ToDo(i)
      BY <1>0, <1>2, <2>1, <3>1, ToDoReceive
    <3> QED BY <3>1, <3>2 DEF Due, Notices
  <2> QED BY <2>1, <2>2 DEF HandlesAreLiveOrDue
<1>3. CASE UaAlpcDisconnect
  <2>1. HasContextAttribute
    BY <1>0, <1>3 DEF UaAlpcDisconnect, Processing, OwnerInv, ServerTypeOK,
                      HasContextAttribute, Allocations
  <2>2. /\ commHandles' = commHandles \ {msg.client}
        /\ UNCHANGED portVars
        /\ wpc' \in {"receive", "exited"}
    BY <1>3, <2>1 DEF UaAlpcDisconnect, Returns, GoTo, Exit
  <2>3. c \in commHandles /\ msg.client # c /\ UNCHANGED <<port, queue, conn>>
    BY <2>2 DEF portVars
  <2> QED BY <1>0, <2>2, <2>3, DueStays DEF HandlesAreLiveOrDue
<1>4. CASE UaAlpcConnectAccepts
  <2>1. /\ wpc = "accept" /\ wpc' # "process"
        /\ UNCHANGED <<port, queue>>
    BY <1>4
    DEF UaAlpcConnectAccepts, SysAccept, Returns, GoTo, Exit, portVars
  <2>0. msg.client \in Clients
    BY <1>0, <2>1, MessageFields DEF MessageInHand, InHand
  <2>2. \/ c \in commHandles /\ conn'[c] = conn[c]
        \/ conn'[c] = "open"
    <3>1. CASE SysAccept(msg.client) /\ commHandles' = commHandles \cup {msg.client}
      <4>1. conn' = [conn EXCEPT ![msg.client] = "open"]
        BY <3>1 DEF SysAccept
      <4>2. conn'[msg.client] = "open" /\ (c # msg.client => conn'[c] = conn[c])
        BY <1>0, <2>0, <4>1 DEF PortTypeOK
      <4> QED BY <3>1, <4>2
    <3>2. CASE UNCHANGED <<commHandles, portVars>>
      BY <3>2 DEF portVars
    <3> QED BY <1>4, <3>1, <3>2 DEF UaAlpcConnectAccepts
  <2> QED BY <1>0, <2>1, <2>2, DueStays DEF HandlesAreLiveOrDue
<1>5. CASE UaAlpcConnectRejects
  <2>1. /\ wpc = "reject" /\ wpc' # "process" /\ c \in commHandles
        /\ UNCHANGED <<port, queue>>
    BY <1>5
    DEF UaAlpcConnectRejects, SysReject, LeftWaiting, Returns, GoTo, Exit,
        portVars
  <2>2. msg.client \notin commHandles
    BY <1>0, <2>1 DEF WorkInv, HandlerInv
  <2>3. conn'[c] = conn[c]
    <3>1. CASE SysReject(msg.client)
      <4>1. c \in Clients /\ c # msg.client
        BY <1>0, <2>1, <2>2 DEF ServerTypeOK
      <4> QED BY <1>0, <3>1, <4>1 DEF SysReject, PortTypeOK
    <3>2. CASE UNCHANGED portVars
      BY <3>2 DEF portVars
    <3> QED BY <1>5, <3>1, <3>2 DEF UaAlpcConnectRejects, LeftWaiting
  <2> QED BY <1>0, <2>1, <2>3, DueStays DEF HandlesAreLiveOrDue
<1>6. CASE UaAlpcRequest \/ UaAlpcDatagram \/ UaAlpcConnect \/ ProcessOther
  <2>1. /\ wpc = "process" /\ wpc' # "process" /\ msg.type \notin Notices
        /\ c \in commHandles /\ UNCHANGED portVars
    BY <1>6
    DEF UaAlpcRequest, UaAlpcDatagram, UaAlpcConnect, ProcessOther, Processing,
        WithoutContext, Returns, GoTo, Exit, Notices, DisconnectTypes, Types,
        clientState
  <2> QED BY <1>0, <2>1, DueStays DEF HandlesAreLiveOrDue, portVars
<1>7. CASE UaAlpcRequestReplies \/ UaAlpcDatagramCancels \/ EnterReceive
           \/ ReceiveFails \/ AstrayReceive \/ AstrayReceiveFails
           \/ UaProcessStray
  <2>1. /\ wpc # "process" /\ wpc' # "process" /\ c \in commHandles
        /\ UNCHANGED <<port, queue, conn>>
    BY <1>7
    DEF UaAlpcRequestReplies, UaAlpcDatagramCancels, EnterReceive, ReceiveFails,
        AstrayReceive, AstrayReceiveFails, UaProcessStray, ProcessStray,
        AfterFailedReceive, SysReply, SysCancel, LeftWaiting, ReplyStatus,
        Returns, GoTo, Exit, portVars, clientState
  <2> QED BY <1>0, <2>1, DueStays DEF HandlesAreLiveOrDue
<1>8. CASE AllocateServer \/ AllocateAttributes \/ AllocateMessage
           \/ StartWorker \/ ReuseHandle \/ Cleanup \/ TerminateClosesPort
           \/ TerminateFrees
  <2>1. /\ c \in commHandles /\ UNCHANGED <<port, queue, conn>>
        /\ \/ UNCHANGED <<wpc, msg>>
           \/ wpc # "process" /\ wpc' # "process"
    BY <1>0, <1>8
    DEF AllocateServer, AllocateAttributes, AllocateMessage, StartWorker,
        ReuseHandle, Cleanup, TerminateClosesPort, TerminateFrees, WorkerIsDone,
        Allocate, CreateFails, SysClosePort, OwnerInv, workerVars, portVars
  <2> QED BY <1>0, <2>1, DueStays DEF HandlesAreLiveOrDue
<1> QED BY <1>1, <1>2, <1>3, <1>4, <1>5, <1>6, <1>7, <1>8
        DEF ServerNext, UaCreateServer, UaServerWorker, UaProcessMessage

LEMMA DueGrows ==
    ASSUME PortTypeOK, NEW s \in Seq(Message), queue' = queue \o s,
           UNCHANGED <<wpc, msg>>, NEW c, Due(c)
    PROVE  Due(c)'
<1>1. PICK i \in ToDoPositions : ToDo(i).type \in Notices /\ ToDo(i).client = c
  BY DEF Due
<1>2. i \in ToDoPositions' /\ ToDo(i)' = ToDo(i)
  BY <1>1, ToDoJoin
<1> QED BY <1>1, <1>2 DEF Due, Notices

\* A client that ends leaves its notice.
LEMMA HangupIsDue ==
    ASSUME PortTypeOK, NEW d \in Clients, conn[d] = "open", port = "open",
           UNCHANGED <<wpc, msg>>, UaDisconnectServer(d) \/ ClientDies(d)
    PROVE  Due(d)'
<1>1. \A t \in Notices \cup {"OTHER"} :
        /\ Notice(t, d) \in Message
        /\ Notice(t, d).client = d /\ Notice(t, d).type = t
  BY MessageTypes DEF Notice, Msg, Notices, Types
<1>2. PICK t \in Notices :
        \/ SysHangup(d, <<Notice(t, d)>>)
        \/ SysHangup(d, <<Notice("OTHER", d), Notice(t, d)>>)
  BY DEF UaDisconnectServer, ClientDies, Notices
<1>3. CASE SysHangup(d, <<Notice(t, d)>>)
  <2>1. queue' = Append(queue, Notice(t, d))
    BY <1>1, <1>3 DEF SysHangup, CanSend, PortTypeOK
  <2>2. \E i \in ToDoPositions' : ToDo(i)' = Notice(t, d)
    BY <1>1, <2>1, OneJoins
  <2> QED BY <1>1, <2>2 DEF Due, Notices
<1>4. CASE SysHangup(d, <<Notice("OTHER", d), Notice(t, d)>>)
  <2> DEFINE n == <<Notice("OTHER", d), Notice(t, d)>>
  <2>1. /\ n \in Seq(Message) /\ queue' = queue \o n
        /\ 2 \in 1..Len(n) /\ n[2] = Notice(t, d)
    BY <1>1, <1>4 DEF SysHangup, CanSend
  <2> HIDE DEF n
  <2>2. \E i \in ToDoPositions' : ToDo(i)' = n[2]
    BY <2>1, ToDoJoin
  <2> QED BY <1>1, <2>1, <2>2 DEF Due, Notices
<1> QED BY <1>2, <1>3, <1>4

LEMMA HandlesClientStep ==
    ASSUME CoreInv, WorkInv, HandlesAreLiveOrDue, NEW d \in Clients,
           ClientStep(d), UNCHANGED serverVars
    PROVE  HandlesAreLiveOrDue'
<1>0. /\ PortTypeOK /\ ServerTypeOK /\ ClientTypeOK
      /\ ConnInv /\ CallInv /\ UNCHANGED <<wpc, msg, commHandles>>
  BY DEF CoreInv, TypeOK, WorkInv, serverVars
<1> SUFFICES ASSUME port' = "open", NEW c \in commHandles'
             PROVE  conn'[c] = "open" \/ Due(c)'
  BY DEF HandlesAreLiveOrDue
<1>1. c \in commHandles /\ c \in Clients /\ conn[c] \in {"open", "closed"}
  BY <1>0 DEF ConnInv, PortTypeOK, ServerTypeOK
<1>2. CASE UaDisconnectServer(d) \/ ClientDies(d)
  <2>1. PICK n \in Seq(Message) : SysHangup(d, n)
    <3>1. \A t \in Notices \cup {"OTHER"} : Notice(t, d) \in Message
      BY MessageTypes DEF Notice, Msg, Notices, Types
    <3>2. \A t \in Notices :
            /\ <<Notice(t, d)>> \in Seq(Message)
            /\ <<Notice("OTHER", d), Notice(t, d)>> \in Seq(Message)
      BY <3>1
    <3> QED BY <1>2, <3>2 DEF UaDisconnectServer, ClientDies, Notices
  <2>2. /\ port = "open" /\ conn[d] # "closed"
        /\ c # d => conn'[c] = conn[c]
    BY <1>0, <1>2, <2>1
    DEF SysHangup, UaDisconnectServer, ClientDies, CallInv, CallOK,
        PortTypeOK, ClientTypeOK
  <2>3. CASE c = d
    BY <1>0, <1>1, <1>2, <2>2, <2>3, HangupIsDue
  <2>4. CASE c # d
    <3>1. \E s \in Seq(Message) : queue' = queue \o s
      <4>1. <<>> \in Seq(Message) /\ (queue' = queue => queue' = queue \o <<>>)
        BY <1>0 DEF PortTypeOK
      <4> QED BY <2>1, <4>1 DEF SysHangup
    <3> QED BY <1>0, <1>1, <2>2, <2>4, <3>1, DueGrows DEF HandlesAreLiveOrDue
  <2> QED BY <2>3, <2>4
<1>3. CASE UaConnectServer(d) \/ UaSendSynchronousRequest(d) \/ UaSendDatagram(d)
  <2>1. NoData(d) \in Data /\ (MaySend(d) => NextData(d) \in Data)
    BY <1>0, PortAssumption, MessageTypes DEF NextData, MaySend, Data, ClientTypeOK
  <2>2. \A x \in Data, t \in Types, k \in BOOLEAN : Msg(t, d, x, k) \in Message
    BY MessageTypes
  <2>3. /\ port' = port
        /\ \/ queue' = queue
           \/ \E m \in Message : queue' = Append(queue, m)
    <3>1. CASE UaConnectServer(d)
      BY <2>1, <2>2, <3>1
      DEF UaConnectServer, ReturnEarly, SysConnect, portVars, Types
    <3>2. CASE UaSendSynchronousRequest(d)
      BY <2>1, <2>2, <3>2
      DEF UaSendSynchronousRequest, ReturnEarly, SysRequest, portVars, Types
    <3>3. CASE UaSendDatagram(d)
      BY <2>1, <2>2, <3>3
      DEF UaSendDatagram, ReturnEarly, SysDatagram, portVars, Types
    <3> QED BY <1>3, <3>1, <3>2, <3>3
  <2>4. conn'[c] = conn[c]
    BY <1>0, <1>1, <1>3
    DEF UaConnectServer, UaSendSynchronousRequest, UaSendDatagram, ReturnEarly,
        SysConnect, SysRequest, SysDatagram, portVars, CallInv, CallOK,
        PortTypeOK
  <2>5. \E s \in Seq(Message) : queue' = queue \o s
    <3>1. <<>> \in Seq(Message) /\ (queue' = queue => queue' = queue \o <<>>)
      BY <1>0 DEF PortTypeOK
    <3>2. ASSUME NEW m \in Message, queue' = Append(queue, m)
          PROVE  <<m>> \in Seq(Message) /\ queue' = queue \o <<m>>
      BY <1>0, <3>2, OneJoins
    <3> QED BY <2>3, <3>1, <3>2
  <2> QED BY <1>0, <1>1, <2>3, <2>4, <2>5, DueGrows DEF HandlesAreLiveOrDue
<1>4. CASE ClientReturns(d)
  <2>1. UNCHANGED <<port, queue, conn>>
    BY <1>4 DEF ClientReturns, UaConnectServerReturns,
                UaSendSynchronousRequestReturns, SysReturn
  <2> QED BY <1>0, <1>1, <2>1, DueStays DEF HandlesAreLiveOrDue
<1> QED BY <1>2, <1>3, <1>4 DEF ClientStep, ClientCalls

LEMMA HandlesStep ==
    ASSUME CoreInv, WorkInv, FreshInv, HandlesAreLiveOrDue, [Next]_vars
    PROVE  HandlesAreLiveOrDue'
<1>1. CASE UNCHANGED vars
  BY <1>1
  DEF HandlesAreLiveOrDue, Due, ToDoPositions, ToDo, vars, portVars, serverVars
<1> QED BY <1>1, HandlesServerStep, HandlesClientStep DEF Next, ServerStep

\* A handle whose client is gone is given back while the server serves: the
\* notice that makes UaAlpcDisconnect close it is on its way (ua.c:88-112).
THEOREM NoHandleIsLeaked == Spec => []HandlesAreLiveOrDue
<1>1. Init => RpcInv /\ HandlesAreLiveOrDue
  BY RpcInit DEF Init, PortInit, HandlesAreLiveOrDue
<1>2. IInv /\ RpcInv /\ HandlesAreLiveOrDue /\ [Next]_vars =>
        RpcInv' /\ HandlesAreLiveOrDue'
  BY RpcStep, HandlesStep DEF IInv, RpcInv
<1> QED BY <1>1, <1>2, Invariant, PTL DEF Spec
=============================================================================
