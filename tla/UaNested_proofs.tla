--------------------------- MODULE UaNested_proofs ---------------------------
(***************************************************************************)
(* Theorems about UaNested: a freed server is quiet whatever the callbacks *)
(* call, a call that waits where no worker goes on does so in a circle or  *)
(* because of an abandoned one, and only because of such a one when        *)
(* callbacks only call downwards.                                          *)
(***************************************************************************)
EXTENDS UaNested, FiniteSetTheorems, WellFoundedInduction, TLAPS

\* Where a thread is tells what it waits for.
ThreadOK(x) ==
    /\ pc[x] \in {"calling", "joining"} => on[x] \in Servers
    /\ call[x] \in {"wait", "lost"} => pc[x] = "calling" /\ port[on[x]] = "open"
    /\ pc[x] = "calling" => call[x] # "none"
    /\ pc[x] = "joining" => port[on[x]] # "open" /\ on[x] \notin freed

\* A closed port has no queue, only at a closed port does a worker stray or have
\* nobody's request in hand, and a worker that receives has none.
ServerOK(s) ==
    /\ port[s] # "open" => queue[s] = <<>>
    /\ pc[s] = "astray" => port[s] # "open"
    /\ pc[s] \in {"receive", "waiting", "astray", "exited"} => client[s] = Null
    /\ pc[s] \in {"callback", "reply", "calling", "joining"} =>
         client[s] \in Threads \/ (client[s] = Null /\ port[s] # "open")
    /\ s \in freed => pc[s] = "exited" /\ port[s] # "open"

\* A server is terminated by one thread at a time.
OneTerminates ==
    \A x, y \in Threads :
      pc[x] = "joining" /\ pc[y] = "joining" /\ on[x] = on[y] => x = y

IInv ==
    /\ TypeOK
    /\ \A x \in Threads : ThreadOK(x)
    /\ \A s \in Servers : ServerOK(s)
    /\ OneTerminates

-----------------------------------------------------------------------------
LEMMA NestedInit == Init => IInv
<1> SUFFICES ASSUME Init PROVE IInv
  OBVIOUS
<1>1. TypeOK
  <2>1. queue \in [Servers -> Seq(Threads)]
    BY DEF Init
  <2>2. \A x \in Threads : pc[x] \in Places(x)
    BY DEF Init, Threads, Places, WorkerPlaces
  <2>3. 0 \in 0..MaxCalls
    BY NestedAssumption
  <2> QED BY <2>1, <2>2, <2>3 DEF Init, TypeOK, WorkerPlaces
<1>2. \A x \in Threads : ThreadOK(x)
  BY DEF Init, ThreadOK
<1>3. \A s \in Servers : ServerOK(s)
  BY DEF Init, ServerOK, Threads
<1>4. OneTerminates
  BY DEF Init, OneTerminates
<1> QED BY <1>1, <1>2, <1>3, <1>4 DEF IInv

\* The calls keep the invariant, whoever makes them.
LEMMA RequestStep ==
    ASSUME IInv, NEW x \in Threads, NEW s \in Servers,
           UaSendSynchronousRequest(x, s)
    PROVE  IInv'
<1> USE DEF Threads
<1>1. TypeOK'
  <2>1. queue' \in [Servers -> Seq(Threads)]
    <3>1. Append(queue[s], x) \in Seq(Threads)
      BY DEF IInv, TypeOK
    <3> QED BY <3>1 DEF IInv, TypeOK, UaSendSynchronousRequest
  <2>2. \A y \in Threads : pc'[y] \in Places(y)
    BY DEF IInv, TypeOK, UaSendSynchronousRequest, Places, WorkerPlaces
  <2>3. made' \in [Servers -> 0..MaxCalls]
    BY NestedAssumption
    DEF IInv, TypeOK, UaSendSynchronousRequest, MayCall, Counted
  <2> QED BY <2>1, <2>2, <2>3 DEF IInv, TypeOK, UaSendSynchronousRequest
<1>2. \A y \in Threads : ThreadOK(y)'
  BY NestedAssumption
  DEF IInv, TypeOK, ThreadOK, UaSendSynchronousRequest, MayCall
<1>3. \A t \in Servers : ServerOK(t)'
  BY NestedAssumption
  DEF IInv, TypeOK, ServerOK, UaSendSynchronousRequest, MayCall
<1>4. OneTerminates'
  BY DEF IInv, TypeOK, OneTerminates, UaSendSynchronousRequest
<1> QED BY <1>1, <1>2, <1>3, <1>4 DEF IInv

LEMMA TerminateStep ==
    ASSUME IInv, NEW x \in Threads, NEW s \in Servers,
           UaTerminateServer(x, s)
    PROVE  IInv'
<1> USE DEF Threads
<1>1. TypeOK'
  BY NestedAssumption
  DEF IInv, TypeOK, UaTerminateServer, ClosePort, MayCall, Counted, Places, WorkerPlaces
<1>2. \A y \in Threads : ThreadOK(y)'
  BY NestedAssumption
  DEF IInv, TypeOK, ThreadOK, UaTerminateServer, ClosePort, WaitsAt, MayCall
<1>3. \A t \in Servers : ServerOK(t)'
  BY NestedAssumption
  DEF IInv, TypeOK, ServerOK, UaTerminateServer, ClosePort, MayCall
<1>4. OneTerminates'
  BY DEF IInv, TypeOK, OneTerminates, UaTerminateServer
<1> QED BY <1>1, <1>2, <1>3, <1>4 DEF IInv

LEMMA ReturnStep ==
    ASSUME IInv, NEW x \in Threads, CallReturns(x)
    PROVE  IInv'
<1> USE DEF Threads
<1>1. CASE UaSendSynchronousRequestReturns(x)
  <2>1. TypeOK'
    BY <1>1, NestedAssumption
    DEF IInv, TypeOK, UaSendSynchronousRequestReturns, UserCode, Places, WorkerPlaces
  <2>2. \A y \in Threads : ThreadOK(y)'
    BY <1>1
    DEF IInv, TypeOK, ThreadOK, UaSendSynchronousRequestReturns, UserCode
  <2>3. \A t \in Servers : ServerOK(t)'
    BY <1>1, NestedAssumption
    DEF IInv, TypeOK, ServerOK, UaSendSynchronousRequestReturns, UserCode
  <2>4. OneTerminates'
    BY <1>1
    DEF IInv, TypeOK, OneTerminates, UaSendSynchronousRequestReturns, UserCode
  <2> QED BY <2>1, <2>2, <2>3, <2>4 DEF IInv
<1>2. CASE UaTerminateServerReturns(x)
  <2>1. TypeOK'
    BY <1>2, NestedAssumption
    DEF IInv, TypeOK, ThreadOK, UaTerminateServerReturns, UserCode, Places, WorkerPlaces
  <2>2. \A y \in Threads : ThreadOK(y)'
    BY <1>2
    DEF IInv, TypeOK, ThreadOK, OneTerminates, UaTerminateServerReturns,
        UserCode
  <2>3. \A t \in Servers : ServerOK(t)'
    BY <1>2, NestedAssumption
    DEF IInv, TypeOK, ThreadOK, ServerOK, UaTerminateServerReturns, UserCode,
        WorkerIsDone
  <2>4. OneTerminates'
    BY <1>2
    DEF IInv, TypeOK, OneTerminates, UaTerminateServerReturns, UserCode
  <2> QED BY <2>1, <2>2, <2>3, <2>4 DEF IInv
<1> QED BY <1>1, <1>2 DEF CallReturns

\* A reply changes a waiting call only, and one that waits at its server.
LEMMA ReplyKinds ==
    ASSUME IInv, NEW s \in Servers, UaAlpcRequestReplies(s)
    PROVE  /\ call' \in [Threads -> {"none", "wait", "lost", "done"}]
           /\ \A y \in Threads :
                \/ call'[y] = call[y]
                \/ /\ call[y] \in {"wait", "lost"}
                   /\ call'[y] \in {"lost", "done"}
<1>1. CASE call' = call
  BY <1>1 DEF IInv, TypeOK
<1>2. CASE call' # call
  <2>1. /\ WaitsAt(client[s], s)
        /\ port[s] = "open"
        /\ \E k \in {"lost", "done"} : call' = [call EXCEPT ![client[s]] = k]
    BY <1>2 DEF UaAlpcRequestReplies, Reply, Answerable
  <2> QED BY <2>1 DEF IInv, TypeOK, WaitsAt
<1> QED BY <1>1, <1>2

\* So do the steps of a worker.
LEMMA WorkerStep ==
    ASSUME IInv, NEW s \in Servers, UaServerWorker(s)
    PROVE  IInv'
<1> USE DEF Threads
<1>1. CASE Receive(s)
  <2>1. Head(queue[s]) \in Threads /\ Tail(queue[s]) \in Seq(Threads)
    BY <1>1 DEF IInv, TypeOK, Receive
  <2>2. TypeOK'
    BY <1>1, <2>1, NestedAssumption DEF IInv, TypeOK, Receive, Places, WorkerPlaces
  <2>3. \A y \in Threads : ThreadOK(y)'
    BY <1>1, NestedAssumption DEF IInv, TypeOK, ThreadOK, Receive
  <2>4. \A t \in Servers : ServerOK(t)'
    BY <1>1, <2>1, NestedAssumption DEF IInv, TypeOK, ServerOK, Receive
  <2>5. OneTerminates'
    BY <1>1 DEF IInv, TypeOK, OneTerminates, Receive
  <2> QED BY <2>2, <2>3, <2>4, <2>5 DEF IInv
<1>2. CASE EnterReceive(s) \/ ReceiveFails(s)
  <2>1. /\ UNCHANGED <<port, queue, freed, on, call, client, made>>
        /\ pc[s] \in {"receive", "waiting"}
        /\ \E l \in {"waiting", "astray", "exited"} :
             pc' = [pc EXCEPT ![s] = l] /\ (l = "astray" => port[s] # "open")
    BY <1>2 DEF EnterReceive, ReceiveFails, IInv, TypeOK
  <2>2. TypeOK'
    BY <2>1, NestedAssumption DEF IInv, TypeOK, Places, WorkerPlaces
  <2>3. \A y \in Threads : ThreadOK(y)'
    BY <2>1 DEF IInv, TypeOK, ThreadOK
  <2>4. \A t \in Servers : ServerOK(t)'
    BY <2>1, NestedAssumption DEF IInv, TypeOK, ServerOK
  <2>5. OneTerminates'
    BY <2>1 DEF IInv, TypeOK, OneTerminates
  <2> QED BY <2>2, <2>3, <2>4, <2>5 DEF IInv
<1>3. CASE OnRequestReturns(s)
  <2>1. TypeOK'
    BY <1>3, NestedAssumption
    DEF IInv, TypeOK, OnRequestReturns, Places, WorkerPlaces
  <2>2. \A y \in Threads : ThreadOK(y)'
    BY <1>3 DEF IInv, TypeOK, ThreadOK, OnRequestReturns
  <2>3. \A t \in Servers : ServerOK(t)'
    BY <1>3, NestedAssumption DEF IInv, TypeOK, ServerOK, OnRequestReturns
  <2>4. OneTerminates'
    BY <1>3 DEF IInv, TypeOK, OneTerminates, OnRequestReturns
  <2> QED BY <2>1, <2>2, <2>3, <2>4 DEF IInv
<1>4. CASE UaAlpcRequestReplies(s)
  <2>1. /\ UNCHANGED <<port, queue, freed, on, made>>
        /\ client' = [client EXCEPT ![s] = Null]
        /\ pc' = [pc EXCEPT ![s] = "receive"]
        /\ pc[s] = "reply"
    BY <1>4 DEF UaAlpcRequestReplies
  <2>2. /\ call' \in [Threads -> {"none", "wait", "lost", "done"}]
        /\ \A y \in Threads :
             \/ call'[y] = call[y]
             \/ call[y] \in {"wait", "lost"} /\ call'[y] \in {"lost", "done"}
    BY <1>4, ReplyKinds
  <2>3. TypeOK'
    BY <2>1, <2>2, NestedAssumption DEF IInv, TypeOK, Places, WorkerPlaces
  <2>4. \A y \in Threads : ThreadOK(y)'
    BY <2>1, <2>2 DEF IInv, TypeOK, ThreadOK
  <2>5. \A t \in Servers : ServerOK(t)'
    BY <2>1, NestedAssumption DEF IInv, TypeOK, ServerOK
  <2>6. OneTerminates'
    BY <2>1 DEF IInv, TypeOK, OneTerminates
  <2> QED BY <2>3, <2>4, <2>5, <2>6 DEF IInv
<1>5. CASE ReceiveAstray(s)
  <2>1. PICK l \in {"callback", "receive", "exited"} :
          pc' = [pc EXCEPT ![s] = l]
    BY <1>5 DEF ReceiveAstray
  <2>2. /\ UNCHANGED <<port, queue, freed, on, call, client>>
        /\ made' = [made EXCEPT ![s] = 0]
        /\ pc[s] = "astray" /\ port[s] # "open" /\ client[s] = Null
    BY <1>5 DEF ReceiveAstray, IInv, ServerOK
  <2>3. TypeOK'
    BY <2>1, <2>2, NestedAssumption DEF IInv, TypeOK, Places, WorkerPlaces
  <2>4. \A y \in Threads : ThreadOK(y)'
    BY <2>1, <2>2 DEF IInv, TypeOK, ThreadOK
  <2>5. \A t \in Servers : ServerOK(t)'
    BY <2>1, <2>2, NestedAssumption DEF IInv, TypeOK, ServerOK
  <2>6. OneTerminates'
    BY <2>1, <2>2 DEF IInv, TypeOK, OneTerminates
  <2> QED BY <2>3, <2>4, <2>5, <2>6 DEF IInv
<1> QED BY <1>1, <1>2, <1>3, <1>4, <1>5 DEF UaServerWorker

\* And so does the rest of the process.
LEMMA ReuseStep ==
    ASSUME IInv, NEW s \in Servers, ReuseHandle(s)
    PROVE  IInv'
<1> USE DEF Threads
<1>1. /\ UNCHANGED <<queue, freed, pc, on, call, client, made>>
      /\ \E p \in {"closed", "reused"} : port' = [port EXCEPT ![s] = p]
      /\ port[s] # "open"
  BY DEF ReuseHandle
<1>2. TypeOK'
  BY <1>1 DEF IInv, TypeOK, Places, WorkerPlaces
<1>3. \A y \in Threads : ThreadOK(y)'
  BY <1>1 DEF IInv, TypeOK, ThreadOK
<1>4. \A t \in Servers : ServerOK(t)'
  BY <1>1 DEF IInv, TypeOK, ServerOK
<1>5. OneTerminates'
  BY <1>1 DEF IInv, OneTerminates
<1> QED BY <1>2, <1>3, <1>4, <1>5 DEF IInv

LEMMA NestedStep == IInv /\ [Next]_vars => IInv'
<1> SUFFICES ASSUME IInv, [Next]_vars PROVE IInv'
  OBVIOUS
<1>1. ASSUME NEW x \in Threads, Calls(x) PROVE IInv'
  BY <1>1, RequestStep, TerminateStep DEF Calls
<1>2. ASSUME NEW x \in Threads, CallReturns(x) PROVE IInv'
  BY <1>2, ReturnStep
<1>3. ASSUME NEW s \in Servers, UaServerWorker(s) \/ ReuseHandle(s) PROVE IInv'
  BY <1>3, WorkerStep, ReuseStep
<1>4. CASE UNCHANGED vars
  BY <1>4
  DEF vars, IInv, TypeOK, ThreadOK, ServerOK, OneTerminates, Places
<1> QED BY <1>1, <1>2, <1>3, <1>4 DEF Next

\* Whatever calls callbacks make, UaTerminateServer frees no server under a
\* worker, a callback or a caller that is still there.
THEOREM FreedServersAreQuiet == Spec => []FreedServerIsQuiet
<1>1. IInv => FreedServerIsQuiet
  <2> SUFFICES ASSUME IInv, NEW s \in freed
               PROVE  /\ pc[s] = "exited"
                      /\ client[s] = Null
                      /\ \A x \in Threads : ~WaitsAt(x, s)
    BY DEF FreedServerIsQuiet
  <2>1. s \in Servers
    BY DEF IInv, TypeOK
  <2>2. pc[s] = "exited" /\ port[s] # "open" /\ client[s] = Null
    BY <2>1 DEF IInv, ServerOK
  <2>3. \A x \in Threads : ~WaitsAt(x, s)
    BY <2>1, <2>2 DEF IInv, ThreadOK, WaitsAt
  <2> QED BY <2>2, <2>3
<1> QED BY <1>1, NestedInit, NestedStep, PTL DEF Spec

-----------------------------------------------------------------------------
\* The request of a thread that waits is in the queue it was put in or in the
\* hands of that server's worker.
Remembered(x) ==
    call[x] = "wait" =>
      \/ client[on[x]] = x
      \/ \E i \in DOMAIN queue[on[x]] : queue[on[x]][i] = x

LEMMA RememberedAfterReceive ==
    ASSUME IInv, NEW s \in Servers, Receive(s),
           NEW x \in Threads, Remembered(x)
    PROVE  Remembered(x)'
<1> SUFFICES ASSUME call[x] = "wait", client'[on[x]] # x
             PROVE  \E i \in DOMAIN queue'[on[x]] : queue'[on[x]][i] = x
  BY DEF Remembered, Receive
<1>1. /\ queue[s] \in Seq(Threads) /\ queue[s] # <<>>
      /\ client' = [client EXCEPT ![s] = Head(queue[s])]
      /\ queue' = [queue EXCEPT ![s] = Tail(@)]
      /\ client[s] = Null /\ x # Null
  BY NestedAssumption DEF IInv, TypeOK, ServerOK, Receive, Threads
<1>2. on[x] \in Servers
  BY DEF IInv, ThreadOK
<1>3. CASE on[x] # s
  BY <1>1, <1>2, <1>3 DEF IInv, TypeOK, Remembered
<1>4. CASE on[x] = s
  <2>1. PICK i \in DOMAIN queue[s] : queue[s][i] = x
    BY <1>1, <1>4 DEF Remembered
  <2>2. Head(queue[s]) # x
    BY <1>1, <1>4 DEF IInv, TypeOK
  <2>3. i # 1 /\ i \in 1..Len(queue[s])
    BY <1>1, <2>1, <2>2
  <2>4. /\ i - 1 \in DOMAIN Tail(queue[s])
        /\ Tail(queue[s])[i - 1] = x
    BY <1>1, <2>1, <2>3
  <2>5. queue'[s] = Tail(queue[s])
    BY <1>1 DEF IInv, TypeOK
  <2> QED BY <1>4, <2>4, <2>5
<1> QED BY <1>3, <1>4

LEMMA RememberedAfterRequest ==
    ASSUME IInv, NEW y \in Threads, NEW s \in Servers,
           UaSendSynchronousRequest(y, s),
           NEW x \in Threads, Remembered(x)
    PROVE  Remembered(x)'
<1>1. call[y] # "wait"
  BY DEF IInv, ThreadOK, UaSendSynchronousRequest, MayCall
<1>2. CASE port[s] = "open"
  <2>1. /\ queue[s] \in Seq(Threads)
        /\ queue' = [queue EXCEPT ![s] = Append(@, y)]
        /\ queue'[s] = Append(queue[s], y)
    BY <1>2 DEF IInv, TypeOK, UaSendSynchronousRequest
  <2>2. /\ Len(queue[s]) + 1 \in DOMAIN queue'[s]
        /\ queue'[s][Len(queue[s]) + 1] = y
        /\ \A i \in DOMAIN queue[s] :
             i \in DOMAIN queue'[s] /\ queue'[s][i] = queue[s][i]
    BY <2>1
  <2>3. CASE x = y
    <3>1. on'[x] = s
      BY <2>3 DEF IInv, TypeOK, UaSendSynchronousRequest
    <3> QED BY <2>2, <2>3, <3>1 DEF Remembered
  <2>4. CASE x # y
    <3>1. call'[x] = call[x] /\ on'[x] = on[x] /\ client' = client
      BY <1>2, <2>4 DEF IInv, TypeOK, UaSendSynchronousRequest
    <3>2. call[x] = "wait" => on[x] \in Servers
      BY DEF IInv, ThreadOK
    <3>3. \A t \in Servers : t # s => queue'[t] = queue[t]
      BY <2>1 DEF IInv, TypeOK
    <3> QED BY <2>2, <3>1, <3>2, <3>3 DEF Remembered
  <2> QED BY <2>3, <2>4
<1>3. CASE port[s] # "open"
  BY <1>1, <1>3 DEF IInv, TypeOK, UaSendSynchronousRequest, Remembered
<1> QED BY <1>2, <1>3

LEMMA RememberedAfterTerminate ==
    ASSUME IInv, NEW y \in Threads, NEW s \in Servers,
           UaTerminateServer(y, s),
           NEW x \in Threads, Remembered(x)
    PROVE  Remembered(x)'
<1> SUFFICES ASSUME call'[x] = "wait" PROVE Remembered(x)'
  BY DEF Remembered
<1>1. call[x] = "wait" /\ on[x] # s /\ x # y
  BY DEF IInv, TypeOK, ThreadOK, UaTerminateServer, ClosePort, WaitsAt, MayCall
<1>2. on'[x] = on[x] /\ on[x] \in Servers
  BY <1>1 DEF IInv, TypeOK, ThreadOK, UaTerminateServer
<1>3. queue'[on[x]] = queue[on[x]] /\ client' = client
  BY <1>1, <1>2 DEF IInv, TypeOK, UaTerminateServer, ClosePort
<1> QED BY <1>1, <1>2, <1>3 DEF Remembered

LEMMA RememberedAfterReply ==
    ASSUME IInv, NEW s \in Servers, UaAlpcRequestReplies(s),
           NEW x \in Threads, Remembered(x)
    PROVE  Remembered(x)'
<1> SUFFICES ASSUME call'[x] = "wait" PROVE Remembered(x)'
  BY DEF Remembered
<1>1. call[x] = "wait" /\ on'[x] = on[x] /\ queue' = queue
  BY ReplyKinds DEF UaAlpcRequestReplies
<1>2. on[x] \in Servers /\ port[on[x]] = "open"
  BY <1>1 DEF IInv, ThreadOK
<1>3. on[x] = s => client[s] # x
  BY <1>1, <1>2
  DEF IInv, TypeOK, UaAlpcRequestReplies, Reply, Answerable, WaitsAt
<1>4. on[x] # s => client'[on[x]] = client[on[x]]
  BY <1>2 DEF IInv, TypeOK, UaAlpcRequestReplies
<1> QED BY <1>1, <1>2, <1>3, <1>4 DEF Remembered

LEMMA RememberedStep ==
    ASSUME IInv, [Next]_vars, \A x \in Threads : Remembered(x)
    PROVE  \A x \in Threads : Remembered(x)'
<1> SUFFICES ASSUME NEW x \in Threads PROVE Remembered(x)'
  OBVIOUS
<1>1. ASSUME NEW y \in Threads, Calls(y) PROVE Remembered(x)'
  BY <1>1, RememberedAfterRequest, RememberedAfterTerminate DEF Calls
<1>2. ASSUME NEW y \in Threads, CallReturns(y) PROVE Remembered(x)'
  <2>1. /\ queue' = queue /\ client' = client
        /\ call[x] = "wait" => on'[x] = on[x]
    BY <1>2
    DEF IInv, TypeOK, ThreadOK, CallReturns, UaSendSynchronousRequestReturns,
        UaTerminateServerReturns
  <2>2. call'[x] = "wait" => call[x] = "wait"
    BY <1>2
    DEF IInv, TypeOK, CallReturns, UaSendSynchronousRequestReturns,
        UaTerminateServerReturns
  <2> QED BY <2>1, <2>2 DEF Remembered
<1>3. ASSUME NEW s \in Servers, UaServerWorker(s) \/ ReuseHandle(s)
      PROVE  Remembered(x)'
  <2>1. CASE Receive(s)
    BY <2>1, RememberedAfterReceive
  <2>2. CASE \/ EnterReceive(s) \/ ReceiveFails(s) \/ ReceiveAstray(s)
             \/ OnRequestReturns(s) \/ ReuseHandle(s)
    BY <2>2
    DEF EnterReceive, ReceiveFails, ReceiveAstray, OnRequestReturns,
        ReuseHandle, Remembered
  <2>3. CASE UaAlpcRequestReplies(s)
    BY <2>3, RememberedAfterReply
  <2> QED BY <1>3, <2>1, <2>2, <2>3 DEF UaServerWorker
<1>4. CASE UNCHANGED vars
  BY <1>4 DEF vars, Remembered
<1> QED BY <1>1, <1>2, <1>3, <1>4 DEF Next

\* However callbacks call and terminate servers, the worker that a request or
\* UaTerminateServer waits for has something to do or waits in a callback,
\* unless the caller is abandoned.
LEMMA WaitsLeadToARunner ==
    ASSUME IInv, \A x \in Threads : Remembered(x)
    PROVE  WhoIsWaitedForGoesOn
<1>0. ASSUME NEW x \in Threads, WaitsFor(x) # Null
      PROVE  WaitsFor(x) = on[x] /\ WaitsFor(x) \in Servers
  BY <1>0 DEF WaitsFor, IInv, ThreadOK
<1> SUFFICES ASSUME NEW x \in Threads, NEW s \in Servers,
                    WaitsFor(x) = s, s = on[x], s # Null, WaitsFor(s) = Null,
                    ~Abandoned(x)
             PROVE  GoesOn(s)
  BY <1>0 DEF WhoIsWaitedForGoesOn
<1>1. s \in Threads
  BY DEF Threads
<1>2. \/ pc[x] = "calling" /\ call[x] = "wait" /\ port[s] = "open"
      \/ pc[x] = "joining" /\ port[s] # "open" /\ pc[s] # "astray"
  BY <1>1 DEF WaitsFor, Abandoned, IInv, ThreadOK
<1>3. /\ pc[s] \in {"receive", "waiting", "callback", "reply", "calling",
                    "joining"}
  <2>1. pc[s] \in {"receive", "waiting", "astray", "callback", "reply",
                   "exited", "calling", "joining"}
    BY <1>1 DEF IInv, TypeOK, Places, WorkerPlaces
  <2>2. pc[s] # "exited"
    BY <1>1 DEF WaitsFor, Abandoned
  <2>3. pc[s] = "astray" => port[s] # "open"
    BY <1>1 DEF IInv, ServerOK
  <2> QED BY <1>2, <2>1, <2>2, <2>3
<1>4. CASE pc[s] = "waiting"
  <2>1. client[s] = Null /\ x # Null
    BY <1>1, <1>4, NestedAssumption DEF IInv, ServerOK, Threads
  <2>2. port[s] = "open" => queue[s] # <<>>
    BY <1>1, <1>2, <2>1 DEF Remembered
  <2> QED BY <1>2, <1>4, <2>2 DEF GoesOn
<1>5. CASE pc[s] \in {"receive", "callback", "reply"}
  BY <1>5 DEF GoesOn
<1>6. CASE pc[s] \in {"calling", "joining"}
  <2>1. on[s] # Null /\ call[s] \in {"none", "wait", "lost", "done"}
        /\ (pc[s] = "calling" => call[s] # "none")
    BY <1>1, <1>6, NestedAssumption DEF IInv, TypeOK, ThreadOK
  <2> QED BY <1>6, <2>1 DEF WaitsFor, GoesOn
<1> QED BY <1>3, <1>4, <1>5, <1>6

\* Who is not abandoned by a failed reply, by a receive that failed at the open
\* port or by a worker astray waits for one that goes on or waits too, for any
\* servers, threads and nesting of callbacks.
THEOREM WaitsEndAtRunners == Spec => []WhoIsWaitedForGoesOn
<1> DEFINE Inv == IInv /\ \A x \in Threads : Remembered(x)
<1>1. Init => Inv
  BY NestedInit DEF Init, Remembered
<1>2. Inv /\ [Next]_vars => Inv'
  BY NestedStep, RememberedStep
<1>3. Inv => WhoIsWaitedForGoesOn
  BY WaitsLeadToARunner
<1> QED BY <1>1, <1>2, <1>3, PTL DEF Spec

\* C holds x, whom a member waits for, whom that one waits for, and so on.
ChainFrom(x, C) ==
    x \in C /\ \A y \in C : WaitsFor(y) # Null => WaitsFor(y) \in C

Goes(C) == \E s \in C \cap Servers : GoesOn(s)

\* The chain of waits from a thread has a worker that goes on or leads nowhere:
\* into a circle of the callbacks' own calls, or to an abandoned thread.
THEOREM HangsHaveACause ==
    Spec => [](\A x \in Threads : \A C \in SUBSET Threads :
                 WaitsFor(x) # Null /\ ChainFrom(x, C) =>
                   Goes(C) \/ LeadsNowhere(x))
<1>1. ASSUME IInv, WhoIsWaitedForGoesOn,
             NEW x \in Threads, NEW C \in SUBSET Threads,
             WaitsFor(x) # Null, ChainFrom(x, C), ~Goes(C)
      PROVE  LeadsNowhere(x)
  <2> DEFINE D == {y \in C : WaitsFor(y) # Null}
  <2>1. ASSUME NEW y \in D PROVE Abandoned(y) \/ WaitsFor(y) \in D
    <3>1. WaitsFor(y) \in C \cap Servers
      BY <1>1 DEF ChainFrom, IInv, ThreadOK, WaitsFor
    <3> QED BY <1>1, <3>1 DEF WhoIsWaitedForGoesOn, Goes
  <2>2. x \in D /\ D \in SUBSET Threads
    BY <1>1 DEF ChainFrom
  <2> QED BY <2>1, <2>2 DEF LeadsNowhere
<1>2. Spec => []IInv
  BY NestedInit, NestedStep, PTL DEF Spec
<1>3. IInv /\ WhoIsWaitedForGoesOn =>
        \A x \in Threads : \A C \in SUBSET Threads :
          WaitsFor(x) # Null /\ ChainFrom(x, C) => Goes(C) \/ LeadsNowhere(x)
  BY <1>1
<1> QED BY <1>2, <1>3, WaitsEndAtRunners, PTL

-----------------------------------------------------------------------------
\* Every call a callback makes goes to a server of lower rank.
Descending(rank) ==
    \A s \in Servers : on[s] # Null => rank[on[s]] < rank[s]

\* The workers of a circle each have one of lower rank below them, and finitely
\* many cannot go down for ever.
LEMMA NoCircleDescends ==
    ASSUME IsFiniteSet(Servers), NEW rank \in [Servers -> Int],
           Descending(rank), NEW C \in SUBSET Servers, C # {},
           \A s \in C : WaitsFor(s) \in C
    PROVE  FALSE
<1> DEFINE Below(s) == {t \in Servers : rank[t] < rank[s]}
           Sets == {Below(s) : s \in C}
           R == StrictSubsetOrdering(Servers)
<1>1. \A s \in C : WaitsFor(s) \in C /\ rank[WaitsFor(s)] < rank[s]
  BY NestedAssumption DEF Descending, WaitsFor
<1>2. PICK D \in Sets : \A E \in Sets : <<E, D>> \notin R
  <2>1. IsWellFoundedOn(R, SUBSET Servers)
    BY FS_StrictSubsetOrderingWellFounded, FS_FiniteSubsetsOfFinite, Zenon
  <2>2. Sets \subseteq SUBSET Servers /\ Sets # {}
    OBVIOUS
  <2> HIDE DEF Sets, R
  <2> QED BY <2>1, <2>2, WFMin, Zenon
<1>3. PICK s \in C : D = Below(s)
  OBVIOUS
<1>4. Below(WaitsFor(s)) \in Sets /\ WaitsFor(s) \in Below(s)
  BY <1>1
<1>5. /\ Below(WaitsFor(s)) \subseteq Below(s)
      /\ WaitsFor(s) \notin Below(WaitsFor(s))
  BY <1>1
<1>6. <<Below(WaitsFor(s)), Below(s)>> \in R
  BY <1>4, <1>5 DEF StrictSubsetOrdering
<1> QED BY <1>2, <1>3, <1>4, <1>6

\* When callbacks call and terminate only servers of lower rank than their own
\* there is no circle to wait in: the chain of waits from a thread has a worker
\* that goes on or a thread that is abandoned.
THEOREM DescendingCallsNeverHang ==
    ASSUME IsFiniteSet(Servers), NEW rank \in [Servers -> Int]
    PROVE  Spec /\ []Descending(rank) =>
             [](\A x \in Threads : \A C \in SUBSET Threads :
                  WaitsFor(x) # Null /\ ChainFrom(x, C) =>
                    Goes(C) \/ \E y \in C : Abandoned(y))
<1>1. ASSUME IInv, WhoIsWaitedForGoesOn, Descending(rank),
             NEW x \in Threads, NEW C \in SUBSET Threads,
             WaitsFor(x) # Null, ChainFrom(x, C), ~Goes(C),
             \A y \in C : ~Abandoned(y)
      PROVE  FALSE
  <2> DEFINE D == {s \in C \cap Servers : WaitsFor(s) # Null}
  <2>1. ASSUME NEW y \in C, WaitsFor(y) # Null PROVE WaitsFor(y) \in D
    <3>1. WaitsFor(y) \in C \cap Servers
      BY <1>1, <2>1 DEF ChainFrom, IInv, ThreadOK, WaitsFor
    <3> QED BY <1>1, <2>1, <3>1 DEF WhoIsWaitedForGoesOn, Goes
  <2>2. WaitsFor(x) \in D
    BY <1>1, <2>1 DEF ChainFrom
  <2>3. D # {} /\ \A s \in D : WaitsFor(s) \in D
    BY <2>1, <2>2
  <2> HIDE DEF D
  <2>4. D \in SUBSET Servers
    BY DEF D
  <2> QED BY <1>1, <2>3, <2>4, NoCircleDescends
<1>2. Spec => []IInv
  BY NestedInit, NestedStep, PTL DEF Spec
<1>3. IInv /\ WhoIsWaitedForGoesOn /\ Descending(rank) =>
        \A x \in Threads : \A C \in SUBSET Threads :
          WaitsFor(x) # Null /\ ChainFrom(x, C) =>
            Goes(C) \/ \E y \in C : Abandoned(y)
  BY <1>1
<1> QED BY <1>2, <1>3, WaitsEndAtRunners, PTL
=============================================================================
