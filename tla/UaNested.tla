------------------------------ MODULE UaNested ------------------------------
(***************************************************************************)
(* Several servers of ua.c whose OnRequest callbacks use the library       *)
(* themselves: a callback runs on its server's one worker thread, between  *)
(* the receive and the reply, and may send a synchronous request to a      *)
(* server or terminate one, its own included.  Both calls wait without a   *)
(* timeout, and while they do the worker receives nothing.                 *)
(*                                                                         *)
(* Only what decides who waits for whom is kept of module UaServer: every  *)
(* server exists, every thread is connected to each, and no client dies.   *)
(* As there, receiving and replying may fail at an open port, and a closed *)
(* handle's value may name another port of the process, one of none of     *)
(* these servers.                                                          *)
(***************************************************************************)
EXTENDS Naturals, Sequences

CONSTANTS
    Servers,   \* the servers, and their worker threads
    Outside,   \* threads that are nobody's worker
    MaxCalls,  \* bound: calls into the library one callback makes
    ReceiveMayFail, ReplyMayFail, HandleReuse,  \* as in UaServer
    Null       \* no server, no caller

ASSUME NestedAssumption ==
    /\ Servers \cap Outside = {}
    /\ Null \notin Servers \cup Outside
    /\ MaxCalls \in Nat
    /\ {ReceiveMayFail, ReplyMayFail, HandleReuse} \subseteq BOOLEAN

Threads == Servers \cup Outside

VARIABLES
    port,    \* per server: what the value of its port handle names, its own
             \* "open" port, nothing ("closed") or another port ("reused")
    queue,   \* per server: the threads whose requests wait at its port
    freed,   \* the servers whose UA_SERVER has been freed
    pc,      \* per thread: where it is
    on,      \* per thread: the server it is calling or terminating, or Null
    call,    \* per thread: its synchronous request, "none", "wait", "done", or
             \* "lost" when it waits and its reply has failed
    client,  \* per server: whose request its worker has in hand, or Null
    made     \* per server: the calls its callback has made

vars == <<port, queue, freed, pc, on, call, client, made>>

\* Outside threads "run"; a worker is about to receive, waits at its own port
\* or, "astray", at another, is in its callback, about to reply, or gone; either
\* may wait in one of the two calls.
WorkerPlaces == {"receive", "waiting", "astray", "callback", "reply", "exited"}

Places(x) ==
    {"calling", "joining"} \cup IF x \in Servers THEN WorkerPlaces ELSE {"run"}

TypeOK ==
    /\ port \in [Servers -> {"open", "closed", "reused"}]
    /\ queue \in [Servers -> Seq(Threads)]
    /\ freed \subseteq Servers
    /\ pc \in [Threads -> WorkerPlaces \cup {"run", "calling", "joining"}]
    /\ \A x \in Threads : pc[x] \in Places(x)
    /\ on \in [Threads -> Servers \cup {Null}]
    /\ call \in [Threads -> {"none", "wait", "lost", "done"}]
    /\ client \in [Servers -> Threads \cup {Null}]
    /\ made \in [Servers -> 0..MaxCalls]

Init ==
    /\ port = [s \in Servers |-> "open"]
    /\ queue = [s \in Servers |-> <<>>]
    /\ freed = {}
    /\ pc = [x \in Threads |-> IF x \in Servers THEN "receive" ELSE "run"]
    /\ on = [x \in Threads |-> Null]
    /\ call = [x \in Threads |-> "none"]
    /\ client = [s \in Servers |-> Null]
    /\ made = [s \in Servers |-> 0]

-----------------------------------------------------------------------------
\* The two calls, made by any thread x.

\* Code of the user runs in x, and goes on with "more" after its call.
MayCall(x) ==
    IF x \in Servers THEN pc[x] = "callback" /\ made[x] < MaxCalls
                     ELSE pc[x] = "run"

Counted(x) ==
    made' = IF x \in Servers THEN [made EXCEPT ![x] = @ + 1] ELSE made

UserCode(x) == IF x \in Servers THEN "callback" ELSE "run"

\* UaSendSynchronousRequest up to its system call, which waits at an open port
\* and fails on a closed one.
UaSendSynchronousRequest(x, s) ==
    /\ MayCall(x)
    /\ pc' = [pc EXCEPT ![x] = "calling"]
    /\ on' = [on EXCEPT ![x] = s]
    /\ IF port[s] = "open"
         THEN /\ queue' = [queue EXCEPT ![s] = Append(@, x)]
              /\ call' = [call EXCEPT ![x] = "wait"]
         ELSE /\ call' = [call EXCEPT ![x] = "done"]
              /\ UNCHANGED queue
    /\ Counted(x)
    /\ UNCHANGED <<port, freed, client>>

\* Answered or not, the system call has returned.
UaSendSynchronousRequestReturns(x) ==
    /\ pc[x] = "calling"
    /\ call[x] = "done"
    /\ pc' = [pc EXCEPT ![x] = UserCode(x)]
    /\ on' = [on EXCEPT ![x] = Null]
    /\ call' = [call EXCEPT ![x] = "none"]
    /\ UNCHANGED <<port, queue, freed, client, made>>

WaitsAt(x, s) == on[x] = s /\ call[x] \in {"wait", "lost"}

\* A variant that waits for a worker it has not told to stop.
ClosePortNot(s) == UNCHANGED <<port, queue, call>>

\* NtClose of the connection port: every request to it fails, those that wait
\* in the queue, the one the worker has in hand and those it could not answer.
ClosePort(s) ==
    /\ port' = [port EXCEPT ![s] = "closed"]
    /\ queue' = [queue EXCEPT ![s] = <<>>]
    /\ call' = [x \in Threads |-> IF WaitsAt(x, s) THEN "done" ELSE call[x]]

\* UaTerminateServer up to its wait; a server is terminated once.
UaTerminateServer(x, s) ==
    /\ MayCall(x)
    /\ s \notin freed
    /\ \A y \in Threads : ~(pc[y] = "joining" /\ on[y] = s)
    /\ ClosePort(s)
    /\ pc' = [pc EXCEPT ![x] = "joining"]
    /\ on' = [on EXCEPT ![x] = s]
    /\ Counted(x)
    /\ UNCHANGED <<freed, client>>

\* A variant that does not wait for the worker's thread.
WorkerIsDoneUnwaited(s) == TRUE

WorkerIsDone(s) == pc[s] = "exited"

UaTerminateServerReturns(x) ==
    /\ pc[x] = "joining"
    /\ WorkerIsDone(on[x])
    /\ freed' = freed \cup {on[x]}
    /\ pc' = [pc EXCEPT ![x] = UserCode(x)]
    /\ on' = [on EXCEPT ![x] = Null]
    /\ UNCHANGED <<port, queue, call, client, made>>

CallReturns(x) ==
    UaSendSynchronousRequestReturns(x) \/ UaTerminateServerReturns(x)

Calls(x) ==
    \E s \in Servers : UaSendSynchronousRequest(x, s) \/ UaTerminateServer(x, s)

-----------------------------------------------------------------------------
\* The worker of s: UaServerWorker, and UaAlpcRequest around the callback.

\* The value of the closed handle is given to another port, or that is closed.
ReuseHandle(s) ==
    /\ HandleReuse
    /\ s \notin freed
    /\ \/ port[s] = "closed" /\ port' = [port EXCEPT ![s] = "reused"]
       \/ port[s] = "reused" /\ port' = [port EXCEPT ![s] = "closed"]
    /\ UNCHANGED <<queue, freed, pc, on, call, client, made>>

EnterReceive(s) ==
    /\ pc[s] = "receive"
    /\ pc' = [pc EXCEPT ![s] = CASE port[s] = "open" -> "waiting"
                                 [] port[s] = "reused" -> "astray"
                                 [] port[s] = "closed" -> "exited"]
    /\ UNCHANGED <<port, queue, freed, on, call, client, made>>

Receive(s) ==
    /\ pc[s] = "waiting"
    /\ queue[s] # <<>>
    /\ client' = [client EXCEPT ![s] = Head(queue[s])]
    /\ queue' = [queue EXCEPT ![s] = Tail(@)]
    /\ pc' = [pc EXCEPT ![s] = "callback"]
    /\ made' = [made EXCEPT ![s] = 0]
    /\ UNCHANGED <<port, freed, on, call>>

\* The port is closed under the call, or the call fails at an open one.
ReceiveFails(s) ==
    /\ pc[s] = "waiting"
    /\ port[s] # "open" \/ ReceiveMayFail
    /\ pc' = [pc EXCEPT ![s] = "exited"]
    /\ UNCHANGED <<port, queue, freed, on, call, client, made>>

\* At another port: its request or datagram goes to the callback, what has no
\* callback back to the loop or, like a failing call, out of it.
ReceiveAstray(s) ==
    /\ pc[s] = "astray"
    /\ \E l \in {"callback", "receive", "exited"} : pc' = [pc EXCEPT ![s] = l]
    /\ made' = [made EXCEPT ![s] = 0]
    /\ UNCHANGED <<port, queue, freed, on, call, client>>

OnRequestReturns(s) ==
    /\ pc[s] = "callback"
    /\ pc' = [pc EXCEPT ![s] = "reply"]
    /\ UNCHANGED <<port, queue, freed, on, call, client, made>>

\* A variant that returns to the loop without having replied.
ReplyNothing(s) == call

\* The worker has a request of its own port in hand whose caller still waits.
Answerable(s) == port[s] = "open" /\ WaitsAt(client[s], s)

\* It is answered; every other reply is in vain.
Reply(s) == IF Answerable(s) THEN [call EXCEPT ![client[s]] = "done"] ELSE call

\* The reply's status is ignored: when it fails the caller waits on.
UaAlpcRequestReplies(s) ==
    /\ pc[s] = "reply"
    /\ \/ call' = Reply(s)
       \/ /\ ReplyMayFail
          /\ Answerable(s)
          /\ call' = [call EXCEPT ![client[s]] = "lost"]
    /\ client' = [client EXCEPT ![s] = Null]
    /\ pc' = [pc EXCEPT ![s] = "receive"]
    /\ UNCHANGED <<port, queue, freed, on, made>>

UaServerWorker(s) ==
    \/ EnterReceive(s)
    \/ Receive(s)
    \/ ReceiveFails(s)
    \/ ReceiveAstray(s)
    \/ OnRequestReturns(s)
    \/ UaAlpcRequestReplies(s)

\* It waits and nothing has come, or it waits at a port of somebody else: that
\* this ends is nobody's promise.
Idle(s) ==
    \/ pc[s] = "waiting" /\ port[s] = "open" /\ queue[s] = <<>>
    \/ pc[s] = "astray"

-----------------------------------------------------------------------------
Next ==
    \/ \E x \in Threads : Calls(x) \/ CallReturns(x)
    \/ \E s \in Servers : UaServerWorker(s) \/ ReuseHandle(s)

\* A worker that can run runs, its callback ends, and a call whose wait is over
\* returns; nobody has to make a call, to send to another port or to close it,
\* and no call has to fail.
Fairness ==
    /\ \A s \in Servers : WF_vars(UaServerWorker(s) /\ ~Idle(s))
    /\ \A x \in Threads : WF_vars(CallReturns(x))

Spec == Init /\ [][Next]_vars /\ Fairness

-----------------------------------------------------------------------------
\* The worker x waits for: to handle its request, or to exit.
WaitsFor(x) ==
    IF \/ pc[x] = "calling" /\ call[x] \in {"wait", "lost"}
       \/ pc[x] = "joining" /\ pc[on[x]] # "exited"
      THEN on[x] ELSE Null

\* Nothing the worker does of itself ends x's wait: the reply to x has failed,
\* the worker ended at its open port, or it waits at a port of somebody else.
Abandoned(x) ==
    \/ call[x] = "lost"
    \/ call[x] = "wait" /\ pc[on[x]] = "exited"
    \/ pc[x] = "joining" /\ pc[on[x]] = "astray"

\* The worker of s has a step to take, or the call its callback made returns.
GoesOn(s) ==
    \/ pc[s] \in {"receive", "callback", "reply"}
    \/ pc[s] = "waiting" /\ (queue[s] # <<>> \/ port[s] # "open")
    \/ pc[s] = "calling" /\ call[s] = "done"
    \/ pc[s] = "joining" /\ pc[on[s]] = "exited"

\* A thread that is not abandoned waits for a worker that goes on or waits for
\* another itself: no worker is gone before its callers at a port that was
\* closed under them, none is back at its receive with nothing to tell it of
\* them (ua.c's NtClose at 261 against the receive at 232 and the reply at 52).
WhoIsWaitedForGoesOn ==
    \A x \in Threads :
      WaitsFor(x) # Null =>
        \/ Abandoned(x)
        \/ GoesOn(WaitsFor(x))
        \/ WaitsFor(WaitsFor(x)) # Null

\* x waits for a worker that waits for another, and so on, until one that is
\* abandoned or round in a circle.
LeadsNowhere(x) ==
    \E C \in SUBSET Threads :
      x \in C /\ \A y \in C : Abandoned(y) \/ WaitsFor(y) \in C

\* UaSendSynchronousRequest passes no timeout.  It waits for ever only where the
\* callbacks' own calls lead in a circle or to a thread whose reply failed,
\* whose server's worker ended at the open port, or which terminates a server
\* whose worker strayed to another port: never because a server it waits for, at
\* however many removes, was terminated or closed its port on requests in the
\* queue or in hand.
CallsHangOnlyForCause ==
    \A x \in Threads : <>[](pc[x] = "calling") => []<>LeadsNowhere(x)

\* So does UaTerminateServer: a circle of calls through the server it
\* terminates, and a caller abandoned there, are set free by its NtClose.
TerminateHangsOnlyForCause ==
    \A x \in Threads : <>[](pc[x] = "joining") => []<>LeadsNowhere(x)

\* When UaTerminateServer has freed a server, no instruction of its worker is
\* left, in a callback or below it, no thread waits at it, and no callback of
\* its own was the one that waited for its worker.
FreedServerIsQuiet ==
    \A s \in freed :
      /\ pc[s] = "exited"
      /\ client[s] = Null
      /\ \A x \in Threads : ~WaitsAt(x, s)
=============================================================================
