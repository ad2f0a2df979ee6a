# Models of alpc-research

TLA+ modules, TLC runs and TLAPS proofs for the programs in `src/alpc-research`: a
user-mode RPC library over Windows ALPC ports (`ua.c`), its kernel-mode sibling
(`ka.c`), two earlier generations of it (`AdvancedLocalProcedureCallServer.c`,
`AdvancedLocalProcedureCall.c`), and the demonstration program the project file
builds (`server.c`, `client.c`, `alpc-research.c`, `runtime.c`).

## The system

| Component | Source | State it keeps | Operations | Talks to |
|---|---|---|---|---|
| Library, server half | `ua.c` 44-366 | `UA_SERVER`: callbacks, message buffer, attribute buffer, port handle, thread handle; one `PORT_CONTEXT` per accepted client | `UaCreateServer`, `UaTerminateServer`, the worker `UaServerWorker` with `UaProcessMessage` and four handlers | the port; the user's callbacks `OnRequest`, `OnDatagram`, `OnConnect` |
| Library, client half | `ua.c` 368-531 | nothing between calls but the caller's port handle | `UaConnectServer`, `UaSendSynchronousRequest`, `UaSendDatagram`, `UaDisconnectServer` | the port |
| Demonstration server | `server.c` | the worker's own two buffers, one `PORT_CONTEXT` per client | `SrvInitializeChannel`, `SrvServerWorker`, `SrvProcessMessage`, four handlers | the port; started by `main` |
| Demonstration clients | `client.c`, `alpc-research.c` | a message and a counter per test | `main`, `CliTestDatagram`, `CliTestSyncRequest` | the port |
| Kernel-mode library | `ka.c` | as `ua.c`, in a `KA_SERVER_OBJECT` | as `ua.c` | the port |
| Generation with client objects | `AdvancedLocalProcedureCall.c` | as `ua.c`, and a `CLIENT_OBJECT` per connection | as `ua.c`, named `Srv*` | the port |
| First generation | `AdvancedLocalProcedureCallServer.c` | as `ua.c`, and a `CLIENT_OBJECT` with a message buffer per connection | as `ua.c`, without `OnRequest` and without synchronous requests | the port |
| Runtime | `runtime.c` | none | heap and thread wrappers | - |
| ALPC port | the kernel, not here | a FIFO queue, connections, blocked calls, retained messages | the `NtAlpc*` calls and `NtClose` | everything above |

What is hard in it:

* **Three threads of control meet at one port**: the owner that creates and terminates,
  the worker, and the clients, any of which may die. The owner frees what the worker
  uses; the worker frees contexts that messages still on their way name.
* **Every system call may fail**, and what a handler returns decides whether the
  worker goes on serving everybody else.
* **Blocking without timeouts**: no call passes one, so a client that is forgotten
  waits for ever, and callbacks that call the library wait for each other's one worker.
* **Buffers used again**: one message buffer for all messages, the request's buffer
  for its answer, `BufferLength` overwritten by each call, the value of a closed handle
  that the worker goes on using, even to receive and answer at another port that got it.
* **Ignored statuses**: a reply or a refusal that fails for a client that still waits
  leaves it waiting, and nothing in `ua.c` remembers it.
* **16-bit lengths**.

What makes each part correct: the server frees only what nobody uses and gives back
everything a failed creation obtained; contexts and handles live and die together;
every end-of-connection message finds its context; no client can end the service; a
blocked client is on its way to an answer unless its own reply or refusal failed; a successful request holds its own
answer; callbacks see each client's sends in order and once. `PROJECT.json` lists the
hazards line by line with the properties about each.

## Modules

| Module | Models |
|---|---|
| `AlpcPort` | the port, as an assumption (below) |
| `UaServer` | the server half of `ua.c`: the owner's and the worker's actions |
| `UaClient` | the client half of `ua.c` |
| `UaSystem` | both around one port, with the properties, the inductive invariant `IInv` and the fairness |
| `RpcService` | the abstract service: what a user of `ua.h` may rely on, without ports, messages, threads |
| `UaRpc` | the refinement mapping from `UaSystem` to `RpcService`, and the invariant it needs |
| `UaMessage` | the length arithmetic of the three functions of `ua.c` that build a message |
| `SrvChannel` | `server.c` |
| `CliTests` | `client.c` and `main`, on top of `SrvChannel` |
| `Channel` | the demonstration program as a whole, with its properties |
| `UaNested` | several servers of `ua.c` whose `OnRequest` callbacks call the library: who waits for whom |
| `ObjectLibrary` | `AdvancedLocalProcedureCall.c`, on top of `AlpcPort` alone, and the refinement mapping from it to `UaSystem` |
| `KaServer` | `ka.c`, on top of `ObjectLibrary`, with the worker's start context as a constant |
| `FirstLibrary` | `AdvancedLocalProcedureCallServer.c`, on top of `UaRpc` |
| `MCUaSystem`, `MCUaMessage`, `MCUaNested`, `MCChannel`, `MCObjectLibrary`, `MCKaServer`, `MCFirstLibrary` | instances for TLC |
| `AlpcPort_proofs` | lemmas about messages and the port that the other proofs share |
| `UaSystem_proofs`, `UaRpc_proofs`, `UaMessage_proofs`, `UaNested_proofs`, `Channel_proofs`, `FirstLibrary_proofs` | the proofs about the module of that name |
| `ObjectLibrary_proofs` | the proofs about `ObjectLibrary` and `KaServer` |

`UaServer` and `UaClient` extend `AlpcPort`, `UaSystem` composes them, `UaRpc` and the
proofs extend `UaSystem`. `SrvChannel`, `CliTests` and `Channel` stand on the same
`AlpcPort`.

`ObjectLibrary` shares no definition with `UaServer` and `UaClient`: it is
`AdvancedLocalProcedureCall.c` translated on its own, with one step per call that may fail,
each of the three refusals (120, 134, 146) written out, a `PORT_CONTEXT` as one variable per
client (`portContexts`) and the `CLIENT_OBJECT`s (`objects`) that `ua.c` does not have. That it
behaves as `ua.c` is then a question, and `IsUaSystem` asks it: `Ua` is `UaSystem` instantiated
with a mapping in which initialising the attributes and building a message are no
steps, the three refusals are one place, a context is `contexts` and `commHandles`, and the
object is hidden.

`ka.c` has the functions of `AdvancedLocalProcedureCall.c`, call for call, under the `Zw*`
and `Ka` names. So `KaServer` extends `ObjectLibrary`, groups its actions by the functions of
`ka.c`, and adds what differs: the worker's parameter, which is the constant
`StartContext`, and the fault of a worker that was given NULL.

`FirstLibrary` extends `UaRpc`, to be compared with the same `RpcService`. It takes
`UaServer`'s steps where the older file makes the same calls, and has its own where it
does not: the request sent back as its own reply, the status of that reply and of the
last accept call as the worker's (of a foreign message too), and a client object with a buffer
(`clientHeap`). It has no
function for a request; `Request` is the system call a user makes on the object's
handle, as `client.c` does.

`UaNested` is a model of its own. `UaSystem` has one server and callbacks that return;
here there are many servers and every thread, the workers in their callbacks
included, may send requests and terminate servers. Of the library it keeps what
decides who waits for whom, receives and replies that fail at an open port and reused
handle values included. A request whose reply failed is `lost`: the caller waits on. Terminating a server twice is a misuse the interface
excludes and the model does too; calling a server that is terminated is not.

### Correspondence with the code

*Atomicity.* In `UaServer` an action runs from one system call (or callback) to the
next: between them the thread touches only what is its own. `opc` is the program
counter of the owner (`UaCreateServer`'s five steps, `Cleanup`, `UaTerminateServer`'s
two halves around its wait), `wpc` that of the worker. Entering
`NtAlpcSendWaitReceivePort` and returning from it are two actions, since what the handle's
value means is settled at entry. A client function that blocks is two actions.
`SrvChannel` is coarser: there the handle is always valid and the worker's buffers are
its own, so a handler is one action per system call. Its worker has four ways out, the
returns at `server.c` 240, 250 and 257 and the end of the loop, each with the frees of its own
(`Leave`).

*State.* `heap` is the set of live allocations of a server; `hport` is what
`Server->ConnectionPortHandle` is worth (`stale` after the close, `foreign` when the
process has given the value to another handle since); `msg` is `Server->PortMessage`;
`contexts` and `commHandles` are the live `PORT_CONTEXT`s and the open handles in them;
`wexit` tells which `break` ended the worker; `buf` is the caller's
`RequestDataBuffer`; `cmsg` the message inside a blocked call. `handled` is an
observation: the last send of each client that a callback was given. The other observations are
`result`, the status of a client's last call, and `unanswered`, the clients whose reply or
refusal was made and failed while they waited.

*A reused handle.* When the worker enters its receive with a `foreign` handle it is `astray`: it
waits at another port of the process. That call may fail (the port is closed, or the handle is no
port's) or return a `stray`, a message of any type from nobody this server knows. The
worker then runs its handler on it (`ProcessStray`) and goes on, or, where the handler returns
the status of a call (`UaAlpcDisconnect`; in the first generation all but the datagram's),
may break out of its loop at 247. What the handler closes, frees, accepts and answers is then the
other port's and reached through that port's contexts: it changes nothing of this server's state.
With a message of its own port in hand, a reply, refusal, accept or cancel on a
foreign handle fails, because the message is not one of that port.

*Data.* A message carries its client, the number of the send it is, and whether
`OnRequest` has answered it; nothing in `ua.c` looks at the body. In `UaSystem` the callbacks
are assumed to return (`UaNested` is about those that wait); `OnRequest` answers in place, `OnConnect` says yes or no. A client
is refused for want of memory or by `OnConnect` along the same path
(`WithoutContext`), because the two branches make the same call.

*Out of the models:* the first allocation of `UaCreateServer` failing (it returns NULL
and changes nothing), the conversion of names, object and port attributes, printing.
`AlpcGetMessageAttribute` returns NULL only for an attribute the buffer was not
initialised with: `HasContextAttribute`. `server.c` makes the same test on a buffer
the worker has always initialised, so `SrvChannel` leaves it out. The initial
delays of one second in `client.c` order nothing and are left out. So is the delay that
`client.c` 102-103 has commented out between the last datagram and the close of the connection: with it the
datagrams would in all likelihood be handled before the close, without it `EverythingArrives`
rests on an assumption about the port, below: what a client sent is still delivered after the
client is gone, and before the message of its end.

### The port (`AlpcPort`)

The kernel is not in this repository. The module assumes:

* one connection port; what clients send waits in one FIFO queue;
* a connection request blocks until it is accepted, refused or the port is closed;
* a synchronous request blocks until the reply or the close of the port;
* replying to and refusing a client that still waits may fail for want of resources
  (`ReplyMayFail`), for one that does not wait they do nothing;
* closing the connection port drops its queue, makes blocked and later calls of
  clients fail, and wakes the worker with an error;
* the server learns of the end of an accepted connection by exactly one message,
  `LPC_PORT_CLOSED` or `LPC_CLIENT_DIED`, after everything the client sent; a client
  that dies while waiting may leave one further message of a type the switch does
  not name, before it;
* what a client queued before it closed its end or died is still delivered; a reply to it, or accepting
  it, fails;
* a datagram may require a continuation, and is then retained until it is cancelled
  or the port is closed.

A member of `Clients` is one connection used by one thread. A program that connects
again is another member; two threads sharing a handle are not modelled. A terminated
server is final: another `UaCreateServer` makes another server on another port.
A handle of the process that got the closed handle's value is modelled by what the
worker's calls with it do to the worker (wait elsewhere, handle what comes there, or fail), not by
what they do to the other port.

## Runs

| Run | Instance | Question |
|---|---|---|
| `ua_safety` | 2 clients, 2 sends each, queue bound 3; handle reuse, failing receives, replies and refusals; 1 608 161 states | the safety properties and `HandledInOrder` |
| `ua_rpc` | the same without handle reuse; 531 195 states | does `UaSystem` implement `RpcService`? |
| `ua_liveness` | 2 clients, 1 send, queue bound 2; failing receives, replies and refusals, no handle reuse; 105 554 states | do calls, termination and reclaiming complete? |
| `ua_message` | 32-bit sizes (24, 0xFFEF), 147 lengths at both ends of a USHORT; 2 062 states | the arithmetic where the sum does not wrap |
| `ua_oversized` | 64-bit sizes (40, 0xFFFF) | finding: the length test rejects nothing |
| `ua_connect_length` | the same | finding: `BufferLength` is larger than the message |
| `channel_failures` | 4 iterations, everything may fail; 3 829 states | the demonstration program under failure |
| `channel_finishes` | 6 iterations, nothing fails; 1 613 states | does it finish, with everything handled? |
| `object_library` | 2 clients, 1 send, queue bound 2; all that may fail fails, handle reuse; 241 228 states | does the older generation implement `UaSystem`, and are its objects right? |
| `first_library` | the same; 160 307 states | which client can end the service, and is it otherwise `RpcService`? |
| `ua_nested` | 2 servers, 2 other threads, 2 calls per callback; failing receives and replies, handle reuse; 88 087 states | who waits for ever and why, does whoever is waited for go on, and is anything freed under a callback? |
| `ka_start_context` | a server alone | finding: the kernel-mode worker is started with NULL |

*Bounds.* `MaxSends` bounds the sends of a connection and `QueueBound` the queue length
at which clients stop sending datagrams (requests, connects and notices are bounded by
the number of clients). Two clients are the least that can interfere: one holding the worker while the other
connects, dies or waits. Two sends each are the least that can be out of order, lost in
the middle, or leave an old answer behind. The safety properties of `UaSystem` are proved without these
bounds' values, so the runs only have to be large enough to exercise each action;
the liveness properties are checked on the instance alone. `ua_rpc` is without handle reuse for its
length only: the theorem `LibraryIsRpcService` has it. `UaSafety`, `UaRpc` and `ObjectLibrary`
use symmetry of the clients, `UaLiveness` and `FirstLibrary`, which check liveness, do not.
`UaNested` has the circles of one and of two servers, one thread to enter a circle and one to
terminate a server of it, and two calls per callback, so that one whose first call was cut off
makes another; that a larger circle is no other cause is a theorem (`HangsHaveACause`, for any number of
servers). In `Channel` the loops of 1000000 iterations are cut to `MaxSends`; `QueueBound` plays no
part.

Deadlock is not checked: a terminated server whose clients are gone really stops, and
`main` really waits in `getchar` with the worker in its receive, and callbacks that call
each other in a circle wait for ever (which `UaNested`'s properties are about). In `UaMessage`
it is.

*Fairness.* Threads that can run, run: the functions an owner has entered, the worker,
a client whose call is complete. No fairness on the owner's decision to
create or terminate, on clients' calls, on another port getting a message or being
closed, or on a receive failing at an open port. The last is what `Idle` is for: a worker that
waits at its open port with nothing in the queue is not obliged to take the one step it has, the
failure of its receive, neither in `UaSystem` nor in `FirstLibrary` and `UaNested`; in `Channel` the
failing receive has no fairness at all. Once the port is closed the receive fails because
the kernel makes it. The callbacks' return is part of the handler's
action. In `UaNested` a worker that can run runs, which includes that its callback ends when it is
not waiting, and a call whose wait is over returns; no thread has to make a call, and a
worker astray has no fairness.

*What liveness needs.* Three things in `ua.c` keep a call waiting, and the properties name them
instead of leaving them out. A reply or refusal that fails for a client that waits has its status
ignored (52, 148, 162, 174): the client is in `unanswered`. A receive that fails ends the worker
while the port stays open until the owner terminates the server (241-252): `wpc = "exited"`. And
a worker astray keeps `UaTerminateServer` waiting (261, 232), because the handle is
closed before the worker is known to be waiting at it: `TerminateReturns` is checked without
reuse and fails with it; `TerminateHangsOnlyForCause` has it as one of its causes.

## What the checks show

*The library.* In every interleaving of the instance the worker never runs without its
memory (`NoUseAfterFree`); failed creation leaves nothing (`CreateAllOrNothing`); notices find
their context (`NoticeFindsContext`); contexts and handles agree (`ContextHoldsHandle`);
answers are the answers (`ReplyMatchesRequest`); no message of the server's port ends its
worker (`WorkerEndsAtReceive`); blocked clients are on their way unless their own reply or refusal
failed (`NoForgottenClient`); nothing is retained at a receive (`NothingRetained`); callbacks see
sends in order (`HandledInOrder`). Two of these have an exception that the properties state and
bound: a notice of another port, and a handler ending the worker on one, happen only on a
reused handle value and after the server's port was closed. All of it amounts to the
abstract service (`IsRpcService`): a callback is given the next send of its client, never one past
a gap, never one twice, and a request succeeds only if it was served. A call returns unless for
one of the causes above (`CallReturns`), so does termination (`TerminateReturns`), and a
connection's end is reclaimed while the worker lives (`DisconnectReclaims`).

*The lengths.* `ua.c` computes the size of a message in a `USHORT` (382, 432, 491).
Where the sum does not wrap, the copies fit and the test rejects exactly what is too
long. It rejects nothing on 64 bits, where the maximum is the largest `USHORT`, and
wrapped lengths pass it on both (finding `OversizedIsRejected`). `UaConnectServer`
(514) states the maximum as the room in a message of `TotalLength` bytes, against the
declaration at `ua.h` 255 (finding `ConnectionMessageHasItsLength`);
`UaSendSynchronousRequest` does not (`AnswerFits`).

*The older generation.* Whatever safety holds of `UaSystem` holds of
`AdvancedLocalProcedureCall.c` (`IsUaSystem`). This has to be found out, since the two are
modelled apart: leaving out any one of the three refusals, or the copy back after
a request, gives behaviours that `UaSystem` does not have. An object lives exactly as long as
the connection its client makes or uses (`ObjectsHoldConnections`).

*The kernel-mode library.* `KaCreateServer` passes NULL as start context (`ka.c` 347) to a
worker that expects its server (225) and reads it at once (234): finding
`WorkerIsGivenServer`. The model stops the system there, so the worker's handlers are
never reached; they are those of `ObjectLibrary`.

*The demonstration program.* When nothing fails it finishes with every counter handled.
When something does: the worker's buffers are freed by each of its four ways out; a failed
initialisation leaves no port; the two tests never overlap although the first waits
for nothing; only a refused connection leaks its context (server.c 163-173); and
`main` can hang, but only because the worker has ended (server.c 63-72, 139-141,
236-258, 272-288).

*The first generation.* A client that is gone, or whose reply or refusal fails, ends the
worker for all the others (46-64, 159-198): there `WorkerEndsAtReceive` would be wrong.
What is right is that no other client does: `OnlyTheUnservedEndWorker`. As long as the worker
lives the service is the abstract one (`IsRpcService`), and only the worker's end leaves a
call hanging (`CallsEndOrWorkerDoes`). Neither of a client's two allocations is leaked or freed
early (`ClientHeapIsRight`).

*Callbacks that call the library.* A worker that waits in its callback receives nothing.
`UaSendSynchronousRequest` and `UaTerminateServer` wait for ever only for a cause
(`CallsHangOnlyForCause`, `TerminateHangsOnlyForCause`): the waits lead in a circle of the callbacks' own
calls, the shortest being a callback that calls or terminates its own server, or to a thread that is
abandoned, by a reply that failed, by a worker that ended at its open port, or by a worker astray at
another port. What is no cause is a server being terminated: its close sets free whoever waits at it,
in the queue, in hand or abandoned. At any moment the worker that a thread which is not abandoned waits
for can go on or waits in its turn (`WhoIsWaitedForGoesOn`). In every case the `UA_SERVER` is
freed only when its worker, the callback below it and all callers are gone
(`FreedServerIsQuiet`).

*Leaks.* While the server runs, every communication handle is of a client still
connected, or the message that gives it back is on its way (`HandlesAreLiveOrDue`). At
termination what is left then is leaked: `UaTerminateServer` (255-267) frees no context.

## What is proved

For every set of clients, every `MaxSends` and `QueueBound`, with and without handle
reuse, failing receives and failing replies, from the assumptions `PortAssumption`,
`ServerAssumption` and `LibraryAssumption` about the constants:

* `UaSystem_proofs`: types, `NoUseAfterFree` and `CreateAllOrNothing`, from `CoreInv`. The
  invariant says, for each place the owner can be, what is allocated, what the handle is worth
  and whether there is a worker (`OwnerInv`), for each place a client can be, what the
  kernel knows of it (`CallInv`), that a handler has a message (`MessageInHand`), and that the
  worker is at another port only while `UaTerminateServer` waits (`StrayInv`), from which the
  exceptions of `NoticeFindsContext` and `WorkerEndsAtReceive` get their bound. Then the other safety
  properties and `HandledInOrder`, from `IInv == CoreInv /\ WorkInv /\ AnswersInv`. None of
  these properties is inductive: what a handler finds depends on every message on its way.
  `WorkInv` says what is true of each message still to be handled (`MessagesOK`), of two of
  the same client (`QueueInOrder`), of the one whose handling has begun (`HandlerInv`), of
  what the kernel retains, and of a blocked request's data (`DataInv`). It leaves open what
  a reply holds and whether a handler can end the worker, on which `ua.c` and the first
  generation differ; what `ua.c` adds is `AnswersInv`. The message in hand is position 0
  of the queue (`ToDo`), so that receiving changes no fact about the messages. Adding at the
  end and removing at the front are lemmas, one action each then cites them.
* `UaRpc_proofs`: `IsRpcService` and `HandlesAreLiveOrDue`, from `CoreInv`, `WorkInv` and
  `RpcInv`, which says that the sends still to be handled of a client are consecutive from
  the last one handled (`NoGap`) to the last one made (`LastSent`), and that the request
  being answered is the last (`AnswerInv`).
* `FirstLibrary_proofs`: every step of `FirstLibrary` is one of
  `UaSystem` but for three handlers, the one that sends a request back, the one that
  refuses a connection and those of a stray (`StepsAlike`), after which its worker may end. So what is proved
  of the steps of `UaSystem` is cited, and `FirstInv ==
  CoreInv /\ WorkInv /\ RpcInv /\ OnlyTheUnservedEndWorker` is left to prove of the two.
  `OnlyTheUnservedEndWorker` is not inductive alone: that a client still there is blocked when its
  reply or refusal fails comes from `MessagesOK` and `HandlerInv`. Hence `IsRpcService`
  although a reply is the request, `HandlesAreLiveOrDue`, and the memory and context properties of
  `ua.c` under each new way to end (`FirstServerIsSafe`). `ClientHeapIsRight` is inductive
  with the types it needs.
* `UaMessage_proofs`: `TypeOK`, `CopiesFit`, `RejectsExactlyTooLong` and `AnswerFits` for every
  word size, header size, maximum and set of lengths allowed by `MessageAssumption`.
* `ObjectLibrary_proofs`: `ObjectsHoldConnections` and `IsUaSystem`, from
  `LibInv == LibTypeOK /\ LibOwnerInv /\ LibCallInv /\ RequestsInv`, an invariant of
  `ObjectLibrary`'s own steps. `LibCallInv` relates the place of a client, the kernel's view of it and
  its object. `RequestsInv` says that a connection request in the queue is the only one of its client, of
  a client without a `PORT_CONTEXT`, and that the one in hand has a context exactly between its
  allocation and the accept. It is what the refinement needs: `UaSystem` frees the context in
  one action for all three refusals, the older file frees one at 130 only, and the two agree because
  a client that is refused has no other. Each action is then mapped to one of
  `UaSystem` or to a stutter. For `KaServer`: with `StartContext` NULL nothing is ever
  received or answered (`NullServesNothing`).
* `Channel_proofs`: types and the five other invariants of `Channel`, from
  `IInv == ControlInv /\ QueueInv`, and `CountersInOrder`, from `ControlInv /\ NumbersInv`. `ControlInv` relates the places of the two threads to
  the port, the buffers and the kernel's view of each test's connection and call, and is
  inductive alone. `QueueInv` is about the messages still to be handled, with the one
  in hand at position 0 as in `UaSystem_proofs`: those of one test are in order, none of
  the first test comes after one of the second, and the end of the first test's connection
  is among them unless it was handled. `TestsDoNotOverlap` needs all of it: that a
  connected second test finds nothing of the first rests on its request having been
  queued behind the first test's end. `NumbersInv` says that the counters still to be handled
  of a test increase and lie between the last one handled and the last one sent.
* `UaNested_proofs`, for any servers, threads and bound on calls: `FreedServerIsQuiet`, from what is
  true of a thread at each place (`ThreadOK`), of a server (`ServerOK`) and that one thread at most
  terminates a server; `WhoIsWaitedForGoesOn`, from these and that a waiting request is in its
  queue or in its worker's hands unless its reply failed (`Remembered`). It follows that when no worker on the
  chain of waits from a thread goes on, the chain leads into a circle or to an abandoned thread
  (`HangsHaveACause`). If callbacks only call and terminate servers of lower rank than their own there is no
  circle, for finitely many workers cannot go down for ever, so that only an
  abandoned thread remains (`DescendingCallsNeverHang`). This is the safety part of
  `CallsHangOnlyForCause` and of `TerminateHangsOnlyForCause`; that a chain elsewhere does not
  keep a call outside it from returning is liveness and left to TLC. `GoesOn` is written out as
  guards, the prover having no `ENABLED`; TLC has confirmed on the instance that it is
  true exactly when the worker, not idle, or its callback's call has a step.

TLC checked `IInv` and `RpcInv` on the instance of `ua_safety` as well, and `FirstInv` on
that of `first_library`, before they were proved (they are not part of a run, since the
theorems establish them).

*Only model-checked:* liveness (`CallReturns`, `TerminateReturns`,
`DisconnectReclaims`, `BlocksOnlyOnDeadWorker`, `ProgramEnds`, `EverythingArrives`,
`CallsEndOrWorkerDoes`, `CallsHangOnlyForCause`, `TerminateHangsOnlyForCause`), which the
prover does not handle under fairness. Every invariant and every action property of a
passing run is proved.

## Not modelled, and the plan

* The phnt headers under `src/include` are nine tenths and more of the lines of `src/` and
  none of its program: third-party declarations of types, constants and prototypes. What the
  programs use of them is in `AlpcPort`, as assumptions.
* `runtime.c`: wrappers without state or branches; their failures are disjuncts of
  the actions that allocate.
* Several threads on one connection; a second server under a port's name.
* The signed lengths of the first generation (24-31), whose test never rejects.
* What is left allocated at `UaTerminateServer` for clients that are still connected: the
  code never frees it.

* What the worker does to another port whose handle has the closed handle's value, and to
  that port's contexts.

What could still be added, in order:

1. A refinement from `Channel` to a variant of `RpcService` in which a post may be lost: a send
   that fails in `client.c` loses its counter, and later ones are served.
2. Termination with handle reuse: the weakest condition on the process under which
   `TerminateReturns` holds.
