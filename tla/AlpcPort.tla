------------------------------ MODULE AlpcPort ------------------------------
(***************************************************************************)
(* The kernel's side of an ALPC connection port, as far as the code calls  *)
(* it (NtAlpcCreatePort, NtAlpcConnectPort, NtAlpcAcceptConnectPort,       *)
(* NtAlpcSendWaitReceivePort, NtAlpcCancelMessage, NtClose).  None of it   *)
(* is in this repository: every operator here is an assumption about the   *)
(* system calls, stated from how ua.c, server.c and client.c use them.     *)
(*                                                                         *)
(* There is one connection port.  What clients send to it waits in one     *)
(* FIFO queue.  A member of Clients is one connection: a program that      *)
(* connects again after a disconnect is another member.                    *)
(***************************************************************************)
EXTENDS Naturals, Sequences

CONSTANTS
    Clients,     \* the connections
    MaxSends,    \* bound: requests and datagrams one connection sends
    QueueBound,  \* bound: a client sends only while the queue is shorter
    Null         \* no message buffer

\* What a message carries: whose it is, which send of that client it is (0 in
\* messages that are not sends) and whether OnRequest has answered it.
Data == [from : Clients, n : 0..MaxSends, answered : BOOLEAN]

\* "OTHER" stands for every type the worker's switch does not name.
Types == {"REQUEST", "DATAGRAM", "PORT_CLOSED", "CLIENT_DIED",
          "CONNECTION_REQUEST", "OTHER"}

\* cont is the LPC_CONTINUATION_REQUIRED bit of the type.
Message == [type : Types, client : Clients, data : Data, cont : BOOLEAN]

ASSUME PortAssumption ==
    /\ MaxSends \in Nat
    /\ QueueBound \in Nat
    /\ Null \notin Data
    /\ Null \notin Message

VARIABLES
    port,   \* the connection port: "none", "open" or "closed"
    queue,  \* the messages waiting at the port, oldest first
    conn,   \* per client: "none", "pending", "open" or "closed"
    call,   \* per client: the blocked system call, or its outcome
    cmsg,   \* per client: the PORT_MESSAGE its blocked call passed, or Null
    held    \* clients a message of which the kernel keeps until it is cancelled

portVars == <<port, queue, conn, call, cmsg, held>>

PortTypeOK ==
    /\ port \in {"none", "open", "closed"}
    /\ queue \in Seq(Message)
    /\ conn \in [Clients -> {"none", "pending", "open", "closed"}]
    /\ call \in [Clients -> {"idle", "connect", "request", "ok", "fail"}]
    /\ cmsg \in [Clients -> Data \cup {Null}]
    /\ held \subseteq Clients

PortInit ==
    /\ port = "none"
    /\ queue = <<>>
    /\ conn = [c \in Clients |-> "none"]
    /\ call = [c \in Clients |-> "idle"]
    /\ cmsg = [c \in Clients |-> Null]
    /\ held = {}

-----------------------------------------------------------------------------
NoData(c) == [from |-> c, n |-> 0, answered |-> FALSE]

Msg(t, c, d, k) == [type |-> t, client |-> c, data |-> d, cont |-> k]

Notice(t, c) == Msg(t, c, NoData(c), FALSE)

Blocked(c) == call[c] \in {"connect", "request"}

\* A client may send on an accepted connection of a port that is still open.
CanSend(c) == port = "open" /\ conn[c] = "open"

\* A connection request can be accepted or refused while its client waits.
CanAccept(c) == port = "open" /\ conn[c] = "pending"

-----------------------------------------------------------------------------
\* The server's calls.

\* NtAlpcCreatePort succeeds.
SysCreatePort ==
    /\ port' = "open"
    /\ UNCHANGED <<queue, conn, call, cmsg, held>>

\* NtClose of the connection port: what is queued or held is dropped, and every
\* client blocked in a call, connecting or waiting for its reply, fails.
SysClosePort ==
    /\ port' = "closed"
    /\ queue' = <<>>
    /\ held' = {}
    /\ conn' = [c \in Clients |->
                  IF conn[c] = "pending" THEN "none" ELSE conn[c]]
    /\ call' = [c \in Clients |-> IF Blocked(c) THEN "fail" ELSE call[c]]
    /\ UNCHANGED cmsg

\* NtAlpcSendWaitReceivePort returns the oldest message; one that requires a
\* continuation stays with the kernel until it is cancelled.
SysReceive ==
    /\ queue # <<>>
    /\ queue' = Tail(queue)
    /\ held' = IF Head(queue).cont THEN held \cup {Head(queue).client} ELSE held
    /\ UNCHANGED <<port, conn, call, cmsg>>

\* NtAlpcSendWaitReceivePort replies: the client that still waits for its
\* request finds d in the buffer it passed.
SysReply(c, d) ==
    /\ IF call[c] = "request"
         THEN /\ call' = [call EXCEPT ![c] = "ok"]
              /\ cmsg' = [cmsg EXCEPT ![c] = d]
         ELSE UNCHANGED <<call, cmsg>>
    /\ UNCHANGED <<port, queue, conn, held>>

\* NtAlpcAcceptConnectPort with AcceptConnection TRUE succeeds.
SysAccept(c) ==
    /\ CanAccept(c)
    /\ conn' = [conn EXCEPT ![c] = "open"]
    /\ call' = [call EXCEPT ![c] = "ok"]
    /\ UNCHANGED <<port, queue, cmsg, held>>

\* NtAlpcAcceptConnectPort with AcceptConnection FALSE: a client that still
\* waits is refused, for any other the call fails and nothing happens.
SysReject(c) ==
    /\ IF CanAccept(c)
         THEN /\ conn' = [conn EXCEPT ![c] = "none"]
              /\ call' = [call EXCEPT ![c] = "fail"]
         ELSE UNCHANGED <<conn, call>>
    /\ UNCHANGED <<port, queue, cmsg, held>>

\* NtAlpcCancelMessage
SysCancel(c) ==
    /\ held' = held \ {c}
    /\ UNCHANGED <<port, queue, conn, call, cmsg>>

-----------------------------------------------------------------------------
\* The clients' calls.

\* NtAlpcConnectPort with the buffer d: blocks when there is a port of that name.
SysConnect(c, d) ==
    /\ cmsg' = [cmsg EXCEPT ![c] = d]
    /\ IF port = "open"
         THEN /\ queue' = Append(queue, Msg("CONNECTION_REQUEST", c, d, FALSE))
              /\ conn' = [conn EXCEPT ![c] = "pending"]
              /\ call' = [call EXCEPT ![c] = "connect"]
         ELSE /\ call' = [call EXCEPT ![c] = "fail"]
              /\ UNCHANGED <<queue, conn>>
    /\ UNCHANGED <<port, held>>

\* NtAlpcSendWaitReceivePort with ALPC_MSGFLG_SYNC_REQUEST: blocks.
SysRequest(c, d) ==
    /\ cmsg' = [cmsg EXCEPT ![c] = d]
    /\ IF CanSend(c)
         THEN /\ queue' = Append(queue, Msg("REQUEST", c, d, FALSE))
              /\ call' = [call EXCEPT ![c] = "request"]
         ELSE /\ call' = [call EXCEPT ![c] = "fail"]
              /\ UNCHANGED queue
    /\ UNCHANGED <<port, conn, held>>

\* NtAlpcSendWaitReceivePort with ALPC_MSGFLG_RELEASE_MESSAGE: does not block.
SysDatagram(c, d, k) ==
    /\ queue' = IF CanSend(c) THEN Append(queue, Msg("DATAGRAM", c, d, k))
                              ELSE queue
    /\ UNCHANGED <<port, conn, call, cmsg, held>>

\* A blocked call returns and its buffer is freed.
SysReturn(c) ==
    /\ call[c] \in {"ok", "fail"}
    /\ call' = [call EXCEPT ![c] = "idle"]
    /\ cmsg' = [cmsg EXCEPT ![c] = Null]
    /\ UNCHANGED <<port, queue, conn, held>>

\* The client's end of the connection goes away.  The server is told once, and
\* only of a connection it accepted; what the client had queued stays queued.
SysHangup(c, notices) ==
    /\ queue' = IF CanSend(c) THEN queue \o notices ELSE queue
    /\ conn' = [conn EXCEPT ![c] = "closed"]
    /\ call' = [call EXCEPT ![c] = "idle"]
    /\ cmsg' = [cmsg EXCEPT ![c] = Null]
    /\ UNCHANGED <<port, held>>
=============================================================================
