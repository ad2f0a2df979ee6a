------------------------------ MODULE UaClient ------------------------------
(***************************************************************************)
(* The client half of ua.c: UaConnectServer, UaSendSynchronousRequest,     *)
(* UaSendDatagram and UaDisconnectServer, called in any legal order by one *)
(* thread per connection, which may also die at any moment.                *)
(*                                                                         *)
(* A blocking function is two actions: up to the system call, and from its *)
(* return on.  The two early returns (length check, allocation) change     *)
(* nothing but the status; the length arithmetic is in module UaMessage.   *)
(***************************************************************************)
EXTENDS AlpcPort

VARIABLES
    cpc,     \* where the client's thread is
    buf,     \* the RequestDataBuffer of its last request
    sends,   \* how many requests and datagrams it has sent
    result   \* the status its last call returned, named for what it means

clientVars == <<cpc, buf, sends, result>>

EarlyStatus == {"overflow", "nomem"}

ClientTypeOK ==
    /\ cpc \in [Clients -> {"idle", "connecting", "connected", "requesting",
                            "closed", "dead"}]
    /\ buf \in [Clients -> Data]
    /\ sends \in [Clients -> 0..MaxSends]
    /\ result \in [Clients -> {"none", "connected", "refused", "answered",
                               "failed", "sent", "dropped"} \cup EarlyStatus]

ClientInit ==
    /\ cpc = [c \in Clients |-> "idle"]
    /\ buf = [c \in Clients |-> NoData(c)]
    /\ sends = [c \in Clients |-> 0]
    /\ result = [c \in Clients |-> "none"]

-----------------------------------------------------------------------------
\* The function returns before its system call.
ReturnEarly(c) ==
    /\ \E s \in EarlyStatus : result' = [result EXCEPT ![c] = s]
    /\ UNCHANGED <<cpc, buf, sends, portVars>>

\* UaConnectServer up to NtAlpcConnectPort.
UaConnectServer(c) ==
    /\ cpc[c] = "idle"
    /\ \/ ReturnEarly(c)
       \/ /\ SysConnect(c, NoData(c))
          /\ cpc' = [cpc EXCEPT ![c] = "connecting"]
          /\ result' = [result EXCEPT ![c] = "none"]
          /\ UNCHANGED <<buf, sends>>

\* UaConnectServer from the return of NtAlpcConnectPort on.
UaConnectServerReturns(c) ==
    /\ cpc[c] = "connecting"
    /\ SysReturn(c)
    /\ cpc' = [cpc EXCEPT ![c] = IF call[c] = "ok" THEN "connected" ELSE "idle"]
    /\ result' = [result EXCEPT
                    ![c] = IF call[c] = "ok" THEN "connected" ELSE "refused"]
    /\ UNCHANGED <<buf, sends>>

\* The caller's next message, numbered so that a reply can be told from another.
NextData(c) == [from |-> c, n |-> sends[c] + 1, answered |-> FALSE]

MaySend(c) == cpc[c] = "connected" /\ sends[c] < MaxSends

\* UaSendSynchronousRequest up to NtAlpcSendWaitReceivePort; the caller has
\* filled RequestDataBuffer.
UaSendSynchronousRequest(c) ==
    /\ MaySend(c)
    /\ \/ ReturnEarly(c)
       \/ /\ SysRequest(c, NextData(c))
          /\ cpc' = [cpc EXCEPT ![c] = "requesting"]
          /\ buf' = [buf EXCEPT ![c] = NextData(c)]
          /\ sends' = [sends EXCEPT ![c] = @ + 1]
          /\ result' = [result EXCEPT ![c] = "none"]

\* A variant without the copy: the caller's buffer keeps the request.
CopyBackNothing(c) == buf[c]

\* A variant that copies from the PortMessage it has just freed.
CopyBackAfterFree(c) == cmsg'[c]

\* The copy from PortMessage into RequestDataBuffer, whatever the status.
CopyBack(c) == cmsg[c]

\* UaSendSynchronousRequest from the return of the system call on.
UaSendSynchronousRequestReturns(c) ==
    /\ cpc[c] = "requesting"
    /\ SysReturn(c)
    /\ cpc' = [cpc EXCEPT ![c] = "connected"]
    /\ buf' = [buf EXCEPT ![c] = CopyBack(c)]
    /\ result' = [result EXCEPT
                    ![c] = IF call[c] = "ok" THEN "answered" ELSE "failed"]
    /\ UNCHANGED sends

\* UaSendDatagram: its buffer lives and dies inside the call.
UaSendDatagram(c) ==
    /\ MaySend(c)
    /\ \/ ReturnEarly(c)
       \/ /\ Len(queue) < QueueBound
          /\ \E k \in BOOLEAN : SysDatagram(c, NextData(c), k)
          /\ sends' = [sends EXCEPT ![c] = @ + 1]
          /\ result' = [result EXCEPT
                          ![c] = IF CanSend(c) THEN "sent" ELSE "dropped"]
          /\ UNCHANGED <<cpc, buf>>

\* UaDisconnectServer
UaDisconnectServer(c) ==
    /\ cpc[c] = "connected"
    /\ SysHangup(c, <<Notice("PORT_CLOSED", c)>>)
    /\ cpc' = [cpc EXCEPT ![c] = "closed"]
    /\ UNCHANGED <<buf, sends, result>>

\* The client's process dies: the server is told by one of the two notices, and
\* a request of it that was under way may leave a message of another type.
ClientDies(c) ==
    /\ cpc[c] \notin {"closed", "dead"}
    /\ \E t \in {"PORT_CLOSED", "CLIENT_DIED"} :
         \/ SysHangup(c, <<Notice(t, c)>>)
         \/ /\ cpc[c] = "requesting"
            /\ SysHangup(c, <<Notice("OTHER", c), Notice(t, c)>>)
    /\ cpc' = [cpc EXCEPT ![c] = "dead"]
    /\ UNCHANGED <<buf, sends, result>>

ClientCalls(c) ==
    \/ UaConnectServer(c)
    \/ UaSendSynchronousRequest(c)
    \/ UaSendDatagram(c)
    \/ UaDisconnectServer(c)
    \/ ClientDies(c)

ClientReturns(c) ==
    \/ UaConnectServerReturns(c)
    \/ UaSendSynchronousRequestReturns(c)

ClientStep(c) == ClientCalls(c) \/ ClientReturns(c)
=============================================================================
