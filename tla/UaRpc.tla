-------------------------------- MODULE UaRpc --------------------------------
(***************************************************************************)
(* UaSystem implements RpcService: a client is where its thread is, and    *)
(* the last send a callback was given tells how many were served.          *)
(***************************************************************************)
EXTENDS UaSystem

Phase == [c \in Clients |-> IF cpc[c] \in {"closed", "dead"} THEN "gone"
                                                             ELSE cpc[c]]

Outcome == [c \in Clients |-> IF result[c] \in EarlyStatus THEN "declined"
                                                           ELSE result[c]]

Service == INSTANCE RpcService WITH phase <- Phase, sent <- sends,
                                    served <- handled, outcome <- Outcome

\* The library is the service ua.h declares: nothing is served twice, out of
\* order or past one that was not, and only a served request succeeds,
\* whatever fails or is terminated meanwhile.
IsRpcService == Service!Spec

-----------------------------------------------------------------------------
(***************************************************************************)
(* Why it does: with WorkInv of UaSystem, what is true of the numbers of   *)
(* the sends that are still to be handled.                                 *)
(***************************************************************************)

\* Without a worker nobody was accepted, and who was not has sent nothing.
FreshInv ==
    /\ wpc = "none" => commHandles = {}
    /\ \A c \in Clients : cpc[c] \in {"idle", "connecting"} => sends[c] = 0

\* The request being replied to is the last its client sent, and so is the one
\* a reply was delivered to.
AnswerInv ==
    /\ wpc = "reply" /\ port = "open" /\ conn[msg.client] = "open" =>
         handled[msg.client] = sends[msg.client]
    /\ \A c \in Clients :
         cpc[c] = "requesting" /\ call[c] = "ok" => handled[c] = sends[c]

\* Position i of what is still to be handled is send n of c.
IsSend(i, c, n) ==
    /\ i \in ToDoPositions
    /\ ToDo(i).type \in Sends
    /\ ToDo(i).client = c
    /\ ToDo(i).data.n = n

\* Before a send that is still to be handled comes the one made before it,
\* unless that was the last to be handled.
NoGap ==
    \A i \in ToDoPositions, c \in Clients, n \in 0..MaxSends :
      IsSend(i, c, n) =>
        n = handled[c] + 1 \/ \E j \in ToDoPositions : j < i /\ IsSend(j, c, n - 1)

\* The last send on a connection is still to be handled if it was not.
LastSent ==
    port = "open" =>
      \A c \in Clients :
        conn[c] = "open" =>
          sends[c] = handled[c] \/ \E i \in ToDoPositions : IsSend(i, c, sends[c])

RpcInv == FreshInv /\ AnswerInv /\ NoGap /\ LastSent
==============================================================================
