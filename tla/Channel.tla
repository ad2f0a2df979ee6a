------------------------------ MODULE Channel ------------------------------
(***************************************************************************)
(* The demonstration program: main's thread and the worker around one      *)
(* port.  SrvInitializeChannel runs in main's thread, the rest of module   *)
(* SrvChannel in the worker.                                               *)
(***************************************************************************)
EXTENDS CliTests

vars == <<portVars, srvVars, cliVars>>

TypeOK == PortTypeOK /\ SrvTypeOK /\ CliTypeOK

Init == PortInit /\ SrvInit /\ CliInit

MainStep ==
    \/ SrvInitializeChannel /\ UNCHANGED cliVars
    \/ Main /\ UNCHANGED srvVars

WorkerStep == SrvServerWorker /\ UNCHANGED cliVars

Next == MainStep \/ WorkerStep

Spec == Init /\ [][Next]_vars

\* The two threads run: main waits for nothing but its calls, the worker for
\* nothing but a message.  Nothing obliges receiving to fail.
FairSpec ==
    /\ Spec
    /\ WF_vars(MainStep)
    /\ WF_vars((Prepare \/ Receive \/ SrvProcessMessage) /\ UNCHANGED cliVars)

-----------------------------------------------------------------------------
\* The worker's buffers are live while it is in its loop and gone when it has
\* ended, by whichever of its ways out: the returns at server.c:240, 250 and 257
\* and the end of the loop, each of which frees for itself.
WorkerBuffersLive ==
    /\ wpc \in {"receive", "process", "accept", "reject"} => wheap = Buffers
    /\ wpc \in {"none", "exited"} => wheap = {}

\* Once the program has given up on its channel, no port of that name is left
\* for a client to connect to and wait at.
NoPortWithoutWorker == ipc = "failed" => port # "open" /\ wpc = "none"

\* The second test meets nothing of the first: when it is connected the worker
\* has handled every datagram of the first test and closed its connection,
\* although that test waits for neither.
TestsDoNotOverlap ==
    conn[SyncTest] = "open" =>
      /\ DatagramTest \notin commHandles
      /\ \A i \in DOMAIN queue : queue[i].client # DatagramTest

\* Every PORT_CONTEXT holds an open handle, is being accepted, or belongs to a
\* connection whose accept failed: no other path leaks one.
LeaksOnlyRefused ==
    \A c \in contexts \ commHandles :
      \/ wpc \in {"accept", "reject"} /\ msg.client = c
      \/ conn[c] \in {"none", "pending"}

\* While the worker runs, the message of a blocked call is on its way.
BlockedIsServed ==
    \A c \in Clients :
      Blocked(c) /\ wpc # "exited" =>
        \/ \E i \in DOMAIN queue : queue[i].client = c
        \/ wpc \in {"process", "accept", "reject"} /\ msg.client = c

\* The counters of a test arrive in order and none arrives twice, whichever
\* sends failed.
CountersInOrder ==
    [][\A c \in Clients :
         IF wpc = "process" /\ wpc' # wpc
              /\ msg.client = c /\ msg.type \in {"REQUEST", "DATAGRAM"}
           THEN handled'[c] > handled[c]
           ELSE handled'[c] = handled[c]]_vars

\* Only the end of the worker leaves a call of main blocked.
BlocksOnlyOnDeadWorker ==
    \A c \in Clients : Blocked(c) ~> (~Blocked(c) \/ wpc = "exited")

\* When nothing fails, both tests run to their end: main reaches getchar with
\* every request answered.
ProgramEnds == <>(mpc = "getchar" /\ answered = MaxSends)

\* When nothing fails, the worker has at last handled every counter of both
\* tests and keeps nothing of either.
EverythingArrives ==
    <>[](/\ \A c \in Clients : handled[c] = MaxSends
         /\ contexts = {}
         /\ commHandles = {}
         /\ held = {})
=============================================================================
