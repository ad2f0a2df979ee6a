------------------------------ MODULE CliTests ------------------------------
(***************************************************************************)
(* client.c and main of alpc-research.c: one thread, which starts the      *)
(* server's channel and then runs CliTestDatagram and CliTestSyncRequest   *)
(* one after the other against it, whatever either returns.                *)
(***************************************************************************)
EXTENDS SrvChannel

CONSTANTS DatagramTest, SyncTest  \* the connection of each test

ASSUME TestsAssumption ==
    Clients = {DatagramTest, SyncTest} /\ DatagramTest # SyncTest

VARIABLES
    mpc,       \* where main's thread is
    test,      \* the test it is in, the last one when both are done
    counter,   \* Counter of that test
    cheap,     \* whether that test's PortMessage is live
    answered   \* how many requests returned success, which nobody looks at

cliVars == <<mpc, test, counter, cheap, answered>>

CliTypeOK ==
    /\ mpc \in {"init", "allocate", "connect", "connecting", "loop",
                "requesting", "getchar"}
    /\ test \in Clients
    /\ counter \in 0..MaxSends
    /\ cheap \in BOOLEAN
    /\ answered \in 0..MaxSends

CliInit ==
    /\ mpc = "init"
    /\ test = DatagramTest
    /\ counter = 0
    /\ cheap = FALSE
    /\ answered = 0

-----------------------------------------------------------------------------
\* main, back from SrvInitializeChannel.
ChannelInitialized ==
    /\ mpc = "init"
    /\ \/ ipc = "ready" /\ mpc' = "allocate"
       \/ ipc = "failed" /\ mpc' = "getchar"
    /\ UNCHANGED <<test, counter, cheap, answered, portVars>>

\* A test returns with its PortMessage freed; main goes to the next.
TestReturns ==
    /\ cheap' = FALSE
    /\ test' = SyncTest
    /\ mpc' = IF test = DatagramTest THEN "allocate" ELSE "getchar"

AllocateMessageOfTest ==
    /\ mpc = "allocate"
    /\ \/ cheap' = TRUE /\ mpc' = "connect" /\ UNCHANGED test
       \/ Failures /\ TestReturns
    /\ UNCHANGED <<counter, answered, portVars>>

Connect ==
    /\ mpc = "connect"
    /\ SysConnect(test, NoData(test))
    /\ mpc' = "connecting"
    /\ UNCHANGED <<test, counter, cheap, answered>>

ConnectReturns ==
    /\ mpc = "connecting"
    /\ SysReturn(test)
    /\ IF call[test] = "ok"
         THEN mpc' = "loop" /\ UNCHANGED <<test, cheap>>
         ELSE TestReturns
    /\ counter' = 0
    /\ UNCHANGED answered

\* A variant that is off by one.
LoopGoesOnOnceMore == counter <= MaxSends

LoopGoesOn == counter < MaxSends

InLoop(t) == mpc = "loop" /\ test = t /\ LoopGoesOn

\* Numbers from 1, as 0 means no send.
CounterMessage == [from |-> test, n |-> counter + 1, answered |-> FALSE]

\* The status is assigned and never read: a failed send is a lost counter.
SendDatagram ==
    /\ InLoop(DatagramTest)
    /\ \/ \E k \in BOOLEAN : SysDatagram(test, CounterMessage, k)
       \/ Failures /\ UNCHANGED portVars
    /\ counter' = counter + 1
    /\ UNCHANGED <<mpc, test, cheap, answered>>

SendRequest ==
    /\ InLoop(SyncTest)
    /\ \/ /\ SysRequest(test, CounterMessage)
          /\ mpc' = "requesting"
          /\ UNCHANGED counter
       \/ Failures /\ counter' = counter + 1 /\ UNCHANGED <<mpc, portVars>>
    /\ UNCHANGED <<test, cheap, answered>>

RequestReturns ==
    /\ mpc = "requesting"
    /\ SysReturn(test)
    /\ answered' = IF call[test] = "ok" THEN answered + 1 ELSE answered
    /\ counter' = counter + 1
    /\ mpc' = "loop"
    /\ UNCHANGED <<test, cheap>>

\* A variant that returns with the connection open.
CloseNothing == UNCHANGED portVars

Close == SysHangup(test, <<Notice("PORT_CLOSED", test)>>)

CloseAndReturn ==
    /\ mpc = "loop"
    /\ ~LoopGoesOn
    /\ Close
    /\ TestReturns
    /\ UNCHANGED <<counter, answered>>

Main ==
    \/ ChannelInitialized
    \/ AllocateMessageOfTest
    \/ Connect
    \/ ConnectReturns
    \/ SendDatagram
    \/ SendRequest
    \/ RequestReturns
    \/ CloseAndReturn
=============================================================================
