----------------------------- MODULE RpcService -----------------------------
(***************************************************************************)
(* What ua.h promises the user of the library, without ports, messages or  *)
(* threads.  A client connects, makes requests and posts datagrams, one    *)
(* after another, and leaves.  The callbacks are given what a client sends *)
(* in the order it sent it, each at most once and none left out before a   *)
(* later one; a request that succeeds has been served, and one that fails  *)
(* may have been.  What was sent may be served after its sender left.      *)
(***************************************************************************)
EXTENDS Naturals

CONSTANTS
    Clients,   \* the connections
    MaxSends   \* bound: requests and datagrams one of them sends

VARIABLES
    phase,    \* per client: what it is doing
    sent,     \* per client: how many requests and datagrams it has sent
    served,   \* per client: how many of them a callback was given
    outcome   \* per client: what its last call came to

serviceVars == <<phase, sent, served, outcome>>

Init ==
    /\ phase = [c \in Clients |-> "idle"]
    /\ sent = [c \in Clients |-> 0]
    /\ served = [c \in Clients |-> 0]
    /\ outcome = [c \in Clients |-> "none"]

Becomes(c, from, to, what) ==
    /\ phase[c] = from
    /\ phase' = [phase EXCEPT ![c] = to]
    /\ outcome' = [outcome EXCEPT ![c] = what]

\* A call that cannot be made: its data is too long or there is no memory.
Decline(c) ==
    /\ \/ Becomes(c, "idle", "idle", "declined")
       \/ Becomes(c, "connected", "connected", "declined")
    /\ UNCHANGED <<sent, served>>

Connect(c) ==
    /\ Becomes(c, "idle", "connecting", "none")
    /\ UNCHANGED <<sent, served>>

Connected(c) ==
    /\ \/ Becomes(c, "connecting", "connected", "connected")
       \/ Becomes(c, "connecting", "idle", "refused")
    /\ UNCHANGED <<sent, served>>

Sent(c) ==
    /\ sent[c] < MaxSends
    /\ sent' = [sent EXCEPT ![c] = @ + 1]
    /\ UNCHANGED served

Request(c) == Becomes(c, "connected", "requesting", "none") /\ Sent(c)

\* Only a request that was served succeeds.
Answered(c) ==
    /\ \/ /\ Becomes(c, "requesting", "connected", "answered")
          /\ served[c] = sent[c]
       \/ Becomes(c, "requesting", "connected", "failed")
    /\ UNCHANGED <<sent, served>>

Post(c) ==
    /\ \/ Becomes(c, "connected", "connected", "sent")
       \/ Becomes(c, "connected", "connected", "dropped")
    /\ Sent(c)

\* A callback is given the next of what c has sent.
Serve(c) ==
    /\ served[c] < sent[c]
    /\ served' = [served EXCEPT ![c] = @ + 1]
    /\ UNCHANGED <<phase, sent, outcome>>

Leave(c) ==
    /\ phase[c] # "gone"
    /\ phase' = [phase EXCEPT ![c] = "gone"]
    /\ UNCHANGED <<sent, served, outcome>>

Next ==
    \E c \in Clients :
      \/ Decline(c)
      \/ Connect(c)
      \/ Connected(c)
      \/ Request(c)
      \/ Answered(c)
      \/ Post(c)
      \/ Serve(c)
      \/ Leave(c)

Spec == Init /\ [][Next]_serviceVars
=============================================================================
