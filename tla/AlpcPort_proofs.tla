--------------------------- MODULE AlpcPort_proofs ---------------------------
(***************************************************************************)
(* Lemmas about the operators of AlpcPort: what a message is made of and   *)
(* that every system call keeps the types of what the kernel keeps.        *)
(***************************************************************************)
EXTENDS AlpcPort, TLAPS

-----------------------------------------------------------------------------
(***************************************************************************)
(* What the messages that are built have for a type.                       *)
(***************************************************************************)
LEMMA MessageTypes ==
    /\ \A c \in Clients : NoData(c) \in Data
    /\ \A t \in Types, c \in Clients, d \in Data, k \in BOOLEAN :
         Msg(t, c, d, k) \in Message
    /\ \A t \in Types, c \in Clients : Notice(t, c) \in Message
<1>1. \A c \in Clients : NoData(c) \in Data
  BY PortAssumption DEF NoData, Data
<1>2. \A t \in Types, c \in Clients, d \in Data, k \in BOOLEAN :
        Msg(t, c, d, k) \in Message
  BY DEF Msg, Message
<1>3. \A t \in Types, c \in Clients : Notice(t, c) \in Message
  BY <1>1, <1>2 DEF Notice
<1> QED BY <1>1, <1>2, <1>3

LEMMA MessageFields ==
    ASSUME NEW m \in Message
    PROVE  /\ m.client \in Clients
           /\ m.data \in Data
           /\ m.data.n \in 0..MaxSends
           /\ [m EXCEPT !.data.answered = TRUE] \in Message
<1>1. m.client \in Clients /\ m.data \in Data
  BY DEF Message
<1>2. m.data.n \in 0..MaxSends
  BY <1>1 DEF Data
<1>3. [m.data EXCEPT !.answered = TRUE] \in Data
  BY <1>1 DEF Data
<1>4. [m EXCEPT !.data = [m.data EXCEPT !.answered = TRUE]] \in Message
  BY <1>3 DEF Message
<1>5. [m EXCEPT !.data.answered = TRUE]
        = [m EXCEPT !.data = [m.data EXCEPT !.answered = TRUE]]
  BY DEF Message
<1> QED BY <1>1, <1>2, <1>4, <1>5

-----------------------------------------------------------------------------
(***************************************************************************)
(* Every system call keeps the types of what the kernel keeps.             *)
(***************************************************************************)
LEMMA PortTypeStep ==
    ASSUME PortTypeOK
    PROVE  /\ SysCreatePort => PortTypeOK'
           /\ SysClosePort => PortTypeOK'
           /\ SysReceive => PortTypeOK' /\ Head(queue) \in Message
           /\ \A c \in Clients, d \in Data : SysReply(c, d) => PortTypeOK'
           /\ \A c \in Clients : SysAccept(c) \/ SysReject(c) \/ SysCancel(c)
                                   => PortTypeOK'
           /\ \A c \in Clients, d \in Data : SysConnect(c, d) => PortTypeOK'
           /\ \A c \in Clients, d \in Data : SysRequest(c, d) => PortTypeOK'
           /\ \A c \in Clients, d \in Data, k \in BOOLEAN :
                SysDatagram(c, d, k) => PortTypeOK'
           /\ \A c \in Clients : SysReturn(c) => PortTypeOK'
           /\ \A c \in Clients, s \in Seq(Message) :
                SysHangup(c, s) => PortTypeOK'
<1>1. SysCreatePort => PortTypeOK'
  BY DEF PortTypeOK, SysCreatePort
<1>2. SysClosePort => PortTypeOK'
  BY DEF PortTypeOK, SysClosePort, Blocked
<1>3. SysReceive => PortTypeOK' /\ Head(queue) \in Message
  <2> SUFFICES ASSUME SysReceive PROVE PortTypeOK' /\ Head(queue) \in Message
    OBVIOUS
  <2>1. Head(queue) \in Message /\ Tail(queue) \in Seq(Message)
    BY DEF PortTypeOK, SysReceive
  <2>2. Head(queue).client \in Clients
    BY <2>1 DEF Message
  <2> QED BY <2>1, <2>2 DEF PortTypeOK, SysReceive
<1>4. \A c \in Clients, d \in Data : SysReply(c, d) => PortTypeOK'
  BY DEF PortTypeOK, SysReply
<1>5. \A c \in Clients : SysAccept(c) \/ SysReject(c) \/ SysCancel(c)
                           => PortTypeOK'
  BY DEF PortTypeOK, SysAccept, SysReject, SysCancel
<1>6. \A c \in Clients, d \in Data : SysConnect(c, d) => PortTypeOK'
  <2> SUFFICES ASSUME NEW c \in Clients, NEW d \in Data, SysConnect(c, d)
               PROVE  PortTypeOK'
    OBVIOUS
  <2>1. Msg("CONNECTION_REQUEST", c, d, FALSE) \in Message
    BY MessageTypes DEF Types
  <2>2. queue' \in Seq(Message)
    <3>1. queue' = Append(queue, Msg("CONNECTION_REQUEST", c, d, FALSE))
          \/ queue' = queue
      BY DEF SysConnect
    <3>2. queue \in Seq(Message)
      BY DEF PortTypeOK
    <3> QED BY <2>1, <3>1, <3>2 DEF Msg
  <2>3. /\ conn' \in [Clients -> {"none", "pending", "open", "closed"}]
        /\ call' \in [Clients -> {"idle", "connect", "request", "ok", "fail"}]
        /\ cmsg' \in [Clients -> Data \cup {Null}]
    BY DEF PortTypeOK, SysConnect
  <2> QED BY <2>2, <2>3 DEF PortTypeOK, SysConnect
<1>7. \A c \in Clients, d \in Data : SysRequest(c, d) => PortTypeOK'
  <2> SUFFICES ASSUME NEW c \in Clients, NEW d \in Data, SysRequest(c, d)
               PROVE  PortTypeOK'
    OBVIOUS
  <2>1. Msg("REQUEST", c, d, FALSE) \in Message
    BY MessageTypes DEF Types
  <2>2. queue' \in Seq(Message)
    <3>1. queue' = Append(queue, Msg("REQUEST", c, d, FALSE))
          \/ queue' = queue
      BY DEF SysRequest
    <3>2. queue \in Seq(Message)
      BY DEF PortTypeOK
    <3> QED BY <2>1, <3>1, <3>2 DEF Msg
  <2>3. /\ call' \in [Clients -> {"idle", "connect", "request", "ok", "fail"}]
        /\ cmsg' \in [Clients -> Data \cup {Null}]
    BY DEF PortTypeOK, SysRequest
  <2> QED BY <2>2, <2>3 DEF PortTypeOK, SysRequest
<1>8. \A c \in Clients, d \in Data, k \in BOOLEAN :
        SysDatagram(c, d, k) => PortTypeOK'
  <2> SUFFICES ASSUME NEW c \in Clients, NEW d \in Data, NEW k \in BOOLEAN,
                      SysDatagram(c, d, k)
               PROVE  PortTypeOK'
    OBVIOUS
  <2>1. Msg("DATAGRAM", c, d, k) \in Message
    BY MessageTypes DEF Types
  <2> QED BY <2>1 DEF PortTypeOK, SysDatagram, CanSend
<1>9. \A c \in Clients : SysReturn(c) => PortTypeOK'
  BY DEF PortTypeOK, SysReturn
<1>10. \A c \in Clients, s \in Seq(Message) : SysHangup(c, s) => PortTypeOK'
  BY DEF PortTypeOK, SysHangup, CanSend
<1> QED BY <1>1, <1>2, <1>3, <1>4, <1>5, <1>6, <1>7, <1>8, <1>9, <1>10

LEMMA PortTypeStutter ==
    ASSUME PortTypeOK, UNCHANGED portVars PROVE PortTypeOK'
  BY DEF PortTypeOK, portVars
=============================================================================
