----------------------------- MODULE UaMessage -----------------------------
(***************************************************************************)
(* The lengths in UaConnectServer, UaSendSynchronousRequest and            *)
(* UaSendDatagram of ua.c: the three build a PORT_MESSAGE of               *)
(* sizeof(PORT_MESSAGE) plus the caller's USHORT length, in a USHORT.      *)
(* Module UaClient has what else they do and leaves the lengths out.       *)
(***************************************************************************)
EXTENDS Naturals

CONSTANTS
    WordSize,    \* the values of a USHORT are those below it
    HeaderSize,  \* sizeof(PORT_MESSAGE)
    MaxAllowed,  \* ALPC_MAX_ALLOWED_MESSAGE_LENGTH
    Lengths      \* the lengths callers pass

ASSUME MessageAssumption ==
    /\ WordSize \in Nat
    /\ HeaderSize \in 1..(WordSize - 1)
    /\ MaxAllowed \in HeaderSize..(WordSize - 1)
    /\ Lengths \subseteq 0..(WordSize - 1)

VARIABLES
    fn,            \* the function being executed, "none" between calls
    pc,            \* how far it is
    dataLength,    \* its last parameter
    totalLength,   \* TotalLength
    block,         \* size of the live PORT_MESSAGE allocation, 0 without one
    touched,       \* end of the furthest byte of it the function accessed
    bufferLength,  \* BufferLength as passed to the system call, 0 when none is
    status         \* "none" until the function returns

vars == <<fn, pc, dataLength, totalLength, block, touched, bufferLength, status>>

Functions == {"UaConnectServer", "UaSendSynchronousRequest", "UaSendDatagram"}

TypeOK ==
    /\ fn \in Functions \cup {"none"}
    /\ pc \in {"entered", "built", "called", "returned"}
    /\ dataLength \in Lengths \cup {0}
    /\ totalLength \in 0..(WordSize - 1)
    /\ block \in 0..(WordSize - 1)
    /\ touched \in Nat
    /\ bufferLength \in 0..(WordSize - 1)
    /\ status \in {"none", "overflow", "nomem", "kernel"}

Init ==
    /\ fn = "none"
    /\ pc = "returned"
    /\ dataLength = 0
    /\ totalLength = 0
    /\ block = 0
    /\ touched = 0
    /\ bufferLength = 0
    /\ status = "none"

-----------------------------------------------------------------------------
\* A variant that makes no room for the header.
SumWithoutHeader(n) == n % WordSize

\* A variant in a wider integer.
SumWide(n) == HeaderSize + n

\* sizeof(PORT_MESSAGE) + DataLength, assigned to a USHORT.
Sum(n) == (HeaderSize + n) % WordSize

Enter(f, n) ==
    /\ pc = "returned"
    /\ fn' = f
    /\ dataLength' = n
    /\ totalLength' = Sum(n)
    /\ pc' = "entered"
    /\ status' = "none"
    /\ touched' = 0
    /\ bufferLength' = 0
    /\ UNCHANGED block

\* A variant that is off by one.
TooLongByOne == totalLength >= MaxAllowed

TooLong == totalLength > MaxAllowed

Return(s) ==
    /\ pc' = "returned"
    /\ status' = s
    /\ UNCHANGED <<fn, dataLength, totalLength>>

ReturnEarly ==
    /\ pc = "entered"
    /\ IF TooLong THEN Return("overflow") ELSE Return("nomem")
    /\ UNCHANGED <<block, touched, bufferLength>>

BodyEnd == HeaderSize + dataLength

\* The allocation, the two header fields and the copy into the body.
Build ==
    /\ pc = "entered"
    /\ ~TooLong
    /\ block' = totalLength
    /\ touched' = BodyEnd
    /\ pc' = "built"
    /\ UNCHANGED <<fn, dataLength, totalLength, bufferLength, status>>

\* A variant that states the maximum, as UaConnectServer does.
AnswerRoomMaximum == MaxAllowed

\* BufferLength of UaSendSynchronousRequest: the answer takes the message's place.
AnswerRoom == totalLength

\* BufferLength of UaConnectServer.
ConnectionRoom == MaxAllowed

\* f makes its system call and passes a BufferLength of room, 0 for no such
\* parameter.
Call(f, room) ==
    /\ pc = "built"
    /\ fn = f
    /\ bufferLength' = room
    /\ pc' = "called"
    /\ UNCHANGED <<fn, dataLength, totalLength, block, touched, status>>

CallSynchronousRequest == Call("UaSendSynchronousRequest", AnswerRoom)

CallDatagram == Call("UaSendDatagram", 0)

CallConnect == Call("UaConnectServer", ConnectionRoom)

\* Back in f, which frees the message and returns the call's status.
FreeAndReturn(f) ==
    /\ pc = "called"
    /\ fn = f
    /\ block' = 0
    /\ Return("kernel")
    /\ UNCHANGED bufferLength

\* The request first copies as much back as it copied in.
FinishSynchronousRequest ==
    /\ FreeAndReturn("UaSendSynchronousRequest")
    /\ touched' = BodyEnd

FinishDatagram == FreeAndReturn("UaSendDatagram") /\ UNCHANGED touched

FinishConnect == FreeAndReturn("UaConnectServer") /\ UNCHANGED touched

Next ==
    \/ \E f \in Functions, n \in Lengths : Enter(f, n)
    \/ ReturnEarly
    \/ Build
    \/ CallSynchronousRequest
    \/ CallDatagram
    \/ CallConnect
    \/ FinishSynchronousRequest
    \/ FinishDatagram
    \/ FinishConnect

Spec == Init /\ [][Next]_vars

-----------------------------------------------------------------------------
\* The sum does not wrap: the case the properties below are about.
NoWrap == HeaderSize + dataLength < WordSize

\* Every byte of a message the functions write or read back is one they
\* allocated, up to the longest message.
CopiesFit == block # 0 /\ NoWrap => touched <= block

\* A function gives up with STATUS_BUFFER_OVERFLOW exactly on the messages
\* that are longer than the maximum, and every other one is tried.
RejectsExactlyTooLong ==
    NoWrap =>
      /\ status = "overflow" => HeaderSize + dataLength > MaxAllowed
      /\ status \in {"nomem", "kernel"} => HeaderSize + dataLength <= MaxAllowed

\* UaSendSynchronousRequest tells the kernel of no more room for the answer
\* than it has allocated, whatever the length, a wrapped one included.
AnswerFits ==
    pc = "called" /\ fn = "UaSendSynchronousRequest" => bufferLength <= block

\* Why they hold: the total is the sum, the message has that size and its body
\* was copied to its end.
IInv ==
    /\ TypeOK
    /\ fn = "none" => status = "none"
    /\ fn # "none" => totalLength = Sum(dataLength)
    /\ pc = "returned" => block = 0
    /\ pc = "entered" => block = 0
    /\ pc \in {"built", "called"} =>
         /\ block = totalLength
         /\ touched = BodyEnd
         /\ totalLength <= MaxAllowed
    /\ pc = "called" /\ fn = "UaSendSynchronousRequest" =>
         bufferLength = AnswerRoom
    /\ pc # "returned" => fn \in Functions /\ status = "none"
    /\ status = "overflow" => TooLong
    /\ status = "kernel" => ~TooLong
    /\ status = "nomem" => ~TooLong

-----------------------------------------------------------------------------
\* What ua.c states of itself and its system calls, and does not keep: a message
\* longer than the maximum is answered with STATUS_BUFFER_OVERFLOW (the test
\* in each of the three functions).
OversizedIsRejected ==
    HeaderSize + dataLength > MaxAllowed => status \in {"none", "overflow"}

\* The declaration of NtAlpcConnectPort: the message has *BufferLength bytes.
ConnectionMessageHasItsLength ==
    pc = "called" /\ fn = "UaConnectServer" => bufferLength <= block
=============================================================================
