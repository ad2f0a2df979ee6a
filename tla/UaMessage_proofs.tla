-------------------------- MODULE UaMessage_proofs --------------------------
(***************************************************************************)
(* The properties of module UaMessage, for every size of the header, every *)
(* maximum and every set of lengths a USHORT can hold.                     *)
(***************************************************************************)
EXTENDS UaMessage, TLAPS

\* The sum is that of a USHORT, and is the sum itself unless it wraps.
LEMMA SumOfUshorts ==
    ASSUME NEW n \in 0..(WordSize - 1)
    PROVE  /\ Sum(n) \in 0..(WordSize - 1)
           /\ HeaderSize + n < WordSize => Sum(n) = HeaderSize + n
BY MessageAssumption DEF Sum

LEMMA InitMessage == Init => IInv
<1> SUFFICES ASSUME Init PROVE IInv
  OBVIOUS
<1>1. TypeOK
  BY MessageAssumption DEF Init, TypeOK
<1> QED
  BY <1>1 DEF Init, IInv

LEMMA NextMessage == IInv /\ [Next]_vars => IInv'
<1> SUFFICES ASSUME IInv, [Next]_vars PROVE IInv'
  OBVIOUS
<1> USE DEF IInv, TypeOK
<1>0. pc # "returned" => fn # "none" /\ totalLength = Sum(dataLength)
  BY DEF Functions
<1>1. ASSUME NEW f \in Functions, NEW n \in Lengths, Enter(f, n)
      PROVE  IInv'
  <2>1. n \in 0..(WordSize - 1)
    BY MessageAssumption
  <2>2. Sum(n) \in 0..(WordSize - 1)
    BY <2>1, SumOfUshorts
  <2>3. TypeOK'
    BY <1>1, <2>1, <2>2 DEF Enter
  <2> QED
    BY <1>1, <2>3 DEF Enter, TooLong, BodyEnd
<1>2. CASE ReturnEarly
  <2>1. CASE TooLong
    <3>1. TooLong'
      BY <1>2, <2>1 DEF ReturnEarly, Return, TooLong
    <3>2. TypeOK'
      BY <1>2, <2>1 DEF ReturnEarly, Return
    <3>3. totalLength' = Sum(dataLength)'
      BY <1>0, <1>2, <2>1 DEF ReturnEarly, Return, Sum
    <3> QED
      BY <1>0, <1>2, <2>1, <3>1, <3>2, <3>3 DEF ReturnEarly, Return
  <2>2. CASE ~TooLong
    <3>1. ~TooLong'
      BY <1>2, <2>2 DEF ReturnEarly, Return, TooLong
    <3>2. TypeOK'
      BY <1>2, <2>2 DEF ReturnEarly, Return
    <3>3. totalLength' = Sum(dataLength)'
      BY <1>0, <1>2, <2>2 DEF ReturnEarly, Return, Sum
    <3> QED
      BY <1>0, <1>2, <2>2, <3>1, <3>2, <3>3 DEF ReturnEarly, Return
  <2> QED
    BY <2>1, <2>2
<1>3. CASE Build
  <2>1. dataLength \in 0..(WordSize - 1)
    BY MessageAssumption
  <2>2. BodyEnd \in Nat
    BY <2>1, MessageAssumption DEF BodyEnd
  <2>3. TypeOK'
    BY <1>3, <2>2 DEF Build
  <2>4. totalLength' <= MaxAllowed
    BY <1>3, MessageAssumption DEF Build, TooLong
  <2> QED
    BY <1>3, <2>3, <2>4 DEF Build, TooLong, BodyEnd, Sum
<1>4. ASSUME NEW f \in Functions, NEW room \in 0..(WordSize - 1), Call(f, room),
             f = "UaSendSynchronousRequest" => room = AnswerRoom
      PROVE  IInv'
  <2>1. TypeOK'
    BY <1>4 DEF Call
  <2>2. AnswerRoom' = AnswerRoom
    BY <1>4 DEF Call, AnswerRoom
  <2> QED
    BY <1>4, <2>1, <2>2 DEF Call, TooLong, BodyEnd, Sum
<1>5. ASSUME NEW f \in Functions, FreeAndReturn(f), touched' \in {touched, BodyEnd}
      PROVE  IInv'
  <2>1. dataLength \in 0..(WordSize - 1)
    BY MessageAssumption
  <2>2. BodyEnd \in Nat
    BY <2>1, MessageAssumption DEF BodyEnd
  <2>3. TypeOK'
    BY <1>5, <2>2, MessageAssumption DEF FreeAndReturn, Return
  <2>4. ~TooLong'
    <3>1. totalLength <= MaxAllowed
      BY <1>5 DEF FreeAndReturn
    <3>2. totalLength \in Nat /\ MaxAllowed \in Nat
      BY MessageAssumption
    <3> QED
      BY <1>5, <3>1, <3>2 DEF FreeAndReturn, Return, TooLong
  <2> QED
    BY <1>0, <1>5, <2>3, <2>4 DEF FreeAndReturn, Return, TooLong, BodyEnd, Sum
<1>6. CASE CallSynchronousRequest
  <2>1. AnswerRoom \in 0..(WordSize - 1)
    BY DEF AnswerRoom
  <2> QED
    BY <1>4, <1>6, <2>1 DEF CallSynchronousRequest, Functions
<1>7. CASE CallDatagram
  BY <1>4, <1>7, MessageAssumption DEF CallDatagram, Functions
<1>8. CASE CallConnect
  BY <1>4, <1>8, MessageAssumption DEF CallConnect, ConnectionRoom, Functions
<1>9. CASE FinishSynchronousRequest
  BY <1>5, <1>9 DEF FinishSynchronousRequest, Functions
<1>10. CASE FinishDatagram
  BY <1>5, <1>10 DEF FinishDatagram, Functions
<1>11. CASE FinishConnect
  BY <1>5, <1>11 DEF FinishConnect, Functions
<1>12. CASE UNCHANGED vars
  BY <1>12 DEF vars, TooLong, BodyEnd, Sum, AnswerRoom
<1> QED
  BY <1>1, <1>2, <1>3, <1>6, <1>7, <1>8, <1>9, <1>10, <1>11, <1>12 DEF Next

\* The functions' length, size and room are always those the lines before them
\* computed.
THEOREM MessageInvariant == Spec => []IInv
<1>1. Init => IInv
  BY InitMessage
<1>2. IInv /\ [Next]_vars => IInv'
  BY NextMessage
<1> QED
  BY <1>1, <1>2, PTL DEF Spec

\* Whatever the sizes, what the functions write to and read from a message lies
\* in the block they allocated, unless the sum wraps.
THEOREM CopiesAlwaysFit == Spec => []CopiesFit
<1>1. IInv => CopiesFit
  <2> SUFFICES ASSUME IInv, block # 0, NoWrap PROVE touched <= block
    BY DEF CopiesFit
  <2>1. pc \in {"built", "called"}
    BY DEF IInv, TypeOK
  <2>2. dataLength \in 0..(WordSize - 1)
    BY MessageAssumption DEF IInv, TypeOK
  <2>3. fn \in Functions
    BY <2>1 DEF IInv
  <2>4. totalLength = HeaderSize + dataLength
    BY <2>2, <2>3, SumOfUshorts DEF IInv, NoWrap, Functions
  <2> QED
    BY <2>1, <2>2, <2>4, MessageAssumption DEF IInv, BodyEnd
<1> QED
  BY <1>1, MessageInvariant, PTL

\* Whatever the sizes, the functions reject the messages that are longer than
\* the maximum and no others, unless the sum wraps.
THEOREM RejectsAlwaysExact == Spec => []RejectsExactlyTooLong
<1>1. IInv => RejectsExactlyTooLong
  <2> SUFFICES ASSUME IInv, NoWrap
               PROVE  /\ status = "overflow" => HeaderSize + dataLength > MaxAllowed
                      /\ status \in {"nomem", "kernel"} =>
                           HeaderSize + dataLength <= MaxAllowed
    BY DEF RejectsExactlyTooLong
  <2>1. dataLength \in 0..(WordSize - 1)
    BY MessageAssumption DEF IInv, TypeOK
  <2>2. CASE fn = "none"
    <3>1. status = "none"
      BY <2>2 DEF IInv, TypeOK
    <3> QED
      BY <3>1
  <2>3. CASE fn # "none"
    <3>1. totalLength = HeaderSize + dataLength
      BY <2>1, <2>3, SumOfUshorts DEF IInv, NoWrap
    <3> QED
      BY <2>1, <3>1, MessageAssumption DEF IInv, TooLong
  <2> QED
    BY <2>2, <2>3
<1> QED
  BY <1>1, MessageInvariant, PTL

\* Whatever the sizes, UaSendSynchronousRequest passes the size of its block.
THEOREM AnswerAlwaysFits == Spec => []AnswerFits
<1>1. IInv => AnswerFits
  <2> SUFFICES ASSUME IInv, pc = "called", fn = "UaSendSynchronousRequest"
               PROVE  bufferLength <= block
    BY DEF AnswerFits
  <2>1. block = totalLength
    BY DEF IInv
  <2>2. AnswerRoom = totalLength
    BY DEF AnswerRoom
  <2>3. bufferLength = AnswerRoom
    BY DEF IInv
  <2>4. totalLength \in Nat
    BY DEF IInv, TypeOK
  <2> QED
    BY <2>1, <2>2, <2>3, <2>4
<1> QED
  BY <1>1, MessageInvariant, PTL

\* Whatever the sizes, the lengths are those of a USHORT and a call that has
\* not begun has neither block nor status.
THEOREM MessageTypeCorrect == Spec => []TypeOK
<1>1. IInv => TypeOK
  BY DEF IInv
<1> QED
  BY <1>1, MessageInvariant, PTL
=============================================================================
