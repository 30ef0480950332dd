--------------------------- MODULE KeyRingProofs ---------------------------
(***************************************************************************)
(* Proofs about KeyRing for every buffer size and every set of keys: the   *)
(* lock-free buffer between the keyboard interrupt and the keyboard thread *)
(* is a bounded FIFO.                                                      *)
(***************************************************************************)
EXTENDS KeyRing, SequenceTheorems, TLAPS

\* Only written slots are waiting.
WaitingWritten == \A i \in 1 .. Count : buffer[Slot(i)] \in Key

IndInv == TypeOK /\ ReaderViewValid /\ WaitingWritten

-----------------------------------------------------------------------------
(* Arithmetic of the indices *)

LEMMA AdvanceInSlots ==
  ASSUME NEW x \in Slots
  PROVE  Advance(x) \in Slots /\ Advance(x) # x
BY KeyRingAssumption DEF Advance, Slots

\* Count is what its name says, and is zero only for an empty buffer.
LEMMA CountType ==
  ASSUME TypeOK
  PROVE  /\ Count \in 0 .. Size - 1
         /\ Count = 0 <=> head = tail
BY KeyRingAssumption DEF TypeOK, Count, Slots

\* The waiting bytes lie in different slots, none of which is head.
LEMMA SlotRange ==
  ASSUME TypeOK, NEW i \in 1 .. Count
  PROVE  Slot(i) \in Slots /\ Slot(i) # head
BY KeyRingAssumption DEF TypeOK, Count, Slots, Slot

LEMMA WaitingType ==
  IndInv => Waiting \in Seq(Key) /\ Len(Waiting) = Count /\ Count \in Nat
<1> SUFFICES ASSUME IndInv
             PROVE  Waiting \in Seq(Key) /\ Len(Waiting) = Count /\ Count \in Nat
  OBVIOUS
<1>1. Count \in Nat
  BY CountType, KeyRingAssumption DEF IndInv
<1>2. Waiting \in [1 .. Count -> Key]
  BY DEF IndInv, WaitingWritten, Waiting
<1> QED
  BY <1>1, <1>2

-----------------------------------------------------------------------------
(* The steps that change the abstract queue *)

\* An accepted write puts its byte behind those that wait.
LEMMA WriteAppends ==
  ASSUME IndInv, NEW v \in Key, BufferWrite(v), ~Full(head)
  PROVE  /\ Count < Size - 1
         /\ Count' = Count + 1
         /\ \A i \in 1 .. Count : Slot(i)' = Slot(i) /\ buffer'[Slot(i)] = buffer[Slot(i)]
         /\ Slot(Count)' = head /\ buffer'[head] = v
<1>1. /\ head' = Advance(head) /\ tail' = tail
      /\ buffer' = [buffer EXCEPT ![head] = v]
      /\ Advance(head) # tail
  BY DEF BufferWrite, Full
<1>2. /\ Count < Size - 1
      /\ Count' = Count + 1
  BY <1>1, KeyRingAssumption DEF IndInv, TypeOK, Slots, Count, Advance
<1>3. \A i \in 1 .. Count : Slot(i)' = Slot(i) /\ buffer'[Slot(i)] = buffer[Slot(i)]
  BY <1>1, SlotRange DEF IndInv, TypeOK, Slot
<1>4. Slot(Count)' = head
  BY <1>1, <1>2, KeyRingAssumption DEF IndInv, TypeOK, Slots, Count, Slot, Advance
<1>5. buffer'[head] = v
  BY <1>1 DEF IndInv, TypeOK
<1> QED
  BY <1>2, <1>3, <1>4, <1>5

\* The end of a read removes the oldest byte.
LEMMA StoreRemoves ==
  ASSUME IndInv, ReadStore
  PROVE  /\ Count > 0
         /\ Count' = Count - 1
         /\ \A i \in 1 .. Count - 1 : Slot(i)' = Slot(i + 1)
         /\ data = buffer[Slot(1)]
<1>1. tail' = Advance(tail) /\ head' = head /\ head # tail /\ data = buffer[tail]
  BY DEF ReadStore, IndInv, ReaderViewValid
<1>2. Count > 0 /\ Count' = Count - 1
  BY <1>1, KeyRingAssumption DEF IndInv, TypeOK, Slots, Count, Advance
<1>3. \A i \in 1 .. Count - 1 : Slot(i)' = Slot(i + 1)
  BY <1>1, KeyRingAssumption DEF IndInv, TypeOK, Slots, Count, Slot, Advance
<1>4. Slot(1) = tail
  BY KeyRingAssumption DEF IndInv, TypeOK, Slots, Slot
<1> QED
  BY <1>1, <1>2, <1>3, <1>4

-----------------------------------------------------------------------------
LEMMA InitIndInv == Init => IndInv
BY KeyRingAssumption
DEF Init, IndInv, TypeOK, ReaderViewValid, WaitingWritten, Count, Slots

\* Every step of the interrupt and of the reader keeps IndInv.
LEMMA NextIndInv == IndInv /\ [Next]_vars => IndInv'
<1> SUFFICES ASSUME IndInv, [Next]_vars PROVE IndInv'
  OBVIOUS
<1>1. ASSUME NEW v \in Key, BufferWrite(v) PROVE IndInv'
  <2>1. CASE Full(head)
    <3>1. UNCHANGED <<buffer, head, tail, reader, data, returned>>
      BY <1>1, <2>1 DEF BufferWrite
    <3>2. written' \in BOOLEAN
      BY <1>1, <2>1 DEF BufferWrite
    <3> QED
      BY <3>1, <3>2
      DEF IndInv, TypeOK, ReaderViewValid, WaitingWritten, Count, Slot
  <2>2. CASE ~Full(head)
    <3>1. TypeOK'
      BY <1>1, <2>2, AdvanceInSlots DEF BufferWrite, IndInv, TypeOK
    <3>2. ReaderViewValid'
      BY <1>1, <2>2, AdvanceInSlots
      DEF BufferWrite, Full, IndInv, TypeOK, ReaderViewValid
    <3>3. WaitingWritten'
      <4>1. \A i \in 1 .. Count : buffer'[Slot(i)'] \in Key
        BY <1>1, <2>2, WriteAppends DEF IndInv, WaitingWritten
      <4>2. Count \in Nat /\ Count' = Count + 1 /\ buffer'[Slot(Count)'] \in Key
        BY <1>1, <2>2, WriteAppends, WaitingType
      <4>3. \A i \in 1 .. Count' : i \in 1 .. Count \/ i = Count'
        BY <4>2
      <4> QED
        BY <4>1, <4>2, <4>3 DEF WaitingWritten
    <3> QED
      BY <3>1, <3>2, <3>3 DEF IndInv
  <2> QED
    BY <2>1, <2>2
<1>2. CASE ReadTest
  BY <1>2
  DEF ReadTest, IndInv, TypeOK, ReaderViewValid, WaitingWritten, Count, Slot
<1>3. CASE ReadLoad
  BY <1>3
  DEF ReadLoad, IndInv, TypeOK, ReaderViewValid, WaitingWritten, Count, Slot
<1>4. CASE ReadStore
  <2>1. TypeOK' /\ ReaderViewValid'
    BY <1>4, AdvanceInSlots DEF ReadStore, IndInv, TypeOK, ReaderViewValid
  <2>2. WaitingWritten'
    <3>1. buffer' = buffer
      BY <1>4 DEF ReadStore
    <3> QED
      BY <1>4, <3>1, StoreRemoves, CountType, KeyRingAssumption
      DEF IndInv, WaitingWritten
  <2> QED
    BY <2>1, <2>2 DEF IndInv
<1>5. CASE UNCHANGED vars
  BY <1>5
  DEF vars, IndInv, TypeOK, ReaderViewValid, WaitingWritten, Count, Slot
<1> QED
  BY <1>1, <1>2, <1>3, <1>4, <1>5 DEF Next, BufferRead, ReadEmpty

\* The inductive invariant holds throughout.
THEOREM Invariance == Spec => []IndInv
BY InitIndInv, NextIndInv, PTL DEF Spec

\* Type correctness: head and tail stay inside the buffer, whatever its size.
THEOREM TypeCorrect == Spec => []TypeOK
<1>1. IndInv => TypeOK
  BY DEF IndInv
<1> QED
  BY <1>1, Invariance, PTL

\* What buffer_read has seen stays valid until it returns, although the
\* keyboard interrupt runs in between.
THEOREM ReaderSafety == Spec => []ReaderViewValid
<1>1. IndInv => ReaderViewValid
  BY DEF IndInv
<1> QED
  BY <1>1, Invariance, PTL

-----------------------------------------------------------------------------
(* KeyRing implements BoundedFifo *)

LEMMA FifoStep ==
  ASSUME IndInv, IndInv', [Next]_vars
  PROVE  [Fifo!Next]_<<Waiting, returned, written>>
<1> USE DEF Fifo!Next, Fifo!Accept, Fifo!Reject, Fifo!Take
<1>0. /\ Waiting \in Seq(Key) /\ Len(Waiting) = Count
      /\ Waiting' \in Seq(Key) /\ Len(Waiting') = Count'
      /\ Count \in Nat /\ Count' \in Nat
  <2>1. (Waiting \in Seq(Key) /\ Len(Waiting) = Count /\ Count \in Nat)'
    BY WaitingType, PTL
  <2> QED
    BY <2>1, WaitingType
<1>1. ASSUME NEW v \in Key, BufferWrite(v) PROVE [Fifo!Next]_<<Waiting, returned, written>>
  <2>1. CASE Full(head)
    <3>1. Waiting' = Waiting /\ returned' = returned /\ written' = FALSE
      BY <1>1, <2>1 DEF BufferWrite, Waiting, Count, Slot
    <3>2. Count = Size - 1
      BY <2>1, KeyRingAssumption
      DEF Full, Advance, IndInv, TypeOK, Slots, Count
    <3> QED
      BY <1>0, <3>1, <3>2
  <2>2. CASE ~Full(head)
    <3>1. Waiting' = Append(Waiting, v)
      <4>1. \A i \in 1 .. Count : Waiting'[i] = Waiting[i]
        BY <1>0, <1>1, <2>2, WriteAppends DEF Waiting
      <4>2. Waiting'[Count'] = buffer'[Slot(Count)']
        BY <1>0, <1>1, <2>2, WriteAppends DEF Waiting
      <4>3. Count' = Count + 1 /\ Waiting'[Count + 1] = v
        BY <1>1, <2>2, <4>2, WriteAppends
      <4> QED
        BY <1>0, <4>1, <4>3, AppendProperties, SeqEqual
    <3>2. Len(Waiting) < Size - 1
      BY <1>0, <1>1, <2>2, WriteAppends
    <3>3. written' = TRUE /\ returned' = returned
      BY <1>1, <2>2 DEF BufferWrite
    <3> QED
      BY <3>1, <3>2, <3>3
  <2> QED
    BY <2>1, <2>2
<1>2. CASE ReadTest \/ ReadLoad \/ UNCHANGED vars
  BY <1>2 DEF ReadTest, ReadLoad, vars, Waiting, Count, Slot
<1>3. CASE ReadStore
  <2>1. Waiting # << >>
    BY <1>0, <1>3, StoreRemoves
  <2>2. Waiting' = Tail(Waiting)
    <3>1. buffer' = buffer
      BY <1>3 DEF ReadStore
    <3>2. \A i \in 1 .. Count' : Waiting'[i] = Waiting[i + 1]
      BY <1>0, <1>3, <3>1, StoreRemoves DEF Waiting
    <3>3. Count' = Count - 1
      BY <1>3, StoreRemoves
    <3> QED
      BY <1>0, <2>1, <3>2, <3>3, HeadTailProperties, SeqEqual
  <2>3. returned' = Head(Waiting)
    BY <1>0, <1>3, <2>1, StoreRemoves DEF ReadStore, Waiting
  <2>4. written' = written
    BY <1>3 DEF ReadStore
  <2> QED
    BY <2>1, <2>2, <2>3, <2>4
<1> QED
  BY <1>1, <1>2, <1>3 DEF Next, BufferRead, ReadEmpty

\* The ring buffer is a bounded FIFO of Size - 1 bytes for every size, with
\* the interrupt and the reader interleaved in any way.
THEOREM RingIsFifo == Spec => ImplementsFifo
<1>1. Init => Fifo!Init
  BY KeyRingAssumption DEF Init, Fifo!Init, Waiting, Count
<1>2. IndInv /\ IndInv' /\ [Next]_vars => [Fifo!Next]_<<Waiting, returned, written>>
  BY FifoStep
<1> QED
  BY <1>1, <1>2, Invariance, PTL DEF Spec, ImplementsFifo, Fifo!Spec
=============================================================================
