--------------------------- MODULE KeyboardProofs ---------------------------
(***************************************************************************)
(* Proofs about Keyboard for every buffer size, every line length and any  *)
(* number of keys: what is sent to port 1 is what was typed.  kb_update    *)
(* stores into the ring buffer that keyboard_irq fills and getc empties,   *)
(* so the driver does not implement KeyRing alone, and the lemmas about    *)
(* the ring hold here whatever its slots contain.                          *)
(***************************************************************************)
EXTENDS Keyboard, SequenceTheorems, TLAPS

\* What buffer_read has tested stays so; what it has loaded is still the
\* oldest byte unless a store of kb_update has hit a waiting key.
ReaderView ==
  /\ reader # "idle" => head # tail
  /\ ~hit /\ reader = "store" => data = buffer[tail]

\* The inductive invariant.  That kb_update is not in getc while it stores
\* keeps its stores from coming between the steps of buffer_read.
KeyboardInv ==
  /\ TypeOK
  /\ ReaderView
  /\ driver # "getc" => reader = "idle"
  /\ driver = "send" => c # MinusOne
  /\ Len(typed) = Len(sent) + Len(OnItsWay) + Ring!Count + lost
  /\ ~hit => lost = 0 /\ typed = sent \o OnItsWay \o Ring!Waiting

-----------------------------------------------------------------------------
(* The ring *)

\* The waiting bytes are in Count different slots, of which head is none.
LEMMA RingShape ==
  ASSUME Ring!TypeOK
  PROVE  /\ Ring!Count \in 0 .. Size - 1
         /\ Ring!Count = 0 <=> head = tail
         /\ \A n \in 1 .. Ring!Count : Ring!Slot(n) \in Ring!Slots /\ Ring!Slot(n) # head
         /\ Ring!Slot(1) = tail
         /\ Ring!Advance(head) \in Ring!Slots /\ Ring!Advance(tail) \in Ring!Slots
         /\ tail \in 0 .. Size - 1
<1>1. /\ Size \in Nat /\ Size >= 2
      /\ head \in 0 .. Size - 1 /\ tail \in 0 .. Size - 1
  BY KeyboardAssumption DEF Ring!TypeOK, Ring!Slots
<1> QED
  BY <1>1 DEF Ring!Count, Ring!Slot, Ring!Slots, Ring!Advance

\* What Waiting is.
WaitingShape ==
  /\ Ring!Waiting \in Seq(Byte) /\ Len(Ring!Waiting) = Ring!Count
  /\ Ring!Count \in 0 .. Size - 1
  /\ \A n \in 1 .. Ring!Count : Ring!Waiting[n] = buffer[Ring!Slot(n)]

LEMMA WaitingIsSeq == Ring!TypeOK => WaitingShape
<1> SUFFICES ASSUME Ring!TypeOK PROVE WaitingShape
  OBVIOUS
<1>1. \A n \in 1 .. Ring!Count : buffer[Ring!Slot(n)] \in Byte
  BY RingShape DEF Ring!TypeOK, Byte
<1>2. Ring!Count \in Nat
  BY RingShape, KeyboardAssumption
<1> QED
  BY <1>1, <1>2, RingShape DEF Ring!Waiting, WaitingShape

LEMMA WaitingStaysSeq == Ring!TypeOK' => WaitingShape'
BY WaitingIsSeq, PTL

\* An accepted write puts its byte behind those that wait.
LEMMA WriteAppends ==
  ASSUME Ring!TypeOK, NEW k \in Key, Ring!BufferWrite(k), ~Ring!Full(head)
  PROVE  /\ Ring!TypeOK'
         /\ Ring!Count' = Ring!Count + 1
         /\ Ring!Waiting' = Append(Ring!Waiting, k)
<1>1. /\ head' = Ring!Advance(head) /\ tail' = tail
      /\ buffer' = [buffer EXCEPT ![head] = k]
      /\ Ring!Advance(head) # tail
      /\ UNCHANGED <<reader, data, returned>> /\ written' = TRUE
  BY DEF Ring!BufferWrite, Ring!Full
<1>2. Ring!TypeOK'
  BY <1>1, RingShape DEF Ring!TypeOK
<1>3. /\ Size \in Nat /\ Size >= 2
      /\ head \in 0 .. Size - 1 /\ tail \in 0 .. Size - 1
  BY KeyboardAssumption DEF Ring!TypeOK, Ring!Slots
<1>4. Ring!Count' = Ring!Count + 1
  BY <1>1, <1>3 DEF Ring!Count, Ring!Advance
<1>5. \A n : Ring!Slot(n)' = Ring!Slot(n)
  BY <1>1 DEF Ring!Slot
<1>6. Ring!Slot(Ring!Count + 1) = head
  BY <1>1, <1>3 DEF Ring!Count, Ring!Slot, Ring!Advance
<1>7. buffer'[head] = k
  BY <1>1 DEF Ring!TypeOK
<1>8. \A n \in 1 .. Ring!Count : buffer'[Ring!Slot(n)] = buffer[Ring!Slot(n)]
  BY <1>1, RingShape DEF Ring!TypeOK
<1>9. Ring!Waiting' = Append(Ring!Waiting, k)
  <2>1. /\ Ring!Waiting' \in Seq(Byte) /\ Len(Ring!Waiting') = Ring!Count'
        /\ \A n \in 1 .. Ring!Count' : Ring!Waiting'[n] = buffer'[Ring!Slot(n)']
    BY <1>2, WaitingStaysSeq DEF WaitingShape
  <2>2. /\ Ring!Waiting \in Seq(Byte) /\ Len(Ring!Waiting) = Ring!Count
        /\ \A n \in 1 .. Ring!Count : Ring!Waiting[n] = buffer[Ring!Slot(n)]
    BY WaitingIsSeq DEF WaitingShape
  <2>3. Ring!Count \in Nat
    BY RingShape, <1>3
  <2>4. \A n \in 1 .. Ring!Count : Ring!Waiting'[n] = Ring!Waiting[n]
    BY <1>4, <1>5, <1>8, <2>1, <2>2, <2>3
  <2>5. Ring!Waiting'[Ring!Count + 1] = k
    BY <1>4, <1>5, <1>6, <1>7, <2>1, <2>3
  <2> HIDE DEF Ring!Waiting
  <2>6. k \in Byte
    BY DEF Byte
  <2>7. /\ Append(Ring!Waiting, k) \in Seq(Byte)
        /\ Len(Append(Ring!Waiting, k)) = Ring!Count + 1
        /\ \A n \in 1 .. Ring!Count : Append(Ring!Waiting, k)[n] = Ring!Waiting[n]
        /\ Append(Ring!Waiting, k)[Ring!Count + 1] = k
    BY <2>2, <2>6, AppendProperties
  <2>8. \A n \in 1 .. Ring!Count + 1 :
          Ring!Waiting'[n] = Append(Ring!Waiting, k)[n]
    BY <2>3, <2>4, <2>5, <2>7
  <2> QED
    BY <1>4, <2>1, <2>7, <2>8, SeqEqual
<1> QED
  BY <1>2, <1>4, <1>9

\* The end of a read takes the oldest byte.
LEMMA StoreRemoves ==
  ASSUME Ring!TypeOK, head # tail, Ring!ReadStore
  PROVE  /\ Ring!TypeOK'
         /\ Ring!Count' = Ring!Count - 1
         /\ Ring!Waiting = <<buffer[tail]>> \o Ring!Waiting'
<1>1. /\ tail' = Ring!Advance(tail) /\ head' = head /\ returned' = data
      /\ reader' = "idle" /\ UNCHANGED <<buffer, data, written>>
  BY DEF Ring!ReadStore
<1>2. Ring!TypeOK'
  BY <1>1, RingShape DEF Ring!TypeOK
<1>3. /\ Size \in Nat /\ Size >= 2
      /\ head \in 0 .. Size - 1 /\ tail \in 0 .. Size - 1
  BY KeyboardAssumption DEF Ring!TypeOK, Ring!Slots
<1>4. Ring!Count' = Ring!Count - 1 /\ Ring!Count \in Nat \ {0}
  BY <1>1, <1>3 DEF Ring!Count, Ring!Advance
<1>5. \A n \in 1 .. Ring!Count - 1 : Ring!Slot(n)' = Ring!Slot(n + 1)
  BY <1>1, <1>3 DEF Ring!Count, Ring!Slot, Ring!Advance
<1>6. /\ Ring!Waiting' \in Seq(Byte) /\ Len(Ring!Waiting') = Ring!Count'
      /\ \A n \in 1 .. Ring!Count' : Ring!Waiting'[n] = buffer'[Ring!Slot(n)']
  BY <1>2, WaitingStaysSeq DEF WaitingShape
<1>7. /\ Ring!Waiting \in Seq(Byte) /\ Len(Ring!Waiting) = Ring!Count
      /\ \A n \in 1 .. Ring!Count : Ring!Waiting[n] = buffer[Ring!Slot(n)]
  BY WaitingIsSeq DEF WaitingShape
<1>8. Ring!Waiting[1] = buffer[tail] /\ buffer[tail] \in Byte
  BY <1>4, <1>7, RingShape DEF Ring!TypeOK, Byte, Ring!Slots
<1>9. ASSUME NEW n \in 1 .. Ring!Count - 1
      PROVE  Ring!Waiting'[n] = Ring!Waiting[n + 1]
  <2>1. n \in 1 .. Ring!Count' /\ n + 1 \in 1 .. Ring!Count
    BY <1>4
  <2>2. Ring!Waiting'[n] = buffer'[Ring!Slot(n)'] /\ Ring!Waiting[n + 1] = buffer[Ring!Slot(n + 1)]
    BY <1>6, <1>7, <2>1
  <2> HIDE DEF Ring!Waiting, Ring!Slot
  <2> QED
    BY <1>1, <1>5, <2>2
<1> DEFINE one == <<buffer[tail]>>
<1>10. one \in Seq(Byte) /\ Len(one) = 1 /\ one[1] = buffer[tail]
  BY <1>8
<1> HIDE DEF one
<1>11. /\ one \o Ring!Waiting' \in Seq(Byte)
       /\ Len(one \o Ring!Waiting') = 1 + Ring!Count'
       /\ \A n \in 1 .. 1 + Ring!Count' :
            (one \o Ring!Waiting')[n] = IF n <= 1 THEN one[n] ELSE Ring!Waiting'[n - 1]
  <2> DEFINE rest == Ring!Waiting'
  <2>1. rest \in Seq(Byte) /\ Len(rest) = Ring!Count'
    BY <1>6
  <2> HIDE DEF rest
  <2>2. /\ one \o rest \in Seq(Byte)
        /\ Len(one \o rest) = Len(one) + Len(rest)
        /\ \A n \in 1 .. Len(one) + Len(rest) :
             (one \o rest)[n] = IF n <= Len(one) THEN one[n] ELSE rest[n - Len(one)]
    BY <1>10, <2>1, ConcatProperties
  <2> QED
    BY <1>10, <2>1, <2>2 DEF rest
<1>12. \A n \in 1 .. Ring!Count : Ring!Waiting[n] = (one \o Ring!Waiting')[n]
  <2>1. ASSUME NEW n \in 1 .. Ring!Count PROVE Ring!Waiting[n] = (one \o Ring!Waiting')[n]
    <3>1. CASE n = 1
      BY <1>4, <1>8, <1>10, <1>11, <3>1
    <3>2. CASE n > 1
      <4>1. n - 1 \in 1 .. Ring!Count - 1 /\ n - 1 + 1 = n /\ n \in 1 .. 1 + Ring!Count'
        BY <1>4, <2>1, <3>2
      <4>2. Ring!Waiting'[n - 1] = Ring!Waiting[n]
        BY <1>9, <4>1
      <4> QED
        BY <1>11, <3>2, <4>1, <4>2
    <3>3. n = 1 \/ n > 1
      BY <1>4, <2>1
    <3> QED
      BY <3>1, <3>2, <3>3
  <2> QED
    BY <2>1
<1>13. Ring!Waiting = one \o Ring!Waiting'
  BY <1>4, <1>7, <1>11, <1>12, SeqEqual
<1> QED
  BY <1>2, <1>4, <1>13 DEF one

-----------------------------------------------------------------------------
(* The steps *)

\* The sequences of the invariant are sequences of bytes.
LEMMA ByteSequences ==
  ASSUME TypeOK
  PROVE  /\ sent \in Seq(Byte) /\ typed \in Seq(Byte)
         /\ OnItsWay \in Seq(Byte)
         /\ Ring!Waiting \in Seq(Byte) /\ Len(Ring!Waiting) = Ring!Count
         /\ Len(sent) \in Nat /\ Len(typed) \in Nat /\ Len(OnItsWay) \in Nat
         /\ Ring!Count \in Nat /\ lost \in Nat
<1>1. \A s : s \in Seq(Key) => s \in Seq(Byte)
  <2> SUFFICES ASSUME NEW s \in Seq(Key) PROVE s \in Seq(Byte)
    OBVIOUS
  <2>1. Len(s) \in Nat /\ s \in [1 .. Len(s) -> Key]
    BY LenProperties
  <2> QED
    BY <2>1 DEF Byte
<1>2. sent \in Seq(Byte) /\ typed \in Seq(Byte) /\ OnItsWay \in Seq(Byte)
  <2>1. sent \in Seq(Byte) /\ typed \in Seq(Byte) /\ c \in Byte
    <3>1. Len(sent) \in Nat /\ sent \in [1 .. Len(sent) -> Key \cup {NoKey}]
      BY LenProperties DEF TypeOK
    <3> QED
      BY <1>1, <3>1 DEF TypeOK, Byte
  <2>2. <<c>> \in Seq(Byte) /\ << >> \in Seq(Byte)
    BY <2>1, EmptySeq
  <2> QED
    BY <2>1, <2>2 DEF OnItsWay
<1>3. /\ Ring!Waiting \in Seq(Byte) /\ Len(Ring!Waiting) = Ring!Count
  BY WaitingIsSeq DEF TypeOK, WaitingShape
<1> QED
  BY <1>2, <1>3, LenProperties DEF TypeOK

\* What the invariant says is what SentAsTypedUnlessHit says.
LEMMA Lengths ==
  ASSUME TypeOK
  PROVE  Len(sent \o OnItsWay \o Ring!Waiting) = Len(sent) + Len(OnItsWay) + Ring!Count
<1> DEFINE w == Ring!Waiting
<1>1. /\ sent \in Seq(Byte) /\ OnItsWay \in Seq(Byte) /\ w \in Seq(Byte)
      /\ Len(w) = Ring!Count
  BY ByteSequences
<1> HIDE DEF w
<1>2. sent \o OnItsWay \in Seq(Byte) /\ Len(sent \o OnItsWay) = Len(sent) + Len(OnItsWay)
  BY <1>1, ConcatProperties
<1>3. Len((sent \o OnItsWay) \o w) = Len(sent \o OnItsWay) + Len(w)
  BY <1>1, <1>2, ConcatProperties
<1> QED
  BY <1>1, <1>2, <1>3 DEF w

LEMMA InitKeyboardInv == Init => KeyboardInv
<1> SUFFICES ASSUME Init PROVE KeyboardInv
  OBVIOUS
<1>1. Ring!TypeOK /\ Ring!Count = 0
  BY KeyboardAssumption DEF Init, Ring!Init, Ring!TypeOK, Ring!Slots, Ring!Count
<1>2. TypeOK
  <2>1. << >> \in Seq(Key) /\ << >> \in Seq(Key \cup {NoKey}) /\ Len(<< >>) = 0
    BY EmptySeq
  <2>2. 0 \in 0 .. LineEnd - 1 /\ 0 \in 0 .. MaxLoops - 1 /\ 0 <= MaxKeys
    BY KeyboardAssumption
  <2>3. c = NoKey /\ NoKey \in Byte
    BY DEF Init, Byte
  <2> QED
    BY <1>1, <2>1, <2>2, <2>3 DEF Init, TypeOK
<1>3. OnItsWay = << >> /\ sent = << >> /\ typed = << >>
  BY DEF Init, OnItsWay
<1>4. Ring!Waiting = << >>
  <2>1. Ring!Waiting \in Seq(Byte) /\ Len(Ring!Waiting) = 0
    BY <1>1, <1>2, ByteSequences
  <2> HIDE DEF Ring!Waiting
  <2> QED
    BY <2>1, EmptySeq
<1>5. << >> = << >> \o << >> \o << >> /\ Len(<< >>) = 0
  BY <1>2, <1>3, ConcatEmptySeq, EmptySeq, ByteSequences
<1> QED
  BY <1>1, <1>2, <1>3, <1>4, <1>5 DEF KeyboardInv, ReaderView, Init, Ring!Init

\* keyboard_irq, between any two steps of the thread.
LEMMA IrqStep ==
  ASSUME KeyboardInv, NEW k \in Key, KeyboardIrq(k)
  PROVE  KeyboardInv'
<1>1. /\ Ring!TypeOK /\ Ring!BufferWrite(k) /\ Len(typed) < MaxKeys
      /\ UNCHANGED <<driver, c, i, loops, hit, lost, sent, tail, reader, data, returned>>
      /\ OnItsWay' = OnItsWay
  BY DEF KeyboardInv, TypeOK, KeyboardIrq, Ring!BufferWrite, OnItsWay
<1>2. CASE Ring!Full(head)
  <2>1. UNCHANGED <<buffer, head>> /\ written' = FALSE
    BY <1>1, <1>2 DEF Ring!BufferWrite
  <2>2. typed' = typed
    BY <2>1 DEF KeyboardIrq
  <2>3. Ring!Waiting' = Ring!Waiting /\ Ring!Count' = Ring!Count
    BY <1>1, <2>1 DEF Ring!Waiting, Ring!Count, Ring!Slot
  <2>4. TypeOK'
    BY <1>1, <2>1, <2>2 DEF KeyboardInv, TypeOK, Ring!TypeOK
  <2> QED
    BY <1>1, <2>1, <2>2, <2>3, <2>4 DEF KeyboardInv, ReaderView
<1>3. CASE ~Ring!Full(head)
  <2>1. /\ Ring!TypeOK' /\ Ring!Count' = Ring!Count + 1
        /\ Ring!Waiting' = Append(Ring!Waiting, k)
    BY <1>1, <1>3, WriteAppends
  <2>2. /\ head' = Ring!Advance(head) /\ head' # tail /\ written' = TRUE
        /\ buffer' = [buffer EXCEPT ![head] = k]
    BY <1>1, <1>3 DEF Ring!BufferWrite, Ring!Full
  <2>3. typed' = Append(typed, k)
    BY <2>2 DEF KeyboardIrq
  <2>4. typed' \in Seq(Key) /\ Len(typed') = Len(typed) + 1 /\ Len(typed) \in Nat
    BY <2>3, AppendProperties, LenProperties DEF KeyboardInv, TypeOK
  <2>5. Len(typed') <= MaxKeys
    BY <1>1, <2>4, KeyboardAssumption
  <2>6. TypeOK'
    BY <1>1, <2>1, <2>4, <2>5 DEF KeyboardInv, TypeOK
  <2>7. ReaderView'
    <3>1. reader # "idle" => buffer'[tail] = buffer[tail]
      BY <2>2 DEF KeyboardInv, ReaderView, TypeOK, Ring!TypeOK
    <3> QED
      BY <1>1, <2>2, <3>1 DEF KeyboardInv, ReaderView
  <2>8. Len(typed') = Len(sent') + Len(OnItsWay') + Ring!Count' + lost'
    <3>1. /\ Len(sent) \in Nat /\ Len(OnItsWay) \in Nat /\ Ring!Count \in Nat
          /\ lost \in Nat
          /\ Len(typed) = Len(sent) + Len(OnItsWay) + Ring!Count + lost
      BY ByteSequences DEF KeyboardInv
    <3> QED
      BY <1>1, <2>1, <2>4, <3>1
  <2>9. ~hit' => lost' = 0 /\ typed' = sent' \o OnItsWay' \o Ring!Waiting'
    <3> SUFFICES ASSUME ~hit
                 PROVE  Append(typed, k) = sent \o OnItsWay \o Append(Ring!Waiting, k)
      BY <1>1, <2>1, <2>3 DEF KeyboardInv
    <3> DEFINE w == Ring!Waiting
               before == sent \o OnItsWay
    <3>1. typed = before \o w
      BY DEF KeyboardInv
    <3>2. w \in Seq(Byte) /\ sent \in Seq(Byte) /\ OnItsWay \in Seq(Byte)
          /\ typed \in Seq(Byte)
      BY ByteSequences DEF KeyboardInv
    <3>3. before \in Seq(Byte)
      BY <3>2, ConcatProperties
    <3>4. k \in Byte /\ <<k>> \in Seq(Byte)
      BY DEF Byte
    <3> HIDE DEF w, before
    <3>5. Append(typed, k) = (before \o w) \o <<k>>
      BY <3>1, <3>2, <3>4, AppendIsConcat
    <3>6. before \o Append(w, k) = before \o (w \o <<k>>)
      BY <3>2, <3>4, AppendIsConcat
    <3>7. (before \o w) \o <<k>> = before \o (w \o <<k>>)
      BY <3>2, <3>3, <3>4, ConcatAssociative
    <3> QED
      BY <3>5, <3>6, <3>7 DEF before, w
  <2> QED
    BY <1>1, <2>6, <2>7, <2>8, <2>9 DEF KeyboardInv
<1> QED
  BY <1>2, <1>3

\* buffer_read's test and load.
LEMMA ReadsStep ==
  ASSUME KeyboardInv, GetcReads
  PROVE  KeyboardInv'
<1>1. /\ UNCHANGED <<buffer, head, tail, returned, written, driver, c, i, loops,
                     hit, lost, typed, sent>>
      /\ driver = "getc"
      /\ \/ reader = "idle" /\ reader' = "load" /\ head # tail /\ data' = data
         \/ reader = "load" /\ reader' = "store" /\ data' = buffer[tail]
  BY DEF GetcReads, Ring!ReadTest, Ring!ReadLoad
<1>2. /\ Ring!Waiting' = Ring!Waiting /\ Ring!Count' = Ring!Count
      /\ OnItsWay' = OnItsWay
  BY <1>1 DEF Ring!Waiting, Ring!Count, Ring!Slot, OnItsWay
<1>3. Ring!TypeOK'
  BY <1>1 DEF KeyboardInv, TypeOK, Ring!TypeOK
<1>4. TypeOK'
  BY <1>1, <1>3 DEF KeyboardInv, TypeOK
<1>5. ReaderView'
  BY <1>1 DEF KeyboardInv, ReaderView
<1> QED
  BY <1>1, <1>2, <1>4, <1>5 DEF KeyboardInv

\* getc returns a key: it is on its way instead of waiting.
LEMMA KeyStep ==
  ASSUME KeyboardInv, GetcKey
  PROVE  KeyboardInv'
<1>1. /\ UNCHANGED <<i, hit, lost, typed, sent, buffer, head, data>>
      /\ data # MinusOne
      /\ driver = "getc" /\ driver' = "send" /\ loops' = 0
      /\ reader = "store" /\ reader' = "idle" /\ c' = data /\ head # tail
  BY DEF GetcKey, Ring!ReadStore, KeyboardInv, ReaderView
<1>2. /\ Ring!TypeOK' /\ Ring!Count' = Ring!Count - 1
      /\ Ring!Waiting = <<buffer[tail]>> \o Ring!Waiting'
  BY <1>1, StoreRemoves DEF GetcKey, KeyboardInv, TypeOK
<1>3. OnItsWay = << >> /\ OnItsWay' = <<data>> /\ Len(<< >>) = 0 /\ Len(<<data>>) = 1
  BY <1>1 DEF OnItsWay
<1>4. c' \in Byte /\ c' # MinusOne
  BY <1>1 DEF KeyboardInv, TypeOK, Ring!TypeOK, Byte
<1>5. 0 \in 0 .. MaxLoops - 1
  BY KeyboardAssumption
<1>6. TypeOK'
  BY <1>1, <1>2, <1>4, <1>5 DEF KeyboardInv, TypeOK
<1>7. Len(typed') = Len(sent') + Len(OnItsWay') + Ring!Count' + lost'
  <2>1. /\ Len(sent) \in Nat /\ Ring!Count \in Nat /\ lost \in Nat
        /\ Len(typed) = Len(sent) + Len(OnItsWay) + Ring!Count + lost
    BY ByteSequences DEF KeyboardInv
  <2> QED
    BY <1>1, <1>2, <1>3, <2>1
<1>8. ~hit' => lost' = 0 /\ typed' = sent' \o OnItsWay' \o Ring!Waiting'
  <2> SUFFICES ASSUME ~hit PROVE typed = sent \o <<data>> \o Ring!Waiting'
    BY <1>1, <1>3 DEF KeyboardInv
  <2> DEFINE w == Ring!Waiting
             v == Ring!Waiting'
  <2>1. typed = sent \o << >> \o w /\ w = <<data>> \o v
    BY <1>1, <1>2, <1>3 DEF KeyboardInv, ReaderView
  <2>2. sent \in Seq(Byte) /\ data \in Byte
    BY ByteSequences DEF KeyboardInv, TypeOK, Ring!TypeOK, Byte
  <2>3. v \in Seq(Byte) /\ <<data>> \in Seq(Byte)
    BY <1>2, <2>2, WaitingStaysSeq DEF WaitingShape
  <2> HIDE DEF w, v
  <2>4. sent \o << >> = sent
    BY <2>2, ConcatEmptySeq
  <2>5. sent \o (<<data>> \o v) = sent \o <<data>> \o v
    BY <2>2, <2>3, ConcatAssociative
  <2> QED
    BY <2>1, <2>4, <2>5 DEF v
<1> QED
  BY <1>1, <1>4, <1>6, <1>7, <1>8 DEF KeyboardInv, ReaderView

\* A waiting key that nobody stored over is not taken for an empty read.
LEMMA LostOnlyIfHit ==
  ASSUME KeyboardInv, driver = "getc", reader = "store", data = MinusOne
  PROVE  hit
<1> SUFFICES ASSUME ~hit PROVE FALSE
  OBVIOUS
<1>1. /\ data = buffer[tail] /\ head # tail /\ OnItsWay = << >>
      /\ typed = sent \o << >> \o Ring!Waiting
  BY DEF KeyboardInv, ReaderView, OnItsWay
<1>2. /\ Ring!Waiting \in Seq(Byte) /\ Len(Ring!Waiting) = Ring!Count
      /\ Ring!Count \in Nat \ {0} /\ Ring!Waiting[1] = buffer[tail]
  BY <1>1, WaitingIsSeq, RingShape, KeyboardAssumption
  DEF KeyboardInv, TypeOK, WaitingShape
<1> DEFINE w == Ring!Waiting
<1>3. sent \in Seq(Byte) /\ Len(sent) \in Nat
  BY ByteSequences DEF KeyboardInv
<1>4. w \in Seq(Byte) /\ Len(w) >= 1 /\ w[1] = MinusOne
  BY <1>1, <1>2
<1>5. typed = sent \o << >> \o w
  BY <1>1
<1> HIDE DEF w
<1>6. typed = sent \o w
  BY <1>3, <1>5, ConcatEmptySeq
<1>7. /\ Len(sent \o w) = Len(sent) + Len(w)
      /\ (sent \o w)[Len(sent) + 1] = w[1]
  BY <1>3, <1>4, ConcatProperties
<1>8. typed[Len(sent) + 1] = MinusOne /\ Len(sent) + 1 \in 1 .. Len(typed)
  BY <1>3, <1>4, <1>6, <1>7, LenProperties
<1>9. \A n \in 1 .. Len(typed) : typed[n] \in Key
  BY ElementOfSeq DEF KeyboardInv, TypeOK
<1> QED
  BY <1>8, <1>9, KeyboardAssumption

\* getc finds nothing, or takes a byte for nothing, and tries again or returns
\* whatever there is.
LEMMA MissedStep ==
  ASSUME KeyboardInv, GetcWait \/ GetcGivesUp
  PROVE  KeyboardInv'
<1>1. /\ UNCHANGED <<i, hit, typed, sent>> /\ Missed
      /\ driver = "getc" /\ driver' \in {"getc", "store"}
  BY DEF GetcWait, GetcGivesUp
<1>2. OnItsWay = << >> /\ OnItsWay' = << >> /\ Len(<< >>) = 0
  BY <1>1 DEF OnItsWay
<1>3. loops' \in 0 .. MaxLoops - 1 /\ c' \in Byte
  BY KeyboardAssumption DEF GetcWait, GetcGivesUp, KeyboardInv, TypeOK
<1>4. CASE Ring!ReadEmpty /\ lost' = lost
  <2>1. UNCHANGED ringVars /\ reader = "idle"
    BY <1>4 DEF Ring!ReadEmpty, Ring!vars, ringVars
  <2>2. Ring!Waiting' = Ring!Waiting /\ Ring!Count' = Ring!Count
    BY <2>1 DEF ringVars, Ring!Waiting, Ring!Count, Ring!Slot
  <2>3. Ring!TypeOK'
    BY <2>1 DEF KeyboardInv, TypeOK, Ring!TypeOK, ringVars
  <2>4. TypeOK'
    BY <1>1, <1>3, <1>4, <2>3 DEF KeyboardInv, TypeOK
  <2> QED
    BY <1>1, <1>2, <1>4, <2>1, <2>2, <2>4 DEF KeyboardInv, ReaderView, ringVars
<1>5. CASE Ring!ReadStore /\ data = MinusOne /\ lost' = lost + 1
  <2>1. reader = "store" /\ reader' = "idle" /\ head # tail
    BY <1>5 DEF Ring!ReadStore, KeyboardInv, ReaderView
  <2>2. hit
    BY <1>1, <1>5, <2>1, LostOnlyIfHit
  <2>3. Ring!TypeOK' /\ Ring!Count' = Ring!Count - 1
    BY <1>5, <2>1, StoreRemoves DEF KeyboardInv, TypeOK
  <2>4. TypeOK'
    BY <1>1, <1>3, <1>5, <2>3 DEF KeyboardInv, TypeOK
  <2>5. Len(typed') = Len(sent') + Len(OnItsWay') + Ring!Count' + lost'
    <3>1. /\ Len(sent) \in Nat /\ Ring!Count \in Nat /\ lost \in Nat
          /\ Len(typed) = Len(sent) + Len(OnItsWay) + Ring!Count + lost
      BY ByteSequences DEF KeyboardInv
    <3> QED
      BY <1>1, <1>2, <1>5, <2>3, <3>1
  <2> QED
    BY <1>1, <2>1, <2>2, <2>4, <2>5 DEF KeyboardInv, ReaderView
<1> QED
  BY <1>1, <1>4, <1>5 DEF Missed

\* SendMessage(1, c)
LEMMA SendStep ==
  ASSUME KeyboardInv, Send
  PROVE  KeyboardInv'
<1>1. /\ UNCHANGED <<ringVars, c, i, loops, hit, lost, typed>>
      /\ driver = "send" /\ driver' = "store" /\ sent' = Append(sent, c)
      /\ reader = "idle"
  BY DEF Send, KeyboardInv
<1>2. /\ Ring!Waiting' = Ring!Waiting /\ Ring!Count' = Ring!Count
      /\ OnItsWay = <<c>> /\ OnItsWay' = << >> /\ Len(<< >>) = 0 /\ Len(<<c>>) = 1
  BY <1>1 DEF ringVars, Ring!Waiting, Ring!Count, Ring!Slot, OnItsWay
<1>3. Ring!TypeOK'
  BY <1>1 DEF KeyboardInv, TypeOK, Ring!TypeOK, ringVars
<1>4. /\ sent' \in Seq(Key \cup {NoKey}) /\ Len(sent') = Len(sent) + 1
      /\ sent' = sent \o <<c>>
  <2>1. c \in Key \cup {NoKey} /\ sent \in Seq(Key \cup {NoKey})
    BY <1>1 DEF KeyboardInv, TypeOK, Byte
  <2> QED
    BY <1>1, <2>1, AppendProperties, AppendIsConcat
<1>5. TypeOK'
  BY <1>1, <1>3, <1>4 DEF KeyboardInv, TypeOK
<1>6. Len(typed') = Len(sent') + Len(OnItsWay') + Ring!Count' + lost'
  <2>1. /\ Len(sent) \in Nat /\ Ring!Count \in Nat /\ lost \in Nat
        /\ Len(typed) = Len(sent) + Len(OnItsWay) + Ring!Count + lost
    BY ByteSequences DEF KeyboardInv
  <2> QED
    BY <1>1, <1>2, <1>4, <2>1
<1>7. sent' \o << >> = sent'
  BY <1>4, ConcatEmptySeq
<1>8. ~hit' => lost' = 0 /\ typed' = sent' \o OnItsWay' \o Ring!Waiting'
  BY <1>1, <1>2, <1>4, <1>7 DEF KeyboardInv
<1> QED
  BY <1>1, <1>5, <1>6, <1>8 DEF KeyboardInv, ReaderView, ringVars

\* The index of kb_update stays below the bound of its loop.
LEMMA NextIndexInLine ==
  ASSUME NEW n \in Nat
  PROVE  NextIndex(n) \in 0 .. LineEnd - 1
BY KeyboardAssumption DEF NextIndex

\* keyboard_buffer.buffer[i] = ...: the thread is not in getc, and what waits
\* stays the same unless it is hit.
LEMMA PokeStep ==
  ASSUME KeyboardInv, NEW value \in Byte, Poke(i, value),
         driver = "store", driver' = "getc", i' \in 0 .. LineEnd - 1,
         c' = NoKey, UNCHANGED <<loops, lost, typed, sent>>
  PROVE  KeyboardInv'
<1>1. /\ UNCHANGED <<head, tail, reader, data, returned, written>>
      /\ buffer' = IF i < Size THEN [buffer EXCEPT ![i] = value] ELSE buffer
      /\ reader = "idle" /\ hit' \in BOOLEAN
      /\ hit' <=> hit \/ i \in WaitingSlots
  BY DEF Poke, KeyboardInv, TypeOK
<1>2. Ring!Count' = Ring!Count /\ OnItsWay' = OnItsWay /\ OnItsWay = << >>
  BY <1>1 DEF Ring!Count, OnItsWay
<1>3. \A n : Ring!Slot(n)' = Ring!Slot(n)
  BY <1>1 DEF Ring!Slot
<1>4. Ring!TypeOK'
  <2>1. buffer' \in [Ring!Slots -> Byte]
    BY <1>1 DEF KeyboardInv, TypeOK, Ring!TypeOK, Byte
  <2> QED
    BY <1>1, <2>1 DEF KeyboardInv, TypeOK, Ring!TypeOK, Byte
<1>5. TypeOK'
  BY <1>1, <1>4 DEF KeyboardInv, TypeOK, Byte
<1>6. ~hit' => Ring!Waiting' = Ring!Waiting
  <2> SUFFICES ASSUME i \notin WaitingSlots PROVE Ring!Waiting' = Ring!Waiting
    BY <1>1
  <2>1. \A n \in 1 .. Ring!Count : Ring!Slot(n) # i
    BY DEF WaitingSlots
  <2>2. \A n \in 1 .. Ring!Count : buffer'[Ring!Slot(n)] = buffer[Ring!Slot(n)]
    BY <1>1, <2>1, RingShape DEF KeyboardInv, TypeOK, Ring!TypeOK
  <2> QED
    BY <1>2, <1>3, <2>2 DEF Ring!Waiting
<1> QED
  BY <1>1, <1>2, <1>5, <1>6 DEF KeyboardInv, ReaderView

LEMMA StoreStep ==
  ASSUME KeyboardInv, StoreNewLine \/ StoreBackspace \/ StoreOther
  PROVE  KeyboardInv'
<1>1. i \in Nat /\ 0 \in 0 .. LineEnd - 1 /\ c \in Byte /\ NoKey \in Byte
      /\ NoKey # MinusOne
  BY KeyboardAssumption DEF KeyboardInv, TypeOK, Byte
<1>2. NextIndex(i + 1) \in 0 .. LineEnd - 1 /\ NextIndex(i + 2) \in 0 .. LineEnd - 1
  BY <1>1, NextIndexInLine
<1>3. CASE StoreNewLine
  BY <1>1, <1>3, PokeStep DEF StoreNewLine
<1>4. CASE StoreOther
  BY <1>1, <1>2, <1>4, PokeStep DEF StoreOther
<1>5. CASE StoreBackspace
  <2>1. /\ UNCHANGED <<ringVars, loops, hit, lost, typed, sent>>
        /\ driver = "store" /\ driver' = "getc" /\ i' = NextIndex(i + 1)
        /\ c' = NoKey
    BY <1>5 DEF StoreBackspace
  <2>2. /\ Ring!Waiting' = Ring!Waiting /\ Ring!Count' = Ring!Count
        /\ OnItsWay' = OnItsWay
    BY <2>1 DEF ringVars, Ring!Waiting, Ring!Count, Ring!Slot, OnItsWay
  <2>3. Ring!TypeOK'
    BY <2>1 DEF KeyboardInv, TypeOK, Ring!TypeOK, ringVars
  <2>4. TypeOK'
    BY <1>1, <1>2, <2>1, <2>3 DEF KeyboardInv, TypeOK
  <2> QED
    BY <2>1, <2>2, <2>4 DEF KeyboardInv, ReaderView, ringVars
<1> QED
  BY <1>3, <1>4, <1>5

LEMMA StutterStep ==
  ASSUME KeyboardInv, UNCHANGED vars
  PROVE  KeyboardInv'
<1>1. UNCHANGED <<ringVars, driver, c, i, loops, hit, lost, typed, sent>>
  BY DEF vars
<1>2. /\ Ring!Waiting' = Ring!Waiting /\ Ring!Count' = Ring!Count
      /\ OnItsWay' = OnItsWay
  BY <1>1 DEF ringVars, Ring!Waiting, Ring!Count, Ring!Slot, OnItsWay
<1>3. Ring!TypeOK'
  BY <1>1 DEF KeyboardInv, TypeOK, Ring!TypeOK, ringVars
<1>4. TypeOK'
  BY <1>1, <1>3 DEF KeyboardInv, TypeOK
<1> QED
  BY <1>1, <1>2, <1>4 DEF KeyboardInv, ReaderView, ringVars

\* The inductive invariant holds, with interrupts between any two steps of
\* getc and kb_update.
THEOREM KeyboardInvariance == Spec => []KeyboardInv
<1>1. KeyboardInv /\ [Next]_vars => KeyboardInv'
  BY IrqStep, ReadsStep, KeyStep, MissedStep, SendStep, StoreStep, StutterStep
  DEF Next, KbUpdate
<1> QED
  BY <1>1, InitKeyboardInv, PTL DEF Spec

\* What port 1 gets is what was typed: keyboard_irq and the thread share the
\* buffer without a lock, and only a key that kb_update itself overwrites
\* changes, or is lost if getc takes it for an empty read; no other is lost and
\* none is sent twice.
THEOREM KeysAreSentAsTyped == Spec => []SentAsTypedUnlessHit
<1>1. KeyboardInv => SentAsTypedUnlessHit
  BY Lengths, ByteSequences DEF KeyboardInv, SentAsTypedUnlessHit
<1> QED
  BY <1>1, KeyboardInvariance, PTL

=============================================================================
