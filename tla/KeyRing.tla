------------------------------ MODULE KeyRing ------------------------------
(***************************************************************************)
(* The ring buffer of kernel/std/ringbuffer.cpp as the keyboard uses it:   *)
(* keyboard_irq calls buffer_write, with interrupts off and so in one      *)
(* step; the keyboard thread calls buffer_read, and the interrupt may come *)
(* between any two of its loads and stores.  There is no lock: head        *)
(* belongs to the interrupt and tail to the thread.                        *)
(***************************************************************************)
EXTENDS Naturals, Sequences

CONSTANTS Size,       \* KEYBOARD_BUFFER_SIZE (512)
          Key,        \* the bytes that keyboard_irq writes
          NoKey       \* the content of a slot that was never written

ASSUME KeyRingAssumption == Size \in Nat /\ Size >= 2 /\ NoKey \notin Key

VARIABLES buffer,     \* buffer_t::buffer
          head, tail, \* buffer_t::head, the next slot to write, and ::tail
          reader,     \* where the thread is in buffer_read
          data,       \* the local variable of buffer_read
          returned,   \* what buffer_read returned last
          written     \* buffer_write returned 0, not -1

vars == <<buffer, head, tail, reader, data, returned, written>>

Slots == 0 .. Size - 1

Advance(index) == IF index + 1 >= Size THEN 0 ELSE index + 1

Init ==
  /\ buffer = [s \in Slots |-> NoKey]
  /\ head = 0
  /\ tail = 0
  /\ reader = "idle"
  /\ data = NoKey
  /\ returned = NoKey
  /\ written = TRUE

\* A write that uses the last free slot too.
FullNever(index) == FALSE

\* next == tail: the buffer is full although one slot is free
Full(index) == Advance(index) = tail

\* keyboard_irq, for a pressed key; the 0 of a key that has no character is a
\* value like the others
BufferWrite(v) ==
  /\ IF Full(head)
     THEN /\ written' = FALSE
          /\ UNCHANGED <<buffer, head>>
     ELSE /\ written' = TRUE
          /\ buffer' = [buffer EXCEPT ![head] = v]
          /\ head' = Advance(head)
  /\ UNCHANGED <<tail, reader, data, returned>>

\* head == tail: return -1, and the caller tries again later
ReadEmpty ==
  /\ reader = "idle"
  /\ head = tail
  /\ UNCHANGED vars

\* The other outcome of the test.
ReadTest ==
  /\ reader = "idle"
  /\ head # tail
  /\ reader' = "load"
  /\ UNCHANGED <<buffer, head, tail, data, returned, written>>

\* data = buffer[tail]
ReadLoad ==
  /\ reader = "load"
  /\ data' = buffer[tail]
  /\ reader' = "store"
  /\ UNCHANGED <<buffer, head, tail, returned, written>>

\* tail = next; return data
ReadStore ==
  /\ reader = "store"
  /\ tail' = Advance(tail)
  /\ returned' = data
  /\ reader' = "idle"
  /\ UNCHANGED <<buffer, head, data, written>>

BufferRead == ReadEmpty \/ ReadTest \/ ReadLoad \/ ReadStore

Next == (\E v \in Key : BufferWrite(v)) \/ BufferRead

Spec == Init /\ [][Next]_vars

-----------------------------------------------------------------------------
(* Properties *)

TypeOK ==
  /\ buffer \in [Slots -> Key \cup {NoKey}]
  /\ head \in Slots
  /\ tail \in Slots
  /\ reader \in {"idle", "load", "store"}
  /\ data \in Key \cup {NoKey}
  /\ returned \in Key \cup {NoKey}
  /\ written \in BOOLEAN

\* How many bytes wait, and where the i-th of them is.
Count == IF head >= tail THEN head - tail ELSE head + Size - tail
Slot(i) == IF tail + i - 1 >= Size THEN tail + i - 1 - Size ELSE tail + i - 1
Waiting == [i \in 1 .. Count |-> buffer[Slot(i)]]

\* What the thread has seen stays true whatever the interrupt does between
\* the steps of buffer_read: there is a byte to take, and the one that was
\* loaded is still the oldest one waiting.
ReaderViewValid ==
  /\ reader # "idle" => head # tail
  /\ reader = "store" => data = buffer[tail]

Fifo == INSTANCE BoundedFifo
          WITH Value <- Key, NoValue <- NoKey, Capacity <- Size - 1,
               queue <- Waiting, out <- returned, accepted <- written

\* The ring implements a FIFO of Size - 1 bytes: no byte is lost, repeated or
\* reordered, and a write fails only when Size - 1 bytes are waiting.
ImplementsFifo == Fifo!Spec
=============================================================================
