------------------------------ MODULE Keyboard ------------------------------
(***************************************************************************)
(* The keyboard driver, kernel/drivers/keyboard.cpp: keyboard_irq puts the *)
(* key that was pressed into the ring buffer, and the thread kb_update     *)
(* takes it out with getc, which sends it to port 1 of the postbox.        *)
(*                                                                         *)
(* kb_update also stores each key in "buffer[i]" of the same ring buffer,  *)
(* counting i from 0 in every line: it does not know where head and tail   *)
(* are.  getc gives up after a number of empty reads and then returns      *)
(* without a value, which is undefined: any byte may come back.  It knows  *)
(* an empty read by the -1 of buffer_read, which as a char is the byte     *)
(* 0xFF: no key has it, but kb_update may store it in the ring.            *)
(***************************************************************************)
EXTENDS Naturals, Sequences

CONSTANTS Size, Key, NoKey,  \* as in KeyRing; NoKey is also the 0 of a line end
          NewLine,           \* the key '\n'
          Backspace,         \* the key '\b'
          MinusOne,          \* the byte 0xFF
          MaxLoops,          \* empty reads before getc gives up (1024)
          LineEnd,           \* bound of i in kb_update (1024)
          MaxKeys            \* how many keys are typed in the model

ASSUME KeyboardAssumption ==
  /\ Size \in Nat /\ Size >= 2
  /\ NewLine \in Key /\ Backspace \in Key /\ NewLine # Backspace
  /\ MinusOne \notin Key \cup {NoKey}
  /\ MaxLoops \in Nat \ {0} /\ LineEnd \in Nat \ {0} /\ MaxKeys \in Nat

VARIABLES buffer, head, tail, reader, data, returned, written,
          driver,     \* where kb_update is: "getc", "send" or "store"
          c,          \* what getc returned, until the end of kb_update's turn
          i,          \* the index of kb_update
          loops,      \* the loop counter of getc
          hit,        \* a byte was stored over a key that still waits
          lost,       \* history: how many bytes getc took for empty reads
          typed,      \* the keys that buffer_write accepted, in order
          sent        \* what was sent to port 1, in order

ringVars == <<buffer, head, tail, reader, data, returned, written>>
vars == <<ringVars, driver, c, i, loops, hit, lost, typed, sent>>

Ring == INSTANCE KeyRing WITH Key <- Key \cup {MinusOne}

Byte == Key \cup {NoKey, MinusOne}

Init ==
  /\ Ring!Init
  /\ driver = "getc"
  /\ c = NoKey
  /\ i = 0
  /\ loops = 0
  /\ hit = FALSE
  /\ lost = 0
  /\ typed = << >>
  /\ sent = << >>

\* keyboard_irq for a pressed key; releases are ignored
KeyboardIrq(k) ==
  /\ Len(typed) < MaxKeys
  /\ Ring!BufferWrite(k)
  /\ typed' = IF written' THEN Append(typed, k) ELSE typed
  /\ UNCHANGED <<driver, c, i, loops, hit, lost, sent>>

\* Inside buffer_read.
GetcReads ==
  /\ driver = "getc"
  /\ Ring!ReadTest \/ Ring!ReadLoad
  /\ UNCHANGED <<driver, c, i, loops, hit, lost, typed, sent>>

\* A getc that returns the key before.
GetcKeyAgain ==
  /\ driver = "getc"
  /\ Ring!ReadStore
  /\ data # MinusOne
  /\ c' = returned
  /\ loops' = 0
  /\ driver' = "send"
  /\ UNCHANGED <<i, hit, lost, typed, sent>>

\* buffer_read returned a key: not c == -1.
GetcKey ==
  /\ driver = "getc"
  /\ Ring!ReadStore
  /\ data # MinusOne
  /\ c' = returned'
  /\ loops' = 0
  /\ driver' = "send"
  /\ UNCHANGED <<i, hit, lost, typed, sent>>

\* c == -1: the ring is empty, or its oldest byte, which buffer_read has taken
\* out, is 0xFF.
Missed ==
  \/ Ring!ReadEmpty /\ lost' = lost
  \/ Ring!ReadStore /\ data = MinusOne /\ lost' = lost + 1

\* hlt, and try again.
GetcWait ==
  /\ driver = "getc"
  /\ Missed
  /\ loops + 1 < MaxLoops
  /\ loops' = loops + 1
  /\ UNCHANGED <<driver, c, i, hit, typed, sent>>

\* The last try failed: getc returns without a value.
GetcGivesUp ==
  /\ driver = "getc"
  /\ Missed
  /\ loops + 1 = MaxLoops
  /\ loops' = 0
  /\ \E garbage \in Byte : c' = garbage
  /\ driver' = "store"
  /\ UNCHANGED <<i, hit, typed, sent>>

\* A driver that sends only what ends up in its line.
SendPrintable ==
  /\ driver = "send"
  /\ sent' = IF c = Backspace THEN sent ELSE Append(sent, c)
  /\ driver' = "store"
  /\ UNCHANGED <<ringVars, c, i, loops, hit, lost, typed>>

\* Process::SendMessage(1, c)
Send ==
  /\ driver = "send"
  /\ sent' = Append(sent, c)
  /\ driver' = "store"
  /\ UNCHANGED <<ringVars, c, i, loops, hit, lost, typed>>

WaitingSlots == {Ring!Slot(n) : n \in 1 .. Ring!Count}

\* keyboard_buffer.buffer[index] = value; what lies behind the buffer is left
\* out.
Poke(index, value) ==
  /\ buffer' = IF index < Size THEN [buffer EXCEPT ![index] = value]
                               ELSE buffer
  /\ hit' = (hit \/ index \in WaitingSlots)
  /\ UNCHANGED <<head, tail, reader, data, returned, written>>

\* The increment of the loop in kb_update, and its start in the next line.
NextIndex(n) == IF n < LineEnd THEN n ELSE 0

\* What kb_update does with what getc returned.
StoreNewLine ==
  /\ driver = "store" /\ c = NewLine
  /\ Poke(i, NoKey)
  /\ i' = 0
  /\ driver' = "getc"
  /\ c' = NoKey
  /\ UNCHANGED <<loops, lost, typed, sent>>

StoreBackspace ==
  /\ driver = "store" /\ c = Backspace
  /\ i' = NextIndex(i + 1)
  /\ driver' = "getc"
  /\ c' = NoKey
  /\ UNCHANGED <<ringVars, loops, hit, lost, typed, sent>>

StoreOther ==
  /\ driver = "store" /\ c \notin {NewLine, Backspace}
  /\ Poke(i, c)
  /\ i' = NextIndex(i + 2)
  /\ driver' = "getc"
  /\ c' = NoKey
  /\ UNCHANGED <<loops, lost, typed, sent>>

KbUpdate == \/ GetcReads \/ GetcKey \/ GetcWait \/ GetcGivesUp \/ Send
            \/ StoreNewLine \/ StoreBackspace \/ StoreOther

Next == (\E k \in Key : KeyboardIrq(k)) \/ KbUpdate

Spec == Init /\ [][Next]_vars

\* The keyboard thread gets the CPU again and again (see Scheduler) and hlt
\* ends with the next timer interrupt.
FairSpec == Spec /\ WF_vars(KbUpdate)

-----------------------------------------------------------------------------
(* Properties *)

TypeOK ==
  /\ Ring!TypeOK
  /\ driver \in {"getc", "send", "store"}
  /\ c \in Byte
  /\ i \in 0 .. LineEnd - 1
  /\ loops \in 0 .. MaxLoops - 1
  /\ hit \in BOOLEAN
  /\ lost \in Nat
  /\ typed \in Seq(Key) /\ Len(typed) <= MaxKeys
  /\ sent \in Seq(Key \cup {NoKey})

\* Every accepted key is sent on, in spite of getc giving up now and then, or
\* is taken for an empty read.
KeysGetThrough ==
  \A n \in 1 .. MaxKeys : Len(typed) >= n ~> Len(sent) + lost >= n

\* The key that getc has returned and kb_update has not sent yet.
OnItsWay == IF driver = "send" THEN <<c>> ELSE << >>

\* keyboard "stdout" -> tty "stdin" (tty.cpp:154): what was sent, is about to
\* be sent and waits is what was typed, in that order, unless a store of
\* kb_update hit a waiting key.  What getc returns when it gives up, and the
\* stores behind the buffer, do not matter.  A hit changes a key, and a key is
\* lost only when it was hit with the 0xFF that getc takes for -1; otherwise
\* none is lost and none is sent twice, and 0xFF is never sent (TypeOK).
SentAsTypedUnlessHit ==
  /\ TypeOK
  /\ Len(typed) = Len(sent \o OnItsWay \o Ring!Waiting) + lost
  /\ hit \/ (lost = 0 /\ typed = sent \o OnItsWay \o Ring!Waiting)
=============================================================================
