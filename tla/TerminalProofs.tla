--------------------------- MODULE TerminalProofs ---------------------------
(***************************************************************************)
(* Proofs about Terminal for every size of the screen and of the buffers,  *)
(* every set of commands and whatever they print: what parse gets, when a  *)
(* buffer is too small, and where the cursor can be.  And about Display,   *)
(* for a frame and a font of any size: between any two stores of the       *)
(* terminal thread a row that surface_update would pass over is on the     *)
(* screen, and what it takes to store outside.                             *)
(***************************************************************************)
EXTENDS Terminal, Display, Integers, SequenceTheorems, WellFoundedInduction, TLAPS

\* What is printed, with the marks where strings begin.
Mark == Char \cup {Return, Check}

\* The points at which a line is being read.
Reading == {"read", "scroll", "scan"}

-----------------------------------------------------------------------------
(* The line *)

\* The characters of a line are in the buffer, as far as they fit, and zeros
\* behind them.
BufferHoldsLine ==
  \A k \in 0 .. BufferSize - 1 :
    tty_buffer[k] = IF k < Len(entered) THEN entered[k + 1] ELSE Nul

\* The queue of port 2, and that every message up to its last one that is in
\* the list was stored there.
Port == [list : [Array -> Char \cup {Nul}], head_index : Array,
         list_size : 0 .. kMaxMessages, behind : BOOLEAN, crowded : BOOLEAN]

PortOK(port) ==
  /\ port \in Port
  /\ \A n \in Array : n < port.head_index + port.list_size => port.list[n] \in Char

LineType ==
  /\ typed \in 0 .. MaxTyped
  /\ PortOK(port2)
  /\ tty_buffer \in [0 .. BufferSize - 1 -> Char \cup {Nul}]
  /\ tty_idx \in Nat
  /\ pc \in {"welcome", "prompt", "read", "scroll", "scan", "parse", "command",
             "parsed", "fault", "hung"}
  /\ output \in 0 .. MaxOutput
  /\ entered \in Seq(Char)
  /\ overrun \in BOOLEAN

LineInv ==
  /\ LineType
  /\ pc \in {"welcome", "prompt"} => tty_idx = 0 /\ entered = << >>
  /\ pc \in {"parse", "command", "parsed"} => tty_idx = 0
  /\ pc \in Reading => tty_idx = Len(entered)
  /\ pc \in Reading \cup {"parse"} => BufferHoldsLine
  /\ pc = "parse" => HasLine
  /\ BuffersHoldShortLines

\* What wrap() makes of the indices that push and pop give it.
LEMMA Wrapped ==
  ASSUME NEW index \in Nat, index < 2 * kMaxMessages
  PROVE  wrap(index) = IF index < kMaxMessages THEN index ELSE index - 1
BY TerminalAssumption DEF wrap

\* A key that is stored, or not, and one that is taken.
LEMMA PortKept ==
  ASSUME NEW port, PortOK(port)
  PROVE  /\ \A c \in Char : PortOK(push(port, c))
         /\ port.list_size > 0 =>
              PortOK(pop(port)) /\ port.list[port.head_index] \in Char
<1>1. /\ port.head_index \in Nat /\ port.head_index < kMaxMessages
      /\ port.list_size \in Nat /\ port.list_size <= kMaxMessages
      /\ port.list \in [Array -> Char \cup {Nul}]
      /\ port.behind \in BOOLEAN /\ port.crowded \in BOOLEAN
      /\ kMaxMessages \in Nat /\ kMaxMessages > 0
  BY TerminalAssumption DEF PortOK, Port, Array
<1>2. ASSUME NEW c \in Char PROVE PortOK(push(port, c))
  <2>1. CASE port.list_size = kMaxMessages
    BY <2>1 DEF push
  <2>2. CASE port.list_size # kMaxMessages
    <3> DEFINE cell == wrap(port.head_index + port.list_size)
               list == IF cell \in Array THEN [port.list EXCEPT ![cell] = c] ELSE port.list
               size == port.list_size + 1
               behind == port.behind \/ cell \notin Array
               crowded == port.crowded \/ (port.list_size > 0 /\ typed >= kMaxMessages)
    <3>1. push(port, c) = [port EXCEPT !.list = list, !.list_size = size,
                                       !.behind = behind, !.crowded = crowded]
      BY <2>2 DEF push
    <3>2. cell = IF port.head_index + port.list_size < kMaxMessages
                 THEN port.head_index + port.list_size
                 ELSE port.head_index + port.list_size - 1
      BY <1>1, <2>2, Wrapped
    <3>3. list \in [Array -> Char \cup {Nul}] /\ size \in 0 .. kMaxMessages
          /\ behind \in BOOLEAN /\ crowded \in BOOLEAN
      BY <1>1, <2>2
    <3>4. ASSUME NEW n \in Array, n < port.head_index + size PROVE list[n] \in Char
      <4>1. n \in Nat /\ n < kMaxMessages
        BY <1>1 DEF Array
      <4>2. CASE n = cell
        BY <1>1, <4>2
      <4>3. CASE n # cell
        <5>1. n < port.head_index + port.list_size
          BY <1>1, <3>2, <3>4, <4>1, <4>3
        <5>2. list[n] = port.list[n]
          BY <1>1, <4>3
        <5> QED
          BY <5>1, <5>2 DEF PortOK
      <4> QED
        BY <4>2, <4>3
    <3> HIDE DEF cell, list, size, behind, crowded
    <3>5. /\ push(port, c) \in Port /\ push(port, c).list = list
          /\ push(port, c).head_index = port.head_index
          /\ push(port, c).list_size = size
      BY <3>1, <3>3 DEF PortOK, Port
    <3> QED
      BY <3>4, <3>5 DEF PortOK
  <2> QED
    BY <2>1, <2>2
<1>3. ASSUME port.list_size > 0
      PROVE  PortOK(pop(port)) /\ port.list[port.head_index] \in Char
  <2> DEFINE head == wrap(port.head_index + 1)
             size == port.list_size - 1
             crowded == port.crowded /\ port.list_size > 1
  <2>1. pop(port) = [port EXCEPT !.head_index = head, !.list_size = size,
                                 !.crowded = crowded]
    BY DEF pop
  <2>2. head = IF port.head_index + 1 < kMaxMessages THEN port.head_index + 1
               ELSE port.head_index
    BY <1>1, Wrapped
  <2>3. /\ head \in Array /\ size \in 0 .. kMaxMessages /\ crowded \in BOOLEAN
        /\ head + size <= port.head_index + port.list_size
        /\ head \in Nat /\ size \in Nat
    BY <1>1, <1>3, <2>2 DEF Array
  <2> HIDE DEF head, size, crowded
  <2>4. /\ pop(port) \in Port /\ pop(port).list = port.list
        /\ pop(port).head_index = head /\ pop(port).list_size = size
    BY <2>1, <2>3 DEF PortOK, Port
  <2>5. \A n \in Array : n < head + size => n < port.head_index + port.list_size
    BY <1>1, <2>3 DEF Array
  <2>6. PortOK(pop(port))
    BY <2>4, <2>5 DEF PortOK
  <2>7. port.head_index \in Array /\ port.head_index < port.head_index + port.list_size
    BY <1>1, <1>3 DEF Array
  <2> QED
    BY <2>6, <2>7 DEF PortOK
<1> QED
  BY <1>2, <1>3

\* A set of numbers up to a bound has a greatest one.
LEMMA MaxExists ==
  ASSUME NEW bound \in Nat, NEW S, S \subseteq 0 .. bound, S # {}
  PROVE  Max(S) \in S /\ \A n \in S : n <= Max(S)
<1> DEFINE T == {bound - n : n \in S}
           R == OpToRel(<, Nat)
<1>1. T \subseteq Nat /\ T # {}
  <2>1. \A n \in S : bound - n \in Nat
    OBVIOUS
  <2> QED
    BY <2>1
<1>2. PICK x \in T : \A y \in T : ~ (<<y, x>> \in R)
  <2> HIDE DEF T, R
  <2> QED BY <1>1, NatLessThanWellFounded, WFMin DEF R
<1>3. \A y \in T : ~ (y < x)
  BY <1>1, <1>2 DEF OpToRel
<1>4. PICK m \in S : x = bound - m
  OBVIOUS
<1>5. \A n \in S : m >= n
  <2> SUFFICES ASSUME NEW n \in S PROVE m >= n
    OBVIOUS
  <2>1. ~ (bound - n < x)
    BY <1>3
  <2> QED
    BY <2>1, <1>4
<1> QED
  BY <1>5 DEF Max

\* What parse makes of the buffer: the characters that were read and fit.
LEMMA LineIsWhatFits ==
  ASSUME LineType, BufferHoldsLine
  PROVE  /\ Line \in Seq(Char)
         /\ Len(Line) <= Len(entered) /\ Len(Line) <= BufferSize
         /\ Len(Line) = Len(entered) \/ Len(Line) = BufferSize
         /\ \A n \in 1 .. Len(Line) : Line[n] = entered[n]
<1> DEFINE filled == {n \in 0 .. BufferSize :
                        \A k \in 0 .. n - 1 : tty_buffer[k] # Nul}
           length == Max(filled)
<1>1. BufferSize \in Nat /\ Len(entered) \in Nat /\ Nul \notin Char
  BY LenProperties, TerminalAssumption DEF LineType
<1>2. \A k \in 1 .. Len(entered) : entered[k] \in Char
  BY ElementOfSeq DEF LineType
<1>3. \A n \in 0 .. BufferSize : n \in filled <=> n <= Len(entered)
  <2>1. \A k \in 0 .. BufferSize - 1 : tty_buffer[k] # Nul <=> k < Len(entered)
    BY <1>1, <1>2 DEF BufferHoldsLine
  <2> QED
    BY <1>1, <2>1
<1>4. filled \subseteq 0 .. BufferSize /\ 0 \in filled
  BY <1>1, <1>3
<1>5. length \in filled /\ \A n \in filled : n <= length
  <2> HIDE DEF filled
  <2> QED
    BY <1>1, <1>4, MaxExists
<1>6. Line = [n \in 1 .. length |-> tty_buffer[n - 1]]
  BY DEF Line
<1> HIDE DEF length, filled
<1>7. /\ length \in 0 .. BufferSize /\ length <= Len(entered)
      /\ length = Len(entered) \/ length = BufferSize
  BY <1>1, <1>3, <1>4, <1>5
<1>8. \A n \in 1 .. length : tty_buffer[n - 1] = entered[n] /\ entered[n] \in Char
  BY <1>1, <1>2, <1>7 DEF BufferHoldsLine
<1>9. Line \in [1 .. length -> Char]
  BY <1>6, <1>8
<1>10. Line \in Seq(Char) /\ Len(Line) = length
  BY <1>1, <1>7, <1>9
<1> QED
  BY <1>6, <1>7, <1>8, <1>10

\* A buffer with a line end in it holds a line that is not empty.
LEMMA LineNotEmpty ==
  ASSUME LineType, BufferHoldsLine, HasLine
  PROVE  /\ Len(entered) > 0 /\ Len(Line) > 0
         /\ Front(Line) \in Seq(Char) /\ Len(Front(Line)) = Len(Line) - 1
         /\ Front(Line) = << >> => entered = <<NewLine>>
<1>1. PICK k \in 0 .. BufferSize - 1 : tty_buffer[k] = NewLine
  BY DEF HasLine, LineType
<1>2. Len(entered) \in Nat /\ BufferSize \in Nat /\ BufferSize > 1 /\ NewLine # Nul
  <2>1. Len(entered) \in Nat
    BY LenProperties DEF LineType
  <2>2. BufferSize \in Nat /\ BufferSize > 1
    BY TerminalAssumption
  <2>3. NewLine # Nul
    BY TerminalAssumption DEF Char
  <2> QED
    BY <2>1, <2>2, <2>3
<1>3. k < Len(entered) /\ entered[k + 1] = NewLine
  BY <1>1, <1>2 DEF BufferHoldsLine
<1>4. Len(Line) \in Nat /\ Len(Line) > 0
  BY <1>2, <1>3, LineIsWhatFits, LenProperties
<1>5. /\ Front(Line) \in Seq(Char)
      /\ Len(Front(Line)) = Len(Line) - 1
  <2> DEFINE last == Len(Line) - 1
  <2>1. \A i \in 1 .. last : Line[i] \in Char
    BY <1>4, LineIsWhatFits, ElementOfSeq
  <2>2. last \in Int /\ (IF 1 <= last THEN last - 1 + 1 ELSE 0) = Len(Line) - 1
    <3>1. \A n \in Nat : n > 0 =>
            n - 1 \in Int /\ (IF 1 <= n - 1 THEN n - 1 - 1 + 1 ELSE 0) = n - 1
      OBVIOUS
    <3> QED
      BY <1>4, <3>1
  <2>3. Front(Line) = SubSeq(Line, 1, last)
    BY DEF Front
  <2> HIDE DEF last
  <2>4. /\ SubSeq(Line, 1, last) \in Seq(Char)
        /\ Len(SubSeq(Line, 1, last)) = IF 1 <= last THEN last - 1 + 1 ELSE 0
    BY <2>1, <2>2, SubSeqProperties
  <2> QED
    BY <2>2, <2>3, <2>4
<1>6. ASSUME Front(Line) = << >> PROVE entered = <<NewLine>>
  <2>1. Len(Line) = 1
    BY <1>4, <1>5, <1>6, EmptySeq
  <2>2. Len(entered) = 1
    BY <1>2, <2>1, LineIsWhatFits
  <2>3. entered[1] = NewLine
    BY <1>1, <1>2, <1>3, <2>2
  <2> QED
    BY <2>2, <2>3, LenProperties DEF LineType
<1> QED
  BY <1>2, <1>3, <1>4, <1>5, <1>6

\* The word that is looked up is shorter than the line.
LEMMA WordFits ==
  ASSUME LineType, BufferHoldsLine, HasLine
  PROVE  Word \in Seq(Char) /\ Len(Word) < Len(entered)
<1> DEFINE clipped == Front(Line)
           lengths == {n \in 0 .. Len(clipped) : \A k \in 1 .. n : clipped[k] # Space}
           length  == Max(lengths)
<1>1. /\ clipped \in Seq(Char) /\ Len(clipped) \in Nat
      /\ Len(clipped) = Len(Line) - 1 /\ Len(Line) \in Nat
  BY LineNotEmpty, LineIsWhatFits, LenProperties
<1>2. length \in 0 .. Len(clipped)
  <2>1. lengths \subseteq 0 .. Len(clipped) /\ 0 \in lengths
    BY <1>1
  <2> HIDE DEF lengths, clipped
  <2>2. length \in lengths
    BY <1>1, <2>1, MaxExists
  <2> QED
    BY <2>1, <2>2
<1>3. Word = SubSeq(clipped, 1, length)
  BY DEF Word
<1> HIDE DEF length, clipped
<1>4. \A i \in 1 .. length : clipped[i] \in Char
  BY <1>1, <1>2, ElementOfSeq
<1>5. Word \in Seq(Char) /\ Len(Word) = length
  BY <1>1, <1>2, <1>3, <1>4, SubSeqProperties
<1> QED
  BY <1>1, <1>2, <1>5, LineIsWhatFits, LenProperties DEF LineType

LEMMA LineInit == Init => LineInv
<1> SUFFICES ASSUME Init PROVE LineInv
  OBVIOUS
<1>1. LineType
  <2>1. ClearBuffer \in [0 .. BufferSize - 1 -> Char \cup {Nul}]
    BY DEF ClearBuffer
  <2>2. << >> \in Seq(Char)
    BY EmptySeq
  <2>3. 0 \in 0 .. MaxTyped /\ 0 \in 0 .. MaxOutput /\ 0 \in Nat
    BY TerminalAssumption
  <2>4. PortOK(port2)
    <3>1. 0 \in Array /\ 0 \in 0 .. kMaxMessages /\ \A n \in Array : ~(n < 0 + 0)
      BY TerminalAssumption DEF Array
    <3>2. port2 \in Port /\ port2.head_index = 0 /\ port2.list_size = 0
      BY <3>1 DEF Init, Port
    <3> QED
      BY <3>1, <3>2 DEF PortOK
  <2> QED
    BY <2>1, <2>2, <2>3, <2>4 DEF Init, LineType
<1>2. ~overrun
  BY DEF Init
<1> QED
  BY <1>1, <1>2 DEF Init, LineInv, Reading, BuffersHoldShortLines

\* A key that is read goes behind those before it, if it fits.
LEMMA KeyStored ==
  ASSUME LineInv, ReadKey
  PROVE  LineInv'
<1> DEFINE c == port2.list[port2.head_index]
<1>1. c \in Char /\ PortOK(port2')
  BY PortKept DEF ReadKey, LineInv, LineType
<1>2. /\ entered' \in Seq(Char) /\ Len(entered') = Len(entered) + 1
      /\ \A i \in 1 .. Len(entered) : entered'[i] = entered[i]
      /\ entered'[Len(entered) + 1] = c
  BY <1>1, AppendProperties DEF ReadKey, LineInv, LineType
<1>3. tty_idx = Len(entered) /\ BufferHoldsLine /\ pc = "read" /\ pc' = "read"
  BY DEF ReadKey, At, LineInv, Reading
<1>4. Len(entered) \in Nat /\ BufferSize \in Nat
  BY LenProperties, TerminalAssumption DEF LineInv, LineType
<1>5. tty_idx' = tty_idx + 1 /\ typed' = typed /\ output' = output
  BY DEF ReadKey
<1>6. tty_buffer' = IF tty_idx < BufferSize THEN [tty_buffer EXCEPT ![tty_idx] = c]
                                            ELSE tty_buffer
  BY DEF ReadKey
<1>7. overrun' = (overrun \/ tty_idx >= BufferSize)
  BY DEF ReadKey
<1>8. tty_buffer' \in [0 .. BufferSize - 1 -> Char \cup {Nul}]
  BY <1>1, <1>6 DEF LineInv, LineType
<1>9. LineType'
  BY <1>1, <1>2, <1>3, <1>5, <1>7, <1>8 DEF LineInv, LineType
<1>10. BufferHoldsLine'
  <2> SUFFICES ASSUME NEW k \in 0 .. BufferSize - 1
               PROVE  tty_buffer'[k] = IF k < Len(entered') THEN entered'[k + 1] ELSE Nul
    BY DEF BufferHoldsLine
  <2>1. tty_buffer[k] = IF k < Len(entered) THEN entered[k + 1] ELSE Nul
    BY <1>3 DEF BufferHoldsLine
  <2>2. tty_buffer \in [0 .. BufferSize - 1 -> Char \cup {Nul}]
    BY DEF LineInv, LineType
  <2> QED
    BY <1>2, <1>3, <1>4, <1>6, <2>1, <2>2
<1>11. BuffersHoldShortLines'
  BY <1>2, <1>3, <1>4, <1>7, TerminalAssumption, LenProperties
     DEF LineInv, LineType, BuffersHoldShortLines
<1> QED
  BY <1>2, <1>3, <1>5, <1>9, <1>10, <1>11 DEF LineInv, Reading

LEMMA LineStep ==
  ASSUME LineInv, [Next]_vars
  PROVE  LineInv'
<1> USE DEF LineInv
<1>1. ASSUME NEW c \in Char, Type(c) PROVE LineInv'
  <2>1. PortOK(port2')
    BY <1>1, PortKept DEF Type, LineType
  <2>2. typed' \in 0 .. MaxTyped
    BY <1>1, TerminalAssumption DEF Type, LineType
  <2> QED
    BY <1>1, <2>1, <2>2
       DEF Type, line, LineType, BufferHoldsLine, HasLine, BuffersHoldShortLines
<1>2. CASE PrintNext
  BY <1>2 DEF PrintNext, input, line, LineType, BufferHoldsLine, HasLine,
              BuffersHoldShortLines
<1>3. CASE Welcome
  BY <1>3 DEF Welcome, At, input, line, LineType, Reading, BuffersHoldShortLines
<1>4. CASE Prompt
  <2>1. tty_buffer' = ClearBuffer /\ entered' = << >> /\ tty_idx' = 0 /\ pc' = "read"
    BY <1>4 DEF Prompt, At
  <2>2. Len(entered') = 0
    BY <2>1
  <2>3. BufferHoldsLine'
    BY <2>1, <2>2, TerminalAssumption DEF ClearBuffer, BufferHoldsLine
  <2>4. LineType'
    BY <1>4, <2>1, TerminalAssumption DEF Prompt, At, input, ClearBuffer, LineType
  <2> QED
    BY <1>4, <2>1, <2>2, <2>3, <2>4 DEF Prompt, At, Reading, BuffersHoldShortLines
<1>5. CASE ReadKey
  BY <1>5, KeyStored
<1>6. CASE NoMoreKeys
  BY <1>6 DEF NoMoreKeys, At, input, line, LineType, Reading, BufferHoldsLine,
              HasLine, BuffersHoldShortLines
<1>7. CASE Scroll
  BY <1>7 DEF Scroll, At, input, line, LineType, Reading, BufferHoldsLine,
              HasLine, BuffersHoldShortLines
<1>8. CASE NoMoreScrolls
  BY <1>8 DEF NoMoreScrolls, At, input, line, LineType, Reading, BufferHoldsLine,
              HasLine, BuffersHoldShortLines
<1>9. CASE Scan
  BY <1>9 DEF Scan, At, input, LineType, Reading, BufferHoldsLine,
              HasLine, BuffersHoldShortLines
<1>10. CASE ParseNothing
  BY <1>10, LineNotEmpty
     DEF ParseNothing, At, input, line, LineType, Reading, BuffersHoldShortLines
<1>11. CASE FaultAgain
  BY <1>11 DEF FaultAgain, vars, input, line, LineType, Reading, BufferHoldsLine,
               BuffersHoldShortLines
<1>12. CASE ParseCommand
  BY <1>12, TerminalAssumption
     DEF ParseCommand, At, input, line, LineType, Reading, BuffersHoldShortLines
<1>13. CASE ParseNotFound
  <2>1. Word \in Seq(Char) /\ Len(Word) < Len(entered)
    <3>1. LineType /\ BufferHoldsLine /\ HasLine
      BY <1>13 DEF ParseNotFound, At
    <3> QED
      BY <3>1, WordFits
  <2>2. Len(Word) \in Nat /\ Len(entered) \in Nat /\ Len(NotFound) \in Nat
    <3>1. entered \in Seq(Char)
      BY DEF LineType
    <3>2. NotFound \in Seq(Char)
      BY TerminalAssumption
    <3> QED
      BY <2>1, <3>1, <3>2, LenProperties
  <2>3. Len(Word \o NotFound) = Len(Word) + Len(NotFound)
    <3>1. NotFound \in Seq(Char)
      BY TerminalAssumption
    <3> QED
      BY <2>1, <3>1, ConcatProperties
  <2>4. overrun' = (overrun \/ Len(Word \o NotFound) >= PrintfSize) /\ entered' = entered
    BY <1>13 DEF ParseNotFound, line
  <2>5. BuffersHoldShortLines'
    <3>1. CASE overrun
      BY <3>1, <2>4 DEF BuffersHoldShortLines
    <3>2. ASSUME Len(Word \o NotFound) >= PrintfSize
          PROVE  Len(entered) + Len(NotFound) > PrintfSize
      <4>1. PrintfSize \in Nat
        BY TerminalAssumption
      <4>2. Len(Word) + Len(NotFound) >= PrintfSize
        BY <2>3, <3>2
      <4> QED
        BY <2>1, <2>2, <4>1, <4>2
    <3> QED
      BY <2>4, <3>1, <3>2 DEF BuffersHoldShortLines
  <2> QED
    BY <1>13, <2>4, <2>5 DEF ParseNotFound, At, input, line, LineType, Reading
<1>14. ASSUME NEW string \in Outputs, CommandPrints(string) PROVE LineInv'
  BY <1>14, TerminalAssumption
     DEF CommandPrints, At, input, line, LineType, Reading, BuffersHoldShortLines
<1>15. CASE CommandEnds
  BY <1>15 DEF CommandEnds, At, input, line, LineType, Reading, BuffersHoldShortLines
<1>16. CASE Parsed
  BY <1>16, EmptySeq
     DEF Parsed, At, input, LineType, Reading, BuffersHoldShortLines
<1>17. CASE UNCHANGED vars
  BY <1>17 DEF vars, input, line, LineType, BufferHoldsLine, HasLine,
               BuffersHoldShortLines
<1>18. CASE CommandHangs \/ Crash
  BY <1>18 DEF CommandHangs, Crash, input, line, LineType, Reading,
               BuffersHoldShortLines
<1> QED
  BY <1>1, <1>2, <1>3, <1>4, <1>5, <1>6, <1>7, <1>8, <1>9, <1>10, <1>11, <1>12,
     <1>13, <1>14, <1>15, <1>16, <1>17, <1>18 DEF Next, TtyUpdate

-----------------------------------------------------------------------------
(* The cursor *)

Screen == [row : Nat, column : Nat, port3 : 0 .. kMaxMessages, requests : Nat,
           tabbed : BOOLEAN, moved : BOOLEAN, cells : SUBSET (Nat \X Nat),
           faults : SUBSET {"row", "astray", "midline"}]

\* No glyph beside the screen but for tabs, and every cell that counts as
\* drawn lies before the cursor.
CursorOK(s) ==
  /\ s \in Screen
  /\ s.port3 <= s.requests
  /\ s.tabbed \/ s.column < VGA_WIDTH
  /\ s.moved => s.cells = {}
  /\ \A cell \in s.cells : \/ cell[1] < s.row
                           \/ cell[1] = s.row /\ cell[2] < s.column

\* The cursor is below the screen only where a string begins, or after a line
\* end within a string.
RowOK(s, string) ==
  \/ "midline" \in s.faults
  \/ /\ "row" \notin s.faults
     /\ \/ s.row < VGA_HEIGHT
        \/ s.row = VGA_HEIGHT /\ (string = << >> \/ Head(string) = Check)

\* What printing a character, but for a line end, leaves alone.
SameRequests(s, t) ==
  /\ t.port3 = s.port3 /\ t.requests = s.requests
  /\ "midline" \in s.faults <=> "midline" \in t.faults

StaysAbove(s, t) ==
  s.row < VGA_HEIGHT /\ "row" \notin s.faults =>
    t.row < VGA_HEIGHT /\ "row" \notin t.faults

LEMMA Sizes ==
  /\ VGA_WIDTH \in Nat /\ VGA_WIDTH > 0
  /\ VGA_HEIGHT \in Nat /\ VGA_HEIGHT > 1
  /\ TAB_WIDTH \in Nat /\ TAB_WIDTH > 0
  /\ kMaxMessages \in Nat /\ kMaxMessages > 0
BY TerminalAssumption

\* The screen after a glyph was drawn, before the cursor advances.
LEMMA DrawnScreen ==
  ASSUME NEW s, CursorOK(s)
  PROVE  LET d == Draw(s)
             cell == <<s.row, s.column>>
         IN /\ d \in Screen /\ SameRequests(s, d)
            /\ d.row = s.row /\ d.column = s.column
            /\ d.tabbed = s.tabbed /\ d.moved = s.moved
            /\ d.cells = IF s.moved THEN {} ELSE s.cells \cup {cell}
            /\ s.row < VGA_HEIGHT => d.faults = s.faults
<1> DEFINE cell == <<s.row, s.column>>
           cells == IF s.moved THEN {} ELSE s.cells \cup {cell}
           faults == s.faults \cup (IF s.row >= VGA_HEIGHT THEN {"row"} ELSE {})
                       \cup (IF s.row > VGA_HEIGHT THEN {"astray"} ELSE {})
<1>1. s \in Screen
  BY DEF CursorOK
<1>2. s.row \in Nat /\ s.column \in Nat /\ cell \in Nat \X Nat /\ cell \notin s.cells
  BY DEF CursorOK, Screen
<1>3. ~ (s.column >= VGA_WIDTH /\ ~s.tabbed)
  BY <1>2, Sizes DEF CursorOK
<1>4. cells \in SUBSET (Nat \X Nat) /\ faults \in SUBSET {"row", "astray", "midline"}
  BY <1>1, <1>2 DEF Screen
<1>5. /\ s.row < VGA_HEIGHT => faults = s.faults
      /\ "midline" \in s.faults <=> "midline" \in faults
  BY <1>2, Sizes
<1>6. Draw(s) = [s EXCEPT !.cells = cells, !.faults = faults]
  BY <1>2, <1>3 DEF Draw
<1> HIDE DEF cells, faults
<1>7. LET d == [s EXCEPT !.cells = cells, !.faults = faults]
      IN /\ d \in Screen /\ d.cells = cells /\ d.faults = faults
         /\ d.row = s.row /\ d.column = s.column
         /\ d.port3 = s.port3 /\ d.requests = s.requests
         /\ d.tabbed = s.tabbed /\ d.moved = s.moved
  BY <1>1, <1>4 DEF Screen
<1> QED
  BY <1>5, <1>6, <1>7 DEF SameRequests, cells

LEMMA GlyphDrawn ==
  ASSUME NEW s, CursorOK(s)
  PROVE  LET t == Advance(Draw(s))
         IN CursorOK(t) /\ SameRequests(s, t) /\ StaysAbove(s, t)
<1> DEFINE cell == <<s.row, s.column>>
           d == Draw(s)
           t == Advance(d)
<1>1. /\ d \in Screen /\ SameRequests(s, d)
      /\ d.row = s.row /\ d.column = s.column
      /\ d.tabbed = s.tabbed /\ d.moved = s.moved
      /\ d.cells = IF s.moved THEN {} ELSE s.cells \cup {cell}
      /\ s.row < VGA_HEIGHT => d.faults = s.faults
  BY DrawnScreen
<1>2. /\ s.row \in Nat /\ s.column \in Nat /\ d.cells \subseteq Nat \X Nat
      /\ d.moved \in BOOLEAN
  BY <1>1 DEF CursorOK, Screen
<1>3. /\ \A e \in d.cells : e[1] < s.row \/ (e[1] = s.row /\ e[2] <= s.column)
      /\ d.moved => d.cells = {}
  BY <1>1, <1>2 DEF CursorOK, Screen
<1>4. d.port3 <= d.requests /\ (d.tabbed \/ d.column < VGA_WIDTH)
  BY <1>1 DEF CursorOK, SameRequests
<1> DEFINE Good == CursorOK(t) /\ SameRequests(s, t) /\ StaysAbove(s, t)
<1> HIDE DEF d
<1>5. ASSUME d.column + 1 # VGA_WIDTH PROVE Good
  <2>1. t = [d EXCEPT !.column = @ + 1]
    BY <1>5 DEF Advance
  <2>2. /\ t \in Screen /\ t.column = s.column + 1 /\ t.row = s.row
        /\ t.port3 = d.port3 /\ t.requests = d.requests /\ t.faults = d.faults
        /\ t.tabbed = d.tabbed /\ t.moved = d.moved /\ t.cells = d.cells
    BY <1>1, <1>2, <2>1 DEF Screen
  <2>3. \A e \in t.cells : e[1] < t.row \/ (e[1] = t.row /\ e[2] < t.column)
    BY <1>2, <1>3, <2>2
  <2>4. t.tabbed \/ t.column < VGA_WIDTH
    BY <1>1, <1>2, <1>4, <1>5, <2>2, Sizes
  <2>5. CursorOK(t)
    BY <1>3, <1>4, <2>2, <2>3, <2>4 DEF CursorOK
  <2> QED
    BY <1>1, <2>2, <2>5 DEF SameRequests, StaysAbove
<1>6. ASSUME d.column + 1 = VGA_WIDTH, d.row + 1 # VGA_HEIGHT PROVE Good
  <2>1. t = [d EXCEPT !.column = 0, !.row = @ + 1]
    BY <1>6 DEF Advance
  <2>2. /\ t \in Screen /\ t.column = 0 /\ t.row = s.row + 1
        /\ t.port3 = d.port3 /\ t.requests = d.requests /\ t.faults = d.faults
        /\ t.tabbed = d.tabbed /\ t.moved = d.moved /\ t.cells = d.cells
    <3> DEFINE row == d.row + 1
               column == 0
               tabbed == d.tabbed
    <3>1. row \in Nat /\ column \in Nat /\ tabbed \in BOOLEAN /\ row = s.row + 1
      BY <1>1, <1>2 DEF Screen
    <3>2. t = [d EXCEPT !.row = row, !.column = column, !.tabbed = tabbed]
      BY <1>1, <2>1 DEF Screen
    <3>3. d \in Screen
      BY <1>1
    <3> HIDE DEF row, column, tabbed, t
    <3>4. /\ t \in Screen /\ t.row = row /\ t.column = column
          /\ t.port3 = d.port3 /\ t.requests = d.requests /\ t.faults = d.faults
          /\ t.tabbed = tabbed /\ t.moved = d.moved /\ t.cells = d.cells
      BY <3>1, <3>2, <3>3 DEF Screen
    <3> QED
      BY <3>1, <3>4 DEF column, tabbed
  <2>3. \A e \in t.cells : e[1] < t.row \/ (e[1] = t.row /\ e[2] < t.column)
    BY <1>2, <1>3, <2>2
  <2>4. CursorOK(t)
    BY <1>3, <1>4, <2>2, <2>3, Sizes DEF CursorOK
  <2>5. s.row < VGA_HEIGHT => t.row < VGA_HEIGHT
    BY <1>1, <1>2, <1>6, <2>2, Sizes
  <2> QED
    BY <1>1, <2>2, <2>4, <2>5 DEF SameRequests, StaysAbove
<1>7. ASSUME d.column + 1 = VGA_WIDTH, d.row + 1 = VGA_HEIGHT PROVE Good
  <2>1. t = [d EXCEPT !.column = 0, !.row = 0, !.moved = TRUE, !.cells = {}]
    BY <1>7 DEF Advance
  <2>2. /\ t \in Screen /\ t.column = 0 /\ t.row = 0
        /\ t.port3 = d.port3 /\ t.requests = d.requests /\ t.faults = d.faults
        /\ t.tabbed = d.tabbed /\ t.cells = {}
    <3> DEFINE top == 0
               none == {}
               moved == TRUE
    <3>1. t = [d EXCEPT !.column = top, !.row = top, !.moved = moved, !.cells = none]
      BY <2>1
    <3>2. /\ top \in Nat /\ d \in Screen
          /\ moved \in BOOLEAN /\ none \in SUBSET (Nat \X Nat)
      BY <1>1
    <3> HIDE DEF t, top, none, moved
    <3>3. /\ t \in Screen /\ t.column = top /\ t.row = top /\ t.cells = none
          /\ t.port3 = d.port3 /\ t.requests = d.requests /\ t.faults = d.faults
          /\ t.tabbed = d.tabbed
      BY <3>1, <3>2 DEF Screen
    <3> QED
      BY <3>3 DEF top, none
  <2>3. CursorOK(t)
    BY <1>4, <2>2, Sizes DEF CursorOK
  <2> QED
    BY <1>1, <2>2, <2>3, Sizes DEF SameRequests, StaysAbove
<1> QED
  BY <1>5, <1>6, <1>7 DEF d

LEMMA CharacterPrinted ==
  ASSUME NEW s, CursorOK(s), NEW c \in Char \cup {Return}
  PROVE  LET t == terminal_putchar(s, c)
         IN /\ CursorOK(t) /\ SameRequests(s, t)
            /\ c # NewLine => StaysAbove(s, t)
            /\ c = NewLine => t.row = s.row + 1 /\ t.faults = s.faults
<1> DEFINE t == terminal_putchar(s, c)
<1>1. s \in Screen /\ s.row \in Nat /\ s.column \in Nat
  BY DEF CursorOK, Screen
<1>2. CASE c = NewLine
  <2>1. t = [s EXCEPT !.row = @ + 1, !.column = 0, !.tabbed = FALSE]
    BY <1>2, TerminalAssumption DEF terminal_putchar, LineEnd
  <2>2. /\ t \in Screen /\ t.row = s.row + 1 /\ t.column = 0
        /\ t.port3 = s.port3 /\ t.requests = s.requests /\ t.faults = s.faults
        /\ t.moved = s.moved /\ t.cells = s.cells
    <3> DEFINE row == s.row + 1
               column == 0
               tabbed == FALSE
    <3>1. row \in Nat /\ column \in Nat /\ tabbed \in BOOLEAN /\ s \in Screen
      BY <1>1
    <3>2. t = [s EXCEPT !.row = row, !.column = column, !.tabbed = tabbed]
      BY <2>1
    <3> HIDE DEF row, column, tabbed, t
    <3>3. /\ t \in Screen /\ t.row = row /\ t.column = column
          /\ t.port3 = s.port3 /\ t.requests = s.requests /\ t.faults = s.faults
          /\ t.moved = s.moved /\ t.cells = s.cells
      BY <3>1, <3>2 DEF Screen
    <3> QED
      BY <3>3 DEF row, column
  <2>3. \A e \in t.cells : e[1] < t.row
    BY <1>1, <2>2 DEF CursorOK, Screen
  <2>4. CursorOK(t)
    BY <2>2, <2>3, Sizes DEF CursorOK
  <2> QED
    BY <1>2, <2>2, <2>4 DEF SameRequests
<1>3. CASE c = Return
  <2>1. t = [s EXCEPT !.column = 0, !.moved = TRUE, !.cells = {}]
    BY <1>3, TerminalAssumption DEF terminal_putchar
  <2>2. /\ t \in Screen /\ t.row = s.row /\ t.column = 0 /\ t.cells = {}
        /\ t.port3 = s.port3 /\ t.requests = s.requests /\ t.faults = s.faults
    <3> DEFINE column == 0
               none == {}
               moved == TRUE
    <3>1. t = [s EXCEPT !.column = column, !.moved = moved, !.cells = none]
      BY <2>1
    <3>2. /\ column \in Nat /\ s \in Screen
          /\ moved \in BOOLEAN /\ none \in SUBSET (Nat \X Nat)
      BY <1>1
    <3> HIDE DEF t, column, none, moved
    <3>3. /\ t \in Screen /\ t.row = s.row /\ t.column = column /\ t.cells = none
          /\ t.port3 = s.port3 /\ t.requests = s.requests /\ t.faults = s.faults
      BY <3>1, <3>2 DEF Screen
    <3> QED
      BY <3>3 DEF column, none
  <2>3. CursorOK(t)
    BY <2>2, Sizes DEF CursorOK
  <2> QED
    BY <1>3, <2>2, <2>3, TerminalAssumption DEF SameRequests, StaysAbove
<1>4. CASE c = Tab
  <2> DEFINE column == s.column + TAB_WIDTH - (s.column % TAB_WIDTH)
  <2>1. t = [s EXCEPT !.tabbed = TRUE, !.column = column]
    BY <1>4, TerminalAssumption DEF terminal_putchar
  <2>2. column \in Nat /\ column >= s.column
    <3>1. s.column % TAB_WIDTH \in 0 .. TAB_WIDTH - 1
      BY <1>1, Sizes
    <3> QED
      BY <1>1, <3>1, Sizes
  <2> HIDE DEF column
  <2>3. /\ t \in Screen /\ t.row = s.row /\ t.column = column /\ t.tabbed
        /\ t.port3 = s.port3 /\ t.requests = s.requests /\ t.faults = s.faults
        /\ t.moved = s.moved /\ t.cells = s.cells
    BY <1>1, <2>1, <2>2 DEF Screen
  <2>4. \A e \in t.cells : e[1] < t.row \/ (e[1] = t.row /\ e[2] < t.column)
    BY <1>1, <2>2, <2>3 DEF CursorOK, Screen
  <2>5. CursorOK(t)
    BY <2>3, <2>4 DEF CursorOK
  <2> QED
    BY <1>4, <2>3, <2>5, TerminalAssumption DEF SameRequests, StaysAbove
<1>5. CASE c \notin {NewLine, Return, Tab}
  <2>1. t = Advance(Draw(s))
    BY <1>5 DEF terminal_putchar
  <2> QED
    BY <1>5, <2>1, GlyphDrawn
<1> QED
  BY <1>2, <1>3, <1>4, <1>5

\* A scroll request is lost only if there have been kMaxMessages of them.
LEMMA StringBegins ==
  ASSUME NEW s, CursorOK(s)
  PROVE  LET t == ScrollIfBelow(s)
         IN /\ CursorOK(t) /\ t.faults = s.faults
            /\ s.row # VGA_HEIGHT => t = s
            /\ s.row = VGA_HEIGHT => t.row < VGA_HEIGHT
<1>1. CASE s.row = VGA_HEIGHT
  <2> DEFINE port3 == IF s.port3 < kMaxMessages THEN s.port3 + 1 ELSE s.port3
             row == VGA_HEIGHT - 1
             requests == s.requests + 1
             u == terminal_scrollup(s)
             t == [u EXCEPT !.row = @ - 1]
  <2>1. /\ s \in Screen /\ s.port3 \in 0 .. kMaxMessages /\ s.requests \in Nat
        /\ s.port3 <= s.requests
    BY DEF CursorOK, Screen
  <2>2. /\ ~ (s.port3 = kMaxMessages /\ s.requests < kMaxMessages)
        /\ port3 \in 0 .. kMaxMessages /\ requests \in Nat /\ port3 <= requests
        /\ row \in Nat /\ row - 1 \in Nat /\ row - 1 < VGA_HEIGHT
    BY <2>1, Sizes
  <2>3. u = [s EXCEPT !.row = row, !.port3 = port3, !.requests = requests,
                      !.moved = TRUE, !.cells = {}, !.faults = s.faults]
    BY <2>2 DEF terminal_scrollup
  <2> HIDE DEF u, row, port3, requests
  <2>4. /\ u \in Screen
        /\ u.row = row /\ u.port3 = port3 /\ u.requests = requests /\ u.cells = {}
        /\ u.column = s.column /\ u.tabbed = s.tabbed /\ u.faults = s.faults
    BY <2>1, <2>2, <2>3 DEF Screen
  <2>5. /\ t \in Screen
        /\ t.row = row - 1 /\ t.port3 = port3 /\ t.requests = requests /\ t.cells = {}
        /\ t.column = s.column /\ t.tabbed = s.tabbed /\ t.faults = s.faults
    BY <2>2, <2>4 DEF Screen
  <2>6. ScrollIfBelow(s) = t
    BY <1>1 DEF ScrollIfBelow, u
  <2> HIDE DEF t
  <2>7. CursorOK(t)
    BY <2>2, <2>5 DEF CursorOK
  <2> QED
    BY <1>1, <2>2, <2>5, <2>6, <2>7
<1>2. CASE s.row # VGA_HEIGHT
  BY <1>2 DEF ScrollIfBelow
<1> QED
  BY <1>1, <1>2

-----------------------------------------------------------------------------
(* What is printed *)

PrintingOK ==
  /\ printing \in Seq(Mark)
  /\ pc \in {"scan", "parse"} => printing = << >> /\ screen.port3 = 0
  /\ pc \in Reading \cup {"parse"} =>
       \A i \in 1 .. Len(printing) : printing[i] # NewLine

\* Where keys are echoed the cursor is on the screen.
RowInv ==
  /\ RowOK(screen, printing)
  /\ pc \in Reading \cup {"parse"} =>
       \/ "midline" \in screen.faults
       \/ printing # << >>
       \/ screen.row < VGA_HEIGHT

ScreenInv == CursorOK(screen) /\ PrintingOK /\ RowInv

LEMMA MarkedString ==
  ASSUME NEW string \in Seq(Mark)
  PROVE  /\ terminal_writestring(string) \in Seq(Mark)
         /\ terminal_writestring(string) # << >>
         /\ Head(terminal_writestring(string)) = Check
         /\ \A more \in Seq(Mark) :
              /\ terminal_writestring(string) \o more \in Seq(Mark)
              /\ terminal_writestring(string) \o more # << >>
              /\ Head(terminal_writestring(string) \o more) = Check
<1> DEFINE marked == terminal_writestring(string)
<1>1. <<Check>> \in Seq(Mark) /\ Len(<<Check>>) = 1 /\ <<Check>>[1] = Check
  BY DEF Mark
<1>2. Len(string) \in Nat
  BY LenProperties
<1>3. /\ marked \in Seq(Mark) /\ Len(marked) = 1 + Len(string)
      /\ \A i \in 1 .. 1 + Len(string) :
           marked[i] = IF i <= 1 THEN <<Check>>[i] ELSE string[i - 1]
  BY <1>1, ConcatProperties DEF terminal_writestring
<1>4. Len(marked) \in Nat /\ Len(marked) > 0 /\ marked[1] = Check
  BY <1>1, <1>2, <1>3
<1> HIDE DEF marked
<1>5. marked # << >> /\ Head(marked) = Check
  BY <1>3, <1>4, EmptySeq
<1>6. ASSUME NEW more \in Seq(Mark)
      PROVE  /\ marked \o more \in Seq(Mark)
             /\ marked \o more # << >> /\ Head(marked \o more) = Check
  <2>1. /\ marked \o more \in Seq(Mark) /\ Len(marked \o more) = Len(marked) + Len(more)
        /\ \A i \in 1 .. Len(marked) + Len(more) :
             (marked \o more)[i] = IF i <= Len(marked) THEN marked[i]
                                   ELSE more[i - Len(marked)]
    BY <1>3, ConcatProperties
  <2>2. Len(more) \in Nat
    BY LenProperties
  <2>3. Len(marked \o more) > 0 /\ (marked \o more)[1] = Check
    BY <1>4, <2>1, <2>2
  <2> QED
    BY <2>1, <2>3, EmptySeq
<1> QED
  BY <1>3, <1>5, <1>6 DEF marked

\* A string is printed next, by a thread that had printed everything.
LEMMA StringPrinted ==
  ASSUME ScreenInv, printing = << >>, screen' = screen,
         printing' \in Seq(Mark), printing' # << >>, Head(printing') = Check,
         pc' \notin {"scan", "parse"},
         pc' \in Reading => \A i \in 1 .. Len(printing') : printing'[i] # NewLine
  PROVE  ScreenInv'
<1>1. PrintingOK'
  BY DEF PrintingOK, Reading
<1>2. RowInv'
  BY DEF ScreenInv, RowInv, RowOK
<1>3. CursorOK(screen')
  BY DEF ScreenInv
<1> QED
  BY <1>1, <1>2, <1>3 DEF ScreenInv

\* A line has been parsed: the count of requests starts again, with none waiting.
LEMMA LineParsed ==
  ASSUME ScreenInv, pc = "parse", screen' = [screen EXCEPT !.requests = 0],
         printing' \in Seq(Mark), printing' # << >>, Head(printing') = Check,
         pc' \in {"command", "parsed"}
  PROVE  ScreenInv'
<1>1. screen.port3 = 0 /\ printing = << >> /\ screen \in Screen
  BY DEF ScreenInv, PrintingOK, CursorOK
<1>2. /\ screen' \in Screen /\ screen'.requests = 0 /\ screen'.port3 = 0
      /\ screen'.row = screen.row /\ screen'.column = screen.column
      /\ screen'.tabbed = screen.tabbed /\ screen'.moved = screen.moved
      /\ screen'.cells = screen.cells /\ screen'.faults = screen.faults
  <2> DEFINE none == 0
  <2>1. none \in Nat /\ screen' = [screen EXCEPT !.requests = none]
    OBVIOUS
  <2> HIDE DEF none
  <2>2. /\ screen' \in Screen /\ screen'.requests = none /\ screen'.port3 = screen.port3
        /\ screen'.row = screen.row /\ screen'.column = screen.column
        /\ screen'.tabbed = screen.tabbed /\ screen'.moved = screen.moved
        /\ screen'.cells = screen.cells /\ screen'.faults = screen.faults
    BY <1>1, <2>1 DEF Screen
  <2> QED
    BY <1>1, <2>2 DEF none
<1>3. CursorOK(screen')
  BY <1>2 DEF ScreenInv, CursorOK
<1>4. PrintingOK'
  BY DEF PrintingOK, Reading
<1>5. RowInv'
  BY <1>1, <1>2 DEF ScreenInv, RowInv, RowOK, Reading
<1> QED
  BY <1>3, <1>4, <1>5 DEF ScreenInv

LEMMA CharacterFromString ==
  ASSUME ScreenInv, PrintNext
  PROVE  ScreenInv'
<1> DEFINE c == Head(printing)
           midline == c = NewLine /\ Len(printing) > 1 /\ printing[2] # Check
           s == IF c = Check THEN ScrollIfBelow(screen) ELSE terminal_putchar(screen, c)
<1>1. /\ printing # << >> /\ printing' = Tail(printing) /\ pc' = pc
      /\ screen' = IF midline THEN [s EXCEPT !.faults = @ \cup {"midline"}] ELSE s
  BY DEF PrintNext
<1>2. pc \notin {"scan", "parse"}
  BY <1>1 DEF ScreenInv, PrintingOK
<1>3. /\ c \in Mark /\ printing' \in Seq(Mark) /\ Len(printing') = Len(printing) - 1
      /\ \A i \in 1 .. Len(printing') : printing'[i] = printing[i + 1]
      /\ Len(printing) \in Nat /\ Len(printing) > 0 /\ c = printing[1]
  BY <1>1, HeadTailProperties, LenProperties, EmptySeq DEF ScreenInv, PrintingOK
<1>4. PrintingOK'
  <2>1. ASSUME pc \in Reading, NEW i \in 1 .. Len(printing') PROVE printing'[i] # NewLine
    BY <1>3, <2>1 DEF ScreenInv, PrintingOK
  <2> QED
    BY <1>1, <1>2, <1>3, <2>1 DEF PrintingOK
<1>5. c = Check => ~midline
  BY TerminalAssumption DEF Char
<1>6. /\ CursorOK(s)
      /\ "midline" \in screen.faults => "midline" \in s.faults
      /\ "midline" \notin screen.faults =>
           /\ "row" \notin s.faults /\ s.row <= VGA_HEIGHT
           /\ c # NewLine => s.row < VGA_HEIGHT
  <2>1. CursorOK(screen) /\ RowOK(screen, printing) /\ screen.row \in Nat
    BY DEF ScreenInv, RowInv, CursorOK, Screen
  <2>2. CASE c = Check
    <3>1. /\ CursorOK(s) /\ s.faults = screen.faults
          /\ screen.row # VGA_HEIGHT => s = screen
          /\ screen.row = VGA_HEIGHT => s.row < VGA_HEIGHT
      BY <2>1, <2>2, StringBegins
    <3>2. s.row \in Nat
      BY <3>1 DEF CursorOK, Screen
    <3> HIDE DEF s
    <3> QED
      BY <2>1, <3>1, <3>2, Sizes DEF RowOK
  <2>3. CASE c # Check
    <3>1. c \in Char \cup {Return}
      BY <1>3, <2>3 DEF Mark
    <3>2. /\ CursorOK(s) /\ SameRequests(screen, s)
          /\ c # NewLine => StaysAbove(screen, s)
          /\ c = NewLine => s.row = screen.row + 1 /\ s.faults = screen.faults
      BY <2>1, <2>3, <3>1, CharacterPrinted
    <3>3. s.row \in Nat
      BY <3>2 DEF CursorOK, Screen
    <3>4. "midline" \notin screen.faults =>
            screen.row < VGA_HEIGHT /\ "row" \notin screen.faults
      BY <1>1, <2>1, <2>3 DEF RowOK
    <3> HIDE DEF s
    <3> QED
      BY <2>1, <3>2, <3>3, <3>4, Sizes DEF SameRequests, StaysAbove
  <2> QED
    BY <2>2, <2>3
<1> HIDE DEF s
<1>7. CASE midline
  <2> DEFINE faults == s.faults \cup {"midline"}
  <2>1. screen' = [s EXCEPT !.faults = faults]
    BY <1>1, <1>7
  <2>2. faults \in SUBSET {"row", "astray", "midline"} /\ s \in Screen /\ "midline" \in faults
    BY <1>6 DEF CursorOK, Screen
  <2> HIDE DEF faults
  <2>3. /\ screen' \in Screen /\ screen'.faults = faults
        /\ screen'.row = s.row /\ screen'.column = s.column
        /\ screen'.tabbed = s.tabbed /\ screen'.moved = s.moved
        /\ screen'.cells = s.cells
        /\ screen'.port3 = s.port3 /\ screen'.requests = s.requests
    BY <2>1, <2>2 DEF Screen
  <2>4. CursorOK(screen')
    BY <1>6, <2>3 DEF CursorOK
  <2>5. RowInv'
    BY <2>2, <2>3 DEF RowInv, RowOK
  <2> QED
    BY <1>4, <2>4, <2>5 DEF ScreenInv
<1>8. CASE ~midline
  <2>1. screen' = s
    BY <1>1, <1>8
  <2>2. c = NewLine => printing' = << >> \/ Head(printing') = Check
    <3>1. ASSUME c = NewLine, Len(printing) <= 1 PROVE printing' = << >>
      BY <1>3, <3>1, EmptySeq
    <3>2. ASSUME c = NewLine, Len(printing) > 1 PROVE Head(printing') = Check
      <4>1. printing[2] = Check
        BY <1>8, <3>2
      <4>2. Len(printing') > 0 /\ printing'[1] = printing[2]
        BY <1>3, <3>2
      <4> QED
        BY <1>3, <4>1, <4>2
    <3> QED
      BY <1>3, <3>1, <3>2
  <2>3. s.row \in Nat
    BY <1>6 DEF CursorOK, Screen
  <2>4. RowOK(s, printing')
    BY <1>6, <2>2, <2>3, Sizes DEF RowOK
  <2>5. pc \in Reading => c # NewLine
    BY <1>3 DEF ScreenInv, PrintingOK
  <2>6. RowInv'
    BY <1>1, <1>2, <1>6, <2>1, <2>4, <2>5 DEF RowInv
  <2> QED
    BY <1>4, <1>6, <2>1, <2>6 DEF ScreenInv
<1> QED
  BY <1>7, <1>8

LEMMA KeyEchoed ==
  ASSUME ScreenInv, LineType, ReadKey
  PROVE  ScreenInv'
<1> DEFINE c == port2.list[port2.head_index]
           s == terminal_putchar(screen, c)
<1>1. c \in Char
  BY PortKept DEF LineType, ReadKey
<1>2. /\ printing = << >> /\ printing' = << >> /\ pc = "read" /\ pc' = "read"
      /\ screen' = IF c = NewLine THEN screen ELSE s
  BY DEF ReadKey, At
<1>3. PrintingOK'
  BY <1>2, EmptySeq DEF PrintingOK
<1>4. CASE c = NewLine
  BY <1>2, <1>3, <1>4 DEF ScreenInv, RowInv, RowOK
<1>5. CASE c # NewLine
  <2>1. CursorOK(s) /\ SameRequests(screen, s) /\ StaysAbove(screen, s)
    BY <1>1, <1>5, CharacterPrinted DEF ScreenInv
  <2>2. screen' = s
    BY <1>2, <1>5
  <2> HIDE DEF s
  <2>3. \/ "midline" \in s.faults
        \/ s.row < VGA_HEIGHT /\ "row" \notin s.faults
    BY <1>2, <2>1 DEF ScreenInv, RowInv, RowOK, Reading, SameRequests, StaysAbove
  <2> QED
    BY <1>2, <1>3, <2>1, <2>2, <2>3 DEF ScreenInv, RowInv, RowOK
<1> QED
  BY <1>4, <1>5

LEMMA RequestTaken ==
  ASSUME ScreenInv, Scroll
  PROVE  ScreenInv'
<1> DEFINE port3 == screen.port3 - 1
<1>1. /\ screen \in Screen /\ screen' = [screen EXCEPT !.port3 = port3]
      /\ printing = << >> /\ printing' = << >> /\ pc = "scroll" /\ pc' = "scroll"
  BY DEF Scroll, At, ScreenInv, CursorOK
<1>2. port3 \in 0 .. kMaxMessages /\ port3 <= screen.requests
  BY Sizes DEF Scroll, ScreenInv, CursorOK, Screen
<1> HIDE DEF port3
<1>3. /\ screen' \in Screen /\ screen'.port3 = port3
      /\ screen'.requests = screen.requests
      /\ screen'.row = screen.row /\ screen'.column = screen.column
      /\ screen'.tabbed = screen.tabbed /\ screen'.moved = screen.moved
      /\ screen'.cells = screen.cells /\ screen'.faults = screen.faults
  BY <1>1, <1>2 DEF Screen
<1>4. CursorOK(screen')
  BY <1>2, <1>3 DEF ScreenInv, CursorOK
<1>5. PrintingOK' /\ RowInv'
  BY <1>1, <1>3, EmptySeq DEF ScreenInv, PrintingOK, RowInv, RowOK, Reading
<1> QED
  BY <1>4, <1>5 DEF ScreenInv

LEMMA ScreenInit == Init => ScreenInv
<1> SUFFICES ASSUME Init PROVE ScreenInv
  OBVIOUS
<1>1. /\ screen \in Screen /\ screen.port3 = 0 /\ screen.requests = 0
      /\ screen.column = 0 /\ screen.row = 0 /\ screen.cells = {} /\ screen.faults = {}
  <2>1. 0 \in 0 .. kMaxMessages
    BY Sizes
  <2> QED
    BY <2>1 DEF Init, Screen
<1>2. CursorOK(screen)
  BY <1>1, Sizes DEF CursorOK
<1>3. PrintingOK
  BY EmptySeq DEF Init, PrintingOK, Reading
<1>4. RowInv
  BY <1>1, Sizes DEF Init, RowInv, RowOK, Reading
<1> QED
  BY <1>2, <1>3, <1>4 DEF ScreenInv

\* What the loop prints is made of characters, and the prompt has no line end.
LEMMA PrintedStrings ==
  /\ <<NewLine>> \in Seq(Mark) /\ <<Letter, NewLine>> \in Seq(Mark)
  /\ PromptText \in Seq(Mark)
  /\ \A i \in 1 .. Len(PromptText) : PromptText[i] # NewLine
  /\ \A string \in Outputs : string \in Seq(Mark)
  /\ \A word \in Seq(Char) : word \o NotFound \in Seq(Mark)
<1>1. NewLine \in Mark /\ Letter \in Mark
  BY DEF Mark, Char
<1>2. PromptText \in Seq(Mark)
  BY TerminalAssumption, SeqMonotonic, (Char \ {NewLine}) \cup {Check} \subseteq Mark DEF Mark
<1>3. ASSUME NEW i \in 1 .. Len(PromptText) PROVE PromptText[i] # NewLine
  <2>1. PromptText[i] \in (Char \ {NewLine}) \cup {Check}
    BY TerminalAssumption, ElementOfSeq
  <2> QED
    BY <2>1, TerminalAssumption DEF Char
<1>4. ASSUME NEW string \in Outputs PROVE string \in Seq(Mark)
  <2>1. string \in Seq(Char \cup {Return}) /\ Char \cup {Return} \subseteq Mark
    BY TerminalAssumption DEF Mark
  <2> QED
    BY <2>1, SeqMonotonic
<1>5. ASSUME NEW word \in Seq(Char) PROVE word \o NotFound \in Seq(Mark)
  <2>1. word \o NotFound \in Seq(Char) /\ Char \subseteq Mark
    BY TerminalAssumption, ConcatProperties DEF Mark
  <2> QED
    BY <2>1, SeqMonotonic
<1> QED
  BY <1>1, <1>2, <1>3, <1>4, <1>5

LEMMA ScreenStep ==
  ASSUME LineInv, ScreenInv, [Next]_vars
  PROVE  ScreenInv'
<1>1. ASSUME NEW c \in Char, Type(c) PROVE ScreenInv'
  BY <1>1 DEF Type, line, ScreenInv, PrintingOK, RowInv, RowOK
<1>2. CASE PrintNext
  BY <1>2, CharacterFromString
<1>3. CASE Welcome
  <2>1. /\ printing' = terminal_writestring(<<Letter, NewLine>>)
        /\ pc' = "prompt" /\ screen' = screen /\ printing = << >>
    BY <1>3 DEF Welcome, At
  <2> QED
    BY <2>1, PrintedStrings, MarkedString, StringPrinted DEF Reading
<1>4. CASE Prompt
  <2>1. /\ printing' = PromptText
        /\ pc' = "read" /\ screen' = screen /\ printing = << >>
    BY <1>4 DEF Prompt, At
  <2> QED
    BY <2>1, PrintedStrings, StringPrinted, TerminalAssumption DEF Reading
<1>5. CASE ReadKey
  BY <1>5, KeyEchoed DEF LineInv
<1>6. CASE NoMoreKeys
  BY <1>6 DEF NoMoreKeys, At, ScreenInv, PrintingOK, RowInv, RowOK, Reading
<1>7. CASE Scroll
  BY <1>7, RequestTaken
<1>8. CASE NoMoreScrolls
  BY <1>8 DEF NoMoreScrolls, At, ScreenInv, PrintingOK, RowInv, RowOK, Reading
<1>9. CASE Scan
  BY <1>9 DEF Scan, At, ScreenInv, PrintingOK, RowInv, RowOK, Reading
<1>10. CASE ParseNothing
  BY <1>10 DEF ParseNothing, At, ScreenInv, PrintingOK, RowInv, RowOK, Reading
<1>11. CASE FaultAgain
  BY <1>11 DEF FaultAgain, vars, ScreenInv, PrintingOK, RowInv, RowOK
<1>12. CASE ParseCommand
  <2>1. /\ printing' = terminal_writestring(<<NewLine>>) /\ pc' = "command"
        /\ screen' = [screen EXCEPT !.requests = 0] /\ pc = "parse"
    BY <1>12 DEF ParseCommand, At
  <2> QED
    BY <2>1, PrintedStrings, MarkedString, LineParsed
<1>13. CASE ParseNotFound
  <2>1. /\ printing' = terminal_writestring(<<NewLine>>)
                         \o terminal_writestring(Word \o NotFound)
        /\ pc' = "parsed" /\ screen' = [screen EXCEPT !.requests = 0] /\ pc = "parse"
    BY <1>13 DEF ParseNotFound, At
  <2>2. Word \in Seq(Char)
    BY <2>1, WordFits DEF LineInv
  <2>3. terminal_writestring(Word \o NotFound) \in Seq(Mark)
    BY <2>2, PrintedStrings, MarkedString
  <2>4. printing' \in Seq(Mark) /\ printing' # << >> /\ Head(printing') = Check
    BY <2>1, <2>3, PrintedStrings, MarkedString
  <2> QED
    BY <2>1, <2>4, LineParsed
<1>14. ASSUME NEW string \in Outputs, CommandPrints(string) PROVE ScreenInv'
  <2>1. /\ printing' = terminal_writestring(string)
        /\ pc' = "command" /\ screen' = screen /\ printing = << >>
    BY <1>14 DEF CommandPrints, At
  <2> QED
    BY <2>1, PrintedStrings, MarkedString, StringPrinted DEF Reading
<1>15. CASE CommandEnds
  BY <1>15 DEF CommandEnds, At, ScreenInv, PrintingOK, RowInv, RowOK, Reading
<1>16. CASE Parsed
  <2>1. /\ printing' = terminal_writestring(<<NewLine>>)
        /\ pc' = "prompt" /\ screen' = screen /\ printing = << >>
    BY <1>16 DEF Parsed, At
  <2> QED
    BY <2>1, PrintedStrings, MarkedString, StringPrinted DEF Reading
<1>17. CASE UNCHANGED vars
  BY <1>17 DEF vars, ScreenInv, PrintingOK, RowInv, RowOK
<1>18. CASE CommandHangs \/ Crash
  BY <1>18 DEF CommandHangs, Crash, ScreenInv, PrintingOK, RowInv, RowOK, Reading
<1> QED
  BY <1>1, <1>2, <1>3, <1>4, <1>5, <1>6, <1>7, <1>8, <1>9, <1>10, <1>11, <1>12,
     <1>13, <1>14, <1>15, <1>16, <1>17, <1>18 DEF Next, TtyUpdate

-----------------------------------------------------------------------------
IndInv == LineInv /\ ScreenInv

LEMMA Inductive == Spec => []IndInv
<1>1. Init => IndInv
  BY LineInit, ScreenInit DEF IndInv
<1>2. IndInv /\ [Next]_vars => IndInv'
  BY LineStep, ScreenStep DEF IndInv
<1> QED
  BY <1>1, <1>2, PTL DEF Spec

\* Whatever was typed and whenever it arrived, parse gets what was read since
\* the last line.
THEOREM ParseGetsTheLine == Spec => []CommandIsTheLine
<1>1. IndInv => CommandIsTheLine
  <2> SUFFICES ASSUME IndInv PROVE CommandIsTheLine
    OBVIOUS
  <2>1. TypeOK
    BY DEF IndInv, LineInv, LineType, PortOK, Port, ScreenInv, CursorOK, Screen, TypeOK
  <2>2. ASSUME At("parse"), Len(entered) < BufferSize PROVE Line = entered
    <3>1. /\ Line \in Seq(Char) /\ Len(Line) <= Len(entered)
          /\ Len(Line) = Len(entered) \/ Len(Line) = BufferSize
          /\ \A n \in 1 .. Len(Line) : Line[n] = entered[n]
      BY <2>2, LineIsWhatFits DEF IndInv, LineInv, At
    <3>2. entered \in Seq(Char) /\ Len(entered) \in Nat /\ BufferSize \in Nat
      BY LenProperties, TerminalAssumption DEF IndInv, LineInv, LineType
    <3>3. Len(Line) = Len(entered)
      BY <2>2, <3>1, <3>2
    <3> QED
      BY <3>1, <3>2, <3>3, SeqEqual
  <2> QED
    BY <2>1, <2>2 DEF IndInv, LineInv, CommandIsTheLine
<1> QED
  BY <1>1, Inductive, PTL

\* No store goes behind tty_buffer or temp_buffer but for a line that is itself
\* too long.
THEOREM ShortLinesFit == Spec => []BuffersHoldShortLines
<1>1. IndInv => BuffersHoldShortLines
  BY DEF IndInv, LineInv
<1> QED
  BY <1>1, Inductive, PTL

\* For a screen of any size the cursor leaves it only after a line end within
\* a string, or by a tab.
THEOREM CursorStaysOnScreen == Spec => []GlyphsOnScreen
<1>1. IndInv => GlyphsOnScreen
  BY DEF IndInv, ScreenInv, CursorOK, Screen, RowInv, RowOK, GlyphsOnScreen
<1> QED
  BY <1>1, Inductive, PTL

\* A port of kMaxMessages is enough for the requests of the commands of a line
\* that make no more.
THEOREM PortHoldsTheScrolls == Spec => []ScrollsLostOnlyIfMany
<1>1. IndInv => ScrollsLostOnlyIfMany
  BY DEF IndInv, ScreenInv, CursorOK, Screen, ScrollsLostOnlyIfMany
<1> QED
  BY <1>1, Inductive, PTL

-----------------------------------------------------------------------------
(* The screen: what surface_update passes over, and what is stored outside *)

\* The pixels of a glyph, and with them all that a store can hit.
LEMMA PixelType ==
  ASSUME NEW column \in Columns, NEW row \in 0 .. MaxRow,
         NEW glyph \in Glyphs, NEW p \in glyph
  PROVE  /\ PixelAt(column, row, p) \in Nat \X Nat
         /\ row < TextRows => PixelAt(column, row, p)[2] \in Rows
         /\ row <= TextRows => PixelAt(column, row, p)[2] < Height + SizeField
<1>1. p[1] \in Nat /\ p[2] \in 0 .. FontHeight - 1
  <2>1. p \in (0 .. FontWidth - 1) \X (0 .. FontHeight - 1)
    BY DisplayAssumption
  <2> QED
    BY <2>1, DisplayAssumption
<1>2. row \in Nat /\ column \in Nat /\ TextRows \in Int
  BY DisplayAssumption DEF TextRows
<1> DEFINE top == (row + 1) * FontHeight
           x   == column * FontWidth + p[1]
<1>3. top \in Nat /\ x \in Nat /\ top >= FontHeight
  BY <1>1, <1>2, DisplayAssumption
<1>4. PixelAt(column, row, p) = <<x, top + p[2] - Above>>
  BY DEF PixelAt
<1>5. TextRows * FontHeight + FontHeight <= Height
  BY DisplayAssumption DEF TextRows
<1>6. row < TextRows => top <= TextRows * FontHeight
  BY <1>2, DisplayAssumption
<1>7. TextRows * FontHeight \in Int
  BY <1>2, DisplayAssumption
<1>10. row <= TextRows => top <= TextRows * FontHeight + FontHeight
  BY <1>2, DisplayAssumption
<1> HIDE DEF top, x
<1>8. top + p[2] - Above \in Nat
  BY <1>1, <1>3, DisplayAssumption
<1>9. row < TextRows => top + p[2] - Above \in Rows
  BY <1>1, <1>3, <1>5, <1>6, <1>7, <1>8, DisplayAssumption DEF Rows
<1>11. row <= TextRows => top + p[2] - Above < Height + SizeField
  BY <1>1, <1>3, <1>5, <1>7, <1>10, DisplayAssumption
<1> QED
  BY <1>3, <1>4, <1>8, <1>9, <1>11

\* The rows that scrollUp writes and reads are rows of the frame.
LEMMA MovedInside ==
  ASSUME moving \in Nat, moving < MovedRows
  PROVE  moving \in Rows /\ moving + FontHeight \in Rows
BY DisplayAssumption DEF MovedRows, TextRows, Rows

-----------------------------------------------------------------------------
LEMMA DisplayTypeStart == DisplayInit => DisplayTypeOK
<1> SUFFICES ASSUME DisplayInit PROVE DisplayTypeOK
  OBVIOUS
<1>1. surface \in [Rows -> [Cols -> Colour]] /\ front_buffer = surface
  BY DisplayAssumption DEF DisplayInit
<1>2. drawing \in Nat \X Nat /\ todo \subseteq Nat \X Nat
  BY DEF DisplayInit
<1>3. colour \in Colour
  BY DisplayAssumption DEF DisplayInit
<1> QED
  BY <1>1, <1>2, <1>3 DEF DisplayInit, DisplayTypeOK

LEMMA DisplayTypeStep ==
  ASSUME DisplayTypeOK, DisplayNext
  PROVE  DisplayTypeOK'
<1>1. ASSUME NEW column \in Columns, NEW row \in 0 .. MaxRow,
             NEW glyph \in Glyphs, NEW ink \in Colour,
             PutEntryAt(column, row, glyph, ink)
      PROVE  DisplayTypeOK'
  <2>1. todo' \subseteq Nat \X Nat
    BY <1>1, PixelType DEF PutEntryAt
  <2>2. lowest' \in Nat
    BY <1>1, DisplayAssumption DEF PutEntryAt, DisplayTypeOK
  <2> QED
    BY <1>1, <2>1, <2>2 DEF PutEntryAt, frame, DisplayTypeOK
<1>2. CASE SetPixel
  <2>1. PICK p \in todo :
           /\ drawing' = p
           /\ surface' = IF p[1] \in Cols /\ p[2] \in Rows
                         THEN [surface EXCEPT ![p[2]][p[1]] = colour]
                         ELSE surface
    BY <1>2 DEF SetPixel
  <2>2. surface' \in [Rows -> [Cols -> Colour]]
    BY <2>1 DEF DisplayTypeOK
  <2>3. drawing' \in Nat \X Nat /\ todo' \subseteq Nat \X Nat
    BY <1>2, <2>1 DEF SetPixel, DisplayTypeOK
  <2> QED
    BY <1>2, <2>2, <2>3 DEF SetPixel, DisplayTypeOK
<1>3. CASE MarkDirty
  BY <1>3 DEF MarkDirty, DisplayTypeOK
<1>4. CASE GlyphDone
  BY <1>4, DisplayAssumption DEF GlyphDone, frame, DisplayTypeOK
<1>5. CASE ScrollUp \/ ScrollDone
  BY <1>5 DEF ScrollUp, ScrollDone, frame, DisplayTypeOK
<1>6. CASE MoveRow
  <2>1. moving \in Rows
    BY <1>6, MovedInside DEF MoveRow, DisplayTypeOK
  <2>2. surface' \in [Rows -> [Cols -> Colour]]
    <3>1. CASE moving + FontHeight \in Rows
      BY <1>6, <3>1 DEF MoveRow, DisplayTypeOK
    <3>2. CASE moving + FontHeight \notin Rows
      BY <1>6, <3>2 DEF MoveRow, DisplayTypeOK
    <3> QED
      BY <3>1, <3>2
  <2>3. moving' \in Nat /\ scrolled' \subseteq Rows /\ outside' \in BOOLEAN
    BY <1>6, <2>1 DEF MoveRow, DisplayTypeOK
  <2> QED
    BY <1>6, <2>2, <2>3 DEF MoveRow, DisplayTypeOK
<1>7. CASE UpdateBuffers
  BY <1>7 DEF UpdateBuffers, CopyFrom, DisplayTypeOK
<1>8. CASE GoAstray
  BY <1>8 DEF GoAstray, DisplayTypeOK
<1> QED
  BY <1>1, <1>2, <1>3, <1>4, <1>5, <1>6, <1>7, <1>8 DEF DisplayNext, Terminal

LEMMA DisplayTyping == DisplaySpec => []DisplayTypeOK
<1>1. DisplayTypeOK /\ [DisplayNext]_displayVars => DisplayTypeOK'
  <2>1. CASE UNCHANGED displayVars
    BY <2>1 DEF displayVars, frame, DisplayTypeOK
  <2> QED
    BY <2>1, DisplayTypeStep
<1> QED
  BY DisplayTypeStart, <1>1, PTL DEF DisplaySpec

-----------------------------------------------------------------------------
(* What is on the screen *)

LEMMA StepCleanRows ==
  ASSUME DisplayTypeOK, CleanRowsShown, DisplayNext
  PROVE  CleanRowsShown'
<1> SUFFICES ASSUME drawer' # "astray", NEW y \in Rows
             PROVE  \/ front_buffer'[y] = surface'[y]
                    \/ y \in dirty'
                    \/ Unmarked(y)'
                    \/ y \in scrolled'
  BY DEF CleanRowsShown
<1>0. \/ drawer = "astray"
      \/ front_buffer[y] = surface[y]
      \/ y \in dirty
      \/ Unmarked(y)
      \/ y \in scrolled
  BY DEF CleanRowsShown
<1>1. ASSUME NEW column \in Columns, NEW row \in 0 .. MaxRow,
             NEW glyph \in Glyphs, NEW ink \in Colour,
             PutEntryAt(column, row, glyph, ink)
      PROVE  front_buffer'[y] = surface'[y] \/ y \in dirty' \/ y \in scrolled'
  BY <1>0, <1>1 DEF PutEntryAt, frame, Unmarked
<1>2. CASE SetPixel
  <2>1. PICK p \in todo :
           /\ drawing' = p
           /\ surface' = IF p[1] \in Cols /\ p[2] \in Rows
                         THEN [surface EXCEPT ![p[2]][p[1]] = colour]
                         ELSE surface
    BY <1>2 DEF SetPixel
  <2>2. y # p[2] => surface'[y] = surface[y]
    BY <2>1 DEF DisplayTypeOK
  <2> QED
    BY <1>0, <1>2, <2>1, <2>2 DEF SetPixel, Unmarked
<1>3. CASE MarkDirty
  BY <1>0, <1>3 DEF MarkDirty, Unmarked
<1>4. CASE GlyphDone
  BY <1>0, <1>4 DEF GlyphDone, frame, Unmarked
<1>5. CASE ScrollUp \/ ScrollDone
  BY <1>0, <1>5 DEF ScrollUp, ScrollDone, frame, Unmarked
<1>6. CASE MoveRow
  <2>1. y # moving => surface'[y] = surface[y]
    BY <1>6 DEF MoveRow, DisplayTypeOK
  <2> QED
    BY <1>0, <1>6, <2>1 DEF MoveRow, Unmarked
<1>7. CASE UpdateBuffers
  <2>1. y \in dirty => front_buffer'[y] = surface'[y]
    BY <1>7 DEF UpdateBuffers, CopyFrom
  <2>2. y \notin dirty => front_buffer'[y] = front_buffer[y] /\ surface'[y] = surface[y]
    BY <1>7 DEF UpdateBuffers, CopyFrom
  <2> QED
    BY <1>0, <1>7, <2>1, <2>2 DEF UpdateBuffers, Unmarked
<1>8. CASE GoAstray
  BY <1>8 DEF GoAstray
<1> QED
  BY <1>1, <1>2, <1>3, <1>4, <1>5, <1>6, <1>7, <1>8 DEF DisplayNext, Terminal

\* Wherever surface_update falls into the drawing of a glyph or into a scroll,
\* and however large the frame and the font are: a row that it would pass over
\* is on the screen as it is in the surface, unless scrollUp moved it or its
\* mark is the next store, and until the surface itself is overwritten.
THEOREM CleanRowsAreShown == DisplaySpec => []CleanRowsShown
<1>1. DisplayInit => CleanRowsShown
  BY DEF DisplayInit, CleanRowsShown
<1>2. DisplayTypeOK /\ CleanRowsShown /\ [DisplayNext]_displayVars => CleanRowsShown'
  <2>1. CASE UNCHANGED displayVars
    BY <2>1 DEF displayVars, frame, CleanRowsShown, Unmarked
  <2> QED
    BY <2>1, StepCleanRows
<1> QED
  BY <1>1, <1>2, DisplayTyping, PTL DEF DisplaySpec

-----------------------------------------------------------------------------
(* Stores inside the frame *)

\* As long as every glyph was put into a row of text, the pixels that are
\* drawn, and so the rows that are marked, are in the frame.
Inside ==
  /\ ~outside
  /\ \A p \in todo : p[2] \in Rows
  /\ drawer = "mark" => drawing[2] \in Rows

\* As long as none was put further than one row below, the marks stay before
\* what is read.
Near ==
  /\ drawer # "astray"
  /\ \A p \in todo : p[2] < Height + SizeField
  /\ drawer = "mark" => drawing[2] < Height + SizeField

InsideOrBelow ==
  /\ lowest >= TextRows \/ Inside
  /\ lowest > TextRows \/ Near

LEMMA StepInside ==
  ASSUME DisplayTypeOK, InsideOrBelow, DisplayNext
  PROVE  InsideOrBelow'
<1>0. TextRows \in Int /\ lowest \in Nat
  BY DisplayAssumption DEF TextRows, DisplayTypeOK
<1>1. ASSUME NEW column \in Columns, NEW row \in 0 .. MaxRow,
             NEW glyph \in Glyphs, NEW ink \in Colour,
             PutEntryAt(column, row, glyph, ink)
      PROVE  InsideOrBelow'
  <2>1. /\ lowest' \in Nat /\ lowest' >= lowest /\ lowest' >= row /\ row \in Int
        /\ drawer' = "pixel" /\ outside' = outside
    BY <1>0, <1>1, DisplayAssumption DEF PutEntryAt
  <2>2. row < TextRows => \A p \in todo' : p[2] \in Rows
    BY <1>1, PixelType DEF PutEntryAt
  <2>3. row <= TextRows => \A p \in todo' : p[2] < Height + SizeField
    BY <1>1, PixelType DEF PutEntryAt
  <2>4. lowest' >= TextRows \/ Inside'
    <3>1. CASE lowest' < TextRows
      <4>1. Inside /\ row < TextRows
        BY <1>0, <2>1, <3>1 DEF InsideOrBelow
      <4> QED
        BY <2>1, <2>2, <4>1 DEF Inside
    <3> QED
      BY <1>0, <2>1, <3>1
  <2>5. lowest' > TextRows \/ Near'
    <3>1. CASE lowest' <= TextRows
      <4>1. Near /\ row <= TextRows
        BY <1>0, <2>1, <3>1 DEF InsideOrBelow
      <4> QED
        BY <2>1, <2>3, <4>1 DEF Near
    <3> QED
      BY <1>0, <2>1, <3>1
  <2> QED
    BY <1>0, <2>4, <2>5 DEF InsideOrBelow
<1>2. CASE SetPixel
  BY <1>0, <1>2 DEF SetPixel, InsideOrBelow, Inside, Near
<1>3. CASE MarkDirty
  <2>1. /\ lowest' = lowest /\ todo' = todo /\ drawer' # "mark"
        /\ outside' = (outside \/ drawing[2] \notin Rows)
        /\ drawing[2] < Height + SizeField => drawer' # "astray"
    BY <1>3 DEF MarkDirty
  <2>2. Inside => Inside'
    BY <1>3, <2>1 DEF MarkDirty, Inside
  <2>3. Near => Near'
    BY <1>3, <2>1 DEF MarkDirty, Near
  <2> QED
    BY <1>0, <2>1, <2>2, <2>3 DEF InsideOrBelow
<1>4. CASE GlyphDone
  BY <1>0, <1>4 DEF GlyphDone, InsideOrBelow, Inside, Near
<1>5. CASE ScrollUp \/ ScrollDone
  BY <1>0, <1>5 DEF ScrollUp, ScrollDone, frame, InsideOrBelow, Inside, Near
<1>6. CASE MoveRow
  <2>1. moving + FontHeight \in Rows
    BY <1>6, MovedInside DEF MoveRow, DisplayTypeOK
  <2> QED
    BY <1>0, <1>6, <2>1 DEF MoveRow, InsideOrBelow, Inside, Near
<1>7. CASE UpdateBuffers
  BY <1>0, <1>7 DEF UpdateBuffers, InsideOrBelow, Inside, Near
<1>8. CASE GoAstray
  BY <1>0, <1>8 DEF GoAstray, InsideOrBelow, Inside, Near
<1> QED
  BY <1>1, <1>2, <1>3, <1>4, <1>5, <1>6, <1>7, <1>8 DEF DisplayNext, Terminal

\* Neither drawchar_transparent nor scrollUp tests what it touches; VGA_HEIGHT
\* is chosen so that no frame, whatever its height and that of the font, is
\* left as long as the terminal stays in its rows, and a row too low does no
\* harm.
THEOREM StoresAreInside == DisplaySpec => []StoresInside
<1>1. DisplayInit => InsideOrBelow
  BY DEF DisplayInit, InsideOrBelow, Inside, Near
<1>2. DisplayTypeOK /\ InsideOrBelow /\ [DisplayNext]_displayVars => InsideOrBelow'
  <2>1. CASE UNCHANGED displayVars
    BY <2>1 DEF displayVars, frame, InsideOrBelow, Inside, Near, TextRows
  <2> QED
    BY <2>1, StepInside
<1>3. DisplayTypeOK /\ InsideOrBelow => StoresInside
  BY DEF StoresInside, InsideOrBelow, Inside, Near
<1> QED
  BY <1>1, <1>2, <1>3, DisplayTyping, PTL DEF DisplaySpec
=============================================================================
