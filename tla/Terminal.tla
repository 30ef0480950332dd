------------------------------ MODULE Terminal ------------------------------
(***************************************************************************)
(* The terminal thread, kernel/tty.cpp: tty_update reads what was typed    *)
(* from port 2, echoes it, and hands each line to parse, which runs a      *)
(* command or says that there is none; everything they print goes through  *)
(* terminal_writestring and terminal_putchar, which keep the cursor.       *)
(*                                                                         *)
(* A string is printed character by character; what happens between the    *)
(* pixels of one is in Display.  Keys arrive in port 2 at any time, as     *)
(* postbox_debug forwards them (Postbox, which also has the steps of a     *)
(* push and a pop); none is null.  Characters are values.                  *)
(***************************************************************************)
EXTENDS Naturals, Sequences, SequencesExt

CONSTANTS
  VGA_WIDTH, VGA_HEIGHT,         \* of the screen, in characters
  TAB_WIDTH,                     \* 12 in the code
  BufferSize,                    \* of tty_buffer (1024)
  PrintfSize,                    \* temp_buffer of terminal_printf (80)
  kMaxMessages,                  \* a port holds that many messages (32)
  Letter, Space, Tab, NewLine,   \* what can be typed
  Return,                        \* '\r'
  Commands,                      \* the words that Ext::lib knows
  Outputs,                       \* what commands print, string by string
  NotFound,                      \* ": command not found\n"
  PromptText,                    \* the prompt, as it is printed
  MaxTyped, MaxOutput            \* keys typed, strings printed by a command

Char == {Letter, Space, Tab, NewLine}

Nul == "nul"       \* the character 0
Check == "check"   \* in what is printed: here a string begins

ASSUME TerminalAssumption ==
  /\ VGA_WIDTH \in Nat \ {0} /\ VGA_HEIGHT \in Nat \ {0, 1}
  /\ TAB_WIDTH \in Nat \ {0}
  /\ BufferSize \in Nat \ {0, 1} /\ PrintfSize \in Nat
  /\ kMaxMessages \in Nat \ {0}
  /\ MaxTyped \in Nat /\ MaxOutput \in Nat
  /\ Outputs \subseteq Seq(Char \cup {Return})
  /\ NotFound \in Seq(Char)
  /\ PromptText \in Seq((Char \ {NewLine}) \cup {Check})
  /\ PromptText # << >> /\ Head(PromptText) = Check
  /\ {Nul, Check} \cap (Char \cup {Return}) = {}
  /\ NewLine # Return /\ NewLine # Tab /\ Return # Tab

VARIABLES
  screen,       \* the cursor, port 3 and what has been drawn, see Init
  typed,        \* how many keys arrived
  port2,        \* the queue of the terminal, see Init
  tty_buffer, tty_idx,
  printing,     \* what terminal_writestring has still to print
  pc,           \* where tty_update is
  output,       \* how many strings the command has printed
  entered,      \* history: what was read since the last line was parsed
  overrun       \* history: meanwhile, a store behind tty_buffer or temp_buffer

input == <<typed, port2>>
line == <<tty_buffer, tty_idx, entered>>
vars == <<screen, printing, input, line, pc, output, overrun>>

\* The cells of a MessageList.
Array == 0 .. kMaxMessages - 1

ClearBuffer == [n \in 0 .. BufferSize - 1 |-> Nul]

Init ==
  /\ screen = [row      |-> 0,       \* terminal_row
               column   |-> 0,       \* terminal_column
               port3    |-> 0,       \* scroll requests that wait
               requests |-> 0,       \* history: those since a line was parsed
               tabbed   |-> FALSE,   \* history: a tab since the last line end
               moved    |-> FALSE,   \* history: a scroll, a wrap or a '\r'
               cells    |-> {},      \* history: the cells drawn until then
               faults   |-> {}]      \* history: see the properties
  /\ printing = << >>
  /\ typed = 0
  /\ port2 = [list       |-> [n \in Array |-> Nul],
              head_index |-> 0,
              list_size  |-> 0,
              behind     |-> FALSE,  \* history: a store behind the list
              crowded    |-> FALSE]  \* history: see LinesGetParsed
  /\ tty_buffer = ClearBuffer
  /\ tty_idx = 0
  /\ pc = "welcome"
  /\ output = 0
  /\ entered = << >>
  /\ overrun = FALSE

-----------------------------------------------------------------------------
(* Printing: what each function makes of a screen *)

\* An advance that only knows one column.
AdvanceAnywhere(s) == [s EXCEPT !.column = @ + 1]

\* if (++terminal_column == VGA_WIDTH), and the row likewise
Advance(s) ==
  IF s.column + 1 # VGA_WIDTH THEN [s EXCEPT !.column = @ + 1]
  ELSE IF s.row + 1 # VGA_HEIGHT THEN [s EXCEPT !.column = 0, !.row = @ + 1]
  ELSE [s EXCEPT !.column = 0, !.row = 0, !.moved = TRUE, !.cells = {}]

\* terminal_putentryat
Draw(s) ==
  LET cell == <<s.row, s.column>>
  IN [s EXCEPT
        !.cells = IF s.moved THEN {} ELSE @ \cup {cell},
        !.faults = @ \cup (IF s.row >= VGA_HEIGHT THEN {"row"} ELSE {})
                     \cup (IF s.row > VGA_HEIGHT THEN {"astray"} ELSE {})
                     \cup (IF s.column >= VGA_WIDTH /\ ~s.tabbed
                           THEN {"column"} ELSE {})
                     \cup (IF cell \in s.cells THEN {"overlaid"} ELSE {})]

LineEnd(s) == [s EXCEPT !.row = @ + 1, !.column = 0, !.tabbed = FALSE]

terminal_putchar(s, c) ==
  CASE c = NewLine -> LineEnd(s)
    [] c = Return  -> [s EXCEPT !.column = 0, !.moved = TRUE, !.cells = {}]
    [] c = Tab     -> [s EXCEPT !.tabbed = TRUE,
                                !.column = @ + TAB_WIDTH - (@ % TAB_WIDTH)]
    [] OTHER       -> Advance(Draw(s))

\* terminal_scrollup sends to port 3, which drops what does not fit.
terminal_scrollup(s) ==
  [s EXCEPT !.row = VGA_HEIGHT - 1,
            !.port3 = IF @ < kMaxMessages THEN @ + 1 ELSE @,
            !.requests = @ + 1,
            !.moved = TRUE, !.cells = {},
            !.faults = IF s.port3 = kMaxMessages /\ s.requests < kMaxMessages
                       THEN @ \cup {"scroll lost"} ELSE @]

\* The cursor goes up twice: by terminal_scrollup and by terminal_row--.
ScrollIfBelow(s) ==
  IF s.row = VGA_HEIGHT THEN [terminal_scrollup(s) EXCEPT !.row = @ - 1] ELSE s

\* terminal_writestring: what is to be printed for a string.
terminal_writestring(string) == <<Check>> \o string

\* One step of terminal_writestring.
PrintNext ==
  /\ printing # << >>
  /\ LET c == Head(printing)
         midline == c = NewLine /\ Len(printing) > 1 /\ printing[2] # Check
         s == IF c = Check THEN ScrollIfBelow(screen)
                           ELSE terminal_putchar(screen, c)
     IN screen' = IF midline THEN [s EXCEPT !.faults = @ \cup {"midline"}] ELSE s
  /\ printing' = Tail(printing)
  /\ UNCHANGED <<input, line, pc, output, overrun>>

\* The terminal thread is at a point of its code, and has printed what it
\* printed before.
At(point) == pc = point /\ printing = << >>

-----------------------------------------------------------------------------
(* tty_update *)

\* MessageList::wrap(): index - floor(index / kMaxMessages)
wrap(index) == index - index \div kMaxMessages

\* MessageList::push.  A cell behind the list belongs to something else.
push(port, c) ==
  LET cell == wrap(port.head_index + port.list_size)
  IN IF port.list_size = kMaxMessages THEN port
     ELSE [port EXCEPT
             !.list = IF cell \in Array THEN [@ EXCEPT ![cell] = c] ELSE @,
             !.list_size = @ + 1,
             !.behind = @ \/ cell \notin Array,
             !.crowded = @ \/ (port.list_size > 0 /\ typed >= kMaxMessages)]

\* MessageList::pop
pop(port) ==
  [port EXCEPT !.head_index = wrap(@ + 1),
               !.list_size = @ - 1,
               !.crowded = @ /\ port.list_size > 1]

\* A key arrives in port 2, or is lost because the port is full.
Type(c) ==
  /\ typed < MaxTyped
  /\ pc # "fault"
  /\ typed' = typed + 1
  /\ port2' = push(port2, c)
  /\ UNCHANGED <<screen, printing, line, pc, output, overrun>>

Welcome ==
  /\ At("welcome")
  /\ printing' = terminal_writestring(<<Letter, NewLine>>)
  /\ pc' = "prompt"
  /\ UNCHANGED <<screen, input, line, output, overrun>>

\* A loop that does not clear the buffer.
PromptKeepsBuffer ==
  /\ At("prompt")
  /\ printing' = terminal_writestring(<<Letter>>)
  /\ pc' = "read"
  /\ UNCHANGED <<screen, input, line, output, overrun>>

\* The start of the loop: memset and the prompt.
Prompt ==
  /\ At("prompt")
  /\ tty_buffer' = ClearBuffer
  /\ printing' = PromptText
  /\ pc' = "read"
  /\ UNCHANGED <<screen, input, tty_idx, entered, output, overrun>>

\* tty_buffer[tty_idx] = msg.data, with no test of tty_idx, and the echo
ReadKey ==
  /\ At("read")
  /\ port2.list_size > 0
  /\ LET c == port2.list[port2.head_index]
     IN /\ tty_buffer' = IF tty_idx < BufferSize
                         THEN [tty_buffer EXCEPT ![tty_idx] = c]
                         ELSE tty_buffer
        /\ entered' = Append(entered, c)
        /\ screen' = IF c = NewLine THEN screen ELSE terminal_putchar(screen, c)
  /\ overrun' = (overrun \/ tty_idx >= BufferSize)
  /\ tty_idx' = tty_idx + 1
  /\ port2' = pop(port2)
  /\ UNCHANGED <<printing, typed, pc, output>>

NoMoreKeys ==
  /\ At("read")
  /\ port2.list_size = 0
  /\ pc' = "scroll"
  /\ UNCHANGED <<screen, printing, input, line, output, overrun>>

\* A loop that takes one request only.
ScrollOnce ==
  /\ At("scroll")
  /\ screen' = [screen EXCEPT !.port3 = IF @ > 0 THEN @ - 1 ELSE 0]
  /\ pc' = "scan"
  /\ UNCHANGED <<printing, input, line, output, overrun>>

\* pop(3), and screen_surfaces[0]->scrollUp (Display)
Scroll ==
  /\ At("scroll")
  /\ screen.port3 > 0
  /\ screen' = [screen EXCEPT !.port3 = @ - 1]
  /\ UNCHANGED <<printing, input, line, pc, output, overrun>>

NoMoreScrolls ==
  /\ At("scroll")
  /\ screen.port3 = 0
  /\ pc' = "scan"
  /\ UNCHANGED <<screen, printing, input, line, output, overrun>>

\* A scan that stops one character early.
HasLineButLast ==
  \E n \in 0 .. BufferSize - 2 : tty_buffer[n] = NewLine

HasLine == \E n \in DOMAIN tty_buffer : tty_buffer[n] = NewLine

\* A scan that leaves the index where it is.
ScanKeepsIndex ==
  /\ At("scan")
  /\ pc' = IF HasLine THEN "parse" ELSE "read"
  /\ UNCHANGED <<screen, printing, input, line, output, overrun>>

\* parsing = true; tty_idx = 0
Scan ==
  /\ At("scan")
  /\ pc' = IF HasLine THEN "parse" ELSE "read"
  /\ tty_idx' = IF HasLine THEN 0 ELSE tty_idx
  /\ UNCHANGED <<screen, printing, input, tty_buffer, entered, output, overrun>>

-----------------------------------------------------------------------------
(* parse *)

\* std::string str = buffer: the characters before the first 0.
Line ==
  LET length == Max({n \in 0 .. BufferSize :
                       \A k \in 0 .. n - 1 : tty_buffer[k] # Nul})
  IN [n \in 1 .. length |-> tty_buffer[n - 1]]

\* args[0]: the line without its last character, up to the first space.
Word ==
  LET clipped == Front(Line)
      length == Max({n \in 0 .. Len(clipped) :
                       \A k \in 1 .. n : clipped[k] # Space})
  IN SubSeq(clipped, 1, length)

\* An empty line has no words, and args[0] is read through a null pointer (see
\* Arguments).  The page fault has no handler, and new char[0] has left the
\* interrupts off: nothing runs any more.
ParseNothing ==
  /\ At("parse")
  /\ Front(Line) = << >>
  /\ pc' = "fault"
  /\ UNCHANGED <<screen, printing, input, line, output, overrun>>

FaultAgain == pc \in {"fault", "hung"} /\ UNCHANGED vars

\* terminal_writestring("\n"), and Ext::lib.present(args[0])
ParseCommand ==
  /\ At("parse")
  /\ Word \in Commands
  /\ screen' = [screen EXCEPT !.requests = 0]
  /\ printing' = terminal_writestring(<<NewLine>>)
  /\ pc' = "command"
  /\ output' = 0
  /\ UNCHANGED <<input, line, overrun>>

\* ... terminal_printf("%s: command not found\n", args[0])
ParseNotFound ==
  /\ At("parse")
  /\ Front(Line) # << >>
  /\ Word \notin Commands
  /\ screen' = [screen EXCEPT !.requests = 0]
  /\ printing' = terminal_writestring(<<NewLine>>)
                   \o terminal_writestring(Word \o NotFound)
  /\ overrun' = (overrun \/ Len(Word \o NotFound) >= PrintfSize)
  /\ pc' = "parsed"
  /\ UNCHANGED <<input, line, output>>

CommandPrints(string) ==
  /\ At("command")
  /\ output < MaxOutput
  /\ printing' = terminal_writestring(string)
  /\ output' = output + 1
  /\ UNCHANGED <<screen, input, line, pc, overrun>>

CommandEnds ==
  /\ At("command")
  /\ pc' = "parsed"
  /\ UNCHANGED <<screen, printing, input, line, output, overrun>>

\* A command that never returns: it follows a chain without an end, or runs
\* into the same exception for ever (Fat16).  The other threads go on.
CommandHangs ==
  /\ At("command")
  /\ pc' = "hung"
  /\ UNCHANGED <<screen, printing, input, line, output, overrun>>

\* After a store over the frame of tty_update or terminal_printf, behind the
\* list of port 2, or far behind dirty_buffer (Display), the thread may go on
\* as before, or run into an exception for ever.
Crash ==
  /\ overrun \/ port2.behind \/ "astray" \in screen.faults
  /\ pc \notin {"fault", "hung"}
  /\ pc' = "hung"
  /\ UNCHANGED <<screen, printing, input, line, output, overrun>>

\* parse returns; terminal_writestring("\n")
Parsed ==
  /\ At("parsed")
  /\ printing' = terminal_writestring(<<NewLine>>)
  /\ entered' = << >>
  /\ overrun' = FALSE
  /\ pc' = "prompt"
  /\ UNCHANGED <<screen, input, tty_buffer, tty_idx, output>>

TtyUpdate ==
  \/ PrintNext \/ Welcome \/ Prompt \/ ReadKey \/ NoMoreKeys \/ Scroll \/ NoMoreScrolls
  \/ Scan \/ ParseNothing \/ FaultAgain \/ ParseCommand \/ ParseNotFound
  \/ \E string \in Outputs : CommandPrints(string)
  \/ CommandEnds \/ CommandHangs \/ Parsed \/ Crash

Next == (\E c \in Char : Type(c)) \/ TtyUpdate

\* The terminal thread gets the CPU again and again (Scheduler), and keys come
\* more slowly than it reads them: MaxTyped ends the flow.
Spec == Init /\ [][Next]_vars /\ WF_vars(TtyUpdate)

-----------------------------------------------------------------------------
(* Properties *)

TypeOK ==
  /\ screen.row \in Nat /\ screen.column \in Nat
  /\ screen.port3 \in 0 .. kMaxMessages /\ screen.requests \in Nat
  /\ screen.faults \subseteq {"row", "astray", "column", "overlaid", "midline",
                            "scroll lost"}
  /\ typed \in 0 .. MaxTyped
  /\ port2 \in [list : [Array -> Char \cup {Nul}], head_index : Array,
               list_size : 0 .. kMaxMessages, behind : BOOLEAN, crowded : BOOLEAN]
  /\ tty_buffer \in [0 .. BufferSize - 1 -> Char \cup {Nul}]
  /\ tty_idx \in Nat
  /\ pc \in {"welcome", "prompt", "read", "scroll", "scan", "parse", "command",
             "parsed", "fault", "hung"}
  /\ output \in 0 .. MaxOutput
  /\ entered \in Seq(Char)
  /\ overrun \in BOOLEAN

\* What parse gets is what was read since the last line, all of it and nothing
\* else, whatever the lines before held, however often the loop scanned and
\* whenever the keys arrived, if it fits into the buffer.
CommandIsTheLine ==
  /\ TypeOK
  /\ At("parse") /\ Len(entered) < BufferSize => Line = entered

\* A store goes behind tty_buffer or temp_buffer only for a line that is itself
\* too long: earlier lines, however long in sum, take no room.
BuffersHoldShortLines ==
  overrun => \/ Len(entered) > BufferSize
             \/ Len(entered) + Len(NotFound) > PrintfSize

\* A glyph below the last row, and all that follow it, are never seen, and
\* what marks them for drawing is stored behind dirty_buffer: the test for the
\* last row is an equality.  It happens only after a string with a line end
\* before its last character, which the code prints when two lines were read
\* together; nor is a glyph drawn beside the screen but for tabs.  Until the
\* first scroll, wrap to the top or '\r', no glyph is drawn over another one.
GlyphsOnScreen ==
  /\ "row" \in screen.faults => "midline" \in screen.faults
  /\ "column" \notin screen.faults
  /\ "overlaid" \notin screen.faults

\* Every line starts with an empty port 3, so a scroll request is lost only
\* if the commands of one line, with the prompt after it, make more than
\* kMaxMessages of them.
ScrollsLostOnlyIfMany == "scroll lost" \notin screen.faults

\* The keys that wait in port 2, as pop will return them.
Waiting ==
  LET head[n \in 0 .. kMaxMessages] ==
        IF n = 0 THEN port2.head_index ELSE wrap(head[n - 1] + 1)
  IN {port2.list[head[n]] : n \in 0 .. port2.list_size - 1}

\* A line end that waits in port 2 is read and its line parsed, unless
\* - an earlier line was empty, or its command never returned, or the thread
\*   went astray;
\* - an earlier character ran over the end of the buffer: a line end behind
\*   it is never found; or
\* - after the first kMaxMessages keys, when the head of the list no longer
\*   moves, a key arrives while another one waits: one of the two is stored
\*   over, or behind the list.
LinesGetParsed ==
  NewLine \in Waiting ~>
    (pc \in {"parse", "fault", "hung"} \/ overrun \/ port2.crowded)
=============================================================================
