# muk: a verification project

muk is a small 32-bit multithreaded kernel (C++ and x86 assembly). This
directory holds TLA+ modules that model its core, TLC configurations that check
them on small instances, and TLAPS proofs of what matters most for every value
of the constants. Paths below are relative to the repository (`src/`).

## The system

| part | state | operations | interacts with |
|---|---|---|---|
| boot (`kernel/kernel.cpp`) | program point of `kernel_main`, interrupt flag | set up tables, memory, timer, keyboard, file system, threads, display, then enable interrupts | everything; the timer can take the CPU from it |
| interrupt dispatch (`kernel/idt.cpp`, `kernel/asm/interrupts.s`) | descriptor table, table of handlers; pending and in-service lines of the two controllers | `isr_handler`, `register_interrupt_handler` | every device interrupt goes through it |
| scheduler, timer, threads (`kernel/proc/scheduler.cpp`, `kernel/timer.cpp`, `kernel/proc/thread.cpp`, `kernel/asm/switch.s`) | thread ring, `thread_running`, saved stack pointers, `timer_tenths`, `is_sleeping`, `Scheduler::running` | `timer_irq`, `Scheduler::next/lock/unlock/yield`, `Timer::sleep/yield`, `start_thread` | runs the four driver threads |
| mutexes (`kernel/proc/mutex.cpp`) | `interlock`, `l_threadid` | `Lock`, `Unlock`, `TryLock`, `Test`, `Wait`; RAII `Locker` | postbox set-up, terminal output |
| postbox (`kernel/proc/message.cpp`) | list of ports, one `MessageList` of 32 per port | `listen`, `SendMessage`, `pop`, `postbox_debug` forwarding port 1 to port 2 | keyboard driver -> port 1 -> postbox_debug -> port 2 -> tty; tty -> port 3 -> tty |
| keyboard (`kernel/drivers/keyboard.cpp`, `kernel/std/ringbuffer.cpp`) | ring buffer of 512 bytes | `keyboard_irq`, `getc`, `kb_update` | IRQ 1 writes, the keyboard thread reads |
| terminal (`kernel/tty.cpp`) | cursor, line buffer | `tty_update`, `terminal_putchar`, `terminal_scrollup`, `parse` | postbox ports 2 and 3, surfaces |
| graphics (`kernel/gfx/`) | back buffer, dirty rows | `surface_update`, `setPixel`, `scrollUp`, `UpdateBuffers` | terminal, scheduler lock |
| physical and virtual memory (`kernel/memory/manager.cpp`) | page bitmap, `free_pages`, page directory and tables | `AllocatePage`, `PageFree`, `PageTaken`, `MapPage` | heap |
| heap (`kernel/memory/heap.cpp`) | list of block headers, `kheap_top` | `vmalloc` and its wrappers (`free` does nothing) | every `new`; the interrupt flag |
| disk and file system (`kernel/drivers/ata.cpp`, `kernel/fs/fat16.cpp`) | device registers, boot record, FAT | `wait`, `prepare`, `read_u8`, `open`, `walk`, `readDirectory`, `readFile` | `Timer::sleep`, commands |
| commands (`kernel/ext.cpp`, `kernel/bin/`, `kernel/user/env.cpp`) | table of functions, environment | `ps`, `ls`, `cat`, ... | run in the tty thread |
| library (`kernel/std/`, `include/std/`) | `nxt` and `size` of `strtok` | `std::vector`, `std::string`, `strtok`, `vsprintf`, conversions of numbers, memory moves | postbox (vector of ports), `parse`, `ls`, file system |
| C++ runtime (`kernel/icxxabi.cpp`, `libcxxrt/`) | | atexit, guards, exceptions | |

What is hard here is concurrency on one CPU: the timer interrupt may take the
CPU between any two instructions, four threads share queues, flags and locks
that were written without atomic instructions, and the keyboard interrupt fills
a buffer that a thread empties.

Around it there are the hazards of any kernel: queues and bitmaps at their
limit, memory that runs out, a device that answers late or never. `PROJECT.json`
lists them at the line where they bite, with the properties that watch them.

What makes each part correct: every interrupt that a device raises is answered;
a thread runs on its own stack and gets the CPU again; a lock holder is alone
and can unlock; a search of the table of ports finds the port; the ring and the
queue hand on what was put in, once and in order; no physical page and no heap
byte has two owners; a sector that was read is the one that was asked for, and
what `ls` and `cat` show is what is on the volume; a command gets the line that
was typed and the words that it consists of; what a thread draws is drawn on
the screen and is shown.

## The modules

| module | models | promises / checked by |
|---|---|---|
| `Scheduler` | `scheduler.cpp`, `thread.cpp`, `timer.cpp`, `switch.s`, the order of `kernel.cpp`, and of the threads' code what touches the scheduler | implements `RoundRobin`; `MCScheduler`, `InterruptsProofs` |
| `KeyRing` | `std/ringbuffer.cpp`, one load or store per step, with the interrupt in between | implements `BoundedFifo`; `MCKeyRing`, `KeyRingProofs` |
| `Keyboard` | `drivers/keyboard.cpp` on an instance of `KeyRing` | `MCKeyboard`, `KeyboardProofs` |
| `Interrupts` | `idt.cpp`, `interrupts.s` and the two 8259 controllers (external), extends `Scheduler` | implements `Scheduler`; `MCInterrupts`, `InterruptsProofs` |
| `SpinlockMutex` | `proc/mutex.cpp`, `Locker` | checked as a part of `Ports`; `PortsProofs` |
| `Ports` | `proc/message.cpp`: `listen` and `search` on a vector that grows, extends `SpinlockMutex` | implements `SpinlockMutex`; `MCPorts`, `PortsProofs` |
| `Postbox` | `proc/message.cpp`: `MessageList`, `SendMessage`, `postbox_debug` | `MCPostbox`, `PortsProofs` |
| `Memory` | `memory/manager.cpp`: bitmap and page tables | checked as a part of `Heap`; `HeapProofs` |
| `Heap` | `memory/heap.cpp`, extends `Memory` | `MCHeap`, `HeapProofs` |
| `Ata` | `drivers/ata.cpp` and the device it talks to | checked as a part of `Fat16`; `DiskProofs` |
| `Fat16` | `fs/fat16.cpp`, `bin/cat.cpp`, `ls`, extends `Ata` | `MCFat16`, `DiskProofs` |
| `Terminal` | `tty.cpp`: the loop, `parse`, the cursor, scroll requests | `MCTerminal`, `TerminalProofs` |
| `Display` | `gfx/surface.cpp`, `gfx/buffer.cpp`, `terminal_putentryat` | `MCDisplay`, `TerminalProofs` |
| `StringLibrary` | loops of `std/stdlib.cpp`, `memory/alloc.cpp`, `include/std/string.hpp` | used by `Arguments` |
| `Arguments` | from a command line to the words of a command and the folders of a path | `MCArguments`, `ArgumentsProofs` |

The MC modules give the constants their values. `RoundRobin` and `BoundedFifo`
are abstract: the turn of the threads, and a queue that refuses what does not fit.

State has the names of the source. A variable that is not in the code is a
program point (`pc`, `reader`, `sender`, `driver`, `ata`, `fs`) or marked as
history. `map` in `PROJECT.json` gives the lines behind every definition.

### Scheduler

One CPU executes on one stack at a time (`sp`). A context is the code on one
stack: `kernel_main` or one of the threads. Its steps need `sp` to be its own,
and `TimerIrq` may come between any two of them while `iflag` is set; handlers
begin with `cli`, so `timer_irq` is one step. A saved stack pointer is
abstracted to the stack it points into: `switch_context` stores the current one
through `thread_running->prev` and loads that of `thread_running`, which is
right only if the ring is. `Timer::sleep` is split into computing the deadline,
setting `is_sleeping`, leaving the loop and clearing the flag. The deadline is
kept as the ticks that remain. Boot is modelled from `Ext::load` on, because
the first `vmalloc` there already turns interrupts on: a tick during the rest
of `kernel_main` goes through `Scheduler::next`, with a null `thread_running`
before the threads exist (the stack pointer is then `Lost` and every return
faults again). `vmalloc` begins with `cli` and ends with `sti`; threads call it
at any point between their other steps (`Allocate`), also for 0 bytes, from
`parse`: that call returns with interrupts off (`AllocateNothing`; `empty_block`
is the history of it). A command runs from the tty thread's `lock` to its
`unlock` (`CommandRuns`); some never return.

### Interrupts

A line that a device raises is pending until the CPU takes it and then in
service until an end of interrupt clears it. It keeps back lines of its own and
of lower priority; those of the second controller come through line 2 of the
first. A handler runs with the interrupt flag clear, so one interrupt, from the
stub to `iret` or to the switch of the stack, is one step. The end is sent
before the handler is called, and it ends whatever line has the highest
priority. Vector 42, which is line 10, has no gate (`isr42` is entered at 43):
the exception's handler sends no end of interrupt, so the line stays in service
and keeps back lines 3 to 7 and 11 to 15. Every step of `Interrupts` is one of
`Scheduler` or leaves its variables alone.

### KeyRing and Keyboard

`keyboard_irq` calls `buffer_write` in one step. `buffer_read` is a test, a
load and a store. `Keyboard` adds `getc`, which sends the key to port 1 and
gives up after `MaxLoops` empty reads without a return value (any byte), and
`kb_update`, which stores the byte at an index of its own into the same array
(`hit` records that a waiting key was overwritten). `getc` compares what it read
with -1, so that a byte 0xFF (`MinusOne`) passes for an empty read although it
is taken from the ring. No key gives that byte, but `kb_update` may store it over
one that waits; `lost` counts the bytes that were taken so.

### SpinlockMutex and Postbox

Every load and store of `Lock`, `Unlock`, `push` and `pop` is a step. In
`Postbox`, `list_size++` and `list_size--` are a load and a store; what the
compiler keeps in a register across a thread switch is a nondeterministic
choice. `wrap` is the code's arithmetic. One port stands for each of them.

### Ports

The vector of ports is a sequence of memories: `push_back` allocates, copies,
stores and counts step by step, and the old memory stays readable since it is
never freed. An iterator is a memory and an index in it. `listen` holds
`messaging_mutex`, a search holds nothing, and the end it is compared with is
computed after it. The mutex is the one of `SpinlockMutex`, so two threads may
pass `Lock` together (`raced`); what two `push_back`s make of each other from
then on is not followed.

### Memory and Heap

A page table is the content of a frame, and a frame is a table or a page only
by use: when `AllocatePage` returns NULL and `MapPage` uses frame 0, two
tables may become one, and the model follows. The bitmap's content before
`Setup` is a parameter, since the code does not clear it. The 4 MiB page of the
kernel and the recursive directory entry are not part of it, and the frame
buffer's frames (`Device`) lie outside of the bitmap. In `Heap` the list of
blocks is stored in the frames, so a mapping that moved or a page cleared
twice would damage it. A header is placed at its first byte.

### Ata and Fat16

The device finishes a reset or a command whenever it likes or never, and
ignores its registers while busy; without a device all bits read as 1. `wait`
sleeps until its condition holds or its counter exceeds `MaxTime`; nobody looks
at its result. Three registers carry the sector number, a byte each. On top,
each step of the file system that needs a sector starts a read and goes on with
whatever came back. The code looks at no sector's kind: one that is not a
directory may look like any directory of `Misread`, one that is not a table like
any of `MisreadTables`, with names and clusters of whatever value. A plain volume
has what every volume has, also the `..` entries of cluster 0, empty files (of
cluster 0, too) and free clusters in the table. For cluster 0 the code computes a
sector that belongs to something else, so two cases are named: a path that leaves
the folders, or goes back to the root through `..` (`Strays`), and a file without a
cluster (`FileIsEmpty`).
`Fat16` contains a second, independent reading of a volume by the rules of
FAT16 (`ChainOf`, `EntriesOfPath`, `TextOfFile`), against which the code's is
compared. `read_u16` and `writePIO` are never called. How a name is assembled
from the bytes of a slot is left out.

### Terminal and Display

`Terminal` follows the terminal thread point by point (`pc`); while something is
to be printed, each character is a step, and keys arrive between any two. The
mark `Check` in `printing` is the start of a string, where the code tests for
the last row. A screen is a record: the cursor, port 3 and the history that the
properties need. Keys that are read together belong to one command, also those
behind a line end: that is the code's behaviour and `entered` follows it. Port 2
is the code's `MessageList` with its `wrap`, so that it stores over keys, behind
its list, and gives keys again, once it was full; a `push` and a `pop` are one
step each here, and overlap in `Postbox`. Port 3 is filled and emptied by the same
thread, and only how many requests wait matters. A command may end after what it
printed, or never: it faults, or walks a chain that has no end (`CommandHangs`).
A store over the frame of `terminal_printf`, behind a port's list or behind
the surface may stop the thread at any later point (`Crash`).

`Display` takes the drawing of one glyph, and one scroll, apart into stores and
marks, with the copy to the frame buffer between any two. The row of a pixel is
marked after the store: a copy in between passes it over, and the mark makes
the next copy show it. `scrollUp` marks nothing,
so a scrolled row is shown only when something is drawn into it. A glyph one row
below the last is marked behind `dirty_buffer`, in the size field of the next
block, which nobody reads again; one further below (`MaxRow`) is marked in the
surface itself, and what becomes of the drawing thread then is open (`astray`).

### StringLibrary and Arguments

`StringLibrary` has each loop of the library as a recursive function, a fold or
the least place at which the loop ends, and beside it what C and C++ say of the
function, with the cases in which the code deviates named (below). `itoa` has its
`tmp` of `TmpSize` characters; a number of more digits gives `Smashed`, since what
it overwrites is its own frame.

`Arguments` follows `strtok` over the storage of a `std::string`, which has no 0
at its end: it reads into the heap, where a token that is pushed onto a vector
puts the header of a new block. A call of `strtok` begins with `FirstToken` or
`NextToken`, every turn of its loop is a `Turn`, and `Return` goes back to the
loop of `parse` or `readDirectory`. Characters are codes here because the bytes
of a header are compared with them. Three bytes behind the text are part of the
storage: two of the header can differ from 0 (`Low`, `High`) while a text is
shorter than `tty_buffer` (`BufferSize`; assumed, too, of the bytes that `ls`
without a path finds behind the vector of words).

## The runs

All run with deadlock checking: in the models a halted or looping CPU is an
explicit step. The exception is `arguments`, which ends after `MaxLines` lines.

| run | shows | bounds, and why they are enough |
|---|---|---|
| `scheduler` | the invariants of the scheduler, interrupts that come back, refinement of `RoundRobin`, `SleepReturns`, and `NoStarvation` unless the tty thread keeps the CPU (`CpuKept`: behind `vmalloc(0)`, or sleeping again and again in a command that never returns) | the 4 threads of the code; `Slice` 5, `Forced` 10, `MaxSleep` 3 instead of 25, 100 and more: only the order of the thresholds matters, and the proofs hold for all values |
| `boot_comment` | *violated*: `ThreadsStartLast` | the code's own constants |
| `interrupts` | `LinesAnswered`: every line that is raised is answered, but for 10 and those it keeps back, unless interrupts stay off behind `vmalloc(0)` | 4 threads, `Slice` 2, `Forced` 4; lines 0 and 1, line 10 without a gate and line 14 behind it on the second controller |
| `keyring` | the ring is a FIFO | 4 slots, 3 keys: full, empty and wrap; proved for every size |
| `keyboard` | keys are sent as typed unless hit, none is lost unless hit with 0xFF, and they get through | 3 slots, a line of 4 (so that it runs past the end), 3 keys, 2 empty reads; all but the liveness proved for every size |
| `postbox` | what is forwarded is what was sent, and where it is stored | queue of 3, 5 sends: fills it and passes its end; proved for every size and number |
| `ports` | a search is right, one queue for each port, the mutex can be released, every listen comes to its end | the ports of the kernel, and port 1 listened to by a second thread, so that one finds what the other added; 2 threads and the keyboard's sends; until the mutex has been raced (`UntilRaced`), which ends every property; all but the liveness proved for every set of threads and ports |
| `heap` | disjoint mapped blocks, complete list, `vmalloc` returns; exclusive frames, RAM only, stable mappings | 4 calls with 4 sizes, pages of 4 and tables of 2: blocks end at, before and behind page and table ends; four memory maps (with a reserved page, with little RAM, with a partial page and RAM above the address space) and two contents of the bitmap; memory runs out; the addresses of the directory are more than the pages of RAM, as in the code; all but the liveness proved |
| `disk` | reads, `ls`, `cat`, no fault, termination | 5 volumes (one with an empty file, one with a cyclic chain, one unformatted, one with clusters that are too high) with 5 paths (one through `..`), 3 commands, `MaxTime` 1; a byte has 16 values, so that numbers that do not fit are small; sector numbers need all three registers; all but the liveness proved |
| `terminal` | parse gets the line, buffers hold short lines, glyphs on the screen, scrolls, every line is parsed, with the exceptions named there | screen of 4 by 3, tab of 3, buffers of 4 and 5, ports of 3, 5 keys, 6 strings of a command: each is exceeded; all but the liveness proved for every size |
| `display` | unmarked rows are shown, stores are inside, what is drawn is shown | a frame of 4 rows, glyphs of 2 with one row above the text row, 2 columns of which one is outside, text rows up to two below the last; proved for every size but for the liveness |
| `arguments` | words are the fields of the line, `ls` gets its path, the heap is not damaged, commands compute as the C library says | every line of up to 4 letters and spaces, `ls` with paths of up to 3 characters, folders of 11 and 139 letters (a header whose first byte is a slash), a word of 116 letters (a header with two bytes that are not 0), two lines one after the other; integers of 8 bits, so that the limits are small, and 4 characters of `tmp` (the code: 32 bits and 16), half of the digits in radix 2 as in the code; all but the last proved for every set of lines |

### Fairness

- `Scheduler`: strong fairness of the timer interrupt and of the tick that
  switches (the interrupt controller keeps a request until interrupts are on,
  which happens again and again), and of each thread's next step (a thread that
  is switched in has the CPU for more than `Slice` ticks). The tick that switches
  is not fair to a command that sleeps again and again and never returns: it may be
  asleep whenever one comes. None for commands being typed, for allocations,
  or for `unlock`, which a command may never reach.
- `Interrupts`: the same for each line, handled or without a gate, and for
  `surface_update`, whose `cli` and `sti` surround its copy.
- `Keyboard`: weak fairness of the thread, which gets the CPU again
  (`NoStarvation`) and whose `hlt` ends with the next tick.
- `Ports`: weak fairness of each thread's next step, for the same reason. A
  thread that spins in `Lock` has such a step, so this says nothing about the
  lock being free.
- `Heap`: weak fairness of the steps of `vmalloc`, which runs with interrupts
  off.
- `Fat16`: weak fairness of the driver and the file system, for the same reason
  as the keyboard thread. None of the device.
- `Terminal`: weak fairness of the terminal thread. It does not assume that
  commands return, since `CommandHangs` is one of its steps. None of keys; their number is
  bounded, which stands for a thread that reads faster than somebody types.
- `Display`: weak fairness of the copy and of the steps that end a glyph or a
  scroll which has begun.

## What is proved

By TLAPS, for every value of the constants that the named assumptions allow.

- **Scheduler** (`InterruptsProofs`). `OwnStack` is not inductive: a switch uses
  the links and needs a complete ring, which depends on where `kernel_main` is.
  `IndInv` adds `RingShape` (the links of the threads created so far, in order,
  for every length), that `thread_running` is set only when all threads exist,
  that every saved stack pointer is the thread's own, that no thread is at a
  program point of the boot code, and that only the tty thread sleeps. From it
  follow `TypeCorrect`, `StackSafety`, `RingDoublyLinked`, `SleepSafety`,
  `LockIsGivenBack`, and `ImplementsRoundRobin` (each step is a step of
  `RoundRobin` or leaves `Turn` alone). `InterruptsGivenBack`
  (once threads run, the interrupt flag is off only inside `surface_update`, or in
  the tty thread from a `vmalloc(0)` until it allocates or sleeps) needs that
  `empty_block` keeps the CPU where it is: no timer comes, and whoever else allocates
  does so with interrupts on.
- **Interrupts** (`InterruptsProofs`). `ImplementsScheduler`: every step is one of
  `Scheduler`, so that its invariants hold whatever the controllers do
  (`StacksUnderInterrupts`, `RoundRobinUnderInterrupts`).
  `NothingStaysInService` is an invariant about the controllers alone: outside
  of a handler at most line 10 and its cascade are in service. It needs a lemma
  that the line that was just taken is the one that the end of interrupt
  clears.
- **KeyRing** (`KeyRingProofs`). `IndInv` is the type, `ReaderViewValid` and
  that only written slots wait. Two lemmas say that an accepted write appends
  to, and the store of a read removes the first of, the waiting bytes; with
  them `RingIsFifo` shows refinement of `BoundedFifo` for every size of 2 and
  more.
- **Keyboard** (`KeyboardProofs`). The driver does not implement `KeyRing`, since
  `kb_update` stores into the ring as well. `KeyboardInv` counts: what was typed
  is what was sent, the key on its way and the waiting slots, one for one even
  when keys are overwritten, but for the `lost` ones, and value for value until a store
  has hit a waiting key. None is lost before that, since nobody types 0xFF.
  `KeysAreSentAsTyped` follows for every size and length of a line.
- **SpinlockMutex** (`PortsProofs`). `Exclusion` and `Unlockable` for
  any set of threads: as long as no thread entered a window that another one
  had opened, at most one is inside and it is the recorded owner.
- **Ports** (`PortsProofs`). `ImplementsMutex`: `listen` and the searches use the
  mutex as `SpinlockMutex` says, from which `TableUnlockable` follows, and
  `TableStoresAlone`: no two threads are in `push_back` unless the mutex was
  raced. `PortsInv` follows a search point by point: the memory that it began
  with stays as it is however the vector grows (`Grown`), what it has passed did not
  match, and a port that was there when it began is still ahead of it. It gives
  `SearchesAreRight` and, that the table is what the threads have
  listened to so far, `OneQueuePerPort`.
- **Postbox** (`PortsProofs`). Only that nothing is forwarded which was not sent
  survives an overlap of `push` and `pop`. Without one, `QueueInv` says where
  every message is. In the first round the head is the number of pops, up to the
  last cell, and cell *n* holds message *n* + 1; after it, with one message at a
  time, the head is stuck and that message is at the head. `due` lists the
  messages that are not null and is tied to what was stored by counting
  (`Kept`). `wrap` needs a lemma about the quotient: a store behind the array
  needs two messages that wait already.
- **Memory** (`HeapProofs`). `IndInv` says that tables, pages and free frames
  are three disjoint sets, that no page is entered twice, and that nothing is
  mapped before `Setup`, unless an allocation has failed. The main lemmas say
  what `Translate` is after a page is entered into an old and into a new table.
  `FramesAreExclusive` and the action property `MappingsNeverMove` follow for
  every memory map and every content of the bitmap. `FramesAreRam` adds that
  every set bit is RAM after `Setup`, if the regions of the map consist of whole
  pages inside the bitmap and the bitmap was clear.
- **Heap** (`HeapProofs`). Blocks lie one behind the other below `kheap_top`, each
  has its header, which leads to the next, and the walk of `vmalloc` is at one
  of them. Headers are in frames, so this needs `Memory`'s invariant: no frame
  is a heap page twice, a table, or moves; and the page that is cleared is one
  that holds nothing yet. That the heap never grows into addresses that are
  mapped to something else needs counting: its pages have different frames, of
  which the bitmap has `BitmapPages`, and `HeapAssumption` says that the
  directory covers as many pages from `kHeapStart` on, as it does in the code.
  `HeapInv` gives `BlocksAreDisjoint`, `ClearingIsSafe` and `TheListIsComplete`,
  and what is proved of `Memory` under `vmalloc`.
- **Ata** (`DiskProofs`). `AtaInv`: a device at work has nothing at its port, and
  if no wait of this read gave up it works on, or offers, the sector whose
  number is in the registers. A device that is still busy with an earlier
  command makes the next wait give up, which is why stale data are never taken
  for the answer. `AddressIsNumber` puts the three bytes together for every size
  of a byte, and `FileInv` says that every sector asked for has such a number;
  the two give `ReadsGetTheirSectors`.
- **Fat16** (`DiskProofs`). `NoExceptions`: once a plain volume was opened, no command
  divides by zero or takes the first of an empty chain, unless a read of it gave up
  or its path leads out of the folders, so that something else is scanned as a
  directory. `FileInv` has no such exception: it says what the numbers of a
  command are, whatever was read; `CommandInv` has the rest. What was found in a
  directory is a statement about its recursive scan, `ScanLocates`.
  `ScanIsDefined` and it are proved by the least number of slots, counted from
  the end, for which they would fail (`LeastFailure`). `Fat16Assumption` says
  what may be in a sector of a volume, and that the headers and chains of a
  volume lead to sectors of the disk.
  `ListsWhatIsThere` and `PrintsTheFile` say that what `ls` and `cat` show is
  what is on the volume, if the volume is plain, no read gave up and the path
  does not stray (`Strays`; for `cat` also: the file has a cluster). `CommandInv` ties the
  state of a command to the volume's own recursive definitions, which the code
  does not share: the sector that a folder was read from is the one that
  `SectorsOnPath` has for the names looked up so far, the clusters that `walk`
  has collected are the beginning of `ChainOf`, and what was printed is the
  beginning of the file. It needs to know that only the boot sector can be what
  `open` accepted, and that the table in use is the volume's. `ScanLists` says
  that the scan of a plain directory lists each of its entries once; the
  recursive functions are tied to what they define by `Recursion` and
  `LeastFailure`.
- **Terminal** (`TerminalProofs`). The invariant has two independent parts.
  `LineInv`: while a line is read, the buffer is the history `entered` as far as
  it fits, and zeros; the longest prefix without a zero is then computed by
  `LineIsWhatFits`. What is read must have been stored: `PortOK` says so of the list
  of port 2 up to the head plus the number of those that wait, which stays within
  the array because a head that has wrapped is the last place (`Wrapped`).
  It gives `ParseGetsTheLine` (the line as typed, whatever `parse` and the command
  do afterwards) and `ShortLinesFit`.
  `ScreenInv`: cells that count as drawn are before the cursor, requests that
  wait are not more than those that were made, and the cursor is below the
  screen only where a string begins or after a line end within a string. It
  gives `CursorStaysOnScreen` and `PortHoldsTheScrolls`.
- **Display** (`TerminalProofs`). `CleanRowsAreShown` and `StoresAreInside` for
  every frame and font: a row is on the screen, or marked, or the pixel just
  stored is in it, or it was scrolled.
- **Arguments** (`ArgumentsProofs`). `ArgumentsInv` follows one text through
  `strtok`: what is before `nxt` has zeros for its delimiters, the rest is as it
  was, and behind the text are zeros or the header of the first word's block.
  The words found so far are the fields whose start has their rank (`Rank`,
  `NthIsIt`), so the next one needs only that no field starts in between. At the
  end of the text `strtok` can go on only if the header begins with a delimiter:
  never for a space, as the first byte of a header is odd and a space is not,
  and for a slash only if the folder's length says so; the second byte is too
  small for either. It gives `WordsAreTheFields`, `LsGetsItsPath` and
  `HeapUntouched` for every set of lines.

Only model-checked:

- `CommandsComputeLikeC`: what the recursive functions and folds of
  `StringLibrary` compute needs induction over strings and numbers, and the run
  compares them with their definitions for small ones;
- all liveness: fairness and `ENABLED` are out of the prover's reach.

## Where code and comments disagree

Interrupts are on long before the last line of `kernel_main`, whose comment says
that threads and interrupts start there (`kernel.cpp:56`): `vmalloc` enables
them (run `boot_comment`).

Further observations that the models contain and no run singles out:

- `Scheduler::lock` does not stop the timer from switching threads, although
  `scheduler.cpp:47` says so: nothing reads `running` but `lock` and `unlock`;
- `MessageList::wrap` keeps the head at the last slot once it got there, so the
  queue does not go around: `wrap` subtracts the quotient, not that many times
  the size (`message.hpp:74`);
- the bitmap of pages is not cleared before it is filled (`manager.cpp:10`);
- `Lock` can be passed by two threads, also with the id -1 that is meant to lock
  out all threads (`gfx/surface.cpp:69`), and `Unlock` can erase a new owner;
- `getc` takes a byte 0xFF for an empty read, and the key whose place it has in the
  ring is gone (`keyboard.cpp:61`);
- an overlap of `push` and `pop` can lose or repeat messages; after 32 keys also
  two that wait at a time are enough, so that a line end typed ahead is lost;
- the end that a search is compared with is computed after it; a `listen` in
  between moves it (`message.cpp:60`);
- `kb_update` stores over keys that still wait, and past the end of the buffer;
- line 10 has no gate: a device on it stops lines 3 to 7 and 11 to 15 for good,
  line 11 runs the handler of 42, and a spurious interrupt 7 ends whatever line
  is in service;
- `PageFree` sets bits behind the bitmap for memory above 512 MiB;
- `vmalloc` never compares with the end of the heap that `heap.cpp:4` names, and
  `vmalloc(0)` returns with interrupts off;
- an empty command line stops the kernel: `new char[0]` leaves interrupts off,
  there is no first word, and the fault of reading it has no handler;
- a command that faults, or follows a chain without an end (`fat16.cpp:14`), never
  returns, and no line is read again;
- what is typed while a command runs, several lines perhaps, goes to `parse` as
  one line; a line of more than `BufferSize` characters runs
  past `tty_buffer`, and its end is never found; a word of more than 80 runs
  past `temp_buffer`;
- the last row is tested by equality, at the start of a string: after a line end
  within a string everything may be drawn below the screen: pixels there are
  dropped, but their marks are stored behind `dirty_buffer`, from the second row
  below on into the surface's object; a tab leaves the
  screen at the right, since 12 does not divide its width; scrolls
  are carried out only after the command, and those of more than a port are lost;
- `scrollUp` marks no row and leaves the last ones as they were; a transparent
  glyph marks rows without a bounds test;
- the last word of a line gets a byte of the next block's header (two if the
  first word has 116 letters or more), which `ls` removes by dropping the last
  character of its path, so that `ls /home ` looks for `/hom`; a first folder of
  11 letters, or a multiple of 128 more, makes that byte a slash; `ls` without
  a path and `ps -p` without a value read behind the vector of words;
- `find_last_of` never looks at the first place, `compare` compares a prefix,
  `vsprintf` leaves a `%` for an empty `%s` at the end, `atoi` takes `-` as a
  digit, `ltoa` of base 10 always puts a sign (`memmove` is right); `itoa` has
  room for 16 characters, and a number of 17 binary digits runs past it;
- a cluster number of 248 or more ends a chain (a folder there makes `[0]` of an
  empty vector fault), larger numbers lose their high byte, and only the first
  sector of a cluster is read;
- the cluster 0 of a `..` entry or of an empty file gives a sector before the data
  (`fat16.cpp:171`): `ls home/..` does not list the root directory, `cat` of an empty
  file prints something;
- if the device is late at boot the volume stays unopened for good, and looking
  up a folder then divides by zero, or walks the boot sector as a table;
- a path of two characters (`ls x/`) lists the root directory;
- `readDirectory` never looks whether what it found is a folder: a path that
  leads through a file takes the file's first sector for a directory.

## What is not modelled

- The C++ runtime (`libcxxrt`, with the demangler and the exception tables, and
  `icxxabi.cpp`): vendored, and nothing in the kernel throws or has two threads
  initialise one static.
- The font (`gfx/terminus.cpp`, half of the lines of the repository): data.
- Segments, `lidt`, paging set-up and the assembly before `kernel_main`: no state
  that changes later. (`boot.s` sets the stack pointer to the label `kstack` at
  the beginning of the reserved area, although its comment says "end of memory
  area".)
- Processes, pipes, the RAM disk and modules: empty or never called. So are
  `SpinlockMutex::Test` and `Wait`, `RecursiveMutex`, `read_u16`, `writePIO`,
  `bringToFront`, `setZindex`, the environment and `kernel/command.cpp`.
- The list that `ps` prints, colours, and the bytes a name is put together from.
- The carry of the 64-bit tick counter between the two halves it is read in.
- Memory behind the end of the heap when `strtok` reads that far.
- Headers, and code that is only declared, account for most of the rest.

## Plan

What could be added, the most useful first:

1. Keyboard, postbox and terminal composed: a line that is typed reaches `parse`
   as typed (each link is checked, and proved, separately).
2. The queue of `Postbox` composed with `Ports`: more than one port.
