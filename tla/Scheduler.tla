----------------------------- MODULE Scheduler -----------------------------
(***************************************************************************)
(* Time slicing in muk: kernel/proc/scheduler.cpp, kernel/proc/thread.cpp, *)
(* kernel/timer.cpp and kernel/asm/switch.s, driven by the boot code       *)
(* (kernel/kernel.cpp) and by the four driver threads it starts.           *)
(*                                                                         *)
(* There is one CPU.  It executes on one stack at a time: the boot stack   *)
(* or the stack of a thread.  A context is the code running on one stack;  *)
(* it takes a step only while the CPU is on its stack, and the timer       *)
(* interrupt may take the CPU from it between any two steps as long as the *)
(* interrupt flag is set.  An interrupt handler runs with the flag clear   *)
(* (every stub begins with cli), so timer_irq is one step.                 *)
(*                                                                         *)
(* Thread t of the model is the Thread object with thread_id t.  A saved   *)
(* stack pointer is abstracted to the stack it points into, and the        *)
(* deadline "eticks" of Timer::sleep to the ticks that remain until it.    *)
(***************************************************************************)
EXTENDS Naturals

CONSTANTS
  N,              \* threads that init_kthreads starts (4 in the code)
  Slice,          \* a thread is switched out when timer_tenths > Slice (25)
  Forced,         \* what Timer::yield stores in timer_tenths (100)
  MaxSleep,       \* longest argument of Timer::sleep
  SurfaceThread,  \* the thread that runs surface_update
  TtyThread       \* the thread that runs tty_update and the commands

ASSUME SchedulerAssumption ==
  /\ N \in Nat /\ N >= 2
  /\ Slice \in Nat /\ Forced \in Nat /\ Forced > Slice
  /\ MaxSleep \in Nat \ {0}
  /\ SurfaceThread \in 1 .. N
  /\ TtyThread \in 1 .. N
  /\ SurfaceThread # TtyThread

Threads  == 1 .. N
Boot     == 0           \* the context of kernel_main, on the boot stack
NoThread == 0           \* nullptr
Lost     == N + 1       \* a stack pointer that no context can go on from
Contexts == 0 .. N

VARIABLES
  thread_root,     \* thread.cpp: head of the ring
  thread_running,  \* thread.cpp: the thread that is switched in
  next, prev,      \* the links of each Thread
  next_tid,        \* the id of the next thread to be created
  saved_esp,       \* Thread::state_reg.esp, as the stack it points into
  started,         \* scheduler.cpp: the first switch has happened
  running,         \* Scheduler::running, cleared by lock()
  irq0,            \* timer_irq is registered with the interrupt table
  timer_tenths,    \* ticks since the last switch, saturated at Forced
  is_sleeping,     \* Timer::sleep is in its loop
  left,            \* per context: ticks until its eticks
  iflag,           \* the interrupt flag of the CPU
  empty_block,     \* history: the tty thread last asked for no bytes
  sp,              \* the stack the CPU is on
  pc               \* per context: where its code is

ring  == <<thread_root, next, prev, next_tid>>
timer == <<timer_tenths, is_sleeping, left>>
vars  == <<thread_root, thread_running, next, prev, next_tid, saved_esp,
           started, running, irq0, timer_tenths, is_sleeping, left, iflag,
           empty_block, sp, pc>>

\* Where the code of a context is.  "load" to "idle" are kernel_main, "run"
\* is the body of a driver thread, "update" to "forced" are surface_update,
\* "locked" is a command run by parse(), "armed" to "awake" Timer::sleep.
BootPoints   == {"load", "timer", "files", "threads", "display", "enable",
                 "idle"}
ThreadPoints == {"run", "update", "unmasked", "forced", "locked"}
SleepPoints  == {"armed", "sleeping", "awake"}

Init ==
  /\ thread_root = NoThread
  /\ thread_running = NoThread
  /\ next = [t \in Threads |-> NoThread]
  /\ prev = [t \in Threads |-> NoThread]
  /\ next_tid = 1
  /\ saved_esp = [t \in Threads |-> t]
  /\ started = FALSE
  /\ running = TRUE
  /\ irq0 = FALSE
  /\ timer_tenths = 0
  /\ is_sleeping = FALSE
  /\ left = [c \in Contexts |-> 0]
  /\ iflag = FALSE
  /\ empty_block = FALSE
  /\ sp = Boot
  /\ pc = [c \in Contexts |-> IF c = Boot THEN "load" ELSE "run"]

At(c, point) == sp = c /\ pc[c] = point
Goto(c, point) == pc' = [pc EXCEPT ![c] = point]

-----------------------------------------------------------------------------
(* Scheduler::lock and Scheduler::unlock *)

SchedulerLock == running' = FALSE

\* An unlock that forgets to set the flag again.
UnlockForgets == running' = running

SchedulerUnlock == running' = TRUE

-----------------------------------------------------------------------------
(* Timer::sleep, called by the disk driver at boot and by commands *)

\* Where Timer::sleep returns to.
Caller(c) == IF c = Boot THEN "files" ELSE "locked"

\* eticks = timer_ticks + ticks
ReadDeadline(c) ==
  /\ c \in {Boot, TtyThread}
  /\ At(c, Caller(c))
  /\ \E ticks \in 1 .. MaxSleep : left' = [left EXCEPT ![c] = ticks]
  /\ Goto(c, "armed")
  /\ UNCHANGED <<ring, thread_running, saved_esp, started, running, irq0,
                 timer_tenths, is_sleeping, iflag, sp, empty_block>>

\* is_sleeping = true; the loop that follows executes sti
SetSleeping(c) ==
  /\ At(c, "armed")
  /\ is_sleeping' = TRUE
  /\ iflag' = TRUE
  /\ Goto(c, "sleeping")
  /\ UNCHANGED <<ring, thread_running, saved_esp, started, running, irq0,
                 timer_tenths, left, sp, empty_block>>

\* the loop ends when timer_ticks >= eticks
LeaveSleepLoop(c) ==
  /\ At(c, "sleeping")
  /\ left[c] = 0
  /\ Goto(c, "awake")
  /\ UNCHANGED <<ring, thread_running, saved_esp, started, running, irq0,
                 timer, iflag, sp, empty_block>>

\* A sleep that returns without clearing the flag.
LeaveFlagSet(c) ==
  /\ At(c, "awake")
  /\ Goto(c, Caller(c))
  /\ UNCHANGED <<ring, thread_running, saved_esp, started, running, irq0,
                 timer, iflag, sp, empty_block>>

\* is_sleeping = false
ClearSleeping(c) ==
  /\ At(c, "awake")
  /\ is_sleeping' = FALSE
  /\ Goto(c, Caller(c))
  /\ UNCHANGED <<ring, thread_running, saved_esp, started, running, irq0,
                 timer_tenths, left, iflag, sp, empty_block>>

Sleep(c) == ReadDeadline(c) \/ SetSleeping(c) \/ LeaveSleepLoop(c)
              \/ ClearSleeping(c)

-----------------------------------------------------------------------------
(* kernel_main *)

\* Ext::load allocates, and vmalloc ends with interrupts_enable().
BootLoad ==
  /\ At(Boot, "load")
  /\ iflag' = TRUE
  /\ Goto(Boot, "timer")
  /\ UNCHANGED <<ring, thread_running, saved_esp, started, running, irq0,
                 timer, sp, empty_block>>

InitTimer ==
  /\ At(Boot, "timer")
  /\ timer_tenths' = 0
  /\ is_sleeping' = FALSE
  /\ irq0' = TRUE
  /\ Goto(Boot, "files")
  /\ UNCHANGED <<ring, thread_running, saved_esp, started, running, left,
                 iflag, sp, empty_block>>

\* Filesystem::initialise returns, after any number of disk waits.
FilesReady ==
  /\ At(Boot, "files")
  /\ Goto(Boot, "threads")
  /\ UNCHANGED <<ring, thread_running, saved_esp, started, running, irq0,
                 timer, iflag, sp, empty_block>>

Created == 1 .. next_tid - 1

\* A walk that does not move.
TailNoWalk == thread_root

\* The walk along next from the root that stops at the last thread.
Tail == CHOOSE t \in Created : next[t] = thread_root

\* The links that start_thread sets for the new thread t.
Link(t) ==
  IF thread_root = NoThread
  THEN /\ thread_root' = t
       /\ next' = [next EXCEPT ![t] = t]
       /\ UNCHANGED prev
  ELSE /\ next' = [next EXCEPT ![Tail] = t, ![t] = thread_root]
       /\ prev' = [prev EXCEPT ![t] = Tail, ![thread_root] = t]
       /\ UNCHANGED thread_root

\* new Thread() enables interrupts on its way out of vmalloc.
StartThread ==
  /\ At(Boot, "threads")
  /\ next_tid \in Threads
  /\ Link(next_tid)
  /\ saved_esp' = [saved_esp EXCEPT ![next_tid] = next_tid]
  /\ next_tid' = next_tid + 1
  /\ iflag' = TRUE
  /\ UNCHANGED <<thread_running, started, running, irq0, timer, sp, pc,
                 empty_block>>

ThreadsReady ==
  /\ At(Boot, "threads")
  /\ next_tid \notin Threads
  /\ thread_running' = thread_root
  /\ Goto(Boot, "display")
  /\ UNCHANGED <<ring, saved_esp, started, running, irq0, timer, iflag, sp,
                 empty_block>>

\* start_display_driver, which allocates the back buffer.
StartDisplay ==
  /\ At(Boot, "display")
  /\ iflag' = TRUE
  /\ Goto(Boot, "enable")
  /\ UNCHANGED <<ring, thread_running, saved_esp, started, running, irq0,
                 timer, sp, empty_block>>

\* The explicit interrupts_enable() at the end of kernel_main.
EnableInterrupts ==
  /\ At(Boot, "enable")
  /\ iflag' = TRUE
  /\ Goto(Boot, "idle")
  /\ UNCHANGED <<ring, thread_running, saved_esp, started, running, irq0,
                 timer, sp, empty_block>>

KernelMain == BootLoad \/ InitTimer \/ FilesReady \/ StartThread
                \/ ThreadsReady \/ StartDisplay \/ EnableInterrupts

-----------------------------------------------------------------------------
(* The driver threads *)

\* surface_update: interrupts_disable(); Scheduler::lock()
SurfaceLock ==
  /\ At(SurfaceThread, "run")
  /\ iflag' = FALSE
  /\ SchedulerLock
  /\ Goto(SurfaceThread, "update")
  /\ UNCHANGED <<ring, thread_running, saved_esp, started, irq0, timer, sp,
                 empty_block>>

\* surface_update: Scheduler::unlock(); interrupts_enable()
SurfaceUnlock ==
  /\ At(SurfaceThread, "update")
  /\ SchedulerUnlock
  /\ iflag' = TRUE
  /\ Goto(SurfaceThread, "unmasked")
  /\ UNCHANGED <<ring, thread_running, saved_esp, started, irq0, timer, sp,
                 empty_block>>

\* Scheduler::yield: Scheduler::unlock() and the call of Timer::yield, ...
SurfaceYield ==
  /\ At(SurfaceThread, "unmasked")
  /\ SchedulerUnlock
  /\ iflag' = TRUE
  /\ Goto(SurfaceThread, "forced")
  /\ UNCHANGED <<ring, thread_running, saved_esp, started, irq0, timer, sp,
                 empty_block>>

\* ... which forces the next timer interrupt to switch threads.
ForceSwitch ==
  /\ At(SurfaceThread, "forced")
  /\ timer_tenths' = Forced
  /\ Goto(SurfaceThread, "run")
  /\ UNCHANGED <<ring, thread_running, saved_esp, started, running, irq0,
                 is_sleeping, left, iflag, sp, empty_block>>

\* parse() locks the scheduler while a command runs ...
ParseLock ==
  /\ At(TtyThread, "run")
  /\ SchedulerLock
  /\ Goto(TtyThread, "locked")
  /\ UNCHANGED <<ring, thread_running, saved_esp, started, irq0, timer,
                 iflag, sp, empty_block>>

\* ... and unlocks it when the command returns.
ParseUnlock ==
  /\ At(TtyThread, "locked")
  /\ SchedulerUnlock
  /\ Goto(TtyThread, "run")
  /\ UNCHANGED <<ring, thread_running, saved_esp, started, irq0, timer,
                 iflag, sp, empty_block>>

\* vmalloc, in the threads that push, pop or split what they copy: not in
\* surface_update, and not between Timer::sleep and its return.
Allocates(t) == \/ t # SurfaceThread /\ At(t, "run")
                \/ t = TtyThread /\ At(t, "locked")

\* vmalloc of some bytes switches interrupts off, and on when it is done.
Allocate(t) ==
  /\ Allocates(t)
  /\ iflag' = TRUE
  /\ empty_block' = (t # TtyThread /\ empty_block)
  /\ UNCHANGED <<ring, thread_running, saved_esp, started, running, irq0,
                 timer, sp, pc>>

\* vmalloc(0) returns before it switches them on.  parse() and the commands
\* ask for it with a copy of an empty text or of an empty vector.
AllocateNothing ==
  /\ Allocates(TtyThread)
  /\ iflag' = FALSE
  /\ empty_block' = TRUE
  /\ UNCHANGED <<ring, thread_running, saved_esp, started, running, irq0,
                 timer, sp, pc>>

Vmalloc == AllocateNothing \/ \E t \in Threads : Allocate(t)

SurfaceUpdate == SurfaceLock \/ SurfaceUnlock \/ SurfaceYield \/ ForceSwitch

-----------------------------------------------------------------------------
(* timer_irq and Scheduler::next *)

\* Every deadline is one tick nearer.
CountDown == [c \in Contexts |-> IF left[c] = 0 THEN 0 ELSE left[c] - 1]

\* A timer that does not look at is_sleeping.
SliceUsedUp == timer_tenths + 1 > Slice

SwitchDue == timer_tenths + 1 > Slice /\ ~is_sleeping

\* A handler that returns early while somebody sleeps.
CountsOnlyAwake ==
  IF is_sleeping THEN UNCHANGED left ELSE left' = CountDown

\* timer_ticks++, as the sleepers see it
TimerCounts == left' = CountDown

\* set_context(&thread_running->stack_ptr): the boot context is abandoned.
\* With thread_running == nullptr the stack pointer is whatever lies there.
SetContext ==
  /\ ~started
  /\ started' = TRUE
  /\ sp' = IF thread_running = NoThread THEN Lost ELSE thread_running
  /\ iflag' = TRUE
  /\ UNCHANGED <<thread_running, saved_esp>>

\* The interrupt frame is copied over state_reg when it lies above
\* 0xE0000000, that is, when the CPU is not on the boot stack.  The esp in it
\* is that of the interrupt stub: switch_context could not go on from there.
SaveFrame == IF sp = Boot THEN saved_esp
                          ELSE [saved_esp EXCEPT ![thread_running] = Lost]

\* Stores through thread_running->prev before thread_running moves on.
SwitchContextEarly ==
  LET to == next[thread_running] IN
  /\ started
  /\ thread_running' = to
  /\ saved_esp' = [SaveFrame EXCEPT ![prev[thread_running]] = sp]
  /\ sp' = saved_esp'[to]
  /\ iflag' = TRUE
  /\ UNCHANGED started

\* Does not execute sti on the way out.
SwitchContextNoSti ==
  LET to == next[thread_running] IN
  /\ started
  /\ thread_running' = to
  /\ saved_esp' = [SaveFrame EXCEPT ![prev[to]] = sp]
  /\ sp' = saved_esp'[to]
  /\ iflag' = FALSE
  /\ UNCHANGED started

\* thread_running = thread_running->next; then switch_context stores the
\* stack pointer through thread_running->prev, loads that of thread_running
\* and executes sti.
SwitchContext ==
  LET to == next[thread_running] IN
  /\ started
  /\ thread_running' = to
  /\ saved_esp' = [SaveFrame EXCEPT ![prev[to]] = sp]
  /\ sp' = saved_esp'[to]
  /\ iflag' = TRUE
  /\ UNCHANGED started

SchedulerNext == SetContext \/ SwitchContext

IrqTaken == irq0 /\ iflag /\ sp # Lost

TickSwitch ==
  /\ IrqTaken
  /\ SwitchDue
  /\ TimerCounts
  /\ timer_tenths' = 0
  /\ SchedulerNext
  /\ UNCHANGED <<ring, running, irq0, is_sleeping, pc, empty_block>>

Tick ==
  /\ IrqTaken
  /\ ~SwitchDue
  /\ TimerCounts
  /\ timer_tenths' = IF timer_tenths < Forced THEN timer_tenths + 1
                                              ELSE Forced
  /\ UNCHANGED <<ring, thread_running, saved_esp, started, running, irq0,
                 is_sleeping, iflag, sp, pc, empty_block>>

TimerIrq == TickSwitch \/ Tick

\* Once the stack pointer is lost every instruction faults, the fault has no
\* handler, and isr_handler returns to the same instruction.
FaultAgain == sp = Lost /\ UNCHANGED vars

-----------------------------------------------------------------------------
Next ==
  \/ KernelMain
  \/ SurfaceUpdate
  \/ ParseLock \/ ParseUnlock
  \/ Vmalloc
  \/ \E c \in Contexts : Sleep(c)
  \/ TimerIrq
  \/ FaultAgain

Spec == Init /\ [][Next]_vars

(***************************************************************************)
(* Fairness.  IRQ0 is latched by the interrupt controller while the flag   *)
(* is clear, so a timer interrupt that can be delivered again and again is *)
(* delivered.  One that is due to switch is not kept off for ever by a     *)
(* thread that sleeps again and again, unless that is a command that never *)
(* returns (ls and cat on a chain of clusters without an end do that):     *)
(* any other ends, and the tty thread then polls its port for far longer   *)
(* than a tick.  A thread that is switched in keeps the CPU for more than  *)
(* Slice ticks, so one that is switched in again and again executes its    *)
(* next instruction.  Nothing is assumed of the lines typed, that commands *)
(* return or that anything is allocated.  The controller itself is in      *)
(* Interrupts.                                                             *)
(***************************************************************************)
CommandRuns == pc[TtyThread] \in {"locked"} \cup SleepPoints

FairSpec ==
  /\ Spec
  /\ SF_vars(TimerIrq)
  /\ SF_vars(TickSwitch) \/ (<>[]CommandRuns /\ []<>is_sleeping)
  /\ SF_vars(SurfaceUpdate)
  /\ \A c \in Contexts :
       SF_vars(SetSleeping(c) \/ LeaveSleepLoop(c) \/ ClearSleeping(c))

-----------------------------------------------------------------------------
(* Properties *)

TypeOK ==
  /\ thread_root \in {NoThread} \cup Threads
  /\ thread_running \in {NoThread} \cup Threads
  /\ next \in [Threads -> {NoThread} \cup Threads]
  /\ prev \in [Threads -> {NoThread} \cup Threads]
  /\ next_tid \in 1 .. N + 1
  /\ saved_esp \in [Threads -> 0 .. N + 1]
  /\ started \in BOOLEAN
  /\ running \in BOOLEAN
  /\ irq0 \in BOOLEAN
  /\ timer_tenths \in 0 .. Forced
  /\ is_sleeping \in BOOLEAN
  /\ left \in [Contexts -> 0 .. MaxSleep]
  /\ iflag \in BOOLEAN
  /\ empty_block \in BOOLEAN
  /\ sp \in 0 .. N + 1
  /\ pc \in [Contexts -> BootPoints \cup ThreadPoints \cup SleepPoints]

\* The ring of start_thread is doubly linked as soon as it has two threads:
\* "stitch up the beginning node + end node into a doubly linked ring list"
\* (thread.cpp:72).  Scheduler::next finds the thread it leaves through prev.
DoublyLinked ==
  next_tid > 2 => \A t \in Created : /\ next[t] \in Created
                                     /\ prev[next[t]] = t

\* Every thread runs on its own stack and nobody else's: the CPU is on the
\* stack of thread_running, and the stack pointer that switch_context will
\* load for a thread that is switched out was saved from its own stack.
OwnStack ==
  started /\ sp # Lost =>
     /\ sp = thread_running
     /\ \A t \in Threads \ {thread_running} : saved_esp[t] = t

\* is_sleeping is one flag for all contexts.  It is set exactly while the
\* context that has the CPU is inside the loop of Timer::sleep, so no other
\* context can ever clear it under a sleeper or find it set.
SleeperHasCpu ==
  /\ \A c \in Contexts : pc[c] \in {"sleeping", "awake"} => sp = c
  /\ sp # Lost => (is_sleeping <=> pc[sp] \in {"sleeping", "awake"})

\* Scheduler::running is one flag for all threads and unlock() clears it for
\* everybody, but it never stays cleared behind its users: when it is FALSE
\* some thread is still between its lock() and its unlock().
LockNeverLeaks ==
  ~running => \/ pc[SurfaceThread] = "update"
              \/ CommandRuns

\* Once threads run, interrupts are off inside the section that
\* surface_update protects, and from a vmalloc(0) of the tty thread until it
\* allocates or sleeps: nowhere else, whatever path the CPU was handed over
\* on, and never in another thread on account of that vmalloc.
InterruptsComeBack ==
  started /\ sp # Lost /\ ~iflag =>
     \/ At(SurfaceThread, "update")
     \/ sp = TtyThread /\ empty_block

\* Round robin: see the module RoundRobin.
Turn == IF started /\ sp # Lost THEN sp ELSE 0
RR == INSTANCE RoundRobin WITH turn <- Turn

\* Scheduling implements the abstract round robin: thread 1 is the first to
\* run and every switch goes to the next thread in creation order.
RoundRobinSpec == RR!Spec

\* The tty thread keeps the CPU for good: interrupts stay off behind a
\* vmalloc(0), or a command that never returns sleeps again and again.
CpuKept ==
  \/ <>[](sp = TtyThread /\ ~iflag)
  \/ <>[](sp = TtyThread /\ CommandRuns) /\ []<>is_sleeping

\* No thread starves: once threads run, each one gets the CPU again, but for
\* the two ways in which the tty thread can keep it.
NoStarvation ==
  CpuKept \/ \A t \in Threads : (started /\ sp # Lost) ~> (sp = t)

\* A command that calls Timer::sleep gets back from it.
SleepReturns == pc[TtyThread] = "armed" ~> pc[TtyThread] = "locked"

\* "this line starts to run the threads and drivers, the LAST thing to
\* enable!!!" (kernel.cpp:56): no thread runs before kernel_main is done.
ThreadsStartLast == started => pc[Boot] = "idle"
=============================================================================
