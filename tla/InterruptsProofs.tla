-------------------------- MODULE InterruptsProofs --------------------------
(***************************************************************************)
(* Proofs about time slicing, for any number of threads, any slice and any *)
(* sleep: first of Scheduler alone, then under the interrupt controllers   *)
(* and for any set of devices, where what is proved of Scheduler holds     *)
(* too.  The invariants of Scheduler are not inductive: that               *)
(* switch_context saves into the right thread rests on the shape of the    *)
(* ring that start_thread built, and that there is a ring at all when the  *)
(* first switch comes rests on where kernel_main is.  IndInv adds both.    *)
(***************************************************************************)
EXTENDS Interrupts, TLAPS

\* The ring, spelled out: the threads stand in creation order.
RingShape ==
  IF next_tid = 1
  THEN thread_root = NoThread
  ELSE /\ thread_root = 1
       /\ \A t \in Created :
            next[t] = IF t = next_tid - 1 THEN 1 ELSE t + 1
       /\ next_tid > 2 =>
            \A t \in Created :
               prev[t] = IF t = 1 THEN next_tid - 1 ELSE t - 1

\* thread_running is set only once every thread is in the ring.
RunningSet ==
  /\ thread_running # NoThread => next_tid = N + 1
  /\ ~started => thread_running \in {NoThread, 1}

\* The stack the CPU is on, and the saved stack pointers.
Stacks ==
  /\ sp = Boot <=> ~started
  /\ sp \in Threads => sp = thread_running
  /\ \A t \in Threads : saved_esp[t] = t

\* Which code each context can be in.
Places ==
  /\ pc[Boot] \in BootPoints \cup SleepPoints
  /\ \A t \in Threads : pc[t] \notin BootPoints
  /\ \A t \in Threads : pc[t] \in SleepPoints => t = TtyThread

\* The inductive invariant.
IndInv ==
  /\ TypeOK
  /\ RingShape
  /\ RunningSet
  /\ Stacks
  /\ Places
  /\ SleeperHasCpu
  /\ LockNeverLeaks
  /\ InterruptsComeBack

-----------------------------------------------------------------------------
\* start_thread's walk finds the thread created last.
LEMMA TailIsLast ==
  ASSUME TypeOK, RingShape, next_tid > 1
  PROVE  Tail = next_tid - 1
<1>1. next_tid - 1 \in Created /\ next[next_tid - 1] = thread_root
  BY SchedulerAssumption DEF TypeOK, RingShape, Created
<1>2. \A t \in Created : next[t] = thread_root => t = next_tid - 1
  BY SchedulerAssumption DEF TypeOK, RingShape, Created
<1> QED
  BY <1>1, <1>2 DEF Tail

\* The complete ring: the successor of a thread, and who precedes it.
LEMMA FullRing ==
  ASSUME TypeOK, RingShape, next_tid = N + 1, NEW t \in Threads
  PROVE  /\ next[t] = IF t = N THEN 1 ELSE t + 1
         /\ next[t] \in Threads
         /\ prev[next[t]] = t
BY SchedulerAssumption DEF TypeOK, RingShape, Created, Threads

LEMMA InitIndInv == Init => IndInv
<1> SUFFICES ASSUME Init PROVE IndInv
  OBVIOUS
<1> USE SchedulerAssumption DEF Threads, Contexts, Boot, NoThread, Lost
<1>1. TypeOK
  <2>1. pc \in [Contexts -> BootPoints \cup ThreadPoints \cup SleepPoints]
    BY DEF Init, BootPoints, ThreadPoints
  <2>2. left \in [Contexts -> 0 .. MaxSleep]
    BY DEF Init
  <2>3. /\ started \in BOOLEAN /\ running \in BOOLEAN /\ irq0 \in BOOLEAN
        /\ is_sleeping \in BOOLEAN /\ iflag \in BOOLEAN
        /\ empty_block \in BOOLEAN
    BY DEF Init
  <2>4. /\ thread_root \in {NoThread} \cup Threads
        /\ thread_running \in {NoThread} \cup Threads
        /\ next_tid \in 1 .. N + 1
        /\ timer_tenths \in 0 .. Forced
        /\ sp \in 0 .. N + 1
    BY DEF Init
  <2>5. /\ next \in [Threads -> {NoThread} \cup Threads]
        /\ prev \in [Threads -> {NoThread} \cup Threads]
        /\ saved_esp \in [Threads -> 0 .. N + 1]
    BY DEF Init
  <2> QED
    BY <2>1, <2>2, <2>3, <2>4, <2>5 DEF TypeOK
<1>2. RingShape /\ RunningSet
  BY DEF Init, RingShape, RunningSet
<1>3. Stacks
  BY DEF Init, Stacks
<1>4. Places
  <2>1. pc = [c \in Contexts |-> IF c = Boot THEN "load" ELSE "run"]
    BY DEF Init
  <2>2. Boot \in Contexts /\ \A t \in Threads : t \in Contexts /\ t # Boot
    OBVIOUS
  <2>3. pc[Boot] = "load" /\ \A t \in Threads : pc[t] = "run"
    BY <2>1, <2>2, Zenon
  <2> QED
    BY <2>3 DEF Places, BootPoints, SleepPoints
<1>5. SleeperHasCpu
  BY DEF Init, SleeperHasCpu
<1>6. LockNeverLeaks /\ InterruptsComeBack
  BY DEF Init, LockNeverLeaks, CommandRuns, InterruptsComeBack
<1> QED
  BY <1>1, <1>2, <1>3, <1>4, <1>5, <1>6 DEF IndInv

\* Every step of the boot code, of a thread and of the timer keeps IndInv.
LEMMA NextIndInv == IndInv /\ [Next]_vars => IndInv'
<1> SUFFICES ASSUME IndInv, [Next]_vars PROVE IndInv'
  OBVIOUS
<1> USE SchedulerAssumption DEF Threads, Contexts, Boot, NoThread, Lost,
        At, Goto, ring, timer, CommandRuns
<1>1. CASE BootLoad
  <2>1. TypeOK'
    BY <1>1 DEF BootLoad, IndInv, TypeOK, BootPoints
  <2>2. RingShape' /\ RunningSet' /\ Stacks'
    BY <1>1 DEF BootLoad, IndInv, RingShape, Created, RunningSet, Stacks
  <2>3. Places'
    BY <1>1 DEF BootLoad, IndInv, TypeOK, Places, BootPoints,
       ThreadPoints, SleepPoints
  <2>4. SleeperHasCpu' /\ LockNeverLeaks' /\ InterruptsComeBack'
    BY <1>1 DEF BootLoad, IndInv, TypeOK, Places, SleeperHasCpu,
       LockNeverLeaks, InterruptsComeBack, BootPoints, ThreadPoints,
       SleepPoints
  <2> QED
    BY <2>1, <2>2, <2>3, <2>4 DEF IndInv
<1>2. CASE InitTimer
  <2>1. TypeOK'
    <3>1. timer_tenths' \in 0 .. Forced
      BY <1>2 DEF InitTimer
    <3>2. irq0' \in BOOLEAN /\ is_sleeping' \in BOOLEAN
      BY <1>2 DEF InitTimer
    <3> QED
      BY <1>2, <3>1, <3>2 DEF InitTimer, IndInv, TypeOK, BootPoints
  <2>2. RingShape' /\ RunningSet' /\ Stacks'
    BY <1>2 DEF InitTimer, IndInv, RingShape, Created, RunningSet, Stacks
  <2>3. Places'
    BY <1>2 DEF InitTimer, IndInv, TypeOK, Places, BootPoints,
       ThreadPoints, SleepPoints
  <2>4. SleeperHasCpu' /\ LockNeverLeaks' /\ InterruptsComeBack'
    BY <1>2 DEF InitTimer, IndInv, TypeOK, Places, SleeperHasCpu,
       LockNeverLeaks, InterruptsComeBack, BootPoints, ThreadPoints,
       SleepPoints
  <2> QED
    BY <2>1, <2>2, <2>3, <2>4 DEF IndInv
<1>3. CASE FilesReady
  <2>1. TypeOK'
    BY <1>3 DEF FilesReady, IndInv, TypeOK, BootPoints
  <2>2. RingShape' /\ RunningSet' /\ Stacks'
    BY <1>3 DEF FilesReady, IndInv, RingShape, Created, RunningSet, Stacks
  <2>3. Places'
    BY <1>3 DEF FilesReady, IndInv, TypeOK, Places, BootPoints,
       ThreadPoints, SleepPoints
  <2>4. SleeperHasCpu' /\ LockNeverLeaks' /\ InterruptsComeBack'
    BY <1>3 DEF FilesReady, IndInv, TypeOK, Places, SleeperHasCpu,
       LockNeverLeaks, InterruptsComeBack, BootPoints, ThreadPoints,
       SleepPoints
  <2> QED
    BY <2>1, <2>2, <2>3, <2>4 DEF IndInv
<1>4. CASE StartThread
  <2>1. TypeOK' /\ RingShape'
    <3>1. CASE thread_root = NoThread
      <4>1. next_tid = 1
        BY <1>4, <3>1 DEF IndInv, TypeOK, RingShape
      <4>2. TypeOK'
        <5>1. /\ next_tid \in Threads /\ thread_root' = next_tid
              /\ next' = [next EXCEPT ![next_tid] = next_tid]
              /\ prev' = prev /\ next_tid' = next_tid + 1
              /\ saved_esp' = [saved_esp EXCEPT ![next_tid] = next_tid]
              /\ iflag' = TRUE
          BY <1>4, <3>1 DEF StartThread, Link
        <5>2. /\ thread_root' \in Threads /\ next_tid' \in 1 .. N + 1
              /\ next' \in [Threads -> {NoThread} \cup Threads]
              /\ prev' \in [Threads -> {NoThread} \cup Threads]
              /\ saved_esp' \in [Threads -> 0 .. N + 1]
          BY <5>1 DEF IndInv, TypeOK
        <5> QED
          BY <1>4, <5>1, <5>2 DEF StartThread, IndInv, TypeOK
      <4>3. RingShape'
        BY <1>4, <3>1, <4>1 DEF StartThread, Link, IndInv, TypeOK, RingShape,
           Created
      <4> QED
        BY <4>2, <4>3
    <3>2. CASE thread_root # NoThread
      <4>1. thread_root = 1 /\ next_tid > 1 /\ Tail = next_tid - 1
        BY <3>2, TailIsLast DEF IndInv, TypeOK, RingShape
      <4>2. /\ next' = [next EXCEPT ![next_tid - 1] = next_tid,
                                    ![next_tid] = 1]
            /\ prev' = [prev EXCEPT ![next_tid] = next_tid - 1,
                                    ![1] = next_tid]
            /\ thread_root' = 1
            /\ next_tid' = next_tid + 1
            /\ next_tid \in 1 .. N
        BY <1>4, <3>2, <4>1 DEF StartThread, Link
      <4>3. /\ next \in [Threads -> {NoThread} \cup Threads]
            /\ prev \in [Threads -> {NoThread} \cup Threads]
            /\ next_tid \in 2 .. N
        BY <4>1, <4>2 DEF IndInv, TypeOK
      <4>4. \A t \in Threads :
               next'[t] = IF t = next_tid THEN 1
                          ELSE IF t = next_tid - 1 THEN next_tid
                          ELSE next[t]
        BY <4>2, <4>3
      <4>5. \A t \in Threads :
               prev'[t] = IF t = 1 THEN next_tid
                          ELSE IF t = next_tid THEN next_tid - 1
                          ELSE prev[t]
        BY <4>2, <4>3
      <4>6. TypeOK'
        <5>1. next' \in [Threads -> {NoThread} \cup Threads]
          BY <4>2, <4>3
        <5>2. prev' \in [Threads -> {NoThread} \cup Threads]
          BY <4>2, <4>3
        <5>3. saved_esp' \in [Threads -> 0 .. N + 1]
          BY <1>4 DEF StartThread, IndInv, TypeOK
        <5>4. iflag' \in BOOLEAN
          BY <1>4 DEF StartThread
        <5>5. thread_root' \in {NoThread} \cup Threads /\ next_tid' \in 1 .. N + 1
          BY <4>2
        <5> QED
          BY <1>4, <5>1, <5>2, <5>3, <5>4, <5>5
          DEF StartThread, IndInv, TypeOK
      <4>7. RingShape'
        <5>1. \A t \in Created' :
                 next'[t] = IF t = next_tid' - 1 THEN 1 ELSE t + 1
          BY <4>1, <4>2, <4>3, <4>4 DEF IndInv, RingShape, Created
        <5>2. \A t \in Created' :
                 prev'[t] = IF t = 1 THEN next_tid' - 1 ELSE t - 1
          <6>1. CASE next_tid = 2
            BY <4>2, <4>3, <4>5, <6>1 DEF Created
          <6>2. CASE next_tid > 2
            BY <4>1, <4>2, <4>3, <4>5, <6>2 DEF IndInv, RingShape, Created
          <6> QED
            BY <4>3, <6>1, <6>2
        <5>3. next_tid' # 1 /\ thread_root' = 1
          BY <4>2, <4>3
        <5> QED
          BY <5>1, <5>2, <5>3 DEF RingShape, Created
      <4> QED
        BY <4>6, <4>7
    <3> QED
      BY <3>1, <3>2
  <2>2. RunningSet' /\ Stacks'
    BY <1>4 DEF StartThread, IndInv, TypeOK, RunningSet, Stacks
  <2>3. Places' /\ SleeperHasCpu' /\ LockNeverLeaks' /\ InterruptsComeBack'
    BY <1>4 DEF StartThread, IndInv, Places, SleeperHasCpu, LockNeverLeaks,
       InterruptsComeBack
  <2> QED
    BY <2>1, <2>2, <2>3 DEF IndInv
<1>5. CASE ThreadsReady
  <2>1. TypeOK' /\ RingShape' /\ Stacks'
    <3>1. TypeOK'
      BY <1>5 DEF ThreadsReady, IndInv, TypeOK, BootPoints
    <3>2. RingShape'
      BY <1>5 DEF ThreadsReady, IndInv, RingShape, Created
    <3>3. Stacks'
      BY <1>5 DEF ThreadsReady, IndInv, TypeOK, Stacks
    <3> QED
      BY <3>1, <3>2, <3>3
  <2>2. RunningSet'
    BY <1>5 DEF ThreadsReady, IndInv, TypeOK, RingShape, RunningSet, Stacks
  <2>3. Places'
    BY <1>5 DEF ThreadsReady, IndInv, TypeOK, Places, BootPoints,
       ThreadPoints, SleepPoints
  <2>4. SleeperHasCpu' /\ LockNeverLeaks' /\ InterruptsComeBack'
    BY <1>5 DEF ThreadsReady, IndInv, TypeOK, SleeperHasCpu, LockNeverLeaks,
       InterruptsComeBack, SleepPoints
  <2> QED
    BY <2>1, <2>2, <2>3, <2>4 DEF IndInv
<1>6. CASE StartDisplay
  <2>1. TypeOK'
    BY <1>6 DEF StartDisplay, IndInv, TypeOK, BootPoints
  <2>2. RingShape' /\ RunningSet' /\ Stacks'
    BY <1>6 DEF StartDisplay, IndInv, RingShape, Created, RunningSet, Stacks
  <2>3. Places'
    BY <1>6 DEF StartDisplay, IndInv, TypeOK, Places, BootPoints,
       ThreadPoints, SleepPoints
  <2>4. SleeperHasCpu' /\ LockNeverLeaks' /\ InterruptsComeBack'
    BY <1>6 DEF StartDisplay, IndInv, TypeOK, Places, SleeperHasCpu,
       LockNeverLeaks, InterruptsComeBack, BootPoints, ThreadPoints,
       SleepPoints
  <2> QED
    BY <2>1, <2>2, <2>3, <2>4 DEF IndInv
<1>7. CASE EnableInterrupts
  <2>1. TypeOK'
    BY <1>7 DEF EnableInterrupts, IndInv, TypeOK, BootPoints
  <2>2. RingShape' /\ RunningSet' /\ Stacks'
    BY <1>7 DEF EnableInterrupts, IndInv, RingShape, Created, RunningSet, Stacks
  <2>3. Places'
    BY <1>7 DEF EnableInterrupts, IndInv, TypeOK, Places, BootPoints,
       ThreadPoints, SleepPoints
  <2>4. SleeperHasCpu' /\ LockNeverLeaks' /\ InterruptsComeBack'
    BY <1>7 DEF EnableInterrupts, IndInv, TypeOK, Places, SleeperHasCpu,
       LockNeverLeaks, InterruptsComeBack, BootPoints, ThreadPoints,
       SleepPoints
  <2> QED
    BY <2>1, <2>2, <2>3, <2>4 DEF IndInv
<1>8. CASE SurfaceLock
  <2>1. TypeOK'
    BY <1>8 DEF SurfaceLock, SchedulerLock, IndInv, TypeOK, ThreadPoints
  <2>2. RingShape' /\ RunningSet' /\ Stacks'
    BY <1>8 DEF SurfaceLock, IndInv, RingShape, Created, RunningSet, Stacks
  <2>3. Places'
    BY <1>8 DEF SurfaceLock, IndInv, TypeOK, Places, BootPoints,
       ThreadPoints, SleepPoints
  <2>4. SleeperHasCpu' /\ LockNeverLeaks' /\ InterruptsComeBack'
    BY <1>8 DEF SurfaceLock, SchedulerLock, IndInv, TypeOK, Places, SleeperHasCpu,
       LockNeverLeaks, InterruptsComeBack, BootPoints, ThreadPoints,
       SleepPoints
  <2> QED
    BY <2>1, <2>2, <2>3, <2>4 DEF IndInv
<1>9. CASE SurfaceUnlock
  <2>1. TypeOK'
    BY <1>9 DEF SurfaceUnlock, SchedulerUnlock, IndInv, TypeOK, ThreadPoints
  <2>2. RingShape' /\ RunningSet' /\ Stacks'
    BY <1>9 DEF SurfaceUnlock, IndInv, RingShape, Created, RunningSet, Stacks
  <2>3. Places'
    BY <1>9 DEF SurfaceUnlock, IndInv, TypeOK, Places, BootPoints,
       ThreadPoints, SleepPoints
  <2>4. SleeperHasCpu' /\ LockNeverLeaks' /\ InterruptsComeBack'
    BY <1>9 DEF SurfaceUnlock, SchedulerUnlock, IndInv, TypeOK, Places, SleeperHasCpu,
       LockNeverLeaks, InterruptsComeBack, BootPoints, ThreadPoints,
       SleepPoints
  <2> QED
    BY <2>1, <2>2, <2>3, <2>4 DEF IndInv
<1>10. CASE SurfaceYield
  <2>1. TypeOK'
    BY <1>10 DEF SurfaceYield, SchedulerUnlock, IndInv, TypeOK, ThreadPoints
  <2>2. RingShape' /\ RunningSet' /\ Stacks'
    BY <1>10 DEF SurfaceYield, IndInv, RingShape, Created, RunningSet, Stacks
  <2>3. Places'
    BY <1>10 DEF SurfaceYield, IndInv, TypeOK, Places, BootPoints,
       ThreadPoints, SleepPoints
  <2>4. SleeperHasCpu' /\ LockNeverLeaks' /\ InterruptsComeBack'
    BY <1>10 DEF SurfaceYield, SchedulerUnlock, IndInv, TypeOK, Places, SleeperHasCpu,
       LockNeverLeaks, InterruptsComeBack, BootPoints, ThreadPoints,
       SleepPoints
  <2> QED
    BY <2>1, <2>2, <2>3, <2>4 DEF IndInv
<1>11. CASE ForceSwitch
  <2>1. TypeOK'
    BY <1>11 DEF ForceSwitch, IndInv, TypeOK, ThreadPoints
  <2>2. RingShape' /\ RunningSet' /\ Stacks'
    BY <1>11 DEF ForceSwitch, IndInv, RingShape, Created, RunningSet, Stacks
  <2>3. Places'
    BY <1>11 DEF ForceSwitch, IndInv, TypeOK, Places, BootPoints,
       ThreadPoints, SleepPoints
  <2>4. SleeperHasCpu' /\ LockNeverLeaks' /\ InterruptsComeBack'
    BY <1>11 DEF ForceSwitch, IndInv, TypeOK, Places, SleeperHasCpu,
       LockNeverLeaks, InterruptsComeBack, BootPoints, ThreadPoints,
       SleepPoints
  <2> QED
    BY <2>1, <2>2, <2>3, <2>4 DEF IndInv
<1>12. CASE ParseLock
  <2>1. TypeOK'
    BY <1>12 DEF ParseLock, SchedulerLock, IndInv, TypeOK, ThreadPoints
  <2>2. RingShape' /\ RunningSet' /\ Stacks'
    BY <1>12 DEF ParseLock, IndInv, RingShape, Created, RunningSet, Stacks
  <2>3. Places'
    BY <1>12 DEF ParseLock, IndInv, TypeOK, Places, BootPoints,
       ThreadPoints, SleepPoints
  <2>4. SleeperHasCpu' /\ LockNeverLeaks' /\ InterruptsComeBack'
    BY <1>12 DEF ParseLock, SchedulerLock, IndInv, TypeOK, Places, SleeperHasCpu,
       LockNeverLeaks, InterruptsComeBack, BootPoints, ThreadPoints,
       SleepPoints
  <2> QED
    BY <2>1, <2>2, <2>3, <2>4 DEF IndInv
<1>13. CASE ParseUnlock
  <2>1. TypeOK'
    BY <1>13 DEF ParseUnlock, SchedulerUnlock, IndInv, TypeOK, ThreadPoints
  <2>2. RingShape' /\ RunningSet' /\ Stacks'
    BY <1>13 DEF ParseUnlock, IndInv, RingShape, Created, RunningSet, Stacks
  <2>3. Places'
    BY <1>13 DEF ParseUnlock, IndInv, TypeOK, Places, BootPoints,
       ThreadPoints, SleepPoints
  <2>4. SleeperHasCpu' /\ LockNeverLeaks' /\ InterruptsComeBack'
    BY <1>13 DEF ParseUnlock, SchedulerUnlock, IndInv, TypeOK, Places, SleeperHasCpu,
       LockNeverLeaks, InterruptsComeBack, BootPoints, ThreadPoints,
       SleepPoints
  <2> QED
    BY <2>1, <2>2, <2>3, <2>4 DEF IndInv
<1>14. ASSUME NEW c \in Contexts, ReadDeadline(c) PROVE IndInv'
  <2>1. TypeOK'
    BY <1>14 DEF ReadDeadline, Caller, IndInv, TypeOK, SleepPoints
  <2>2. RingShape' /\ RunningSet' /\ Stacks'
    BY <1>14 DEF ReadDeadline, IndInv, RingShape, Created, RunningSet, Stacks
  <2>3. Places'
    BY <1>14 DEF ReadDeadline, Caller, IndInv, TypeOK, Places, BootPoints,
       ThreadPoints, SleepPoints
  <2>4. SleeperHasCpu' /\ LockNeverLeaks' /\ InterruptsComeBack'
    BY <1>14 DEF ReadDeadline, Caller, IndInv, TypeOK, Places, SleeperHasCpu,
       LockNeverLeaks, InterruptsComeBack, BootPoints, ThreadPoints,
       SleepPoints
  <2> QED
    BY <2>1, <2>2, <2>3, <2>4 DEF IndInv
<1>15. ASSUME NEW c \in Contexts, SetSleeping(c) PROVE IndInv'
  <2>1. TypeOK'
    BY <1>15 DEF SetSleeping, IndInv, TypeOK, SleepPoints
  <2>2. RingShape' /\ RunningSet' /\ Stacks'
    BY <1>15 DEF SetSleeping, IndInv, RingShape, Created, RunningSet, Stacks
  <2>3. Places'
    BY <1>15 DEF SetSleeping, IndInv, TypeOK, Places, BootPoints,
       ThreadPoints, SleepPoints
  <2>4. SleeperHasCpu' /\ LockNeverLeaks' /\ InterruptsComeBack'
    BY <1>15 DEF SetSleeping, IndInv, TypeOK, Places, SleeperHasCpu,
       LockNeverLeaks, InterruptsComeBack, BootPoints, ThreadPoints,
       SleepPoints
  <2> QED
    BY <2>1, <2>2, <2>3, <2>4 DEF IndInv
<1>16. ASSUME NEW c \in Contexts, LeaveSleepLoop(c) PROVE IndInv'
  <2>1. TypeOK'
    BY <1>16 DEF LeaveSleepLoop, IndInv, TypeOK, SleepPoints
  <2>2. RingShape' /\ RunningSet' /\ Stacks'
    BY <1>16 DEF LeaveSleepLoop, IndInv, RingShape, Created, RunningSet, Stacks
  <2>3. Places'
    BY <1>16 DEF LeaveSleepLoop, IndInv, TypeOK, Places, BootPoints,
       ThreadPoints, SleepPoints
  <2>4. SleeperHasCpu' /\ LockNeverLeaks' /\ InterruptsComeBack'
    BY <1>16 DEF LeaveSleepLoop, IndInv, TypeOK, Places, SleeperHasCpu,
       LockNeverLeaks, InterruptsComeBack, BootPoints, ThreadPoints,
       SleepPoints
  <2> QED
    BY <2>1, <2>2, <2>3, <2>4 DEF IndInv
<1>17. ASSUME NEW c \in Contexts, ClearSleeping(c) PROVE IndInv'
  <2>1. TypeOK'
    BY <1>17 DEF ClearSleeping, Caller, IndInv, TypeOK, BootPoints, ThreadPoints
  <2>2. RingShape' /\ RunningSet' /\ Stacks'
    BY <1>17 DEF ClearSleeping, IndInv, RingShape, Created, RunningSet, Stacks
  <2>3. Places'
    BY <1>17 DEF ClearSleeping, Caller, IndInv, TypeOK, Places, BootPoints,
       ThreadPoints, SleepPoints
  <2>4. SleeperHasCpu' /\ LockNeverLeaks' /\ InterruptsComeBack'
    BY <1>17 DEF ClearSleeping, Caller, IndInv, TypeOK, Places, SleeperHasCpu,
       LockNeverLeaks, InterruptsComeBack, BootPoints, ThreadPoints,
       SleepPoints
  <2> QED
    BY <2>1, <2>2, <2>3, <2>4 DEF IndInv
<1>18. CASE TickSwitch
  <2> USE <1>18 DEF TickSwitch
  <2>1. ~is_sleeping /\ sp # Lost
    BY DEF SwitchDue, IrqTaken
  <2>2. left' \in [Contexts -> 0 .. MaxSleep]
    BY DEF TimerCounts, CountDown, IndInv, TypeOK
  <2>3. CASE SetContext
    <3>1. sp' \in {1, Lost} /\ started' /\ iflag' /\ saved_esp' = saved_esp
      BY <2>3 DEF SetContext, IndInv, RunningSet
    <3>2. TypeOK'
      <4>1. sp' \in 0 .. N + 1 /\ timer_tenths' \in 0 .. Forced
        BY <3>1
      <4>2. started' \in BOOLEAN /\ iflag' \in BOOLEAN
        BY <2>3 DEF SetContext
      <4> QED
        BY <2>2, <2>3, <4>1, <4>2 DEF SetContext, IndInv, TypeOK
    <3>9. RingShape'
      BY DEF IndInv, RingShape, Created
    <3>3. RunningSet' /\ Stacks'
      BY <2>3, <3>1 DEF SetContext, IndInv, TypeOK, RunningSet, Stacks
    <3>4. Places' /\ LockNeverLeaks'
      BY DEF IndInv, Places, LockNeverLeaks
    <3>5. SleeperHasCpu'
      BY <2>1, <2>3, <3>1 DEF IndInv, Places, SleeperHasCpu, SleepPoints,
         BootPoints, SetContext, TypeOK
    <3>6. InterruptsComeBack'
      BY <3>1 DEF InterruptsComeBack
    <3> QED
      BY <3>2, <3>3, <3>4, <3>5, <3>6, <3>9 DEF IndInv
  <2>4. CASE SwitchContext
    <3>1. sp = thread_running /\ sp \in Threads /\ next_tid = N + 1
      BY <2>1, <2>4 DEF SwitchContext, IndInv, TypeOK, Stacks, RunningSet
    <3>2. next[sp] \in Threads /\ prev[next[sp]] = sp
      BY <3>1, FullRing DEF IndInv
    <3>3. /\ sp' = next[sp] /\ thread_running' = next[sp]
          /\ saved_esp' = saved_esp /\ iflag' /\ started' /\ started
      <4>1. saved_esp' = [SaveFrame EXCEPT ![sp] = sp]
        BY <2>4, <3>1, <3>2 DEF SwitchContext
      <4>2. saved_esp' = saved_esp
        BY <3>1, <4>1 DEF SaveFrame, IndInv, TypeOK, Stacks
      <4> QED
        BY <2>4, <3>1, <3>2, <4>2
        DEF SwitchContext, IndInv, TypeOK, Stacks
    <3>4. TypeOK'
      <4>1. sp' \in 0 .. N + 1 /\ timer_tenths' \in 0 .. Forced
        BY <3>2, <3>3
      <4>2. started' \in BOOLEAN /\ iflag' \in BOOLEAN
        BY <2>4 DEF SwitchContext, IndInv, TypeOK
      <4> QED
        BY <2>2, <3>2, <3>3, <4>1, <4>2 DEF IndInv, TypeOK
    <3>9. RingShape'
      BY DEF IndInv, RingShape, Created
    <3>5. RunningSet' /\ Stacks'
      BY <3>1, <3>2, <3>3 DEF IndInv, TypeOK, RunningSet, Stacks
    <3>6. Places' /\ LockNeverLeaks'
      BY DEF IndInv, Places, LockNeverLeaks
    <3>7. SleeperHasCpu'
      BY <2>1, <3>1, <3>2, <3>3 DEF IndInv, SleeperHasCpu, TypeOK
    <3>8. InterruptsComeBack'
      BY <3>3 DEF InterruptsComeBack
    <3> QED
      BY <3>4, <3>5, <3>6, <3>7, <3>8, <3>9 DEF IndInv
  <2> QED
    BY <2>3, <2>4 DEF SchedulerNext
<1>19. CASE Tick
  <2>1. TypeOK'
    <3>1. left' \in [Contexts -> 0 .. MaxSleep]
      BY <1>19 DEF Tick, TimerCounts, CountDown, IndInv, TypeOK
    <3>2. timer_tenths' \in 0 .. Forced
      BY <1>19 DEF Tick, IndInv, TypeOK
    <3> QED
      BY <1>19, <3>1, <3>2 DEF Tick, IndInv, TypeOK
  <2>2. RingShape' /\ RunningSet' /\ Stacks'
    BY <1>19 DEF Tick, IndInv, RingShape, Created, RunningSet, Stacks
  <2>3. Places' /\ SleeperHasCpu' /\ LockNeverLeaks' /\ InterruptsComeBack'
    BY <1>19 DEF Tick, IndInv, Places, SleeperHasCpu, LockNeverLeaks,
       InterruptsComeBack
  <2> QED
    BY <2>1, <2>2, <2>3 DEF IndInv
<1>20. CASE UNCHANGED vars
  <2>1. TypeOK'
    BY <1>20 DEF vars, IndInv, TypeOK
  <2>2. RingShape' /\ RunningSet' /\ Stacks'
    BY <1>20 DEF vars, IndInv, RingShape, Created, RunningSet, Stacks
  <2>3. Places' /\ SleeperHasCpu' /\ LockNeverLeaks' /\ InterruptsComeBack'
    BY <1>20 DEF vars, IndInv, Places, SleeperHasCpu, LockNeverLeaks,
       InterruptsComeBack
  <2> QED
    BY <2>1, <2>2, <2>3 DEF IndInv
<1>21. ASSUME NEW t \in Threads, Allocate(t) PROVE IndInv'
  <2>1. TypeOK'
    BY <1>21 DEF Allocate, IndInv, TypeOK
  <2>2. RingShape' /\ RunningSet' /\ Stacks'
    BY <1>21 DEF Allocate, IndInv, RingShape, Created, RunningSet, Stacks
  <2>3. Places' /\ SleeperHasCpu' /\ LockNeverLeaks'
    BY <1>21 DEF Allocate, IndInv, Places, SleeperHasCpu, LockNeverLeaks
  <2>4. InterruptsComeBack'
    BY <1>21 DEF Allocate, InterruptsComeBack
  <2> QED
    BY <2>1, <2>2, <2>3, <2>4 DEF IndInv
<1>22. CASE AllocateNothing
  <2>1. TypeOK'
    BY <1>22 DEF AllocateNothing, IndInv, TypeOK
  <2>2. RingShape' /\ RunningSet' /\ Stacks'
    BY <1>22 DEF AllocateNothing, IndInv, RingShape, Created, RunningSet,
       Stacks
  <2>3. Places' /\ SleeperHasCpu' /\ LockNeverLeaks'
    BY <1>22 DEF AllocateNothing, IndInv, Places, SleeperHasCpu,
       LockNeverLeaks
  <2>4. InterruptsComeBack'
    BY <1>22 DEF AllocateNothing, Allocates, InterruptsComeBack
  <2> QED
    BY <2>1, <2>2, <2>3, <2>4 DEF IndInv
<1> QED
  BY <1>1, <1>2, <1>3, <1>4, <1>5, <1>6, <1>7, <1>8, <1>9, <1>10, <1>11,
     <1>12, <1>13, <1>14, <1>15, <1>16, <1>17, <1>18, <1>19, <1>20, <1>21,
     <1>22
  DEF Next, Vmalloc, KernelMain, SurfaceUpdate, Sleep, TimerIrq, FaultAgain

\* What IndInv says of the state at every moment of every execution.
THEOREM Invariance == Spec => []IndInv
<1>1. Init => IndInv
  BY InitIndInv
<1>2. IndInv /\ [Next]_vars => IndInv'
  BY NextIndInv
<1> QED
  BY <1>1, <1>2, PTL DEF Spec

\* Type correctness, for any number of threads and any slice.
THEOREM TypeCorrect == Spec => []TypeOK
<1>1. IndInv => TypeOK
  BY DEF IndInv
<1> QED
  BY Invariance, <1>1, PTL

\* A thread only ever runs on its own stack: start_thread's ring makes
\* thread_running->prev the thread that Scheduler::next leaves.
THEOREM StackSafety == Spec => []OwnStack
<1>1. IndInv => OwnStack
  BY SchedulerAssumption
  DEF IndInv, TypeOK, Stacks, OwnStack, Boot, Lost, Threads
<1> QED
  BY Invariance, <1>1, PTL

\* The ring is doubly linked at every moment of its construction and after.
THEOREM RingDoublyLinked == Spec => []DoublyLinked
<1>1. IndInv => DoublyLinked
  <2> SUFFICES ASSUME IndInv, next_tid > 2, NEW t \in Created
               PROVE  next[t] \in Created /\ prev[next[t]] = t
    BY DEF DoublyLinked
  <2>1. next_tid \in 3 .. N + 1
    BY SchedulerAssumption DEF IndInv, TypeOK
  <2>2. next[t] = IF t = next_tid - 1 THEN 1 ELSE t + 1
    BY <2>1 DEF IndInv, RingShape
  <2>3. next[t] \in Created
    BY <2>1, <2>2 DEF Created
  <2>4. prev[next[t]] = IF next[t] = 1 THEN next_tid - 1 ELSE next[t] - 1
    BY <2>1, <2>3 DEF IndInv, RingShape
  <2> QED
    BY <2>1, <2>2, <2>3, <2>4 DEF Created
<1> QED
  BY Invariance, <1>1, PTL

\* The one is_sleeping flag always belongs to the context that has the CPU.
THEOREM SleepSafety == Spec => []SleeperHasCpu
<1>1. IndInv => SleeperHasCpu
  BY DEF IndInv
<1> QED
  BY Invariance, <1>1, PTL

\* lock() of the scheduler is never left behind: someone is still inside.
THEOREM LockIsGivenBack == Spec => []LockNeverLeaks
<1>1. IndInv => LockNeverLeaks
  BY DEF IndInv
<1> QED
  BY Invariance, <1>1, PTL

\* Once threads run the interrupt flag is off only where surface_update has
\* switched it off, or in the tty thread behind a vmalloc(0), which never
\* reaches another thread: whoever the timer hands the CPU to may be
\* interrupted again.
THEOREM InterruptsGivenBack == Spec => []InterruptsComeBack
<1>1. IndInv => InterruptsComeBack
  BY DEF IndInv
<1> QED
  BY Invariance, <1>1, PTL

-----------------------------------------------------------------------------
(* Scheduler implements RoundRobin *)

\* Every step of the kernel is a step of the abstract scheduler or leaves the
\* turn alone.
LEMMA TurnStep == IndInv /\ [Next]_vars => [RR!Next]_Turn
<1> SUFFICES ASSUME IndInv, [Next]_vars PROVE [RR!Next]_Turn
  OBVIOUS
<1> USE SchedulerAssumption DEF Threads, Boot, NoThread, Lost
<1>1. CASE TickSwitch
  <2>1. sp # Lost
    BY <1>1 DEF TickSwitch, IrqTaken
  <2>2. CASE SetContext
    <3>1. Turn = 0
      BY <2>2 DEF SetContext, Turn
    <3>2. Turn' \in {0, 1}
      BY <2>2 DEF SetContext, Turn, IndInv, RunningSet
    <3> QED
      BY <3>1, <3>2 DEF RR!Next, RR!First
  <2>3. CASE SwitchContext
    <3>1. sp = thread_running /\ sp \in Threads /\ next_tid = N + 1
      BY <2>1, <2>3 DEF SwitchContext, IndInv, TypeOK, Stacks, RunningSet
    <3>2. /\ next[sp] = IF sp = N THEN 1 ELSE sp + 1
          /\ next[sp] \in Threads
          /\ prev[next[sp]] = sp
      BY <3>1, FullRing DEF IndInv
    <3>3. saved_esp' = saved_esp
      <4>1. saved_esp' = [SaveFrame EXCEPT ![sp] = sp]
        BY <2>3, <3>1, <3>2 DEF SwitchContext
      <4> QED
        BY <3>1, <4>1 DEF SaveFrame, IndInv, TypeOK, Stacks
    <3>4. sp' = next[sp] /\ started' /\ started
      BY <2>3, <3>1, <3>2, <3>3 DEF SwitchContext, IndInv, Stacks
    <3>5. Turn = sp /\ Turn' = next[sp] /\ Turn # 0
      BY <2>1, <3>1, <3>2, <3>4 DEF Turn
    <3> QED
      BY <3>2, <3>5 DEF RR!Next, RR!Rotate, RR!Successor
  <2> QED
    BY <1>1, <2>2, <2>3 DEF TickSwitch, SchedulerNext
<1>2. CASE ~TickSwitch
  <2>1. UNCHANGED <<sp, started>>
    BY <1>2 DEF Next, KernelMain, SurfaceUpdate, Sleep, TimerIrq, FaultAgain,
       BootLoad, InitTimer, FilesReady, StartThread, ThreadsReady,
       StartDisplay, EnableInterrupts, SurfaceLock, SurfaceUnlock,
       SurfaceYield, ForceSwitch, ParseLock, ParseUnlock, Vmalloc, Allocate,
       AllocateNothing, ReadDeadline,
       SetSleeping, LeaveSleepLoop, ClearSleeping, Tick, vars
  <2> QED
    BY <2>1 DEF Turn
<1> QED
  BY <1>1, <1>2

\* Scheduling is round robin in creation order: no thread is skipped, none
\* runs twice in a row, and the first one created is the first to run.
THEOREM ImplementsRoundRobin == Spec => RoundRobinSpec
<1>1. Init => RR!Init
  BY DEF Init, RR!Init, Turn
<1>2. IndInv /\ [Next]_vars => [RR!Next]_Turn
  BY TurnStep
<1> QED
  BY <1>1, <1>2, Invariance, PTL DEF Spec, RoundRobinSpec, RR!Spec

-----------------------------------------------------------------------------
(* Under the interrupt controllers *)


LEMMA CodeIsScheduled == Code => Next
BY DEF Code, Next

LEMMA IrqIsScheduled == \A n \in Lines : Irq(n) => [Next]_vars
BY DEF Irq, Handle, Next

LEMMA StepIsScheduled ==
  ASSUME [InterruptsNext]_allVars
  PROVE  [Next]_vars
<1>1. CASE \E n \in Lines : Raise(n)
  BY <1>1 DEF Raise
<1>2. CASE \E n \in Lines : Irq(n)
  BY <1>2, IrqIsScheduled
<1>3. CASE \E n \in Lines : IrqWithoutGate(n)
  BY <1>3 DEF IrqWithoutGate
<1>4. CASE Spurious
  BY <1>4 DEF Spurious
<1>5. CASE Code
  BY <1>5, CodeIsScheduled
<1>6. CASE UNCHANGED allVars
  BY <1>6 DEF allVars
<1> QED
  BY <1>1, <1>2, <1>3, <1>4, <1>5, <1>6 DEF InterruptsNext

\* Whatever the devices raise, and whatever isr_handler makes of it, threads
\* are switched as in the module Scheduler.
THEOREM ImplementsScheduler == InterruptsSpec => Spec
<1>1. InterruptsInit => Init
  BY DEF InterruptsInit
<1>2. [InterruptsNext]_allVars => [Next]_vars
  BY StepIsScheduled
<1> QED
  BY <1>1, <1>2, PTL DEF InterruptsSpec, Spec

\* So every thread keeps its own stack whatever interrupts arrive ...
THEOREM StacksUnderInterrupts == InterruptsSpec => []OwnStack
BY ImplementsScheduler, StackSafety, PTL

\* ... and they are switched in the order of the ring.
THEOREM RoundRobinUnderInterrupts == InterruptsSpec => RoundRobinSpec
BY ImplementsScheduler, ImplementsRoundRobin

-----------------------------------------------------------------------------
(* What stays in service *)

\* At most line 10, which has no gate, and with it the cascade.
OnlyWithoutGate ==
  /\ in_service \in [Pic -> SUBSET (0 .. 15)]
  /\ in_service[1] \subseteq {Cascade}
  /\ in_service[2] \subseteq {10}

LEMMA LineIsNumber == \A n \in Lines : n \in 0 .. 15 /\ n # Cascade
BY DevicesAssumption DEF Lines, TimerLine, Cascade

\* A line that comes before all that are in service is the one that is ended.
LEMMA EndsTheLine ==
  ASSUME NEW S \in SUBSET (0 .. 15), NEW m \in 0 .. 15,
         \A k \in S : m < k
  PROVE  Ended(S \cup {m}) = S
<1>1. \A k \in S \cup {m} : m <= k
  OBVIOUS
<1>2. \A x \in S \cup {m} : (\A k \in S \cup {m} : x <= k) => x = m
  OBVIOUS
<1>3. First(S \cup {m}) = m
  BY <1>1, <1>2 DEF First
<1>4. m \notin S
  OBVIOUS
<1> QED
  BY <1>3, <1>4 DEF Ended

LEMMA StepKeepsOnlyWithoutGate ==
  ASSUME OnlyWithoutGate, InterruptsNext
  PROVE  OnlyWithoutGate'
<1>1. ASSUME NEW n \in Lines, Irq(n)
      PROVE  OnlyWithoutGate'
  <2> DEFINE m == IF n < 8 THEN n ELSE Cascade
             busy == [p \in Pic |-> in_service[p] \cup LinesOf(n)[p]]
  <2>1. n \in 0 .. 15 /\ m \in 0 .. 15
    BY LineIsNumber DEF Cascade
  <2>2. /\ LinesOf(n)[1] = {m}
        /\ n < 8 => LinesOf(n)[2] = {}
        /\ n >= 8 => LinesOf(n)[2] = {n}
    <3>1. LinesOf(n)[1] = {m} /\ LinesOf(n)[2] = {n} \cap (8 .. 15)
      BY DEF LinesOf, Pic
    <3>2. n < 8 => n \notin 8 .. 15
      BY <2>1
    <3>3. n >= 8 => n \in 8 .. 15
      BY <2>1
    <3> HIDE DEF m
    <3> QED
      BY <3>1, <3>2, <3>3
  <2>3. /\ \A k \in in_service[1] : m < k
        /\ n >= 8 => \A k \in in_service[2] : n < k
    BY <1>1, <2>2 DEF Irq, Offered, Unmasked, Pic
  <2>4. Ended(busy[1]) = in_service[1]
    <3>1. in_service[1] \in SUBSET (0 .. 15) /\ busy[1] = in_service[1] \cup {m}
      BY <2>2 DEF OnlyWithoutGate, Pic
    <3> HIDE DEF m, busy
    <3> QED
      BY <2>1, <2>3, <3>1, EndsTheLine
  <2>5. n < 8 => busy[2] = in_service[2]
    BY <2>2 DEF Pic
  <2>6. n >= 8 => Ended(busy[2]) = in_service[2]
    <3>1. in_service[2] \in SUBSET (0 .. 15)
      BY DEF OnlyWithoutGate, Pic
    <3>2. n >= 8 => busy[2] = in_service[2] \cup {n}
      BY <2>2 DEF Pic
    <3> HIDE DEF m, busy
    <3> QED
      BY <2>1, <2>3, <3>1, <3>2, EndsTheLine
  <2>7. n < 8 <=> Gate(IRQ0 + n) < IRQ0 + 8
    BY <1>1, <2>1 DEF Irq, Gate, IRQ0, NoGate
  <2>8. in_service' = EndOfInterrupt(Gate(IRQ0 + n), busy)
    BY <1>1 DEF Irq
  <2>9. in_service' = in_service
    <3>1. CASE n < 8
      BY <3>1, <2>4, <2>5, <2>7, <2>8 DEF EndOfInterrupt, OnlyWithoutGate, Pic
    <3>2. CASE n >= 8
      BY <3>2, <2>1, <2>4, <2>6, <2>7, <2>8 DEF EndOfInterrupt, OnlyWithoutGate, Pic
    <3> QED
      BY <3>1, <3>2, <2>1
  <2> QED
    BY <2>9 DEF OnlyWithoutGate
<1>2. ASSUME NEW n \in Lines, IrqWithoutGate(n)
      PROVE  OnlyWithoutGate'
  <2>1. n = 10
    BY <1>2, LineIsNumber DEF IrqWithoutGate, Gate, IRQ0, NoGate
  <2> QED
    BY <1>2, <2>1 DEF IrqWithoutGate, OnlyWithoutGate, LinesOf, Pic, Cascade
<1>3. CASE Spurious
  <2>1. \A S : Ended(S) \subseteq S
    BY DEF Ended
  <2> QED
    BY <1>3, <2>1 DEF Spurious, EndOfInterrupt, OnlyWithoutGate, Pic, IRQ0
<1>4. CASE \E n \in Lines : Raise(n)
  BY <1>4 DEF Raise, OnlyWithoutGate
<1>5. CASE Code
  BY <1>5 DEF Code, pic, OnlyWithoutGate
<1> QED
  BY <1>1, <1>2, <1>3, <1>4, <1>5 DEF InterruptsNext

\* isr_handler ends every interrupt before a handler can leave it for another
\* thread: outside of a handler no line is in service, whatever the devices
\* raise, but for line 10, and so the timer and the keyboard are never kept
\* back.
THEOREM NothingStaysInService == InterruptsSpec => []OnlyWithoutGate
<1>1. InterruptsInit => OnlyWithoutGate
  BY DEF InterruptsInit, OnlyWithoutGate, Pic
<1>2. OnlyWithoutGate /\ [InterruptsNext]_allVars => OnlyWithoutGate'
  <2>1. CASE InterruptsNext
    BY <2>1, StepKeepsOnlyWithoutGate
  <2>2. CASE UNCHANGED allVars
    BY <2>2 DEF allVars, pic, OnlyWithoutGate
  <2> QED
    BY <2>1, <2>2
<1> QED
  BY <1>1, <1>2, PTL DEF InterruptsSpec
=============================================================================
