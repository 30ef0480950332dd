--------------------------- MODULE SpinlockMutex ---------------------------
(***************************************************************************)
(* SpinlockMutex and Locker, kernel/proc/mutex.cpp and                     *)
(* include/kernel/proc/mutex.hpp, shared by threads that the timer may     *)
(* switch between any two loads and stores.  A thread locks with its own   *)
(* id, or with the id that BaseSurface::scrollUp uses for "ALL threads".   *)
(***************************************************************************)
EXTENDS Naturals, FiniteSets

CONSTANTS Thread,        \* the threads that share the mutex
          AllThreads,    \* the id -1
          NoOwner        \* the id 0

ASSUME MutexAssumption == AllThreads \notin Thread /\ NoOwner \notin Thread
                            /\ AllThreads # NoOwner

VARIABLES interlock,     \* the lock word
          l_threadid,    \* the id of the owner
          pc,            \* per thread: where it is in Lock, TryLock, Unlock
          id,            \* per thread: the id it locks with
          raced          \* history: a thread passed the test of Lock while
                         \* another one had not finished Lock or Unlock

vars == <<interlock, l_threadid, pc, id, raced>>

Goto(t, point) == pc' = [pc EXCEPT ![t] = point]

Init ==
  /\ interlock = 0
  /\ l_threadid = NoOwner
  /\ pc = [t \in Thread |-> "idle"]
  /\ id = [t \in Thread |-> t]
  /\ raced = FALSE

\* The constructor of a Locker calls Lock.
CallLock(t) ==
  /\ pc[t] = "idle"
  /\ \E n \in {t, AllThreads} : id' = [id EXCEPT ![t] = n]
  /\ Goto(t, "spin")
  /\ UNCHANGED <<interlock, l_threadid, raced>>

\* TryLock: Lock is called, and may spin, when nobody owned the mutex ...
TryLock(t) ==
  /\ pc[t] = "idle"
  /\ l_threadid = NoOwner
  /\ id' = [id EXCEPT ![t] = t]
  /\ Goto(t, "spin")
  /\ UNCHANGED <<interlock, l_threadid, raced>>

\* ... and otherwise it returns false.
TryLockFails(t) ==
  /\ pc[t] = "idle"
  /\ l_threadid # NoOwner
  /\ UNCHANGED vars

\* Between the test of Lock and its last store, or between the two stores of
\* Unlock.
Unfinished(t) == pc[t] \in {"own", "claim", "disown"}

\* A Lock that does not wait.
PassAnyway(t) ==
  /\ pc[t] = "spin"
  /\ raced' = (raced \/ \E u \in Thread \ {t} : Unfinished(u))
  /\ Goto(t, "own")
  /\ UNCHANGED <<interlock, l_threadid, id>>

\* while (interlock) { }: one more turn ...
Spin(t) ==
  /\ pc[t] = "spin"
  /\ interlock = 1
  /\ UNCHANGED vars

\* ... and the way out.
PassTest(t) ==
  /\ pc[t] = "spin"
  /\ interlock = 0
  /\ raced' = (raced \/ \E u \in Thread \ {t} : Unfinished(u))
  /\ Goto(t, "own")
  /\ UNCHANGED <<interlock, l_threadid, id>>

\* A Lock that does not record who owns the mutex.
SetNoOwner(t) ==
  /\ pc[t] = "own"
  /\ Goto(t, "claim")
  /\ UNCHANGED <<interlock, l_threadid, id, raced>>

\* l_threadid = thread_id
SetOwner(t) ==
  /\ pc[t] = "own"
  /\ l_threadid' = id[t]
  /\ Goto(t, "claim")
  /\ UNCHANGED <<interlock, id, raced>>

\* interlock = 1; Lock returns
SetInterlock(t) ==
  /\ pc[t] = "claim"
  /\ interlock' = 1
  /\ Goto(t, "inside")
  /\ UNCHANGED <<l_threadid, id, raced>>

\* The destructor of the Locker calls Unlock: if (l_threadid == thread_id)
CallUnlock(t) ==
  /\ pc[t] = "inside"
  /\ Goto(t, IF l_threadid = id[t] THEN "free" ELSE "idle")
  /\ UNCHANGED <<interlock, l_threadid, id, raced>>

\* interlock = 0
ClearInterlock(t) ==
  /\ pc[t] = "free"
  /\ interlock' = 0
  /\ Goto(t, "disown")
  /\ UNCHANGED <<l_threadid, id, raced>>

\* l_threadid = 0; Unlock returns
ClearOwner(t) ==
  /\ pc[t] = "disown"
  /\ l_threadid' = NoOwner
  /\ Goto(t, "idle")
  /\ UNCHANGED <<interlock, id, raced>>

Step(t) == \/ CallLock(t) \/ TryLock(t) \/ TryLockFails(t) \/ Spin(t)
           \/ PassTest(t) \/ SetOwner(t) \/ SetInterlock(t)
           \/ CallUnlock(t) \/ ClearInterlock(t) \/ ClearOwner(t)

Next == \E t \in Thread : Step(t)

Spec == Init /\ [][Next]_vars

-----------------------------------------------------------------------------
(* Properties *)

Points == {"idle", "spin", "own", "claim", "inside", "free", "disown"}

TypeOK ==
  /\ interlock \in {0, 1}
  /\ l_threadid \in Thread \cup {AllThreads, NoOwner}
  /\ pc \in [Thread -> Points]
  /\ id \in [Thread -> Thread \cup {AllThreads}]
  /\ raced \in BOOLEAN

Holds(t) == pc[t] \in {"inside", "free"}

Exclusive == \A t, u \in Thread : Holds(t) /\ Holds(u) => t = u

\* The mutex excludes as long as no thread passes the test of Lock inside
\* one of the windows of another: those windows are the only way in.
ExclusiveUnlessRaced == raced \/ Exclusive

\* ... and it is never left locked with nobody to unlock it: whoever holds
\* it is recorded as its owner, so the test of Unlock succeeds.
UnlockableUnlessRaced ==
  raced \/ /\ interlock = 1 <=> \E t \in Thread : Holds(t)
           /\ \A t \in Thread : Holds(t) => l_threadid = id[t]
=============================================================================
