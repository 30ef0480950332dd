---------------------------- MODULE PortsProofs ----------------------------
(***************************************************************************)
(* Proofs about the postbox, kernel/proc/message.cpp, and its mutex, for   *)
(* any threads, ports and messages.                                        *)
(*                                                                         *)
(* SpinlockMutex and Ports: what the mutex guarantees although its test    *)
(* and its stores are separate instructions; that the table of ports uses  *)
(* it as SpinlockMutex says, so whoever changes the table is alone; and    *)
(* what that makes of the searches that take no lock.                      *)
(*                                                                         *)
(* Postbox: what one port forwards although neither push nor pop takes a   *)
(* lock and wrap() is wrong.                                               *)
(***************************************************************************)
EXTENDS Ports, Postbox, Integers, SequenceTheorems, FiniteSetTheorems,
        WellFoundedInduction, TLAPS

-----------------------------------------------------------------------------
(* The mutex *)

\* From the test of Lock to the last store of Unlock.
Engaged(t) == pc[t] \in {"own", "claim", "inside", "free", "disown"}

\* Without a race one thread at a time is engaged, and the lock word and the
\* owner follow it through Lock and Unlock.
OneAtATime ==
  /\ \A t, u \in Thread : Engaged(t) /\ Engaged(u) => t = u
  /\ \A t \in Thread : Holds(t) => interlock = 1 /\ l_threadid = id[t]
  /\ \A t \in Thread : Unfinished(t) => interlock = 0
  /\ \A t \in Thread : pc[t] = "claim" => l_threadid = id[t]
  /\ interlock = 1 => \E t \in Thread : Holds(t)

MutexInv == TypeOK /\ (raced \/ OneAtATime)

LEMMA MutexInit == Init => MutexInv
<1> SUFFICES ASSUME Init PROVE MutexInv
  OBVIOUS
<1>1. TypeOK
  BY MutexAssumption DEF Init, TypeOK, Points
<1>2. \A t \in Thread : pc[t] = "idle"
  BY DEF Init
<1>3. OneAtATime
  BY <1>2 DEF Init, OneAtATime, Engaged, Holds, Unfinished
<1> QED
  BY <1>1, <1>3 DEF MutexInv

\* A step of one thread keeps MutexInv.
LEMMA MutexStep ==
  ASSUME MutexInv, NEW t \in Thread, Step(t)
  PROVE  MutexInv'
<1> USE MutexAssumption DEF Goto
<1>1. TypeOK'
  <2>1. CASE CallLock(t)
    BY <2>1 DEF CallLock, MutexInv, TypeOK, Points
  <2>2. CASE TryLock(t)
    BY <2>2 DEF TryLock, MutexInv, TypeOK, Points
  <2>3. CASE TryLockFails(t) \/ Spin(t)
    BY <2>3 DEF TryLockFails, Spin, vars, MutexInv, TypeOK
  <2>4. CASE PassTest(t)
    BY <2>4 DEF PassTest, MutexInv, TypeOK, Points
  <2>5. CASE SetOwner(t)
    BY <2>5 DEF SetOwner, MutexInv, TypeOK, Points
  <2>6. CASE SetInterlock(t)
    BY <2>6 DEF SetInterlock, MutexInv, TypeOK, Points
  <2>7. CASE CallUnlock(t)
    BY <2>7 DEF CallUnlock, MutexInv, TypeOK, Points
  <2>8. CASE ClearInterlock(t)
    BY <2>8 DEF ClearInterlock, MutexInv, TypeOK, Points
  <2>9. CASE ClearOwner(t)
    BY <2>9 DEF ClearOwner, MutexInv, TypeOK, Points
  <2> QED
    BY <2>1, <2>2, <2>3, <2>4, <2>5, <2>6, <2>7, <2>8, <2>9 DEF Step
<1>2. raced => raced'
  BY DEF Step, CallLock, TryLock, TryLockFails, Spin, PassTest, SetOwner,
     SetInterlock, CallUnlock, ClearInterlock, ClearOwner, vars
<1>3. ASSUME ~raced' PROVE OneAtATime'
  <2>1. OneAtATime /\ TypeOK
    BY <1>2, <1>3 DEF MutexInv
  <2> USE <2>1 DEF OneAtATime, TypeOK, Engaged, Holds, Unfinished
  <2>2. CASE CallLock(t) \/ TryLock(t)
    BY <2>2 DEF CallLock, TryLock
  <2>3. CASE TryLockFails(t) \/ Spin(t)
    BY <2>3 DEF TryLockFails, Spin, vars
  <2>4. CASE PassTest(t)
    <3>1. \A u \in Thread \ {t} : ~Engaged(u)
      <4>1. \A u \in Thread \ {t} : ~Unfinished(u)
        BY <1>3, <2>4 DEF PassTest
      <4>2. \A u \in Thread : ~Holds(u)
        BY <2>4 DEF PassTest
      <4> QED
        BY <4>1, <4>2
    <3> QED
      BY <2>4, <3>1 DEF PassTest
  <2>5. CASE SetOwner(t)
    BY <2>5 DEF SetOwner
  <2>6. CASE SetInterlock(t)
    BY <2>6 DEF SetInterlock
  <2>7. CASE CallUnlock(t)
    BY <2>7 DEF CallUnlock
  <2>8. CASE ClearInterlock(t)
    BY <2>8 DEF ClearInterlock
  <2>9. CASE ClearOwner(t)
    BY <2>9 DEF ClearOwner
  <2> QED
    BY <2>2, <2>3, <2>4, <2>5, <2>6, <2>7, <2>8, <2>9 DEF Step
<1> QED
  BY <1>1, <1>3 DEF MutexInv

\* The inductive invariant holds throughout.
THEOREM MutexInvariance == Spec => []MutexInv
<1>1. MutexInv /\ [Next]_vars => MutexInv'
  <2>1. ASSUME MutexInv, UNCHANGED vars PROVE MutexInv'
    BY <2>1 DEF vars, MutexInv, TypeOK, OneAtATime, Engaged, Holds, Unfinished
  <2> QED
    BY <2>1, MutexStep DEF Next
<1> QED
  BY <1>1, MutexInit, PTL DEF Spec

\* Type correctness for any set of threads.
THEOREM MutexTypes == Spec => []TypeOK
<1>1. MutexInv => TypeOK
  BY DEF MutexInv
<1> QED
  BY <1>1, MutexInvariance, PTL

\* Any number of threads exclude each other as long as none passes the test
\* of Lock while another is between test and store, or between the stores of
\* Unlock.
THEOREM Exclusion == Spec => []ExclusiveUnlessRaced
<1>1. MutexInv => ExclusiveUnlessRaced
  BY DEF MutexInv, OneAtATime, ExclusiveUnlessRaced, Exclusive, Engaged, Holds
<1> QED
  BY <1>1, MutexInvariance, PTL

\* Under the same condition the mutex is never left locked for ever: a
\* thread holds it, and its Unlock will succeed.
THEOREM Unlockable == Spec => []UnlockableUnlessRaced
<1>1. MutexInv => UnlockableUnlessRaced
  BY DEF MutexInv, OneAtATime, UnlockableUnlessRaced, TypeOK
<1> QED
  BY <1>1, MutexInvariance, PTL

-----------------------------------------------------------------------------
(* The mutex of the table *)

LEMMA LockSteps ==
  ASSUME NEW t \in Thread, LockTable(t) \/ UnlockTable(t)
  PROVE  Next
BY DEF LockTable, UnlockTable, Next, Step

LEMMA TableStepsKeepMutex ==
  ASSUME NEW t \in Users, TableStep(t)
  PROVE  UNCHANGED vars
<1>1. UNCHANGED mutex
  BY DEF TableStep, StartUse, StartListen, Search, LoadOther, Find, Compare,
         Use, ListenAgain, Grow, Store, Count
<1> QED
  BY <1>1 DEF mutex, vars

\* listen, its searches and its push_back take and release messaging_mutex as
\* Lock and Unlock allow.
THEOREM ImplementsMutex == PortsSpec => Spec
<1>1. PortsInit => Init
  BY DEF PortsInit
<1>2. [PortsNext]_allVars => [Next]_vars
  <2>1. ASSUME NEW t \in Users, PortsStep(t)
        PROVE  [Next]_vars
    BY <2>1, LockSteps, TableStepsKeepMutex DEF PortsStep
  <2>2. CASE UNCHANGED allVars
    BY <2>2 DEF allVars, mutex, vars
  <2> QED
    BY <2>1, <2>2 DEF PortsNext
<1> QED
  BY <1>1, <1>2, PTL DEF PortsSpec, Spec

\* The mutex of the table is never left locked, however searches, listens and
\* push_backs alternate, unless two threads met in Lock or Unlock.
THEOREM TableUnlockable == PortsSpec => []UnlockableUnlessRaced
BY ImplementsMutex, Unlockable, PTL

-----------------------------------------------------------------------------
(* Who changes the table *)

InPushBack(t) == at[t] \in {"store", "count"}

\* Whoever is in push_back is in listen, with the mutex.
StoresInListen ==
  /\ at \in [Users -> {"idle", "begin", "end", "find", "compare", "found",
                       "missing", "store", "count"}]
  /\ DOMAIN todo = Thread
  /\ \A t \in Users : InPushBack(t) => Listening(t)

LEMMA StepKeepsStoresInListen ==
  ASSUME TypeOK, StoresInListen, NEW t \in Users, PortsStep(t)
  PROVE  StoresInListen'
<1>1. CASE StartUse(t) \/ StartListen(t) \/ LoadOther(t) \/ Find(t) \/ Compare(t)
  BY <1>1 DEF StartUse, StartListen, Search, LoadOther, Find, Compare, Move,
     mutex, StoresInListen, InPushBack, Listening
<1>2. CASE Use(t)
  BY <1>2 DEF Use, Forget, Move, mutex, StoresInListen, InPushBack, Listening
<1>3. CASE ListenAgain(t)
  BY <1>3 DEF ListenAgain, Forget, Move, mutex, StoresInListen, InPushBack,
     Listening
<1>4. CASE Grow(t) \/ Store(t)
  BY <1>4 DEF Grow, Store, Move, mutex, StoresInListen, InPushBack, Listening
<1>5. CASE Count(t)
  BY <1>5 DEF Count, Forget, Move, mutex, StoresInListen, InPushBack, Listening
<1>6. CASE t \in Thread /\ LockTable(t)
  BY <1>6 DEF LockTable, CallLock, Spin, PassTest, SetOwner, SetInterlock, Goto,
     portVars, vars, TypeOK, StoresInListen, InPushBack, Listening
<1>7. CASE t \in Thread /\ UnlockTable(t)
  BY <1>7 DEF UnlockTable, CallUnlock, ClearInterlock, ClearOwner, Goto,
     portVars, vars, TypeOK, StoresInListen, InPushBack, Listening
<1> QED
  BY <1>1, <1>2, <1>3, <1>4, <1>5, <1>6, <1>7 DEF PortsStep, TableStep

\* push_back is not written for two threads: the copy, the store and the count
\* of one would mix with those of the other.  The mutex keeps them apart,
\* unless two threads met in Lock or Unlock.
PushBackAlone ==
  raced \/ \A t, u \in Users : InPushBack(t) /\ InPushBack(u) => t = u

THEOREM TableStoresAlone == PortsSpec => []PushBackAlone
<1>1. PortsInit => StoresInListen
  BY PortsAssumption DEF PortsInit, StoresInListen, InPushBack
<1>2. TypeOK /\ StoresInListen /\ [PortsNext]_allVars => StoresInListen'
  <2>1. CASE UNCHANGED allVars
    BY <2>1 DEF allVars, portVars, mutex, StoresInListen, InPushBack, Listening
  <2> QED
    BY <2>1, StepKeepsStoresInListen DEF PortsNext
<1>3. StoresInListen /\ ExclusiveUnlessRaced => PushBackAlone
  BY DEF StoresInListen, ExclusiveUnlessRaced, Exclusive, Holds, PushBackAlone,
     Listening
<1> QED
  BY <1>1, <1>2, <1>3, ImplementsMutex, MutexTypes, Exclusion, PTL DEF PortsSpec

-----------------------------------------------------------------------------
(* What the table and the searches are like as long as nobody raced *)

AnyPort == {NoPort} \cup Listened \cup UNION {Uses[t] : t \in Users}
AnyIterator == [memory : Nat, index : Nat]

TableShape ==
  /\ storage \in Seq(Seq({NoPort} \cup Listened))
  /\ buffer \in 1 .. Len(storage)
  /\ size \in 0 .. Capacity

SearchTypes ==
  /\ todo \in [Thread -> Seq(Listened)]
  /\ wanted \in [Users -> AnyPort]
  /\ first \in [Users -> AnyIterator]
  /\ last \in [Users -> AnyIterator]
  /\ element_it \in [Users -> AnyIterator]
  /\ known \in [Users -> BOOLEAN]
  /\ overlapped \in [Users -> BOOLEAN]

\* The ports in the table are those that were listened to, each of them once.
PortAt(n) == storage[buffer][n + 1]

TableContents ==
  /\ \A m, n \in 0 .. size - 1 : PortAt(m) = PortAt(n) => m = n
  /\ \A n \in 0 .. size - 1 :
       \E t \in Thread : \E i \in 1 .. Len(Listens[t]) - Len(todo[t]) :
         PortAt(n) = Listens[t][i]
  /\ \A t \in Thread : \A i \in 1 .. Len(Listens[t]) - Len(todo[t]) :
       \E n \in 0 .. size - 1 : PortAt(n) = Listens[t][i]

\* What is left to listen to is the end of the list.
TodoIsSuffix ==
  \A t \in Thread :
    /\ Len(todo[t]) <= Len(Listens[t])
    /\ \A i \in 1 .. Len(todo[t]) :
         todo[t][i] = Listens[t][Len(Listens[t]) - Len(todo[t]) + i]

\* A listener searches for the port it listens to, with the mutex, and
\* nothing changes the table but its own push_back.
Listeners ==
  \A t \in Thread :
    /\ at[t] # "idle" => Listening(t) \/ Ready(t)
    /\ at[t] # "idle" /\ Listening(t) => wanted[t] = Head(todo[t])
    /\ at[t] # "idle" /\ Listening(t) /\ ~InPushBack(t) => ~overlapped[t]

\* A port that is in a memory, at a place that was in the table already.
FoundAt(port, memory, n) ==
  /\ n \in 0 .. size - 1 /\ n < Len(storage[memory])
  /\ storage[memory][n + 1] = port

InTable(port) == \E n \in 0 .. size - 1 : PortAt(n) = port

RangeLength(from, to) == IF from.memory = to.memory THEN to.index
                                                    ELSE Len(storage[from.memory])

\* What a search knows at each of its points.
Begun(t) ==
  at[t] # "idle" =>
    /\ known[t] => InTable(wanted[t])
    /\ ~known[t] /\ ~overlapped[t] => ~InTable(wanted[t])

AtEnd(t) ==
  at[t] = "end" =>
    /\ first[t].memory \in 1 .. Len(storage)
    /\ known[t] => \E n \in 0 .. size - 1 : FoundAt(wanted[t], first[t].memory, n)
    /\ ~overlapped[t] => first[t] = Begin

AtBegin(t) ==
  at[t] = "begin" =>
    /\ last[t].index <= size
    /\ known[t] => \E n \in 0 .. last[t].index - 1 : PortAt(n) = wanted[t]
    /\ ~overlapped[t] => last[t] = End

AtFind(t) ==
  at[t] = "find" =>
    /\ first[t].memory \in 1 .. Len(storage)
    /\ known[t] => \E n \in 0 .. RangeLength(first[t], last[t]) - 1 :
                     FoundAt(wanted[t], first[t].memory, n)
    /\ ~overlapped[t] => first[t] = Begin /\ last[t] = End

Hits(t) == /\ element_it[t].memory \in 1 .. Len(storage)
           /\ FoundAt(wanted[t], element_it[t].memory, element_it[t].index)

AtCompare(t) ==
  at[t] = "compare" =>
    /\ known[t] => Hits(t)
    /\ ~known[t] /\ ~overlapped[t] => element_it[t] = End

Compared(t) ==
  /\ at[t] = "found" => (known[t] \/ overlapped[t]) /\ (known[t] => Hits(t))
  /\ at[t] = "missing" => ~known[t]

InSearch(t) == Begun(t) /\ AtEnd(t) /\ AtBegin(t) /\ AtFind(t) /\ AtCompare(t)
                 /\ Compared(t)

\* push_back has room, and stores a port that is not there yet.
PushesNew(t) ==
  /\ InPushBack(t) => size < Capacity /\ ~InTable(wanted[t])
  /\ at[t] = "count" => PortAt(size) = wanted[t]

TableOK ==
  /\ TableShape /\ SearchTypes /\ TodoIsSuffix /\ Listeners
  /\ TableContents
  /\ \A t \in Users : InSearch(t) /\ PushesNew(t)

TableInv == raced \/ TableOK

\* A port is registered if it is in a cell of the vector; what an iterator
\* into a memory points to.
LEMMA CellsOfTable ==
  ASSUME TableShape
  PROVE  /\ \A m \in 1 .. Len(storage) :
              /\ storage[m] \in Seq({NoPort} \cup Listened)
              /\ Len(storage[m]) \in Nat
              /\ \A n \in 0 .. Len(storage[m]) - 1 :
                   Cell(Iterator(m, n)) = storage[m][n + 1]
         /\ size \in Nat /\ Capacity \in Nat /\ size <= Capacity
         /\ Len(storage) \in Nat /\ buffer \in 1 .. Len(storage)
         /\ \A n \in 0 .. size - 1 : Cell(Iterator(buffer, n)) = PortAt(n)
         /\ \A port : port \in Registered <=> InTable(port)
<1>1. Len(storage) \in Nat /\ DOMAIN storage = 1 .. Len(storage)
  BY LenProperties DEF TableShape
<1>2. ASSUME NEW m \in 1 .. Len(storage)
      PROVE  /\ storage[m] \in Seq({NoPort} \cup Listened)
             /\ Len(storage[m]) \in Nat
             /\ \A n \in 0 .. Len(storage[m]) - 1 :
                  Cell(Iterator(m, n)) = storage[m][n + 1]
  <2>1. storage[m] \in Seq({NoPort} \cup Listened)
    BY ElementOfSeq DEF TableShape
  <2>2. Len(storage[m]) \in Nat /\ DOMAIN storage[m] = 1 .. Len(storage[m])
    BY <2>1, LenProperties
  <2>3. \A n \in 0 .. Len(storage[m]) - 1 :
           Cell(Iterator(m, n)) = storage[m][n + 1]
    BY <1>1, <2>2 DEF Cell, Iterator
  <2> QED
    BY <2>1, <2>2, <2>3
<1>3. /\ size \in Nat /\ Capacity \in Nat /\ size <= Capacity
      /\ buffer \in 1 .. Len(storage)
  BY <1>2 DEF TableShape, Capacity
<1>4. \A n \in 0 .. size - 1 : Cell(Iterator(buffer, n)) = PortAt(n)
  BY <1>2, <1>3 DEF Capacity, PortAt
<1>5. \A port : port \in Registered <=> InTable(port)
  BY <1>4 DEF Registered, InTable
<1> QED
  BY <1>1, <1>2, <1>3, <1>4, <1>5

\* Nothing is found at a place where there is nothing.
LEMMA EndOfTable ==
  ASSUME TableShape
  PROVE  Begin = [memory |-> buffer, index |-> 0]
         /\ End = [memory |-> buffer, index |-> size]
         /\ Begin \in AnyIterator /\ End \in AnyIterator
         /\ Wild \in AnyIterator
<1>1. buffer \in Nat /\ size \in Nat
  BY CellsOfTable
<1> QED
  BY <1>1 DEF Begin, End, Wild, Iterator, AnyIterator

LEMMA LeastHit ==
  ASSUME NEW S, S \subseteq Nat, S # {}
  PROVE  Min(S) \in S /\ \A n \in S : Min(S) <= n
<1> DEFINE R == OpToRel(<, Nat)
<1>1. PICK m \in S : \A n \in S : ~ (<<n, m>> \in R)
  <2> HIDE DEF R
  <2> QED
    BY NatLessThanWellFounded, WFMin DEF R
<1>2. \A n \in S : ~ (n < m)
  BY <1>1 DEF OpToRel
<1>3. \A n \in S : m <= n
  BY <1>2
<1> QED
  BY <1>3 DEF Min

-----------------------------------------------------------------------------
(* What the steps of others do to a search *)

\* A step of another thread that leaves the table alone.
LEMMA Untouched ==
  ASSUME NEW u \in Users, InSearch(u), PushesNew(u), UNCHANGED table,
         at'[u] = at[u], wanted'[u] = wanted[u], first'[u] = first[u],
         last'[u] = last[u], element_it'[u] = element_it[u],
         known'[u] = known[u], overlapped'[u] = overlapped[u]
  PROVE  InSearch(u)' /\ PushesNew(u)'
<1> USE DEF table, InTable, PortAt
<1>1. Begun(u)'
  BY DEF InSearch, Begun
<1>2. AtEnd(u)'
  BY DEF InSearch, AtEnd, FoundAt, Begin
<1>3. AtBegin(u)'
  BY DEF InSearch, AtBegin, End
<1>4. AtFind(u)'
  BY DEF InSearch, AtFind, FoundAt, RangeLength, Begin, End
<1>5. AtCompare(u)' /\ Compared(u)'
  BY DEF InSearch, AtCompare, Compared, Hits, FoundAt, End
<1>6. PushesNew(u)'
  BY DEF PushesNew, InPushBack, Capacity
<1> QED
  BY <1>1, <1>2, <1>3, <1>4, <1>5, <1>6 DEF InSearch

\* The vector keeps what it had, in every memory, when it changes.
Grown ==
  /\ size <= size' /\ Len(storage) <= Len(storage')
  /\ \A m \in 1 .. Len(storage) :
       /\ Len(storage'[m]) = Len(storage[m])
       /\ \A n \in 0 .. size - 1 :
            n < Len(storage[m]) => storage'[m][n + 1] = storage[m][n + 1]
  /\ \A n \in 0 .. size - 1 : PortAt(n)' = PortAt(n)

LEMMA Longer ==
  ASSUME NEW m \in Nat, NEW n \in Nat, m <= n
  PROVE  \A k \in 0 .. m - 1 : k \in 0 .. n - 1
OBVIOUS

\* A search goes on when the table grows under it: what it has found or can
\* still find stays where it is.
LEMMA Overtaken ==
  ASSUME NEW u \in Users, InSearch(u), Grown, TableShape, TableShape',
         SearchTypes,
         at'[u] = at[u], wanted'[u] = wanted[u], first'[u] = first[u],
         last'[u] = last[u], element_it'[u] = element_it[u],
         known'[u] = known[u], at[u] # "idle" => overlapped'[u]
  PROVE  InSearch(u)'
<1>1. /\ size \in Nat /\ size' \in Nat /\ size <= size'
      /\ Len(storage) \in Nat /\ Len(storage') \in Nat /\ Len(storage) <= Len(storage')
  BY CellsOfTable DEF Grown, TableShape
<1>2. \A n \in 0 .. size - 1 : n \in 0 .. size' - 1
  <2>1. size \in Nat /\ size' \in Nat /\ size <= size'
    BY <1>1
  <2> QED
    BY <2>1, Longer
<1>3. InTable(wanted[u]) => InTable(wanted[u])'
  BY <1>2 DEF InTable, Grown
<1>4. \A m \in 1 .. Len(storage), n \in 0 .. size - 1 :
         /\ m \in 1 .. Len(storage')
         /\ FoundAt(wanted[u], m, n) => FoundAt(wanted[u], m, n)'
  <2> SUFFICES ASSUME NEW m \in 1 .. Len(storage), NEW n \in 0 .. size - 1,
                      FoundAt(wanted[u], m, n)
               PROVE  FoundAt(wanted[u], m, n)'
    BY <1>1
  <2>1. n < Len(storage[m]) /\ storage[m][n + 1] = wanted[u]
    BY DEF FoundAt
  <2>2. Len(storage'[m]) = Len(storage[m]) /\ storage'[m][n + 1] = storage[m][n + 1]
    BY <2>1 DEF Grown
  <2>3. n \in 0 .. size' - 1
    BY <1>2
  <2> QED
    BY <2>1, <2>2, <2>3 DEF FoundAt
<1>5. Begun(u)'
  BY <1>3 DEF InSearch, Begun
<1>6. AtEnd(u)'
  <2>1. CASE at[u] = "end"
    <3>1. first[u].memory \in 1 .. Len(storage)
      BY <2>1 DEF InSearch, AtEnd
    <3>2. ASSUME known[u]
          PROVE  \E n \in 0 .. size' - 1 : FoundAt(wanted[u], first[u].memory, n)'
      <4>1. PICK n \in 0 .. size - 1 : FoundAt(wanted[u], first[u].memory, n)
        BY <2>1, <3>2 DEF InSearch, AtEnd
      <4>2. n \in 0 .. size' - 1
        BY <1>2, <4>1
      <4>3. FoundAt(wanted[u], first[u].memory, n)'
        BY <1>4, <3>1, <4>1
      <4> QED
        BY <4>2, <4>3
    <3>3. first'[u].memory \in 1 .. Len(storage')
      BY <1>1, <3>1
    <3>4. overlapped'[u] /\ known'[u] = known[u]
      BY <2>1
    <3>5. AtEnd(u)' <=> (at'[u] = "end" =>
              /\ first'[u].memory \in 1 .. Len(storage')
              /\ known'[u] => \E n \in 0 .. size' - 1 : FoundAt(wanted[u], first[u].memory, n)'
              /\ ~overlapped'[u] => first'[u] = Begin')
      BY DEF AtEnd
    <3> QED
      BY <3>2, <3>3, <3>4, <3>5
  <2> QED
    BY <2>1 DEF AtEnd
<1>7. AtBegin(u)'
  <2>1. last[u].index \in Nat
    BY DEF SearchTypes, AnyIterator
  <2>2. CASE at[u] = "begin"
    <3>1. last[u].index <= size
      BY <2>2 DEF InSearch, AtBegin
    <3>2. ASSUME known[u]
          PROVE  \E n \in 0 .. last[u].index - 1 : PortAt(n)' = wanted[u]
      <4>1. PICK n \in 0 .. last[u].index - 1 : PortAt(n) = wanted[u]
        BY <2>2, <3>2 DEF InSearch, AtBegin
      <4>2. n \in 0 .. size - 1
        BY <1>1, <2>1, <3>1
      <4>3. PortAt(n)' = wanted[u]
        BY <4>1, <4>2 DEF Grown
      <4> QED
        BY <4>3
    <3>3. last[u].index <= size'
      BY <1>1, <2>1, <3>1
    <3> QED
      BY <2>2, <3>2, <3>3 DEF AtBegin
  <2> QED
    BY <2>2 DEF AtBegin
<1>8. AtFind(u)'
  <2>1. CASE at[u] = "find"
    <3>1. RangeLength(first[u], last[u])' = RangeLength(first[u], last[u])
      BY <2>1 DEF InSearch, AtFind, RangeLength, Grown
    <3>2. first[u].memory \in 1 .. Len(storage)
      BY <2>1 DEF InSearch, AtFind
    <3>3. ASSUME known[u]
          PROVE  \E n \in 0 .. RangeLength(first[u], last[u]) - 1 :
                    FoundAt(wanted[u], first[u].memory, n)'
      <4>1. PICK n \in 0 .. RangeLength(first[u], last[u]) - 1 :
                    FoundAt(wanted[u], first[u].memory, n)
        BY <2>1, <3>3 DEF InSearch, AtFind
      <4>2. n \in 0 .. size - 1
        BY <4>1 DEF FoundAt
      <4>3. FoundAt(wanted[u], first[u].memory, n)'
        BY <1>4, <3>2, <4>1, <4>2
      <4> QED
        BY <4>3
    <3>4. first'[u].memory \in 1 .. Len(storage')
      BY <1>1, <3>2
    <3>5. overlapped'[u] /\ known'[u] = known[u]
      BY <2>1
    <3>6. AtFind(u)' <=> (at'[u] = "find" =>
              /\ first'[u].memory \in 1 .. Len(storage')
              /\ known'[u] => \E n \in 0 .. RangeLength(first[u], last[u])' - 1 :
                                FoundAt(wanted[u], first[u].memory, n)'
              /\ ~overlapped'[u] => first'[u] = Begin' /\ last'[u] = End')
      BY DEF AtFind
    <3> QED
      BY <3>1, <3>3, <3>4, <3>5, <3>6
  <2> QED
    BY <2>1 DEF AtFind
<1>9. Hits(u) => Hits(u)'
  BY <1>4 DEF Hits, FoundAt
<1>10. AtCompare(u)' /\ Compared(u)'
  BY <1>9 DEF InSearch, AtCompare, Compared
<1> QED
  BY <1>5, <1>6, <1>7, <1>8, <1>10 DEF InSearch

-----------------------------------------------------------------------------
(* The steps *)

LEMMA TableInit ==
  ASSUME PortsInit
  PROVE  TableOK
<1> USE DEF PortsInit
<1>1. TableShape
  <2>1. << >> \in Seq({NoPort} \cup Listened) /\ Len(<< >>) = 0
    BY EmptySeq
  <2>2. storage \in Seq(Seq({NoPort} \cup Listened)) /\ Len(storage) = 1
    BY <2>1
  <2>3. Capacity = 0
    BY <2>1 DEF Capacity
  <2> QED
    BY <2>2, <2>3 DEF TableShape
<1>2. SearchTypes
  <2>1. NoPort \in AnyPort /\ Wild \in AnyIterator
    BY DEF AnyPort, AnyIterator, Wild, Iterator
  <2> QED
    BY <2>1, PortsAssumption DEF SearchTypes
<1>3. \A t \in Thread : Len(Listens[t]) \in Nat /\ Len(todo[t]) = Len(Listens[t])
  BY PortsAssumption, LenProperties
<1>4. TodoIsSuffix
  BY <1>3 DEF TodoIsSuffix
<1>5. TableContents
  BY <1>3 DEF TableContents
<1>6. \A t \in Users : at[t] = "idle"
  OBVIOUS
<1>7. Listeners /\ \A t \in Users : InSearch(t) /\ PushesNew(t)
  BY <1>6 DEF Listeners, InSearch, Begun, AtEnd, AtBegin, AtFind, AtCompare,
              Compared, PushesNew, InPushBack, Users
<1> QED
  BY <1>1, <1>2, <1>4, <1>5, <1>7 DEF TableOK

\* A thread in Lock or Unlock does not search.
LEMMA LockStepKeeps ==
  ASSUME TableOK, TypeOK, NEW t \in Thread, LockTable(t) \/ UnlockTable(t)
  PROVE  TableOK'
<1>1. UNCHANGED portVars
  BY DEF LockTable, UnlockTable
<1>2. \A u \in Thread \ {t} : pc'[u] = pc[u]
  BY DEF LockTable, UnlockTable, CallLock, Spin, PassTest, SetOwner, SetInterlock,
         CallUnlock, ClearInterlock, ClearOwner, Goto, vars, TypeOK
<1>3. /\ TableShape' /\ SearchTypes' /\ TodoIsSuffix' /\ TableContents'
      /\ \A u \in Users : InSearch(u)' /\ PushesNew(u)'
  <2>1. TableShape' /\ SearchTypes' /\ TodoIsSuffix' /\ TableContents'
    <3>1. TableShape'
      BY <1>1 DEF TableOK, TableShape, Capacity, portVars
    <3>2. SearchTypes' /\ TodoIsSuffix'
      BY <1>1 DEF TableOK, SearchTypes, TodoIsSuffix, portVars
    <3>3. TableContents'
      BY <1>1 DEF TableOK, TableContents, PortAt, portVars
    <3> QED
      BY <3>1, <3>2, <3>3
  <2>2. ASSUME NEW u \in Users PROVE InSearch(u)' /\ PushesNew(u)'
    BY <1>1, Untouched DEF TableOK, portVars, table
  <2> QED
    BY <2>1, <2>2
<1>4. CASE UNCHANGED vars
  <2>1. Listeners'
    BY <1>1, <1>4 DEF TableOK, Listeners, Listening, Ready, InPushBack, portVars, vars
  <2> QED
    BY <2>1, <1>3 DEF TableOK
<1>5. CASE ~ UNCHANGED vars
  <2>1. at[t] = "idle"
    <3>1. ~Listening(t)
      BY <1>5 DEF LockTable, UnlockTable, CallLock, Spin, PassTest, SetOwner,
         SetInterlock, CallUnlock, ClearInterlock, ClearOwner, Listening
    <3>2. ~Ready(t)
      BY <1>5 DEF LockTable, UnlockTable, CallLock, Spin, PassTest, SetOwner,
         SetInterlock, CallUnlock, ClearInterlock, ClearOwner, Ready
    <3> QED
      BY <3>1, <3>2 DEF TableOK, Listeners
  <2>2. Listeners'
    BY <1>1, <1>2, <2>1 DEF TableOK, Listeners, Listening, Ready, InPushBack, portVars
  <2> QED
    BY <2>2, <1>3 DEF TableOK
<1> QED
  BY <1>4, <1>5

\* A step that leaves the table and what there is to listen to alone.
SearchStep(t) ==
  /\ UNCHANGED <<table, todo, mutex>>
  /\ SearchTypes'
  /\ \A u \in Users \ {t} :
       /\ at'[u] = at[u] /\ wanted'[u] = wanted[u] /\ first'[u] = first[u]
       /\ last'[u] = last[u] /\ element_it'[u] = element_it[u]
       /\ known'[u] = known[u] /\ overlapped'[u] = overlapped[u]
  /\ InSearch(t)' /\ ~InPushBack(t)'
  /\ at'[t] # "idle" /\ t \in Thread =>
       /\ Listening(t) \/ Ready(t)
       /\ Listening(t) => wanted'[t] = Head(todo[t]) /\ ~overlapped'[t]

LEMMA SearchStepKeeps ==
  ASSUME TableOK, NEW t \in Users, SearchStep(t)
  PROVE  TableOK'
<1>1. UNCHANGED <<table, todo, mutex>>
  BY DEF SearchStep
<1>2. TableShape' /\ TodoIsSuffix' /\ TableContents'
  <2>1. TableShape'
    BY <1>1 DEF TableOK, TableShape, Capacity, table
  <2>2. TodoIsSuffix'
    BY <1>1 DEF TableOK, TodoIsSuffix
  <2>3. TableContents'
    BY <1>1 DEF TableOK, TableContents, PortAt, table
  <2> QED
    BY <2>1, <2>2, <2>3
<1>3. Listeners'
  <2> SUFFICES ASSUME NEW u \in Thread, at'[u] # "idle"
               PROVE  /\ Listening(u)' \/ Ready(u)'
                      /\ Listening(u)' => wanted'[u] = Head(todo'[u])
                      /\ Listening(u)' /\ ~InPushBack(u)' => ~overlapped'[u]
    BY DEF Listeners
  <2>1. /\ Listening(u)' <=> Listening(u)
        /\ Ready(u)' <=> Ready(u)
    BY <1>1 DEF mutex, Listening, Ready
  <2>2. CASE u = t
    BY <1>1, <2>1, <2>2 DEF SearchStep
  <2>3. CASE u # t
    BY <1>1, <2>1, <2>3 DEF SearchStep, TableOK, Listeners, InPushBack, Users
  <2> QED
    BY <2>2, <2>3
<1>4. \A u \in Users : InSearch(u)' /\ PushesNew(u)'
  <2>1. ASSUME NEW u \in Users \ {t} PROVE InSearch(u)' /\ PushesNew(u)'
    BY <1>1, Untouched DEF SearchStep, TableOK
  <2>2. InSearch(t)' /\ PushesNew(t)'
    BY DEF SearchStep, PushesNew, InPushBack
  <2> QED
    BY <2>1, <2>2
<1> QED
  BY <1>2, <1>3, <1>4 DEF TableOK, SearchStep

\* A search begins: it knows whether its port is there.
LEMMA SearchBegins ==
  ASSUME TableOK, StoresInListen, NEW t \in Users, NEW port \in AnyPort,
         Search(t, port),
         t \in Thread => /\ Listening(t) \/ Ready(t)
                         /\ Listening(t) => port = Head(todo[t])
  PROVE  SearchStep(t)
<1>1. /\ UNCHANGED <<table, todo, mutex>> /\ element_it' = element_it
      /\ wanted' = [wanted EXCEPT ![t] = port]
      /\ known' = [known EXCEPT ![t] = port \in Registered]
      /\ overlapped' = [overlapped EXCEPT ![t] = FALSE]
  BY DEF Search
<1>2. /\ Begin \in AnyIterator /\ End \in AnyIterator
      /\ End.index = size /\ size \in Nat
  BY EndOfTable, CellsOfTable DEF TableOK
<1>3. /\ wanted'[t] = port /\ known'[t] = (port \in Registered) /\ ~overlapped'[t]
      /\ \A u \in Users \ {t} : /\ wanted'[u] = wanted[u] /\ known'[u] = known[u]
                                /\ overlapped'[u] = overlapped[u]
  BY <1>1 DEF TableOK, SearchTypes
<1>4. /\ wanted' \in [Users -> AnyPort] /\ known' \in [Users -> BOOLEAN]
      /\ overlapped' \in [Users -> BOOLEAN]
  BY <1>1 DEF TableOK, SearchTypes
<1>5. /\ InTable(port)' <=> InTable(port)
      /\ known'[t] <=> InTable(port)
  <2>1. InTable(port)' <=> InTable(port)
    BY <1>1 DEF table, InTable, PortAt
  <2>2. port \in Registered <=> InTable(port)
    BY CellsOfTable DEF TableOK
  <2> QED
    BY <1>3, <2>1, <2>2
<1>6. CASE first' = [first EXCEPT ![t] = Begin] /\ Move(t, "end") /\ last' = last
  <2>1. /\ first'[t] = Begin /\ at'[t] = "end"
        /\ \A u \in Users \ {t} : first'[u] = first[u] /\ at'[u] = at[u]
        /\ first' \in [Users -> AnyIterator]
    BY <1>2, <1>6 DEF TableOK, SearchTypes, StoresInListen, Move
  <2>2. AtEnd(t)'
    <3>1. Begin' = Begin /\ size' = size /\ storage' = storage /\ buffer' = buffer
      BY <1>1 DEF table, Begin
    <3>2. Begin.memory = buffer /\ buffer \in 1 .. Len(storage)
      BY CellsOfTable, EndOfTable DEF TableOK
    <3>3. ASSUME InTable(port)
          PROVE  \E n \in 0 .. size - 1 : FoundAt(port, buffer, n)
      BY <3>3, CellsOfTable DEF TableOK, InTable, FoundAt, PortAt, Capacity
    <3> QED
      BY <1>3, <1>5, <2>1, <3>1, <3>2, <3>3 DEF AtEnd, FoundAt
  <2>3. InSearch(t)'
    BY <1>3, <1>5, <2>1, <2>2
       DEF InSearch, Begun, AtBegin, AtFind, AtCompare, Compared
  <2>4. SearchTypes'
    BY <1>1, <1>4, <1>6, <2>1 DEF TableOK, SearchTypes
  <2>5. \A u \in Users \ {t} :
           /\ at'[u] = at[u] /\ wanted'[u] = wanted[u] /\ first'[u] = first[u]
           /\ last'[u] = last[u] /\ element_it'[u] = element_it[u]
           /\ known'[u] = known[u] /\ overlapped'[u] = overlapped[u]
    BY <1>1, <1>3, <1>6, <2>1
  <2>6. ~InPushBack(t)'
    BY <2>1 DEF InPushBack
  <2>7. t \in Thread => /\ Listening(t) \/ Ready(t)
                        /\ Listening(t) => wanted'[t] = Head(todo[t]) /\ ~overlapped'[t]
    BY <1>3
  <2>8. UNCHANGED <<table, todo, mutex>>
    BY <1>1
  <2> QED
    BY <2>3, <2>4, <2>5, <2>6, <2>7, <2>8 DEF SearchStep
<1>7. CASE last' = [last EXCEPT ![t] = End] /\ Move(t, "begin") /\ first' = first
  <2>1. /\ last'[t] = End /\ at'[t] = "begin"
        /\ \A u \in Users \ {t} : last'[u] = last[u] /\ at'[u] = at[u]
        /\ last' \in [Users -> AnyIterator]
    BY <1>2, <1>7 DEF TableOK, SearchTypes, StoresInListen, Move
  <2>2. AtBegin(t)'
    <3>1. End' = End /\ size' = size /\ storage' = storage /\ buffer' = buffer
      BY <1>1 DEF table, End
    <3> QED
      BY <1>2, <1>3, <1>5, <2>1, <3>1 DEF AtBegin, InTable, PortAt
  <2>3. InSearch(t)'
    BY <1>3, <1>5, <2>1, <2>2
       DEF InSearch, Begun, AtEnd, AtFind, AtCompare, Compared
  <2>4. SearchTypes'
    BY <1>1, <1>4, <1>7, <2>1 DEF TableOK, SearchTypes
  <2>5. \A u \in Users \ {t} :
           /\ at'[u] = at[u] /\ wanted'[u] = wanted[u] /\ first'[u] = first[u]
           /\ last'[u] = last[u] /\ element_it'[u] = element_it[u]
           /\ known'[u] = known[u] /\ overlapped'[u] = overlapped[u]
    BY <1>1, <1>3, <1>7, <2>1
  <2>6. ~InPushBack(t)'
    BY <2>1 DEF InPushBack
  <2>7. t \in Thread => /\ Listening(t) \/ Ready(t)
                        /\ Listening(t) => wanted'[t] = Head(todo[t]) /\ ~overlapped'[t]
    BY <1>3
  <2>8. UNCHANGED <<table, todo, mutex>>
    BY <1>1
  <2> QED
    BY <2>3, <2>4, <2>5, <2>6, <2>7, <2>8 DEF SearchStep
<1> QED
  BY <1>6, <1>7 DEF Search

\* begin() or end(), whichever was not called yet.
LEMMA RangeLoaded ==
  ASSUME TableOK, StoresInListen, NEW t \in Users, LoadOther(t)
  PROVE  SearchStep(t)
<1>1. /\ UNCHANGED <<table, todo, mutex, wanted, element_it, known, overlapped>>
      /\ at'[t] = "find" /\ \A u \in Users \ {t} : at'[u] = at[u]
  BY DEF LoadOther, Move, StoresInListen
<1>2. /\ Begin \in AnyIterator /\ End \in AnyIterator
      /\ Begin.memory = buffer /\ End.memory = buffer /\ End.index = size
      /\ size \in Nat /\ Capacity \in Nat /\ size <= Capacity
      /\ buffer \in 1 .. Len(storage)
  BY EndOfTable, CellsOfTable DEF TableOK
<1>3. /\ Begin' = Begin /\ End' = End /\ storage' = storage /\ size' = size
      /\ wanted' = wanted /\ known' = known /\ overlapped' = overlapped
  BY <1>1 DEF table, Begin, End
<1>4. /\ first' \in [Users -> AnyIterator] /\ last' \in [Users -> AnyIterator]
      /\ \A u \in Users \ {t} : first'[u] = first[u] /\ last'[u] = last[u]
  BY <1>2 DEF LoadOther, TableOK, SearchTypes
<1>5. AtFind(t)'
  <2>1. CASE at[t] = "end"
    <3>1. first'[t] = first[t] /\ last'[t] = End
      BY <2>1 DEF LoadOther, TableOK, SearchTypes
    <3>2. AtEnd(t)
      BY DEF TableOK, InSearch
    <3>3. \A n : FoundAt(wanted[t], first[t].memory, n) =>
                    n \in 0 .. RangeLength(first[t], End) - 1
      <4>1. first[t].memory \in 1 .. Len(storage)
        BY <2>1, <3>2 DEF AtEnd
      <4>2. Len(storage[first[t].memory]) \in Nat
        BY <4>1, CellsOfTable DEF TableOK
      <4> QED
        BY <1>2, <4>2 DEF FoundAt, RangeLength
    <3> QED
      BY <1>1, <1>3, <2>1, <3>1, <3>2, <3>3 DEF AtEnd, AtFind, FoundAt, RangeLength
  <2>2. CASE at[t] = "begin"
    <3>1. first'[t] = Begin /\ last'[t] = last[t]
      BY <2>2 DEF LoadOther, TableOK, SearchTypes
    <3>2. AtBegin(t) /\ last[t].index \in Nat
      BY DEF TableOK, InSearch, SearchTypes, AnyIterator
    <3>3. ASSUME NEW n \in 0 .. last[t].index - 1, PortAt(n) = wanted[t]
          PROVE  /\ n \in 0 .. RangeLength(Begin, last[t]) - 1
                 /\ FoundAt(wanted[t], Begin.memory, n)
      <4>1. n \in 0 .. size - 1 /\ n < Capacity
        BY <1>2, <2>2, <3>2 DEF AtBegin
      <4> QED
        BY <1>2, <3>2, <3>3, <4>1 DEF FoundAt, RangeLength, PortAt, Capacity
    <3> QED
      BY <1>1, <1>2, <1>3, <2>2, <3>1, <3>2, <3>3
         DEF AtBegin, AtFind, FoundAt, RangeLength
  <2> QED
    BY <2>1, <2>2 DEF LoadOther
<1>6. Begun(t)'
  BY <1>1, <1>3 DEF LoadOther, TableOK, InSearch, Begun, InTable, PortAt, table
<1>7. InSearch(t)'
  BY <1>1, <1>5, <1>6 DEF InSearch, AtEnd, AtBegin, AtCompare, Compared
<1>8. SearchTypes'
  BY <1>1, <1>4 DEF TableOK, SearchTypes
<1>9. at[t] \in {"end", "begin"}
  BY DEF LoadOther
<1> QED
  BY <1>1, <1>4, <1>7, <1>8, <1>9 DEF SearchStep, InPushBack, TableOK, Listeners

\* find_if meets the port if it was there, and reaches the end if it was not.
LEMMA PortFound ==
  ASSUME TableOK, StoresInListen, NEW t \in Users, Find(t)
  PROVE  SearchStep(t)
<1> DEFINE memory == first[t].memory
           length == RangeLength(first[t], last[t])
           hits == {n \in 0 .. length - 1 : Cell(Iterator(memory, n)) = wanted[t]}
           it == FindIf(first[t], last[t], wanted[t])
<1>1. /\ UNCHANGED <<table, todo, mutex, wanted, first, last, known, overlapped>>
      /\ at[t] = "find" /\ at'[t] = "compare"
      /\ \A u \in Users \ {t} : at'[u] = at[u]
  BY DEF Find, Move, StoresInListen
<1>2. it = IF hits # {} THEN Iterator(memory, Min(hits))
           ELSE IF first[t].memory = last[t].memory THEN last[t] ELSE Wild
  BY DEF FindIf, RangeLength
<1>3. AtFind(t) /\ memory \in 1 .. Len(storage) /\ Len(storage) \in Nat
  BY <1>1, CellsOfTable DEF TableOK, InSearch, AtFind
<1>4. hits # {} => /\ Min(hits) \in hits /\ \A n \in hits : Min(hits) <= n
                   /\ Min(hits) \in Nat
  <2>1. hits \subseteq Nat
    OBVIOUS
  <2> HIDE DEF hits
  <2> QED
    BY <2>1, LeastHit
<1>5. it \in AnyIterator
  <2>1. last[t] \in AnyIterator /\ Wild \in AnyIterator
    BY EndOfTable DEF TableOK, SearchTypes
  <2>2. hits # {} => Iterator(memory, Min(hits)) \in AnyIterator
    <3> HIDE DEF hits, memory
    <3> QED
      BY <1>3, <1>4 DEF Iterator, AnyIterator
  <2> HIDE DEF hits, it
  <2> QED
    BY <1>2, <2>1, <2>2
<1>6. /\ element_it' \in [Users -> AnyIterator] /\ element_it'[t] = it
      /\ \A u \in Users \ {t} : element_it'[u] = element_it[u]
  BY <1>5 DEF Find, TableOK, SearchTypes
<1>7. ASSUME known[t]
      PROVE  it.memory = memory /\ FoundAt(wanted[t], memory, it.index)
  <2>1. PICK n \in 0 .. length - 1 : FoundAt(wanted[t], memory, n)
    BY <1>1, <1>3, <1>7 DEF AtFind
  <2>2. \A k \in 0 .. Len(storage[memory]) - 1 :
           Cell(Iterator(memory, k)) = storage[memory][k + 1]
    BY <1>3, CellsOfTable DEF TableOK
  <2>3. /\ Len(storage[memory]) \in Nat /\ size \in Nat
        /\ n \in 0 .. size - 1 /\ n < Len(storage[memory])
    BY <1>3, <2>1, CellsOfTable DEF TableOK, FoundAt
  <2>4. n \in hits
    BY <2>1, <2>2, <2>3 DEF FoundAt
  <2> DEFINE least == Min(hits)
  <2>5. /\ least \in Nat /\ least <= n
        /\ Cell(Iterator(memory, least)) = wanted[t]
        /\ it = Iterator(memory, least)
    BY <1>2, <1>4, <2>4
  <2> HIDE DEF least, it, memory
  <2>6. least \in 0 .. size - 1 /\ least \in 0 .. Len(storage[memory]) - 1
    BY <2>3, <2>5
  <2>7. it.memory = memory /\ it.index = least
    BY <2>5 DEF Iterator
  <2> QED
    BY <2>2, <2>5, <2>6, <2>7 DEF FoundAt
<1>8. ASSUME ~known[t], ~overlapped[t] PROVE it = End
  <2>1. first[t] = Begin /\ last[t] = End
    BY <1>1, <1>3, <1>8 DEF AtFind
  <2>2. memory = buffer /\ length = size /\ first[t].memory = last[t].memory
    BY <2>1, EndOfTable DEF TableOK, RangeLength
  <2>3. ~InTable(wanted[t])
    BY <1>1, <1>8 DEF TableOK, InSearch, Begun
  <2>4. \A n \in 0 .. size - 1 : Cell(Iterator(buffer, n)) = PortAt(n)
    BY CellsOfTable DEF TableOK
  <2>5. hits = {}
    BY <2>2, <2>3, <2>4 DEF InTable
  <2> HIDE DEF hits, it
  <2> QED
    BY <1>2, <2>1, <2>2, <2>5
<1> HIDE DEF it, length, hits
<1>9. /\ storage' = storage /\ buffer' = buffer /\ size' = size /\ End' = End
      /\ known' = known /\ wanted' = wanted /\ overlapped' = overlapped
  BY <1>1 DEF table, End
<1>10. AtCompare(t)'
  BY <1>3, <1>6, <1>7, <1>8, <1>9 DEF AtCompare, Hits, FoundAt
<1>11. Begun(t)'
  BY <1>1, <1>9 DEF TableOK, InSearch, Begun, InTable, PortAt
<1>12. InSearch(t)'
  BY <1>1, <1>10, <1>11 DEF InSearch, AtEnd, AtBegin, AtFind, Compared
<1>13. SearchTypes'
  BY <1>1, <1>6 DEF TableOK, SearchTypes
<1> QED
  BY <1>1, <1>6, <1>12, <1>13 DEF SearchStep, InPushBack, TableOK, Listeners

\* The end of the vector is computed again; a hit is never there.
LEMMA PortCompared ==
  ASSUME TableOK, StoresInListen, NEW t \in Users, Compare(t)
  PROVE  SearchStep(t)
<1>1. /\ UNCHANGED <<table, todo, mutex, wanted, first, last, element_it, known,
                     overlapped>>
      /\ at[t] = "compare" /\ at'[t] = IF element_it[t] = End THEN "missing" ELSE "found"
      /\ \A u \in Users \ {t} : at'[u] = at[u]
  BY DEF Compare, Move, StoresInListen, search
<1>2. AtCompare(t) /\ Begun(t)
  BY DEF TableOK, InSearch
<1>3. Hits(t) => element_it[t] # End
  <2>1. End.index = size /\ size \in Nat
    BY EndOfTable, CellsOfTable DEF TableOK
  <2> QED
    BY <2>1 DEF Hits, FoundAt
<1>4. Hits(t) => Hits(t)'
  BY <1>1 DEF Hits, FoundAt, table
<1>5. Compared(t)'
  BY <1>1, <1>2, <1>3, <1>4 DEF AtCompare, Compared
<1>6. Begun(t)'
  BY <1>1, <1>2 DEF Begun, InTable, PortAt, table
<1>7. InSearch(t)'
  BY <1>1, <1>5, <1>6 DEF InSearch, AtEnd, AtBegin, AtFind, AtCompare
<1>8. SearchTypes'
  BY <1>1 DEF TableOK, SearchTypes
<1> QED
  BY <1>1, <1>7, <1>8 DEF SearchStep, InPushBack, TableOK, Listeners

\* What Forget leaves of a search.
LEMMA Forgotten ==
  ASSUME TableOK, StoresInListen, NEW t \in Users, Forget(t)
  PROVE  /\ at'[t] = "idle"
         /\ wanted' \in [Users -> AnyPort] /\ known' \in [Users -> BOOLEAN]
         /\ first' \in [Users -> AnyIterator] /\ last' \in [Users -> AnyIterator]
         /\ element_it' \in [Users -> AnyIterator]
         /\ \A u \in Users \ {t} :
              /\ at'[u] = at[u] /\ wanted'[u] = wanted[u] /\ first'[u] = first[u]
              /\ last'[u] = last[u] /\ element_it'[u] = element_it[u]
              /\ known'[u] = known[u]
         /\ InSearch(t)' /\ PushesNew(t)' /\ ~InPushBack(t)'
<1>1. Wild \in AnyIterator /\ NoPort \in AnyPort
  BY EndOfTable DEF TableOK, AnyPort
<1>2. /\ at'[t] = "idle"
      /\ wanted' \in [Users -> AnyPort] /\ known' \in [Users -> BOOLEAN]
      /\ first' \in [Users -> AnyIterator] /\ last' \in [Users -> AnyIterator]
      /\ element_it' \in [Users -> AnyIterator]
  BY <1>1 DEF Forget, Move, StoresInListen, TableOK, SearchTypes
<1>3. \A u \in Users \ {t} :
         /\ at'[u] = at[u] /\ wanted'[u] = wanted[u] /\ first'[u] = first[u]
         /\ last'[u] = last[u] /\ element_it'[u] = element_it[u]
         /\ known'[u] = known[u]
  BY DEF Forget, Move, StoresInListen, TableOK, SearchTypes
<1>4. InSearch(t)' /\ PushesNew(t)' /\ ~InPushBack(t)'
  BY <1>2 DEF InSearch, Begun, AtEnd, AtBegin, AtFind, AtCompare, Compared,
              PushesNew, InPushBack
<1> QED
  BY <1>2, <1>3, <1>4

LEMMA PortUsed ==
  ASSUME TableOK, StoresInListen, NEW t \in Users, Use(t)
  PROVE  SearchStep(t)
<1>1. UNCHANGED <<table, todo, mutex>> /\ overlapped' = [overlapped EXCEPT ![t] = FALSE]
  BY DEF Use
<1>2. Forget(t)
  BY DEF Use
<1>3. SearchTypes'
  BY <1>1, <1>2, Forgotten DEF TableOK, SearchTypes
<1>4. \A u \in Users \ {t} : overlapped'[u] = overlapped[u]
  BY <1>1 DEF TableOK, SearchTypes
<1> QED
  BY <1>1, <1>2, <1>3, <1>4, Forgotten DEF SearchStep

\* One more port of the list is done.
LEMMA NextToListen ==
  ASSUME TableOK, NEW t \in Thread, todo[t] # << >>,
         todo' = [todo EXCEPT ![t] = Tail(@)]
  PROVE  LET d == Len(Listens[t]) - Len(todo[t])
         IN /\ todo' \in [Thread -> Seq(Listened)]
            /\ TodoIsSuffix'
            /\ \A u \in Thread \ {t} : todo'[u] = todo[u]
            /\ d \in Nat /\ d + 1 \in 1 .. Len(Listens[t])
            /\ Len(Listens[t]) - Len(todo'[t]) = d + 1
            /\ Listens[t][d + 1] = Head(todo[t])
            /\ Head(todo[t]) \in Listened
<1> DEFINE d == Len(Listens[t]) - Len(todo[t])
<1>1. \A u \in Thread :
         /\ todo[u] \in Seq(Listened) /\ Listens[u] \in Seq(Listened)
         /\ Len(todo[u]) \in Nat /\ Len(Listens[u]) \in Nat
  BY PortsAssumption, LenProperties DEF TableOK, SearchTypes
<1>2. /\ Head(todo[t]) \in Listened /\ Tail(todo[t]) \in Seq(Listened)
      /\ Len(Tail(todo[t])) = Len(todo[t]) - 1
      /\ \A i \in 1 .. Len(Tail(todo[t])) : Tail(todo[t])[i] = todo[t][i + 1]
  BY <1>1, HeadTailProperties
<1>3. Len(todo[t]) \in Nat \ {0} /\ Head(todo[t]) = todo[t][1]
  BY <1>1, EmptySeq
<1>4. /\ todo' \in [Thread -> Seq(Listened)] /\ todo'[t] = Tail(todo[t])
      /\ \A u \in Thread \ {t} : todo'[u] = todo[u]
  BY <1>2 DEF TableOK, SearchTypes
<1>5. /\ Len(todo[t]) <= Len(Listens[t])
      /\ \A i \in 1 .. Len(todo[t]) : todo[t][i] = Listens[t][d + i]
  BY DEF TableOK, TodoIsSuffix
<1>6. /\ d \in Nat /\ d + 1 \in 1 .. Len(Listens[t])
      /\ Len(Listens[t]) - Len(todo'[t]) = d + 1
      /\ Listens[t][d + 1] = Head(todo[t])
  BY <1>1, <1>2, <1>3, <1>4, <1>5
<1>7. TodoIsSuffix'
  <2> SUFFICES ASSUME NEW u \in Thread
               PROVE  /\ Len(todo'[u]) <= Len(Listens[u])
                      /\ \A i \in 1 .. Len(todo'[u]) :
                           todo'[u][i] = Listens[u][Len(Listens[u]) - Len(todo'[u]) + i]
    BY DEF TodoIsSuffix
  <2>1. CASE u # t
    BY <1>4, <2>1 DEF TableOK, TodoIsSuffix
  <2>2. CASE u = t
    <3>1. Len(todo'[t]) <= Len(Listens[t])
      BY <1>1, <1>2, <1>3, <1>4, <1>5
    <3>2. ASSUME NEW i \in 1 .. Len(todo'[t])
          PROVE  todo'[t][i] = Listens[t][Len(Listens[t]) - Len(todo'[t]) + i]
      <4>1. i \in 1 .. Len(Tail(todo[t])) /\ i + 1 \in 1 .. Len(todo[t])
        BY <1>2, <1>3, <1>4
      <4>2. todo'[t][i] = todo[t][i + 1]
        BY <1>2, <1>4, <4>1
      <4>3. todo[t][i + 1] = Listens[t][d + (i + 1)]
        BY <1>5, <4>1
      <4>4. Len(Listens[t]) - Len(todo'[t]) + i = d + (i + 1)
        <5>1. Len(todo'[t]) = Len(todo[t]) - 1
          BY <1>2, <1>4
        <5>2. Len(Listens[t]) \in Int /\ Len(todo[t]) \in Int /\ i \in Int
          BY <1>1
        <5> DEFINE all == Len(Listens[t])
                   left == Len(todo[t])
                   rest == Len(todo'[t])
        <5>3. all \in Int /\ left \in Int /\ rest = left - 1
          BY <5>1, <5>2
        <5> HIDE DEF all, left, rest
        <5>4. all - rest + i = all - left + (i + 1)
          BY <5>2, <5>3
        <5> QED
          BY <5>4 DEF all, left, rest
      <4> QED
        BY <4>2, <4>3, <4>4
    <3> QED
      BY <2>2, <3>1, <3>2
  <2> QED
    BY <2>1, <2>2
<1> QED
  BY <1>2, <1>4, <1>6, <1>7

\* The port has a queue already: the next one.
LEMMA AlreadyListened ==
  ASSUME TableOK, StoresInListen, NEW t \in Users, ListenAgain(t)
  PROVE  TableOK'
<1> DEFINE d == Len(Listens[t]) - Len(todo[t])
<1>1. /\ UNCHANGED <<table, mutex>> /\ overlapped' = [overlapped EXCEPT ![t] = FALSE]
      /\ todo' = [todo EXCEPT ![t] = Tail(@)]
      /\ Listening(t) /\ t \in Thread /\ todo[t] # << >> /\ at[t] = "found" /\ Forget(t)
  BY DEF ListenAgain, Listening
<1>2. /\ todo' \in [Thread -> Seq(Listened)] /\ TodoIsSuffix'
      /\ \A u \in Thread \ {t} : todo'[u] = todo[u]
      /\ d \in Nat /\ d + 1 \in 1 .. Len(Listens[t])
      /\ Len(Listens[t]) - Len(todo'[t]) = d + 1
      /\ Listens[t][d + 1] = Head(todo[t])
  BY <1>1, NextToListen
<1> HIDE DEF d
<1>3. PICK place \in 0 .. size - 1 : PortAt(place) = Head(todo[t])
  <2>1. ~overlapped[t] /\ wanted[t] = Head(todo[t])
    BY <1>1 DEF TableOK, Listeners, InPushBack
  <2>2. known[t]
    BY <1>1, <2>1 DEF TableOK, InSearch, Compared
  <2> QED
    BY <1>1, <2>1, <2>2 DEF TableOK, InSearch, Begun, InTable
<1>4. TableShape' /\ SearchTypes'
  BY <1>1, <1>2, Forgotten DEF TableOK, TableShape, Capacity, SearchTypes, table
<1>5. TableContents'
  <2>1. size' = size /\ storage' = storage /\ buffer' = buffer
    BY <1>1 DEF table
  <2>2. \A k \in 0 .. size - 1 :
           \E u \in Thread : \E i \in 1 .. Len(Listens[u]) - Len(todo'[u]) :
             PortAt(k) = Listens[u][i]
    <3> SUFFICES ASSUME NEW k \in 0 .. size - 1
                 PROVE  \E u \in Thread : \E i \in 1 .. Len(Listens[u]) - Len(todo'[u]) :
                          PortAt(k) = Listens[u][i]
      OBVIOUS
    <3>1. PICK u \in Thread : \E i \in 1 .. Len(Listens[u]) - Len(todo[u]) :
                                 PortAt(k) = Listens[u][i]
      BY DEF TableOK, TableContents
    <3>2. CASE u = t
      <4>1. PICK i \in 1 .. d : PortAt(k) = Listens[t][i]
        BY <3>1, <3>2 DEF d
      <4>2. i \in 1 .. d + 1
        BY <1>2
      <4> QED
        BY <1>2, <3>2, <4>1, <4>2
    <3>3. CASE u # t
      BY <1>2, <3>1, <3>3
    <3> QED
      BY <3>2, <3>3
  <2>3. \A u \in Thread : \A i \in 1 .. Len(Listens[u]) - Len(todo'[u]) :
           \E k \in 0 .. size - 1 : PortAt(k) = Listens[u][i]
    <3> SUFFICES ASSUME NEW u \in Thread,
                        NEW i \in 1 .. Len(Listens[u]) - Len(todo'[u])
                 PROVE  \E k \in 0 .. size - 1 : PortAt(k) = Listens[u][i]
      OBVIOUS
    <3>1. CASE u # t \/ i # d + 1
      <4>1. i \in 1 .. Len(Listens[u]) - Len(todo[u])
        <5>1. CASE u # t
          BY <1>2, <5>1
        <5>2. CASE u = t
          <6>1. i \in 1 .. d + 1 /\ i # d + 1
            BY <1>2, <3>1, <5>2
          <6>2. i \in 1 .. d
            BY <1>2, <6>1
          <6> QED
            BY <5>2, <6>2 DEF d
        <5> QED
          BY <5>1, <5>2
      <4> QED
        BY <4>1 DEF TableOK, TableContents
    <3>2. CASE u = t /\ i = d + 1
      BY <1>2, <1>3, <3>2
    <3> QED
      BY <3>1, <3>2
  <2>4. \A m, n \in 0 .. size - 1 : PortAt(m) = PortAt(n) => m = n
    BY DEF TableOK, TableContents
  <2>5. \A m, n \in 0 .. size' - 1 : PortAt(m)' = PortAt(n)' => m = n
    BY <2>1, <2>4 DEF PortAt
  <2>6. \A n \in 0 .. size' - 1 :
           \E u \in Thread : \E i \in 1 .. Len(Listens[u]) - Len(todo'[u]) :
             PortAt(n)' = Listens[u][i]
    BY <2>1, <2>2 DEF PortAt
  <2>7. \A u \in Thread : \A i \in 1 .. Len(Listens[u]) - Len(todo'[u]) :
           \E n \in 0 .. size' - 1 : PortAt(n)' = Listens[u][i]
    BY <2>1, <2>3 DEF PortAt
  <2> QED
    BY <2>5, <2>6, <2>7 DEF TableContents
<1>6. Listeners'
  <2> SUFFICES ASSUME NEW u \in Thread, at'[u] # "idle"
               PROVE  /\ Listening(u)' \/ Ready(u)'
                      /\ Listening(u)' => wanted'[u] = Head(todo'[u])
                      /\ Listening(u)' /\ ~InPushBack(u)' => ~overlapped'[u]
    BY DEF Listeners
  <2>1. u # t
    BY <1>1, Forgotten
  <2>2. at'[u] = at[u] /\ wanted'[u] = wanted[u] /\ overlapped'[u] = overlapped[u]
    BY <1>1, <2>1, Forgotten DEF Users, TableOK, SearchTypes
  <2>3. Listening(u)' = Listening(u) /\ Ready(u)' = Ready(u) /\ todo'[u] = todo[u]
    BY <1>1, <1>2, <2>1 DEF mutex, Listening, Ready
  <2> QED
    BY <2>2, <2>3 DEF TableOK, Listeners, InPushBack
<1>7. \A u \in Users : InSearch(u)' /\ PushesNew(u)'
  <2>1. InSearch(t)' /\ PushesNew(t)'
    BY <1>1, Forgotten
  <2>2. ASSUME NEW u \in Users \ {t} PROVE InSearch(u)' /\ PushesNew(u)'
    <3>1. overlapped'[u] = overlapped[u]
      BY <1>1 DEF TableOK, SearchTypes
    <3> QED
      BY <1>1, <3>1, Forgotten, Untouched DEF TableOK
  <2> QED
    BY <2>1, <2>2
<1> QED
  BY <1>2, <1>4, <1>5, <1>6, <1>7 DEF TableOK

-----------------------------------------------------------------------------
(* push_back *)

\* Nobody else is in listen.
Alone(t) == Listening(t) /\ \A u \in Users : Listening(u) => u = t

\* A step of push_back before the element counts.
LEMMA PushBackKeeps ==
  ASSUME TableOK, StoresInListen, NEW t \in Users, Alone(t),
         Grown, TableShape', size' = size, UNCHANGED <<todo, search, mutex>>,
         Disturb, at[t] \in {"missing", "store"}, at'[t] \in {"store", "count"},
         \A u \in Users \ {t} : at'[u] = at[u],
         size < Capacity', at'[t] = "count" => PortAt(size)' = wanted[t],
         ~InTable(wanted[t])
  PROVE  TableOK'
<1>1. /\ todo' = todo /\ wanted' = wanted /\ first' = first /\ last' = last
      /\ element_it' = element_it /\ known' = known /\ pc' = pc
  BY DEF search, mutex
<1>2. \A u \in Users : at[u] # "idle" => overlapped'[u]
  BY DEF Disturb
<1>3. overlapped' \in [Users -> BOOLEAN]
  BY DEF Disturb
<1>4. SearchTypes' /\ TodoIsSuffix'
  BY <1>1, <1>3 DEF TableOK, SearchTypes, TodoIsSuffix
<1>5. \A n \in 0 .. size - 1 : PortAt(n)' = PortAt(n)
  BY DEF Grown
<1>6. TableContents'
  BY <1>1, <1>5 DEF TableOK, TableContents
<1>7. Listeners'
  <2> SUFFICES ASSUME NEW u \in Thread, at'[u] # "idle"
               PROVE  /\ Listening(u)' \/ Ready(u)'
                      /\ Listening(u)' => wanted'[u] = Head(todo'[u])
                      /\ Listening(u)' /\ ~InPushBack(u)' => ~overlapped'[u]
    BY DEF Listeners
  <2>1. (Listening(u)' <=> Listening(u)) /\ (Ready(u)' <=> Ready(u)) /\ u \in Users
    BY <1>1 DEF Listening, Ready, Users
  <2>2. CASE u = t
    BY <1>1, <2>1, <2>2 DEF Alone, TableOK, Listeners, InPushBack
  <2>3. CASE u # t
    BY <1>1, <2>1, <2>3 DEF Alone, TableOK, Listeners
  <2> QED
    BY <2>2, <2>3
<1>8. \A u \in Users \ {t} : InSearch(u)' /\ PushesNew(u)'
  <2> SUFFICES ASSUME NEW u \in Users \ {t} PROVE InSearch(u)' /\ PushesNew(u)'
    OBVIOUS
  <2>1. InSearch(u)'
    BY <1>1, <1>2, Overtaken DEF TableOK
  <2>2. ~InPushBack(u)
    BY DEF Alone, StoresInListen
  <2> QED
    BY <2>1, <2>2 DEF PushesNew, InPushBack
<1>9. InSearch(t)' /\ PushesNew(t)'
  <2>1. ~InTable(wanted[t])'
    BY <1>1, <1>5 DEF InTable
  <2>2. overlapped'[t]
    BY <1>2
  <2>3. ~known[t]
    BY DEF TableOK, InSearch, Begun
  <2>4. InSearch(t)'
    BY <1>1, <2>1, <2>2, <2>3
       DEF InSearch, Begun, AtEnd, AtBegin, AtFind, AtCompare, Compared
  <2>5. PushesNew(t)'
    BY <1>1, <2>1 DEF PushesNew
  <2> QED
    BY <2>4, <2>5
<1> QED
  BY <1>4, <1>6, <1>7, <1>8, <1>9 DEF TableOK

\* The copy in the new memory has what the old one has.
LEMMA VectorGrows ==
  ASSUME TableOK, StoresInListen, NEW t \in Users, Alone(t), Grow(t)
  PROVE  TableOK'
<1> DEFINE Cells0 == {NoPort} \cup Listened
           more == Capacity \div 2 + 1
           pad == [n \in 1 .. more |-> NoPort]
           new == storage[buffer] \o pad
<1>1. /\ size \in Nat /\ Capacity \in Nat /\ size <= Capacity
      /\ Len(storage) \in Nat /\ buffer \in 1 .. Len(storage)
      /\ \A m \in 1 .. Len(storage) : storage[m] \in Seq(Cells0) /\ Len(storage[m]) \in Nat
  BY CellsOfTable DEF TableOK
<1>2. /\ size' = size /\ UNCHANGED <<todo, search, mutex>> /\ Disturb /\ at[t] = "missing"
      /\ at'[t] = "store" /\ \A u \in Users \ {t} : at'[u] = at[u]
  BY DEF Grow, Move, StoresInListen
<1>3. ~InTable(wanted[t])
  <2>1. t \in Thread
    BY DEF Alone, Listening
  <2>2. ~overlapped[t] /\ ~known[t]
    BY <1>2, <2>1 DEF Alone, TableOK, Listeners, InPushBack, InSearch, Compared
  <2> QED
    BY <1>2, <2>2 DEF TableOK, InSearch, Begun
<1>4. ASSUME size < Capacity, storage' = storage, buffer' = buffer PROVE TableOK'
  <2>1. Grown /\ TableShape' /\ Capacity' = Capacity
    BY <1>1, <1>2, <1>4 DEF Grown, TableOK, TableShape, Capacity, PortAt
  <2> QED
    BY <1>2, <1>3, <1>4, <2>1, PushBackKeeps
<1>5. ASSUME size >= Capacity, storage' = Append(storage, new),
             buffer' = Len(storage) + 1
      PROVE  TableOK'
  <2>1. more \in Nat /\ more > 0
    BY <1>1
  <2>2. pad \in Seq(Cells0) /\ Len(pad) = more
    <3> HIDE DEF more
    <3> QED
      BY <2>1
  <2>3. /\ new \in Seq(Cells0) /\ Len(new) = Capacity + more
        /\ \A i \in 1 .. Capacity : new[i] = storage[buffer][i]
    <3> HIDE DEF pad, more
    <3>1. storage[buffer] \in Seq(Cells0) /\ Len(storage[buffer]) = Capacity
      BY <1>1 DEF Capacity
    <3>2. /\ new \in Seq(Cells0) /\ Len(new) = Len(storage[buffer]) + Len(pad)
          /\ \A i \in 1 .. Len(storage[buffer]) + Len(pad) :
               new[i] = IF i <= Len(storage[buffer]) THEN storage[buffer][i]
                        ELSE pad[i - Len(storage[buffer])]
      BY <2>2, <3>1, ConcatProperties
    <3>3. \A i \in 1 .. Capacity : i \in 1 .. Capacity + more /\ i <= Capacity
      BY <1>1, <2>1
    <3> HIDE DEF new
    <3> QED
      BY <2>2, <3>1, <3>2, <3>3
  <2> HIDE DEF new, more, pad
  <2>4. /\ storage' \in Seq(Seq(Cells0)) /\ Len(storage') = Len(storage) + 1
        /\ \A m \in 1 .. Len(storage) : storage'[m] = storage[m]
        /\ storage'[buffer'] = new
    BY <1>5, <2>3, AppendProperties DEF TableOK, TableShape
  <2>5. Capacity' = Capacity + more /\ size < Capacity'
    BY <1>1, <2>1, <2>3, <2>4 DEF Capacity
  <2>6. TableShape'
    BY <1>1, <1>2, <1>5, <2>1, <2>4, <2>5 DEF TableShape
  <2>7. \A n \in 0 .. size - 1 : PortAt(n)' = PortAt(n)
    <3>1. \A n \in 0 .. size - 1 : n + 1 \in 1 .. Capacity
      BY <1>1
    <3> QED
      BY <2>3, <2>4, <3>1 DEF PortAt
  <2>8. Grown
    BY <1>1, <1>2, <2>4, <2>7 DEF Grown
  <2> QED
    BY <1>2, <1>3, <2>5, <2>6, <2>8, PushBackKeeps
<1>6. size < Capacity \/ size >= Capacity
  BY <1>1
<1> QED
  BY <1>4, <1>5, <1>6 DEF Grow

\* The port is stored behind those that count.
LEMMA PortStored ==
  ASSUME TableOK, StoresInListen, NEW t \in Users, Alone(t), Store(t)
  PROVE  TableOK'
<1> DEFINE Cells0 == {NoPort} \cup Listened
           old == storage[buffer]
           new == [old EXCEPT ![size + 1] = wanted[t]]
<1>1. /\ size \in Nat /\ Capacity \in Nat /\ size <= Capacity
      /\ Len(storage) \in Nat /\ buffer \in 1 .. Len(storage)
      /\ \A m \in 1 .. Len(storage) : storage[m] \in Seq(Cells0) /\ Len(storage[m]) \in Nat
  BY CellsOfTable DEF TableOK
<1>2. /\ size' = size /\ buffer' = buffer /\ UNCHANGED <<todo, search, mutex>>
      /\ Disturb /\ at[t] = "store"
      /\ at'[t] = "count" /\ \A u \in Users \ {t} : at'[u] = at[u]
  BY DEF Store, Move, StoresInListen
<1>3. size < Capacity /\ ~InTable(wanted[t])
  BY <1>2 DEF TableOK, PushesNew, InPushBack
<1>4. storage' = [storage EXCEPT ![buffer] = new]
  BY <1>3 DEF Store
<1>5. wanted[t] \in Cells0
  <2>1. t \in Thread /\ todo[t] # << >> /\ wanted[t] = Head(todo[t])
    BY <1>2 DEF Alone, Listening, TableOK, Listeners
  <2>2. todo[t] \in Seq(Listened)
    BY <2>1 DEF TableOK, SearchTypes
  <2> QED
    BY <2>1, <2>2, HeadTailProperties
<1>6. old \in Seq(Cells0) /\ Len(old) = Capacity /\ size + 1 \in 1 .. Len(old)
  BY <1>1, <1>3 DEF Capacity
<1>7. /\ new \in Seq(Cells0) /\ Len(new) = Capacity
      /\ \A j \in 1 .. Capacity : new[j] = IF j = size + 1 THEN wanted[t] ELSE old[j]
  BY <1>5, <1>6, ExceptSeq
<1> HIDE DEF new
<1>8. /\ storage' \in Seq(Seq(Cells0)) /\ Len(storage') = Len(storage)
      /\ \A m \in 1 .. Len(storage) :
           storage'[m] = IF m = buffer THEN new ELSE storage[m]
  BY <1>1, <1>4, <1>7, ExceptSeq DEF TableOK, TableShape
<1>9. Capacity' = Capacity /\ PortAt(size)' = wanted[t]
  <2>1. storage'[buffer'] = new
    BY <1>1, <1>2, <1>8
  <2>2. new[size + 1] = wanted[t]
    BY <1>6, <1>7
  <2> QED
    BY <1>2, <1>7, <2>1, <2>2 DEF Capacity, PortAt
<1>10. \A n \in 0 .. size - 1 : new[n + 1] = old[n + 1]
  BY <1>1, <1>7
<1>11. \A n \in 0 .. size - 1 : PortAt(n)' = PortAt(n)
  BY <1>1, <1>2, <1>8, <1>10 DEF PortAt
<1>12. Grown
  <2>1. ASSUME NEW m \in 1 .. Len(storage)
        PROVE  /\ Len(storage'[m]) = Len(storage[m])
               /\ \A n \in 0 .. size - 1 : storage'[m][n + 1] = storage[m][n + 1]
    BY <1>6, <1>7, <1>8, <1>10
  <2>2. size <= size' /\ Len(storage) <= Len(storage')
    BY <1>1, <1>2, <1>8
  <2> QED
    BY <1>11, <2>1, <2>2 DEF Grown
<1>13. TableShape'
  BY <1>1, <1>2, <1>8, <1>9 DEF TableShape
<1>14. PortAt(size)' = wanted[t] /\ size < Capacity'
  BY <1>3, <1>9
<1> QED
  BY <1>2, <1>3, <1>12, <1>13, <1>14, PushBackKeeps

\* The port counts: listen is done with it.
LEMMA PortCounted ==
  ASSUME TableOK, StoresInListen, NEW t \in Users, Alone(t), Count(t)
  PROVE  TableOK'
<1> DEFINE d == Len(Listens[t]) - Len(todo[t])
<1>1. /\ size' = size + 1 /\ storage' = storage /\ buffer' = buffer
      /\ todo' = [todo EXCEPT ![t] = Tail(@)] /\ UNCHANGED mutex
      /\ Forget(t) /\ at[t] = "count"
      /\ overlapped' = [u \in Users |-> u # t /\ at[u] # "idle"]
  BY DEF Count
<1>2. t \in Thread /\ todo[t] # << >> /\ wanted[t] = Head(todo[t])
  BY <1>1 DEF Alone, Listening, TableOK, Listeners
<1>3. /\ todo' \in [Thread -> Seq(Listened)] /\ TodoIsSuffix'
      /\ \A u \in Thread \ {t} : todo'[u] = todo[u]
      /\ d \in Nat /\ d + 1 \in 1 .. Len(Listens[t])
      /\ Len(Listens[t]) - Len(todo'[t]) = d + 1
      /\ Listens[t][d + 1] = Head(todo[t])
  BY <1>1, <1>2, NextToListen
<1> HIDE DEF d
<1>4. /\ size \in Nat /\ Capacity \in Nat /\ size < Capacity
      /\ Len(storage) \in Nat /\ buffer \in 1 .. Len(storage)
  BY <1>1, CellsOfTable DEF TableOK, PushesNew, InPushBack
<1>5. PortAt(size) = Head(todo[t]) /\ \A n \in 0 .. size - 1 : PortAt(n) # Head(todo[t])
  BY <1>1, <1>2 DEF TableOK, PushesNew, InPushBack, InTable
<1>6. TableShape'
  <2>1. Capacity' = Capacity
    BY <1>1 DEF Capacity
  <2> QED
    BY <1>1, <1>4, <2>1 DEF TableOK, TableShape
<1>7. \A k : PortAt(k)' = PortAt(k)
  BY <1>1 DEF PortAt
<1>8. Grown
  BY <1>1, <1>4, <1>7 DEF Grown
<1>9. SearchTypes'
  <2>1. overlapped' \in [Users -> BOOLEAN]
    BY <1>1
  <2> QED
    BY <1>1, <1>3, <2>1, Forgotten DEF SearchTypes
<1>10. \A n \in 0 .. size' - 1 : n \in 0 .. size - 1 \/ n = size
  BY <1>1, <1>4
<1>11. \A n \in 0 .. size - 1 : n \in 0 .. size' - 1
  BY <1>1, <1>4
<1>12. size \in 0 .. size' - 1
  BY <1>1, <1>4
<1>13. TableContents'
  <2>1. \A m, n \in 0 .. size' - 1 : PortAt(m) = PortAt(n) => m = n
    BY <1>5, <1>10 DEF TableOK, TableContents
  <2>2. \A k \in 0 .. size' - 1 :
           \E u \in Thread : \E i \in 1 .. Len(Listens[u]) - Len(todo'[u]) :
             PortAt(k) = Listens[u][i]
    <3> SUFFICES ASSUME NEW k \in 0 .. size' - 1
                 PROVE  \E u \in Thread : \E i \in 1 .. Len(Listens[u]) - Len(todo'[u]) :
                          PortAt(k) = Listens[u][i]
      OBVIOUS
    <3>1. CASE k = size
      <4>1. d + 1 \in 1 .. d + 1
        BY <1>3
      <4> QED
        BY <1>2, <1>3, <1>5, <3>1, <4>1
    <3>2. CASE k \in 0 .. size - 1
      <4>1. PICK u \in Thread : \E i \in 1 .. Len(Listens[u]) - Len(todo[u]) :
                                   PortAt(k) = Listens[u][i]
        BY <3>2 DEF TableOK, TableContents
      <4>2. CASE u = t
        <5>1. PICK i \in 1 .. d : PortAt(k) = Listens[t][i]
          BY <4>1, <4>2 DEF d
        <5>2. i \in 1 .. d + 1
          BY <1>3
        <5> QED
          BY <1>3, <4>2, <5>1, <5>2
      <4>3. CASE u # t
        BY <1>3, <4>1, <4>3
      <4> QED
        BY <4>2, <4>3
    <3> QED
      BY <1>10, <3>1, <3>2
  <2>3. \A u \in Thread : \A i \in 1 .. Len(Listens[u]) - Len(todo'[u]) :
           \E k \in 0 .. size' - 1 : PortAt(k) = Listens[u][i]
    <3> SUFFICES ASSUME NEW u \in Thread,
                        NEW i \in 1 .. Len(Listens[u]) - Len(todo'[u])
                 PROVE  \E k \in 0 .. size' - 1 : PortAt(k) = Listens[u][i]
      OBVIOUS
    <3>1. CASE u = t /\ i = d + 1
      BY <1>3, <1>5, <1>12, <3>1
    <3>2. CASE u # t \/ i # d + 1
      <4>1. i \in 1 .. Len(Listens[u]) - Len(todo[u])
        <5>1. CASE u # t
          BY <1>3, <5>1
        <5>2. CASE u = t
          <6>1. i \in 1 .. d + 1 /\ i # d + 1
            BY <1>3, <3>2, <5>2
          <6>2. i \in 1 .. d
            BY <1>3, <6>1
          <6> QED
            BY <5>2, <6>2 DEF d
        <5> QED
          BY <5>1, <5>2
      <4>2. PICK k \in 0 .. size - 1 : PortAt(k) = Listens[u][i]
        BY <4>1 DEF TableOK, TableContents
      <4> QED
        BY <1>11, <4>2
    <3> QED
      BY <3>1, <3>2
  <2> QED
    BY <1>7, <2>1, <2>2, <2>3 DEF TableContents
<1>14. Listeners'
  <2> SUFFICES ASSUME NEW u \in Thread, at'[u] # "idle"
               PROVE  /\ Listening(u)' \/ Ready(u)'
                      /\ Listening(u)' => wanted'[u] = Head(todo'[u])
                      /\ Listening(u)' /\ ~InPushBack(u)' => ~overlapped'[u]
    BY DEF Listeners
  <2>1. u # t /\ u \in Users
    BY <1>1, Forgotten DEF Users
  <2>2. at'[u] = at[u] /\ todo'[u] = todo[u] /\ pc' = pc
    BY <1>1, <1>3, <2>1, Forgotten DEF mutex
  <2>3. ~Listening(u) /\ Ready(u)
    BY <2>1, <2>2 DEF Alone, TableOK, Listeners
  <2>4. ~Listening(u)' /\ Ready(u)'
    BY <2>2, <2>3 DEF Listening, Ready
  <2> QED
    BY <2>4
<1>15. \A u \in Users : InSearch(u)' /\ PushesNew(u)'
  <2>1. InSearch(t)' /\ PushesNew(t)'
    BY <1>1, Forgotten
  <2>2. ASSUME NEW u \in Users \ {t} PROVE InSearch(u)' /\ PushesNew(u)'
    <3>1. at[u] # "idle" => overlapped'[u]
      BY <1>1
    <3>2. InSearch(u)'
      BY <1>1, <1>6, <1>8, <3>1, Forgotten, Overtaken DEF TableOK
    <3>3. ~InPushBack(u) /\ at'[u] = at[u]
      BY <1>1, Forgotten DEF Alone, StoresInListen
    <3> QED
      BY <3>2, <3>3 DEF PushesNew, InPushBack
  <2> QED
    BY <2>1, <2>2
<1> QED
  BY <1>3, <1>6, <1>9, <1>13, <1>14, <1>15 DEF TableOK

-----------------------------------------------------------------------------
(* The inductive invariant of the table *)

PortsInv == MutexInv /\ StoresInListen /\ TableInv

LEMMA PortsStepKeeps ==
  ASSUME PortsInv, NEW t \in Users, PortsStep(t)
  PROVE  TableInv'
<1>1. raced => raced'
  BY DEF PortsStep, TableStep, StartUse, StartListen, Search, LoadOther, Find, Compare,
     Use, ListenAgain, Grow, Store, Count, mutex, LockTable, UnlockTable, CallLock,
     Spin, PassTest, SetOwner, SetInterlock, CallUnlock, ClearInterlock, ClearOwner, vars
<1>2. SUFFICES ASSUME ~raced PROVE TableOK'
  BY <1>1 DEF TableInv
<1>3. TableOK /\ StoresInListen /\ TypeOK /\ OneAtATime
  BY <1>2 DEF PortsInv, TableInv, MutexInv
<1>4. Listening(t) => Alone(t)
  BY <1>3 DEF OneAtATime, Engaged, Listening, Alone
<1>5. CASE StartUse(t)
  <2>1. PICK port \in Uses[t] : Search(t, port)
    BY <1>5 DEF StartUse
  <2>2. port \in AnyPort
    BY DEF AnyPort
  <2>3. t \in Thread => Ready(t) /\ ~Listening(t)
    BY <1>5 DEF StartUse, Ready, Listening
  <2> QED
    BY <1>3, <2>1, <2>2, <2>3, SearchBegins, SearchStepKeeps
<1>6. CASE StartListen(t)
  <2>1. Listening(t) /\ Search(t, Head(todo[t])) /\ t \in Thread /\ todo[t] # << >>
    BY <1>6 DEF StartListen, Listening
  <2>2. Head(todo[t]) \in AnyPort
    BY <1>3, <2>1, HeadTailProperties DEF AnyPort, TableOK, SearchTypes
  <2> QED
    BY <1>3, <2>1, <2>2, SearchBegins, SearchStepKeeps
<1>7. CASE LoadOther(t)
  BY <1>3, <1>7, RangeLoaded, SearchStepKeeps
<1>8. CASE Find(t)
  BY <1>3, <1>8, PortFound, SearchStepKeeps
<1>9. CASE Compare(t)
  BY <1>3, <1>9, PortCompared, SearchStepKeeps
<1>10. CASE Use(t)
  BY <1>3, <1>10, PortUsed, SearchStepKeeps
<1>11. CASE ListenAgain(t)
  BY <1>3, <1>11, AlreadyListened
<1>12. CASE Grow(t)
  BY <1>3, <1>4, <1>12, VectorGrows DEF Grow
<1>13. CASE Store(t)
  BY <1>3, <1>4, <1>13, PortStored DEF Store, StoresInListen, InPushBack
<1>14. CASE Count(t)
  BY <1>3, <1>4, <1>14, PortCounted DEF Count, StoresInListen, InPushBack
<1>15. CASE t \in Thread /\ (LockTable(t) \/ UnlockTable(t))
  BY <1>3, <1>15, LockStepKeeps
<1> QED
  BY <1>5, <1>6, <1>7, <1>8, <1>9, <1>10, <1>11, <1>12, <1>13, <1>14, <1>15
     DEF PortsStep, TableStep

LEMMA PortsStutters ==
  ASSUME TableInv, UNCHANGED allVars
  PROVE  TableInv'
<1>1. UNCHANGED <<table, todo, mutex, at, wanted, first, last, element_it, known, overlapped>>
  BY DEF allVars, portVars, table
<1>2. CASE raced
  BY <1>1, <1>2 DEF TableInv, mutex
<1>3. CASE TableOK
  <2>1. TableShape' /\ SearchTypes' /\ TodoIsSuffix' /\ TableContents'
    <3>1. TableShape'
      BY <1>1, <1>3 DEF TableOK, TableShape, Capacity, table
    <3>2. SearchTypes' /\ TodoIsSuffix'
      BY <1>1, <1>3 DEF TableOK, SearchTypes, TodoIsSuffix
    <3>3. TableContents'
      BY <1>1, <1>3 DEF TableOK, TableContents, PortAt, table
    <3> QED
      BY <3>1, <3>2, <3>3
  <2>2. Listeners'
    BY <1>1, <1>3 DEF TableOK, Listeners, Listening, Ready, InPushBack, mutex
  <2>3. ASSUME NEW u \in Users PROVE InSearch(u)' /\ PushesNew(u)'
    BY <1>1, <1>3, Untouched DEF TableOK
  <2> QED
    BY <2>1, <2>2, <2>3 DEF TableInv, TableOK
<1> QED
  BY <1>2, <1>3 DEF TableInv

\* The invariant of the table of ports, between any two stores of push_back.
THEOREM TableInvariance == PortsSpec => []PortsInv
<1>1. PortsInit => StoresInListen /\ TableInv
  BY PortsAssumption, TableInit DEF PortsInit, StoresInListen, InPushBack, TableInv
<1>2. PortsInv /\ [PortsNext]_allVars => StoresInListen'
  <2>1. ASSUME PortsInv, UNCHANGED allVars PROVE StoresInListen'
    BY <2>1 DEF PortsInv, allVars, portVars, mutex, StoresInListen, InPushBack, Listening
  <2> QED
    BY <2>1, StepKeepsStoresInListen DEF PortsNext, PortsInv, MutexInv
<1>3. PortsInv /\ [PortsNext]_allVars => TableInv'
  BY PortsStepKeeps, PortsStutters DEF PortsNext, PortsInv
<1>4. PortsInv <=> MutexInv /\ StoresInListen /\ TableInv
  BY DEF PortsInv
<1> QED
  BY <1>1, <1>2, <1>3, <1>4, ImplementsMutex, MutexInvariance, PTL DEF PortsSpec

\* Without a lock a search still finds every port that was there when it began,
\* in the memory it began with or in a later one, and never one that was not.
THEOREM SearchesAreRight == PortsSpec => []SearchIsRight
<1>1. ASSUME TableOK, NEW t \in Users
      PROVE  /\ at[t] = "found" /\ known[t] => Cell(element_it[t]) = wanted[t]
             /\ at[t] = "found" => known[t] \/ overlapped[t]
             /\ at[t] = "missing" => ~known[t]
  <2>1. Compared(t)
    BY <1>1 DEF TableOK, InSearch
  <2>2. Hits(t) => Cell(element_it[t]) = wanted[t]
    <3> SUFFICES ASSUME Hits(t) PROVE Cell(element_it[t]) = wanted[t]
      OBVIOUS
    <3> DEFINE it == element_it[t]
    <3>1. /\ it.memory \in 1 .. Len(storage)
          /\ it.index \in 0 .. size - 1 /\ it.index < Len(storage[it.memory])
          /\ storage[it.memory][it.index + 1] = wanted[t]
      BY DEF Hits, FoundAt
    <3>2. Len(storage[it.memory]) \in Nat /\ size \in Nat
      BY <1>1, <3>1, CellsOfTable DEF TableOK
    <3>3. it.index \in 0 .. Len(storage[it.memory]) - 1
      BY <3>1, <3>2
    <3>4. it = Iterator(it.memory, it.index)
      BY <1>1 DEF TableOK, SearchTypes, AnyIterator, Iterator
    <3> QED
      BY <1>1, <3>1, <3>3, <3>4, CellsOfTable DEF TableOK
  <2> QED
    BY <2>1, <2>2 DEF Compared
<1>2. PortsInv => SearchIsRight
  BY <1>1 DEF PortsInv, TableInv, SearchIsRight
<1> QED
  BY <1>2, TableInvariance, PTL

\* What was listened to has one queue each, whoever else listens meanwhile.
THEOREM OneQueuePerPort == PortsSpec => []OneQueueEach
<1>1. ASSUME TableOK
      PROVE  /\ size <= Capacity
             /\ Registered = UNION {Done(t) : t \in Thread}
             /\ \A port \in Registered : Cardinality(Copies(port)) = 1
  <2>1. size <= Capacity /\ \A port : port \in Registered <=> InTable(port)
    BY <1>1, CellsOfTable DEF TableOK
  <2>2. ASSUME NEW t \in Thread
        PROVE  \A port : port \in Done(t) <=>
                  \E i \in 1 .. Len(Listens[t]) - Len(todo[t]) : port = Listens[t][i]
    <3> DEFINE d == Len(Listens[t]) - Len(todo[t])
               done == SubSeq(Listens[t], 1, d)
    <3>1. /\ Listens[t] \in Seq(Listened) /\ Len(Listens[t]) \in Nat
          /\ Len(todo[t]) \in Nat /\ Len(todo[t]) <= Len(Listens[t])
      BY <1>1, PortsAssumption, LenProperties DEF TableOK, SearchTypes, TodoIsSuffix
    <3>2. d \in 0 .. Len(Listens[t])
      <4>1. \A a, b \in Nat : b <= a => a - b \in 0 .. a
        OBVIOUS
      <4> QED
        BY <3>1, <4>1
    <3> HIDE DEF d
    <3>3. \A i \in 1 .. d : Listens[t][i] \in Listened
      BY <3>1, <3>2, ElementOfSeq
    <3>4. /\ Len(done) = IF 1 <= d THEN d - 1 + 1 ELSE 0
          /\ \A i \in 1 .. d - 1 + 1 : done[i] = Listens[t][1 + i - 1]
          /\ done \in Seq(Listened)
      BY <3>2, <3>3, SubSeqProperties
    <3>5. Len(done) = d /\ \A i \in 1 .. d : done[i] = Listens[t][i]
      BY <3>2, <3>4
    <3> HIDE DEF done
    <3>6. DOMAIN done = 1 .. d
      BY <3>4, <3>5, LenProperties
    <3>7. Done(t) = {done[i] : i \in 1 .. d}
      BY <3>6 DEF Done, ToSet, done, d
    <3> QED
      BY <3>5, <3>7 DEF d
  <2>3. Registered = UNION {Done(t) : t \in Thread}
    <3>1. ASSUME NEW port, InTable(port) PROVE port \in UNION {Done(t) : t \in Thread}
      BY <1>1, <2>2, <3>1 DEF TableOK, TableContents, InTable
    <3>2. ASSUME NEW port, port \in UNION {Done(t) : t \in Thread} PROVE InTable(port)
      BY <1>1, <2>2, <3>2 DEF TableOK, TableContents, InTable
    <3> QED
      BY <2>1, <3>1, <3>2
  <2>4. ASSUME NEW port \in Registered PROVE Cardinality(Copies(port)) = 1
    <3>1. PICK n \in 0 .. size - 1 : PortAt(n) = port
      BY <2>1 DEF InTable
    <3>2. Copies(port) = {n}
      BY <1>1, <3>1, CellsOfTable DEF Copies, TableOK, TableContents
    <3> QED
      BY <3>2, FS_Singleton
  <2> QED
    BY <2>1, <2>3, <2>4
<1>2. PortsInv => OneQueueEach
  BY <1>1 DEF PortsInv, TableInv, OneQueueEach
<1> QED
  BY <1>2, TableInvariance, PTL

-----------------------------------------------------------------------------
(* One port: Postbox *)

\* The messages that wait, the one of a push that has stored but not counted
\* included, that of a pop that has taken but not counted not; and the number
\* of those that were popped.
Waiting == list_size + (IF sender = "count" THEN 1 ELSE 0)
                     - (IF receiver = "count" THEN 1 ELSE 0)
Popped == Len(accepted) - Waiting

\* postbox_debug has popped a message that it did not forward yet.
Taken == receiver \in {"count", "forward"}
Handled == Popped - (IF Taken THEN 1 ELSE 0)

\* How many of the first j messages of s are not null.
Kept(s, j) == Cardinality({n \in 1 .. j : s[n] \in Msg})

\* push stores only into a list that is not full, pop takes only from one that
\* is not empty, whatever the other does meanwhile.
Tested ==
  /\ Pushing => list_size < kMaxMessages /\ sendSize < kMaxMessages /\ sending \in Message
  /\ Popping => list_size > 0 /\ popSize > 0

\* Nothing but what was accepted is in the list, in the receiver, or forwarded.
Genuine ==
  /\ \A n \in Cells : list[n] \in {NoMsg} \cup ToSet(accepted)
  /\ msg \in {NoMsg} \cup ToSet(accepted)
  /\ ToSet(forwarded) \subseteq ToSet(accepted)

\* What is due, message by message.
DueIsKept ==
  /\ Len(due) = Kept(accepted, Len(accepted))
  /\ \A n \in 1 .. Len(accepted) :
       accepted[n] \in Msg => due[Kept(accepted, n)] = accepted[n]

\* Without an overlap the counter is what the thread inside has loaded.
CounterExact ==
  /\ Pushing => ~Popping /\ sendSize = list_size
  /\ Popping => popSize = list_size
  /\ Waiting <= Len(accepted)

\* The first kMaxMessages messages lie in the list in order, and the head has
\* gone on by one cell for each pop, but not behind the last cell.
InFirstRound ==
  FirstRound =>
    /\ head_index = IF Popped < kMaxMessages THEN Popped ELSE kMaxMessages - 1
    /\ \A n \in Cells : list[n] = IF n < Len(accepted) THEN accepted[n + 1] ELSE NoMsg

\* A message that waits alone is at the head, wherever that is stuck.
OneByOne ==
  burst <= 1 => /\ Waiting <= 1
                /\ Waiting = 1 => list[head_index] = accepted[Len(accepted)]

InsideArray == burst <= 2 => \A n \in Cells \ Array : list[n] = NoMsg

\* What was forwarded is due, up to the message that was popped last.
ForwardedSoFar ==
  FirstRound \/ burst <= 1 =>
    /\ Handled >= 0
    /\ Len(forwarded) = Kept(accepted, Handled)
    /\ \A n \in 1 .. Len(forwarded) : forwarded[n] = due[n]
    /\ Taken => msg = accepted[Popped]

\* The inductive invariant.
QueueInv ==
  /\ QueueType /\ Tested /\ Genuine /\ DueIsKept
  /\ ~collided => /\ CounterExact /\ InFirstRound /\ OneByOne /\ InsideArray
                  /\ ForwardedSoFar

-----------------------------------------------------------------------------
(* wrap and the null messages *)

LEMMA WrapTwice ==
  ASSUME NEW x \in 0 .. 2 * kMaxMessages - 1
  PROVE  wrap(x) = IF x < kMaxMessages THEN x ELSE x - 1
<1> DEFINE k == kMaxMessages
           q == x \div k
<1>1. k \in Nat /\ k >= 2
  BY PostboxAssumption
<1>2. q \in Nat /\ x % k \in 0 .. k - 1 /\ x = k * q + (x % k)
  BY <1>1
<1> HIDE DEF q
<1>3. CASE q = 0
  BY <1>1, <1>2, <1>3 DEF wrap, q
<1>4. CASE q = 1
  BY <1>1, <1>2, <1>4 DEF wrap, q
<1>5. CASE q >= 2
  <2>1. k * (q - 2) >= 0
    BY <1>1, <1>2, <1>5
  <2>2. k * q = k * (q - 2) + 2 * k
    BY <1>1, <1>2
  <2> QED
    BY <1>1, <1>2, <2>1, <2>2
<1> QED
  BY <1>2, <1>3, <1>4, <1>5

\* The cell that push stores into, and the cell that the head goes on to.
LEMMA PushCell ==
  ASSUME NEW h \in Array, NEW n \in 0 .. kMaxMessages - 1
  PROVE  /\ wrap(h + n) \in Cells
         /\ h + n < kMaxMessages => wrap(h + n) = h + n
         /\ n <= 1 => wrap(h + n) \in Array
<1>1. kMaxMessages \in Nat /\ kMaxMessages >= 2
  BY PostboxAssumption
<1>2. h + n \in 0 .. 2 * kMaxMessages - 2 /\ h \in Nat /\ n \in Nat /\ h < kMaxMessages
  BY <1>1 DEF Array
<1>3. wrap(h + n) = IF h + n < kMaxMessages THEN h + n ELSE h + n - 1
  BY <1>1, <1>2, WrapTwice
<1> QED
  BY <1>1, <1>2, <1>3 DEF Cells, Array

LEMMA NextHead ==
  ASSUME NEW h \in Array
  PROVE  /\ wrap(h + 1) \in Array
         /\ wrap(h + 1) = IF h + 1 < kMaxMessages THEN h + 1 ELSE kMaxMessages - 1
<1>1. kMaxMessages \in Nat /\ kMaxMessages >= 2
  BY PostboxAssumption
<1>2. h + 1 \in 0 .. 2 * kMaxMessages - 1 /\ h \in Nat /\ h < kMaxMessages
  BY <1>1 DEF Array
<1>3. wrap(h + 1) = IF h + 1 < kMaxMessages THEN h + 1 ELSE h + 1 - 1
  BY <1>1, <1>2, WrapTwice
<1> QED
  BY <1>1, <1>2, <1>3 DEF Array

LEMMA KeptNone ==
  ASSUME NEW s
  PROVE  Kept(s, 0) = 0
<1>1. {n \in 1 .. 0 : s[n] \in Msg} = {}
  OBVIOUS
<1> QED
  BY <1>1, FS_EmptySet DEF Kept

LEMMA KeptNext ==
  ASSUME NEW s, NEW j \in Nat
  PROVE  /\ Kept(s, j) \in Nat
         /\ Kept(s, j + 1) = IF s[j + 1] \in Msg THEN Kept(s, j) + 1 ELSE Kept(s, j)
<1> DEFINE A == {n \in 1 .. j : s[n] \in Msg}
           B == {n \in 1 .. j + 1 : s[n] \in Msg}
<1>1. IsFiniteSet(1 .. j)
  BY FS_Interval
<1>2. IsFiniteSet(A)
  BY <1>1, FS_Subset
<1>3. Cardinality(A) \in Nat
  BY <1>2, FS_CardinalityType
<1>4. B = IF s[j + 1] \in Msg THEN A \cup {j + 1} ELSE A
  OBVIOUS
<1>5. j + 1 \notin A
  OBVIOUS
<1> HIDE DEF A, B
<1>6. Cardinality(A \cup {j + 1}) = Cardinality(A) + 1
  BY <1>2, <1>5, FS_AddElement
<1> QED
  BY <1>3, <1>4, <1>6 DEF Kept, A, B

LEMMA KeptMonotone ==
  ASSUME NEW s, NEW j \in Nat, NEW k \in Nat, j <= k
  PROVE  Kept(s, j) <= Kept(s, k)
<1> DEFINE A == {n \in 1 .. j : s[n] \in Msg}
           B == {n \in 1 .. k : s[n] \in Msg}
<1>1. IsFiniteSet(1 .. k)
  BY FS_Interval
<1>2. IsFiniteSet(B)
  BY <1>1, FS_Subset
<1>3. A \subseteq B
  OBVIOUS
<1> HIDE DEF A, B
<1> QED
  BY <1>2, <1>3, FS_Subset DEF Kept, A, B

LEMMA KeptAppend ==
  ASSUME NEW s \in Seq(Message), NEW m \in Message, NEW j \in 0 .. Len(s)
  PROVE  Kept(Append(s, m), j) = Kept(s, j)
<1>1. \A n \in 1 .. j : Append(s, m)[n] = s[n]
  BY AppendProperties, LenProperties
<1>2. {n \in 1 .. j : Append(s, m)[n] \in Msg} = {n \in 1 .. j : s[n] \in Msg}
  BY <1>1
<1> QED
  BY <1>2 DEF Kept

-----------------------------------------------------------------------------
(* The steps of a port *)

LEMMA Maximum == kMaxMessages \in Nat /\ kMaxMessages >= 2
BY PostboxAssumption

LEMMA MoreSends ==
  ASSUME sends \in 0 .. MaxSends, sends < MaxSends
  PROVE  sends + 1 \in 0 .. MaxSends
BY PostboxAssumption

LEMMA InitQueueInv == PostboxInit => QueueInv
<1> SUFFICES ASSUME PostboxInit PROVE QueueInv
  OBVIOUS
<1>1. /\ accepted = << >> /\ due = << >> /\ forwarded = << >>
      /\ list_size = 0 /\ head_index = 0 /\ msg = NoMsg
      /\ sender = "idle" /\ receiver = "start"
      /\ list = [n \in Cells |-> NoMsg]
  BY DEF PostboxInit
<1>2. Len(<< >>) = 0 /\ ToSet(<< >>) = {}
  BY DEF ToSet
<1>3. QueueType
  <2>1. << >> \in Seq(Message) /\ << >> \in Seq(Msg)
    OBVIOUS
  <2>2. 0 \in Array /\ 0 \in 0 .. kMaxMessages /\ 0 \in 0 .. MaxSends
    BY Maximum, PostboxAssumption DEF Array
  <2> QED
    BY <1>1, <2>1, <2>2 DEF PostboxInit, QueueType
<1>4. Tested /\ Genuine
  BY <1>1, <1>2 DEF Tested, Pushing, Popping, Genuine
<1>5. Waiting = 0 /\ Popped = 0 /\ ~Taken /\ Handled = 0 /\ Kept(accepted, 0) = 0
  BY <1>1, <1>2, KeptNone DEF Waiting, Popped, Taken, Handled
<1>6. DueIsKept
  BY <1>1, <1>2, <1>5 DEF DueIsKept
<1>7. CounterExact /\ OneByOne /\ InsideArray
  BY <1>1, <1>2, <1>5 DEF CounterExact, Pushing, Popping, OneByOne, InsideArray
<1>8. InFirstRound
  <2>1. \A n \in Cells : ~(n < 0)
    BY Maximum DEF Cells
  <2> QED
    BY <1>1, <1>2, <1>5, <2>1, Maximum DEF InFirstRound
<1>9. ForwardedSoFar
  BY <1>1, <1>2, <1>5 DEF ForwardedSoFar
<1> QED
  BY <1>3, <1>4, <1>6, <1>7, <1>8, <1>9 DEF QueueInv

\* A step that moves no message.
LEMMA QuietStep ==
  ASSUME QueueInv,
         UNCHANGED <<list, head_index, msg, accepted, due, forwarded, burst>>,
         QueueType', Tested', Waiting' = Waiting, Taken' <=> Taken,
         ~collided' => ~collided /\ CounterExact'
  PROVE  QueueInv'
<1>1. Genuine' /\ DueIsKept'
  BY DEF QueueInv, Genuine, DueIsKept, Kept
<1>2. Popped' = Popped /\ Handled' = Handled
  BY DEF Popped, Handled
<1>3. ASSUME ~collided'
      PROVE  InFirstRound' /\ OneByOne' /\ InsideArray' /\ ForwardedSoFar'
  <2>1. InFirstRound /\ OneByOne /\ InsideArray /\ ForwardedSoFar
    BY <1>3 DEF QueueInv
  <2>2. FirstRound' <=> FirstRound
    BY DEF FirstRound
  <2>3. InFirstRound'
    BY <1>2, <2>1, <2>2 DEF InFirstRound
  <2>4. OneByOne' /\ InsideArray'
    BY <2>1 DEF OneByOne, InsideArray
  <2>5. ForwardedSoFar'
    BY <1>2, <2>1, <2>2 DEF ForwardedSoFar, Kept
  <2> QED
    BY <2>3, <2>4, <2>5
<1> QED
  BY <1>1, <1>3 DEF QueueInv

\* listen, and sends and pops that find nothing to do.
LEMMA IdleStep ==
  ASSUME QueueInv, Listen \/ SendIsLost \/ PopNothing \/ UNCHANGED postboxVars
  PROVE  QueueInv'
<1>1. /\ UNCHANGED <<list, head_index, msg, accepted, due, forwarded, burst,
                     list_size, senderVars, popSize, collided>>
      /\ receiver' = receiver \/ (receiver = "start" /\ receiver' = "idle")
      /\ listening' \in BOOLEAN
      /\ sends' \in 0 .. MaxSends
  <2>1. listening \in BOOLEAN /\ sends \in 0 .. MaxSends
    BY DEF QueueInv, QueueType
  <2>2. CASE Listen
    BY <2>1, <2>2 DEF Listen
  <2>3. CASE SendIsLost
    BY <2>1, <2>3, MoreSends DEF SendIsLost, receiverVars
  <2>4. CASE UNCHANGED postboxVars
    BY <2>1, <2>4 DEF postboxVars, receiverVars
  <2> QED
    BY <2>2, <2>3, <2>4 DEF PopNothing
<1>2. QueueType'
  BY <1>1 DEF QueueInv, QueueType, senderVars
<1>3. Tested' /\ (CounterExact => CounterExact') /\ Waiting' = Waiting /\ (Taken' <=> Taken)
  BY <1>1 DEF QueueInv, Tested, Pushing, Popping, CounterExact, Waiting, Taken, senderVars
<1> QED
  BY <1>1, <1>2, <1>3, QuietStep DEF QueueInv

\* push, up to its test.
LEMMA SendTestStep ==
  ASSUME QueueInv, NEW m \in Message, SendTest(m)
  PROVE  QueueInv'
<1>1. /\ UNCHANGED <<list, head_index, msg, accepted, due, forwarded, burst,
                     listening, list_size, receiver, popSize>>
      /\ sending' = m /\ sendSize' = list_size /\ sender = "idle" /\ sender' = "store"
      /\ list_size < kMaxMessages
      /\ collided' <=> collided \/ Popping
      /\ collided' \in BOOLEAN
      /\ sends' \in 0 .. MaxSends
  BY MoreSends DEF SendTest, HasRoom, receiverVars, QueueInv, QueueType
<1>2. QueueType'
  BY <1>1 DEF QueueInv, QueueType
<1>3. Tested' /\ Waiting' = Waiting /\ (Taken' <=> Taken)
  BY <1>1 DEF QueueInv, Tested, Pushing, Popping, Waiting, Taken
<1>4. ~collided' => CounterExact'
  BY <1>1, <1>3 DEF QueueInv, CounterExact, Pushing, Popping
<1> QED
  BY <1>1, <1>2, <1>3, <1>4, QuietStep

\* list_size++ of what was loaded, now or at the test.
LEMMA SendCountStep ==
  ASSUME QueueInv, SendCount
  PROVE  QueueInv'
<1>1. /\ UNCHANGED <<list, head_index, msg, accepted, due, forwarded, burst, collided,
                     listening, sending, sendSize, receiver, popSize, sends>>
      /\ sender = "count" /\ sender' = "idle"
      /\ list_size' = sendSize + 1 \/ list_size' = list_size + 1
  BY DEF SendCount, receiverVars
<1>2. /\ list_size < kMaxMessages /\ sendSize < kMaxMessages
      /\ list_size \in Nat /\ sendSize \in Nat
  BY <1>1, Maximum DEF QueueInv, QueueType, Tested, Pushing
<1>3. list_size' \in 1 .. kMaxMessages
  BY <1>1, <1>2, Maximum
<1>4. QueueType'
  BY <1>1, <1>3, Maximum DEF QueueInv, QueueType
<1>5. Tested' /\ (Taken' <=> Taken)
  BY <1>1, <1>3 DEF QueueInv, Tested, Pushing, Popping, Taken
<1>6. CASE collided
  <2>1. Genuine' /\ DueIsKept'
    BY <1>1 DEF QueueInv, Genuine, DueIsKept, Kept
  <2> QED
    BY <1>1, <1>4, <1>5, <1>6, <2>1 DEF QueueInv
<1>7. CASE ~collided
  <2>1. CounterExact /\ receiver \notin {"take", "count"} /\ list_size' = list_size + 1
    BY <1>1, <1>7 DEF QueueInv, CounterExact, Pushing, Popping
  <2>2. Waiting' = Waiting
    BY <1>1, <1>2, <2>1 DEF Waiting
  <2>3. CounterExact'
    BY <1>1, <2>1, <2>2 DEF CounterExact, Pushing, Popping
  <2> QED
    BY <1>1, <1>4, <1>5, <1>7, <2>2, <2>3, QuietStep
<1> QED
  BY <1>6, <1>7

\* pop, up to its test.
LEMMA PopTestStep ==
  ASSUME QueueInv, PopTest
  PROVE  QueueInv'
<1>1. /\ UNCHANGED <<list, head_index, msg, accepted, due, forwarded, burst,
                     listening, list_size, sender, sending, sendSize, sends>>
      /\ popSize' = list_size /\ receiver = "idle" /\ receiver' = "take"
      /\ list_size > 0
      /\ collided' <=> collided \/ Pushing
      /\ collided' \in BOOLEAN
  BY DEF PopTest, senderVars, QueueInv, QueueType
<1>2. QueueType'
  BY <1>1 DEF QueueInv, QueueType
<1>3. Tested' /\ Waiting' = Waiting /\ (Taken' <=> Taken)
  BY <1>1 DEF QueueInv, Tested, Pushing, Popping, Waiting, Taken
<1>4. ~collided' => CounterExact'
  BY <1>1, <1>3 DEF QueueInv, CounterExact, Pushing, Popping
<1> QED
  BY <1>1, <1>2, <1>3, <1>4, QuietStep

\* list_size-- of what was loaded, now or at the test.
LEMMA PopCountStep ==
  ASSUME QueueInv, PopCount
  PROVE  QueueInv'
<1>1. /\ UNCHANGED <<list, head_index, msg, accepted, due, forwarded, burst, collided,
                     listening, sender, sending, sendSize, popSize, sends>>
      /\ receiver = "count" /\ receiver' = "forward"
      /\ list_size' = popSize - 1 \/ list_size' = list_size - 1
  BY DEF PopCount, senderVars
<1>2. /\ list_size \in 1 .. kMaxMessages /\ popSize \in 1 .. kMaxMessages
  BY <1>1, Maximum DEF QueueInv, QueueType, Tested, Popping
<1>3. list_size' \in 0 .. kMaxMessages - 1
  BY <1>1, <1>2, Maximum
<1>4. QueueType'
  BY <1>1, <1>3, Maximum DEF QueueInv, QueueType
<1>5. Tested' /\ (Taken' <=> Taken)
  BY <1>1, <1>3, Maximum DEF QueueInv, Tested, Pushing, Popping, Taken
<1>6. CASE collided
  <2>1. Genuine' /\ DueIsKept'
    BY <1>1 DEF QueueInv, Genuine, DueIsKept, Kept
  <2> QED
    BY <1>1, <1>4, <1>5, <1>6, <2>1 DEF QueueInv
<1>7. CASE ~collided
  <2>1. CounterExact /\ sender = "idle" /\ list_size' = list_size - 1
    BY <1>1, <1>7 DEF QueueInv, CounterExact, Pushing, Popping
  <2>2. Waiting' = Waiting
    BY <1>1, <1>2, <2>1 DEF Waiting
  <2>3. CounterExact'
    BY <1>1, <2>1, <2>2 DEF CounterExact, Pushing, Popping
  <2> QED
    BY <1>1, <1>4, <1>5, <1>7, <2>2, <2>3, QuietStep
<1> QED
  BY <1>6, <1>7

\* What an Append leaves of a sequence, and that it adds to its set.
LEMMA AppendKeeps ==
  ASSUME NEW S, NEW s \in Seq(S), NEW m \in S
  PROVE  /\ Append(s, m) \in Seq(S) /\ Len(Append(s, m)) = Len(s) + 1 /\ Len(s) \in Nat
         /\ \A n \in 1 .. Len(s) : Append(s, m)[n] = s[n]
         /\ Append(s, m)[Len(s) + 1] = m
         /\ ToSet(Append(s, m)) = ToSet(s) \cup {m}
<1>1. /\ Append(s, m) \in Seq(S) /\ Len(Append(s, m)) = Len(s) + 1 /\ Len(s) \in Nat
      /\ \A n \in 1 .. Len(s) : Append(s, m)[n] = s[n]
      /\ Append(s, m)[Len(s) + 1] = m
  BY AppendProperties, LenProperties
<1>2. DOMAIN s = 1 .. Len(s) /\ DOMAIN Append(s, m) = 1 .. Len(s) + 1
  BY <1>1, LenProperties
<1>3. ToSet(s) = {s[n] : n \in 1 .. Len(s)}
      /\ ToSet(Append(s, m)) = {Append(s, m)[n] : n \in 1 .. Len(s) + 1}
  BY <1>2 DEF ToSet
<1> DEFINE a == Append(s, m)
           l == Len(s)
<1>4. /\ l \in Nat /\ \A n \in 1 .. l : a[n] = s[n]
      /\ a[l + 1] = m
  BY <1>1
<1> HIDE DEF a, l
<1>5. {a[n] : n \in 1 .. l + 1} = {s[n] : n \in 1 .. l} \cup {m}
  <2>1. \A n \in 1 .. l + 1 : n \in 1 .. l \/ n = l + 1
    BY <1>4
  <2>2. l + 1 \in 1 .. l + 1 /\ \A n \in 1 .. l : n \in 1 .. l + 1
    BY <1>4
  <2> QED
    BY <1>4, <2>1, <2>2
<1> QED
  BY <1>1, <1>3, <1>5 DEF a, l

\* SendMessage(2, msg.data), or the message that is taken for null.
LEMMA ForwardStep ==
  ASSUME QueueInv, Forward
  PROVE  QueueInv'
<1>1. /\ UNCHANGED <<listening, list, head_index, list_size, senderVars, msg, popSize,
                     sends, accepted, due, collided, burst>>
      /\ receiver = "forward" /\ receiver' = "idle"
      /\ forwarded' = IF IsNull(msg) THEN forwarded ELSE Append(forwarded, msg)
  BY DEF Forward
<1>2. /\ msg \in Message \cup {NoMsg} /\ forwarded \in Seq(Msg)
      /\ ~IsNull(msg) <=> msg \in Msg
  BY PostboxAssumption DEF QueueInv, QueueType, IsNull, Message
<1>3. forwarded' \in Seq(Msg)
  BY <1>1, <1>2, AppendKeeps
<1>4. QueueType'
  BY <1>1, <1>3 DEF QueueInv, QueueType, senderVars
<1>5. Tested' /\ DueIsKept'
  BY <1>1 DEF QueueInv, Tested, Pushing, Popping, DueIsKept, Kept, senderVars
<1>6. Genuine'
  <2>1. ToSet(forwarded') \subseteq ToSet(forwarded) \cup {msg}
    BY <1>1, <1>2, AppendKeeps
  <2>2. msg \in Msg => msg \in ToSet(accepted)
    BY PostboxAssumption DEF QueueInv, Genuine
  <2>3. ToSet(forwarded') \subseteq ToSet(accepted)
    <3>1. CASE IsNull(msg)
      BY <1>1, <3>1 DEF QueueInv, Genuine
    <3>2. CASE ~IsNull(msg)
      BY <1>2, <2>1, <2>2, <3>2 DEF QueueInv, Genuine
    <3> QED
      BY <3>1, <3>2
  <2> QED
    BY <1>1, <2>3 DEF QueueInv, Genuine
<1>7. ASSUME ~collided
      PROVE  (CounterExact /\ InFirstRound /\ OneByOne /\ InsideArray /\ ForwardedSoFar)'
  <2>1. CounterExact /\ InFirstRound /\ OneByOne /\ InsideArray /\ ForwardedSoFar
    BY <1>7 DEF QueueInv
  <2>2. Waiting' = Waiting /\ Popped' = Popped /\ (FirstRound' <=> FirstRound)
    BY <1>1 DEF Waiting, Popped, FirstRound, senderVars
  <2>3. (CounterExact /\ InFirstRound /\ OneByOne /\ InsideArray)'
    BY <1>1, <2>1, <2>2
    DEF CounterExact, Pushing, Popping, InFirstRound, OneByOne, InsideArray, senderVars
  <2>4. ASSUME FirstRound \/ burst <= 1
        PROVE  /\ Handled' >= 0
               /\ Len(forwarded') = Kept(accepted, Handled')
               /\ \A n \in 1 .. Len(forwarded') : forwarded'[n] = due[n]
    <3>1. /\ Waiting \in Nat /\ Waiting <= Len(accepted) /\ Len(accepted) \in Nat
          /\ Popped = Len(accepted) - Waiting /\ Popped \in Int
      <4>1. list_size \in Nat /\ Len(accepted) \in Nat
        BY LenProperties DEF QueueInv, QueueType
      <4> QED
        BY <1>1, <2>1, <4>1 DEF Waiting, CounterExact, Popped
    <3>2. /\ Handled = Popped - 1 /\ Handled' = Popped
          /\ Handled >= 0 /\ msg = accepted[Popped]
          /\ Len(forwarded) = Kept(accepted, Handled)
          /\ \A n \in 1 .. Len(forwarded) : forwarded[n] = due[n]
      BY <1>1, <2>1, <2>2, <2>4, <3>1 DEF ForwardedSoFar, Handled, Taken
    <3> DEFINE p == Popped
               h == Handled
    <3>3. h \in Nat /\ p = h + 1 /\ p \in 1 .. Len(accepted)
      BY <3>2, <3>1
    <3> HIDE DEF p, h
    <3>4. /\ Kept(accepted, h) \in Nat
          /\ Kept(accepted, p) = IF accepted[p] \in Msg THEN Kept(accepted, h) + 1
                                                       ELSE Kept(accepted, h)
      BY <3>3, KeptNext
    <3>5. CASE msg \in Msg
      <4>1. /\ Len(forwarded') = Len(forwarded) + 1 /\ Len(forwarded) \in Nat
            /\ \A n \in 1 .. Len(forwarded) : forwarded'[n] = forwarded[n]
            /\ forwarded'[Len(forwarded) + 1] = msg
        BY <1>1, <1>2, <3>5, AppendKeeps
      <4>2. due[Kept(accepted, p)] = msg
        BY <3>2, <3>3, <3>5 DEF QueueInv, DueIsKept, p
      <4>3. Kept(accepted, p) = Len(forwarded) + 1
        BY <3>2, <3>4, <3>5 DEF p, h
      <4>4. \A n \in 1 .. Len(forwarded) + 1 : forwarded'[n] = due[n]
        BY <3>2, <4>1, <4>2, <4>3
      <4> QED
        BY <3>2, <3>3, <4>1, <4>3, <4>4 DEF p
    <3>6. CASE msg \notin Msg
      BY <1>1, <1>2, <3>2, <3>3, <3>4, <3>6 DEF p, h
    <3> QED
      BY <3>5, <3>6
  <2>5. ~Taken'
    BY <1>1 DEF Taken
  <2>6. ForwardedSoFar'
    BY <1>1, <2>2, <2>4, <2>5 DEF ForwardedSoFar
  <2> QED
    BY <2>3, <2>6
<1> QED
  BY <1>1, <1>4, <1>5, <1>6, <1>7 DEF QueueInv

\* pop = list[head_index]; head_index = wrap(head_index + 1).
LEMMA TakeStep ==
  ASSUME QueueInv, Take
  PROVE  QueueInv'
<1>1. /\ UNCHANGED <<listening, list, list_size, sender, sending, sendSize, popSize,
                     sends, accepted, due, forwarded, collided, burst>>
      /\ receiver = "take" /\ receiver' = "count"
      /\ msg' = list[head_index] /\ head_index' = wrap(head_index + 1)
  BY DEF Take, senderVars
<1>2. head_index \in Array /\ head_index \in Cells /\ head_index' \in Array
  BY <1>1, Maximum, NextHead DEF QueueInv, QueueType, Array, Cells
<1>3. QueueType'
  BY <1>1, <1>2 DEF QueueInv, QueueType
<1>4. Tested' /\ Genuine' /\ DueIsKept'
  BY <1>1, <1>2
  DEF QueueInv, Tested, Pushing, Popping, Genuine, DueIsKept, Kept
<1>5. ASSUME ~collided
      PROVE  (CounterExact /\ InFirstRound /\ OneByOne /\ InsideArray /\ ForwardedSoFar)'
  <2>1. CounterExact /\ InFirstRound /\ OneByOne /\ InsideArray /\ ForwardedSoFar
    BY <1>5 DEF QueueInv
  <2>2. /\ sender = "idle" /\ popSize = list_size
        /\ list_size \in Nat /\ list_size >= 1 /\ Len(accepted) \in Nat
    BY <1>1, <2>1, LenProperties
    DEF QueueInv, QueueType, CounterExact, Tested, Pushing, Popping
  <2>3. /\ Waiting = list_size /\ Waiting' = list_size - 1
        /\ Waiting <= Len(accepted)
        /\ Popped = Len(accepted) - list_size /\ Popped' = Popped + 1
        /\ Handled' = Popped /\ Handled = Popped
        /\ Popped \in Nat /\ Taken'
    BY <1>1, <2>1, <2>2 DEF Waiting, Popped, Handled, Taken, CounterExact
  <2>4. CounterExact'
    BY <1>1, <2>2, <2>3 DEF CounterExact, Pushing, Popping
  <2>5. FirstRound' <=> FirstRound
    BY <1>1 DEF FirstRound
  <2>6. ASSUME FirstRound
        PROVE  /\ head_index' = IF Popped' < kMaxMessages THEN Popped'
                                                          ELSE kMaxMessages - 1
               /\ msg' = accepted[Popped']
    <3>1. Popped < kMaxMessages /\ Popped < Len(accepted) /\ Popped \in Cells
      BY <2>2, <2>3, <2>6, Maximum DEF FirstRound, Cells
    <3>2. head_index = Popped /\ list[Popped] = accepted[Popped + 1]
      BY <2>1, <2>6, <3>1 DEF InFirstRound
    <3> QED
      BY <1>1, <1>2, <2>3, <3>2, NextHead
  <2>7. InFirstRound'
    BY <1>1, <2>1, <2>5, <2>6 DEF InFirstRound
  <2>8. OneByOne' /\ InsideArray'
    BY <1>1, <2>1, <2>2, <2>3 DEF OneByOne, InsideArray
  <2>9. burst <= 1 => msg' = accepted[Popped']
    BY <1>1, <2>1, <2>2, <2>3 DEF OneByOne
  <2>10. ForwardedSoFar'
    BY <1>1, <2>1, <2>3, <2>5, <2>6, <2>9 DEF ForwardedSoFar, Kept
  <2> QED
    BY <2>4, <2>7, <2>8, <2>10
<1> QED
  BY <1>1, <1>3, <1>4, <1>5 DEF QueueInv

\* list[wrap(head_index + list_size)] = msg.
LEMMA SendStoreStep ==
  ASSUME QueueInv, SendStore
  PROVE  QueueInv'
<1>1. /\ UNCHANGED <<listening, head_index, list_size, sending, sendSize, receiver, msg,
                     popSize, sends, forwarded, collided>>
      /\ sender = "store" /\ sender' = "count"
      /\ accepted' = Append(accepted, sending)
      /\ due' = IF IsNull(sending) THEN due ELSE Append(due, sending)
      /\ burst' = IF list_size + 1 > burst THEN list_size + 1 ELSE burst
  BY DEF SendStore, receiverVars
<1>2. PICK n \in {sendSize, list_size} :
        list' = [list EXCEPT ![wrap(head_index + n)] = sending]
  BY DEF SendStore
<1>3. /\ list_size \in Nat /\ list_size < kMaxMessages
      /\ n \in 0 .. kMaxMessages - 1 /\ head_index \in Array
      /\ sending \in Message /\ burst \in Nat
  BY <1>1, Maximum DEF QueueInv, QueueType, Tested, Pushing
<1> DEFINE cell == wrap(head_index + n)
           len == Len(accepted)
<1>4. /\ cell \in Cells
      /\ head_index + n < kMaxMessages => cell = head_index + n
      /\ n <= 1 => cell \in Array
  BY <1>3, PushCell
<1>5. /\ accepted \in Seq(Message) /\ len \in Nat
      /\ accepted' \in Seq(Message) /\ Len(accepted') = len + 1
      /\ \A i \in 1 .. len : accepted'[i] = accepted[i]
      /\ accepted'[len + 1] = sending
      /\ ToSet(accepted') = ToSet(accepted) \cup {sending}
  BY <1>1, <1>3, AppendKeeps DEF QueueInv, QueueType
<1>6. /\ list \in [Cells -> Message \cup {NoMsg}]
      /\ list' = [list EXCEPT ![cell] = sending]
  BY <1>2 DEF QueueInv, QueueType
<1> HIDE DEF cell, len
<1>7. /\ list' \in [Cells -> Message \cup {NoMsg}]
      /\ list'[cell] = sending
      /\ \A i \in Cells : i # cell => list'[i] = list[i]
  BY <1>3, <1>4, <1>6
<1>8. /\ due \in Seq(Msg) /\ due' \in Seq(Msg) /\ Len(due) \in Nat
      /\ Len(due') = IF sending \in Msg THEN Len(due) + 1 ELSE Len(due)
      /\ \A i \in 1 .. Len(due) : due'[i] = due[i]
      /\ sending \in Msg => due'[Len(due) + 1] = sending
  <2>1. due \in Seq(Msg) /\ (~IsNull(sending) <=> sending \in Msg)
    BY <1>3, PostboxAssumption DEF QueueInv, QueueType, IsNull, Message
  <2>2. CASE IsNull(sending)
    BY <1>1, <2>1, <2>2, LenProperties
  <2>3. CASE ~IsNull(sending)
    BY <1>1, <2>1, <2>3, AppendKeeps
  <2> QED
    BY <2>2, <2>3
<1>9. QueueType'
  <2>1. burst' \in 0 .. kMaxMessages
    BY <1>1, <1>3, Maximum DEF QueueInv, QueueType
  <2> QED
    BY <1>1, <1>5, <1>7, <1>8, <2>1 DEF QueueInv, QueueType
<1>10. Tested'
  BY <1>1 DEF QueueInv, Tested, Pushing, Popping
<1>11. Genuine'
  BY <1>1, <1>5, <1>7 DEF QueueInv, Genuine
<1>12. \A j \in 0 .. len : Kept(accepted', j) = Kept(accepted, j)
  BY <1>1, <1>3, <1>5, KeptAppend DEF len
<1>13. /\ Kept(accepted, len) = Len(due)
       /\ \A j \in 1 .. len : accepted[j] \in Msg => due[Kept(accepted, j)] = accepted[j]
  BY DEF QueueInv, DueIsKept, len
<1>14. \A j \in 0 .. len : Kept(accepted, j) \in Nat /\ Kept(accepted, j) <= Len(due)
  BY <1>5, <1>13, KeptNext, KeptMonotone
<1>15. Kept(accepted', len + 1) = Len(due')
  <2>1. Kept(accepted', len + 1) = IF sending \in Msg THEN Kept(accepted', len) + 1
                                                      ELSE Kept(accepted', len)
    BY <1>5, KeptNext
  <2> QED
    BY <1>5, <1>8, <1>12, <1>13, <2>1
<1>16. DueIsKept'
  <2>1. ASSUME NEW j \in 1 .. len, accepted[j] \in Msg
        PROVE  due'[Kept(accepted', j)] = accepted'[j]
    <3>1. Kept(accepted, j) >= 1
      <4>1. j - 1 \in Nat /\ (j - 1) + 1 = j
        BY <1>5
      <4>2. Kept(accepted, j) = Kept(accepted, j - 1) + 1 /\ Kept(accepted, j - 1) \in Nat
        BY <2>1, <4>1, KeptNext
      <4> QED
        BY <4>2
    <3>2. Kept(accepted, j) \in 1 .. Len(due) /\ Kept(accepted', j) = Kept(accepted, j)
      BY <1>5, <1>8, <1>12, <1>14, <3>1
    <3> QED
      BY <1>5, <1>8, <1>13, <2>1, <3>2
  <2>2. sending \in Msg => due'[Kept(accepted', len + 1)] = sending
    BY <1>8, <1>15
  <2>3. ASSUME NEW j \in 1 .. len + 1, accepted'[j] \in Msg
        PROVE  due'[Kept(accepted', j)] = accepted'[j]
    BY <1>5, <2>1, <2>2, <2>3
  <2> QED
    BY <1>5, <1>15, <2>3 DEF DueIsKept
<1>17. ASSUME ~collided
       PROVE  (CounterExact /\ InFirstRound /\ OneByOne /\ InsideArray /\ ForwardedSoFar)'
  <2>1. CounterExact /\ InFirstRound /\ OneByOne /\ InsideArray /\ ForwardedSoFar
    BY <1>17 DEF QueueInv
  <2>2. receiver \notin {"take", "count"} /\ sendSize = list_size /\ n = list_size
    BY <1>1, <1>2, <2>1 DEF CounterExact, Pushing, Popping
  <2>3. /\ Waiting = list_size /\ Waiting' = list_size + 1
        /\ Waiting <= len
        /\ Popped = len - list_size /\ Popped' = Popped
        /\ Popped \in 0 .. len
        /\ Handled' = Handled /\ (Taken' <=> Taken)
        /\ Handled = Popped - (IF Taken THEN 1 ELSE 0)
    BY <1>1, <1>3, <1>5, <2>1, <2>2
    DEF Waiting, Popped, Handled, Taken, CounterExact, len
  <2>4. CounterExact'
    BY <1>1, <1>3, <1>5, <2>2, <2>3 DEF CounterExact, Pushing, Popping
  <2>5. InFirstRound'
    <3> SUFFICES ASSUME FirstRound' PROVE InFirstRound'
      BY DEF InFirstRound
    <3>1. len < kMaxMessages /\ FirstRound
      BY <1>5, Maximum DEF FirstRound, len
    <3>2. head_index = Popped
          /\ \A i \in Cells : list[i] = IF i < len THEN accepted[i + 1] ELSE NoMsg
      BY <1>5, <2>1, <2>3, <3>1, Maximum DEF InFirstRound, len
    <3>3. cell = len /\ Popped < kMaxMessages
      BY <1>3, <1>4, <1>5, <2>2, <2>3, <3>1, <3>2, Maximum
    <3>4. \A i \in Cells : list'[i] = IF i < len + 1 THEN accepted'[i + 1] ELSE NoMsg
      <4> SUFFICES ASSUME NEW i \in Cells
                   PROVE  list'[i] = IF i < len + 1 THEN accepted'[i + 1] ELSE NoMsg
        OBVIOUS
      <4>1. i \in Nat
        BY Maximum DEF Cells
      <4>2. CASE i = len
        BY <1>5, <1>7, <3>3, <4>2
      <4>3. CASE i < len
        <5>1. i + 1 \in 1 .. len /\ i # len
          BY <1>5, <4>1, <4>3
        <5>2. list'[i] = list[i] /\ accepted'[i + 1] = accepted[i + 1] /\ i < len + 1
          BY <1>5, <1>7, <3>3, <4>1, <4>3, <5>1
        <5> QED
          BY <3>2, <4>3, <5>2
      <4>4. CASE i > len
        <5>1. ~(i < len + 1) /\ ~(i < len) /\ i # len
          BY <1>5, <4>1, <4>4
        <5> QED
          BY <1>7, <3>2, <3>3, <5>1
      <4> QED
        BY <1>5, <4>1, <4>2, <4>3, <4>4
    <3> QED
      BY <1>1, <1>5, <2>3, <3>2, <3>3, <3>4 DEF InFirstRound
  <2>6. OneByOne'
    <3> SUFFICES ASSUME burst' <= 1 PROVE OneByOne'
      BY DEF OneByOne
    <3>1. list_size = 0
      BY <1>1, <1>3
    <3>2. cell = head_index
      BY <1>3, <1>4, <2>2, <3>1, Maximum DEF Array
    <3> QED
      BY <1>1, <1>5, <1>7, <2>3, <3>1, <3>2 DEF OneByOne
  <2>7. InsideArray'
    <3> SUFFICES ASSUME burst' <= 2 PROVE InsideArray'
      BY DEF InsideArray
    <3>1. list_size <= 1 /\ burst <= 2
      BY <1>1, <1>3
    <3>2. cell \in Array
      BY <1>4, <2>2, <3>1
    <3> QED
      BY <1>7, <2>1, <3>1, <3>2 DEF InsideArray
  <2>8. ForwardedSoFar'
    <3> SUFFICES ASSUME FirstRound' \/ burst' <= 1 PROVE ForwardedSoFar'
      BY DEF ForwardedSoFar
    <3>1. FirstRound \/ burst <= 1
      BY <1>1, <1>3, <1>5, Maximum DEF FirstRound, len
    <3>2. /\ Handled >= 0
          /\ Len(forwarded) = Kept(accepted, Handled)
          /\ \A i \in 1 .. Len(forwarded) : forwarded[i] = due[i]
          /\ Taken => msg = accepted[Popped]
      BY <2>1, <3>1 DEF ForwardedSoFar
    <3> DEFINE h == Handled
    <3>3. h \in 0 .. len
      BY <1>5, <2>3, <3>2
    <3> HIDE DEF h
    <3>4. Len(forwarded) = Kept(accepted, h) /\ Kept(accepted', h) = Kept(accepted, h)
          /\ Len(forwarded) \in Nat /\ Len(forwarded) <= Len(due)
      BY <1>12, <1>14, <3>2, <3>3 DEF h
    <3>5. \A i \in 1 .. Len(forwarded) : forwarded[i] = due'[i]
      BY <1>8, <3>2, <3>4
    <3>6. Taken => Popped \in 1 .. len
      BY <1>5, <2>3, <3>2
    <3>7. Taken' => msg' = accepted'[Popped']
      BY <1>1, <1>5, <2>3, <3>2, <3>6
    <3>8. Handled' >= 0 /\ Len(forwarded') = Kept(accepted', Handled')
      BY <1>1, <2>3, <3>2, <3>4 DEF h
    <3> QED
      BY <1>1, <3>5, <3>7, <3>8 DEF ForwardedSoFar, Kept
  <2> QED
    BY <2>4, <2>5, <2>6, <2>7, <2>8
<1> QED
  BY <1>1, <1>9, <1>10, <1>11, <1>16, <1>17 DEF QueueInv

-----------------------------------------------------------------------------
(* The theorems about a port *)

\* The invariant of a port, between any two loads and stores of push and pop.
THEOREM QueueInvariance == PostboxSpec => []QueueInv
<1>1. ASSUME QueueInv, [PostboxNext]_postboxVars PROVE QueueInv'
  BY <1>1, IdleStep, SendTestStep, SendStoreStep, SendCountStep, PopTestStep, TakeStep,
     PopCountStep, ForwardStep DEF PostboxNext
<1> QED
  BY <1>1, InitQueueInv, PTL DEF PostboxSpec

\* postbox_debug forwards what SendMessage put into the port and nothing else,
\* in the order of the sends as far as wrap() keeps it.
THEOREM ForwardsInOrder == PostboxSpec => []ForwardsWhatWasSent
<1>1. ASSUME QueueInv PROVE ForwardsWhatWasSent
  <2>1. QueueType /\ ToSet(forwarded) \subseteq ToSet(accepted)
    BY <1>1 DEF QueueInv, Genuine
  <2>2. ASSUME ~collided, FirstRound \/ burst <= 1
        PROVE  InOrder
    <3>1. /\ forwarded \in Seq(Msg) /\ due \in Seq(Msg) /\ accepted \in Seq(Message)
          /\ list_size \in Nat
      BY <2>1 DEF QueueType
    <3>2. /\ Handled >= 0
          /\ Len(forwarded) = Kept(accepted, Handled)
          /\ \A i \in 1 .. Len(forwarded) : forwarded[i] = due[i]
          /\ Len(due) = Kept(accepted, Len(accepted))
      BY <1>1, <2>2 DEF QueueInv, ForwardedSoFar, DueIsKept
    <3> DEFINE h == Handled
    <3>3. h \in Nat /\ h <= Len(accepted) /\ Len(accepted) \in Nat
      <4>1. Len(accepted) \in Nat
        BY <3>1, LenProperties
      <4>2. list_size > 0 \/ receiver # "count"
        BY <1>1 DEF QueueInv, Tested, Popping
      <4>3. Waiting \in Nat
        BY <3>1, <4>2 DEF Waiting
      <4> QED
        BY <3>2, <4>1, <4>3 DEF Handled, Popped
    <3> HIDE DEF h
    <3>4. Len(forwarded) <= Len(due)
      BY <3>2, <3>3, KeptMonotone DEF h
    <3> QED
      BY <3>1, <3>2, <3>4, LenProperties DEF InOrder, IsPrefix
  <2>3. ASSUME ~collided, FirstRound \/ burst <= 2
        PROVE  \A i \in Cells \ Array : list[i] = NoMsg
    <3>1. CASE FirstRound
      <4>1. /\ Len(accepted) \in Nat /\ Len(accepted) <= kMaxMessages
            /\ \A i \in Cells : list[i] = IF i < Len(accepted) THEN accepted[i + 1] ELSE NoMsg
        BY <1>1, <2>1, <2>3, <3>1, LenProperties
        DEF QueueInv, InFirstRound, FirstRound, QueueType
      <4>2. \A i \in Cells \ Array : ~(i < Len(accepted))
        BY <4>1, Maximum DEF Cells, Array
      <4> QED
        BY <4>1, <4>2
    <3>2. CASE burst <= 2
      BY <1>1, <2>3, <3>2 DEF QueueInv, InsideArray
    <3> QED
      BY <2>3, <3>1, <3>2
  <2> QED
    BY <2>1, <2>2, <2>3 DEF ForwardsWhatWasSent
<1> QED
  BY <1>1, QueueInvariance, PTL
=============================================================================
