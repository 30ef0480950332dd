------------------------------- MODULE Ports -------------------------------
(***************************************************************************)
(* The table of ports of the postbox, kernel/proc/message.cpp: a           *)
(* std::vector of queues that listen extends and that every SendMessage    *)
(* and pop searches.  listen is called with messaging_mutex held           *)
(* (SpinlockMutex); the searches take no lock, so a search may run before, *)
(* during and after each store of push_back.                               *)
(*                                                                         *)
(* A vector that grows moves to new memory and its old memory is not freed *)
(* ("//delete[] buffer"), so an iterator into it can still be read.  Each  *)
(* memory that the vector had is kept in storage, an iterator is the       *)
(* number of such a memory and an index.  What is in a queue is left to    *)
(* module Postbox; two push_backs that the mutex failed to keep apart      *)
(* (raced) are not followed store by store.                                *)
(***************************************************************************)
EXTENDS SpinlockMutex, Sequences, SequencesExt

CONSTANTS
  Sender,       \* threads that use ports and listen to none: the keyboard
  Uses,         \* per thread the ports it sends to and pops from
  Listens,      \* per thread of Thread the ports it listens to, in order
  NoPort        \* a cell of the vector that was never written

Users == Thread \cup Sender

Listened == UNION {ToSet(Listens[t]) : t \in Thread}

ASSUME PortsAssumption ==
  /\ Thread \cap Sender = {}
  /\ DOMAIN Uses = Users
  /\ Listens \in [Thread -> Seq(Listened)]
  /\ NoPort \notin Listened

VARIABLES
  storage,      \* the memories that ports.buffer has pointed to
  buffer,       \* the one it points to
  size,         \* ports._size
  todo,         \* per listening thread: the ports it has not listened to yet
  at,           \* per thread: where it is in search, pop or listen
  wanted,       \* per thread: the port it looks for
  first, last,  \* per thread: begin() and end(), the arguments of find_if
  element_it,   \* per thread: what find_if returned
  known,        \* history, per thread: the port was there when it began
  overlapped    \* history, per thread: the vector changed since it began

table == <<storage, buffer, size>>
search == <<wanted, first, last, element_it, known>>
mutex == <<interlock, l_threadid, pc, id, raced>>
portVars == <<storage, buffer, size, todo, at, wanted, first, last, element_it,
              known, overlapped>>
allVars == <<mutex, portVars>>

Iterator(memory, index) == [memory |-> memory, index |-> index]
Begin == Iterator(buffer, 0)
End == Iterator(buffer, size)
Wild == Iterator(0, 0)

\* What an iterator points to, if it is in memory that the vector has written.
Cell(it) == IF it.memory \in DOMAIN storage
               /\ it.index + 1 \in DOMAIN storage[it.memory]
            THEN storage[it.memory][it.index + 1] ELSE NoPort

Registered == {Cell(Iterator(buffer, n)) : n \in 0 .. size - 1}
Capacity == Len(storage[buffer])

PortsInit ==
  /\ Init
  /\ storage = << << >> >>
  /\ buffer = 1
  /\ size = 0
  /\ todo = Listens
  /\ at = [t \in Users |-> "idle"]
  /\ wanted = [t \in Users |-> NoPort]
  /\ first = [t \in Users |-> Wild]
  /\ last = [t \in Users |-> Wild]
  /\ element_it = [t \in Users |-> Wild]
  /\ known = [t \in Users |-> FALSE]
  /\ overlapped = [t \in Users |-> FALSE]

Move(t, point) == at' = [at EXCEPT ![t] = point]

-----------------------------------------------------------------------------
(* MessageQueue::search *)

Listening(t) == t \in Thread /\ pc[t] = "inside" /\ todo[t] # << >>
Ready(t) == \A u \in Thread \cap {t} : pc[u] = "idle" /\ todo[u] = << >>

Search(t, port) ==
  /\ at[t] = "idle"
  /\ wanted' = [wanted EXCEPT ![t] = port]
  /\ known' = [known EXCEPT ![t] = port \in Registered]
  /\ overlapped' = [overlapped EXCEPT ![t] = FALSE]
  /\ \/ /\ first' = [first EXCEPT ![t] = Begin]
        /\ Move(t, "end")
        /\ UNCHANGED last
     \/ /\ last' = [last EXCEPT ![t] = End]
        /\ Move(t, "begin")
        /\ UNCHANGED first
  /\ UNCHANGED <<table, todo, element_it, mutex>>

\* push and pop search without the lock, listen with it.
StartUse(t) == Ready(t) /\ \E port \in Uses[t] : Search(t, port)
StartListen(t) == Listening(t) /\ Search(t, Head(todo[t]))

\* The arguments of find_if are evaluated in either order.
LoadOther(t) ==
  /\ \/ /\ at[t] = "end"
        /\ last' = [last EXCEPT ![t] = End]
        /\ UNCHANGED first
     \/ /\ at[t] = "begin"
        /\ first' = [first EXCEPT ![t] = Begin]
        /\ UNCHANGED last
  /\ Move(t, "find")
  /\ UNCHANGED <<table, todo, wanted, element_it, known, overlapped, mutex>>

\* find_if: a range that ends in another memory than it begins has no end.
FindIf(from, to, port) ==
  LET length == IF from.memory = to.memory THEN to.index
                                           ELSE Len(storage[from.memory])
      hits == {n \in 0 .. length - 1 :
                 Cell(Iterator(from.memory, n)) = port}
  IN IF hits # {} THEN Iterator(from.memory, Min(hits))
     ELSE IF from.memory = to.memory THEN to ELSE Wild

Find(t) ==
  /\ at[t] = "find"
  /\ element_it' = [element_it EXCEPT ![t] = FindIf(first[t], last[t], wanted[t])]
  /\ Move(t, "compare")
  /\ UNCHANGED <<table, todo, wanted, first, last, known, overlapped, mutex>>

\* port_it != std::end(postbox.ports), which is computed again.
Compare(t) ==
  /\ at[t] = "compare"
  /\ Move(t, IF element_it[t] = End THEN "missing" ELSE "found")
  /\ UNCHANGED <<table, todo, search, overlapped, mutex>>

Forget(t) ==
  /\ wanted' = [wanted EXCEPT ![t] = NoPort]
  /\ first' = [first EXCEPT ![t] = Wild]
  /\ last' = [last EXCEPT ![t] = Wild]
  /\ element_it' = [element_it EXCEPT ![t] = Wild]
  /\ known' = [known EXCEPT ![t] = FALSE]
  /\ Move(t, "idle")

\* push and pop: (*port_it)->messages, or nothing.
Use(t) ==
  /\ ~Listening(t)
  /\ at[t] \in {"found", "missing"}
  /\ Forget(t)
  /\ overlapped' = [overlapped EXCEPT ![t] = FALSE]
  /\ UNCHANGED <<table, todo, mutex>>

-----------------------------------------------------------------------------
(* listen *)

\* The port is there: nothing to do.
ListenAgain(t) ==
  /\ Listening(t)
  /\ at[t] = "found"
  /\ todo' = [todo EXCEPT ![t] = Tail(@)]
  /\ Forget(t)
  /\ overlapped' = [overlapped EXCEPT ![t] = FALSE]
  /\ UNCHANGED <<table, mutex>>

Disturb == overlapped' = [t \in Users |-> at[t] # "idle"]

\* A vector that frees the memory it leaves.
GrowAndFree(t) ==
  /\ Listening(t)
  /\ at[t] = "missing"
  /\ IF size >= Capacity
     THEN /\ storage' = Append([storage EXCEPT ![buffer] = << >>],
                               storage[buffer] \o
                                 [n \in 1 .. Capacity \div 2 + 1 |-> NoPort])
          /\ buffer' = Len(storage) + 1
     ELSE UNCHANGED <<storage, buffer>>
  /\ Disturb
  /\ Move(t, "store")
  /\ UNCHANGED <<size, todo, search, mutex>>

\* push_back(new PortQueue(port_id)): reserve(_capacity*1.5+1) if it is full;
\* the copy is made before the vector points to it ...
Grow(t) ==
  /\ Listening(t)
  /\ at[t] = "missing"
  /\ IF size >= Capacity
     THEN /\ storage' = Append(storage, storage[buffer] \o
                                 [n \in 1 .. Capacity \div 2 + 1 |-> NoPort])
          /\ buffer' = Len(storage) + 1
     ELSE UNCHANGED <<storage, buffer>>
  /\ Disturb
  /\ Move(t, "store")
  /\ UNCHANGED <<size, todo, search, mutex>>

\* A push_back that counts the element before it is there.
CountOnly(t) ==
  /\ at[t] = "store"
  /\ Disturb
  /\ Move(t, "count")
  /\ UNCHANGED <<table, todo, search, mutex>>

\* ... buffer[_size] = value ...
Store(t) ==
  /\ at[t] = "store"
  /\ storage' = IF size < Capacity
                THEN [storage EXCEPT ![buffer][size + 1] = wanted[t]]
                ELSE storage
  /\ Disturb
  /\ Move(t, "count")
  /\ UNCHANGED <<buffer, size, todo, search, mutex>>

\* ... and _size++.
Count(t) ==
  /\ at[t] = "count"
  /\ size' = size + 1
  /\ todo' = [todo EXCEPT ![t] = Tail(@)]
  /\ Forget(t)
  /\ overlapped' = [u \in Users |-> u # t /\ at[u] # "idle"]
  /\ UNCHANGED <<storage, buffer, mutex>>

\* The Locker around the calls of listen.
LockTable(t) ==
  /\ UNCHANGED portVars
  /\ \/ todo[t] # << >> /\ CallLock(t) /\ id'[t] = t
     \/ Spin(t) \/ PassTest(t) \/ SetOwner(t) \/ SetInterlock(t)

UnlockTable(t) ==
  /\ UNCHANGED portVars
  /\ \/ todo[t] = << >> /\ CallUnlock(t)
     \/ ClearInterlock(t) \/ ClearOwner(t)

TableStep(t) ==
  \/ StartUse(t) \/ StartListen(t) \/ LoadOther(t) \/ Find(t) \/ Compare(t)
  \/ Use(t) \/ ListenAgain(t) \/ Grow(t) \/ Store(t) \/ Count(t)

PortsStep(t) == TableStep(t) \/ (t \in Thread /\ (LockTable(t) \/ UnlockTable(t)))

PortsNext == \E t \in Users : PortsStep(t)

\* Every thread gets the CPU again and again (see Scheduler).
PortsSpec == PortsInit /\ [][PortsNext]_allVars
               /\ \A t \in Users : WF_allVars(PortsStep(t))

-----------------------------------------------------------------------------
(* Properties *)

\* A search finds a port that was in the table when it began, however the
\* table grows meanwhile; a port that was not there is missing, if the table
\* stayed as it was.
SearchIsRight ==
  raced \/ \A t \in Users :
    /\ at[t] = "found" /\ known[t] => Cell(element_it[t]) = wanted[t]
    /\ at[t] = "found" => known[t] \/ overlapped[t]
    /\ at[t] = "missing" => ~known[t]

Copies(port) == {n \in 0 .. size - 1 : Cell(Iterator(buffer, n)) = port}

\* What a thread has listened to.
Done(t) == ToSet(SubSeq(Listens[t], 1, Len(Listens[t]) - Len(todo[t])))

\* Once listen has returned, the port has one queue, whoever else listens to it
\* or to another one, and there are no queues of anything else.
OneQueueEach ==
  raced \/ /\ size <= Capacity
           /\ Registered = UNION {Done(t) : t \in Thread}
           /\ \A port \in Registered : Cardinality(Copies(port)) = 1

Finished == \A t \in Thread : todo[t] = << >> /\ pc[t] = "idle"

\* Every thread gets its ports, and releases the mutex.
AllListen == <>(raced \/ Finished)
=============================================================================
