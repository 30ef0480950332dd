---------------------------- MODULE RoundRobin ----------------------------
(***************************************************************************)
(* What the muk scheduler promises its threads: nobody runs until the      *)
(* first switch, the first thread created runs first, and from then on the *)
(* CPU goes round the threads in the order in which they were created,     *)
(* skipping none.                                                          *)
(***************************************************************************)
EXTENDS Naturals

CONSTANT N            \* the number of kernel threads
VARIABLE turn         \* the thread that has the CPU, 0 before the first one

Successor(t) == IF t = N THEN 1 ELSE t + 1

Init == turn = 0

\* The first switch gives the CPU to the first thread.
First == turn = 0 /\ turn' = 1

\* Every other switch gives it to the next thread in creation order.
Rotate == turn # 0 /\ turn' = Successor(turn)

Next == First \/ Rotate

Spec == Init /\ [][Next]_turn

\* The CPU keeps going round.
FairSpec == Spec /\ WF_turn(Rotate)
===========================================================================
