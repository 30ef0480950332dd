------------------------------- MODULE MCHeap -------------------------------
(* Pages of four bytes and tables of two pages: a block may cross both.    *)
EXTENDS Heap

Region(base, length, available) ==
  [base |-> base, length |-> length, available |-> available]

LargeRam == << Region(0, 64, TRUE) >>

\* So little RAM that it runs out.
SmallRam == << Region(0, 24, TRUE) >>

\* RAM, a reserved page, RAM.
SplitMap == << Region(0, 16, TRUE), Region(16, 4, FALSE), Region(20, 28, TRUE) >>

\* A region that begins inside a page, and one that lies above the address
\* space of the machine.
OddMap == << Region(2, 44, TRUE), Region(128, 16, TRUE) >>

Machines == {LargeRam, SmallRam, SplitMap, OddMap}
Leftovers == {{}, {0, 4, 15}}
=============================================================================
