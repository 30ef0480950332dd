-------------------------------- MODULE Heap --------------------------------
(***************************************************************************)
(* kernel/memory/heap.cpp: vmalloc, which every new and malloc of the      *)
(* kernel calls, on top of MapPage.  Nothing is ever freed.                *)
(*                                                                         *)
(* vmalloc runs with interrupts off and is taken apart here only to follow *)
(* it through the memory it uses: the list of blocks lies in the heap      *)
(* itself, so a header is found by translating its address, and clearing a *)
(* frame clears every header in it.                                        *)
(***************************************************************************)
EXTENDS Memory

CONSTANTS kHeapStart,    \* address of the heap (0xE0000000)
          HeaderSize,    \* sizeof(BlockHeader)
          Sizes,         \* the sizes that are asked for
          Screen,        \* directory entry of the frame buffer (0xD0000000)
          MaxCalls       \* how many blocks are allocated in the model

\* The address space above kHeapStart (0.5 GiB) has room for all the memory
\* that the bitmap describes, and the frame buffer is mapped below it.
ASSUME HeapAssumption ==
  /\ kHeapStart \in Nat \ {0} /\ kHeapStart % PageSize = 0
  /\ kHeapStart + BitmapPages * PageSize <= DirSize * TableSize * PageSize
  /\ HeaderSize \in Nat \ {0}
  /\ Sizes \subseteq Nat /\ MaxCalls \in Nat
  /\ Screen \in 0 .. (kHeapStart \div PageSize) \div TableSize - 1

VARIABLES kheap_top,     \* end of the mapped part
          kheap_start,   \* 0 until the first call
          headers,       \* each frame, read as block headers
          interrupts,    \* the interrupt flag
          pc,            \* where vmalloc is
          size, found_block, end_of_block,
          given          \* history: the blocks that vmalloc returned

heapVars == <<kheap_top, kheap_start, headers, interrupts, pc, size,
              found_block, end_of_block, given>>
vars == <<memVars, heapVars>>

PageNumber(address) == address \div PageSize
DirIndex(address) == PageNumber(address) \div TableSize
TableIndex(address) == PageNumber(address) % TableSize
FrameOf(address) == Translate(DirIndex(address), TableIndex(address))
MapAddress(address) == MapPage(DirIndex(address), TableIndex(address), 0)

Offset == 0 .. PageSize - 1
Header(length, next) == [size |-> length, next |-> next]
HeaderAt(address) == headers[FrameOf(address)][address % PageSize]

Mapped(address) == DirIndex(address) \in Dir /\ FrameOf(address) \in Frame

\* memset(address, 0, kPageSize)
ClearPage(address) ==
  /\ Mapped(address)
  /\ headers' = [headers EXCEPT ![FrameOf(address)] =
                   [o \in Offset |-> Header(0, 0)]]
  /\ tables' = [tables EXCEPT ![FrameOf(address)] = Blank]
  /\ UNCHANGED <<bitmap, free_pages, page_dir, mmap, garbage, exhausted>>

Init ==
  /\ MemInit
  /\ kheap_top = kHeapStart
  /\ kheap_start = 0
  /\ headers = [f \in Frame |-> [o \in Offset |-> Header(1, 0)]]
  /\ interrupts = FALSE
  /\ pc = "idle"
  /\ size = 0
  /\ found_block = kHeapStart
  /\ end_of_block = 0
  /\ given = {}

MemorySetup ==
  /\ \E map \in Maps, old \in Garbage : Setup(map, old)
  /\ UNCHANGED heapVars

\* Graphics::Setup maps the frame buffer.
MapScreen(t, physical) ==
  /\ pc = "idle"
  /\ MapPage(Screen, t, physical)
  /\ UNCHANGED heapVars

\* vmalloc(0): "Cannot malloc 0 bytes!"
VmallocNothing ==
  /\ pc = "idle" /\ mmap # << >>
  /\ 0 \in Sizes
  /\ interrupts' = FALSE
  /\ UNCHANGED <<memVars, kheap_top, kheap_start, headers, pc, size,
                 found_block, end_of_block, given>>

\* A vmalloc that initialises the heap whenever it is called.
VmallocAlwaysFirst(n) ==
  /\ pc = "idle" /\ mmap # << >>
  /\ n > 0 /\ Cardinality(given) < MaxCalls
  /\ interrupts' = FALSE
  /\ size' = n
  /\ found_block' = kHeapStart
  /\ pc' = "first page"
  /\ UNCHANGED <<memVars, kheap_top, kheap_start, headers, end_of_block, given>>

Vmalloc(n) ==
  /\ pc = "idle" /\ mmap # << >>
  /\ n > 0 /\ Cardinality(given) < MaxCalls
  /\ interrupts' = FALSE
  /\ size' = n
  /\ found_block' = kHeapStart
  /\ pc' = IF kheap_start = 0 THEN "first page" ELSE "walk"
  /\ UNCHANGED <<memVars, kheap_top, kheap_start, headers, end_of_block, given>>

\* The first call maps the first page ...
MapFirstPage ==
  /\ pc = "first page"
  /\ MapAddress(kHeapStart)
  /\ pc' = "clear first"
  /\ UNCHANGED <<kheap_top, kheap_start, headers, interrupts, size,
                 found_block, end_of_block, given>>

\* ... and clears it; kheap_top does not count it.
ClearFirstPage ==
  /\ pc = "clear first"
  /\ ClearPage(kHeapStart)
  /\ kheap_start' = kHeapStart
  /\ kheap_top' = kHeapStart
  /\ pc' = "walk"
  /\ UNCHANGED <<interrupts, size, found_block, end_of_block, given>>

\* A test that does not expect a block to follow itself.
HasNoNext(address) == HeaderAt(address).next = 0

\* The last block has no next block or, if it is the first one, itself.
IsLast(address) == HeaderAt(address).next \in {0, address}

Walk ==
  /\ pc = "walk" /\ Mapped(found_block)
  /\ ~IsLast(found_block)
  /\ found_block' = HeaderAt(found_block).next
  /\ UNCHANGED <<memVars, kheap_top, kheap_start, headers, interrupts, pc,
                 size, end_of_block, given>>

EndOf(address) == address + HeaderAt(address).size

WalkEnds ==
  /\ pc = "walk" /\ Mapped(found_block)
  /\ IsLast(found_block)
  /\ size' = size + HeaderSize
  /\ end_of_block' = EndOf(found_block)
  /\ pc' = "map"
  /\ UNCHANGED <<memVars, kheap_top, kheap_start, headers, interrupts,
                 found_block, given>>

\* A test that leaves out the header.
NeedsPageForDataOnly == end_of_block + size - HeaderSize > kheap_top

NeedsPage == end_of_block + size > kheap_top

\* map_heap_pages
MapHeapPage ==
  /\ pc = "map"
  /\ NeedsPage
  /\ MapAddress(kheap_top)
  /\ pc' = "clear"
  /\ UNCHANGED <<kheap_top, kheap_start, headers, interrupts, size,
                 found_block, end_of_block, given>>

NextTop == kheap_top + PageSize

ClearHeapPage ==
  /\ pc = "clear"
  /\ ClearPage(kheap_top)
  /\ kheap_top' = NextTop
  /\ pc' = "map"
  /\ UNCHANGED <<kheap_start, interrupts, size, found_block, end_of_block,
                 given>>

Store(memory, address, header) ==
  [memory EXCEPT ![FrameOf(address)][address % PageSize] = header]

\* A new block that is not linked to the one before it.
WithoutLink(memory) == memory

\* found_block->next = next_block
Linked(memory) ==
  [memory EXCEPT ![FrameOf(found_block)][found_block % PageSize].next =
                   end_of_block]

LinkBlock ==
  /\ pc = "map" /\ Mapped(end_of_block) /\ Mapped(found_block)
  /\ ~NeedsPage
  /\ headers' = Linked(Store(headers, end_of_block, Header(size, 0)))
  /\ given' = given \cup {[start |-> end_of_block, end |-> end_of_block + size]}
  /\ interrupts' = TRUE
  /\ pc' = "idle"
  /\ UNCHANGED <<memVars, kheap_top, kheap_start, size, found_block,
                 end_of_block>>

\* The page that the next step touches is not mapped (any more): isr_handler
\* prints the exception and returns to the same instruction.
PageFault ==
  /\ \/ pc = "walk" /\ ~Mapped(found_block)
     \/ pc = "clear" /\ ~Mapped(kheap_top)
     \/ pc = "map" /\ ~NeedsPage
                   /\ ~(Mapped(end_of_block) /\ Mapped(found_block))
  /\ UNCHANGED vars

Next ==
  \/ MemorySetup
  \/ \E t \in Index, physical \in Device : MapScreen(t, physical)
  \/ VmallocNothing
  \/ \E n \in Sizes : Vmalloc(n)
  \/ MapFirstPage \/ ClearFirstPage \/ Walk \/ WalkEnds
  \/ MapHeapPage \/ ClearHeapPage \/ LinkBlock \/ PageFault

Spec == Init /\ [][Next]_vars

\* The caller of vmalloc is not interrupted.
FairSpec == Spec /\ WF_vars(\/ MapFirstPage \/ ClearFirstPage \/ Walk \/ WalkEnds
                            \/ MapHeapPage \/ ClearHeapPage \/ LinkBlock)

-----------------------------------------------------------------------------
(* Properties *)

Points == {"idle", "first page", "clear first", "walk", "map", "clear"}

TypeOK ==
  /\ MemTypeOK
  /\ kheap_top \in Nat /\ kheap_top % PageSize = 0
  /\ kheap_start \in {0, kHeapStart}
  /\ \A f \in Frame, o \in Offset : /\ headers[f][o].size \in Nat
                                    /\ headers[f][o].next \in Nat
  /\ interrupts \in BOOLEAN
  /\ pc \in Points
  /\ size \in Nat /\ found_block \in Nat /\ end_of_block \in Nat
  /\ \A b \in given : b.start \in Nat /\ b.end \in Nat

\* As long as there is memory, no byte is given to two callers and every byte
\* that was given is mapped.
BlocksDisjoint ==
  /\ TypeOK
  /\ exhausted \/
       /\ \A b, c \in given : b # c => b.end <= c.start \/ c.end <= b.start
       /\ \A b \in given : \A a \in b.start .. b.end - 1 : Mapped(a)

\* Clearing a page of the heap, and the first page is cleared twice, never
\* hits the frame of a page that holds a block, or a page table.
ClearsOnlyFresh ==
  (pc \in {"clear first", "clear"} /\ ~exhausted) =>
    LET target == IF pc = "clear" THEN kheap_top ELSE kHeapStart
    IN /\ FrameOf(target) \notin TableFrames
       /\ \A b \in given : \A a \in b.start .. b.end - 1 :
             FrameOf(a) # FrameOf(target)

\* The list of blocks in the heap is what vmalloc has given out: starting at
\* kheap_start every block is reached from the one before it, in order.
ListComplete ==
  exhausted \/ pc # "idle" \/
    \A b \in given :
      /\ HeaderAt(b.start).size = b.end - b.start
      /\ HeaderAt(b.start).next =
           IF \E c \in given : c.start = b.end THEN b.end
           ELSE IF b.start = kHeapStart THEN kHeapStart ELSE 0

\* vmalloc comes back: the walk through the list ends.
VmallocReturns == (pc # "idle" /\ ~exhausted) ~> (pc = "idle" \/ exhausted)
=============================================================================
