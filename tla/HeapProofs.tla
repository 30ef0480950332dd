----------------------------- MODULE HeapProofs -----------------------------
(***************************************************************************)
(* Proofs about Memory and Heap for every number of pages, every shape of  *)
(* the page tables, every memory map and every content of the bitmap       *)
(* before Setup.  While memory lasts frames are never shared and mappings  *)
(* never move; and so no byte of the heap has two owners, and the list of  *)
(* its headers, which lies in those frames, stays whole.                   *)
(***************************************************************************)
EXTENDS Heap, FiniteSetTheorems, NaturalsInduction, WellFoundedInduction, TLAPS

\* free_pages is left out: nothing reads it, and the sum that Setup stores in
\* it is a fold.
Shape ==
  /\ bitmap \subseteq Frame
  /\ page_dir \in [Dir -> Frame \cup {NoFrame}]
  /\ tables \in [Frame -> [Index -> Frame \cup Device \cup {NoFrame, Junk}]]
  /\ exhausted \in BOOLEAN

\* No page table exists before Setup.
NothingBeforeSetup ==
  mmap = << >> => \A d \in Dir : page_dir[d] = NoFrame

TablesApart ==
  \A d, e \in Dir : page_dir[d] # NoFrame /\ page_dir[d] = page_dir[e] => d = e
PagesApart ==
  \A d, e \in Dir, t, u \in Index :
     Translate(d, t) \in Frame /\ Translate(d, t) = Translate(e, u)
       => d = e /\ t = u
NoJunk ==
  \A d \in Dir, t \in Index : Translate(d, t) \in Frame \cup Device \cup {NoFrame}
TablesAreNotPages ==
  \A d, e \in Dir, t \in Index :
     page_dir[d] # NoFrame => Translate(e, t) # page_dir[d]
InUseIsTaken ==
  /\ bitmap \cap KernelPages = {}
  /\ \A d \in Dir : page_dir[d] \notin bitmap \cup KernelPages
  /\ \A d \in Dir, t \in Index : Translate(d, t) \in Frame =>
        Translate(d, t) \notin bitmap \cup KernelPages

Exclusive ==
  TablesApart /\ PagesApart /\ NoJunk /\ TablesAreNotPages /\ InUseIsTaken

IndInv == Shape /\ NothingBeforeSetup /\ (exhausted \/ Exclusive)

-----------------------------------------------------------------------------
(* The bitmap *)

\* AllocatePage returns a page whose bit is set, if there is one.
LEMMA FirstFreeIsFree ==
  ASSUME NEW pages \in SUBSET Frame
  PROVE  /\ pages # {} => FirstFree(pages) \in pages
         /\ pages = {} => FirstFree(pages) = 0
         /\ FirstFree(pages) \in Frame
         /\ Taken(pages) \subseteq pages
         /\ FirstFree(pages) \notin Taken(pages)
<1>1. ASSUME pages # {} PROVE FirstFree(pages) \in pages
  <2>1. pages \subseteq Nat
    BY MemoryAssumption DEF Frame
  <2>2. IsWellFoundedOn(OpToRel(<, Nat), Nat)
    BY NatLessThanWellFounded
  <2>3. PICK x \in pages : \A y \in pages : ~ (<<y, x>> \in OpToRel(<, Nat))
    <3> HIDE DEF Frame
    <3> QED BY ONLY <1>1, <2>1, <2>2, WFMin, Zenon
  <2>4. \A y \in pages : x =< y
    <3> SUFFICES ASSUME NEW y \in pages, y < x PROVE FALSE
      BY <2>1
    <3>1. <<y, x>> \in Nat \X Nat /\ <<y, x>>[1] < <<y, x>>[2]
      BY <2>1
    <3>2. <<y, x>> \in OpToRel(<, Nat)
      BY ONLY <3>1, Zenon DEF OpToRel
    <3> QED BY <2>3, <3>2
  <2>5. Min(pages) \in pages
    BY <2>4 DEF Min
  <2> QED BY <1>1, <2>5 DEF FirstFree
<1>2. pages = {} => FirstFree(pages) = 0
  BY DEF FirstFree
<1>3. 0 \in Frame
  BY MemoryAssumption DEF Frame
<1> QED BY <1>1, <1>2, <1>3 DEF Taken

-----------------------------------------------------------------------------
(* Every step keeps the invariant *)

LEMMA InitHolds == MemInit => IndInv
<1> SUFFICES ASSUME MemInit PROVE IndInv
  OBVIOUS
<1>1. Shape /\ NothingBeforeSetup
  BY MemoryAssumption DEF MemInit, Shape, NothingBeforeSetup
<1>2. Exclusive
  BY MemoryAssumption DEF MemInit, Exclusive, TablesApart, PagesApart, NoJunk,
     TablesAreNotPages, InUseIsTaken, Translate, Frame, KernelPages
<1> QED BY <1>1, <1>2 DEF IndInv

\* Setup fills the bitmap when no page table exists.
LEMMA SetupKeeps ==
  ASSUME IndInv, NEW map, NEW old, Setup(map, old)
  PROVE  IndInv'
<1>1. /\ bitmap' \subseteq Frame \ KernelPages
      /\ \A d \in Dir : page_dir[d] = NoFrame
      /\ page_dir' = page_dir /\ tables' = tables /\ exhausted' = exhausted
  BY DEF IndInv, NothingBeforeSetup, Setup
<1>2. Shape' /\ NothingBeforeSetup'
  BY <1>1 DEF IndInv, Shape, NothingBeforeSetup
<1>3. \A d \in Dir, t \in Index : Translate(d, t)' = NoFrame
  BY <1>1 DEF Translate
<1>4. NoFrame \notin Frame /\ NoFrame \notin KernelPages
  BY MemoryAssumption DEF Frame, KernelPages
<1>5. Exclusive'
  BY <1>1, <1>3, <1>4 DEF Exclusive, TablesApart, PagesApart, NoJunk,
     TablesAreNotPages, InUseIsTaken
<1> QED BY <1>2, <1>5 DEF IndInv

\* The frame that MapPage enters for a page, when it could get one.
LEMMA FrameForPage ==
  ASSUME NEW physical \in Device \cup {0}, NEW pages \in SUBSET Frame
  PROVE  /\ FrameFor(physical, pages) \in Frame \cup Device
         /\ PagesAfter(physical, pages) \subseteq pages
         /\ ~(physical = 0 /\ pages = {}) =>
               \/ FrameFor(physical, pages) \in Device
               \/ /\ FrameFor(physical, pages) \in pages
                  /\ FrameFor(physical, pages) \notin PagesAfter(physical, pages)
BY FirstFreeIsFree DEF FrameFor, PagesAfter

\* A page in an existing table: one entry changes, which was empty.
LEMMA NewPageTranslates ==
  ASSUME IndInv, ~exhausted, NEW d \in Dir, NEW t \in Index,
         NEW physical \in Device \cup {0}, MapNewPage(d, t, physical)
  PROVE  /\ Translate(d, t) = NoFrame
         /\ \A e \in Dir, u \in Index :
               Translate(e, u)' = IF e = d /\ u = t
                                  THEN FrameFor(physical, bitmap)
                                  ELSE Translate(e, u)
<1>1. /\ page_dir[d] \in Frame /\ tables[page_dir[d]][t] = NoFrame
      /\ page_dir' = page_dir
      /\ tables' = [tables EXCEPT ![page_dir[d]][t] = FrameFor(physical, bitmap)]
  BY DEF IndInv, Shape, MapNewPage
<1>2. \A e \in Dir : /\ page_dir[e] \in Frame \cup {NoFrame}
                     /\ e # d /\ page_dir[e] # NoFrame => page_dir[e] # page_dir[d]
  BY DEF IndInv, Shape, Exclusive, TablesApart
<1>3. tables \in [Frame -> [Index -> Frame \cup Device \cup {NoFrame, Junk}]]
  BY DEF IndInv, Shape
<1>4. \A f \in Frame, u \in Index :
         tables'[f][u] = IF f = page_dir[d] /\ u = t THEN FrameFor(physical, bitmap)
                                                   ELSE tables[f][u]
  BY <1>1, <1>3
<1> QED
  BY <1>1, <1>2, <1>4, MemoryAssumption DEF Translate, Frame

LEMMA NewPageKeeps ==
  ASSUME IndInv, NEW d \in Dir, NEW t \in Index,
         NEW physical \in Device \cup {0}, mmap # << >>,
         MapNewPage(d, t, physical)
  PROVE  IndInv'
<1> DEFINE frame == FrameFor(physical, bitmap)
<1>1. /\ frame \in Frame \cup Device
      /\ bitmap' \subseteq bitmap
  BY FrameForPage DEF IndInv, Shape, MapNewPage
<1>2. Shape' /\ NothingBeforeSetup'
  <2>1. bitmap' \subseteq Frame /\ page_dir' \in [Dir -> Frame \cup {NoFrame}]
    BY <1>1 DEF IndInv, Shape, MapNewPage
  <2>2. tables' \in [Frame -> [Index -> Frame \cup Device \cup {NoFrame, Junk}]]
    <3> HIDE DEF frame
    <3>1. tables' = [tables EXCEPT ![page_dir[d]][t] = frame]
      BY DEF MapNewPage, frame
    <3> QED BY <1>1, <3>1 DEF IndInv, Shape
  <2>3. exhausted' \in BOOLEAN
    BY DEF MapNewPage
  <2>4. NothingBeforeSetup'
    BY DEF NothingBeforeSetup, MapNewPage
  <2> QED BY <2>1, <2>2, <2>3, <2>4 DEF Shape
<1>3. ASSUME ~exhausted' PROVE Exclusive'
  <2>1. ~exhausted /\ ~(physical = 0 /\ bitmap = {}) /\ Exclusive
    BY <1>3 DEF MapNewPage, IndInv
  <2>2. frame \in Device \/ (frame \in bitmap /\ frame \notin bitmap')
    BY <2>1, FrameForPage DEF IndInv, Shape, MapNewPage
  <2>3. /\ page_dir' = page_dir
        /\ \A e \in Dir, u \in Index :
             Translate(e, u)' = IF e = d /\ u = t THEN frame ELSE Translate(e, u)
    <3>1. page_dir' = page_dir
      BY DEF MapNewPage
    <3>2. \A e \in Dir, u \in Index :
             Translate(e, u)' = IF e = d /\ u = t THEN frame ELSE Translate(e, u)
      BY <2>1, NewPageTranslates
    <3> QED
      BY <3>1, <3>2
  <2>4. Device \cap Frame = {} /\ bitmap \subseteq Frame /\ NoFrame \notin Frame
    BY MemoryAssumption DEF IndInv, Shape, Frame
  <2>5. \A e \in Dir : page_dir[e] \in Frame \cup {NoFrame}
    BY DEF IndInv, Shape
  <2> HIDE DEF frame
  <2>6. TablesApart'
    BY <2>1, <2>3 DEF Exclusive, TablesApart
  <2>7. PagesApart'
    BY <2>1, <2>2, <2>3, <2>4 DEF Exclusive, PagesApart, InUseIsTaken
  <2>8. NoJunk'
    BY <1>1, <2>1, <2>3 DEF Exclusive, NoJunk
  <2>9. TablesAreNotPages'
    BY <2>1, <2>2, <2>3, <2>4, <2>5
       DEF Exclusive, TablesAreNotPages, InUseIsTaken
  <2>10. InUseIsTaken'
    BY <1>1, <2>1, <2>2, <2>3, <2>4 DEF Exclusive, InUseIsTaken
  <2> QED BY <2>6, <2>7, <2>8, <2>9, <2>10 DEF Exclusive
<1> QED BY <1>2, <1>3 DEF IndInv, Shape

\* The frames of a new table and of its first page, when there were two.
LEMMA NewTableFrames ==
  ASSUME NEW physical \in Device \cup {0}, NEW pages \in SUBSET Frame,
         pages # {}, ~(physical = 0 /\ Taken(pages) = {})
  PROVE  LET table == FirstFree(pages)
             page == FrameFor(physical, Taken(pages))
             rest == PagesAfter(physical, Taken(pages))
         IN /\ table \in pages /\ table \notin rest /\ page # table
            /\ page \in Device \/ (page \in pages /\ page \notin rest)
<1>1. /\ Taken(pages) \in SUBSET Frame
      /\ Taken(pages) \subseteq pages
      /\ FirstFree(pages) \in pages
      /\ FirstFree(pages) \notin Taken(pages)
  BY FirstFreeIsFree
<1>2. Device \cap Frame = {}
  BY MemoryAssumption
<1> QED BY <1>1, <1>2, FrameForPage

\* A page in a new table: the other pages of that table are empty, and no
\* other table has changed, because the frame was free.
LEMMA NewTableTranslates ==
  ASSUME IndInv, ~exhausted, NEW d \in Dir, NEW t \in Index,
         NEW physical \in Device \cup {0}, bitmap # {},
         MapNewTable(d, t, physical)
  PROVE  /\ \A u \in Index : Translate(d, u) = NoFrame
         /\ \A e \in Dir, u \in Index :
               Translate(e, u)' = IF e = d /\ u = t
                                  THEN FrameFor(physical, Taken(bitmap))
                                  ELSE Translate(e, u)
<1> DEFINE table == FirstFree(bitmap)
           page == FrameFor(physical, Taken(bitmap))
<1>1. table \in bitmap /\ table \in Frame
  BY FirstFreeIsFree DEF IndInv, Shape
<1>2. /\ page_dir[d] = NoFrame
      /\ page_dir' = [page_dir EXCEPT ![d] = table]
      /\ tables' = [tables EXCEPT ![table] = [Blank EXCEPT ![t] = page]]
  BY DEF MapNewTable
<1> HIDE DEF table, page
<1>3. table # NoFrame
  BY <1>1, MemoryAssumption DEF Frame
<1>4. \A u \in Index : Translate(d, u) = NoFrame
  BY <1>2 DEF Translate
<1>5. \A u \in Index :
         Translate(d, u)' = IF u = t THEN page ELSE NoFrame
  BY <1>1, <1>2, <1>3 DEF Translate, Blank, IndInv, Shape
<1>6. \A e \in Dir \ {d}, u \in Index : Translate(e, u)' = Translate(e, u)
  <2>1. \A e \in Dir : page_dir[e] # table
    BY <1>1 DEF IndInv, Exclusive, InUseIsTaken
  <2> QED BY <1>1, <1>2, <2>1 DEF Translate, IndInv, Shape
<1> QED BY <1>4, <1>5, <1>6 DEF page

LEMMA NewTableKeeps ==
  ASSUME IndInv, NEW d \in Dir, NEW t \in Index,
         NEW physical \in Device \cup {0}, mmap # << >>,
         MapNewTable(d, t, physical)
  PROVE  IndInv'
<1> DEFINE table == FirstFree(bitmap)
           page == FrameFor(physical, Taken(bitmap))
<1>1. /\ table \in Frame
      /\ page \in Frame \cup Device
      /\ bitmap' \subseteq bitmap
  <2>1. Taken(bitmap) \in SUBSET Frame /\ Taken(bitmap) \subseteq bitmap
    BY FirstFreeIsFree DEF IndInv, Shape
  <2> QED BY <2>1, FirstFreeIsFree, FrameForPage DEF IndInv, Shape, MapNewTable
<1>2. /\ page_dir' = [page_dir EXCEPT ![d] = table]
      /\ tables' = [tables EXCEPT ![table] = [Blank EXCEPT ![t] = page]]
      /\ mmap' = mmap
      /\ exhausted' = (exhausted \/ bitmap = {}
                         \/ (physical = 0 /\ Taken(bitmap) = {}))
  BY DEF MapNewTable
<1>3. Shape' /\ NothingBeforeSetup'
  <2> HIDE DEF table, page
  <2>1. [Blank EXCEPT ![t] = page]
          \in [Index -> Frame \cup Device \cup {NoFrame, Junk}]
    BY <1>1 DEF Blank
  <2> QED BY <1>1, <1>2, <2>1 DEF IndInv, Shape, NothingBeforeSetup
<1>4. ASSUME ~exhausted' PROVE Exclusive'
  <2>1. /\ ~exhausted /\ bitmap # {} /\ Exclusive
        /\ ~(physical = 0 /\ Taken(bitmap) = {})
    BY <1>2, <1>4 DEF IndInv
  <2>2. /\ table \in bitmap /\ table \notin bitmap' /\ page # table
        /\ page \in Device \/ (page \in bitmap /\ page \notin bitmap')
    BY <2>1, NewTableFrames DEF IndInv, Shape, MapNewTable
  <2>3. /\ \A u \in Index : Translate(d, u) = NoFrame
        /\ \A e \in Dir, u \in Index :
             Translate(e, u)' = IF e = d /\ u = t THEN page ELSE Translate(e, u)
    BY <2>1, NewTableTranslates
  <2>4. Device \cap Frame = {} /\ bitmap \subseteq Frame /\ NoFrame \notin Frame
    BY MemoryAssumption DEF IndInv, Shape, Frame
  <2>5. \A e \in Dir : /\ page_dir[e] \in Frame \cup {NoFrame}
                       /\ page_dir'[e] = IF e = d THEN table ELSE page_dir[e]
    BY <1>2 DEF IndInv, Shape
  <2> HIDE DEF table, page
  <2>6. TablesApart'
    BY <2>1, <2>2, <2>5 DEF Exclusive, TablesApart, InUseIsTaken
  <2>7. PagesApart'
    BY <2>1, <2>2, <2>3, <2>4 DEF Exclusive, PagesApart, InUseIsTaken
  <2>8. NoJunk'
    BY <1>1, <2>1, <2>3 DEF Exclusive, NoJunk
  <2>9. TablesAreNotPages'
    BY <2>1, <2>2, <2>3, <2>4, <2>5
       DEF Exclusive, TablesAreNotPages, InUseIsTaken
  <2>10. InUseIsTaken'
    BY <1>1, <2>1, <2>2, <2>3, <2>4, <2>5 DEF Exclusive, InUseIsTaken
  <2> QED BY <2>6, <2>7, <2>8, <2>9, <2>10 DEF Exclusive
<1> QED BY <1>3, <1>4 DEF IndInv, Shape

LEMMA StutterKeeps == IndInv /\ UNCHANGED memVars => IndInv'
BY DEF IndInv, Shape, NothingBeforeSetup, Exclusive, TablesApart, PagesApart,
   NoJunk, TablesAreNotPages, InUseIsTaken, Translate, memVars

LEMMA StepKeeps == IndInv /\ [MemNext]_memVars => IndInv'
<1> SUFFICES ASSUME IndInv, [MemNext]_memVars PROVE IndInv'
  OBVIOUS
<1>1. CASE \E map \in Maps, old \in Garbage : Setup(map, old)
  BY <1>1, SetupKeeps
<1>2. CASE \E d \in Dir, t \in Index, physical \in Device \cup {0} :
             MapPage(d, t, physical)
  BY <1>2, NewPageKeeps, NewTableKeeps, StutterKeeps DEF MapPage, MapAgain
<1>3. CASE UNCHANGED memVars
  BY <1>3, StutterKeeps
<1> QED BY <1>1, <1>2, <1>3 DEF MemNext

\* The strengthened invariant of manager.cpp.
THEOREM Invariance == MemSpec => []IndInv
BY InitHolds, StepKeeps, PTL DEF MemSpec

-----------------------------------------------------------------------------
(* What it gives *)

LEMMA ExclusiveFrames == IndInv => FramesExclusive
<1> SUFFICES ASSUME IndInv, ~exhausted PROVE FramesExclusive
  BY DEF FramesExclusive
<1>1. Exclusive
  BY DEF IndInv
<1>2. NoFrame \notin Frame
  BY MemoryAssumption DEF Frame
<1>3. PageFrames \subseteq Frame
  BY <1>1 DEF Exclusive, NoJunk, PageFrames
<1>4. PageFrames \cap TableFrames = {}
  BY <1>1 DEF Exclusive, TablesAreNotPages, PageFrames, TableFrames
<1>5. (TableFrames \cup PageFrames) \cap (bitmap \cup KernelPages) = {}
  BY <1>1, <1>3 DEF Exclusive, InUseIsTaken, PageFrames, TableFrames
<1> QED BY <1>1, <1>3, <1>4, <1>5
     DEF FramesExclusive, Exclusive, TablesApart, PagesApart

\* No frame is used twice, handed out while in use, or taken from the kernel,
\* as long as AllocatePage never returned NULL: whatever pages are mapped.
THEOREM FramesAreExclusive == MemSpec => []FramesExclusive
BY ExclusiveFrames, Invariance, PTL

\* A page that a table translates keeps its frame.
MappingStays == ~exhausted' => \A d \in Dir, t \in Index :
                  Translate(d, t) # NoFrame => Translate(d, t)' = Translate(d, t)

LEMMA MemoryKeepsMappings ==
  ASSUME IndInv, MemNext
  PROVE  MappingStays
<1> SUFFICES ASSUME ~exhausted', NEW e \in Dir, NEW u \in Index,
                    Translate(e, u) # NoFrame
             PROVE  Translate(e, u)' = Translate(e, u)
  BY DEF MappingStays
<1>1. CASE \E map \in Maps, old \in Garbage : Setup(map, old)
  BY <1>1 DEF Setup, Translate
<1>2. ASSUME NEW d \in Dir, NEW t \in Index, NEW physical \in Device \cup {0},
             MapPage(d, t, physical)
      PROVE  Translate(e, u)' = Translate(e, u)
  <2>1. CASE MapNewPage(d, t, physical)
    BY <2>1, NewPageTranslates DEF MapNewPage
  <2>2. CASE MapNewTable(d, t, physical)
    BY <2>2, NewTableTranslates DEF MapNewTable
  <2>3. CASE MapAgain(d, t)
    BY <2>3 DEF MapAgain, memVars, Translate
  <2> QED BY <1>2, <2>1, <2>2, <2>3 DEF MapPage
<1> QED BY <1>1, <1>2 DEF MemNext

\* A mapped page keeps its frame, whatever pages are mapped after it.
THEOREM MappingsNeverMove == MemSpec => MappingsStay
<1>1. IndInv /\ [MemNext]_memVars => [MappingStays]_memVars
  BY MemoryKeepsMappings
<1> QED BY <1>1, Invariance, PTL DEF MemSpec, MappingsStay, MappingStays

-----------------------------------------------------------------------------
(* The heap *)

\* The pages of the heap by number.
Page(n) == Translate(n \div TableSize, n % TableSize)
First == PageNumber(kHeapStart)
Top == PageNumber(kheap_top)

HeapType ==
  /\ free_pages \in 0 .. Word - 1
  /\ mmap \in Maps \cup {<< >>}
  /\ garbage \in SUBSET Frame
  /\ kheap_top \in Nat /\ kheap_top % PageSize = 0
  /\ kheap_start \in {0, kHeapStart}
  /\ headers \in [Frame -> [Offset -> [size : Nat, next : Nat]]]
  /\ interrupts \in BOOLEAN
  /\ pc \in Points
  /\ size \in Nat /\ found_block \in Nat /\ end_of_block \in Nat
  /\ \A b \in given : b.start \in Nat /\ b.end \in Nat

\* Only the frame buffer is outside the RAM.
RamBelowHeap ==
  \A d \in Dir, t \in Index : d # Screen => Translate(d, t) \notin Device

\* The heap has a frame for each page below kheap_top, and for the one that
\* is cleared next.  There are fewer than the bitmap has bits.
HeapMapped ==
  /\ kHeapStart <= kheap_top
  /\ Top - First < BitmapPages
  /\ \A n \in First .. Top - 1 : Page(n) \in Frame
  /\ pc = "clear" => Page(Top) \in Frame
  /\ pc = "clear first" \/ kheap_start # 0 => Page(First) \in Frame

\* The first call, and only that one, finds kheap_start = 0.
FirstCall ==
  /\ pc \in {"first page", "clear first"} => kheap_start = 0
  /\ kheap_start = 0 => given = {} /\ pc \in {"idle", "first page", "clear first"}
  /\ given = {} /\ kheap_start # 0 => pc \in {"walk", "map", "clear"}

\* Blocks lie between kHeapStart and kheap_top, one behind the other.
Layout ==
  /\ \A b \in given : kHeapStart <= b.start /\ b.start < b.end /\ b.end <= kheap_top
  /\ \A b, c \in given : b # c => b.end <= c.start \/ c.end <= b.start
  /\ given # {} => \E b \in given : b.start = kHeapStart
  /\ \A b \in given : \/ \E c \in given : c.start = b.end
                      \/ \A c \in given : c.end <= b.end

\* Each block has its header, which leads to the block behind it.
NextOf(b) == IF \E c \in given : c.start = b.end THEN b.end
             ELSE IF b.start = kHeapStart THEN kHeapStart ELSE 0
ListHolds ==
  /\ \A b \in given : /\ HeaderAt(b.start).size = b.end - b.start
                      /\ HeaderAt(b.start).next = NextOf(b)
  /\ pc = "walk" /\ given = {} => HeaderAt(kHeapStart) = Header(0, 0)

\* The walk is at a block, and when it has ended, at the last one.
WalkIsAtBlock ==
  /\ pc # "idle" => size > 0
  /\ pc \in {"first page", "clear first"} => found_block = kHeapStart
  /\ pc \in {"walk", "map", "clear"} =>
       /\ given = {} => /\ found_block = kHeapStart
                        /\ pc # "walk" => end_of_block = kHeapStart
       /\ given # {} => \E b \in given :
                           /\ found_block = b.start
                           /\ pc # "walk" => /\ end_of_block = b.end
                                             /\ \A c \in given : c.end <= b.end

\* What holds as long as memory lasts ...
HeapWorks == /\ RamBelowHeap /\ HeapMapped /\ FirstCall
             /\ Layout /\ ListHolds /\ WalkIsAtBlock

\* ... and the inductive invariant of vmalloc.
HeapInv == IndInv /\ HeapType /\ (exhausted \/ HeapWorks)

-----------------------------------------------------------------------------
(* Pages and addresses *)

LEMMA Product ==
  ASSUME NEW x \in Nat, NEW y \in Nat
  PROVE  x * y \in Nat
  OBVIOUS

LEMMA ProductGrows ==
  ASSUME NEW d \in Nat, NEW x \in Nat, NEW y \in Nat, x <= y
  PROVE  d * x <= d * y
<1>1. d * (y - x) \in Nat
  BY Product, y - x \in Nat
<1>2. d * y = d * (y - x) + d * x /\ d * x \in Nat /\ d * y \in Nat
  BY Product
<1> QED  BY <1>1, <1>2

LEMMA Division ==
  ASSUME NEW n \in Nat, NEW d \in Nat \ {0}
  PROVE  /\ n \div d \in Nat /\ n % d \in 0 .. d - 1
         /\ n = d * (n \div d) + (n % d)
         /\ d * (n \div d) \in Nat
<1>1. /\ n \div d \in Nat /\ n % d \in 0 .. d - 1
      /\ n = d * (n \div d) + (n % d)
  OBVIOUS
<1> QED  BY <1>1, Product

LEMMA DivisionGrows ==
  ASSUME NEW d \in Nat \ {0}, NEW x \in Nat, NEW y \in Nat, x <= y
  PROVE  x \div d <= y \div d
<1> DEFINE p == x \div d
           q == y \div d
<1>1. /\ p \in Nat /\ q \in Nat
      /\ x >= d * p /\ y < d * q + d /\ d * p \in Nat /\ d * q \in Nat
  BY Division
<1> HIDE DEF p, q
<1>2. SUFFICES ASSUME q + 1 <= p PROVE FALSE
  BY <1>1 DEF p, q
<1>3. d * (q + 1) <= d * p
  BY <1>1, <1>2, ProductGrows, q + 1 \in Nat
<1>4. d * (q + 1) = d * q + d
  BY <1>1
<1> QED  BY <1>1, <1>3, <1>4

\* A number below a multiple of d has a smaller quotient.
LEMMA DivisionBelow ==
  ASSUME NEW d \in Nat \ {0}, NEW x \in Nat, NEW m \in Nat, x < d * m
  PROVE  x \div d < m
<1> DEFINE p == x \div d
<1>1. p \in Nat /\ x >= d * p /\ d * p \in Nat /\ d * m \in Nat
  BY Division, Product
<1> HIDE DEF p
<1>2. SUFFICES ASSUME m <= p PROVE FALSE
  BY <1>1 DEF p
<1>3. d * m <= d * p
  BY <1>1, <1>2, ProductGrows
<1> QED  BY <1>1, <1>3

LEMMA DivisionAt ==
  ASSUME NEW d \in Nat \ {0}, NEW m \in Nat, NEW r \in 0 .. d - 1
  PROVE  (d * m + r) \div d = m /\ (d * m + r) % d = r
<1> DEFINE n == d * m + r
           q == n \div d
<1>1. n \in Nat /\ d * m \in Nat
  BY Product
<1>2. d * (m + 1) = d * m + d /\ d * (m + 1) \in Nat
  BY Product, m + 1 \in Nat
<1>3. n \div d < m + 1
  <2>1. n < d * (m + 1)
    BY <1>1, <1>2
  <2> HIDE DEF n
  <2> QED  BY <1>1, <2>1, DivisionBelow, m + 1 \in Nat
<1>4. /\ q \in Nat /\ n % d \in 0 .. d - 1 /\ n = d * q + (n % d)
      /\ d * q \in Nat
  <2> HIDE DEF n
  <2> QED  BY <1>1, Division
<1>5. q = m
  <2>1. SUFFICES ASSUME q + 1 <= m PROVE FALSE
    BY <1>3, <1>4
  <2> HIDE DEF q, n
  <2>2. d * (q + 1) <= d * m
    BY <1>4, <2>1, ProductGrows, q + 1 \in Nat
  <2>3. d * (q + 1) = d * q + d
    BY <1>4
  <2>4. n = d * m + r
    BY DEF n
  <2> QED  BY <1>1, <1>4, <2>2, <2>3, <2>4
<1>6. n % d = r
  <2>1. n = d * m + (n % d) /\ n = d * m + r
    BY <1>4, <1>5
  <2> HIDE DEF n
  <2> QED  BY <2>1, <1>1, <1>4
<1> QED  BY <1>5, <1>6

\* What a page and an offset in it say about an address.
LEMMA PageParts ==
  ASSUME NEW a \in Nat
  PROVE  /\ PageNumber(a) \in Nat /\ a % PageSize \in Offset
         /\ a = PageSize * PageNumber(a) + (a % PageSize)
         /\ PageSize * PageNumber(a) \in Nat
  BY Division, MemoryAssumption DEF PageNumber, Offset

LEMMA SameAddress ==
  ASSUME NEW a \in Nat, NEW b \in Nat,
         PageNumber(a) = PageNumber(b), a % PageSize = b % PageSize
  PROVE  a = b
  BY PageParts

LEMMA PageGrows ==
  ASSUME NEW a \in Nat, NEW b \in Nat, a <= b
  PROVE  PageNumber(a) <= PageNumber(b)
  BY DivisionGrows, MemoryAssumption DEF PageNumber

LEMMA PageBelow ==
  ASSUME NEW a \in Nat, NEW b \in Nat, b % PageSize = 0, a < b
  PROVE  PageNumber(a) < PageNumber(b)
<1>1. b = PageSize * PageNumber(b) /\ PageNumber(b) \in Nat
  BY PageParts
<1>2. a \div PageSize < PageNumber(b)
  <2>1. PageSize \in Nat \ {0} /\ a < PageSize * PageNumber(b)
    BY <1>1, MemoryAssumption
  <2> QED  BY <2>1, <1>1, DivisionBelow
<1> QED  BY <1>2 DEF PageNumber

LEMMA NextPage ==
  ASSUME NEW a \in Nat, a % PageSize = 0
  PROVE  /\ a + PageSize \in Nat /\ (a + PageSize) % PageSize = 0
         /\ PageNumber(a + PageSize) = PageNumber(a) + 1
<1> DEFINE p == PageNumber(a)
<1>1. a = PageSize * p /\ p \in Nat /\ PageSize \in Nat \ {0}
  <2>1. a = PageSize * p + (a % PageSize) /\ PageSize * p \in Nat /\ p \in Nat
    BY PageParts
  <2> HIDE DEF p
  <2> QED  BY <2>1, MemoryAssumption
<1> HIDE DEF p
<1>2. a + PageSize = PageSize * (p + 1) + 0
  BY <1>1
<1>3. /\ (PageSize * (p + 1) + 0) \div PageSize = p + 1
      /\ (PageSize * (p + 1) + 0) % PageSize = 0
  BY <1>1, DivisionAt, p + 1 \in Nat, 0 \in 0 .. PageSize - 1
<1> QED  BY <1>1, <1>2, <1>3 DEF PageNumber, p

\* The page numbers of the heap have entries of their own in the directory,
\* behind the one of the frame buffer.
LEMMA HeapEntries ==
  ASSUME NEW n \in Nat, First <= n, n < First + BitmapPages
  PROVE  /\ n \div TableSize \in Dir /\ n % TableSize \in Index
         /\ n \div TableSize # Screen
<1>a. /\ TableSize \in Nat \ {0} /\ DirSize \in Nat \ {0}
      /\ PageSize \in Nat \ {0} /\ BitmapPages \in Nat
  BY MemoryAssumption
<1>1. /\ kHeapStart = PageSize * First /\ First \in Nat
      /\ PageSize * First \in Nat
  <2>1. /\ kHeapStart = PageSize * First + (kHeapStart % PageSize)
        /\ PageSize * First \in Nat /\ First \in Nat
    BY PageParts, HeapAssumption DEF First
  <2> QED  BY <2>1, HeapAssumption
<1> HIDE DEF First
<1>2. First + BitmapPages <= TableSize * DirSize
  <2> DEFINE all == TableSize * DirSize
             sum == First + BitmapPages
  <2>1. all \in Nat /\ sum \in Nat
    BY <1>a, <1>1, Product
  <2>2. PageSize * sum <= PageSize * all
    <3>1. DirSize * TableSize * PageSize = PageSize * all
      BY <1>a
    <3>2. PageSize * sum = PageSize * First + BitmapPages * PageSize
      BY <1>a, <1>1
    <3> QED  BY <3>1, <3>2, <1>1, HeapAssumption
  <2> HIDE DEF all, sum
  <2>3. SUFFICES ASSUME all + 1 <= sum PROVE FALSE
    BY <2>1 DEF all, sum
  <2>4. PageSize * (all + 1) <= PageSize * sum
    BY <1>a, <2>1, <2>3, ProductGrows, all + 1 \in Nat
  <2>5. PageSize * (all + 1) = PageSize * all + PageSize
    BY <1>a, <2>1
  <2>6. PageSize * all \in Nat /\ PageSize * sum \in Nat
    BY <1>a, <2>1, Product
  <2> QED  BY <1>a, <2>2, <2>4, <2>5, <2>6
<1>3. n < TableSize * DirSize
  BY <1>2, <1>1, <1>a, Product
<1>4. n \div TableSize < DirSize
  BY <1>3, <1>a, DivisionBelow
<1>5. n \div TableSize \in Nat /\ n % TableSize \in Index
  BY <1>a, Division DEF Index
<1>6. First \div TableSize <= n \div TableSize /\ First \div TableSize \in Nat
  BY <1>a, <1>1, DivisionGrows, Division
<1>7. Screen < First \div TableSize /\ Screen \in Nat
  BY <1>6, HeapAssumption DEF First, PageNumber
<1> QED  BY <1>4, <1>5, <1>6, <1>7, <1>a DEF Dir

LEMMA PagesDiffer ==
  ASSUME NEW m \in Nat, NEW n \in Nat,
         m \div TableSize = n \div TableSize, m % TableSize = n % TableSize
  PROVE  m = n
<1>1. TableSize \in Nat \ {0}
  BY MemoryAssumption
<1>2. /\ m = TableSize * (m \div TableSize) + (m % TableSize)
      /\ n = TableSize * (n \div TableSize) + (n % TableSize)
  BY <1>1, Division
<1> QED  BY <1>2

-----------------------------------------------------------------------------
(* The frames of the heap *)

\* Two pages of the heap have two frames.
LEMMA FramesDiffer ==
  ASSUME IndInv, ~exhausted,
         NEW m \in Nat, First <= m, m < First + BitmapPages,
         NEW n \in Nat, First <= n, n < First + BitmapPages,
         Page(m) \in Frame, Page(m) = Page(n)
  PROVE  m = n
<1>1. m \div TableSize = n \div TableSize /\ m % TableSize = n % TableSize
  <2>1. /\ m \div TableSize \in Dir /\ m % TableSize \in Index
        /\ n \div TableSize \in Dir /\ n % TableSize \in Index
    BY HeapEntries
  <2> QED  BY <2>1 DEF Page, IndInv, Exclusive, PagesApart
<1> QED  BY <1>1, PagesDiffer

\* The heap cannot outgrow its addresses: no two of its pages have the same
\* frame, and one frame is the kernel's.
LEMMA FewPages ==
  ASSUME IndInv, ~exhausted, NEW k \in Nat, k <= BitmapPages,
         \A n \in First .. First + k - 1 : Page(n) \in Frame
  PROVE  k < BitmapPages
<1> DEFINE S == First .. First + k - 1
           F == 1 .. BitmapPages - 1
           f == [n \in S |-> Page(n)]
<1>a. /\ First \in Nat /\ BitmapPages \in Nat \ {0}
      /\ 0 \in KernelPages
  <2>1. First \in Nat
    BY PageParts, HeapAssumption DEF First
  <2>2. KernelEnd \div PageSize \in Nat
    BY MemoryAssumption, Division
  <2> QED  BY <2>1, <2>2, MemoryAssumption DEF KernelPages
<1> HIDE DEF First
<1>1. /\ IsFiniteSet(S) /\ Cardinality(S) = k
      /\ IsFiniteSet(F) /\ Cardinality(F) = BitmapPages - 1
  <2>1. IsFiniteSet(S) /\ Cardinality(S) = IF First > First + k - 1 THEN 0 ELSE k
    BY <1>a, FS_Interval
  <2>2. /\ IsFiniteSet(F)
        /\ Cardinality(F) = IF 1 > BitmapPages - 1 THEN 0 ELSE BitmapPages - 1
    BY <1>a, FS_Interval
  <2> QED  BY <2>1, <2>2, <1>a
<1>2. \A n \in S : /\ n \in Nat /\ First <= n /\ n < First + BitmapPages
                   /\ Page(n) \in F
  <2> TAKE n \in S
  <2>1. n \in Nat /\ First <= n /\ n < First + BitmapPages
    BY <1>a
  <2>2. n \div TableSize \in Dir /\ n % TableSize \in Index
    BY <2>1, HeapEntries
  <2>3. Page(n) \notin KernelPages /\ Page(n) \in Frame
    BY <2>2 DEF Page, IndInv, Exclusive, InUseIsTaken
  <2> QED  BY <2>1, <2>3, <1>a DEF Frame
<1>3. f \in [S -> F]
  BY <1>2
<1>4. SUFFICES ASSUME Cardinality(F) < Cardinality(S) PROVE FALSE
  BY <1>1, <1>a
<1>5. PICK m \in S, n \in S : m # n /\ f[m] = f[n]
  <2> HIDE DEF S, F, f
  <2> QED  BY <1>1, <1>3, <1>4, FS_PigeonHole
<1>6. Page(m) = Page(n) /\ Page(m) \in Frame
  BY <1>5
<1> QED  BY <1>2, <1>5, <1>6, FramesDiffer

\* Every address of the heap is mapped, two of them to two places.
LEMMA HeapIsMapped ==
  ASSUME IndInv, HeapType, HeapMapped, ~exhausted,
         NEW a \in Nat, kHeapStart <= a, a < kheap_top
  PROVE  /\ PageNumber(a) \in First .. Top - 1
         /\ FrameOf(a) = Page(PageNumber(a))
         /\ Mapped(a)
<1>1. kheap_top \in Nat /\ kheap_top % PageSize = 0 /\ kHeapStart \in Nat
  BY HeapAssumption DEF HeapType
<1>2. /\ PageNumber(a) \in Nat /\ First \in Nat /\ Top \in Nat
      /\ First <= PageNumber(a) /\ PageNumber(a) < Top
  BY <1>1, PageParts, PageGrows, PageBelow DEF First, Top
<1>3. FrameOf(a) = Page(PageNumber(a))
  BY DEF FrameOf, Page, DirIndex, TableIndex
<1>4. PageNumber(a) \div TableSize \in Dir
  <2>1. Top - First < BitmapPages /\ BitmapPages \in Nat
    BY MemoryAssumption DEF HeapMapped
  <2>2. PageNumber(a) < First + BitmapPages
    BY <1>2, <2>1
  <2> QED  BY <1>2, <2>2, HeapEntries
<1>5. Page(PageNumber(a)) \in Frame
  <2>1. PageNumber(a) \in First .. Top - 1
    BY <1>2
  <2> QED  BY <2>1 DEF HeapMapped
<1> QED  BY <1>2, <1>3, <1>4, <1>5 DEF Mapped, DirIndex

LEMMA PlacesDiffer ==
  ASSUME IndInv, HeapType, HeapMapped, ~exhausted,
         NEW a \in Nat, kHeapStart <= a, a < kheap_top,
         NEW b \in Nat, kHeapStart <= b, b < kheap_top,
         FrameOf(a) = FrameOf(b)
  PROVE  /\ PageNumber(a) = PageNumber(b)
         /\ a % PageSize = b % PageSize => a = b
<1>1. /\ PageNumber(a) \in First .. Top - 1 /\ FrameOf(a) = Page(PageNumber(a))
      /\ PageNumber(b) \in First .. Top - 1 /\ FrameOf(b) = Page(PageNumber(b))
  BY HeapIsMapped
<1>2. First \in Nat /\ Top \in Nat /\ Top < First + BitmapPages
  <2>1. First \in Nat /\ Top \in Nat
    BY PageParts, HeapAssumption DEF First, Top, HeapType
  <2>2. Top - First < BitmapPages /\ BitmapPages \in Nat
    BY MemoryAssumption DEF HeapMapped
  <2> QED  BY <2>1, <2>2
<1>3. Page(PageNumber(a)) \in Frame
  BY <1>1 DEF HeapMapped
<1>4. PageNumber(a) = PageNumber(b)
  <2>1. /\ PageNumber(a) \in Nat /\ First <= PageNumber(a)
        /\ PageNumber(a) < First + BitmapPages
        /\ PageNumber(b) \in Nat /\ First <= PageNumber(b)
        /\ PageNumber(b) < First + BitmapPages
    BY <1>1, <1>2, MemoryAssumption
  <2>2. Page(PageNumber(a)) = Page(PageNumber(b))
    BY <1>1
  <2> QED  BY <2>1, <2>2, <1>3, FramesDiffer
<1> QED  BY <1>4, SameAddress

-----------------------------------------------------------------------------
(* What the heap's steps do to the memory *)

\* The calls of PageFree are finitely many, so the counter is a number.
LEMMA SetupCounts ==
  ASSUME NEW map \in Maps, NEW old, Setup(map, old)
  PROVE  free_pages' \in 0 .. Word - 1
<1> DEFINE N == DOMAIN map
           Row(n) == {n} \X RegionPages(map[n])
           rows == {Row(n) : n \in N}
           Region == [base : Nat, length : Nat, available : BOOLEAN]
<1>1. map \in Seq(Region)
  BY MemoryAssumption
<1>2. /\ N = 1 .. Len(map) /\ Len(map) \in Nat
      /\ \A n \in N : map[n] \in Region
  <2> HIDE DEF Region
  <2> QED  BY <1>1
<1>3. IsFiniteSet(N)
  BY <1>2, FS_Interval
<1>4. \A n \in N : IsFiniteSet(Row(n))
  <2> TAKE n \in N
  <2>1. IsFiniteSet({n})
    BY FS_Singleton
  <2>2. IsFiniteSet(RegionPages(map[n]))
    <3>1. FirstPage(map[n]) \in Int /\ EndPage(map[n]) \in Int
      <4>1. map[n].base \in Nat /\ map[n].length \in Nat
        BY <1>2
      <4> DEFINE b == map[n].base
                 e == map[n].base + map[n].length
      <4>2. b \in Nat /\ e \in Nat
        BY <4>1
      <4> HIDE DEF b, e
      <4>3. b % Space \in Nat /\ e % Space \in Nat
        <5>1. Space \in Nat \ {0}
          BY MemoryAssumption
        <5>2. b % Space \in 0 .. Space - 1 /\ e % Space \in 0 .. Space - 1
          BY <4>2, <5>1, Division
        <5> QED  BY <5>1, <5>2
      <4>4. (b % Space) \div PageSize \in Nat /\ (e % Space) \div PageSize \in Nat
        BY <4>3, MemoryAssumption, Division
      <4> QED  BY <4>4 DEF b, e, FirstPage, EndPage
    <3>2. IsFiniteSet(FirstPage(map[n]) .. EndPage(map[n]) - 1)
      BY <3>1, FS_Interval, EndPage(map[n]) - 1 \in Int
    <3> QED  BY <3>2, FS_EmptySet DEF RegionPages
  <2> QED  BY <2>1, <2>2, FS_Product
<1>5. IsFiniteSet(rows)
  <2> DEFINE f == [n \in N |-> Row(n)]
  <2>1. f \in Surjection(N, rows)
    BY DEF Surjection
  <2> HIDE DEF f, N, rows
  <2> QED  BY <2>1, <1>3, FS_Surjection
<1>6. IsFiniteSet(PageFrees(map))
  <2>1. IsFiniteSet(UNION rows)
    <3> HIDE DEF Row
    <3> QED  BY <1>4, <1>5, FS_UNION
  <2> QED  BY <2>1 DEF PageFrees
<1>7. Cardinality(PageFrees(map)) \in Nat
  BY <1>6, FS_CardinalityType
<1>8. Cardinality(KernelPages) \in Nat
  <2>1. KernelEnd \div PageSize \in Int
    BY MemoryAssumption, Division
  <2> QED  BY <2>1, FS_Interval, FS_CardinalityType DEF KernelPages
<1> QED  BY <1>7, <1>8, MemoryAssumption DEF Setup

\* MapPage for any entry keeps the types, also when memory is used up and
\* the heap has grown past its addresses.
LEMMA MapKeepsTypes ==
  ASSUME IndInv, HeapType, NEW d, NEW t \in Index,
         NEW physical \in Device \cup {0}, MapPage(d, t, physical),
         exhausted \/ d \in Dir
  PROVE  /\ IndInv'
         /\ free_pages' \in 0 .. Word - 1
         /\ mmap' = mmap /\ garbage' = garbage
         /\ exhausted => exhausted'
<1>1. /\ mmap' = mmap /\ garbage' = garbage /\ mmap # << >>
      /\ exhausted' \in BOOLEAN /\ (exhausted => exhausted')
  <2>1. exhausted \in BOOLEAN /\ mmap # << >>
    BY DEF IndInv, Shape, MapPage
  <2>2. CASE MapNewPage(d, t, physical)
    BY <2>1, <2>2 DEF MapNewPage
  <2>3. CASE MapNewTable(d, t, physical)
    BY <2>1, <2>3 DEF MapNewTable
  <2>4. CASE MapAgain(d, t)
    BY <2>1, <2>4 DEF MapAgain, memVars
  <2> QED  BY <2>2, <2>3, <2>4 DEF MapPage
<1>2. free_pages' \in 0 .. Word - 1
  <2>1. \A pages, n : n \in 0 .. Word - 1 => CountDown(pages, n) \in 0 .. Word - 1
    BY MemoryAssumption DEF CountDown
  <2> QED  BY <2>1 DEF MapPage, MapNewPage, MapNewTable, MapAgain, memVars, HeapType
<1>3. CASE d \in Dir
  <2>1. IndInv'
    BY <1>3, NewPageKeeps, NewTableKeeps, StutterKeeps DEF MapPage, MapAgain
  <2> QED  BY <1>1, <1>2, <2>1
<1>4. CASE exhausted /\ d \notin Dir
  <2>1. NothingBeforeSetup'
    BY <1>1 DEF NothingBeforeSetup
  <2>2. CASE MapNewPage(d, t, physical)
    <3> DEFINE frame == FrameFor(physical, bitmap)
    <3>1. frame \in Frame \cup Device /\ bitmap' \subseteq bitmap
      BY <2>2, FrameForPage DEF IndInv, Shape, MapNewPage
    <3>2. /\ tables' = [tables EXCEPT ![page_dir[d]][t] = frame]
          /\ page_dir' = page_dir
      BY <2>2 DEF MapNewPage
    <3> HIDE DEF frame
    <3>3. tables' \in [Frame -> [Index -> Frame \cup Device \cup {NoFrame, Junk}]]
      BY <3>1, <3>2 DEF IndInv, Shape
    <3> QED  BY <1>1, <1>2, <1>4, <2>1, <3>1, <3>2, <3>3 DEF IndInv, Shape
  <2>3. CASE MapNewTable(d, t, physical)
    <3> DEFINE table == FirstFree(bitmap)
               page == FrameFor(physical, Taken(bitmap))
    <3>1. /\ table \in Frame
          /\ page \in Frame \cup Device
          /\ bitmap' \subseteq bitmap
      <4>1. Taken(bitmap) \in SUBSET Frame /\ Taken(bitmap) \subseteq bitmap
        BY FirstFreeIsFree DEF IndInv, Shape
      <4> QED  BY <2>3, <4>1, FirstFreeIsFree, FrameForPage
               DEF IndInv, Shape, MapNewTable
    <3>2. /\ page_dir' = [page_dir EXCEPT ![d] = table]
          /\ tables' = [tables EXCEPT ![table] = [Blank EXCEPT ![t] = page]]
      BY <2>3 DEF MapNewTable
    <3> HIDE DEF table, page
    <3>3. [Blank EXCEPT ![t] = page]
            \in [Index -> Frame \cup Device \cup {NoFrame, Junk}]
      BY <3>1 DEF Blank
    <3>4. /\ page_dir' \in [Dir -> Frame \cup {NoFrame}]
          /\ tables' \in [Frame -> [Index -> Frame \cup Device \cup {NoFrame, Junk}]]
      BY <3>1, <3>2, <3>3 DEF IndInv, Shape
    <3> QED  BY <1>1, <1>2, <1>4, <2>1, <3>1, <3>4 DEF IndInv, Shape
  <2>4. CASE MapAgain(d, t)
    BY <1>1, <1>2, <2>4, StutterKeeps DEF MapAgain
  <2> QED  BY <2>2, <2>3, <2>4 DEF MapPage
<1> QED  BY <1>3, <1>4

\* MapPage changes at most one entry, which was empty.
LEMMA MapChangesOne ==
  ASSUME IndInv, NEW d \in Dir, NEW t \in Index,
         NEW physical \in Device \cup {0}, MapPage(d, t, physical), ~exhausted'
  PROVE  /\ ~exhausted
         /\ \A e \in Dir, u \in Index :
               Translate(e, u) # NoFrame \/ e # d \/ u # t
                 => Translate(e, u)' = Translate(e, u)
         /\ Translate(d, t) = NoFrame /\ physical = 0 => Translate(d, t)' \in Frame
<1>0. NoFrame \notin Frame
  BY MemoryAssumption DEF Frame
<1>1. CASE MapNewPage(d, t, physical)
  <2>1. ~exhausted /\ ~(physical = 0 /\ bitmap = {})
    BY <1>1 DEF MapNewPage
  <2>2. /\ Translate(d, t) = NoFrame
        /\ \A e \in Dir, u \in Index :
              Translate(e, u)' = IF e = d /\ u = t
                                 THEN FrameFor(physical, bitmap)
                                 ELSE Translate(e, u)
    BY <1>1, <2>1, NewPageTranslates
  <2>3. physical = 0 => FrameFor(physical, bitmap) \in Frame
    BY FirstFreeIsFree DEF FrameFor, IndInv, Shape
  <2> QED  BY <2>1, <2>2, <2>3
<1>2. CASE MapNewTable(d, t, physical)
  <2>1. ~exhausted /\ bitmap # {}
    BY <1>2 DEF MapNewTable
  <2>2. /\ \A u \in Index : Translate(d, u) = NoFrame
        /\ \A e \in Dir, u \in Index :
              Translate(e, u)' = IF e = d /\ u = t
                                 THEN FrameFor(physical, Taken(bitmap))
                                 ELSE Translate(e, u)
    BY <1>2, <2>1, NewTableTranslates
  <2>3. physical = 0 => FrameFor(physical, Taken(bitmap)) \in Frame
    <3>1. Taken(bitmap) \in SUBSET Frame
      BY FirstFreeIsFree DEF IndInv, Shape
    <3> QED  BY <3>1, FirstFreeIsFree DEF FrameFor
  <2> QED  BY <2>1, <2>2, <2>3
<1>3. CASE MapAgain(d, t)
  BY <1>3 DEF MapAgain, memVars, Translate
<1> QED  BY <1>1, <1>2, <1>3 DEF MapPage

\* A page that is mapped in the heap stays where it is; the one that
\* map_heap_pages asks for is in the RAM then.
LEMMA MapInHeap ==
  ASSUME IndInv, RamBelowHeap, NEW m \in Nat, First <= m, m < First + BitmapPages,
         MapPage(m \div TableSize, m % TableSize, 0), ~exhausted'
  PROVE  /\ ~exhausted
         /\ RamBelowHeap'
         /\ Page(m)' \in Frame
         /\ \A n \in Nat : First <= n /\ n < First + BitmapPages /\ Page(n) \in Frame
              => Page(n)' = Page(n)
<1> DEFINE d == m \div TableSize
           t == m % TableSize
<1>1. /\ d \in Dir /\ t \in Index /\ d # Screen /\ 0 \in Device \cup {0}
      /\ NoFrame \notin Frame /\ Frame \cap Device = {} /\ NoFrame \notin Device
  <2>1. d \in Dir /\ t \in Index /\ d # Screen
    BY HeapEntries
  <2>2. NoFrame \notin Frame
    BY MemoryAssumption DEF Frame
  <2>3. Frame \cap Device = {} /\ NoFrame \notin Device
    BY MemoryAssumption
  <2> QED  BY <2>1, <2>2, <2>3
<1> HIDE DEF d, t
<1>m. MapPage(d, t, 0)
  BY DEF d, t
<1>2. /\ ~exhausted
      /\ \A e \in Dir, u \in Index :
            Translate(e, u) # NoFrame \/ e # d \/ u # t
              => Translate(e, u)' = Translate(e, u)
      /\ Translate(d, t) = NoFrame => Translate(d, t)' \in Frame
  BY <1>1, <1>m, MapChangesOne
<1>3. \A e \in Dir, u \in Index : Translate(e, u) \in Frame \cup Device \cup {NoFrame}
  BY <1>2 DEF IndInv, Exclusive, NoJunk
<1>4. Translate(d, t)' \in Frame
  BY <1>1, <1>2, <1>3 DEF RamBelowHeap
<1>5. RamBelowHeap'
  BY <1>1, <1>2, <1>4 DEF RamBelowHeap
<1>6. Page(m)' \in Frame
  <2>1. Translate(m \div TableSize, m % TableSize)' \in Frame
    BY <1>4 DEF d, t
  <2> QED  BY <2>1 DEF Page
<1>7. ASSUME NEW n \in Nat, First <= n, n < First + BitmapPages, Page(n) \in Frame
      PROVE  Page(n)' = Page(n)
  <2>1. n \div TableSize \in Dir /\ n % TableSize \in Index
    BY <1>7, HeapEntries
  <2>2. Translate(n \div TableSize, n % TableSize) # NoFrame
    BY <1>7, <1>1 DEF Page
  <2>3. Translate(n \div TableSize, n % TableSize)'
          = Translate(n \div TableSize, n % TableSize)
    BY <1>2, <2>1, <2>2
  <2> QED  BY <2>3 DEF Page
<1> QED  BY <1>2, <1>5, <1>6, <1>7

\* Clearing a page that has a frame of its own clears no page table.
LEMMA ClearKeepsMappings ==
  ASSUME IndInv, NEW a, ClearPage(a), TableIndex(a) \in Index
  PROVE  /\ IndInv'
         /\ exhausted' = exhausted
         /\ ~exhausted => \A e \in Dir, u \in Index :
                             Translate(e, u)' = Translate(e, u)
<1> DEFINE frame == FrameOf(a)
<1>1. /\ frame \in Frame /\ DirIndex(a) \in Dir
      /\ tables' = [tables EXCEPT ![frame] = Blank]
      /\ bitmap' = bitmap /\ page_dir' = page_dir /\ mmap' = mmap
      /\ exhausted' = exhausted
  BY DEF ClearPage, Mapped
<1>2. Shape' /\ NothingBeforeSetup'
  <2> HIDE DEF frame
  <2>1. Blank \in [Index -> Frame \cup Device \cup {NoFrame, Junk}]
    BY DEF Blank
  <2>2. tables' \in [Frame -> [Index -> Frame \cup Device \cup {NoFrame, Junk}]]
    BY <1>1, <2>1 DEF IndInv, Shape
  <2> QED  BY <1>1, <2>2 DEF IndInv, Shape, NothingBeforeSetup
<1>3. ASSUME ~exhausted
      PROVE  /\ Exclusive'
             /\ \A e \in Dir, u \in Index : Translate(e, u)' = Translate(e, u)
  <2>1. \A e \in Dir : page_dir[e] # NoFrame => page_dir[e] # frame
    BY <1>1, <1>3 DEF FrameOf, IndInv, Exclusive, TablesAreNotPages
  <2>2. \A e \in Dir : page_dir[e] # NoFrame => page_dir[e] \in Frame
    BY DEF IndInv, Shape
  <2>3. \A e \in Dir : page_dir[e] # NoFrame
                         => tables'[page_dir[e]] = tables[page_dir[e]]
    <3> HIDE DEF frame
    <3> QED  BY <1>1, <2>1, <2>2 DEF IndInv, Shape
  <2>4. \A e \in Dir, u \in Index : Translate(e, u)' = Translate(e, u)
    BY <1>1, <2>3 DEF Translate
  <2>5. Exclusive
    BY <1>3 DEF IndInv
  <2>6. TablesApart' /\ PagesApart' /\ NoJunk' /\ TablesAreNotPages' /\ InUseIsTaken'
    BY <1>1, <2>4, <2>5 DEF Exclusive, TablesApart, PagesApart, NoJunk,
       TablesAreNotPages, InUseIsTaken
  <2> QED  BY <2>4, <2>6 DEF Exclusive
<1> QED  BY <1>1, <1>2, <1>3 DEF IndInv, Shape

-----------------------------------------------------------------------------
(* The heap's invariant: the types *)

LEMMA HeapConstants ==
  /\ kHeapStart \in Nat /\ kHeapStart > 0 /\ kHeapStart % PageSize = 0
  /\ HeaderSize \in Nat /\ HeaderSize > 0
  /\ PageSize \in Nat /\ PageSize > 0
  /\ BitmapPages \in Nat /\ BitmapPages > 0
  /\ First \in Nat
  /\ \A a \in Nat : PageNumber(a) \in Nat /\ TableIndex(a) \in Index
<1>1. \A a \in Nat : PageNumber(a) \in Nat
  BY PageParts
<1>2. \A a \in Nat : TableIndex(a) \in Index
  BY <1>1, Division, MemoryAssumption DEF TableIndex, Index
<1> QED  BY <1>1, <1>2, HeapAssumption, MemoryAssumption DEF First

LEMMA HeapInit == Init => HeapInv
<1> SUFFICES ASSUME Init PROVE HeapInv
  OBVIOUS
<1>1. IndInv /\ ~exhausted
  BY InitHolds DEF Init, MemInit
<1>2. HeapType
  <2>1. headers \in [Frame -> [Offset -> [size : Nat, next : Nat]]]
    BY DEF Init, Header
  <2>2. free_pages \in 0 .. Word - 1 /\ mmap = << >> /\ garbage = {}
    BY MemoryAssumption DEF Init, MemInit
  <2> QED  BY <2>1, <2>2, HeapConstants DEF HeapType, Init, Points
<1>3. RamBelowHeap
  <2>1. \A d \in Dir : page_dir[d] = NoFrame
    BY DEF Init, MemInit
  <2> QED  BY <2>1, MemoryAssumption DEF RamBelowHeap, Translate
<1>4. HeapMapped
  <2>1. Top = First
    BY DEF Init, Top, First
  <2> QED  BY <2>1, HeapConstants DEF HeapMapped, Init
<1>5. FirstCall /\ Layout /\ ListHolds /\ WalkIsAtBlock
  BY HeapConstants DEF Init, FirstCall, Layout, ListHolds, WalkIsAtBlock
<1> QED  BY <1>1, <1>2, <1>3, <1>4, <1>5 DEF HeapInv, HeapWorks

\* The page that vmalloc maps next has an entry in the directory.
LEMMA NextHasEntry ==
  ASSUME HeapInv, ~exhausted
  PROVE  /\ DirIndex(kHeapStart) \in Dir /\ DirIndex(kheap_top) \in Dir
         /\ Top \in Nat /\ First <= Top /\ Top < First + BitmapPages
<1>1. Top \in Nat /\ First <= Top /\ Top < First + BitmapPages
  <2>1. kheap_top \in Nat /\ kHeapStart <= kheap_top /\ Top - First < BitmapPages
    BY DEF HeapInv, HeapWorks, HeapType, HeapMapped
  <2>2. Top \in Nat /\ First <= Top
    BY <2>1, HeapConstants, PageGrows DEF Top, First
  <2> QED  BY <2>1, <2>2, HeapConstants
<1>2. First \div TableSize \in Dir /\ Top \div TableSize \in Dir
  BY <1>1, HeapConstants, HeapEntries
<1> QED  BY <1>1, <1>2 DEF DirIndex, First, Top

LEMMA ScreenHasEntry == Screen \in Dir
<1>1. DirIndex(kHeapStart) \in Dir
  <2>1. First \div TableSize \in Dir
    BY HeapConstants, HeapEntries
  <2> QED  BY <2>1 DEF DirIndex, First
<1> QED  BY <1>1, HeapAssumption, MemoryAssumption DEF Dir, DirIndex, PageNumber

LEMMA MapAddressTypes ==
  ASSUME HeapInv, NEW a \in {kHeapStart, kheap_top}, MapAddress(a)
  PROVE  /\ IndInv'
         /\ free_pages' \in 0 .. Word - 1
         /\ mmap' = mmap /\ garbage' = garbage
         /\ exhausted => exhausted'
<1>1. a \in Nat /\ TableIndex(a) \in Index
  BY HeapConstants DEF HeapInv, HeapType
<1>2. exhausted \/ DirIndex(a) \in Dir
  BY NextHasEntry
<1>3. IndInv /\ HeapType
  BY DEF HeapInv
<1> QED  BY <1>1, <1>2, <1>3, MapKeepsTypes DEF MapAddress

LEMMA ClearTypes ==
  ASSUME HeapInv, NEW a \in {kHeapStart, kheap_top}, ClearPage(a)
  PROVE  /\ IndInv'
         /\ headers' \in [Frame -> [Offset -> [size : Nat, next : Nat]]]
         /\ free_pages' = free_pages /\ mmap' = mmap /\ garbage' = garbage
         /\ exhausted' = exhausted
<1>1. a \in Nat /\ TableIndex(a) \in Index
  BY HeapConstants DEF HeapInv, HeapType
<1>2. IndInv' /\ exhausted' = exhausted
  BY <1>1, ClearKeepsMappings DEF HeapInv
<1>3. headers' \in [Frame -> [Offset -> [size : Nat, next : Nat]]]
  BY DEF ClearPage, Header, HeapInv, HeapType
<1> QED  BY <1>2, <1>3 DEF ClearPage

LEMMA TypesStay ==
  ASSUME HeapInv, [Next]_vars
  PROVE  IndInv' /\ HeapType'
<1>t. HeapType /\ IndInv
  BY DEF HeapInv
<1>m. ASSUME UNCHANGED memVars
      PROVE  /\ IndInv' /\ free_pages' \in 0 .. Word - 1
             /\ mmap' \in Maps \cup {<< >>} /\ garbage' \in SUBSET Frame
  BY <1>t, <1>m, StutterKeeps DEF memVars, HeapType
<1>1. CASE MemorySetup
  <2>1. PICK map \in Maps, old \in Garbage : Setup(map, old)
    BY <1>1 DEF MemorySetup
  <2>2. IndInv' /\ free_pages' \in 0 .. Word - 1
    BY <1>t, <2>1, SetupKeeps, SetupCounts
  <2>3. mmap' \in Maps /\ garbage' \in SUBSET Frame
    BY <2>1, MemoryAssumption DEF Setup
  <2> QED  BY <1>t, <1>1, <2>2, <2>3 DEF HeapType, MemorySetup, heapVars
<1>2. CASE \E t \in Index, physical \in Device : MapScreen(t, physical)
  <2>1. PICK t \in Index, physical \in Device : MapPage(Screen, t, physical)
    BY <1>2 DEF MapScreen
  <2>2. Screen \in Dir
    BY ScreenHasEntry
  <2>3. /\ IndInv' /\ free_pages' \in 0 .. Word - 1
        /\ mmap' = mmap /\ garbage' = garbage
    BY <1>t, <2>1, <2>2, MapKeepsTypes
  <2> QED  BY <1>t, <1>2, <2>3 DEF HeapType, MapScreen, heapVars
<1>3. CASE VmallocNothing
  BY <1>t, <1>3, <1>m DEF HeapType, VmallocNothing
<1>4. CASE \E n \in Sizes : Vmalloc(n)
  BY <1>t, <1>4, <1>m, HeapAssumption DEF HeapType, Vmalloc, Points
<1>5. CASE MapFirstPage
  BY <1>t, <1>5, MapAddressTypes DEF HeapType, MapFirstPage, Points
<1>6. CASE ClearFirstPage
  BY <1>t, <1>6, ClearTypes, HeapConstants DEF HeapType, ClearFirstPage, Points
<1>7. CASE Walk
  <2>1. HeaderAt(found_block).next \in Nat
    <3>1. FrameOf(found_block) \in Frame /\ found_block % PageSize \in Offset
      BY <1>t, <1>7, PageParts DEF Walk, Mapped, HeapType
    <3> QED  BY <1>t, <3>1 DEF HeaderAt, HeapType
  <2> QED  BY <1>t, <1>7, <1>m, <2>1 DEF HeapType, Walk
<1>8. CASE WalkEnds
  <2>1. HeaderAt(found_block).size \in Nat
    <3>1. FrameOf(found_block) \in Frame /\ found_block % PageSize \in Offset
      BY <1>t, <1>8, PageParts DEF WalkEnds, Mapped, HeapType
    <3> QED  BY <1>t, <3>1 DEF HeaderAt, HeapType
  <2>2. size' \in Nat /\ end_of_block' \in Nat
    <3> DEFINE s == HeaderAt(found_block).size
    <3>1. size' = size + HeaderSize /\ end_of_block' = found_block + s
      BY <1>8 DEF WalkEnds, EndOf
    <3>2. s \in Nat /\ size \in Nat /\ found_block \in Nat /\ HeaderSize \in Nat
      BY <1>t, <2>1, HeapConstants DEF HeapType
    <3> HIDE DEF s
    <3> QED  BY <3>1, <3>2
  <2> QED  BY <1>t, <1>8, <1>m, <2>2 DEF HeapType, WalkEnds, Points
<1>9. CASE MapHeapPage
  BY <1>t, <1>9, MapAddressTypes DEF HeapType, MapHeapPage, Points
<1>10. CASE ClearHeapPage
  <2>1. kheap_top' \in Nat /\ kheap_top' % PageSize = 0
    BY <1>t, <1>10, NextPage DEF ClearHeapPage, NextTop, HeapType
  <2> QED  BY <1>t, <1>10, <2>1, ClearTypes DEF HeapType, ClearHeapPage, Points
<1>11. CASE LinkBlock
  <2>1. /\ FrameOf(found_block) \in Frame /\ found_block % PageSize \in Offset
        /\ FrameOf(end_of_block) \in Frame /\ end_of_block % PageSize \in Offset
    BY <1>t, <1>11, PageParts DEF LinkBlock, Mapped, HeapType
  <2>2. Header(size, 0) \in [size : Nat, next : Nat] /\ end_of_block \in Nat
    BY <1>t DEF Header, HeapType
  <2>3. Store(headers, end_of_block, Header(size, 0))
          \in [Frame -> [Offset -> [size : Nat, next : Nat]]]
    BY <1>t, <2>1, <2>2 DEF Store, HeapType
  <2>4. headers' \in [Frame -> [Offset -> [size : Nat, next : Nat]]]
    <3> DEFINE memory == Store(headers, end_of_block, Header(size, 0))
    <3>1. headers' = Linked(memory)
      BY <1>11 DEF LinkBlock
    <3> HIDE DEF memory
    <3> QED  BY <2>1, <2>2, <2>3, <3>1 DEF Linked, memory
  <2>5. \A b \in given' : b.start \in Nat /\ b.end \in Nat
    BY <1>t, <1>11 DEF LinkBlock, HeapType
  <2> QED  BY <1>t, <1>11, <1>m, <2>4, <2>5 DEF HeapType, LinkBlock, Points
<1>12. CASE PageFault \/ UNCHANGED vars
  BY <1>t, <1>12, <1>m DEF HeapType, PageFault, vars, heapVars
<1> QED  BY <1>1, <1>2, <1>3, <1>4, <1>5, <1>6, <1>7, <1>8, <1>9, <1>10, <1>11,
         <1>12 DEF Next

-----------------------------------------------------------------------------
(* The heap's invariant: the blocks *)

InHeap(n) == First <= n /\ n < First + BitmapPages

\* The pages of the heap that are mapped are mapped as before.
PagesStay == \A n \in Nat : InHeap(n) /\ Page(n) \in Frame => Page(n)' = Page(n)

\* Steps that move no page and write no header.
LEMMA HeapStays ==
  ASSUME HeapInv, ~exhausted, PagesStay,
         UNCHANGED <<kheap_top, kheap_start, headers, given>>
  PROVE  /\ \A n \in First .. Top - 1 : Page(n)' \in Frame
         /\ kheap_start # 0 => Page(First)' \in Frame
         /\ \A b \in given : HeaderAt(b.start)' = HeaderAt(b.start)
<1>1. /\ IndInv /\ HeapType /\ HeapMapped /\ Layout
  BY DEF HeapInv, HeapWorks
<1>2. \A n \in First .. Top - 1 : n \in Nat /\ InHeap(n) /\ Page(n) \in Frame
  <2>1. First \in Nat /\ Top \in Nat /\ Top < First + BitmapPages
    BY HeapConstants, NextHasEntry
  <2> TAKE n \in First .. Top - 1
  <2>2. n \in Nat /\ InHeap(n)
    BY <2>1, HeapConstants DEF InHeap
  <2> QED  BY <1>1, <2>2 DEF HeapMapped
<1>3. First \in Nat /\ InHeap(First)
  BY HeapConstants DEF InHeap
<1>4. ASSUME NEW b \in given PROVE HeaderAt(b.start)' = HeaderAt(b.start)
  <2>1. /\ b.start \in Nat /\ b.end \in Nat /\ kheap_top \in Nat
        /\ kHeapStart <= b.start /\ b.start < b.end /\ b.end <= kheap_top
    BY <1>1 DEF HeapType, Layout
  <2>2. /\ PageNumber(b.start) \in First .. Top - 1
        /\ FrameOf(b.start) = Page(PageNumber(b.start))
    BY <1>1, <2>1, HeapIsMapped, HeapConstants
  <2>3. Page(PageNumber(b.start))' = Page(PageNumber(b.start))
    BY <1>2, <2>2 DEF PagesStay
  <2>4. FrameOf(b.start)' = FrameOf(b.start)
    BY <2>3 DEF FrameOf, Page, DirIndex, TableIndex
  <2> QED  BY <2>4 DEF HeaderAt
<1> QED  BY <1>1, <1>2, <1>3, <1>4 DEF PagesStay, HeapMapped

\* The list of blocks is left alone when no block is given.
LEMMA ListStays ==
  ASSUME ListHolds, UNCHANGED given,
         \A b \in given : HeaderAt(b.start)' = HeaderAt(b.start),
         pc' = "walk" /\ given = {} => HeaderAt(kHeapStart)' = Header(0, 0)
  PROVE  ListHolds'
<1>1. \A b \in given : NextOf(b)' = NextOf(b)
  BY DEF NextOf
<1> QED  BY <1>1 DEF ListHolds

LEMMA FrozenHolds ==
  ASSUME HeapWorks, UNCHANGED <<page_dir, tables, heapVars>>
  PROVE  HeapWorks'
<1>1. /\ \A d, t : Translate(d, t)' = Translate(d, t)
      /\ \A n : Page(n)' = Page(n)
      /\ \A a : HeaderAt(a)' = HeaderAt(a)
  BY DEF Translate, Page, HeaderAt, FrameOf, heapVars
<1>2. RamBelowHeap' /\ HeapMapped'
  BY <1>1 DEF heapVars, HeapWorks, RamBelowHeap, HeapMapped, Top
<1>3. FirstCall' /\ Layout' /\ WalkIsAtBlock'
  BY DEF heapVars, HeapWorks, FirstCall, Layout, WalkIsAtBlock
<1>4. ListHolds'
  <2>1. pc' = pc /\ given' = given /\ ListHolds
    BY DEF heapVars, HeapWorks
  <2> QED  BY <1>1, <2>1, ListStays DEF ListHolds
<1> QED  BY <1>2, <1>3, <1>4 DEF HeapWorks

\* Mapping the frame buffer moves no page of the heap.
LEMMA MapScreenHolds ==
  ASSUME HeapInv, ~exhausted', NEW t \in Index, NEW physical \in Device,
         MapScreen(t, physical)
  PROVE  HeapWorks'
<1>1. MapPage(Screen, t, physical) /\ UNCHANGED heapVars /\ pc = "idle"
  BY DEF MapScreen
<1>2. Screen \in Dir
  BY ScreenHasEntry
<1>3. /\ ~exhausted
      /\ \A e \in Dir, u \in Index :
            e # Screen => Translate(e, u)' = Translate(e, u)
  BY <1>1, <1>2, MapChangesOne DEF HeapInv
<1>4. HeapWorks
  BY <1>3 DEF HeapInv
<1>5. PagesStay
  <2> SUFFICES ASSUME NEW n \in Nat, InHeap(n) PROVE Page(n)' = Page(n)
    BY DEF PagesStay
  <2>1. /\ n \div TableSize \in Dir /\ n % TableSize \in Index
        /\ n \div TableSize # Screen
    BY HeapEntries DEF InHeap
  <2> QED  BY <1>3, <2>1 DEF Page
<1>6. /\ \A n \in First .. Top - 1 : Page(n)' \in Frame
      /\ kheap_start # 0 => Page(First)' \in Frame
      /\ \A b \in given : HeaderAt(b.start)' = HeaderAt(b.start)
  BY <1>1, <1>3, <1>5, HeapStays DEF heapVars
<1>7. RamBelowHeap'
  BY <1>3, <1>4 DEF HeapWorks, RamBelowHeap
<1>8. HeapMapped'
  BY <1>1, <1>4, <1>6 DEF HeapWorks, HeapMapped, Top, heapVars
<1>9. FirstCall' /\ Layout' /\ WalkIsAtBlock'
  BY <1>1, <1>4 DEF heapVars, HeapWorks, FirstCall, Layout, WalkIsAtBlock
<1>10. ListHolds'
  <2>1. pc' = "idle" /\ given' = given /\ ListHolds
    BY <1>1, <1>4 DEF heapVars, HeapWorks
  <2> QED  BY <1>6, <2>1, ListStays
<1> QED  BY <1>7, <1>8, <1>9, <1>10 DEF HeapWorks

LEMMA VmallocHolds ==
  ASSUME HeapInv, ~exhausted, NEW n \in Sizes, Vmalloc(n)
  PROVE  HeapWorks'
<1>0. HeapWorks
  BY DEF HeapInv
<1>1. /\ UNCHANGED <<page_dir, tables, headers, kheap_top, kheap_start, given>>
      /\ pc = "idle" /\ found_block' = kHeapStart /\ size' = n /\ n > 0
      /\ kheap_start = 0 => pc' = "first page"
      /\ kheap_start # 0 => pc' = "walk" /\ given # {}
  BY <1>0 DEF Vmalloc, memVars, HeapWorks, FirstCall
<1>2. /\ \A d, t : Translate(d, t)' = Translate(d, t)
      /\ \A m : Page(m)' = Page(m)
      /\ \A a : HeaderAt(a)' = HeaderAt(a)
  BY <1>1 DEF Translate, Page, HeaderAt, FrameOf
<1>3. RamBelowHeap' /\ HeapMapped'
  BY <1>0, <1>1, <1>2 DEF HeapWorks, RamBelowHeap, HeapMapped, Top
<1>4. FirstCall' /\ Layout'
  BY <1>0, <1>1 DEF HeapWorks, FirstCall, Layout
<1>5. ListHolds'
  BY <1>0, <1>1, <1>2, ListStays DEF HeapWorks, FirstCall
<1>6. WalkIsAtBlock'
  BY <1>0, <1>1 DEF HeapWorks, FirstCall, Layout, WalkIsAtBlock
<1> QED  BY <1>3, <1>4, <1>5, <1>6 DEF HeapWorks

LEMMA MapFirstHolds ==
  ASSUME HeapInv, ~exhausted', MapFirstPage
  PROVE  HeapWorks'
<1>1. /\ pc = "first page" /\ pc' = "clear first"
      /\ MapPage(First \div TableSize, First % TableSize, 0)
      /\ UNCHANGED <<kheap_top, kheap_start, headers, size, found_block,
                     end_of_block, given>>
  BY DEF MapFirstPage, MapAddress, DirIndex, TableIndex, First
<1>2. ~exhausted /\ HeapWorks
  <2>1. ~exhausted
    BY <1>1, MapKeepsTypes, MapAddressTypes DEF MapFirstPage
  <2> QED  BY <2>1 DEF HeapInv
<1>3. InHeap(First) /\ First \in Nat
  BY HeapConstants DEF InHeap
<1>4. RamBelowHeap' /\ Page(First)' \in Frame /\ PagesStay
  BY <1>1, <1>2, <1>3, MapInHeap DEF HeapInv, HeapWorks, InHeap, PagesStay
<1>5. /\ \A n \in First .. Top - 1 : Page(n)' \in Frame
      /\ \A b \in given : HeaderAt(b.start)' = HeaderAt(b.start)
  BY <1>1, <1>2, <1>4, HeapStays
<1>6. HeapMapped'
  BY <1>1, <1>2, <1>4, <1>5 DEF HeapWorks, HeapMapped, Top
<1>7. FirstCall' /\ Layout' /\ WalkIsAtBlock'
  BY <1>1, <1>2 DEF HeapWorks, FirstCall, Layout, WalkIsAtBlock
<1>8. ListHolds'
  BY <1>1, <1>2, <1>5, ListStays DEF HeapWorks
<1> QED  BY <1>4, <1>6, <1>7, <1>8 DEF HeapWorks

LEMMA ClearFirstHolds ==
  ASSUME HeapInv, ~exhausted, ClearFirstPage
  PROVE  HeapWorks'
<1>0. /\ HeapWorks /\ HeapType /\ IndInv
  BY DEF HeapInv
<1>1. /\ pc = "clear first" /\ pc' = "walk" /\ ClearPage(kHeapStart)
      /\ kheap_start' = kHeapStart /\ kheap_top' = kHeapStart
      /\ UNCHANGED <<size, found_block, end_of_block, given>>
      /\ given = {} /\ found_block = kHeapStart
  BY <1>0 DEF ClearFirstPage, HeapWorks, FirstCall, WalkIsAtBlock
<1>2. \A d \in Dir, t \in Index : Translate(d, t)' = Translate(d, t)
  BY <1>0, <1>1, HeapConstants, ClearKeepsMappings
<1>3. First \div TableSize \in Dir /\ First % TableSize \in Index
  BY HeapConstants, HeapEntries
<1>4. Page(First)' = Page(First) /\ Page(First) \in Frame
  BY <1>0, <1>1, <1>2, <1>3 DEF Page, HeapWorks, HeapMapped
<1>5. FrameOf(kHeapStart) = Page(First) /\ FrameOf(kHeapStart)' = Page(First)'
  BY DEF FrameOf, Page, DirIndex, TableIndex, First
<1>6. HeaderAt(kHeapStart)' = Header(0, 0)
  <2>1. kHeapStart % PageSize \in Offset
    BY HeapConstants, PageParts
  <2>2. headers' = [headers EXCEPT ![FrameOf(kHeapStart)] =
                      [o \in Offset |-> Header(0, 0)]]
    BY <1>1 DEF ClearPage
  <2> QED  BY <1>0, <1>4, <1>5, <2>1, <2>2 DEF HeaderAt, HeapType
<1>7. RamBelowHeap'
  BY <1>0, <1>2 DEF HeapWorks, RamBelowHeap
<1>8. HeapMapped'
  <2>1. Top' = First
    BY <1>1 DEF Top, First
  <2>2. Top' - First < BitmapPages /\ First .. Top' - 1 = {}
    BY <2>1, HeapConstants
  <2>3. kHeapStart <= kheap_top'
    <3>1. kHeapStart \in Nat /\ kheap_top' = kHeapStart
      BY <1>1, HeapAssumption
    <3> QED  BY <3>1
  <2>4. \A n \in First .. Top' - 1 : Page(n)' \in Frame
    BY <2>2
  <2>5. pc' # "clear" /\ Page(First)' \in Frame
    BY <1>1, <1>4
  <2> QED  BY <2>2, <2>3, <2>4, <2>5 DEF HeapMapped
<1>9. FirstCall' /\ Layout' /\ WalkIsAtBlock'
  <2>1. FirstCall'
    <3>1. kheap_start' # 0 /\ pc' = "walk"
      BY <1>1, HeapAssumption
    <3> QED  BY <3>1 DEF FirstCall
  <2>2. Layout'
    BY <1>1 DEF Layout
  <2>3. WalkIsAtBlock'
    BY <1>0, <1>1 DEF HeapWorks, WalkIsAtBlock
  <2> QED  BY <2>1, <2>2, <2>3
<1>10. ListHolds'
  BY <1>1, <1>6 DEF ListHolds
<1> QED  BY <1>7, <1>8, <1>9, <1>10 DEF HeapWorks

\* The walk goes from a block to the one behind it ...
LEMMA WalkHolds ==
  ASSUME HeapInv, ~exhausted, Walk
  PROVE  HeapWorks'
<1>0. HeapWorks /\ HeapType
  BY DEF HeapInv
<1>1. /\ UNCHANGED <<page_dir, tables, headers, kheap_top, kheap_start, given,
                     pc, size, end_of_block>>
      /\ pc = "walk" /\ ~IsLast(found_block)
      /\ found_block' = HeaderAt(found_block).next
  BY DEF Walk, memVars
<1>2. /\ \A d, t : Translate(d, t)' = Translate(d, t)
      /\ \A m : Page(m)' = Page(m)
      /\ \A a : HeaderAt(a)' = HeaderAt(a)
  BY <1>1 DEF Translate, Page, HeaderAt, FrameOf
<1>3. RamBelowHeap' /\ HeapMapped'
  BY <1>0, <1>1, <1>2 DEF HeapWorks, RamBelowHeap, HeapMapped, Top
<1>4. FirstCall' /\ Layout'
  BY <1>0, <1>1 DEF HeapWorks, FirstCall, Layout
<1>5. ListHolds'
  BY <1>0, <1>1, <1>2, ListStays DEF HeapWorks, ListHolds
<1>6. given # {}
  <2>1. SUFFICES ASSUME given = {} PROVE FALSE
    OBVIOUS
  <2>2. found_block = kHeapStart /\ HeaderAt(kHeapStart).next = 0
    BY <1>0, <1>1, <2>1 DEF HeapWorks, WalkIsAtBlock, ListHolds, Header
  <2> QED  BY <1>1, <2>2 DEF IsLast
<1>7. PICK b \in given : found_block = b.start
  BY <1>0, <1>1, <1>6 DEF HeapWorks, WalkIsAtBlock
<1>8. NextOf(b) # 0 /\ NextOf(b) # b.start /\ found_block' = NextOf(b)
  BY <1>0, <1>1, <1>7 DEF IsLast, HeapWorks, ListHolds
<1>9. \E c \in given : c.start = b.end /\ NextOf(b) = b.end
  BY <1>8 DEF NextOf
<1>10. WalkIsAtBlock'
  <2>1. \E c \in given : found_block' = c.start
    BY <1>8, <1>9
  <2> QED  BY <1>0, <1>1, <1>6, <2>1 DEF HeapWorks, WalkIsAtBlock
<1> QED  BY <1>3, <1>4, <1>5, <1>10 DEF HeapWorks

\* ... and ends at the last one.
LEMMA WalkEndsHolds ==
  ASSUME HeapInv, ~exhausted, WalkEnds
  PROVE  HeapWorks'
<1>0. HeapWorks /\ HeapType
  BY DEF HeapInv
<1>1. /\ UNCHANGED <<page_dir, tables, headers, kheap_top, kheap_start, given,
                     found_block>>
      /\ pc = "walk" /\ IsLast(found_block) /\ pc' = "map"
      /\ size' = size + HeaderSize
      /\ end_of_block' = found_block + HeaderAt(found_block).size
  BY DEF WalkEnds, EndOf, memVars
<1>2. /\ \A d, t : Translate(d, t)' = Translate(d, t)
      /\ \A m : Page(m)' = Page(m)
      /\ \A a : HeaderAt(a)' = HeaderAt(a)
  BY <1>1 DEF Translate, Page, HeaderAt, FrameOf
<1>3. RamBelowHeap' /\ HeapMapped'
  BY <1>0, <1>1, <1>2 DEF HeapWorks, RamBelowHeap, HeapMapped, Top
<1>4. FirstCall' /\ Layout'
  BY <1>0, <1>1 DEF HeapWorks, FirstCall, Layout
<1>5. ListHolds'
  BY <1>0, <1>1, <1>2, ListStays DEF HeapWorks, ListHolds
<1>6. size' > 0
  BY <1>0, <1>1, HeapAssumption DEF HeapWorks, WalkIsAtBlock, HeapType
<1>7. ASSUME given = {}
      PROVE  found_block' = kHeapStart /\ end_of_block' = kHeapStart
  <2>1. found_block = kHeapStart /\ HeaderAt(kHeapStart).size = 0
    BY <1>0, <1>1, <1>7 DEF HeapWorks, WalkIsAtBlock, ListHolds, Header
  <2> QED  BY <1>1, <2>1, HeapAssumption
<1>8. ASSUME given # {}
      PROVE  \E b \in given : /\ found_block' = b.start /\ end_of_block' = b.end
                              /\ \A c \in given : c.end <= b.end
  <2>1. PICK b \in given : found_block = b.start
    BY <1>0, <1>1, <1>8 DEF HeapWorks, WalkIsAtBlock
  <2>2. /\ HeaderAt(b.start).size = b.end - b.start
        /\ NextOf(b) \in {0, b.start}
    BY <1>0, <1>1, <2>1 DEF IsLast, HeapWorks, ListHolds
  <2>3. b.start \in Nat /\ b.end \in Nat /\ b.start < b.end
    BY <1>0 DEF HeapWorks, Layout, HeapType
  <2>4. ~ \E c \in given : c.start = b.end
    BY <2>2, <2>3 DEF NextOf
  <2>5. \A c \in given : c.end <= b.end
    BY <1>0, <2>4 DEF HeapWorks, Layout
  <2>6. end_of_block' = b.end
    <3>1. end_of_block' = b.start + (b.end - b.start)
      BY <1>1, <2>1, <2>2
    <3> QED  BY <2>3, <3>1
  <2> QED  BY <1>1, <2>1, <2>5, <2>6
<1>9. WalkIsAtBlock'
  <2>1. pc' = "map" /\ given' = given
    BY <1>1
  <2> QED  BY <1>6, <1>7, <1>8, <2>1 DEF WalkIsAtBlock
<1> QED  BY <1>3, <1>4, <1>5, <1>9 DEF HeapWorks

LEMMA MapHeapHolds ==
  ASSUME HeapInv, ~exhausted', MapHeapPage
  PROVE  HeapWorks'
<1>1. /\ pc = "map" /\ pc' = "clear"
      /\ MapPage(Top \div TableSize, Top % TableSize, 0)
      /\ UNCHANGED <<kheap_top, kheap_start, headers, size, found_block,
                     end_of_block, given>>
  BY DEF MapHeapPage, MapAddress, DirIndex, TableIndex, Top
<1>2. ~exhausted /\ HeapWorks
  <2>1. ~exhausted
    BY MapAddressTypes DEF MapHeapPage
  <2> QED  BY <2>1 DEF HeapInv
<1>3. PICK m \in Nat : m = Top /\ First <= m /\ m < First + BitmapPages
  BY <1>2, NextHasEntry
<1>4. Top' = m
  BY <1>1, <1>3 DEF Top
<1>5. RamBelowHeap' /\ Page(m)' \in Frame /\ PagesStay
  <2>1. MapPage(m \div TableSize, m % TableSize, 0) /\ RamBelowHeap /\ IndInv
    BY <1>1, <1>2, <1>3 DEF HeapInv, HeapWorks
  <2> QED  BY <1>3, <2>1, MapInHeap DEF InHeap, PagesStay
<1>6. /\ \A n \in First .. Top - 1 : Page(n)' \in Frame
      /\ kheap_start # 0 => Page(First)' \in Frame
      /\ \A b \in given : HeaderAt(b.start)' = HeaderAt(b.start)
  BY <1>1, <1>2, <1>5, HeapStays
<1>7. HeapMapped'
  <2>1. /\ kHeapStart <= kheap_top' /\ m - First < BitmapPages
        /\ pc' # "clear first" /\ kheap_start' = kheap_start
    BY <1>1, <1>2, <1>3 DEF HeapWorks, HeapMapped
  <2>2. \A n \in First .. m - 1 : Page(n)' \in Frame
    BY <1>3, <1>6
  <2>3. Page(Top)' \in Frame
    <3>1. Translate(m \div TableSize, m % TableSize)' \in Frame
      BY <1>5 DEF Page
    <3> QED  BY <1>4, <3>1 DEF Page, Translate
  <2> QED  BY <1>4, <1>6, <2>1, <2>2, <2>3 DEF HeapMapped
<1>8. FirstCall' /\ Layout' /\ WalkIsAtBlock'
  BY <1>1, <1>2 DEF HeapWorks, FirstCall, Layout, WalkIsAtBlock
<1>9. ListHolds'
  BY <1>1, <1>2, <1>6, ListStays DEF HeapWorks
<1> QED  BY <1>5, <1>7, <1>8, <1>9 DEF HeapWorks

\* Clearing the page above kheap_top clears no block.
LEMMA ClearHeapHolds ==
  ASSUME HeapInv, ~exhausted, ClearHeapPage
  PROVE  HeapWorks'
<1>0. HeapWorks /\ HeapType /\ IndInv
  BY DEF HeapInv
<1>1. PICK a \in Nat : a = kheap_top
  BY <1>0 DEF HeapType
<1>2. PICK m \in Nat : m = Top /\ First <= m /\ m < First + BitmapPages
  BY NextHasEntry
<1>3. /\ pc = "clear" /\ pc' = "map" /\ ClearPage(a)
      /\ kheap_top' = a + PageSize /\ m = PageNumber(a) /\ a % PageSize = 0
      /\ UNCHANGED <<kheap_start, size, found_block, end_of_block, given>>
  BY <1>0, <1>1, <1>2 DEF ClearHeapPage, NextTop, Top, HeapType
<1>4. Top' = m + 1
  BY <1>3, NextPage DEF Top
<1>5. \A d \in Dir, t \in Index : Translate(d, t)' = Translate(d, t)
  BY <1>0, <1>3, HeapConstants, ClearKeepsMappings
<1>6. ASSUME NEW n \in Nat, InHeap(n) PROVE Page(n)' = Page(n)
  BY <1>5, <1>6, HeapEntries DEF Page, InHeap
<1>7. /\ First \in Nat /\ BitmapPages \in Nat
      /\ \A n \in First .. m : n \in Nat /\ InHeap(n) /\ Page(n) \in Frame
  <2>1. First \in Nat /\ BitmapPages \in Nat
    BY HeapConstants
  <2>2. \A n \in First .. m : n \in Nat /\ InHeap(n)
    BY <1>2, <2>1 DEF InHeap
  <2>3. Page(m) \in Frame /\ \A n \in First .. m - 1 : Page(n) \in Frame
    BY <1>0, <1>2, <1>3 DEF HeapWorks, HeapMapped
  <2>4. \A n \in First .. m : n = m \/ n \in First .. m - 1
    BY <1>2, <2>1
  <2> QED  BY <2>1, <2>2, <2>3, <2>4
<1>8. m + 1 - First < BitmapPages
  <2> DEFINE k == m + 1 - First
  <2>1. k \in Nat /\ k <= BitmapPages /\ First + k - 1 = m
    BY <1>2, <1>7
  <2>2. \A n \in First .. First + k - 1 : Page(n) \in Frame
    BY <1>7, <2>1
  <2> HIDE DEF k
  <2>3. k < BitmapPages
    BY <1>0, <2>1, <2>2, FewPages
  <2> QED  BY <2>3 DEF k
<1>9. RamBelowHeap'
  BY <1>0, <1>5 DEF HeapWorks, RamBelowHeap
<1>10. kHeapStart <= kheap_top' /\ \A b \in given : b.end <= kheap_top'
  <2>1. /\ PageSize \in Nat /\ kHeapStart \in Nat
        /\ kHeapStart <= a /\ \A b \in given : b.end \in Nat /\ b.end <= a
    BY <1>0, <1>1, HeapConstants DEF HeapWorks, HeapMapped, Layout, HeapType
  <2> QED  BY <1>3, <2>1
<1>11. HeapMapped'
  <2>1. \A n \in First .. m : Page(n)' \in Frame
    BY <1>6, <1>7
  <2>2. First \in First .. m /\ m + 1 - 1 = m
    BY <1>2, <1>7
  <2> QED  BY <1>3, <1>4, <1>8, <1>10, <2>1, <2>2 DEF HeapMapped
<1>12. ASSUME NEW b \in given PROVE HeaderAt(b.start)' = HeaderAt(b.start)
  <2>1. /\ b.start \in Nat /\ b.end \in Nat
        /\ kHeapStart <= b.start /\ b.start < kheap_top
    BY <1>0, <1>1 DEF HeapType, HeapWorks, Layout
  <2> DEFINE n == PageNumber(b.start)
  <2>2. n \in First .. m - 1 /\ FrameOf(b.start) = Page(n) /\ Mapped(b.start)
    BY <1>0, <1>2, <2>1, HeapIsMapped DEF HeapWorks
  <2>3. FrameOf(a) = Page(m)
    BY <1>3 DEF FrameOf, Page, DirIndex, TableIndex
  <2> HIDE DEF n
  <2>4. n \in First .. m /\ m \in First .. m /\ n # m
    BY <1>2, <1>7, <2>2
  <2>5. Page(n) # Page(m)
    BY <1>0, <1>7, <2>4, FramesDiffer DEF InHeap
  <2>6. FrameOf(b.start)' = FrameOf(b.start)
    <3>1. Page(n)' = Page(n)
      BY <1>6, <1>7, <2>4
    <3> QED  BY <3>1 DEF FrameOf, Page, DirIndex, TableIndex, n
  <2>7. headers' = [headers EXCEPT ![FrameOf(a)] = [o \in Offset |-> Header(0, 0)]]
    BY <1>3 DEF ClearPage
  <2>8. headers'[FrameOf(b.start)] = headers[FrameOf(b.start)]
    BY <1>0, <2>2, <2>3, <2>5, <2>7 DEF HeapType, Mapped
  <2> QED  BY <2>6, <2>8 DEF HeaderAt
<1>13. FirstCall'
  BY <1>0, <1>3 DEF HeapWorks, FirstCall
<1>14. Layout'
  BY <1>0, <1>3, <1>10 DEF HeapWorks, Layout
<1>15. WalkIsAtBlock'
  BY <1>0, <1>3 DEF HeapWorks, WalkIsAtBlock
<1>16. ListHolds'
  BY <1>0, <1>3, <1>12, ListStays DEF HeapWorks
<1> QED  BY <1>9, <1>11, <1>13, <1>14, <1>15, <1>16 DEF HeapWorks

\* Writing the new header and the link changes what is read at these two
\* addresses, and nothing at another address of the heap.
LEMMA LinkWrites ==
  ASSUME HeapInv, ~exhausted, LinkBlock,
         NEW e \in Nat, e = end_of_block, kHeapStart <= e, e < kheap_top,
         NEW f \in Nat, f = found_block, kHeapStart <= f, f < kheap_top,
         NEW x \in Nat, kHeapStart <= x, x < kheap_top
  PROVE  /\ HeaderAt(x)'.size = IF x = e THEN size ELSE HeaderAt(x).size
         /\ HeaderAt(x)'.next = IF x = f THEN e ELSE IF x = e THEN 0
                                                     ELSE HeaderAt(x).next
<1>0. HeapWorks /\ HeapMapped /\ HeapType /\ IndInv
  BY DEF HeapInv, HeapWorks
<1> DEFINE fx == FrameOf(x)
           fe == FrameOf(e)
           ff == FrameOf(f)
           ox == x % PageSize
           oe == e % PageSize
           of == f % PageSize
           new == Header(size, 0)
           memory == [headers EXCEPT ![fe][oe] = new]
           Memories == [Frame -> [Offset -> [size : Nat, next : Nat]]]
<1>1. /\ fx \in Frame /\ fe \in Frame /\ ff \in Frame
      /\ ox \in Offset /\ oe \in Offset /\ of \in Offset
  BY <1>0, HeapIsMapped, PageParts DEF Mapped
<1>2. /\ fx = fe /\ ox = oe <=> x = e
      /\ fx = ff /\ ox = of <=> x = f
  BY <1>0, PlacesDiffer
<1>3. headers' = [memory EXCEPT ![ff][of].next = e]
  BY DEF LinkBlock, Linked, Store
<1>4. HeaderAt(x)' = headers'[fx][ox]
  <2>1. FrameOf(x)' = FrameOf(x)
    BY DEF LinkBlock, memVars, FrameOf, Translate
  <2> QED  BY <2>1 DEF HeaderAt
<1>5. new \in [size : Nat, next : Nat] /\ new.size = size /\ new.next = 0
  BY <1>0 DEF Header, HeapType
<1>6. headers \in Memories /\ HeaderAt(x) = headers[fx][ox]
  BY <1>0 DEF HeapType, HeaderAt
<1> HIDE DEF fx, fe, ff, ox, oe, of, new
<1>7. memory \in Memories /\ memory[fx][ox] = IF x = e THEN new ELSE headers[fx][ox]
  BY <1>1, <1>2, <1>5, <1>6
<1> HIDE DEF memory
<1>8. headers'[fx][ox] = IF x = f THEN [memory[fx][ox] EXCEPT !.next = e]
                                  ELSE memory[fx][ox]
  BY <1>1, <1>2, <1>3, <1>7
<1>9. memory[fx][ox] \in [size : Nat, next : Nat]
  BY <1>1, <1>7
<1> QED  BY <1>4, <1>5, <1>6, <1>7, <1>8, <1>9

LEMMA LinkHolds ==
  ASSUME HeapInv, ~exhausted, LinkBlock
  PROVE  HeapWorks'
<1>0. /\ HeapWorks /\ HeapType /\ IndInv
      /\ HeapMapped /\ FirstCall /\ Layout /\ ListHolds /\ WalkIsAtBlock
  BY DEF HeapInv, HeapWorks
<1>1. PICK e \in Nat, f \in Nat, n \in Nat :
         e = end_of_block /\ f = found_block /\ n = size
  BY <1>0 DEF HeapType
<1> DEFINE N == [start |-> e, end |-> e + n]
<1>2. /\ pc = "map" /\ pc' = "idle" /\ given' = given \cup {N}
      /\ UNCHANGED <<page_dir, tables, kheap_top, kheap_start>>
  BY <1>1 DEF LinkBlock, memVars
<1>3. n > 0 /\ e + n <= kheap_top /\ kheap_top \in Nat /\ kHeapStart \in Nat
  BY <1>0, <1>1, <1>2, HeapAssumption
     DEF LinkBlock, NeedsPage, WalkIsAtBlock, HeapType
<1>g. \A b \in given : /\ b.start \in Nat /\ b.end \in Nat /\ kHeapStart <= b.start
                       /\ b.start < b.end /\ b.end <= kheap_top
  BY <1>0 DEF Layout, HeapType
<1>4. ASSUME given = {} PROVE Layout' /\ ListHolds'
  <2>1. e = kHeapStart /\ f = kHeapStart /\ given' = {N}
    BY <1>0, <1>1, <1>2, <1>4 DEF WalkIsAtBlock
  <2>2. HeaderAt(e)'.size = n /\ HeaderAt(e)'.next = kHeapStart
    <3>1. kHeapStart <= e /\ e < kheap_top /\ f = e
      BY <1>3, <2>1
    <3> QED  BY <1>1, <2>1, <3>1, LinkWrites
  <2>3. N.start = e /\ N.end = e + n /\ e + n - e = n /\ e + n # e
    BY <1>3
  <2>4. Layout'
    BY <1>2, <1>3, <2>1, <2>3 DEF Layout
  <2>5. ListHolds'
    <3>1. NextOf(N)' = kHeapStart
      BY <2>1, <2>3 DEF NextOf
    <3>2. /\ HeaderAt(N.start)'.size = N.end - N.start
          /\ HeaderAt(N.start)'.next = NextOf(N)'
      BY <2>2, <2>3, <3>1
    <3> QED  BY <1>2, <2>1, <3>2 DEF ListHolds
  <2> QED  BY <2>4, <2>5
<1>5. ASSUME given # {} PROVE Layout' /\ ListHolds'
  <2>1. PICK last \in given : /\ f = last.start /\ e = last.end
                              /\ \A c \in given : c.end <= e
    BY <1>0, <1>1, <1>2, <1>5 DEF WalkIsAtBlock
  <2>2. N.start = e /\ N.end = e + n
    OBVIOUS
  <2>3. /\ kHeapStart <= f /\ f < e /\ f < kheap_top
        /\ kHeapStart <= e /\ e < kheap_top /\ kHeapStart < e
    BY <1>3, <1>g, <2>1
  <2>4. \A b \in given : /\ b.start < e /\ b.end <= e
                         /\ b # last => b.start # f /\ b.end # e
    <3> SUFFICES ASSUME NEW b \in given
                 PROVE  /\ b.start < e /\ b.end <= e
                        /\ b # last => b.start # f /\ b.end # e
      OBVIOUS
    <3>1. b # last => b.end <= last.start \/ last.end <= b.start
      BY <1>0 DEF Layout
    <3> QED  BY <1>g, <2>1, <3>1
  <2> HIDE DEF N
  <2>5. Layout'
    <3>1. \A b \in given' : /\ kHeapStart <= b.start /\ b.start < b.end
                            /\ b.end <= kheap_top'
      BY <1>2, <1>3, <1>g, <2>2, <2>3
    <3>2. \A b, c \in given' : b # c => b.end <= c.start \/ c.end <= b.start
      BY <1>0, <1>2, <2>2, <2>4 DEF Layout
    <3>3. \E b \in given' : b.start = kHeapStart
      BY <1>0, <1>2, <1>5 DEF Layout
    <3>4. \A b \in given' : \/ \E c \in given' : c.start = b.end
                            \/ \A c \in given' : c.end <= b.end
      <4>1. \A c \in given' : c.end <= N.end
        BY <1>2, <1>3, <1>g, <2>2, <2>4
      <4>2. ASSUME NEW b \in given PROVE \E c \in given' : c.start = b.end
        <5>1. CASE b = last
          BY <1>2, <2>1, <2>2, <5>1
        <5>2. CASE b # last
          <6>1. \E c \in given : c.start = b.end
            <7>1. ~ \A c \in given : c.end <= b.end
              BY <1>g, <2>1, <2>4, <5>2
            <7> QED  BY <1>0, <7>1 DEF Layout
          <6> QED  BY <1>2, <6>1
        <5> QED  BY <5>1, <5>2
      <4> QED  BY <1>2, <4>1, <4>2
    <3> QED  BY <3>1, <3>2, <3>3, <3>4 DEF Layout
  <2>6. ASSUME NEW b \in given
        PROVE  /\ HeaderAt(b.start)'.size = b.end - b.start
               /\ HeaderAt(b.start)'.next = NextOf(b)'
    <3>1. /\ HeaderAt(b.start).size = b.end - b.start
          /\ HeaderAt(b.start).next = NextOf(b)
      BY <1>0 DEF ListHolds
    <3>2. b.start \in Nat /\ kHeapStart <= b.start /\ b.start < kheap_top
      BY <1>3, <1>g
    <3>3. /\ HeaderAt(b.start)'.size = IF b.start = e THEN size
                                       ELSE HeaderAt(b.start).size
          /\ HeaderAt(b.start)'.next = IF b.start = f THEN e
                                       ELSE IF b.start = e THEN 0
                                       ELSE HeaderAt(b.start).next
      BY <1>1, <2>3, <3>2, LinkWrites
    <3>4. b.start # e
      BY <1>g, <2>4
    <3>5. CASE b = last
      <4>1. NextOf(b)' = e
        BY <1>2, <2>1, <2>2, <3>5 DEF NextOf
      <4> QED  BY <2>1, <3>1, <3>3, <3>4, <3>5, <4>1
    <3>6. CASE b # last
      <4>1. b.start # f /\ b.end # e
        BY <2>4, <3>6
      <4>2. (\E c \in given' : c.start = b.end) <=> (\E c \in given : c.start = b.end)
        BY <1>2, <2>2, <4>1
      <4>3. NextOf(b)' = NextOf(b)
        BY <4>2 DEF NextOf
      <4> QED  BY <3>1, <3>3, <3>4, <4>1, <4>3
    <3> QED  BY <3>5, <3>6
  <2>7. HeaderAt(N.start)'.size = N.end - N.start /\ HeaderAt(N.start)'.next = NextOf(N)'
    <3>1. HeaderAt(e)'.size = n /\ HeaderAt(e)'.next = 0
      BY <1>1, <2>3, LinkWrites
    <3>2. \A c \in given' : c.start < N.end
      BY <1>2, <1>3, <1>g, <2>2, <2>4
    <3>3. \A c \in given' : c.start \in Nat /\ c.start # N.end
      BY <1>2, <1>3, <1>g, <2>2, <3>2
    <3>4. NextOf(N)' = 0
      BY <2>2, <2>3, <3>3, <1>3 DEF NextOf
    <3>5. N.end - N.start = n
      BY <2>2, <1>3
    <3> QED  BY <2>2, <3>1, <3>4, <3>5
  <2>8. ListHolds'
    BY <1>2, <2>6, <2>7 DEF ListHolds
  <2> QED  BY <2>5, <2>8
<1>6. RamBelowHeap' /\ HeapMapped' /\ FirstCall' /\ WalkIsAtBlock'
  <2>1. /\ \A d, t : Translate(d, t)' = Translate(d, t)
        /\ \A m : Page(m)' = Page(m)
    BY <1>2 DEF Translate, Page
  <2>2. RamBelowHeap'
    BY <1>0, <2>1 DEF HeapWorks, RamBelowHeap
  <2>3. HeapMapped'
    <3>1. kheap_start # 0
      BY <1>0, <1>2 DEF FirstCall
    <3> QED  BY <1>0, <1>2, <2>1, <3>1 DEF HeapMapped, Top
  <2>4. FirstCall'
    BY <1>0, <1>2 DEF FirstCall
  <2>5. WalkIsAtBlock'
    BY <1>2 DEF WalkIsAtBlock
  <2> QED  BY <2>2, <2>3, <2>4, <2>5
<1> QED  BY <1>4, <1>5, <1>6 DEF HeapWorks

LEMMA HeapStep == HeapInv /\ [Next]_vars => HeapInv'
<1> SUFFICES ASSUME HeapInv, [Next]_vars, ~exhausted' PROVE HeapWorks'
  BY TypesStay DEF HeapInv
<1>1. CASE MemorySetup
  <2>1. ~exhausted /\ UNCHANGED <<page_dir, tables, heapVars>>
    BY <1>1 DEF MemorySetup, Setup
  <2> QED  BY <2>1, FrozenHolds DEF HeapInv
<1>2. CASE \E t \in Index, physical \in Device : MapScreen(t, physical)
  BY <1>2, MapScreenHolds
<1>3. CASE VmallocNothing
  <2>1. ~exhausted /\ UNCHANGED <<page_dir, tables, headers, kheap_top, kheap_start,
                                  given, pc, size, found_block, end_of_block>>
    BY <1>3 DEF VmallocNothing, memVars
  <2>2. HeapWorks
    BY <2>1 DEF HeapInv
  <2>3. /\ \A d, t : Translate(d, t)' = Translate(d, t)
        /\ \A n : Page(n)' = Page(n)
        /\ \A a : HeaderAt(a)' = HeaderAt(a)
    BY <2>1 DEF Translate, Page, HeaderAt, FrameOf
  <2>4. RamBelowHeap' /\ HeapMapped'
    BY <2>1, <2>2, <2>3 DEF HeapWorks, RamBelowHeap, HeapMapped, Top
  <2>5. FirstCall' /\ Layout' /\ WalkIsAtBlock'
    BY <2>1, <2>2 DEF HeapWorks, FirstCall, Layout, WalkIsAtBlock
  <2>6. ListHolds'
    BY <2>1, <2>2, <2>3, ListStays DEF HeapWorks, ListHolds
  <2> QED  BY <2>4, <2>5, <2>6 DEF HeapWorks
<1>4. CASE \E n \in Sizes : Vmalloc(n)
  <2>1. PICK n \in Sizes : Vmalloc(n)
    BY <1>4
  <2>2. ~exhausted
    BY <2>1 DEF Vmalloc, memVars
  <2> QED  BY <2>1, <2>2, VmallocHolds
<1>5. CASE MapFirstPage
  BY <1>5, MapFirstHolds
<1>6. CASE ClearFirstPage
  <2>1. ~exhausted
    BY <1>6 DEF ClearFirstPage, ClearPage
  <2> QED  BY <1>6, <2>1, ClearFirstHolds
<1>7. CASE Walk \/ WalkEnds
  <2>1. ~exhausted
    BY <1>7 DEF Walk, WalkEnds, memVars
  <2> QED  BY <1>7, <2>1, WalkHolds, WalkEndsHolds
<1>8. CASE MapHeapPage
  BY <1>8, MapHeapHolds
<1>9. CASE ClearHeapPage
  <2>1. ~exhausted
    BY <1>9 DEF ClearHeapPage, ClearPage
  <2> QED  BY <1>9, <2>1, ClearHeapHolds
<1>10. CASE LinkBlock
  <2>1. ~exhausted
    BY <1>10 DEF LinkBlock, memVars
  <2> QED  BY <1>10, <2>1, LinkHolds
<1>11. CASE PageFault \/ UNCHANGED vars
  <2>1. ~exhausted /\ UNCHANGED <<page_dir, tables, heapVars>>
    BY <1>11 DEF PageFault, vars, memVars
  <2> QED  BY <2>1, FrozenHolds DEF HeapInv
<1> QED  BY <1>1, <1>2, <1>3, <1>4, <1>5, <1>6, <1>7, <1>8, <1>9, <1>10, <1>11
         DEF Next

\* vmalloc's invariant, for every number of calls and of pages.
THEOREM HeapInvariance == Spec => []HeapInv
BY HeapInit, HeapStep, PTL DEF Spec

-----------------------------------------------------------------------------
(* What it gives *)

LEMMA FirstInHeap == First \in Nat /\ InHeap(First)
BY HeapConstants DEF InHeap

\* The bytes of a block lie below kheap_top.
LEMMA BytesInHeap ==
  ASSUME Layout, HeapType, NEW b \in given, NEW a \in b.start .. b.end - 1
  PROVE  a \in Nat /\ kHeapStart <= a /\ a < kheap_top
<1>1. /\ kHeapStart <= b.start /\ b.end <= kheap_top
      /\ b.start \in Nat /\ b.end \in Nat /\ kheap_top \in Nat
  BY DEF Layout, HeapType
<1> QED  BY <1>1, HeapAssumption

\* vmalloc gives no byte to two callers, and every byte it has given is
\* mapped, as long as AllocatePage has not run out of pages.
THEOREM BlocksAreDisjoint == Spec => []BlocksDisjoint
<1>1. HeapInv => BlocksDisjoint
  <2> SUFFICES ASSUME HeapInv PROVE BlocksDisjoint
    OBVIOUS
  <2>1. IndInv /\ HeapType
    BY DEF HeapInv
  <2>2. MemTypeOK
    BY <2>1 DEF IndInv, Shape, HeapType, MemTypeOK
  <2>3. TypeOK
    BY <2>1, <2>2 DEF HeapType, TypeOK
  <2>4. ASSUME ~exhausted
        PROVE  /\ \A b, c \in given : b # c => b.end <= c.start \/ c.end <= b.start
               /\ \A b \in given : \A a \in b.start .. b.end - 1 : Mapped(a)
    <3>1. Layout /\ HeapMapped
      BY <2>4 DEF HeapInv, HeapWorks
    <3>2. ASSUME NEW b \in given, NEW a \in b.start .. b.end - 1 PROVE Mapped(a)
      <4>1. a \in Nat /\ kHeapStart <= a /\ a < kheap_top
        BY <2>1, <3>1, BytesInHeap
      <4> QED  BY <2>1, <2>4, <3>1, <4>1, HeapIsMapped
    <3> QED  BY <3>1, <3>2 DEF Layout
  <2> QED  BY <2>3, <2>4 DEF BlocksDisjoint
<1> QED  BY <1>1, HeapInvariance, PTL

\* map_heap_pages and the first call clear a frame that holds neither a block
\* nor a page table.
THEOREM ClearingIsSafe == Spec => []ClearsOnlyFresh
<1>1. HeapInv => ClearsOnlyFresh
  <2> SUFFICES ASSUME HeapInv, pc \in {"clear first", "clear"}, ~exhausted
               PROVE  LET target == IF pc = "clear" THEN kheap_top ELSE kHeapStart
                      IN /\ FrameOf(target) \notin TableFrames
                         /\ \A b \in given : \A a \in b.start .. b.end - 1 :
                               FrameOf(a) # FrameOf(target)
    BY DEF ClearsOnlyFresh
  <2> DEFINE target == IF pc = "clear" THEN kheap_top ELSE kHeapStart
             m == PageNumber(target)
  <2>1. /\ IndInv /\ HeapType /\ HeapMapped /\ FirstCall /\ Layout
    BY DEF HeapInv, HeapWorks
  <2>2. m \in Nat /\ InHeap(m) /\ m = IF pc = "clear" THEN Top ELSE First
    <3>1. m = IF pc = "clear" THEN Top ELSE First
      BY DEF Top, First
    <3>2. Top \in Nat /\ InHeap(Top)
      BY NextHasEntry DEF InHeap
    <3>3. First \in Nat /\ InHeap(First)
      BY FirstInHeap
    <3> HIDE DEF m
    <3> QED  BY <3>1, <3>2, <3>3
  <2>3. FrameOf(target) = Page(m) /\ Page(m) \in Frame
    BY <2>1, <2>2 DEF FrameOf, Page, DirIndex, TableIndex, HeapMapped
  <2> HIDE DEF target, m
  <2>4. m \div TableSize \in Dir /\ m % TableSize \in Index
    BY <2>2, HeapEntries DEF InHeap
  <2>5. FrameOf(target) \notin TableFrames
    <3>1. TablesAreNotPages
      BY DEF HeapInv, IndInv, Exclusive
    <3> QED  BY <2>3, <2>4, <3>1 DEF TablesAreNotPages, TableFrames, Page
  <2>6. ASSUME NEW b \in given, NEW a \in b.start .. b.end - 1
        PROVE  FrameOf(a) # FrameOf(target)
    <3>1. pc = "clear" /\ m = Top
      BY <2>1, <2>2 DEF FirstCall
    <3>2. a \in Nat /\ kHeapStart <= a /\ a < kheap_top
      BY <2>1, BytesInHeap
    <3> DEFINE n == PageNumber(a)
    <3>3. n \in First .. Top - 1 /\ FrameOf(a) = Page(n)
      BY <2>1, <3>2, HeapIsMapped
    <3> HIDE DEF n
    <3>4. n \in Nat /\ InHeap(n) /\ n # m
      BY <2>2, <3>1, <3>3, HeapConstants, NextHasEntry DEF InHeap
    <3>5. Page(n) # Page(m)
      BY <2>1, <2>2, <2>3, <3>4, FramesDiffer DEF InHeap
    <3> QED  BY <2>3, <3>3, <3>5
  <2> QED  BY <2>5, <2>6 DEF target
<1> QED  BY <1>1, HeapInvariance, PTL

\* The list of headers in the heap is what vmalloc has given out.
THEOREM TheListIsComplete == Spec => []ListComplete
<1>1. HeapInv => ListComplete
  BY DEF HeapInv, HeapWorks, ListHolds, NextOf, ListComplete
<1> QED  BY <1>1, HeapInvariance, PTL

\* Under vmalloc, which also clears pages, no frame is used twice either ...
THEOREM HeapFramesExclusive == Spec => []FramesExclusive
<1>1. HeapInv => FramesExclusive
  BY ExclusiveFrames DEF HeapInv
<1> QED  BY <1>1, HeapInvariance, PTL

\* What vmalloc and the frame buffer do to the memory: a step of Memory, or
\* clearing a page of the heap.
LEMMA HeapMoves ==
  ASSUME HeapInv, ~exhausted', [Next]_vars
  PROVE  \/ MemNext \/ UNCHANGED memVars
         \/ ~exhausted /\ \E a \in {kHeapStart, kheap_top} : ClearPage(a)
<1>1. CASE MemorySetup
  BY <1>1 DEF MemorySetup, MemNext
<1>2. CASE \E t \in Index, physical \in Device : MapScreen(t, physical)
  <2>1. Screen \in Dir
    BY ScreenHasEntry
  <2> QED  BY <1>2, <2>1 DEF MapScreen, MemNext
<1>3. ASSUME NEW a \in {kHeapStart, kheap_top}, MapAddress(a) PROVE MemNext
  <2>1. ~exhausted
    BY <1>3, MapAddressTypes
  <2>2. DirIndex(a) \in Dir
    BY <2>1, NextHasEntry
  <2>3. TableIndex(a) \in Index
    BY HeapConstants DEF HeapInv, HeapType
  <2> QED  BY <1>3, <2>2, <2>3 DEF MapAddress, MemNext
<1>4. CASE MapFirstPage \/ MapHeapPage
  BY <1>3, <1>4 DEF MapFirstPage, MapHeapPage
<1>5. CASE ClearFirstPage \/ ClearHeapPage
  BY <1>5 DEF ClearFirstPage, ClearHeapPage, ClearPage
<1>6. CASE VmallocNothing \/ (\E n \in Sizes : Vmalloc(n)) \/ Walk \/ WalkEnds
             \/ LinkBlock \/ PageFault \/ UNCHANGED vars
  BY <1>6 DEF VmallocNothing, Vmalloc, Walk, WalkEnds, LinkBlock, PageFault, vars
<1> QED  BY <1>1, <1>2, <1>4, <1>5, <1>6 DEF Next

\* ... and every mapped page keeps its frame.
THEOREM HeapMappingsNeverMove == Spec => MappingsStay
<1>1. HeapInv /\ [Next]_vars => [MappingStays]_memVars
  <2> SUFFICES ASSUME HeapInv, [Next]_vars, ~exhausted', ~UNCHANGED memVars
               PROVE  MappingStays
    BY DEF MappingStays
  <2>1. CASE MemNext
    BY <2>1, MemoryKeepsMappings DEF HeapInv
  <2>2. ASSUME NEW a \in {kHeapStart, kheap_top}, ClearPage(a), ~exhausted
        PROVE  MappingStays
    <3>1. TableIndex(a) \in Index /\ IndInv
      BY HeapConstants DEF HeapInv, HeapType
    <3> QED  BY <2>2, <3>1, ClearKeepsMappings DEF MappingStays
  <2> QED  BY <2>1, <2>2, HeapMoves
<1> QED  BY <1>1, HeapInvariance, PTL DEF Spec, MappingsStay, MappingStays

-----------------------------------------------------------------------------
(* Only RAM is handed out *)

\* On a regular map, with a bitmap that was clear before Setup: every page
\* that is free, and every one that is in use, is RAM.
RamOnly ==
  /\ \A f \in bitmap : IsRam(mmap, f)
  /\ \A d \in Dir : page_dir[d] # NoFrame => IsRam(mmap, page_dir[d])
  /\ \A d \in Dir, t \in Index : Translate(d, t) \in Frame => IsRam(mmap, Translate(d, t))

RamInv == exhausted \/ garbage # {} \/ ~Regular(mmap) \/ RamOnly

\* The pages that PageFree is called for lie in a region of RAM.
LEMMA FreedIsRam ==
  ASSUME NEW map \in Maps, Regular(map), NEW f \in MarkedFree(map)
  PROVE  IsRam(map, f)
<1>1. PICK n \in DOMAIN map : f \in RegionPages(map[n])
  BY DEF MarkedFree
<1> DEFINE b == map[n].base
           l == map[n].length
           p == PageSize
<1>2. b \in Nat /\ l \in Nat
  <2> DEFINE Region == [base : Nat, length : Nat, available : BOOLEAN]
  <2>1. map \in Seq(Region)
    BY MemoryAssumption
  <2>2. map[n] \in Region
    <3> HIDE DEF Region
    <3> QED  BY <1>1, <2>1
  <2> QED  BY <2>2
<1>3. /\ b % p = 0 /\ l % p = 0 /\ b + l < Space
      /\ map[n].available
      /\ f \in (b % Space) \div p .. ((b + l) % Space) \div p - 1
  BY <1>1 DEF Regular, RegionPages, FirstPage, EndPage
<1>4. p \in Nat \ {0} /\ Space \in Nat \ {0}
  BY MemoryAssumption
<1> HIDE DEF b, l, p
<1>5. b % Space = b /\ (b + l) % Space = b + l
  BY <1>2, <1>3, <1>4
<1> DEFINE first == b \div p
           count == l \div p
<1>6. first \in Nat /\ count \in Nat /\ b = p * first /\ l = p * count
  <2>1. /\ first \in Nat /\ b = p * first + (b % p) /\ p * first \in Nat
        /\ count \in Nat /\ l = p * count + (l % p) /\ p * count \in Nat
    BY <1>2, <1>4, Division
  <2> HIDE DEF first, count
  <2> QED  BY <1>3, <2>1
<1> HIDE DEF first, count
<1>7. (b + l) \div p = first + count
  <2>1. b + l = p * (first + count) + 0
    BY <1>4, <1>6
  <2>2. (p * (first + count) + 0) \div p = first + count
    BY <1>4, <1>6, DivisionAt, first + count \in Nat, 0 \in 0 .. p - 1
  <2> QED  BY <2>1, <2>2
<1>8. f \in Nat /\ first <= f /\ f + 1 <= first + count
  BY <1>3, <1>5, <1>6, <1>7 DEF first
<1>9. p * first <= p * f /\ p * (f + 1) <= p * (first + count)
  BY <1>4, <1>6, <1>8, ProductGrows, f + 1 \in Nat, first + count \in Nat
<1>10. b <= f * p /\ (f + 1) * p <= b + l
  <2>1. p * f = f * p /\ p * (f + 1) = (f + 1) * p
    BY <1>4, <1>8
  <2>2. p * (first + count) = b + l
    BY <1>4, <1>6
  <2> QED  BY <1>6, <1>9, <2>1, <2>2
<1> QED  BY <1>1, <1>3, <1>10 DEF IsRam, b, l, p

LEMMA RamStep ==
  ASSUME IndInv, RamInv, MemNext
  PROVE  RamInv'
<1> SUFFICES ASSUME ~exhausted', garbage' = {}, Regular(mmap)' PROVE RamOnly'
  BY DEF RamInv
<1>1. ASSUME NEW map \in Maps, NEW old \in Garbage, Setup(map, old)
      PROVE  RamOnly'
  <2>1. /\ \A d \in Dir : page_dir[d] = NoFrame
        /\ page_dir' = page_dir /\ mmap' = map
        /\ bitmap' \subseteq MarkedFree(map)
    BY <1>1 DEF IndInv, NothingBeforeSetup, Setup
  <2>2. NoFrame \notin Frame /\ \A d \in Dir, t \in Index : Translate(d, t)' = NoFrame
    BY <2>1, MemoryAssumption DEF Translate, Frame
  <2>3. Regular(map)
    <3>1. Regular(mmap')
      BY DEF Regular
    <3> QED  BY <2>1, <3>1
  <2>4. \A f \in bitmap' : IsRam(map, f)
    BY <2>1, <2>3, FreedIsRam
  <2>5. \A f \in bitmap' : IsRam(mmap, f)'
    BY <2>1, <2>4 DEF IsRam
  <2> QED  BY <2>1, <2>2, <2>5 DEF RamOnly
<1>2. ASSUME NEW d \in Dir, NEW t \in Index, NEW physical \in Device \cup {0},
             MapPage(d, t, physical)
      PROVE  RamOnly'
  <2>1. mmap' = mmap /\ garbage' = garbage /\ ~exhausted
    <3>1. CASE MapNewPage(d, t, physical)
      BY <3>1 DEF MapNewPage
    <3>2. CASE MapNewTable(d, t, physical)
      BY <3>2 DEF MapNewTable
    <3>3. CASE MapAgain(d, t)
      BY <3>3 DEF MapAgain, memVars
    <3> QED  BY <1>2, <3>1, <3>2, <3>3 DEF MapPage
  <2>2. RamOnly
    <3>1. Regular(mmap)
      BY <2>1 DEF Regular
    <3> QED  BY <2>1, <3>1 DEF RamInv
  <2>i. \A f : IsRam(mmap, f)' <=> IsRam(mmap, f)
    BY <2>1 DEF IsRam
  <2>s. /\ bitmap \in SUBSET Frame /\ Device \cap Frame = {}
        /\ page_dir \in [Dir -> Frame \cup {NoFrame}]
    BY MemoryAssumption DEF IndInv, Shape
  <2>3. CASE MapNewPage(d, t, physical)
    <3> DEFINE frame == FrameFor(physical, bitmap)
    <3>1. /\ frame \in Device \/ frame \in bitmap
          /\ bitmap' \subseteq bitmap /\ page_dir' = page_dir
      BY <2>3, <2>s, FrameForPage DEF MapNewPage
    <3>2. \A e \in Dir, u \in Index :
             Translate(e, u)' = IF e = d /\ u = t THEN frame ELSE Translate(e, u)
      BY <2>1, <2>3, NewPageTranslates
    <3> HIDE DEF frame
    <3>3. \A e \in Dir, u \in Index :
             Translate(e, u)' \in Frame => IsRam(mmap, Translate(e, u)')
      BY <2>2, <2>s, <3>1, <3>2 DEF RamOnly
    <3> QED  BY <2>1, <2>2, <2>i, <3>1, <3>3 DEF RamOnly, IsRam
  <2>4. CASE MapNewTable(d, t, physical)
    <3> DEFINE table == FirstFree(bitmap)
               page == FrameFor(physical, Taken(bitmap))
    <3>1. bitmap # {} /\ ~(physical = 0 /\ Taken(bitmap) = {})
      BY <2>4 DEF MapNewTable
    <3>2. /\ table \in bitmap
          /\ page \in Device \/ page \in bitmap
      BY <2>s, <3>1, NewTableFrames
    <3>3. bitmap' \subseteq bitmap /\ page_dir' = [page_dir EXCEPT ![d] = table]
      <4>1. Taken(bitmap) \in SUBSET Frame /\ Taken(bitmap) \subseteq bitmap
        BY <2>s, FirstFreeIsFree
      <4> QED  BY <2>4, <4>1, FrameForPage DEF MapNewTable
    <3>4. \A e \in Dir, u \in Index :
             Translate(e, u)' = IF e = d /\ u = t THEN page ELSE Translate(e, u)
      BY <2>1, <2>4, <3>1, NewTableTranslates
    <3> HIDE DEF table, page
    <3>5. \A e \in Dir, u \in Index :
             Translate(e, u)' \in Frame => IsRam(mmap, Translate(e, u)')
      BY <2>2, <2>s, <3>2, <3>4 DEF RamOnly
    <3>6. \A e \in Dir : page_dir'[e] # NoFrame => IsRam(mmap, page_dir'[e])
      BY <2>2, <2>s, <3>2, <3>3 DEF RamOnly
    <3> QED  BY <2>1, <2>2, <3>3, <3>5, <3>6 DEF RamOnly, IsRam
  <2>5. CASE MapAgain(d, t)
    BY <2>2, <2>5 DEF MapAgain, memVars, RamOnly, Translate, IsRam
  <2> QED  BY <1>2, <2>3, <2>4, <2>5 DEF MapPage
<1> QED  BY <1>1, <1>2 DEF MemNext

\* Every frame that vmalloc, MapPage and the page tables use is RAM by the
\* memory map, if the map is regular and the bitmap happened to be clear.
THEOREM FramesAreRam == Spec => []RamIfRegular
<1>1. Init => RamInv
  BY MemoryAssumption
     DEF Init, MemInit, RamInv, RamOnly, Translate, Frame
<1>2. HeapInv /\ RamInv /\ [Next]_vars => RamInv'
  <2> SUFFICES ASSUME HeapInv, RamInv, [Next]_vars, ~exhausted' PROVE RamInv'
    BY DEF RamInv
  <2>1. CASE MemNext
    BY <2>1, RamStep DEF HeapInv
  <2>2. CASE UNCHANGED memVars
    BY <2>2 DEF memVars, RamInv, RamOnly, Regular, IsRam, Translate
  <2>3. ASSUME NEW a \in {kHeapStart, kheap_top}, ClearPage(a), ~exhausted
        PROVE  RamInv'
    <3>1. TableIndex(a) \in Index /\ IndInv
      BY HeapConstants DEF HeapInv, HeapType
    <3>2. \A e \in Dir, u \in Index : Translate(e, u)' = Translate(e, u)
      BY <2>3, <3>1, ClearKeepsMappings
    <3>3. UNCHANGED <<bitmap, page_dir, mmap, garbage, exhausted>>
      BY <2>3 DEF ClearPage
    <3>4. RamOnly => RamOnly'
      BY <3>2, <3>3 DEF RamOnly, IsRam
    <3>5. Regular(mmap)' <=> Regular(mmap)
      BY <3>3 DEF Regular
    <3> QED  BY <3>3, <3>4, <3>5 DEF RamInv
  <2> QED  BY <2>1, <2>2, <2>3, HeapMoves
<1>3. HeapInv /\ RamInv => RamIfRegular
  <2> SUFFICES ASSUME IndInv, ~exhausted, RamOnly PROVE RamIfRegular
    BY DEF HeapInv, RamInv, RamIfRegular
  <2>1. PageFrames \subseteq Frame
    BY DEF IndInv, Exclusive, NoJunk, PageFrames
  <2>2. \A f \in TableFrames \cup PageFrames : IsRam(mmap, f)
    BY <2>1 DEF TableFrames, PageFrames, RamOnly
  <2> QED  BY <2>2 DEF RamIfRegular
<1> QED  BY <1>1, <1>2, <1>3, HeapInvariance, PTL DEF Spec

=============================================================================
