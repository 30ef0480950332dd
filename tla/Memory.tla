------------------------------- MODULE Memory -------------------------------
(***************************************************************************)
(* kernel/memory/manager.cpp: the bitmap of free physical pages, which     *)
(* Memory::Setup fills from the memory map of GRUB, and the page tables,   *)
(* which MapPage extends with pages from the bitmap.                       *)
(*                                                                         *)
(* A page table is the content of a physical frame.  AllocatePage returns  *)
(* NULL when no page is left, MapPage takes that for frame 0, and so two   *)
(* entries may then share a frame: the model follows them there.           *)
(***************************************************************************)
EXTENDS Integers, Sequences, FiniteSetsExt

CONSTANTS BitmapPages,   \* 32 * BitmapSize: pages that have a bit (131072)
          PageSize,      \* kPageSize (4096)
          Space,         \* addresses of a 32 bit register (2^32)
          Word,          \* values of free_pages (2^32)
          DirSize,       \* entries of the page directory (1024)
          TableSize,     \* entries of a page table (1024)
          Device,        \* frames of the frame buffer, which is not RAM
          Maps,          \* the memory maps GRUB may pass
          KernelEnd,     \* kernel_end, an address
          Garbage,       \* what the bitmap may hold before Setup
          NoFrame, Junk  \* an entry that is not present; old memory content

Frame == 0 .. BitmapPages - 1
Dir == 0 .. DirSize - 1
Index == 0 .. TableSize - 1

ASSUME MemoryAssumption ==
  /\ BitmapPages \in Nat \ {0} /\ PageSize \in Nat \ {0}
  /\ Space \in Nat \ {0} /\ Word \in Nat \ {0}
  /\ DirSize \in Nat \ {0} /\ TableSize \in Nat \ {0}
  /\ KernelEnd \in Nat
  /\ Maps \subseteq Seq([base : Nat, length : Nat, available : BOOLEAN])
  /\ Device \cap Frame = {} /\ Device \subseteq Nat
  /\ Garbage \subseteq SUBSET Frame
  /\ NoFrame \notin Nat /\ Junk \notin Nat /\ Junk # NoFrame

VARIABLES bitmap,        \* the pages whose bit is 1
          free_pages,
          page_dir,      \* frame of the page table of each entry
          tables,        \* each frame, read as a page table
          mmap,          \* the memory map, << >> before Setup
          garbage,       \* what the bitmap held before Setup
          exhausted      \* history: AllocatePage returned NULL

memVars == <<bitmap, free_pages, page_dir, tables, mmap, garbage, exhausted>>

(***************************************************************************)
(* The bitmap.                                                             *)
(***************************************************************************)

\* A region counts with the page it begins in and not with the one it ends
\* in.  Only the low words of its base and its length are used.
FirstPage(region) == (region.base % Space) \div PageSize
EndPage(region) == ((region.base + region.length) % Space) \div PageSize

\* The pages of a region of any type.
RegionPagesAnyType(region) == FirstPage(region) .. EndPage(region) - 1

RegionPages(region) == IF region.available
                       THEN FirstPage(region) .. EndPage(region) - 1
                       ELSE {}

\* The pages that PageFree is called for.
MarkedFree(map) == UNION {RegionPages(map[n]) : n \in DOMAIN map}

KernelPages == 0 .. KernelEnd \div PageSize

\* The calls of PageFree: a page that lies in two regions is freed twice.
PageFrees(map) == UNION {{n} \X RegionPages(map[n]) : n \in DOMAIN map}

\* The constructor of BitmapAllocator does not clear its bitmap, and counts
\* each call of PageFree and PageTaken.
Setup(map, old) ==
  /\ mmap = << >>
  /\ mmap' = map
  /\ garbage' = old
  /\ bitmap' = ((old \cup MarkedFree(map)) \cap Frame) \ KernelPages
  /\ free_pages' = (Cardinality(PageFrees(map)) - Cardinality(KernelPages)) % Word
  /\ UNCHANGED <<page_dir, tables, exhausted>>

\* AllocatePage: the first set bit, or NULL.
FirstFree(pages) == IF pages = {} THEN 0 ELSE Min(pages)

\* An AllocatePage that leaves the bit of the page as it is.
KeepBit(pages) == pages

Taken(pages) == pages \ {FirstFree(pages)}

CountDown(pages, counter) == IF pages = {} THEN counter
                                           ELSE (counter - 1) % Word

(***************************************************************************)
(* The page tables.                                                        *)
(***************************************************************************)

Blank == [t \in Index |-> NoFrame]

\* The frame of a page that is to be mapped, and the bitmap after that.
FrameFor(physical, pages) == IF physical = 0 THEN FirstFree(pages)
                                             ELSE physical
PagesAfter(physical, pages) == IF physical = 0 THEN Taken(pages) ELSE pages

\* MapPage for a page whose table exists ...
MapNewPage(d, t, physical) ==
  /\ page_dir[d] # NoFrame
  /\ tables[page_dir[d]][t] = NoFrame
  /\ tables' = [tables EXCEPT ![page_dir[d]][t] = FrameFor(physical, bitmap)]
  /\ bitmap' = PagesAfter(physical, bitmap)
  /\ free_pages' = IF physical = 0 THEN CountDown(bitmap, free_pages)
                                   ELSE free_pages
  /\ exhausted' = (exhausted \/ (physical = 0 /\ bitmap = {}))
  /\ UNCHANGED <<page_dir, mmap, garbage>>

\* ... for the first page of a new table, which is cleared ...
MapNewTable(d, t, physical) ==
  LET frame == FirstFree(bitmap)
      rest == Taken(bitmap)
      counted == CountDown(bitmap, free_pages)
  IN /\ page_dir[d] = NoFrame
     /\ page_dir' = [page_dir EXCEPT ![d] = frame]
     /\ tables' = [tables EXCEPT ![frame] =
                     [Blank EXCEPT ![t] = FrameFor(physical, rest)]]
     /\ bitmap' = PagesAfter(physical, rest)
     /\ free_pages' = IF physical = 0 THEN CountDown(rest, counted)
                                      ELSE counted
     /\ exhausted' = (exhausted \/ bitmap = {}
                        \/ (physical = 0 /\ rest = {}))
     /\ UNCHANGED <<mmap, garbage>>

\* A MapPage that does not look whether the page is there.
MapOver(d, t) ==
  /\ page_dir[d] # NoFrame
  /\ tables[page_dir[d]][t] # NoFrame
  /\ tables' = [tables EXCEPT ![page_dir[d]][t] = FirstFree(bitmap)]
  /\ bitmap' = Taken(bitmap)
  /\ exhausted' = (exhausted \/ bitmap = {})
  /\ UNCHANGED <<free_pages, page_dir, mmap, garbage>>

\* ... and for a page that is there already.
MapAgain(d, t) ==
  /\ page_dir[d] # NoFrame
  /\ tables[page_dir[d]][t] # NoFrame
  /\ UNCHANGED memVars

MapPage(d, t, physical) ==
  /\ mmap # << >>
  /\ \/ MapNewPage(d, t, physical)
     \/ MapNewTable(d, t, physical)
     \/ MapAgain(d, t)

-----------------------------------------------------------------------------
MemInit ==
  /\ bitmap = {}
  /\ free_pages = 0
  /\ page_dir = [d \in Dir |-> NoFrame]
  /\ tables = [f \in Frame |-> [t \in Index |-> Junk]]
  /\ mmap = << >>
  /\ garbage = {}
  /\ exhausted = FALSE

MemNext ==
  \/ \E map \in Maps, old \in Garbage : Setup(map, old)
  \/ \E d \in Dir, t \in Index, physical \in Device \cup {0} :
        MapPage(d, t, physical)

MemSpec == MemInit /\ [][MemNext]_memVars

-----------------------------------------------------------------------------
(* Properties *)

MemTypeOK ==
  /\ bitmap \subseteq Frame
  /\ free_pages \in 0 .. Word - 1
  /\ page_dir \in [Dir -> Frame \cup {NoFrame}]
  /\ tables \in [Frame -> [Index -> Frame \cup Device \cup {NoFrame, Junk}]]
  /\ mmap \in Maps \cup {<< >>}
  /\ garbage \in SUBSET Frame
  /\ exhausted \in BOOLEAN

\* What a virtual page translates to.
Translate(d, t) == IF page_dir[d] = NoFrame THEN NoFrame
                                            ELSE tables[page_dir[d]][t]

TableFrames == {page_dir[d] : d \in Dir} \ {NoFrame}
PageFrames == {Translate(d, t) : d \in Dir, t \in Index}
                \ ({NoFrame} \cup Device)

\* As long as there was a page for every request, whatever the bitmap held
\* before Setup: no frame is used twice, as the table of two directory
\* entries, for two pages, or for a page and a table; nothing else is found
\* in a table; no frame in use can be handed out again; and none of them
\* belongs to the kernel.
FramesExclusive ==
  exhausted \/
    /\ \A d, e \in Dir :
          page_dir[d] # NoFrame /\ page_dir[d] = page_dir[e] => d = e
    /\ \A d, e \in Dir, t, u \in Index :
          Translate(d, t) \in Frame /\ Translate(d, t) = Translate(e, u)
            => d = e /\ t = u
    /\ PageFrames \subseteq Frame \ TableFrames
    /\ (TableFrames \cup PageFrames) \cap (bitmap \cup KernelPages) = {}

\* A page that is mapped stays mapped to the frame it has: no later MapPage
\* moves it, clears the table it is in or hands its frame to a table.
MappingsStay ==
  [][~exhausted' => \A d \in Dir, t \in Index :
        Translate(d, t) # NoFrame => Translate(d, t)' = Translate(d, t)]_memVars

\* A map with regions of whole pages that end below 2^32, and whose RAM ends
\* where the bitmap does or before.
Regular(map) ==
  \A n \in DOMAIN map :
    /\ map[n].base % PageSize = 0 /\ map[n].length % PageSize = 0
    /\ map[n].available => map[n].base + map[n].length <= BitmapPages * PageSize
    /\ map[n].base + map[n].length < Space

IsRam(map, page) ==
  \E n \in DOMAIN map :
    /\ map[n].available
    /\ map[n].base <= page * PageSize
    /\ (page + 1) * PageSize <= map[n].base + map[n].length

\* Every frame in use is RAM, if the map is regular and the memory of the
\* bitmap happened to be clear.
RamIfRegular ==
  exhausted \/ garbage # {} \/ ~Regular(mmap)
    \/ \A f \in TableFrames \cup PageFrames : IsRam(mmap, f)
=============================================================================
