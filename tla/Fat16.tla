------------------------------- MODULE Fat16 -------------------------------
(***************************************************************************)
(* kernel/fs/fat16.cpp and kernel/bin/cat.cpp on top of the disk driver:   *)
(* opening the volume at boot, then commands that list a directory or      *)
(* print a file.  Every step that needs a sector starts a read and goes on *)
(* when the driver has returned, with whatever it returned.                *)
(*                                                                         *)
(* A sector holds one of four kinds of content.  Its bytes do not tell     *)
(* which: one of another kind than expected, because a read gave up        *)
(* waiting or a cluster leads there, may look like any directory of        *)
(* Misread and any table of MisreadTables.  A path is the sequence of its  *)
(* tokens.                                                                 *)
(***************************************************************************)
EXTENDS Ata, Integers, Sequences, FiniteSets, SequencesExt

CONSTANTS Volumes,       \* the volumes that may be in the device
          RootSector,    \* 512: sector of the root directory
          EntrySize,     \* 32: bytes of a directory entry
          EndOfChain,    \* 0xF8: walk() stops at an entry of at least this
          EndMark,       \* 0xFFF8: where a FAT16 chain really ends
          Paths,         \* the directories that are listed
          ShortPaths,    \* those whose text has at most two characters
          Beyond,        \* what may lie behind the buffer of a directory
          Misread,       \* what a sector that is no directory may look like
          MisreadTables, \* what a sector that is no table may look like
          CatPath,       \* home/james, the directory of the file ...
          CatFile,       \* ... login.profile, which cat prints
          NoName,        \* the empty name
          MaxCommands,   \* how many commands are given in the model
          MaxChain       \* length at which an endless walk is cut off

Clusters == 0 .. Byte - 1
ClusterNumbers == 0 .. Byte * Byte - 1

\* walk() does not put a higher number into a chain.
Links == 0 .. EndOfChain - 1

\* The sizes in a boot sector with the magic: those of a disk that the driver
\* can address, with some size of a sector.
GoodHeader(header) ==
  /\ header.sectorSize \in Nat \ {0} /\ header.reserved \in Sector
  /\ \A c \in Links :
       (c - 2) * header.secPerCluster
         + (RootSector + (header.directories * EntrySize) \div header.sectorSize)
           \in Sector

GoodSlots(slots) ==
  /\ Len(slots) \in Nat /\ DOMAIN slots = 1 .. Len(slots)
  /\ \A n \in DOMAIN slots :
       /\ slots[n].kind \in {"none", "short", "long", "other"}
       /\ slots[n].location \in ClusterNumbers

\* What a sector may contain.
GoodSector(sector) ==
  /\ sector.kind = "boot" => sector.magic \in BOOLEAN
                              /\ (sector.magic => GoodHeader(sector.header))
  /\ sector.kind = "table" => sector.next \in [Clusters -> ClusterNumbers]
  /\ sector.kind = "directory" => GoodSlots(sector.slots)

ASSUME Fat16Assumption ==
  /\ RootSector \in Sector /\ 0 \in Sector
  /\ EntrySize \in Nat \ {0} /\ MaxCommands \in Nat /\ MaxChain \in Nat
  /\ EndOfChain \in 3 .. Byte - 1
  /\ EndMark = (Byte - 1) * Byte + EndOfChain
  /\ Beyond \subseteq ClusterNumbers
  /\ \A slots \in Misread : GoodSlots(slots)
  /\ MisreadTables \subseteq [Clusters -> ClusterNumbers]
  /\ \A v \in Volumes : DOMAIN v = Sector /\ \A s \in Sector : GoodSector(v[s])
  /\ \A p \in Paths \cup {CatPath} : p \in Seq(ToSet(p))
  /\ CatPath \notin ShortPaths
  /\ Nothing.kind \notin {"boot", "table", "directory"}
  /\ Identity.kind \notin {"boot", "table", "directory"}

VARIABLES fs,            \* where the code is
          header_info,   \* what open() found in the boot sector
          mounted,       \* open() returned true
          table,         \* fat.table, the entries as the volume stores them
          cmd,           \* the command that runs, or ran last
          dir,           \* the directory it was given
          path,          \* its tokens that are still to be looked up
          location, current, chain,
          listing,       \* what readDirectory returned to ls
          printed,       \* what cat printed
          slow,          \* history: a read of this command gave up waiting
          commands

fileVars == <<cmd, dir, path, location, current, chain, listing, printed>>
vars == <<ataVars, fs, header_info, mounted, table, fileVars, slow, commands>>

\* The object lies in fresh, cleared memory.
NoHeader == [sectorSize |-> 0, secPerCluster |-> 0, reserved |-> 0,
             directories |-> 0]
NoTable == [c \in Clusters |-> 0]

Init ==
  /\ AtaInit(Volumes)
  /\ fs = "boot"
  /\ header_info = NoHeader
  /\ mounted = FALSE
  /\ table = NoTable
  /\ cmd = "none" /\ dir = << >> /\ path = << >>
  /\ location = 0 /\ current = 0 /\ chain = << >>
  /\ listing = << >> /\ printed = << >>
  /\ slow = FALSE
  /\ commands = 0

\* The driver and the device move on by themselves.
Disk ==
  /\ AtaStep \/ DeviceReady
  /\ UNCHANGED <<fs, header_info, mounted, table, fileVars, slow, commands>>

\* A read has returned to the code at "point".
Returned(point) ==
  /\ fs = point /\ ata = "done"
  /\ slow' = (slow \/ gaveUp)

Read(sector, point) == StartRead(sector) /\ fs' = point
Shell == fs' = "shell" /\ UNCHANGED ataVars

-----------------------------------------------------------------------------
(* The constructor: open() and getFAT() *)

OpenReads ==
  /\ fs = "boot" /\ ata = "idle"
  /\ Read(0, "open")
  /\ UNCHANGED <<header_info, mounted, table, fileVars, slow, commands>>

HasMagic(sector) == sector.kind = "boot" /\ sector.magic

OpenRefuses ==
  /\ Returned("open")
  /\ ~HasMagic(result)
  /\ Shell
  /\ UNCHANGED <<header_info, mounted, table, fileVars, commands>>

\* An open() that leaves header_info as it was.
OpenForgetful ==
  /\ Returned("open")
  /\ HasMagic(result)
  /\ mounted' = TRUE
  /\ Read(result.header.reserved, "mount")
  /\ UNCHANGED <<header_info, table, fileVars, commands>>

OpenAccepts ==
  /\ Returned("open")
  /\ HasMagic(result)
  /\ header_info' = result.header
  /\ mounted' = TRUE
  /\ Read(header_info'.reserved, "mount")
  /\ UNCHANGED <<table, fileVars, commands>>

AsTables(sector) ==
  IF sector.kind = "table" THEN {sector.next} ELSE MisreadTables

Mount ==
  /\ Returned("mount")
  /\ table' \in AsTables(result)
  /\ Shell
  /\ UNCHANGED <<header_info, mounted, fileVars, commands>>

-----------------------------------------------------------------------------
(* FileAllocationTable::walk and FAT16::walkSectors *)

\* getFAT() comes first, every time.
WalkSectors(cluster) ==
  /\ location' = cluster
  /\ Read(header_info.reserved, "table")

TableRead ==
  /\ Returned("table")
  /\ table' \in AsTables(result)
  /\ current' = location
  /\ chain' = << >>
  /\ fs' = "walk"
  /\ UNCHANGED <<ataVars, header_info, mounted, cmd, dir, path, location,
                 listing, printed, commands>>

\* The high byte of an entry.
HighByte(entry) == entry \div Byte

\* table[current * 2]: the low byte only
EntryByte(entry) == entry % Byte

Walk ==
  /\ fs = "walk"
  /\ current < EndOfChain
  /\ Len(chain) < MaxChain
  /\ chain' = Append(chain, current)
  /\ current' = EntryByte(table[current])
  /\ UNCHANGED <<ataVars, fs, header_info, mounted, table, cmd, dir, path,
                 location, listing, printed, slow, commands>>

\* A chain that leads back into itself: the vector grows until no memory is
\* left, and the scheduler is locked.
WalkForever ==
  /\ fs = "walk"
  /\ current < EndOfChain
  /\ Len(chain) = MaxChain
  /\ UNCHANGED vars

WalkEnded == fs = "walk" /\ current >= EndOfChain

\* dataStart divides by the size of a sector; walkSectors(...)[0] of an empty
\* chain reads through a null pointer.  Either exception returns to the same
\* instruction.
Fault ==
  /\ WalkEnded
  /\ header_info.sectorSize = 0 \/ (cmd # "print" /\ chain = << >>)
  /\ fs' = "fault"
  /\ UNCHANGED <<ataVars, header_info, mounted, table, fileVars, slow, commands>>

FaultAgain == fs = "fault" /\ UNCHANGED vars

DataStart == RootSector
               + (header_info.directories * EntrySize) \div header_info.sectorSize

SectorOf(cluster) == (cluster - 2) * header_info.secPerCluster + DataStart

\* The folder was found: on with its first sector.
FolderSector ==
  /\ WalkEnded
  /\ header_info.sectorSize # 0 /\ cmd # "print" /\ chain # << >>
  /\ Read(SectorOf(Head(chain)), "directory")
  /\ UNCHANGED <<header_info, mounted, table, fileVars, slow, commands>>

\* cat reads one sector for each cluster of the file.
PrintNext(rest) ==
  IF rest = << >> THEN Shell ELSE Read(SectorOf(Head(rest)), "print")

FileSectors ==
  /\ WalkEnded
  /\ header_info.sectorSize # 0 /\ cmd = "print"
  /\ PrintNext(chain)
  /\ UNCHANGED <<header_info, mounted, table, fileVars, slow, commands>>

PrintSector ==
  /\ Returned("print")
  /\ printed' = Append(printed, result)
  /\ chain' = Tail(chain)
  /\ PrintNext(chain')
  /\ UNCHANGED <<header_info, mounted, table, cmd, dir, path, location, current,
                 listing, commands>>

-----------------------------------------------------------------------------
(* FAT16::readDirectory and FAT16::readFile *)

Entry(name, cluster) == [name |-> name, location |-> cluster]

\* A long name whose short entry is listed as well.
EntriesTwice(slots, beyond) ==
  LET named == SelectSeq(slots, LAMBDA s : s.kind \in {"short", "long"})
  IN [n \in DOMAIN named |-> Entry(named[n].name, named[n].location)]

\* The scan of a directory sector.  A long name takes its cluster from the
\* slot behind it, which is skipped; behind the last slot that is whatever
\* follows the buffer.  A slot with other attributes gives an entry without a
\* name.
LongLocation(slots, n, beyond) ==
  IF n < Len(slots) THEN slots[n + 1].location ELSE beyond

Scan(slots, beyond) ==
  LET from[n \in 1 .. Len(slots) + 2] ==
        IF n > Len(slots) THEN << >>
        ELSE CASE slots[n].kind = "none" -> from[n + 1]
               [] slots[n].kind = "short" ->
                    <<Entry(slots[n].name, slots[n].location)>> \o from[n + 1]
               [] slots[n].kind = "long" ->
                    <<Entry(slots[n].name, LongLocation(slots, n, beyond))>>
                      \o from[n + 2]
               [] slots[n].kind = "other" ->
                    <<Entry(NoName, 0)>> \o from[n + 1]
  IN from

Entries(slots, beyond) == Scan(slots, beyond)[1]

AsSlots(sector) ==
  IF sector.kind = "directory" THEN {sector.slots} ELSE Misread

\* The lists that may come of the sector that was read.
ReadEntries ==
  {Entries(slots, beyond) : slots \in AsSlots(result), beyond \in Beyond}

\* find_if: the first entry with that name
IsFound(name, entries) == \E n \in DOMAIN entries : entries[n].name = name
Found(name, entries) ==
  entries[SelectInSeq(entries, LAMBDA e : e.name = name)]

\* FileEntry::nfile, which is also what a cluster of 0xFFFF is turned into.
NoFile == Byte * Byte - 1
HasFile(entries) ==
  IsFound(CatFile, entries) /\ Found(CatFile, entries).location # NoFile

\* ls with a path, or cat with its own.  The tokens of a short path are not
\* looked up.
ReadDirectory(c, tokens) ==
  /\ fs = "shell" /\ commands < MaxCommands
  /\ commands' = commands + 1
  /\ cmd' = c
  /\ dir' = tokens
  /\ path' = IF tokens \in ShortPaths THEN << >> ELSE tokens
  /\ listing' = << >> /\ printed' = << >>
  /\ slow' = FALSE
  /\ Read(RootSector, "directory")
  /\ UNCHANGED <<header_info, mounted, table, location, current, chain>>

FolderFound ==
  /\ Returned("directory")
  /\ path # << >>
  /\ path' = Tail(path)
  /\ \E entries \in ReadEntries :
       /\ IsFound(Head(path), entries)
       /\ WalkSectors(Found(Head(path), entries).location)
  /\ UNCHANGED <<header_info, mounted, table, cmd, dir, current, chain, listing,
                 printed, commands>>

\* "Error: directory not found": an empty list.
FolderNotFound ==
  /\ Returned("directory")
  /\ path # << >>
  /\ \E entries \in ReadEntries : ~IsFound(Head(path), entries)
  /\ Shell
  /\ UNCHANGED <<header_info, mounted, table, fileVars, commands>>

List ==
  /\ Returned("directory")
  /\ path = << >> /\ cmd = "ls"
  /\ listing' \in ReadEntries
  /\ Shell
  /\ UNCHANGED <<header_info, mounted, table, cmd, dir, path, location, current,
                 chain, printed, commands>>

FileFound ==
  /\ Returned("directory")
  /\ path = << >> /\ cmd = "cat"
  /\ cmd' = "print"
  /\ \E entries \in ReadEntries :
       HasFile(entries) /\ WalkSectors(Found(CatFile, entries).location)
  /\ UNCHANGED <<header_info, mounted, table, dir, path, current, chain,
                 listing, printed, commands>>

FileNotFound ==
  /\ Returned("directory")
  /\ path = << >> /\ cmd = "cat"
  /\ \E entries \in ReadEntries : ~HasFile(entries)
  /\ Shell
  /\ UNCHANGED <<header_info, mounted, table, fileVars, commands>>

FileSystem ==
  \/ OpenReads \/ OpenRefuses \/ OpenAccepts \/ Mount
  \/ TableRead \/ Walk \/ WalkForever \/ Fault \/ FaultAgain \/ FolderSector
  \/ FileSectors \/ PrintSector \/ FolderFound \/ FolderNotFound \/ List
  \/ FileFound \/ FileNotFound

\* Nobody types any more.
Idle == fs = "shell" /\ commands = MaxCommands /\ UNCHANGED vars

Next ==
  \/ Disk
  \/ FileSystem
  \/ \E tokens \in Paths : ReadDirectory("ls", tokens)
  \/ ReadDirectory("cat", CatPath)
  \/ Idle

Spec == Init /\ [][Next]_vars

\* The thread that runs the command gets the CPU again and again (see
\* Scheduler).  Nothing is assumed about the device.
FairSpec ==
  /\ Spec
  /\ WF_vars(AtaStep /\ UNCHANGED <<fs, header_info, mounted, table, fileVars,
                                    slow, commands>>)
  /\ WF_vars(FileSystem)

-----------------------------------------------------------------------------
(* What is on a volume, by the rules of FAT16 *)

HeaderOf(v) == v[0].header
TableOf(v) == v[HeaderOf(v).reserved].next
DataOf(v) == RootSector
               + (HeaderOf(v).directories * EntrySize) \div HeaderOf(v).sectorSize
ClusterSector(v, cluster) == (cluster - 2) * HeaderOf(v).secPerCluster + DataOf(v)

\* The clusters of the file or folder that begins at "cluster": as far as n
\* entries of the table lead, and all of them.
Linked(v, clusters) ==
  LET entry == TableOf(v)[Last(clusters)]
  IN IF entry >= EndMark THEN clusters ELSE Append(clusters, entry)

ChainsOf(v, cluster) ==
  LET upTo[n \in 0 .. MaxChain] ==
        IF n = 0 THEN <<cluster>> ELSE Linked(v, upTo[n - 1])
  IN upTo

ChainOf(v, cluster) == ChainsOf(v, cluster)[MaxChain]

\* The files and folders of a directory, with their long names if they have.
NameOf(slots, n) == IF n > 1 /\ slots[n - 1].kind = "long"
                    THEN slots[n - 1].name ELSE slots[n].name
Content(slots) == {Entry(NameOf(slots, n), slots[n].location) :
                     n \in {k \in DOMAIN slots : slots[k].kind = "short"}}

NoSector == -1
EntriesAt(v, sector) ==
  IF sector # NoSector /\ v[sector].kind = "directory"
  THEN Content(v[sector].slots) ELSE {}
Named(entries, name) == {e \in entries : e.name = name}

ClusterOf(here) == (CHOOSE e \in here : TRUE).location

\* Where a folder begins.  The ".." of a folder in the root directory has
\* cluster 0 for the root directory, which has no cluster.
FolderAt(v, cluster) ==
  IF cluster = 0 THEN RootSector ELSE ClusterSector(v, cluster)

\* The sectors that the folders of a path begin with, from the root directory
\* on, or none.
SectorBelow(v, sector, name) ==
  LET here == Named(EntriesAt(v, sector), name)
  IN IF here = {} THEN NoSector ELSE FolderAt(v, ClusterOf(here))

SectorsOnPath(v, tokens) ==
  LET at[n \in 0 .. Len(tokens)] ==
        IF n = 0 THEN RootSector ELSE SectorBelow(v, at[n - 1], tokens[n])
  IN at

\* What has a name of the path is a folder, if there is such a thing.
OnlyFolders(v, tokens) ==
  \A n \in 0 .. Len(tokens) :
    LET sector == SectorsOnPath(v, tokens)[n]
    IN sector # NoSector => v[sector].kind = "directory"

\* The path goes back to the root directory, for which walkSectors computes
\* the sector of a cluster 0.
BackToRoot(v, tokens) ==
  \E n \in 1 .. Len(tokens) :
    LET here == Named(EntriesAt(v, SectorsOnPath(v, tokens)[n - 1]), tokens[n])
    IN here # {} /\ ClusterOf(here) = 0

\* Where FAT16::readDirectory leaves the directories.
Strays(v, tokens) == ~OnlyFolders(v, tokens) \/ BackToRoot(v, tokens)

EntriesOfPath(v, tokens) == EntriesAt(v, SectorsOnPath(v, tokens)[Len(tokens)])

\* A file without a byte has cluster 0.
FilesHere(v) == Named(EntriesOfPath(v, CatPath), CatFile)
FileIsEmpty(v) == FilesHere(v) # {} /\ ClusterOf(FilesHere(v)) = 0

TextOfFile(v) ==
  LET clusters == ChainOf(v, ClusterOf(FilesHere(v)))
  IN IF FilesHere(v) = {} \/ FileIsEmpty(v) THEN << >>
     ELSE [n \in DOMAIN clusters |-> v[ClusterSector(v, clusters[n])]]

\* A volume of the kind that the code is written for: clusters of one sector,
\* so few of them that their numbers fit into a byte below EndOfChain, no
\* chain that leads back into itself, no label, and every long name in one
\* slot, followed by the short one.  Cluster 0 stands for the root directory
\* in ".." entries, for no cluster in those of empty files and for a free
\* cluster in the table.
PlainDirectory(slots) ==
  \A n \in DOMAIN slots :
    /\ slots[n].kind # "other"
    /\ slots[n].kind = "short" => slots[n].location \in Links
    /\ slots[n].kind = "long" => /\ n < Len(slots)
                                 /\ slots[n + 1].kind = "short"
    /\ \A k \in DOMAIN slots :
         slots[n].kind = "short" /\ slots[k].kind = "short"
           /\ NameOf(slots, n) = NameOf(slots, k) => n = k

Ends(v) ==
  \A c \in Links :
    LET from[n \in 0 .. MaxChain] ==
          IF n = 0 THEN c
          ELSE IF from[n - 1] >= EndOfChain THEN from[n - 1]
          ELSE TableOf(v)[from[n - 1]] % Byte
    IN from[MaxChain] >= EndOfChain

Plain(v) ==
  /\ v[0].magic
  /\ HeaderOf(v).secPerCluster = 1
  /\ v[HeaderOf(v).reserved].kind = "table"
  /\ \A c \in Links : TableOf(v)[c] \in Links \/ TableOf(v)[c] >= EndMark
  /\ Ends(v)
  /\ \A s \in DOMAIN v : v[s].kind = "directory" => PlainDirectory(v[s].slots)

-----------------------------------------------------------------------------
(* Properties *)

TypeOK ==
  /\ AtaTypeOK
  /\ fs \in {"boot", "open", "mount", "shell", "directory", "table", "walk",
             "print", "fault"}
  /\ mounted \in BOOLEAN
  /\ table \in [Clusters -> 0 .. Byte * Byte - 1]
  /\ cmd \in {"none", "ls", "cat", "print"}
  /\ location \in 0 .. Byte * Byte - 1
  /\ current \in 0 .. Byte * Byte - 1
  /\ Len(chain) <= MaxChain
  /\ slow \in BOOLEAN /\ commands \in 0 .. MaxCommands

\* A command is over, on a plain volume, and none of its reads gave up.
Undisturbed == fs = "shell" /\ mounted /\ ~slow /\ Plain(volume)

\* ls (FAT16::readDirectory) lists what is in the directory: every file and
\* folder once, under its long name if it has one and with its own cluster.
\* (For a folder that is given as a single letter and a slash it lists the
\* root directory instead, and what it lists for a file, or for a path that
\* goes back to the root directory, is what some other sector looks like.)
LsListsTheDirectory ==
  Undisturbed /\ cmd = "ls" /\ dir \notin ShortPaths /\ ~Strays(volume, dir) =>
    /\ ToSet(listing) = EntriesOfPath(volume, dir)
    /\ Len(listing) = Cardinality(EntriesOfPath(volume, dir))

\* cat prints the file: the sectors of its chain in order, and nothing if
\* there is no such file.  (For an empty file it prints the sector of a
\* cluster 0.)
CatPrintsTheFile ==
  Undisturbed /\ cmd \in {"cat", "print"} /\ ~Strays(volume, CatPath)
    /\ ~FileIsEmpty(volume) => printed = TextOfFile(volume)

\* On a plain volume that was opened a command runs into an exception only if
\* one of its reads gave up, or if its path leads out of the directories: then
\* what is taken for a directory may name any cluster.
NoFaultOnceMounted ==
  /\ TypeOK
  /\ mounted /\ Plain(volume) /\ fs = "fault" => slow \/ Strays(volume, dir)

\* Every command comes back if the chains of the volume end, also from a
\* device that is slow, silent or missing.  The exceptions: a read of this
\* command gave up waiting or open() has not found the header, so that walk()
\* follows something else than the table, and for ever, or finds no cluster;
\* or a cluster is named that leads nowhere, in what is no directory or by a
\* volume that is not plain, and the first sector of an empty chain is read.
CommandEnds ==
  (fs # "shell" /\ Ends(volume)) ~>
    \/ fs = "shell"
    \/ fs \in {"walk", "fault"} /\ (slow \/ ~mounted)
    \/ fs = "fault" /\ (Strays(volume, dir) \/ ~Plain(volume))
=============================================================================
