----------------------------- MODULE DiskProofs -----------------------------
(***************************************************************************)
(* Theorems about modules Ata and Fat16, for every device, every volume    *)
(* and any number of commands: a sector that the driver reads without      *)
(* giving up is the sector it was asked for; whatever the other reads      *)
(* return, a command on a plain volume does not run into an exception; and *)
(* if no read gives up, ls and cat show what is on the volume.             *)
(* That rests on recursive functions, the scan of a directory and the      *)
(* chains and paths of a volume: they are shown to be defined, and what    *)
(* they find, by the first place for which it would not be so.             *)
(***************************************************************************)
EXTENDS Fat16, SequenceTheorems, FiniteSetTheorems, NaturalsInduction,
        WellFoundedInduction, TLAPS

\* What the file system and the device do with the driver.
AtaNext == AtaStep \/ DeviceReady \/ \E offset : StartRead(offset)

\* A read whose command the device has taken: it is at work on the sector
\* that the registers name, or that sector is at its port.
ReadUnderWay ==
  ata = "data" /\ ~gaveUp =>
    /\ present
    /\ bsy => job = "read" /\ lba = Address(asked)
    /\ drq => port = volume[Address(asked)]

\* ... and what a finished read has returned.
ReadDone == ata = "done" /\ ~gaveUp => result = volume[Address(asked)]

\* The inductive invariant.  A device at work has no data for the driver:
\* otherwise the driver would take what an earlier command has left at the
\* port.
AtaInv ==
  /\ bsy \in BOOLEAN /\ drq \in BOOLEAN
  /\ bsy => ~drq
  /\ ReadUnderWay
  /\ ReadDone

-----------------------------------------------------------------------------
(* The three registers *)

\* Division by Byte, as the driver shifts the sector number.
LEMMA Division ==
  ASSUME NEW n \in Nat, NEW b \in Nat \ {0}
  PROVE  /\ n \div b \in Nat /\ n % b \in 0 .. b - 1
         /\ n = b * (n \div b) + (n % b)
  OBVIOUS

LEMMA Positive ==
  ASSUME NEW x \in Nat, NEW y \in Nat
  PROVE  x * y \in Nat
  OBVIOUS

LEMMA AtLeast ==
  ASSUME NEW d \in Nat, NEW k \in Nat \ {0}
  PROVE  d * k >= d
<1>1. d * (k - 1) \in Nat
  BY Positive, k - 1 \in Nat
<1>2. d * k = d * (k - 1) + d
  OBVIOUS
<1> QED  BY <1>1, <1>2

\* There is one quotient.
LEMMA OneQuotient ==
  ASSUME NEW d \in Nat, NEW p \in Int, NEW q \in Int,
         NEW r \in 0 .. d - 1, NEW s \in 0 .. d - 1,
         d * p + r = d * q + s
  PROVE  p = q
<1>1. d * (p - q) = s - r /\ d * (q - p) = r - s
  OBVIOUS
<1>2. CASE p > q
  <2>1. d * (p - q) >= d
    BY <1>2, AtLeast, p - q \in Nat \ {0}
  <2> QED  BY <1>1, <2>1
<1>3. CASE q > p
  <2>1. d * (q - p) >= d
    BY <1>3, AtLeast, q - p \in Nat \ {0}
  <2> QED  BY <1>1, <2>1
<1> QED  BY <1>2, <1>3

\* The device puts the sector number together again: ATA_SECTOR, ATA_CYL_LO
\* and ATA_CYL_HI hold every number of less than three bytes.
LEMMA AddressIsNumber ==
  ASSUME NEW n \in 0 .. Byte * Byte * Byte - 1
  PROVE  Address(n) = n
<1> DEFINE b == Byte
           r == n % b
           m == n \div b
           t == m % b
           s == m \div b
<1>b. b \in Nat /\ b > 0 /\ n \in Nat
  BY AtaAssumption, Positive
<1>1. m \in Nat /\ r \in 0 .. b - 1 /\ n = b * m + r
  BY <1>b, Division
<1>2. s \in Nat /\ t \in 0 .. b - 1 /\ m = b * s + t
  BY <1>b, <1>1, Division
<1>3. b * b \in Nat /\ b * b >= b
  BY <1>b, Positive, AtLeast
<1> DEFINE q == n \div (b * b)
           u == n % (b * b)
<1>4. q \in Nat /\ u \in 0 .. b * b - 1 /\ n = (b * b) * q + u
  <2>1. b * b \in Nat \ {0}
    BY <1>3, <1>b
  <2> HIDE DEF b
  <2> QED  BY <2>1, <1>b, Division
<1>a. Address(n) = r + b * t + b * b * (q % b)
  BY DEF Address
<1>n. n < (b * b) * b
  BY <1>b, <1>3
<1> HIDE DEF b, r, m, t, s, q, u
<1>5. b * t + r \in 0 .. b * b - 1
  <2>1. b * t \in Nat
    BY <1>b, <1>2, Positive
  <2>2. b * (b - t) >= b
    BY <1>b, <1>2, AtLeast, b - t \in Nat \ {0}
  <2>3. b * (b - t) = b * b - b * t
    BY <1>b, <1>2
  <2> QED  BY <2>1, <2>2, <2>3, <1>1, <1>b, <1>3
<1>6. n = (b * b) * s + (b * t + r)
  <2>1. b * (b * s + t) = (b * b) * s + b * t
    BY <1>b, <1>2
  <2>2. (b * b) * s \in Nat /\ b * t \in Nat /\ r \in Nat
    BY <1>b, <1>1, <1>2, <1>3, Positive
  <2>3. b * m = (b * b) * s + b * t
    BY <2>1, <1>2
  <2> QED  BY <2>2, <2>3, <1>1
<1>7. q = s
  BY <1>3, <1>4, <1>5, <1>6, <1>2, OneQuotient
<1>8. q < b
  <2>1. SUFFICES ASSUME q >= b PROVE FALSE
    BY <1>4, <1>b
  <2>2. (b * b) * (q - b) \in Nat
    BY <2>1, <1>3, <1>4, <1>b, Positive, q - b \in Nat
  <2>3. (b * b) * (q - b) = (b * b) * q - (b * b) * b
    BY <1>3, <1>4, <1>b
  <2>4. (b * b) * q \in Nat /\ (b * b) * b \in Nat
    BY <1>3, <1>4, <1>b, Positive
  <2> QED  BY <2>2, <2>3, <2>4, <1>4, <1>n, <1>3, <1>b
<1>9. q % b = q
  BY <1>8, <1>4, <1>b
<1> QED  BY <1>a, <1>9, <1>7, <1>6, <1>1, <1>2, <1>b, <1>3

-----------------------------------------------------------------------------
(* The invariant *)

\* The device accepts a command only when it is ready.
LEMMA CommandAccepted ==
  ASSUME AtaInv, NEW what, NEW number, Command(what, number)
  PROVE  /\ bsy' \in BOOLEAN /\ drq' \in BOOLEAN /\ (bsy' => ~drq')
         /\ present' = present /\ volume' = volume
         /\ present /\ ~bsy => bsy' /\ ~drq' /\ job' = what /\ lba' = number
  BY DEF AtaInv, Command, deviceVars

LEMMA AtaStep_Inv ==
  ASSUME AtaInv, [AtaNext]_ataVars
  PROVE  AtaInv'
<1> USE DEF AtaInv
<1>1. CASE DeviceReady
  <2>1. /\ present /\ bsy /\ bsy' = FALSE /\ drq' \in BOOLEAN
        /\ present' = present /\ volume' = volume /\ lba' = lba
        /\ ata' = ata /\ asked' = asked /\ result' = result /\ gaveUp' = gaveUp
        /\ job = "read" => port' = volume[lba]
    BY <1>1 DEF DeviceReady, driverVars
  <2>2. Address(asked)' = Address(asked)
    BY <2>1 DEF Address
  <2>3. ReadUnderWay'
    BY <2>1, <2>2 DEF ReadUnderWay
  <2>4. ReadDone'
    BY <2>1, <2>2 DEF ReadDone
  <2> QED  BY <2>1, <2>3, <2>4
<1>2. CASE WaitSleep
  BY <1>2 DEF WaitSleep, ReadUnderWay, ReadDone, Address, deviceVars
<1>3. CASE NoDevice
  BY <1>3 DEF NoDevice, ReadUnderWay, ReadDone, deviceVars
<1>4. CASE Reset
  BY <1>4 DEF Reset, ReadUnderWay, ReadDone
<1>5. CASE Identify
  <2>1. ata' = "identify"
    BY <1>5 DEF Identify, WaitReturns
  <2>2. bsy' \in BOOLEAN /\ drq' \in BOOLEAN /\ (bsy' => ~drq')
    BY <1>5, CommandAccepted DEF Identify
  <2> QED  BY <2>1, <2>2 DEF ReadUnderWay, ReadDone
<1>6. CASE DropIdentity
  BY <1>6 DEF DropIdentity, WaitReturns, PortEmptied, ReadUnderWay, ReadDone
<1>7. CASE Prepare
  <2>1. Command("read", Address(asked))
    BY <1>7 DEF Prepare
  <2>2. /\ ata = "ready" /\ ata' = "data" /\ asked' = asked
        /\ gaveUp' <=> (gaveUp \/ ~WaitsFor)
    BY <1>7 DEF Prepare, WaitReturns
  <2>3. /\ bsy' \in BOOLEAN /\ drq' \in BOOLEAN /\ (bsy' => ~drq')
        /\ present' = present
        /\ present /\ ~bsy => bsy' /\ ~drq' /\ job' = "read" /\ lba' = Address(asked)
    BY <2>1, CommandAccepted
  <2>4. WaitsFor <=> present /\ ~bsy
    BY <2>2 DEF WaitsFor, Ready
  <2>5. Address(asked)' = Address(asked)
    BY <2>2 DEF Address
  <2>6. ReadUnderWay'
    BY <2>2, <2>3, <2>4, <2>5 DEF ReadUnderWay
  <2>7. ReadDone'
    BY <2>2 DEF ReadDone
  <2> QED  BY <2>3, <2>6, <2>7
<1>8. CASE ReadBlock
  <2>1. /\ ata = "data" /\ ata' = "done" /\ asked' = asked
        /\ gaveUp' <=> (gaveUp \/ ~WaitsFor)
        /\ result' = AtPort
        /\ drq' = FALSE /\ bsy' = bsy /\ volume' = volume
    BY <1>8 DEF ReadBlock, WaitReturns, PortEmptied
  <2>2. WaitsFor <=> (~present \/ drq)
    BY <2>1 DEF WaitsFor, HasData
  <2>3. ~gaveUp' => result' = volume[Address(asked)]
    BY <2>1, <2>2 DEF ReadUnderWay, AtPort
  <2>4. ReadDone'
    BY <2>1, <2>3 DEF ReadDone, Address
  <2> QED  BY <2>1, <2>4 DEF ReadUnderWay
<1>9. CASE \E offset : StartRead(offset)
  BY <1>9 DEF StartRead, ReadUnderWay, ReadDone, deviceVars
<1>10. CASE UNCHANGED ataVars
  BY <1>10 DEF ataVars, deviceVars, driverVars, ReadUnderWay, ReadDone, Address
<1> QED  BY <1>1, <1>2, <1>3, <1>4, <1>5, <1>6, <1>7, <1>8, <1>9, <1>10
         DEF AtaNext, AtaStep

\* Whatever the file system does, it moves the driver and the device only by
\* their own steps.
LEMMA DiskStep ==
  ASSUME [Next]_vars
  PROVE  [AtaNext]_ataVars
<1> USE DEF AtaNext
<1>1. CASE Disk
  BY <1>1 DEF Disk
<1>2. CASE FileSystem
  <2>1. CASE OpenReads \/ OpenAccepts \/ FolderSector
    BY <2>1 DEF OpenReads, OpenAccepts, FolderSector, Read
  <2>2. CASE OpenRefuses \/ Mount \/ FolderNotFound \/ FileNotFound
    BY <2>2 DEF OpenRefuses, Mount, FolderNotFound, FileNotFound, Shell
  <2>3. CASE List
    BY <2>3 DEF List, Shell
  <2>4. CASE TableRead \/ Walk \/ WalkForever \/ Fault \/ FaultAgain
    BY <2>4 DEF TableRead, Walk, WalkForever, Fault, FaultAgain, vars
  <2>5. CASE FileSectors
    BY <2>5 DEF FileSectors, PrintNext, Shell, Read
  <2>6. CASE PrintSector
    BY <2>6 DEF PrintSector, PrintNext, Shell, Read
  <2>7. CASE FolderFound \/ FileFound
    BY <2>7 DEF FolderFound, FileFound, WalkSectors, Read
  <2> QED  BY <1>2, <2>1, <2>2, <2>3, <2>4, <2>5, <2>6, <2>7 DEF FileSystem
<1>3. CASE \/ \E tokens \in Paths : ReadDirectory("ls", tokens)
           \/ ReadDirectory("cat", CatPath)
  BY <1>3 DEF ReadDirectory, Read
<1>4. CASE Idle \/ UNCHANGED vars
  BY <1>4 DEF Idle, vars
<1> QED  BY <1>1, <1>2, <1>3, <1>4 DEF Next

\* The driver's invariant holds under the file system.
THEOREM AtaInvariance == Spec => []AtaInv
<1>1. Init => AtaInv
  BY DEF Init, AtaInit, AtaInv, ReadUnderWay, ReadDone
<1>2. AtaInv /\ [Next]_vars => AtaInv'
  BY AtaStep_Inv, DiskStep
<1> QED  BY <1>1, <1>2, PTL DEF Spec

-----------------------------------------------------------------------------
(* The invariant of the file system *)

\* What a read may have returned, whatever happened to it.
Seen == {Nothing, Identity} \cup {volume[s] : s \in Sector}

DeviceType ==
  /\ AtaTypeOK
  /\ volume \in Volumes
  /\ port \in Seen /\ result \in Seen

FileType ==
  /\ fs \in {"boot", "open", "mount", "shell", "directory", "table", "walk",
             "print", "fault"}
  /\ mounted \in BOOLEAN /\ slow \in BOOLEAN
  /\ table \in [Clusters -> ClusterNumbers]
  /\ cmd \in {"none", "ls", "cat", "print"}
  /\ location \in ClusterNumbers /\ current \in ClusterNumbers
  /\ chain \in Seq(Links) /\ Len(chain) <= MaxChain
  /\ commands \in 0 .. MaxCommands

\* open() has found a header or left it at zeros; cat reads only with one.
HeaderKnown ==
  /\ header_info = NoHeader \/ GoodHeader(header_info)
  /\ mounted => GoodHeader(header_info)
  /\ fs = "print" => GoodHeader(header_info) /\ cmd = "print" /\ chain # << >>
  /\ fs = "fault" => header_info.sectorSize = 0 \/ cmd # "print"

FileInv == DeviceType /\ FileType /\ HeaderKnown
-----------------------------------------------------------------------------
(* The scan of a directory *)

\* What the scan makes of slot n and those behind it, if it makes "one" of
\* those behind slot n, and "two" of those behind slot n + 1.
FromSlot(slots, beyond, n, one, two) ==
  IF n > Len(slots) THEN << >>
  ELSE CASE slots[n].kind = "none" -> one
         [] slots[n].kind = "short" ->
              <<Entry(slots[n].name, slots[n].location)>> \o one
         [] slots[n].kind = "long" ->
              <<Entry(slots[n].name, LongLocation(slots, n, beyond))>> \o two
         [] slots[n].kind = "other" -> <<Entry(NoName, 0)>> \o one

AtSlot(slots, beyond, g, n) == FromSlot(slots, beyond, n, g[n + 1], g[n + 2])

\* Induction on natural numbers, as it can be cited.
LEMMA LeastFailure ==
  ASSUME NEW S \in SUBSET Nat, S # {}
  PROVE  \E x \in S : \A y \in S : x <= y
<1>1. IsWellFoundedOn(OpToRel(<, Nat), Nat)
  BY NatLessThanWellFounded
<1>2. PICK x \in S : \A y \in S : ~ (<<y, x>> \in OpToRel(<, Nat))
  BY <1>1, WFMin, Zenon
<1>3. \A y \in S : x <= y
  <2> SUFFICES ASSUME NEW y \in S, ~(x <= y) PROVE FALSE
    OBVIOUS
  <2>1. y \in Nat /\ x \in Nat /\ y < x
    OBVIOUS
  <2>2. <<y, x>> \in OpToRel(<, Nat)
    BY <2>1 DEF OpToRel
  <2> QED
    BY <1>2, <2>2
<1> QED
  BY <1>3

\* The scan is defined: from the last slot back to the first.
LEMMA ScanIsDefined ==
  ASSUME NEW slots, NEW beyond, Len(slots) \in Nat
  PROVE  Scan(slots, beyond) =
           [n \in 1 .. Len(slots) + 2 |->
              AtSlot(slots, beyond, Scan(slots, beyond), n)]
<1> DEFINE L == Len(slots)
           Upto(j) == L + 2 - j .. L + 2
           Eq(j, g) == g = [n \in Upto(j) |-> AtSlot(slots, beyond, g, n)]
           Bad == {j \in 0 .. L + 1 : ~ \E g : Eq(j, g)}
<1>1. L \in Nat
  OBVIOUS
<1> HIDE DEF L
<1>2. ASSUME NEW j \in 0 .. L + 1, j <= 1
      PROVE  \E g : Eq(j, g)
  <2> DEFINE g == [n \in Upto(j) |-> << >>]
  <2>1. \A n \in Upto(j) : AtSlot(slots, beyond, g, n) = << >>
    <3>1. \A n \in Upto(j) : n > L
      BY <1>1, <1>2
    <3> QED
      BY <3>1 DEF AtSlot, FromSlot, L
  <2>2. g = [n \in Upto(j) |-> AtSlot(slots, beyond, g, n)]
    BY <2>1
  <2> QED
    BY <2>2
<1>3. ASSUME NEW j \in 1 .. L, NEW g, Eq(j, g)
      PROVE  \E h : Eq(j + 1, h)
  <2> DEFINE m == L + 1 - j
             h == [n \in Upto(j + 1) |->
                     IF n = m THEN AtSlot(slots, beyond, g, m) ELSE g[n]]
  <2>1. /\ m \in Upto(j + 1) /\ m \notin Upto(j) /\ Upto(j) \subseteq Upto(j + 1)
        /\ \A n \in Upto(j + 1) : n = m \/ n \in Upto(j)
        /\ m + 1 \in Upto(j) /\ m + 2 \in Upto(j)
    BY <1>1
  <2>2. \A n \in Upto(j) : h[n] = g[n]
    BY <2>1
  <2>3. \A n \in Upto(j + 1) : n <= L => n + 1 \in Upto(j) /\ n + 2 \in Upto(j)
    BY <1>1
  <2>4. \A n \in Upto(j + 1) : AtSlot(slots, beyond, h, n) = AtSlot(slots, beyond, g, n)
    <3> SUFFICES ASSUME NEW n \in Upto(j + 1)
                 PROVE  AtSlot(slots, beyond, h, n) = AtSlot(slots, beyond, g, n)
      OBVIOUS
    <3>1. n <= L => h[n + 1] = g[n + 1] /\ h[n + 2] = g[n + 2]
      BY <2>2, <2>3
    <3>2. n <= L \/ n > L
      BY <1>1
    <3> HIDE DEF h, Upto
    <3>3. CASE n <= L
      <4>1. h[n + 1] = g[n + 1] /\ h[n + 2] = g[n + 2]
        BY <3>1, <3>3
      <4> QED
        BY <4>1 DEF AtSlot
    <3>4. CASE n > L
      BY <3>4 DEF AtSlot, FromSlot, L
    <3> QED
      BY <3>2, <3>3, <3>4
  <2>5. \A n \in Upto(j) : g[n] = AtSlot(slots, beyond, g, n)
    BY <1>3
  <2>6. \A n \in Upto(j + 1) : h[n] = AtSlot(slots, beyond, h, n)
    BY <2>1, <2>2, <2>4, <2>5
  <2>7. h = [n \in Upto(j + 1) |-> h[n]]
    OBVIOUS
  <2> HIDE DEF h
  <2>8. h = [n \in Upto(j + 1) |-> AtSlot(slots, beyond, h, n)]
    BY <2>6, <2>7
  <2> QED
    BY <2>8
<1>4. \E g : Eq(L + 1, g)
  <2> HIDE DEF Eq
  <2> SUFFICES ASSUME Bad # {} PROVE FALSE
    <3>1. L + 1 \in 0 .. L + 1
      BY <1>1
    <3> QED
      BY <3>1
  <2>1. Bad \subseteq Nat /\ Bad \subseteq 0 .. L + 1
    BY <1>1
  <2>2. PICK j \in Bad : \A i \in Bad : j <= i
    <3> HIDE DEF Bad
    <3> QED
      BY <2>1, LeastFailure
  <2>3. j \in 0 .. L + 1 /\ ~ \E g : Eq(j, g)
    OBVIOUS
  <2>4. j \in 2 .. L + 1
    BY <1>1, <1>2, <2>3
  <2>5. j - 1 \in 1 .. L /\ j - 1 \in 0 .. L + 1 /\ (j - 1) + 1 = j /\ ~(j <= j - 1)
    BY <1>1, <2>4
  <2>6. j - 1 \notin Bad
    BY <2>2, <2>5
  <2>7. PICK g : Eq(j - 1, g)
    BY <2>5, <2>6
  <2>8. \E h : Eq((j - 1) + 1, h)
    BY <1>3, <2>5, <2>7
  <2> QED
    BY <2>3, <2>5, <2>8
<1>5. Upto(L + 1) = 1 .. L + 2
  BY <1>1
<1>6. PICK g : g = [n \in 1 .. L + 2 |-> AtSlot(slots, beyond, g, n)]
  BY <1>4, <1>5
<1> DEFINE chosen == CHOOSE h : h = [n \in 1 .. L + 2 |-> AtSlot(slots, beyond, h, n)]
<1>7. chosen = [n \in 1 .. L + 2 |-> AtSlot(slots, beyond, chosen, n)]
  BY <1>6, Zenon
<1>8. Scan(slots, beyond) = chosen
  BY DEF Scan, AtSlot, FromSlot, L
<1> QED
  BY <1>7, <1>8 DEF L

\* The entries with a cluster of "clusters" and a name from a directory.
EntriesIn(slots, clusters) ==
  [name : {NoName} \cup {slots[n].name : n \in 1 .. Len(slots)}, location : clusters]

\* Where the clusters of its entries come from.
LEMMA ScanLocates ==
  ASSUME NEW slots, NEW beyond, NEW clusters, 0 \in clusters, Len(slots) \in Nat,
         \A n \in 1 .. Len(slots) :
           /\ slots[n].kind \in {"none", "short", "long", "other"}
           /\ slots[n].kind = "short" => slots[n].location \in clusters
           /\ slots[n].kind = "long" => LongLocation(slots, n, beyond) \in clusters
  PROVE  Entries(slots, beyond) \in Seq(EntriesIn(slots, clusters))
<1> DEFINE L == Len(slots)
           T == EntriesIn(slots, clusters)
           scan == Scan(slots, beyond)
           Bad == {j \in 0 .. L + 1 : scan[L + 2 - j] \notin Seq(T)}
<1>1. /\ L \in Nat
      /\ \A n \in 1 .. L : /\ slots[n].kind \in {"none", "short", "long", "other"}
                           /\ slots[n].kind = "short" => slots[n].location \in clusters
                           /\ slots[n].kind = "long" => LongLocation(slots, n, beyond) \in clusters
  OBVIOUS
<1>2. \A n \in 1 .. L + 2 : scan[n] = FromSlot(slots, beyond, n, scan[n + 1], scan[n + 2])
  <2> DEFINE f == [n \in 1 .. L + 2 |-> AtSlot(slots, beyond, scan, n)]
  <2>1. scan = f
    BY ScanIsDefined
  <2>2. \A n \in 1 .. L + 2 : f[n] = AtSlot(slots, beyond, scan, n)
    OBVIOUS
  <2> HIDE DEF scan, f
  <2> QED
    BY <2>1, <2>2 DEF AtSlot
<1>3. /\ \A n \in 1 .. L :
           /\ slots[n].kind = "short"
                => Entry(slots[n].name, slots[n].location) \in T
           /\ slots[n].kind = "long"
                => Entry(slots[n].name, LongLocation(slots, n, beyond)) \in T
      /\ Entry(NoName, 0) \in T
  BY <1>1 DEF EntriesIn, Entry
<1> HIDE DEF T, scan, L
<1>4. ASSUME NEW n \in 1 .. L, scan[n + 1] \in Seq(T), scan[n + 2] \in Seq(T)
      PROVE  scan[n] \in Seq(T)
  <2>1. scan[n] = FromSlot(slots, beyond, n, scan[n + 1], scan[n + 2]) /\ ~(n > Len(slots))
    BY <1>1, <1>2 DEF L
  <2>2. ASSUME NEW e \in T, NEW s \in Seq(T)
        PROVE  <<e>> \o s \in Seq(T)
    <3>1. <<e>> \in Seq(T)
      OBVIOUS
    <3> QED
      BY <3>1, ConcatProperties
  <2>3. CASE slots[n].kind = "none"
    BY <1>4, <2>1, <2>3 DEF FromSlot
  <2>4. CASE slots[n].kind = "short"
    <3>1. scan[n] = <<Entry(slots[n].name, slots[n].location)>> \o scan[n + 1]
      BY <2>1, <2>4 DEF FromSlot
    <3> QED
      BY <1>3, <1>4, <2>2, <2>4, <3>1
  <2>5. CASE slots[n].kind = "long"
    <3>1. scan[n] = <<Entry(slots[n].name, LongLocation(slots, n, beyond))>> \o scan[n + 2]
      BY <2>1, <2>5 DEF FromSlot
    <3> QED
      BY <1>3, <1>4, <2>2, <2>5, <3>1
  <2>6. CASE slots[n].kind = "other"
    <3>1. scan[n] = <<Entry(NoName, 0)>> \o scan[n + 1]
      BY <2>1, <2>6 DEF FromSlot
    <3> QED
      BY <1>3, <1>4, <2>2, <3>1
  <2> QED
    BY <1>1, <2>3, <2>4, <2>5, <2>6
<1>5. ASSUME NEW n \in 1 .. L + 2, n > L
      PROVE  scan[n] \in Seq(T)
  <2>1. << >> \in Seq(T)
    OBVIOUS
  <2>2. scan[n] = << >>
    BY <1>2, <1>5 DEF FromSlot, L
  <2> QED
    BY <2>1, <2>2
<1>6. Bad = {}
  <2> SUFFICES ASSUME Bad # {} PROVE FALSE
    OBVIOUS
  <2>1. Bad \subseteq Nat /\ Bad \subseteq 0 .. L + 1
    BY <1>1
  <2>2. PICK j \in Bad : \A i \in Bad : j <= i
    <3> HIDE DEF Bad
    <3> QED
      BY <2>1, LeastFailure
  <2> DEFINE n == L + 2 - j
  <2>3. j \in 0 .. L + 1 /\ scan[n] \notin Seq(T)
    OBVIOUS
  <2>4. n \in 1 .. L /\ j >= 2
    BY <1>1, <1>5, <2>3
  <2>5. /\ j - 1 \in 0 .. L + 1 /\ j - 2 \in 0 .. L + 1 /\ ~(j <= j - 1) /\ ~(j <= j - 2)
        /\ L + 2 - (j - 1) = n + 1 /\ L + 2 - (j - 2) = n + 2
    BY <1>1, <2>3, <2>4
  <2>6. j - 1 \notin Bad /\ j - 2 \notin Bad
    BY <2>2, <2>5
  <2>7. scan[n + 1] \in Seq(T) /\ scan[n + 2] \in Seq(T)
    BY <2>5, <2>6
  <2> QED
    BY <1>4, <2>3, <2>4, <2>7
<1>7. L + 1 \in 0 .. L + 1 /\ L + 2 - (L + 1) = 1
  BY <1>1
<1> QED
  BY <1>6, <1>7 DEF Entries, T, scan

\* find_if returns an entry of the list, if it finds one.
LEMMA FoundInList ==
  ASSUME NEW S, NEW name, NEW list \in Seq(S), IsFound(name, list)
  PROVE  Found(name, list) \in S /\ Found(name, list).name = name
<1> DEFINE I == {n \in 1 .. Len(list) : list[n].name = name}
<1>1. Len(list) \in Nat /\ DOMAIN list = 1 .. Len(list)
  BY LenProperties
<1>2. I # {} /\ I \subseteq Nat
  <2>1. \E n \in DOMAIN list : list[n].name = name
    BY DEF IsFound
  <2> QED
    BY <1>1, <2>1
<1>3. \E x \in I : \A y \in I : x <= y
  <2> HIDE DEF I
  <2> QED
    BY <1>2, LeastFailure
<1>4. Min(I) \in I
  <2> HIDE DEF I
  <2> QED
    BY <1>3, Zenon DEF Min
<1>5. Found(name, list) = list[Min(I)]
  BY <1>2 DEF Found, SelectInSeq
<1> QED
  BY <1>1, <1>4, <1>5, ElementOfSeq

-----------------------------------------------------------------------------
(* What the reads return, and what is found in it *)

LEMMA Numbers ==
  /\ Byte \in Nat /\ Byte >= 2 /\ EndOfChain \in Nat /\ EndOfChain >= 3
  /\ EndOfChain < Byte
  /\ Byte * Byte \in Nat /\ Byte < Byte * Byte
  /\ Links \subseteq Clusters /\ Clusters \subseteq ClusterNumbers
  /\ 0 \in Links /\ 0 \in ClusterNumbers
<1>1. /\ Byte \in Nat /\ Byte >= 2 /\ EndOfChain \in 3 .. Byte - 1
  BY AtaAssumption, Fat16Assumption
<1>2. Byte * Byte \in Nat /\ Byte < Byte * Byte
  <2>1. (Byte - 1) * (Byte - 1) \in Nat
    BY <1>1
  <2>2. Byte * Byte = (Byte - 1) * (Byte - 1) + 2 * Byte - 1
    BY <1>1
  <2> QED
    BY <1>1, <2>1, <2>2
<1> QED
  BY <1>1, <1>2 DEF Links, Clusters, ClusterNumbers

\* A result that looks like a sector of some kind is one.
LEMMA SeenIsGood ==
  ASSUME volume \in Volumes, NEW r \in Seen
  PROVE  /\ GoodSector(r)
         /\ r.kind \in {"boot", "table", "directory"} => \E s \in Sector : r = volume[s]
<1>1. CASE r \in {Nothing, Identity}
  BY <1>1, Fat16Assumption DEF GoodSector
<1>2. CASE \E s \in Sector : r = volume[s]
  BY <1>2, Fat16Assumption
<1> QED
  BY <1>1, <1>2 DEF Seen

LEMMA PlainDirectories ==
  ASSUME NEW v \in Volumes, NEW s \in Sector, Plain(v), v[s].kind = "directory"
  PROVE  PlainDirectory(v[s].slots)
BY Fat16Assumption DEF Plain

\* The cluster of a folder or file that was found, in whatever was read.
LEMMA FoundHasCluster ==
  ASSUME volume \in Volumes, result \in Seen, NEW entries \in ReadEntries, NEW name,
         IsFound(name, entries)
  PROVE  Found(name, entries).location \in ClusterNumbers
<1>1. PICK slots \in AsSlots(result), beyond \in Beyond : entries = Entries(slots, beyond)
  BY DEF ReadEntries
<1>2. GoodSlots(slots)
  <2>1. CASE result.kind = "directory"
    BY <1>1, <2>1, SeenIsGood DEF AsSlots, GoodSector
  <2>2. CASE result.kind # "directory"
    BY <1>1, <2>2, Fat16Assumption DEF AsSlots
  <2> QED
    BY <2>1, <2>2
<1>3. /\ Len(slots) \in Nat /\ beyond \in ClusterNumbers
      /\ \A n \in 1 .. Len(slots) : /\ slots[n].kind \in {"none", "short", "long", "other"}
                                    /\ slots[n].location \in ClusterNumbers
  BY <1>2, Fat16Assumption DEF GoodSlots
<1>4. ASSUME NEW n \in 1 .. Len(slots)
      PROVE  LongLocation(slots, n, beyond) \in ClusterNumbers
  <2>1. n < Len(slots) => n + 1 \in 1 .. Len(slots)
    BY <1>3
  <2> QED
    BY <1>3, <2>1 DEF LongLocation
<1>5. entries \in Seq(EntriesIn(slots, ClusterNumbers))
  BY <1>1, <1>3, <1>4, Numbers, ScanLocates
<1>6. Found(name, entries) \in EntriesIn(slots, ClusterNumbers)
  BY <1>5, FoundInList
<1> QED
  BY <1>6 DEF EntriesIn

-----------------------------------------------------------------------------
(* What is on a plain volume *)

\* The clusters that an entry of a plain volume may name.
Used == Links

\* A volume of the kind that the code is written for.
PlainVolume(v) == v \in Volumes /\ Plain(v) /\ GoodHeader(HeaderOf(v))

\* There is a function with this value at 0 and with this step from n - 1 to n.
Recursive(N, S, base, step) ==
  \E f \in [0 .. N -> S] : f[0] = base /\ \A n \in 1 .. N : f[n] = step[n][f[n - 1]]

LEMMA Recursion ==
  ASSUME NEW N \in Nat, NEW S, NEW base \in S, NEW step \in [1 .. N -> [S -> S]]
  PROVE  Recursive(N, S, base, step)
<1> DEFINE Eq(j, f) == f[0] = base /\ \A n \in 1 .. j : f[n] = step[n][f[n - 1]]
           Bad == {j \in 0 .. N : ~ \E f \in [0 .. j -> S] : Eq(j, f)}
<1>1. \E f \in [0 .. 0 -> S] : Eq(0, f)
  <2> DEFINE f == [n \in 0 .. 0 |-> base]
  <2>1. f \in [0 .. 0 -> S] /\ f[0] = base
    OBVIOUS
  <2>2. 1 .. 0 = {}
    OBVIOUS
  <2> HIDE DEF f
  <2> QED
    BY <2>1, <2>2
<1>2. ASSUME NEW j \in 1 .. N, NEW f \in [0 .. j - 1 -> S], Eq(j - 1, f)
      PROVE  \E h \in [0 .. j -> S] : Eq(j, h)
  <2> DEFINE h == [n \in 0 .. j |-> IF n = j THEN step[j][f[j - 1]] ELSE f[n]]
  <2>1. step[j] \in [S -> S] /\ f[j - 1] \in S
    OBVIOUS
  <2>2. step[j][f[j - 1]] \in S
    BY <2>1
  <2>3. h \in [0 .. j -> S] /\ h[j] = step[j][f[j - 1]] /\ \A n \in 0 .. j - 1 : h[n] = f[n]
    BY <2>2
  <2> HIDE DEF h
  <2>4. h[0] = base
    BY <1>2, <2>3
  <2>5. ASSUME NEW n \in 1 .. j
        PROVE  h[n] = step[n][h[n - 1]]
    <3>1. h[n - 1] = f[n - 1]
      BY <2>3
    <3>2. CASE n = j
      BY <2>3, <3>1, <3>2
    <3>3. CASE n # j
      <4>1. n \in 1 .. j - 1
        BY <3>3
      <4> QED
        BY <1>2, <2>3, <3>1, <4>1
    <3> QED
      BY <3>2, <3>3
  <2> QED
    BY <2>3, <2>4, <2>5
<1>3. Bad = {}
  <2> HIDE DEF Eq
  <2> SUFFICES ASSUME Bad # {} PROVE FALSE
    OBVIOUS
  <2>1. Bad \subseteq Nat
    OBVIOUS
  <2>2. PICK j \in Bad : \A i \in Bad : j <= i
    <3> HIDE DEF Bad
    <3> QED
      BY <2>1, LeastFailure
  <2>3. j \in 1 .. N /\ j - 1 \in 0 .. N /\ ~(j <= j - 1)
    <3>1. j \in 0 .. N /\ ~ \E f \in [0 .. j -> S] : Eq(j, f)
      OBVIOUS
    <3>2. j # 0
      BY <1>1, <3>1
    <3> QED
      BY <3>1, <3>2
  <2>4. j - 1 \notin Bad
    BY <2>2, <2>3
  <2>5. PICK f \in [0 .. j - 1 -> S] : Eq(j - 1, f)
    BY <2>3, <2>4
  <2> QED
    BY <1>2, <2>3, <2>5
<1>4. PICK f \in [0 .. N -> S] : Eq(N, f)
  <2> HIDE DEF Eq
  <2> QED
    BY <1>3
<1> QED
  BY <1>4 DEF Recursive

\* The files and folders of a directory have a cluster and a name of their own.
LEMMA EntryIsKnown ==
  ASSUME NEW slots, PlainDirectory(slots)
  PROVE  /\ \A e \in Content(slots) : e.location \in Used
         /\ \A e, f \in Content(slots) : e.name = f.name => e = f
<1>1. ASSUME NEW e \in Content(slots)
      PROVE  \E n \in DOMAIN slots : /\ slots[n].kind = "short"
                                     /\ e.name = NameOf(slots, n)
                                     /\ e.location = slots[n].location
                                     /\ e = Entry(NameOf(slots, n), slots[n].location)
  BY DEF Content, Entry
<1>2. \A e \in Content(slots) : e.location \in Used
  BY <1>1 DEF PlainDirectory, Used
<1>3. ASSUME NEW e \in Content(slots), NEW f \in Content(slots), e.name = f.name
      PROVE  e = f
  <2>1. PICK n \in DOMAIN slots : /\ slots[n].kind = "short"
                                  /\ e.name = NameOf(slots, n)
                                  /\ e = Entry(NameOf(slots, n), slots[n].location)
    BY <1>1
  <2>2. PICK k \in DOMAIN slots : /\ slots[k].kind = "short"
                                  /\ f.name = NameOf(slots, k)
                                  /\ f = Entry(NameOf(slots, k), slots[k].location)
    BY <1>1
  <2>3. n = k
    BY <1>3, <2>1, <2>2 DEF PlainDirectory
  <2> QED
    BY <2>1, <2>2, <2>3
<1> QED
  BY <1>2, <1>3

\* A name leads to one cluster, and that to a sector of the disk.
LEMMA NamedOnVolume ==
  ASSUME NEW v, PlainVolume(v), NEW s \in Sector \cup {NoSector}, NEW name
  PROVE  LET here == Named(EntriesAt(v, s), name)
         IN /\ \A e \in here : here = {e} /\ ClusterOf(here) = e.location
            /\ here # {} => /\ ClusterOf(here) \in Used
                            /\ FolderAt(v, ClusterOf(here)) \in Sector
<1> DEFINE here == Named(EntriesAt(v, s), name)
<1>1. CASE s # NoSector /\ v[s].kind = "directory"
  <2>1. PlainDirectory(v[s].slots) /\ EntriesAt(v, s) = Content(v[s].slots)
    BY <1>1, PlainDirectories DEF PlainVolume, EntriesAt
  <2>2. \A e \in here : e \in Content(v[s].slots) /\ e.name = name
    BY <2>1 DEF Named
  <2>3. \A e \in here : here = {e} /\ e.location \in Used
    BY <2>1, <2>2, EntryIsKnown
  <2> HIDE DEF here
  <2>4. \A e \in here : ClusterOf(here) = e.location
    BY <2>3 DEF ClusterOf
  <2>5. ASSUME NEW c \in Used
        PROVE  FolderAt(v, c) \in Sector
    <3>1. ClusterSector(v, c) \in Sector
      BY DEF Used, PlainVolume, GoodHeader, ClusterSector, DataOf
    <3> QED
      BY <3>1, Fat16Assumption DEF FolderAt
  <2> QED
    BY <2>3, <2>4, <2>5 DEF here
<1>2. CASE ~(s # NoSector /\ v[s].kind = "directory")
  <2>1. here = {}
    BY <1>2 DEF EntriesAt, Named
  <2> QED
    BY <2>1
<1> QED
  BY <1>1, <1>2

\* The sectors on a path are defined, from the root directory on.
LEMMA PathIsDefined ==
  ASSUME NEW v, PlainVolume(v), NEW tokens, Len(tokens) \in Nat
  PROVE  LET at == SectorsOnPath(v, tokens)
         IN /\ at \in [0 .. Len(tokens) -> Sector \cup {NoSector}]
            /\ at[0] = RootSector
            /\ \A n \in 1 .. Len(tokens) : at[n] = SectorBelow(v, at[n - 1], tokens[n])
<1> DEFINE L == Len(tokens)
           S == Sector \cup {NoSector}
           step == [n \in 1 .. L |-> [x \in S |-> SectorBelow(v, x, tokens[n])]]
           F(f) == [n \in 0 .. L |-> IF n = 0 THEN RootSector
                                     ELSE SectorBelow(v, f[n - 1], tokens[n])]
           chosen == CHOOSE f : f = F(f)
<1>1. \A x \in S : \A name : SectorBelow(v, x, name) \in S
  BY NamedOnVolume DEF SectorBelow
<1>2. step \in [1 .. L -> [S -> S]]
  BY <1>1
<1>3. RootSector \in S
  BY Fat16Assumption
<1>4. \A n \in 1 .. L, x \in S : step[n][x] = SectorBelow(v, x, tokens[n])
  OBVIOUS
<1>5. L \in Nat
  OBVIOUS
<1> HIDE DEF step, S, L
<1>6. PICK f \in [0 .. L -> S] :
             f[0] = RootSector /\ \A n \in 1 .. L : f[n] = step[n][f[n - 1]]
  <2>1. Recursive(L, S, RootSector, step)
    BY <1>2, <1>3, <1>5, Recursion
  <2> QED
    BY <2>1 DEF Recursive
<1>7. ASSUME NEW n \in 0 .. L
      PROVE  f[n] = IF n = 0 THEN RootSector ELSE SectorBelow(v, f[n - 1], tokens[n])
  <2>1. CASE n # 0
    <3>1. n \in 1 .. L /\ n - 1 \in 0 .. L
      BY <1>5, <2>1
    <3> QED
      BY <1>4, <1>6, <2>1, <3>1
  <2> QED
    BY <1>6, <2>1
<1>8. f = F(f)
  <2>1. f = [n \in 0 .. L |-> f[n]]
    OBVIOUS
  <2> QED
    BY <1>7, <2>1
<1>9. chosen = F(chosen)
  <2> HIDE DEF F
  <2> QED
    BY <1>8, Zenon
<1>10. SectorsOnPath(v, tokens) = chosen
  BY DEF SectorsOnPath, L
<1> HIDE DEF chosen
<1>11. ASSUME NEW n \in 0 .. L
       PROVE  chosen[n] = IF n = 0 THEN RootSector
                          ELSE SectorBelow(v, chosen[n - 1], tokens[n])
  <2>1. F(chosen)[n] = IF n = 0 THEN RootSector ELSE SectorBelow(v, chosen[n - 1], tokens[n])
    OBVIOUS
  <2> HIDE DEF F
  <2> QED
    BY <1>9, <2>1
<1>12. chosen = [n \in 0 .. L |-> chosen[n]]
  BY <1>9
<1> DEFINE Bad == {n \in 0 .. L : chosen[n] \notin S}
<1>13. Bad = {}
  <2> SUFFICES ASSUME Bad # {} PROVE FALSE
    OBVIOUS
  <2>1. Bad \subseteq Nat
    BY <1>5
  <2>2. PICK j \in Bad : \A i \in Bad : j <= i
    <3> HIDE DEF Bad
    <3> QED
      BY <2>1, LeastFailure
  <2>3. j # 0
    BY <1>3, <1>11
  <2>4. j - 1 \in 0 .. L /\ ~(j <= j - 1)
    BY <1>5, <2>3
  <2>5. chosen[j - 1] \in S
    BY <2>2, <2>4
  <2>6. chosen[j] = SectorBelow(v, chosen[j - 1], tokens[j])
    BY <1>11, <2>3
  <2> QED
    BY <1>1, <2>5, <2>6
<1>14. chosen \in [0 .. L -> S]
  BY <1>12, <1>13
<1>15. /\ chosen[0] = RootSector
       /\ \A n \in 1 .. L : chosen[n] = SectorBelow(v, chosen[n - 1], tokens[n])
  BY <1>5, <1>11
<1> QED
  BY <1>10, <1>14, <1>15 DEF L, S

\* What has no sector has nothing below it.
LEMMA NothingBelow ==
  ASSUME NEW v, PlainVolume(v), NEW tokens, Len(tokens) \in Nat, NEW n \in 0 .. Len(tokens),
         SectorsOnPath(v, tokens)[n] = NoSector
  PROVE  EntriesOfPath(v, tokens) = {}
<1> DEFINE L == Len(tokens)
           at == SectorsOnPath(v, tokens)
           Bad == {m \in n .. L : at[m] # NoSector}
<1>1. L \in Nat /\ at[n] = NoSector
      /\ \A m \in 1 .. L : at[m] = SectorBelow(v, at[m - 1], tokens[m])
  BY PathIsDefined
<1> HIDE DEF at, L
<1>2. Bad = {}
  <2> SUFFICES ASSUME Bad # {} PROVE FALSE
    OBVIOUS
  <2>1. Bad \subseteq Nat
    BY <1>1 DEF L
  <2>2. PICK j \in Bad : \A i \in Bad : j <= i
    <3> HIDE DEF Bad
    <3> QED
      BY <2>1, LeastFailure
  <2>3. j \in 1 .. L /\ j - 1 \in n .. L /\ ~(j <= j - 1)
    BY <1>1 DEF L
  <2>4. at[j - 1] = NoSector
    BY <2>2, <2>3
  <2>5. at[j] = NoSector
    BY <1>1, <2>3, <2>4 DEF SectorBelow, EntriesAt, Named
  <2> QED
    BY <2>5
<1>3. at[L] = NoSector
  BY <1>1, <1>2 DEF L
<1> QED
  BY <1>3 DEF EntriesOfPath, EntriesAt, at, L

\* One more cluster of a chain, if there is one.
LEMMA LinkedIsChain ==
  ASSUME NEW v, PlainVolume(v), NEW s \in Seq(Used), s # << >>
  PROVE  /\ Last(s) \in Used /\ Linked(v, s) \in Seq(Used) /\ Linked(v, s) # << >>
         /\ TableOf(v)[Last(s)] >= EndMark \/ TableOf(v)[Last(s)] \in Used
<1>1. Len(s) \in 1 .. Len(s) /\ s[Len(s)] \in Used
  BY LenProperties, ElementOfSeq, EmptySeq
<1>2. Last(s) \in Used
  BY <1>1 DEF Last
<1>3. TableOf(v)[Last(s)] >= EndMark \/ TableOf(v)[Last(s)] \in Used
  BY <1>2 DEF PlainVolume, Plain, Used
<1>4. CASE TableOf(v)[Last(s)] >= EndMark
  BY <1>2, <1>4 DEF Linked
<1>5. CASE ~(TableOf(v)[Last(s)] >= EndMark)
  <2>1. Linked(v, s) = Append(s, TableOf(v)[Last(s)]) /\ TableOf(v)[Last(s)] \in Used
    BY <1>3, <1>5 DEF Linked
  <2>2. Linked(v, s) \in Seq(Used) /\ Len(Linked(v, s)) = Len(s) + 1
    BY <2>1, AppendProperties
  <2> QED
    BY <1>1, <1>2, <2>1, <2>2
<1> QED
  BY <1>4, <1>5

\* The chains are defined, from the first cluster on.
LEMMA ChainIsDefined ==
  ASSUME NEW v, PlainVolume(v), NEW c \in Used
  PROVE  LET chains == ChainsOf(v, c)
         IN /\ chains \in [0 .. MaxChain -> Seq(Used) \ {<< >>}]
            /\ chains[0] = <<c>>
            /\ \A n \in 1 .. MaxChain : chains[n] = Linked(v, chains[n - 1])
<1> DEFINE S == Seq(Used) \ {<< >>}
           step == [n \in 1 .. MaxChain |-> [x \in S |-> Linked(v, x)]]
           F(f) == [n \in 0 .. MaxChain |-> IF n = 0 THEN <<c>> ELSE Linked(v, f[n - 1])]
           chosen == CHOOSE f : f = F(f)
<1>1. \A x \in S : Linked(v, x) \in S
  BY LinkedIsChain
<1>2. step \in [1 .. MaxChain -> [S -> S]]
  BY <1>1
<1>3. <<c>> \in S
  OBVIOUS
<1>4. \A n \in 1 .. MaxChain, x \in S : step[n][x] = Linked(v, x)
  OBVIOUS
<1>5. MaxChain \in Nat
  BY Fat16Assumption
<1> HIDE DEF step, S
<1>6. PICK f \in [0 .. MaxChain -> S] :
             f[0] = <<c>> /\ \A n \in 1 .. MaxChain : f[n] = step[n][f[n - 1]]
  <2>1. Recursive(MaxChain, S, <<c>>, step)
    BY <1>2, <1>3, <1>5, Recursion
  <2> QED
    BY <2>1 DEF Recursive
<1>7. ASSUME NEW n \in 0 .. MaxChain
      PROVE  f[n] = IF n = 0 THEN <<c>> ELSE Linked(v, f[n - 1])
  <2>1. CASE n # 0
    <3>1. n \in 1 .. MaxChain /\ n - 1 \in 0 .. MaxChain
      BY <1>5, <2>1
    <3> QED
      BY <1>4, <1>6, <2>1, <3>1
  <2> QED
    BY <1>6, <2>1
<1>8. f = F(f)
  <2>1. f = [n \in 0 .. MaxChain |-> f[n]]
    OBVIOUS
  <2> QED
    BY <1>7, <2>1
<1>9. chosen = F(chosen)
  <2> HIDE DEF F
  <2> QED
    BY <1>8, Zenon
<1>10. ChainsOf(v, c) = chosen
  BY DEF ChainsOf
<1> HIDE DEF chosen
<1>11. ASSUME NEW n \in 0 .. MaxChain
       PROVE  chosen[n] = IF n = 0 THEN <<c>> ELSE Linked(v, chosen[n - 1])
  <2>1. F(chosen)[n] = IF n = 0 THEN <<c>> ELSE Linked(v, chosen[n - 1])
    OBVIOUS
  <2> HIDE DEF F
  <2> QED
    BY <1>9, <2>1
<1>12. chosen = [n \in 0 .. MaxChain |-> chosen[n]]
  BY <1>9
<1> DEFINE Bad == {n \in 0 .. MaxChain : chosen[n] \notin S}
<1>13. Bad = {}
  <2> SUFFICES ASSUME Bad # {} PROVE FALSE
    OBVIOUS
  <2>1. Bad \subseteq Nat
    BY <1>5
  <2>2. PICK j \in Bad : \A i \in Bad : j <= i
    <3> HIDE DEF Bad
    <3> QED
      BY <2>1, LeastFailure
  <2>3. j # 0
    BY <1>3, <1>11
  <2>4. j - 1 \in 0 .. MaxChain /\ ~(j <= j - 1)
    BY <1>5, <2>3
  <2>5. chosen[j - 1] \in S
    BY <2>2, <2>4
  <2>6. chosen[j] = Linked(v, chosen[j - 1])
    BY <1>11, <2>3
  <2> QED
    BY <1>1, <2>5, <2>6
<1>14. chosen \in [0 .. MaxChain -> S]
  BY <1>12, <1>13
<1>15. chosen[0] = <<c>> /\ \A n \in 1 .. MaxChain : chosen[n] = Linked(v, chosen[n - 1])
  BY <1>5, <1>11
<1> QED
  BY <1>10, <1>14, <1>15 DEF S

\* A chain whose last cluster has the end mark is complete.
LEMMA ChainIsComplete ==
  ASSUME NEW v, PlainVolume(v), NEW c \in Used, NEW n \in 0 .. MaxChain,
         TableOf(v)[Last(ChainsOf(v, c)[n])] >= EndMark
  PROVE  ChainOf(v, c) = ChainsOf(v, c)[n]
<1> DEFINE chains == ChainsOf(v, c)
           Bad == {m \in n .. MaxChain : chains[m] # chains[n]}
<1>1. MaxChain \in Nat /\ \A m \in 1 .. MaxChain : chains[m] = Linked(v, chains[m - 1])
  BY ChainIsDefined, Fat16Assumption
<1> HIDE DEF chains
<1>2. Bad = {}
  <2> SUFFICES ASSUME Bad # {} PROVE FALSE
    OBVIOUS
  <2>1. Bad \subseteq Nat
    BY <1>1
  <2>2. PICK j \in Bad : \A i \in Bad : j <= i
    <3> HIDE DEF Bad
    <3> QED
      BY <2>1, LeastFailure
  <2>3. j \in 1 .. MaxChain /\ j - 1 \in n .. MaxChain /\ ~(j <= j - 1)
    BY <1>1
  <2>4. chains[j - 1] = chains[n]
    BY <2>2, <2>3
  <2>5. chains[j] = chains[n]
    BY <1>1, <2>3, <2>4 DEF Linked, chains
  <2> QED
    BY <2>5
<1>3. MaxChain \in n .. MaxChain
  BY <1>1
<1> QED
  BY <1>2, <1>3 DEF ChainOf, chains

-----------------------------------------------------------------------------
(* The scan of a plain directory *)

\* "list" names every element of R once.
Lists(list, R) ==
  /\ list \in Seq(R) /\ R = {list[i] : i \in 1 .. Len(list)}
  /\ IsFiniteSet(R) /\ Len(list) = Cardinality(R)

LEMMA OneMore ==
  ASSUME NEW R, NEW list, Lists(list, R), NEW e, e \notin R
  PROVE  Lists(<<e>> \o list, R \cup {e})
<1> DEFINE Q == R \cup {e}
           longer == <<e>> \o list
<1>1. /\ IsFiniteSet(R) /\ Len(list) = Cardinality(R) /\ list \in Seq(R)
      /\ R = {list[i] : i \in 1 .. Len(list)} /\ Len(list) \in Nat
  BY LenProperties DEF Lists
<1>2. IsFiniteSet(Q) /\ Cardinality(Q) = Cardinality(R) + 1
  BY <1>1, FS_AddElement
<1>3. <<e>> \in Seq(Q) /\ list \in Seq(Q) /\ Len(<<e>>) = 1 /\ <<e>>[1] = e
  BY <1>1
<1>4. /\ longer \in Seq(Q) /\ Len(longer) = 1 + Len(list)
      /\ longer[1] = e /\ \A i \in 1 .. Len(list) : longer[i + 1] = list[i]
  <2>1. longer \in Seq(Q) /\ Len(longer) = Len(<<e>>) + Len(list)
    BY <1>3, ConcatProperties
  <2>2. \A i \in 1 .. Len(<<e>>) + Len(list) :
          longer[i] = IF i <= Len(<<e>>) THEN <<e>>[i] ELSE list[i - Len(<<e>>)]
    BY <1>3, ConcatProperties
  <2>3. \A i \in 1 .. Len(list) :
          i + 1 \in 1 .. 1 + Len(list) /\ ~(i + 1 <= 1) /\ i + 1 - 1 = i
    BY <1>1
  <2>4. 1 \in 1 .. 1 + Len(list)
    BY <1>1
  <2> HIDE DEF longer
  <2> QED
    BY <1>3, <2>1, <2>2, <2>3, <2>4
<1> HIDE DEF longer
<1>5. Q = {longer[i] : i \in 1 .. Len(longer)}
  <2>1. ASSUME NEW x \in Q PROVE x \in {longer[i] : i \in 1 .. Len(longer)}
    <3>1. CASE x = e
      BY <1>1, <1>4, <3>1
    <3>2. CASE x \in R
      <4>1. PICK i \in 1 .. Len(list) : x = list[i]
        BY <1>1, <3>2
      <4>2. i + 1 \in 1 .. Len(longer) /\ longer[i + 1] = x
        BY <1>1, <1>4, <4>1
      <4> QED
        BY <4>2
    <3> QED
      BY <3>1, <3>2
  <2>2. \A i \in 1 .. Len(longer) : longer[i] \in Q
    BY <1>4, ElementOfSeq
  <2> QED
    BY <2>1, <2>2
<1> QED
  BY <1>1, <1>2, <1>4, <1>5 DEF Lists, longer

\* A plain directory: every file and folder is found once, under its name.
LEMMA ScanLists ==
  ASSUME NEW slots, NEW beyond, GoodSlots(slots), PlainDirectory(slots)
  PROVE  Lists(Entries(slots, beyond), Content(slots))
<1> DEFINE L == Len(slots)
           scan == Scan(slots, beyond)
           Begins(n) == n = 1 \/ slots[n - 1].kind # "long"
           Short(n) == {k \in n .. L : slots[k].kind = "short"}
           Of(k) == Entry(NameOf(slots, k), slots[k].location)
           Rest(n) == {Of(k) : k \in Short(n)}
           Bad == {j \in 0 .. L + 1 : Begins(L + 2 - j) /\ ~Lists(scan[L + 2 - j], Rest(L + 2 - j))}
<1>1. /\ L \in Nat /\ DOMAIN slots = 1 .. L
      /\ \A n \in 1 .. L : slots[n].kind \in {"none", "short", "long"}
  BY DEF GoodSlots, PlainDirectory
<1>2. \A n \in 1 .. L + 2 : scan[n] = FromSlot(slots, beyond, n, scan[n + 1], scan[n + 2])
  <2> DEFINE f == [n \in 1 .. L + 2 |-> AtSlot(slots, beyond, scan, n)]
  <2>1. scan = f
    BY <1>1, ScanIsDefined
  <2>2. \A n \in 1 .. L + 2 : f[n] = AtSlot(slots, beyond, scan, n)
    OBVIOUS
  <2> HIDE DEF scan, f
  <2> QED
    BY <2>1, <2>2 DEF AtSlot
<1>3. ASSUME NEW n \in 1 .. L, NEW k \in 1 .. L, Of(n) = Of(k),
             slots[n].kind = "short", slots[k].kind = "short"
      PROVE  n = k
  <2>1. NameOf(slots, n) = NameOf(slots, k)
    BY <1>3 DEF Entry
  <2> QED
    BY <1>1, <1>3, <2>1 DEF PlainDirectory
<1> HIDE DEF scan
<1>4. ASSUME NEW n \in 1 .. L + 2, n > L
      PROVE  Lists(scan[n], Rest(n))
  <2>1. scan[n] = << >>
    BY <1>2, <1>4 DEF FromSlot
  <2>2. Rest(n) = {}
    BY <1>1, <1>4
  <2>3. IsFiniteSet({}) /\ Cardinality({}) = 0
    BY FS_EmptySet
  <2>4. << >> \in Seq({}) /\ Len(<< >>) = 0 /\ {} = {<< >>[i] : i \in 1 .. 0}
    OBVIOUS
  <2> HIDE DEF Rest
  <2> QED
    BY <2>1, <2>2, <2>3, <2>4 DEF Lists
<1>5. ASSUME NEW n \in 1 .. L, Begins(n),
             Begins(n + 1) => Lists(scan[n + 1], Rest(n + 1)),
             Begins(n + 2) => Lists(scan[n + 2], Rest(n + 2))
      PROVE  Lists(scan[n], Rest(n))
  <2>1. scan[n] = FromSlot(slots, beyond, n, scan[n + 1], scan[n + 2])
        /\ ~(n > Len(slots)) /\ n + 1 - 1 = n /\ n + 2 - 1 = n + 1 /\ n + 1 # 1 /\ n + 2 # 1
    BY <1>1, <1>2
  <2>2. CASE slots[n].kind = "none"
    <3>1. scan[n] = scan[n + 1]
      BY <2>1, <2>2 DEF FromSlot
    <3>2. Short(n) = Short(n + 1)
      BY <1>1, <2>2
    <3>3. Begins(n + 1)
      BY <2>1, <2>2
    <3> QED
      BY <1>5, <3>1, <3>2, <3>3
  <2>3. CASE slots[n].kind = "short"
    <3>1. NameOf(slots, n) = slots[n].name
      BY <1>5 DEF NameOf
    <3>2. scan[n] = <<Of(n)>> \o scan[n + 1]
      BY <2>1, <2>3, <3>1 DEF FromSlot
    <3>3. Short(n) = Short(n + 1) \cup {n} /\ n \notin Short(n + 1)
      BY <1>1, <2>3
    <3>4. Rest(n) = Rest(n + 1) \cup {Of(n)} /\ Of(n) \notin Rest(n + 1)
      BY <1>1, <1>3, <2>3, <3>3
    <3>5. Begins(n + 1)
      BY <2>1, <2>3
    <3> HIDE DEF Of, Rest, Begins
    <3> QED
      BY <1>5, <3>2, <3>4, <3>5, OneMore
  <2>4. CASE slots[n].kind = "long"
    <3>1. n < L /\ slots[n + 1].kind = "short" /\ n + 1 \in 1 .. L
      BY <1>1, <2>4 DEF PlainDirectory
    <3>2. /\ NameOf(slots, n + 1) = slots[n].name
          /\ LongLocation(slots, n, beyond) = slots[n + 1].location
      BY <1>1, <2>1, <2>4, <3>1 DEF NameOf, LongLocation
    <3>3. scan[n] = <<Of(n + 1)>> \o scan[n + 2]
      BY <2>1, <2>4, <3>2 DEF FromSlot
    <3>4. Short(n) = Short(n + 2) \cup {n + 1} /\ n + 1 \notin Short(n + 2)
      BY <1>1, <2>4, <3>1
    <3>5. Rest(n) = Rest(n + 2) \cup {Of(n + 1)} /\ Of(n + 1) \notin Rest(n + 2)
      BY <1>1, <1>3, <3>1, <3>4
    <3>6. Begins(n + 2)
      BY <2>1, <3>1
    <3> HIDE DEF Of, Rest, Begins
    <3> QED
      BY <1>5, <3>3, <3>5, <3>6, OneMore
  <2> QED
    BY <1>1, <2>2, <2>3, <2>4
<1>6. Bad = {}
  <2> HIDE DEF Rest, Begins
  <2> SUFFICES ASSUME Bad # {} PROVE FALSE
    OBVIOUS
  <2>1. Bad \subseteq Nat
    BY <1>1
  <2>2. PICK j \in Bad : \A i \in Bad : j <= i
    <3> HIDE DEF Bad
    <3> QED
      BY <2>1, LeastFailure
  <2> DEFINE n == L + 2 - j
  <2>3. j \in 0 .. L + 1 /\ Begins(n) /\ ~Lists(scan[n], Rest(n))
    OBVIOUS
  <2>4. n \in 1 .. L /\ j >= 2
    BY <1>1, <1>4, <2>3
  <2>5. /\ j - 1 \in 0 .. L + 1 /\ j - 2 \in 0 .. L + 1 /\ ~(j <= j - 1) /\ ~(j <= j - 2)
        /\ L + 2 - (j - 1) = n + 1 /\ L + 2 - (j - 2) = n + 2
    BY <1>1, <2>3, <2>4
  <2>6. j - 1 \notin Bad /\ j - 2 \notin Bad
    BY <2>2, <2>5
  <2>7. /\ Begins(n + 1) => Lists(scan[n + 1], Rest(n + 1))
        /\ Begins(n + 2) => Lists(scan[n + 2], Rest(n + 2))
    BY <2>5, <2>6
  <2> QED
    BY <1>5, <2>3, <2>4, <2>7
<1>7. L + 1 \in 0 .. L + 1 /\ L + 2 - (L + 1) = 1
  BY <1>1
<1>8. Lists(scan[1], Rest(1))
  BY <1>6, <1>7
<1>9. Rest(1) = Content(slots)
  BY <1>1 DEF Content
<1> QED
  BY <1>8, <1>9 DEF Entries, scan

\* What a read of a directory of the volume finds.
LEMMA DirectoryRead ==
  ASSUME PlainVolume(volume), NEW s \in Sector, volume[s].kind = "directory",
         result = volume[s], NEW list \in ReadEntries
  PROVE  /\ Lists(list, EntriesAt(volume, s))
         /\ \A name :
              /\ IsFound(name, list) <=> Named(EntriesAt(volume, s), name) # {}
              /\ IsFound(name, list) =>
                   Found(name, list).location = ClusterOf(Named(EntriesAt(volume, s), name))
<1>1. NoSector \notin Sector
  BY AtaAssumption DEF NoSector
<1>2. GoodSlots(result.slots) /\ PlainDirectory(result.slots)
  BY Fat16Assumption, PlainDirectories DEF PlainVolume, GoodSector
<1>3. PICK beyond : list = Entries(result.slots, beyond)
  BY DEF ReadEntries, AsSlots
<1> DEFINE known == EntriesAt(volume, s)
<1>4. known = Content(result.slots)
  BY <1>1 DEF EntriesAt
<1>5. Lists(list, known)
  BY <1>2, <1>3, <1>4, ScanLists
<1> HIDE DEF known
<1>6. /\ list \in Seq(known) /\ known = {list[i] : i \in 1 .. Len(list)}
      /\ DOMAIN list = 1 .. Len(list)
  BY <1>5, LenProperties DEF Lists
<1>7. ASSUME NEW name
      PROVE  IsFound(name, list) <=> Named(known, name) # {}
  BY <1>6 DEF IsFound, Named
<1>8. ASSUME NEW name, IsFound(name, list)
      PROVE  Found(name, list).location = ClusterOf(Named(known, name))
  <2>1. Found(name, list) \in Named(known, name)
    BY <1>6, <1>8, FoundInList DEF Named
  <2> QED
    BY <2>1, NamedOnVolume DEF known
<1> QED
  BY <1>5, <1>7, <1>8 DEF known

-----------------------------------------------------------------------------
(* The steps of the driver *)

\* The driver and the device keep the sector numbers and what is returned
\* inside the disk.
LEMMA DeviceKeeps ==
  ASSUME DeviceType,
         AtaStep \/ DeviceReady \/ (\E offset \in Sector : StartRead(offset))
           \/ UNCHANGED ataVars
  PROVE  DeviceType' /\ volume' = volume
<1> USE DEF deviceVars, driverVars
<1>t. /\ AtaTypeOK /\ volume \in Volumes /\ port \in Seen /\ result \in Seen
      /\ MaxTime \in Nat /\ 0 \in Sector /\ 0 \in 0 .. MaxTime + 1
      /\ \A o \in Sector : Address(o) \in Sector
      /\ Nothing \in Seen /\ Identity \in Seen /\ \A s \in Sector : volume[s] \in Seen
  <2>1. \A o \in Sector : Address(o) = o
    BY AddressIsNumber, AtaAssumption
  <2> QED
    BY <2>1, AtaAssumption, Fat16Assumption DEF DeviceType, Seen
<1>s. volume' = volume => Seen' = Seen
  BY DEF Seen
<1>c. ASSUME NEW what \in {"identify", "read"}, NEW number \in Sector,
             Command(what, number)
      PROVE  /\ bsy' \in BOOLEAN /\ drq' \in BOOLEAN /\ present' = present
             /\ job' \in {"none", "identify", "read"} /\ lba' \in Sector
             /\ volume' = volume /\ port' = port
  BY <1>t, <1>c DEF Command, AtaTypeOK
<1>w. ASSUME NEW here, NEW point \in {"identify", "idle", "data", "done"},
             WaitReturns(here, point)
      PROVE  ata' = point /\ time' \in 0 .. MaxTime + 1 /\ gaveUp' \in BOOLEAN
  BY <1>t, <1>w DEF WaitReturns, AtaTypeOK
<1>1. CASE DeviceReady
  <2>1. port' \in Seen
    BY <1>1, <1>t DEF DeviceReady, AtaTypeOK
  <2> QED
    BY <1>1, <1>s, <1>t, <2>1 DEF DeviceReady, DeviceType, AtaTypeOK
<1>2. CASE WaitSleep
  <2>1. time' \in 0 .. MaxTime + 1
    BY <1>2, <1>t DEF WaitSleep, WaitOver, AtaTypeOK
  <2> QED
    BY <1>2, <1>s, <1>t, <2>1 DEF WaitSleep, DeviceType, AtaTypeOK
<1>3. CASE NoDevice
  BY <1>3, <1>s, <1>t DEF NoDevice, DeviceType, AtaTypeOK
<1>4. CASE Reset
  BY <1>4, <1>s, <1>t DEF Reset, DeviceType, AtaTypeOK
<1>5. CASE Identify
  BY <1>5, <1>s, <1>t, <1>c, <1>w DEF Identify, DeviceType, AtaTypeOK
<1>6. CASE DropIdentity
  BY <1>6, <1>s, <1>t, <1>w DEF DropIdentity, PortEmptied, DeviceType, AtaTypeOK
<1>7. CASE Prepare
  <2>1. Address(asked) \in Sector
    BY <1>t DEF AtaTypeOK
  <2> QED
    BY <1>7, <1>s, <1>t, <1>c, <1>w, <2>1 DEF Prepare, DeviceType, AtaTypeOK
<1>8. CASE ReadBlock
  <2>1. result' \in Seen
    BY <1>8, <1>t DEF ReadBlock, AtPort
  <2> QED
    BY <1>8, <1>s, <1>t, <1>w, <2>1 DEF ReadBlock, PortEmptied, DeviceType, AtaTypeOK
<1>9. CASE \E offset \in Sector : StartRead(offset)
  BY <1>9, <1>s, <1>t DEF StartRead, DeviceType, AtaTypeOK
<1>10. CASE UNCHANGED ataVars
  BY <1>10, <1>s, <1>t DEF ataVars, DeviceType, AtaTypeOK
<1> QED
  BY <1>1, <1>2, <1>3, <1>4, <1>5, <1>6, <1>7, <1>8, <1>9, <1>10 DEF AtaStep

-----------------------------------------------------------------------------
(* The steps of the file system *)

\* What a table or something else is taken for.
LEMMA TablesAreTables ==
  ASSUME volume \in Volumes, result \in Seen, NEW t \in AsTables(result)
  PROVE  t \in [Clusters -> ClusterNumbers]
<1>1. CASE result.kind = "table"
  BY <1>1, SeenIsGood DEF AsTables, GoodSector
<1>2. CASE result.kind # "table"
  BY <1>2, Fat16Assumption DEF AsTables
<1> QED
  BY <1>1, <1>2

\* A header that open() has found leads to sectors only.
LEMMA SectorOfLink ==
  ASSUME GoodHeader(header_info), NEW c \in Links
  PROVE  SectorOf(c) \in Sector
BY DEF GoodHeader, SectorOf, DataStart

LEMMA NoHeaderIsEmpty ==
  ASSUME HeaderKnown
  PROVE  /\ header_info.reserved \in Sector
         /\ header_info.sectorSize # 0 => GoodHeader(header_info)
BY Fat16Assumption DEF HeaderKnown, NoHeader, GoodHeader

\* The driver and the device.
LEMMA DiskKeeps ==
  ASSUME FileInv, Disk
  PROVE  FileInv'
<1>1. DeviceType' /\ volume' = volume
  BY DeviceKeeps DEF Disk, FileInv
<1>2. UNCHANGED <<fs, header_info, mounted, table, cmd, location, current, chain, slow,
                  commands>>
  BY DEF Disk, fileVars
<1> QED
  BY <1>1, <1>2 DEF FileInv, FileType, HeaderKnown

\* The boot.
LEMMA BootKeeps ==
  ASSUME FileInv, OpenReads \/ OpenRefuses \/ OpenAccepts \/ Mount
  PROVE  FileInv'
<1> USE DEF FileInv, FileType, HeaderKnown, fileVars
<1>g. volume \in Volumes /\ result \in Seen /\ gaveUp \in BOOLEAN /\ ata # ""
      /\ 0 \in Sector
  BY Fat16Assumption DEF DeviceType, AtaTypeOK
<1>1. CASE OpenReads
  <2>1. StartRead(0)
    BY <1>1 DEF OpenReads, Read
  <2>2. DeviceType' /\ volume' = volume
    BY <1>g, <2>1, DeviceKeeps
  <2> QED
    BY <1>1, <2>2 DEF OpenReads, Read
<1>2. CASE OpenRefuses
  <2>1. DeviceType' /\ volume' = volume
    BY <1>2, DeviceKeeps DEF OpenRefuses, Shell
  <2> QED
    BY <1>2, <1>g, <2>1 DEF OpenRefuses, Shell, Returned
<1>3. CASE OpenAccepts
  <2>1. GoodHeader(header_info')
    BY <1>3, <1>g, SeenIsGood DEF OpenAccepts, HasMagic, GoodSector
  <2>2. header_info'.reserved \in Sector
    BY <2>1 DEF GoodHeader
  <2>3. DeviceType' /\ volume' = volume
    BY <1>3, <2>2, DeviceKeeps DEF OpenAccepts, Read
  <2> QED
    BY <1>3, <1>g, <2>1, <2>3 DEF OpenAccepts, Read, Returned
<1>4. CASE Mount
  <2>1. DeviceType' /\ volume' = volume
    BY <1>4, DeviceKeeps DEF Mount, Shell
  <2>2. table' \in [Clusters -> ClusterNumbers]
    BY <1>4, <1>g, TablesAreTables DEF Mount
  <2> QED
    BY <1>4, <1>g, <2>1, <2>2 DEF Mount, Shell, Returned
<1> QED
  BY <1>1, <1>2, <1>3, <1>4

\* The walk along a chain.
LEMMA WalkKeeps ==
  ASSUME FileInv, TableRead \/ Walk \/ WalkForever \/ Fault \/ FaultAgain
  PROVE  FileInv'
<1> USE DEF FileInv, FileType, HeaderKnown, fileVars
<1>g. volume \in Volumes /\ result \in Seen /\ gaveUp \in BOOLEAN
  BY DEF DeviceType, AtaTypeOK
<1>v. DeviceType' /\ volume' = volume
  BY DeviceKeeps DEF TableRead, Walk, WalkForever, Fault, FaultAgain, vars
<1>1. CASE TableRead
  <2>1. table' \in [Clusters -> ClusterNumbers]
    BY <1>1, <1>g, TablesAreTables DEF TableRead
  <2>2. << >> \in Seq(Links) /\ Len(<< >>) = 0 /\ 0 <= MaxChain
    BY Fat16Assumption
  <2> QED
    BY <1>1, <1>g, <1>v, <2>1, <2>2 DEF TableRead, Returned
<1>2. CASE Walk
  <2>1. current \in Links /\ current \in Clusters
    BY <1>2, Numbers DEF Walk, ClusterNumbers, Links
  <2>2. /\ chain' = Append(chain, current) /\ chain' \in Seq(Links)
        /\ Len(chain') = Len(chain) + 1 /\ chain' # << >> /\ Len(chain) \in Nat
    BY <1>2, <2>1, AppendProperties, LenProperties DEF Walk
  <2>3. Len(chain') <= MaxChain
    BY <1>2, <2>2, Fat16Assumption DEF Walk
  <2>4. current' \in ClusterNumbers
    <3>1. table[current] \in Nat
      BY <2>1 DEF ClusterNumbers
    <3>2. current' \in Clusters
      BY <1>2, <3>1, Numbers DEF Walk, EntryByte, Clusters
    <3> QED
      BY <3>2, Numbers
  <2> QED
    BY <1>2, <1>v, <2>2, <2>3, <2>4 DEF Walk
<1>3. CASE WalkForever \/ FaultAgain
  BY <1>3, <1>v DEF WalkForever, FaultAgain, vars
<1>4. CASE Fault
  BY <1>4, <1>v DEF Fault
<1> QED
  BY <1>1, <1>2, <1>3, <1>4

\* The sectors of a folder and of a file.
LEMMA SectorsKeep ==
  ASSUME FileInv, FolderSector \/ FileSectors \/ PrintSector
  PROVE  FileInv'
<1> USE DEF FileInv, FileType, HeaderKnown, fileVars
<1>g. gaveUp \in BOOLEAN
  BY DEF DeviceType, AtaTypeOK
<1>h. \A s \in Seq(Links) : s # << >> => Head(s) \in Links /\ Tail(s) \in Seq(Links)
                                         /\ Len(Tail(s)) = Len(s) - 1 /\ Len(s) \in Nat
  BY HeadTailProperties, LenProperties
<1>p. ASSUME NEW rest \in Seq(Links), PrintNext(rest), GoodHeader(header_info)
      PROVE  /\ DeviceType' /\ volume' = volume
             /\ fs' = IF rest = << >> THEN "shell" ELSE "print"
  <2>1. CASE rest = << >>
    BY <1>p, <2>1, DeviceKeeps DEF PrintNext, Shell
  <2>2. CASE rest # << >>
    <3>1. SectorOf(Head(rest)) \in Sector
      BY <1>h, <1>p, <2>2, SectorOfLink
    <3> QED
      BY <1>p, <2>2, <3>1, DeviceKeeps DEF PrintNext, Read
  <2> QED
    BY <2>1, <2>2
<1>1. CASE FolderSector
  <2>1. SectorOf(Head(chain)) \in Sector
    BY <1>1, <1>h, NoHeaderIsEmpty, SectorOfLink DEF FolderSector
  <2>2. DeviceType' /\ volume' = volume
    BY <1>1, <2>1, DeviceKeeps DEF FolderSector, Read
  <2> QED
    BY <1>1, <2>2 DEF FolderSector, Read
<1>2. CASE FileSectors
  <2>1. GoodHeader(header_info) /\ PrintNext(chain)
    BY <1>2, NoHeaderIsEmpty DEF FileSectors
  <2>2. /\ DeviceType' /\ volume' = volume
        /\ fs' = IF chain = << >> THEN "shell" ELSE "print"
    BY <1>p, <2>1
  <2> QED
    BY <1>2, <2>1, <2>2 DEF FileSectors
<1>3. CASE PrintSector
  <2>1. GoodHeader(header_info) /\ chain # << >> /\ cmd = "print"
    BY <1>3 DEF PrintSector, Returned
  <2>2. /\ chain' = Tail(chain) /\ chain' \in Seq(Links) /\ Len(chain') <= MaxChain
    BY <1>3, <1>h, <2>1, Fat16Assumption DEF PrintSector
  <2>3. /\ DeviceType' /\ volume' = volume
        /\ fs' = IF chain' = << >> THEN "shell" ELSE "print"
    <3> DEFINE rest == chain'
    <3>1. PrintNext(rest) /\ rest \in Seq(Links)
      BY <1>3, <2>2 DEF PrintSector
    <3> HIDE DEF rest
    <3>2. /\ DeviceType' /\ volume' = volume
          /\ fs' = IF rest = << >> THEN "shell" ELSE "print"
      BY <1>p, <2>1, <3>1
    <3> QED
      BY <3>2 DEF rest
  <2> QED
    BY <1>3, <1>g, <2>1, <2>2, <2>3 DEF PrintSector, Returned
<1> QED
  BY <1>1, <1>2, <1>3

\* A command begins, and what it does with a directory.
LEMMA DirectoryKeeps ==
  ASSUME FileInv,
         \/ \E c \in {"ls", "cat"} : \E tokens : ReadDirectory(c, tokens)
         \/ FolderFound \/ FolderNotFound \/ List \/ FileFound \/ FileNotFound
  PROVE  FileInv'
<1> USE DEF FileInv, FileType, HeaderKnown, fileVars
<1>g. volume \in Volumes /\ result \in Seen /\ gaveUp \in BOOLEAN
  BY DEF DeviceType, AtaTypeOK
<1>w. ASSUME NEW cluster, WalkSectors(cluster)
      PROVE  DeviceType' /\ volume' = volume /\ fs' = "table" /\ location' = cluster
  <2>1. header_info.reserved \in Sector
    BY NoHeaderIsEmpty
  <2> QED
    BY <1>w, <2>1, DeviceKeeps DEF WalkSectors, Read
<1>1. ASSUME NEW c \in {"ls", "cat"}, NEW tokens, ReadDirectory(c, tokens)
      PROVE  FileInv'
  <2>1. DeviceType' /\ volume' = volume
    BY <1>1, DeviceKeeps, Fat16Assumption DEF ReadDirectory, Read
  <2>2. commands' \in 0 .. MaxCommands
    BY <1>1, Fat16Assumption DEF ReadDirectory
  <2> QED
    BY <1>1, <2>1, <2>2 DEF ReadDirectory, Read
<1>2. CASE FolderFound
  <2>1. PICK entries \in ReadEntries :
               IsFound(Head(path), entries) /\ WalkSectors(Found(Head(path), entries).location)
    BY <1>2 DEF FolderFound
  <2>2. /\ location' \in ClusterNumbers
        /\ DeviceType' /\ volume' = volume /\ fs' = "table"
    BY <1>g, <1>w, <2>1, FoundHasCluster
  <2> QED
    BY <1>2, <1>g, <2>2 DEF FolderFound, Returned
<1>3. CASE FileFound
  <2>1. PICK entries \in ReadEntries :
               IsFound(CatFile, entries) /\ WalkSectors(Found(CatFile, entries).location)
    BY <1>3 DEF FileFound, HasFile
  <2>2. /\ location' \in ClusterNumbers
        /\ DeviceType' /\ volume' = volume /\ fs' = "table"
    BY <1>g, <1>w, <2>1, FoundHasCluster
  <2> QED
    BY <1>3, <1>g, <2>2 DEF FileFound, Returned
<1>4. CASE FolderNotFound \/ FileNotFound \/ List
  <2>1. DeviceType' /\ volume' = volume
    BY <1>4, DeviceKeeps DEF FolderNotFound, FileNotFound, List, Shell
  <2> QED
    BY <1>4, <1>g, <2>1 DEF FolderNotFound, FileNotFound, List, Shell, Returned
<1> QED
  BY <1>1, <1>2, <1>3, <1>4

LEMMA FileStep ==
  ASSUME FileInv, [Next]_vars
  PROVE  FileInv'
<1>1. CASE UNCHANGED vars
  <2>1. DeviceType' /\ volume' = volume
    BY <1>1, DeviceKeeps DEF vars, FileInv
  <2> QED
    BY <1>1, <2>1 DEF vars, fileVars, FileInv, FileType, HeaderKnown
<1>2. CASE FileSystem
  BY <1>2, BootKeeps, WalkKeeps, SectorsKeep, DirectoryKeeps DEF FileSystem
<1>3. CASE ReadDirectory("cat", CatPath) \/ \E tokens \in Paths : ReadDirectory("ls", tokens)
  BY <1>3, DirectoryKeeps
<1> QED
  BY <1>1, <1>2, <1>3, DiskKeeps DEF Next, Idle

\* The invariant of the disk and the file system.
THEOREM FileInvariance == Spec => []FileInv
<1>1. Init => FileInv
  <2> SUFFICES ASSUME Init PROVE FileInv
    OBVIOUS
  <2>1. DeviceType
    <3>1. AtaTypeOK
      <4>1. 0 \in Sector /\ 0 \in 0 .. MaxTime + 1
        BY AtaAssumption, Fat16Assumption
      <4> QED
        BY <4>1 DEF Init, AtaInit, AtaTypeOK
    <3>2. volume \in Volumes /\ result = Nothing
      BY DEF Init, AtaInit
    <3>3. DOMAIN volume = Sector /\ \A s \in Sector : GoodSector(volume[s])
      BY <3>2, Fat16Assumption
    <3> QED
      BY <3>1, <3>2, <3>3, Fat16Assumption DEF DeviceType, Seen
  <2>2. NoTable \in [Clusters -> ClusterNumbers]
    BY Numbers DEF NoTable
  <2>3. << >> \in Seq(Links) /\ Len(<< >>) <= MaxChain /\ 0 \in 0 .. MaxCommands
    BY Fat16Assumption
  <2> QED
    BY <2>1, <2>2, <2>3, Numbers
    DEF Init, FileInv, FileType, HeaderKnown
<1>2. FileInv /\ [Next]_vars => FileInv'
  BY FileStep
<1> QED
  BY <1>1, <1>2, PTL DEF Spec

\* read_u8 returns the content of the sector that FAT16 asks for, unless one
\* of its two waits gave up: also after reads that did give up, whose commands
\* the device answers late or never saw.
THEOREM ReadsGetTheirSectors == Spec => []ReadGetsItsSector
<1>1. AtaInv /\ FileInv => ReadGetsItsSector
  <2> SUFFICES ASSUME AtaInv, FileInv PROVE ReadGetsItsSector
    OBVIOUS
  <2>1. Address(asked) = asked
    BY AtaAssumption, AddressIsNumber DEF FileInv, DeviceType, AtaTypeOK
  <2> QED
    BY <2>1 DEF AtaInv, ReadDone, ReadGetsItsSector
<1> QED
  BY <1>1, AtaInvariance, FileInvariance, PTL

-----------------------------------------------------------------------------
(* The invariant of a command *)

\* Only the boot sector is read before open() decides, and it takes nothing
\* else for one.
VolumeOpened ==
  /\ fs \in {"boot", "open"} =>
       /\ ~mounted /\ asked = 0 /\ lba = 0
       /\ {port, result} \subseteq {Nothing, Identity, volume[0]}
  /\ mounted => HasMagic(volume[0]) /\ header_info = HeaderOf(volume)

\* The path that is left is the end of the one that was given.
Looked == Len(dir) - Len(path)

PathType ==
  /\ fs \in {"boot", "open", "mount"} => cmd = "none"
  /\ cmd = "none" => fs \in {"boot", "open", "mount", "shell"}
  /\ cmd = "ls" /\ dir \in ShortPaths => path = << >> /\ fs \in {"directory", "shell"}
  /\ cmd # "none" => dir \in Paths \cup {CatPath}
  /\ cmd \in {"cat", "print"} => dir = CatPath
  /\ cmd = "print" => path = << >>
  /\ dir \in Seq(ToSet(dir)) /\ path \in Seq(ToSet(dir))
  /\ Len(path) <= Len(dir)
  /\ \A i \in 1 .. Len(path) : path[i] = dir[Looked + i]
  /\ printed \in Seq(Seen)

\* A command on a plain volume that has not been kept waiting, and whose path
\* does not leave the directories.
Regular ==
  /\ cmd # "none" /\ mounted /\ ~slow /\ Plain(volume)
  /\ cmd = "ls" => dir \notin ShortPaths
  /\ ~Strays(volume, dir)

\* Where the code is on its path, and the file that it has found there.
AtSector == SectorsOnPath(volume, dir)[Looked]
FileHere == FilesHere(volume)

\* What walkSectors was called for.
WalkedFor ==
  /\ location \in Used
  /\ cmd # "print" => AtSector = ClusterSector(volume, location)
  /\ cmd = "print" => FileHere # {} /\ location = ClusterOf(FileHere)

\* walk() has collected the first clusters of the chain.
ChainWalked ==
  /\ table = TableOf(volume)
  /\ chain = << >> => current = location
  /\ chain # << >> =>
       /\ chain[1] = location
       /\ chain = ChainsOf(volume, location)[Len(chain) - 1]
       /\ current = EntryByte(table[Last(chain)])

\* cat has printed a part of the file, and is reading the sector behind it.
PrintedSoFar ==
  LET clusters == ChainOf(volume, location)
  IN /\ Len(printed) + Len(chain) = Len(clusters)
     /\ \A i \in 1 .. Len(chain) : chain[i] = clusters[Len(printed) + i]
     /\ \A i \in 1 .. Len(printed) :
          printed[i] = volume[ClusterSector(volume, clusters[i])]

AllListed ==
  /\ ToSet(listing) = EntriesOfPath(volume, dir)
  /\ Len(listing) = Cardinality(EntriesOfPath(volume, dir))

CommandDone ==
  /\ cmd = "ls" => AllListed
  /\ cmd # "ls" /\ ~FileIsEmpty(volume) => printed = TextOfFile(volume)

OnTheWay ==
  /\ fs # "fault"
  /\ fs \in {"directory", "table", "walk"} => listing = << >> /\ printed = << >>
  /\ fs = "directory" => cmd # "print" /\ asked = AtSector
  /\ fs = "table" => asked = header_info.reserved
  /\ fs \in {"table", "walk", "print"} => WalkedFor
  /\ fs = "walk" => ChainWalked
  /\ fs = "print" => PrintedSoFar /\ asked = ClusterSector(volume, chain[1])
  /\ fs = "shell" => CommandDone

CommandInv == VolumeOpened /\ PathType /\ (Regular => OnTheWay)

ReadInv == FileInv /\ AtaInv /\ CommandInv

\* The steps that do not begin a command.
GoesOn == Disk \/ FileSystem \/ Idle \/ UNCHANGED vars

LEMMA WhatStays ==
  ASSUME FileInv, [Next]_vars
  PROVE  volume' = volume /\ FileInv' /\ (Disk => asked' = asked)
<1>1. volume' = volume
  BY DiskStep
  DEF AtaNext, AtaStep, ataVars, deviceVars, DeviceReady, StartRead, WaitSleep, NoDevice,
      Reset, Identify, DropIdentity, Prepare, ReadBlock, Command, PortEmptied
<1>2. Disk => asked' = asked
  BY DEF Disk, AtaStep, driverVars, DeviceReady, WaitSleep, NoDevice, Reset, Identify,
         DropIdentity, Prepare, ReadBlock
<1> QED
  BY <1>1, <1>2, FileStep

\* Before open() has decided, the device offers nothing but the boot sector.
LEMMA BootSectorOnly ==
  ASSUME FileInv, VolumeOpened, fs \in {"boot", "open"}, AtaStep \/ DeviceReady
  PROVE  /\ asked' = 0 /\ lba' = 0
         /\ {port', result'} \subseteq {Nothing, Identity, volume[0]}
<1> USE DEF deviceVars, driverVars
<1>1. /\ asked = 0 /\ lba = 0 /\ {port, result} \subseteq {Nothing, Identity, volume[0]}
      /\ job \in {"none", "identify", "read"}
  BY DEF VolumeOpened, FileInv, DeviceType, AtaTypeOK
<1>2. Address(0) = 0
  BY AddressIsNumber, AtaAssumption, Fat16Assumption
<1>3. AtPort \in {Nothing, Identity, volume[0]}
  BY <1>1 DEF AtPort
<1>4. CASE DeviceReady
  BY <1>1, <1>4 DEF DeviceReady
<1>5. CASE WaitSleep \/ NoDevice \/ Reset
  BY <1>1, <1>5 DEF WaitSleep, NoDevice, Reset
<1>6. CASE Identify \/ Prepare
  BY <1>1, <1>2, <1>6 DEF Identify, Prepare, Command
<1>7. CASE DropIdentity \/ ReadBlock
  BY <1>1, <1>3, <1>7 DEF DropIdentity, ReadBlock, PortEmptied
<1> QED
  BY <1>4, <1>5, <1>6, <1>7 DEF AtaStep

LEMMA OpenedKeeps ==
  ASSUME FileInv, VolumeOpened, [Next]_vars
  PROVE  VolumeOpened'
<1>1. volume' = volume
  BY WhatStays
<1>2. CASE Disk
  BY <1>1, <1>2, BootSectorOnly DEF Disk, VolumeOpened
<1>3. CASE OpenReads
  BY <1>1, <1>3 DEF OpenReads, Read, StartRead, deviceVars, VolumeOpened
<1>4. CASE OpenAccepts
  <2>1. result = volume[0] /\ HasMagic(volume[0])
    BY <1>4, Fat16Assumption DEF OpenAccepts, Returned, HasMagic, VolumeOpened
  <2> QED
    BY <1>1, <1>4, <2>1 DEF OpenAccepts, Read, HeaderOf, VolumeOpened
<1>5. CASE UNCHANGED vars
  BY <1>1, <1>5 DEF vars, ataVars, deviceVars, driverVars, VolumeOpened
<1>6. ASSUME fs' \notin {"boot", "open"}, mounted' = mounted, header_info' = header_info
      PROVE  VolumeOpened'
  BY <1>1, <1>6 DEF VolumeOpened
<1>7. CASE \/ OpenRefuses \/ Mount \/ TableRead \/ Walk \/ Fault \/ FolderSector
           \/ FileSectors \/ PrintSector \/ FolderFound \/ FolderNotFound \/ List
           \/ FileFound \/ FileNotFound
           \/ \E c \in {"ls", "cat"} : \E tokens : ReadDirectory(c, tokens)
  BY <1>6, <1>7
  DEF OpenRefuses, Mount, TableRead, Walk, Fault, FolderSector, FileSectors, PrintSector,
      FolderFound, FolderNotFound, List, FileFound, FileNotFound, ReadDirectory, Read,
      Shell, PrintNext, WalkSectors
<1> QED
  BY <1>2, <1>3, <1>4, <1>5, <1>7
  DEF Next, FileSystem, Idle, WalkForever, FaultAgain

LEMMA PathKeeps ==
  ASSUME FileInv, PathType, [Next]_vars
  PROVE  PathType'
<1>1. volume' = volume /\ Seen' = Seen /\ result \in Seen
  BY WhatStays DEF Seen, FileInv, DeviceType
<1>2. CASE FolderFound
  <2>1. /\ path \in Seq(ToSet(dir)) /\ path # << >> /\ Len(path) \in Nat
        /\ path' = Tail(path) /\ Len(dir) \in Nat
        /\ UNCHANGED <<cmd, dir, printed>> /\ cmd # "print" /\ fs' = "table"
    BY <1>2, LenProperties DEF FolderFound, WalkSectors, Read, PathType
  <2>2. /\ path' \in Seq(ToSet(dir)) /\ Len(path') = Len(path) - 1
        /\ \A i \in 1 .. Len(path') : path'[i] = path[i + 1]
    BY <2>1, HeadTailProperties
  <2>3. \A i \in 1 .. Len(path') : path'[i] = dir[Looked' + i]
    <3> SUFFICES ASSUME NEW i \in 1 .. Len(path') PROVE path'[i] = dir[Looked' + i]
      OBVIOUS
    <3>1. i + 1 \in 1 .. Len(path) /\ Looked' + i = Looked + (i + 1)
      BY <2>1, <2>2 DEF Looked
    <3> QED
      BY <2>2, <3>1 DEF PathType
  <2>4. cmd # "none" /\ ~(cmd = "ls" /\ dir \in ShortPaths)
    BY <1>2, <2>1 DEF FolderFound, Returned, PathType
  <2> QED
    BY <1>1, <2>1, <2>2, <2>3, <2>4 DEF PathType
<1>3. ASSUME NEW c \in {"ls", "cat"}, NEW tokens \in Paths \cup {CatPath},
             c = "cat" => tokens = CatPath, ReadDirectory(c, tokens)
      PROVE  PathType'
  <2>1. tokens \in Seq(ToSet(tokens)) /\ << >> \in Seq(ToSet(tokens)) /\ << >> \in Seq(Seen)
    BY Fat16Assumption
  <2>2. /\ dir' = tokens /\ cmd' = c /\ printed' = << >> /\ fs' = "directory"
        /\ path' \in {<< >>, tokens} /\ Len(<< >>) = 0 /\ Len(tokens) \in Nat
        /\ tokens \in ShortPaths => path' = << >>
    BY <1>3, <2>1, LenProperties DEF ReadDirectory, Read
  <2>3. CASE path' = << >>
    BY <1>1, <1>3, <2>1, <2>2, <2>3 DEF PathType, Looked
  <2>4. CASE path' = tokens
    <3>1. Looked' = 0 /\ \A i \in 1 .. Len(tokens) : 0 + i = i
      BY <2>2, <2>4 DEF Looked
    <3> QED
      BY <1>1, <1>3, <2>1, <2>2, <2>4, <3>1 DEF PathType
  <2> QED
    BY <2>2, <2>3, <2>4
<1>4. CASE PrintSector
  <2>1. printed' \in Seq(Seen) /\ fs' \in {"print", "shell"}
    BY <1>1, <1>4, AppendProperties DEF PrintSector, PrintNext, Read, Shell, PathType
  <2>2. fs = "print" /\ UNCHANGED <<cmd, dir, path>>
    BY <1>4 DEF PrintSector, Returned
  <2>3. cmd # "none" /\ ~(cmd = "ls" /\ dir \in ShortPaths)
    BY <2>2 DEF PathType
  <2> QED
    BY <1>1, <2>1, <2>2, <2>3 DEF PathType, Looked
<1>5. ASSUME UNCHANGED <<cmd, dir, path, printed>>,
             fs' \in {"boot", "open", "mount"} => fs \in {"boot", "open", "mount"},
             \/ fs' \in {fs, "shell"}
             \/ fs \in {"boot", "open"} /\ fs' \in {"open", "mount"}
             \/ fs \in {"table", "walk", "print"}
      PROVE  PathType'
  BY <1>1, <1>5 DEF PathType, Looked
<1>6. CASE FileFound
  BY <1>1, <1>6 DEF FileFound, WalkSectors, Read, PathType, Looked
<1>7. CASE OpenReads \/ OpenAccepts \/ OpenRefuses \/ Mount
  <2>1. /\ fs \in {"boot", "open", "mount"} /\ UNCHANGED <<cmd, dir, path, printed>>
        /\ \/ fs' = "shell"
           \/ fs \in {"boot", "open"} /\ fs' \in {"open", "mount"}
    BY <1>7 DEF OpenReads, OpenAccepts, OpenRefuses, Mount, Read, Shell, Returned, fileVars
  <2> QED
    BY <1>5, <2>1
<1>8. CASE TableRead \/ Walk \/ Fault \/ FolderSector \/ FileSectors
  <2>1. /\ fs \in {"table", "walk"} /\ UNCHANGED <<cmd, dir, path, printed>>
        /\ fs' \in {"shell", "walk", "fault", "directory", "print"}
    BY <1>8 DEF TableRead, Walk, Fault, FolderSector, FileSectors, Read, Shell,
                PrintNext, Returned, WalkEnded, fileVars
  <2> QED
    BY <1>5, <2>1
<1>9. CASE FolderNotFound \/ List \/ FileNotFound \/ Disk \/ UNCHANGED vars
  <2>1. UNCHANGED <<cmd, dir, path, printed>> /\ fs' \in {fs, "shell"}
    BY <1>9 DEF FolderNotFound, List, FileNotFound, Disk, Shell, fileVars, vars
  <2> QED
    BY <1>5, <2>1
<1> QED
  BY <1>2, <1>3, <1>4, <1>6, <1>7, <1>8, <1>9
  DEF Next, FileSystem, Idle, WalkForever, FaultAgain

\* What is known in the course of a regular command.
LEMMA InTheCourse ==
  ASSUME ReadInv, GoesOn, Regular'
  PROVE  /\ Regular /\ OnTheWay /\ PathType
         /\ PlainVolume(volume) /\ volume' = volume /\ dir' = dir
         /\ header_info = HeaderOf(volume) /\ header_info' = header_info
         /\ \A c : SectorOf(c) = ClusterSector(volume, c)
         /\ \A point : Returned(point) => result = volume[asked]
<1>1. [Next]_vars /\ FileInv /\ AtaInv /\ CommandInv
  BY DEF GoesOn, Next, ReadInv
<1>2. volume' = volume
  BY <1>1, WhatStays
<1>3. /\ mounted' /\ ~slow' /\ Plain(volume) /\ ~Strays(volume, dir')
      /\ cmd' # "none" /\ (cmd' = "ls" => dir' \notin ShortPaths)
  BY <1>2 DEF Regular
<1>4. dir' = dir /\ (cmd' = cmd \/ (cmd = "cat" /\ cmd' = "print"))
  BY DEF GoesOn, Disk, FileSystem, Idle, vars, fileVars, OpenReads, OpenRefuses, OpenAccepts,
         Mount, TableRead, Walk, WalkForever, Fault, FaultAgain, FolderSector, FileSectors,
         PrintSector, FolderFound, FolderNotFound, List, FileFound, FileNotFound
<1>5. ~OpenAccepts
  BY <1>1, <1>3 DEF OpenAccepts, Returned, fileVars, CommandInv, PathType
<1>6. mounted' = mounted /\ header_info' = header_info
      /\ (slow' = slow \/ slow' = (slow \/ gaveUp))
  BY <1>5
  DEF GoesOn, Disk, FileSystem, Idle, vars, OpenReads, OpenRefuses, Returned,
      Mount, TableRead, Walk, WalkForever, Fault, FaultAgain, FolderSector, FileSectors,
      PrintSector, FolderFound, FolderNotFound, List, FileFound, FileNotFound
<1>7. slow \in BOOLEAN /\ gaveUp \in BOOLEAN
  BY <1>1 DEF FileInv, DeviceType, AtaTypeOK, FileType
<1>8. Regular
  BY <1>3, <1>4, <1>6, <1>7 DEF Regular
<1>9. header_info = HeaderOf(volume) /\ GoodHeader(header_info) /\ volume \in Volumes
  BY <1>1, <1>8 DEF Regular, CommandInv, VolumeOpened, FileInv, HeaderKnown, DeviceType
<1>10. \A c : SectorOf(c) = ClusterSector(volume, c)
  BY <1>9 DEF SectorOf, DataStart, ClusterSector, DataOf
<1>11. ASSUME NEW point, Returned(point)
       PROVE  result = volume[asked]
  <2>1. ~gaveUp /\ ata = "done"
    BY <1>3, <1>11 DEF Returned
  <2>2. Address(asked) = asked
    BY <1>1, AtaAssumption, AddressIsNumber DEF FileInv, DeviceType, AtaTypeOK
  <2> QED
    BY <1>1, <2>1, <2>2 DEF AtaInv, ReadDone
<1> QED
  BY <1>1, <1>2, <1>3, <1>4, <1>6, <1>8, <1>9, <1>10, <1>11 DEF CommandInv, PlainVolume

\* The walk goes from one cluster of the chain to the next.
LEMMA NextCluster ==
  ASSUME PlainVolume(volume), WalkedFor, ChainWalked, chain \in Seq(Links),
         Len(chain) <= MaxChain
  PROVE  /\ chain = << >> => current \in Used
         /\ chain # << >> /\ current < EndOfChain =>
              ChainsOf(volume, location)[Len(chain)] = Append(chain, current)
         /\ chain # << >> /\ current >= EndOfChain => chain = ChainOf(volume, location)
<1>1. location \in Used /\ table = TableOf(volume)
  BY DEF WalkedFor, ChainWalked
<1>2. chain = << >> => current \in Used
  BY <1>1 DEF ChainWalked
<1>3. ASSUME chain # << >>
      PROVE  /\ current < EndOfChain =>
                  ChainsOf(volume, location)[Len(chain)] = Append(chain, current)
             /\ current >= EndOfChain => chain = ChainOf(volume, location)
  <2> DEFINE m == Len(chain)
             entry == TableOf(volume)[Last(chain)]
  <2>1. m \in 1 .. MaxChain /\ m - 1 \in 0 .. MaxChain
    BY <1>3, LenProperties, EmptySeq, Fat16Assumption
  <2>2. chain = ChainsOf(volume, location)[m - 1] /\ current = EntryByte(entry)
    BY <1>1, <1>3 DEF ChainWalked
  <2>3. chain \in Seq(Used)
    <3> HIDE DEF m
    <3>1. ChainsOf(volume, location) \in [0 .. MaxChain -> Seq(Used) \ {<< >>}]
      BY <1>1, ChainIsDefined
    <3> QED
      BY <2>1, <2>2, <3>1
  <2>4. Last(chain) \in Used /\ (entry >= EndMark \/ entry \in Used)
    BY <1>3, <2>3, LinkedIsChain
  <2>5. ChainsOf(volume, location)[m] = Linked(volume, chain)
    BY <1>1, <2>1, <2>2, ChainIsDefined
  <2>6. entry \in Used => current = entry /\ entry < EndOfChain /\ ~(entry >= EndMark)
    <3> SUFFICES ASSUME entry \in Used
                 PROVE  current = entry /\ entry < EndOfChain /\ ~(entry >= EndMark)
      OBVIOUS
    <3> HIDE DEF entry
    <3>1. entry \in Nat /\ entry < EndOfChain /\ EndOfChain < Byte
      BY Numbers DEF Used, Links
    <3>2. EndMark \in Nat /\ EndMark >= EndOfChain
      <4>1. (Byte - 1) * Byte \in Nat
        BY Numbers
      <4> QED
        BY <4>1, Numbers, Fat16Assumption
    <3>3. entry % Byte = entry
      BY <3>1, Numbers
    <3> QED
      BY <2>2, <3>1, <3>2, <3>3, Numbers DEF EntryByte
  <2>7. entry >= EndMark => current >= EndOfChain /\ ~(current < EndOfChain)
    <3> SUFFICES ASSUME entry >= EndMark
                 PROVE  current >= EndOfChain /\ ~(current < EndOfChain)
      OBVIOUS
    <3>1. entry \in ClusterNumbers
      <4>1. Last(chain) \in Clusters
        BY <2>4, Numbers DEF Used, Clusters
      <4>2. table \in [Clusters -> ClusterNumbers]
        <5>1. \E s \in Sector : volume[HeaderOf(volume).reserved] = volume[s]
          BY DEF PlainVolume, GoodHeader
        <5>2. volume[HeaderOf(volume).reserved].kind = "table"
          BY DEF PlainVolume, Plain
        <5> QED
          BY <1>1, <5>1, <5>2, Fat16Assumption DEF PlainVolume, GoodSector, TableOf
      <4> QED
        BY <1>1, <4>1, <4>2
    <3> HIDE DEF entry
    <3> DEFINE low == entry - (Byte - 1) * Byte
    <3>2. /\ entry \in Nat /\ entry <= Byte * Byte - 1 /\ (Byte - 1) * Byte \in Nat
          /\ Byte * Byte = (Byte - 1) * Byte + Byte
      BY <3>1, Numbers DEF ClusterNumbers
    <3>3. low \in EndOfChain .. Byte - 1 /\ entry = Byte * (Byte - 1) + low
      BY <3>2, Numbers, Fat16Assumption
    <3> HIDE DEF low
    <3>4. entry % Byte = low
      <4>1. Byte - 1 \in Nat /\ low \in 0 .. Byte - 1 /\ Byte \in Nat \ {0}
        BY <3>3, Numbers
      <4>2. entry \div Byte \in Nat /\ entry % Byte \in 0 .. Byte - 1
            /\ entry = Byte * (entry \div Byte) + (entry % Byte)
        BY <3>2, <4>1, Division
      <4>3. entry \div Byte = Byte - 1
        BY <3>3, <4>1, <4>2, OneQuotient
      <4> QED
        BY <3>3, <4>1, <4>2, <4>3
    <3> QED
      BY <2>2, <3>3, <3>4, Numbers DEF EntryByte
  <2>8. CASE entry \in Used
    <3>1. Linked(volume, chain) = Append(chain, current)
      BY <2>6, <2>8 DEF Linked
    <3>2. current \in Nat /\ current < EndOfChain /\ EndOfChain \in Nat
      BY <2>6, <2>8, Numbers DEF Used, Links
    <3> QED
      BY <2>5, <3>1, <3>2
  <2>9. CASE entry >= EndMark
    <3>1. ChainOf(volume, location) = chain
      BY <1>1, <2>1, <2>2, <2>9, ChainIsComplete
    <3> QED
      BY <2>7, <2>9, <3>1
  <2> QED
    BY <2>4, <2>8, <2>9
<1> QED
  BY <1>2, <1>3

LEMMA DiskGoesOn ==
  ASSUME ReadInv, Regular', Disk \/ Idle \/ WalkForever \/ FaultAgain \/ UNCHANGED vars
  PROVE  OnTheWay'
<1>1. GoesOn /\ [Next]_vars
  BY DEF GoesOn, FileSystem, Next
<1>2. OnTheWay /\ volume' = volume /\ header_info' = header_info
  BY <1>1, InTheCourse
<1>3. /\ asked' = asked
      /\ UNCHANGED <<table, cmd, dir, path, location, current, chain, listing, printed>>
      /\ fs' = fs
  BY <1>1, WhatStays
  DEF ReadInv, Disk, Idle, WalkForever, FaultAgain, vars, ataVars, driverVars, fileVars
<1> QED
  BY <1>2, <1>3
  DEF OnTheWay, WalkedFor, ChainWalked, PrintedSoFar, AllListed, CommandDone, AtSector, Looked,
      FileHere

\* The folder of a regular command has a first cluster, with which the walk
\* begins.
LEMMA NoFaultOnTheWay ==
  ASSUME ReadInv, Regular', Fault
  PROVE  FALSE
<1>1. GoesOn
  BY DEF GoesOn, FileSystem
<1>2. OnTheWay /\ Regular
  BY <1>1, InTheCourse
<1>3. header_info.sectorSize # 0
  BY <1>2 DEF Regular, ReadInv, FileInv, HeaderKnown, GoodHeader
<1>4. fs = "walk" /\ current >= EndOfChain /\ chain = << >>
  BY <1>3 DEF Fault, WalkEnded
<1>5. current = location /\ location \in Links
  BY <1>2, <1>4 DEF OnTheWay, ChainWalked, WalkedFor, Used
<1> QED
  BY <1>4, <1>5, Numbers DEF Links

LEMMA WalkGoesOn ==
  ASSUME ReadInv, Regular', TableRead \/ Walk
  PROVE  OnTheWay'
<1>1. GoesOn
  BY DEF GoesOn, FileSystem
<1>2. /\ OnTheWay /\ PlainVolume(volume) /\ volume' = volume
      /\ header_info = HeaderOf(volume)
      /\ \A point : Returned(point) => result = volume[asked]
  BY <1>1, InTheCourse
<1>3. UNCHANGED <<cmd, dir, path, location, listing, printed>> /\ fs' = "walk"
      /\ listing = << >> /\ printed = << >> /\ WalkedFor
  BY <1>2 DEF TableRead, Walk, Returned, OnTheWay
<1>4. WalkedFor' /\ listing' = << >> /\ printed' = << >>
  BY <1>2, <1>3 DEF WalkedFor, AtSector, Looked, FileHere
<1>5. CASE TableRead
  <2>1. result = volume[HeaderOf(volume).reserved]
    BY <1>2, <1>5 DEF TableRead, Returned, OnTheWay
  <2>2. result.kind = "table"
    BY <1>2, <2>1 DEF PlainVolume, Plain
  <2>3. table' = TableOf(volume)
    BY <1>5, <2>1, <2>2 DEF TableRead, AsTables, TableOf
  <2>4. chain' = << >> /\ current' = location'
    BY <1>5 DEF TableRead
  <2> QED
    BY <1>2, <1>3, <1>4, <2>3, <2>4 DEF OnTheWay, ChainWalked
<1>6. CASE Walk
  <2>1. /\ chain' = Append(chain, current) /\ current' = EntryByte(table[current])
        /\ table' = table /\ current < EndOfChain
        /\ chain \in Seq(Links) /\ Len(chain) <= MaxChain /\ current \in Links
    <3>1. current \in ClusterNumbers /\ chain \in Seq(Links) /\ Len(chain) <= MaxChain
      BY DEF ReadInv, FileInv, FileType
    <3>2. current \in Links
      BY <1>6, <3>1, Numbers DEF Walk, ClusterNumbers, Links
    <3> QED
      BY <1>6, <3>1, <3>2 DEF Walk
  <2>2. ChainWalked
    BY <1>2, <1>6 DEF Walk, OnTheWay
  <2>3. /\ Len(chain) \in Nat /\ Len(chain') = Len(chain) + 1 /\ chain' # << >>
        /\ chain'[Len(chain) + 1] = current
        /\ \A i \in 1 .. Len(chain) : chain'[i] = chain[i]
    BY <2>1, LenProperties, AppendProperties
  <2>4. Last(chain') = current /\ Len(chain') - 1 = Len(chain)
    BY <2>3 DEF Last
  <2>5. current' = EntryByte(table'[Last(chain')])
    BY <2>1, <2>4
  <2>6. chain'[1] = location /\ chain' = ChainsOf(volume, location)[Len(chain)]
    <3>1. CASE chain = << >>
      <4>1. current = location /\ Len(chain) = 0
        BY <2>2, <3>1 DEF ChainWalked
      <4>2. ChainsOf(volume, location)[0] = <<location>>
        BY <1>2, <1>3, ChainIsDefined DEF WalkedFor
      <4>3. chain' = <<location>>
        BY <2>1, <3>1, <4>1
      <4> QED
        BY <4>1, <4>2, <4>3
    <3>2. CASE chain # << >>
      <4>1. 1 \in 1 .. Len(chain)
        BY <2>1, <3>2, EmptySeq, LenProperties
      <4>2. chain'[1] = location
        BY <2>2, <2>3, <3>2, <4>1 DEF ChainWalked
      <4> QED
        BY <1>2, <1>3, <2>1, <2>2, <3>2, <4>2, NextCluster
    <3> QED
      BY <3>1, <3>2
  <2> QED
    BY <1>2, <1>3, <1>4, <2>1, <2>2, <2>3, <2>4, <2>5, <2>6 DEF OnTheWay, ChainWalked
<1> QED
  BY <1>5, <1>6

\* The next sector of the file is read, or cat is done.
LEMMA PrintsOn ==
  ASSUME PlainVolume(volume), NEW rest \in Seq(Links), PrintNext(rest), volume' = volume,
         \A c : SectorOf(c) = ClusterSector(volume, c),
         chain' = rest, cmd' = "print", WalkedFor', PrintedSoFar', printed' \in Seq(Seen)
  PROVE  OnTheWay'
<1> DEFINE clusters == ChainOf(volume, location')
<1>1. CASE rest = << >>
  <2>1. fs' = "shell" /\ Len(rest) = 0
    BY <1>1 DEF PrintNext, Shell
  <2>2. location' \in Used /\ FileHere' # {} /\ location' = ClusterOf(FileHere')
    BY DEF WalkedFor
  <2>3. clusters \in Seq(Used) /\ Len(clusters) \in Nat
    BY <2>2, ChainIsDefined, LenProperties, Fat16Assumption DEF ChainOf
  <2>4. /\ printed' \in Seq(Seen) /\ Len(printed') = Len(clusters)
        /\ \A i \in 1 .. Len(printed') : printed'[i] = volume[ClusterSector(volume, clusters[i])]
    BY <2>1, <2>3, LenProperties DEF PrintedSoFar
  <2> HIDE DEF clusters
  <2>5. printed' = [n \in DOMAIN clusters |-> volume[ClusterSector(volume, clusters[n])]]
    <3>1. /\ printed' = [n \in 1 .. Len(printed') |-> printed'[n]]
          /\ DOMAIN clusters = 1 .. Len(clusters)
      BY <2>3, <2>4, LenProperties
    <3> QED
      BY <2>4, <3>1
  <2>6. ~FileIsEmpty(volume) => printed' = TextOfFile(volume)
    BY <2>2, <2>5 DEF TextOfFile, FileHere, clusters
  <2> QED
    BY <2>1, <2>6 DEF OnTheWay, CommandDone
<1>2. CASE rest # << >>
  <2>1. fs' = "print" /\ asked' = SectorOf(Head(rest))
    BY <1>2 DEF PrintNext, Read, StartRead
  <2>2. Head(rest) = rest[1]
    BY <1>2, HeadTailProperties
  <2> QED
    BY <2>1, <2>2 DEF OnTheWay
<1> QED
  BY <1>1, <1>2

LEMMA SectorsGoOn ==
  ASSUME ReadInv, Regular', FolderSector \/ FileSectors \/ PrintSector
  PROVE  OnTheWay'
<1>1. GoesOn /\ [Next]_vars
  BY DEF GoesOn, FileSystem, Next
<1>2. /\ OnTheWay /\ PlainVolume(volume) /\ volume' = volume /\ dir' = dir
      /\ \A c : SectorOf(c) = ClusterSector(volume, c)
      /\ \A point : Returned(point) => result = volume[asked]
  BY <1>1, InTheCourse
<1>3. /\ chain \in Seq(Links) /\ Len(chain) <= MaxChain /\ Len(chain) \in Nat
      /\ printed \in Seq(Seen) /\ printed' \in Seq(Seen) /\ result \in Seen
  <2>1. PathType' /\ Seen' = Seen
    BY <1>1, <1>2, PathKeeps DEF ReadInv, CommandInv, Seen
  <2> QED
    BY <2>1, LenProperties
    DEF ReadInv, FileInv, DeviceType, FileType, CommandInv, PathType
<1>4. /\ UNCHANGED <<cmd, path, location, listing>>
      /\ WalkedFor /\ WalkedFor'
  <2>1. UNCHANGED <<cmd, path, location, listing>> /\ fs \in {"walk", "print"}
    BY DEF FolderSector, FileSectors, PrintSector, WalkEnded, Returned, fileVars
  <2> QED
    BY <1>2, <2>1 DEF OnTheWay, WalkedFor, AtSector, Looked, FileHere
<1>5. CASE FolderSector
  <2>1. /\ chain # << >> /\ cmd # "print" /\ fs = "walk" /\ UNCHANGED fileVars
        /\ fs' = "directory" /\ asked' = SectorOf(Head(chain))
    BY <1>5 DEF FolderSector, WalkEnded, Read, StartRead
  <2>2. Head(chain) = location
    BY <1>2, <1>3, <2>1, HeadTailProperties DEF OnTheWay, ChainWalked
  <2>3. asked' = AtSector
    BY <1>2, <1>4, <2>1, <2>2 DEF WalkedFor
  <2> QED
    BY <1>2, <1>4, <2>1, <2>3 DEF OnTheWay, AtSector, Looked, fileVars
<1>6. CASE FileSectors
  <2>1. /\ cmd = "print" /\ fs = "walk" /\ current >= EndOfChain /\ UNCHANGED fileVars
        /\ PrintNext(chain)
    BY <1>6 DEF FileSectors, WalkEnded
  <2>2. chain # << >>
    BY <1>2, <1>3, <1>4, <2>1, NextCluster, Numbers DEF OnTheWay, Used, Links
  <2>3. chain = ChainOf(volume, location)
    BY <1>2, <1>3, <1>4, <2>1, <2>2, NextCluster DEF OnTheWay
  <2>4. printed = << >> /\ Len(printed) = 0
    BY <1>2, <2>1 DEF OnTheWay
  <2>5. PrintedSoFar'
    BY <1>2, <1>3, <2>1, <2>3, <2>4 DEF PrintedSoFar, fileVars
  <2> QED
    BY <1>2, <1>3, <1>4, <2>1, <2>5, PrintsOn DEF fileVars
<1>7. CASE PrintSector
  <2>1. /\ fs = "print" /\ result = volume[asked] /\ printed' = Append(printed, result)
        /\ chain' = Tail(chain) /\ PrintNext(chain')
    BY <1>2, <1>7 DEF PrintSector, Returned
  <2>2. chain # << >> /\ cmd = "print"
    BY <2>1 DEF ReadInv, FileInv, HeaderKnown
  <2>3. PrintedSoFar /\ asked = ClusterSector(volume, chain[1])
    BY <1>2, <2>1 DEF OnTheWay
  <2>4. /\ chain' \in Seq(Links) /\ Len(chain') = Len(chain) - 1 /\ Len(chain) >= 1
        /\ \A i \in 1 .. Len(chain') : chain'[i] = chain[i + 1]
    BY <1>3, <2>1, <2>2, HeadTailProperties, LenProperties
  <2>5. /\ Len(printed) \in Nat /\ Len(printed') = Len(printed) + 1
        /\ \A i \in 1 .. Len(printed) : printed'[i] = printed[i]
        /\ printed'[Len(printed) + 1] = result
    BY <1>3, <2>1, AppendProperties, LenProperties
  <2>6. PrintedSoFar'
    <3> DEFINE clusters == ChainOf(volume, location)
    <3>1. /\ Len(printed) + Len(chain) = Len(clusters)
          /\ \A i \in 1 .. Len(chain) : chain[i] = clusters[Len(printed) + i]
          /\ \A i \in 1 .. Len(printed) : printed[i] = volume[ClusterSector(volume, clusters[i])]
      BY <2>3 DEF PrintedSoFar
    <3> HIDE DEF clusters
    <3>2. Len(printed') + Len(chain') = Len(clusters)
      <4>1. \A p, c \in Nat : (p + 1) + (c - 1) = p + c
        OBVIOUS
      <4> QED
        BY <1>3, <2>4, <2>5, <3>1, <4>1
    <3>3. ASSUME NEW i \in 1 .. Len(chain')
          PROVE  chain'[i] = clusters[Len(printed') + i]
      <4>1. i + 1 \in 1 .. Len(chain) /\ Len(printed) + (i + 1) = Len(printed') + i
        BY <1>3, <2>4, <2>5
      <4> QED
        BY <2>4, <3>1, <4>1
    <3>4. ASSUME NEW i \in 1 .. Len(printed')
          PROVE  printed'[i] = volume[ClusterSector(volume, clusters[i])]
      <4>1. CASE i \in 1 .. Len(printed)
        BY <2>5, <3>1, <4>1
      <4>2. CASE i = Len(printed) + 1
        <5>1. chain[1] = clusters[Len(printed) + 1]
          BY <1>3, <2>4, <3>1
        <5> QED
          BY <2>1, <2>3, <2>5, <4>2, <5>1
      <4> QED
        BY <2>5, <4>1, <4>2
    <3> QED
      BY <1>2, <1>4, <3>2, <3>3, <3>4 DEF PrintedSoFar, clusters
  <2> DEFINE rest == chain'
  <2>7. rest \in Seq(Links) /\ PrintNext(rest) /\ chain' = rest
    BY <2>1, <2>4
  <2> HIDE DEF rest
  <2> QED
    BY <1>2, <1>3, <1>4, <2>2, <2>6, <2>7, PrintsOn
<1> QED
  BY <1>5, <1>6, <1>7

\* The directory that was read, and what the volume has below it.
LEMMA DirectoryGoesOn ==
  ASSUME ReadInv, Regular', FolderFound \/ FolderNotFound \/ List \/ FileFound \/ FileNotFound
  PROVE  OnTheWay'
<1>1. GoesOn
  BY DEF GoesOn, FileSystem
<1>2. /\ OnTheWay /\ Regular /\ PathType /\ PlainVolume(volume)
      /\ volume' = volume /\ dir' = dir
      /\ header_info' = header_info
      /\ \A point : Returned(point) => result = volume[asked]
  BY <1>1, InTheCourse
<1>3. /\ Returned("directory") /\ fs = "directory" /\ cmd # "print"
      /\ asked = AtSector /\ result = volume[asked] /\ asked \in Sector
      /\ listing = << >> /\ printed = << >>
  <2>1. Returned("directory")
    BY DEF FolderFound, FolderNotFound, List, FileFound, FileNotFound
  <2> QED
    BY <1>2, <2>1 DEF Returned, OnTheWay, ReadInv, FileInv, DeviceType, AtaTypeOK
<1> DEFINE at == SectorsOnPath(volume, dir)
<1>4. /\ Len(dir) \in Nat /\ Len(path) \in Nat /\ Looked \in 0 .. Len(dir)
      /\ asked = at[Looked]
      /\ \A i \in 1 .. Len(path) : path[i] = dir[Looked + i]
      /\ path = << >> => Looked = Len(dir)
      /\ path # << >> => Looked + 1 \in 1 .. Len(dir) /\ Head(path) = dir[Looked + 1]
  <2>1. /\ Len(dir) \in Nat /\ Len(path) \in Nat /\ Len(path) <= Len(dir)
        /\ Looked \in 0 .. Len(dir)
        /\ \A i \in 1 .. Len(path) : path[i] = dir[Looked + i]
    BY <1>2, LenProperties DEF PathType, Looked
  <2>2. path # << >> => Len(path) >= 1 /\ Head(path) = path[1]
    BY <1>2, LenProperties, HeadTailProperties DEF PathType
  <2>3. path = << >> => Len(path) = 0
    OBVIOUS
  <2>4. asked = at[Looked]
    BY <1>3 DEF AtSector
  <2>5. /\ path = << >> => Looked = Len(dir)
        /\ path # << >> => Looked + 1 \in 1 .. Len(dir)
    BY <2>1, <2>2, <2>3 DEF Looked
  <2>6. path # << >> => Head(path) = dir[Looked + 1]
    <3>1. path # << >> => 1 \in 1 .. Len(path)
      BY <2>1, <2>2
    <3> QED
      BY <2>1, <2>2, <3>1
  <2> QED
    BY <2>1, <2>4, <2>5, <2>6
<1>5. volume[asked].kind = "directory"
  <2>1. asked # NoSector
    BY <1>3, AtaAssumption DEF NoSector
  <2> QED
    BY <1>2, <1>4, <2>1 DEF Regular, Strays, OnlyFolders
<1>6. ASSUME NEW entries \in ReadEntries
      PROVE  /\ Lists(entries, EntriesAt(volume, asked))
             /\ \A name :
                  /\ IsFound(name, entries) <=> Named(EntriesAt(volume, asked), name) # {}
                  /\ IsFound(name, entries) =>
                       Found(name, entries).location
                         = ClusterOf(Named(EntriesAt(volume, asked), name))
  BY <1>2, <1>3, <1>5, DirectoryRead
<1>7. path = << >> => EntriesOfPath(volume, dir) = EntriesAt(volume, asked)
  BY <1>4 DEF EntriesOfPath
<1>8. cmd = "cat" => dir = CatPath
  BY <1>2 DEF PathType
<1>9. \A name : Named(EntriesAt(volume, asked), name) # {} =>
                  ClusterOf(Named(EntriesAt(volume, asked), name)) \in Used
  BY <1>2, <1>3, NamedOnVolume
<1>10. ASSUME NEW cluster, WalkSectors(cluster)
       PROVE  fs' = "table" /\ asked' = header_info'.reserved /\ location' = cluster
  BY <1>2, <1>10 DEF WalkSectors, Read, StartRead
<1>11. CASE FolderFound
  <2>1. PICK entries \in ReadEntries :
               IsFound(Head(path), entries) /\ WalkSectors(Found(Head(path), entries).location)
    BY <1>11 DEF FolderFound
  <2> DEFINE here == Named(EntriesAt(volume, asked), Head(path))
  <2>2. here # {} /\ location' = ClusterOf(here) /\ location' \in Used
    BY <1>6, <1>9, <1>10, <2>1
  <2>3. at[Looked + 1] = ClusterSector(volume, location')
    <3>1. at[Looked + 1] = SectorBelow(volume, at[Looked + 1 - 1], dir[Looked + 1])
      BY <1>2, <1>4, <1>11, PathIsDefined DEF FolderFound
    <3>2. Looked + 1 - 1 = Looked
      BY <1>4
    <3>3. here = Named(EntriesAt(volume, at[Looked + 1 - 1]), dir[Looked + 1])
      BY <1>4, <1>11, <3>2 DEF FolderFound
    <3>4. location' # 0
      <4> DEFINE Here(n) == Named(EntriesAt(volume, at[n - 1]), dir[n])
      <4>1. ~\E n \in 1 .. Len(dir) : Here(n) # {} /\ ClusterOf(Here(n)) = 0
        BY <1>2 DEF Regular, Strays, BackToRoot
      <4>2. Looked + 1 \in 1 .. Len(dir) /\ here = Here(Looked + 1)
        BY <1>4, <1>11, <3>3 DEF FolderFound
      <4> HIDE DEF Here, here
      <4> QED
        BY <2>2, <4>1, <4>2
    <3> QED
      BY <2>2, <3>1, <3>3, <3>4 DEF SectorBelow, FolderAt
  <2>4. Looked' = Looked + 1 /\ UNCHANGED <<cmd, listing, printed>>
    <3>1. path' = Tail(path) /\ path # << >> /\ path \in Seq(ToSet(dir))
      BY <1>2, <1>11 DEF FolderFound, PathType
    <3>2. Len(path') = Len(path) - 1
      BY <3>1, HeadTailProperties
    <3> QED
      BY <1>2, <1>4, <1>11, <3>2 DEF Looked, FolderFound
  <2>5. WalkedFor'
    BY <1>2, <1>3, <2>2, <2>3, <2>4 DEF WalkedFor, AtSector
  <2> QED
    BY <1>3, <1>10, <2>1, <2>4, <2>5 DEF OnTheWay
<1>12. CASE FileFound
  <2>1. PICK entries \in ReadEntries :
               IsFound(CatFile, entries) /\ WalkSectors(Found(CatFile, entries).location)
    BY <1>12 DEF FileFound, HasFile
  <2>2. FileHere = Named(EntriesAt(volume, asked), CatFile)
    BY <1>7, <1>8, <1>12 DEF FileHere, FilesHere, FileFound
  <2>3. FileHere # {} /\ location' = ClusterOf(FileHere) /\ location' \in Used
    BY <1>6, <1>9, <1>10, <2>1, <2>2
  <2>4. cmd' = "print" /\ UNCHANGED <<listing, printed>>
    BY <1>12 DEF FileFound
  <2>5. WalkedFor'
    BY <1>2, <2>3, <2>4 DEF WalkedFor, FileHere
  <2> QED
    BY <1>3, <1>10, <2>1, <2>4, <2>5 DEF OnTheWay
<1>13. CASE List
  <2>1. listing' \in ReadEntries
    BY <1>13 DEF List
  <2>2. path = << >> /\ cmd' = "ls" /\ fs' = "shell"
    BY <1>13 DEF List, Shell
  <2>3. Lists(listing', EntriesOfPath(volume, dir))
    BY <1>6, <1>7, <2>1, <2>2
  <2>4. AllListed'
    <3> DEFINE R == EntriesOfPath(volume, dir)
    <3>1. listing' \in Seq(R) /\ R = {listing'[i] : i \in 1 .. Len(listing')}
          /\ Len(listing') = Cardinality(R) /\ DOMAIN listing' = 1 .. Len(listing')
      BY <2>3, LenProperties DEF Lists
    <3> QED
      BY <1>2, <3>1 DEF AllListed, ToSet
  <2> QED
    BY <2>2, <2>4 DEF OnTheWay, CommandDone
<1>14. CASE FolderNotFound
  <2>1. Named(EntriesAt(volume, asked), Head(path)) = {} /\ path # << >>
    BY <1>6, <1>14 DEF FolderNotFound
  <2>2. at[Looked + 1] = NoSector
    <3>1. at[Looked + 1] = SectorBelow(volume, at[Looked + 1 - 1], dir[Looked + 1])
      BY <1>2, <1>4, <2>1, PathIsDefined
    <3>2. Looked + 1 - 1 = Looked
      BY <1>4
    <3> QED
      BY <1>4, <2>1, <3>1, <3>2 DEF SectorBelow
  <2>3. EntriesOfPath(volume, dir) = {}
    BY <1>2, <1>4, <2>1, <2>2, NothingBelow
  <2>4. fs' = "shell" /\ UNCHANGED <<cmd, listing, printed>> /\ cmd \in {"ls", "cat"}
    BY <1>2, <1>3, <1>14
    DEF FolderNotFound, Shell, fileVars, Regular, ReadInv, FileInv, FileType
  <2>5. AllListed'
    BY <1>2, <1>3, <2>3, <2>4, FS_EmptySet DEF AllListed, ToSet
  <2>6. cmd = "cat" => TextOfFile(volume) = << >>
    BY <1>8, <2>3 DEF TextOfFile, FilesHere, Named
  <2> QED
    BY <1>2, <1>3, <2>4, <2>5, <2>6 DEF OnTheWay, CommandDone
<1>15. CASE FileNotFound
  <2>1. PICK entries \in ReadEntries : ~HasFile(entries)
    BY <1>15 DEF FileNotFound
  <2> DEFINE here == Named(EntriesAt(volume, asked), CatFile)
  <2>4. path = << >> /\ cmd = "cat"
    BY <1>15 DEF FileNotFound
  <2>5. here = {}
    <3>1. here # {} => ClusterOf(here) # NoFile
      BY <1>9, Numbers DEF Used, Links, NoFile
    <3> QED
      BY <1>6, <2>1, <3>1 DEF HasFile
  <2>2. fs' = "shell" /\ UNCHANGED <<cmd, printed>>
    BY <1>15 DEF FileNotFound, Shell, fileVars
  <2>3. TextOfFile(volume) = << >>
    BY <1>7, <1>8, <2>4, <2>5 DEF TextOfFile, FilesHere
  <2> QED
    BY <1>2, <1>3, <2>2, <2>3, <2>4 DEF OnTheWay, CommandDone
<1> QED
  BY <1>11, <1>12, <1>13, <1>14, <1>15

\* A command begins at the root directory.
LEMMA CommandBegins ==
  ASSUME ReadInv, Regular', NEW c \in {"ls", "cat"}, NEW tokens \in Paths \cup {CatPath},
         c = "cat" => tokens = CatPath, ReadDirectory(c, tokens), [Next]_vars
  PROVE  OnTheWay'
<1>1. /\ dir' = tokens /\ cmd' = c /\ fs' = "directory" /\ asked' = RootSector
      /\ listing' = << >> /\ printed' = << >>
      /\ path' = IF tokens \in ShortPaths THEN << >> ELSE tokens
  BY DEF ReadDirectory, Read, StartRead
<1>2. tokens \notin ShortPaths
  BY <1>1, Fat16Assumption DEF Regular
<1>3. tokens \in Seq(ToSet(tokens)) /\ Len(tokens) \in Nat
  BY Fat16Assumption, LenProperties
<1>4. Looked' = 0
  BY <1>1, <1>2, <1>3 DEF Looked
<1>5. VolumeOpened' /\ FileInv' /\ Regular'
  BY OpenedKeeps, WhatStays DEF ReadInv, CommandInv
<1>6. PlainVolume(volume')
  BY <1>5 DEF VolumeOpened, FileInv, HeaderKnown, DeviceType, Regular, PlainVolume
<1>7. SectorsOnPath(volume', tokens)[0] = RootSector
  <2> DEFINE v == volume'
  <2>1. PlainVolume(v)
    BY <1>6
  <2> HIDE DEF v
  <2>2. SectorsOnPath(v, tokens)[0] = RootSector
    BY <1>3, <2>1, PathIsDefined
  <2> QED
    BY <2>2 DEF v
<1>8. asked' = AtSector'
  BY <1>1, <1>4, <1>7 DEF AtSector
<1> QED
  BY <1>1, <1>8 DEF OnTheWay

\* The invariant of the commands.
THEOREM CommandInvariance == Spec => []CommandInv
<1>1. Init => CommandInv
  <2> SUFFICES ASSUME Init PROVE CommandInv
    OBVIOUS
  <2>1. << >> \in Seq(ToSet(<< >>)) /\ << >> \in Seq(Seen) /\ Len(<< >>) = 0
    OBVIOUS
  <2> QED
    BY <2>1 DEF Init, AtaInit, CommandInv, VolumeOpened, PathType, Regular
<1>2. ReadInv /\ [Next]_vars => CommandInv'
  <2> SUFFICES ASSUME ReadInv, [Next]_vars PROVE CommandInv'
    OBVIOUS
  <2>1. VolumeOpened' /\ PathType'
    BY OpenedKeeps, PathKeeps DEF ReadInv, CommandInv
  <2>2. ASSUME Regular' PROVE OnTheWay'
    <3>1. CASE \E tokens \in Paths : ReadDirectory("ls", tokens)
      BY <2>2, <3>1, CommandBegins
    <3>2. CASE ReadDirectory("cat", CatPath)
      BY <2>2, <3>2, CommandBegins
    <3>3. CASE OpenReads \/ OpenRefuses \/ OpenAccepts \/ Mount
      <4>1. PathType /\ PathType' /\ cmd' = cmd /\ cmd' # "none"
        BY <2>1, <2>2, <3>3
        DEF OpenReads, OpenRefuses, OpenAccepts, Mount, fileVars, Regular, ReadInv, CommandInv
      <4>2. fs \in {"boot", "open", "mount"}
        BY <3>3 DEF OpenReads, OpenRefuses, OpenAccepts, Mount, Returned
      <4> QED
        BY <4>1, <4>2 DEF PathType
    <3> QED
      BY <2>2, <3>1, <3>2, <3>3, DiskGoesOn, NoFaultOnTheWay, WalkGoesOn, SectorsGoOn, DirectoryGoesOn
      DEF Next, FileSystem
  <2> QED
    BY <2>1, <2>2 DEF CommandInv
<1> QED
  BY <1>1, <1>2, AtaInvariance, FileInvariance, PTL DEF Spec, ReadInv

\* What a command on a plain volume that was not kept waiting has shown.
LEMMA ShownInTheEnd ==
  ASSUME CommandInv, FileInv, Undisturbed, cmd # "none", ~Strays(volume, dir),
         cmd = "ls" => dir \notin ShortPaths
  PROVE  CommandDone
BY DEF Undisturbed, CommandInv, Regular, OnTheWay

\* A command runs into an exception on a plain volume that was opened only when
\* one of its reads gave up or when its path leaves the directories: any other
\* finds a first cluster for every folder of its path, and divides by a sector
\* size that is not zero, whatever the commands before it have met.
THEOREM NoExceptions == Spec => []NoFaultOnceMounted
<1>1. FileInv => TypeOK
  BY LenProperties
  DEF FileInv, DeviceType, FileType, TypeOK, ClusterNumbers, Clusters
<1>2. ASSUME FileInv, CommandInv, mounted, Plain(volume), fs = "fault"
      PROVE  slow \/ Strays(volume, dir)
  <2>1. cmd # "none" /\ ~(cmd = "ls" /\ dir \in ShortPaths)
    BY <1>2 DEF CommandInv, PathType
  <2>2. ~Regular
    BY <1>2 DEF CommandInv, OnTheWay
  <2> QED
    BY <1>2, <2>1, <2>2 DEF Regular
<1>3. FileInv /\ CommandInv => NoFaultOnceMounted
  BY <1>1, <1>2 DEF NoFaultOnceMounted
<1> QED
  BY <1>3, FileInvariance, CommandInvariance, PTL

\* FAT16::readDirectory shows ls every file and folder of the directory once,
\* under its long name if it has one, with the cluster it begins in: for every
\* volume of the kind that the code is written for, and however long the path.
THEOREM ListsWhatIsThere == Spec => []LsListsTheDirectory
<1>1. FileInv /\ CommandInv => LsListsTheDirectory
  BY ShownInTheEnd DEF LsListsTheDirectory, CommandDone, AllListed
<1> QED
  BY <1>1, FileInvariance, CommandInvariance, PTL

\* cat prints the sectors of the file's chain, all of them and in order, and
\* nothing if there is no such file.
THEOREM PrintsTheFile == Spec => []CatPrintsTheFile
<1>1. FileInv /\ CommandInv => CatPrintsTheFile
  BY ShownInTheEnd DEF CatPrintsTheFile, CommandDone, CommandInv, PathType
<1> QED
  BY <1>1, FileInvariance, CommandInvariance, PTL

=============================================================================
