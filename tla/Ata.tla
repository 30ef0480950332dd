-------------------------------- MODULE Ata --------------------------------
(***************************************************************************)
(* kernel/drivers/ata.cpp: reading one sector by programmed I/O.  A read   *)
(* waits until the device is ready, writes the sector number into its      *)
(* registers and a command, waits for data and takes them.  wait() polls   *)
(* the status, sleeps in between and gives up after MaxTime + 1 sleeps; no *)
(* caller looks at its result, so the read then goes on all the same.      *)
(*                                                                         *)
(* The device (not part of the repository) takes its time over a reset or  *)
(* a command, and ignores its registers while it is busy.  Without a       *)
(* device the bus floats: every bit that is read is 1.                     *)
(***************************************************************************)
EXTENDS Naturals

CONSTANTS MaxTime,       \* 10: wait gives up when its counter exceeds it
          Byte,          \* values of a register of eight bits (256)
          Sector,        \* the numbers of the sectors
          Identity,      \* what the device answers to IDENTIFY
          Nothing        \* what is read from the data port of no device, or
                         \* of one that has no data

ASSUME AtaAssumption ==
  /\ MaxTime \in Nat
  /\ Byte \in Nat \ {0, 1}
  /\ Sector \subseteq 0 .. Byte * Byte * Byte - 1
  /\ Identity # Nothing

VARIABLES present,       \* there is a device
          volume,        \* what it stores: the content of each sector
          bsy, drq,      \* bits of its status
          job,           \* the command it works on: "none", "identify", "read"
          lba,           \* the sector number in its registers
          port,          \* what it has to offer at its data port
          ata,           \* where the driver is
          time,          \* the counter of wait
          asked,         \* the sector that read_u8 was called for
          result,        \* what read_u8 returned
          gaveUp         \* history: a wait of this read gave up

deviceVars == <<present, volume, bsy, drq, job, lba, port>>
driverVars == <<ata, time, asked, result, gaveUp>>
ataVars == <<deviceVars, driverVars>>

AtaInit(volumes) ==
  /\ present \in BOOLEAN
  /\ volume \in volumes
  /\ bsy = FALSE /\ drq = FALSE
  /\ job = "none"
  /\ lba = 0
  /\ port = Nothing
  /\ ata = "start"
  /\ time = 0
  /\ asked = 0
  /\ result = Nothing
  /\ gaveUp = FALSE

-----------------------------------------------------------------------------
(* The device *)

\* The reset is done, or the data of a command are there.
DeviceReady ==
  /\ present /\ bsy
  /\ bsy' = FALSE
  /\ drq' = (job # "none")
  /\ port' = CASE job = "none" -> port
               [] job = "identify" -> Identity
               [] job = "read" -> volume[lba]
  /\ job' = "none"
  /\ UNCHANGED <<present, volume, lba, driverVars>>

\* The driver writes the registers and the command.
Command(what, number) ==
  IF present /\ ~bsy
  THEN /\ bsy' = TRUE
       /\ drq' = FALSE
       /\ job' = what
       /\ lba' = number
       /\ UNCHANGED <<present, volume, port>>
  ELSE UNCHANGED deviceVars

\* What the driver gets if it reads a block now.
AtPort == IF present /\ drq THEN port ELSE Nothing

\* ... and the device after that.
PortEmptied == drq' = FALSE /\ UNCHANGED <<present, volume, bsy, job, lba, port>>

-----------------------------------------------------------------------------
(* The driver *)

\* What wait() waits for, in the status that inportb reads: BSY is clear and,
\* before a command, RDY is set (which a present device always has).
Ready == present /\ ~bsy
HasData == ~present \/ drq

WaitsFor == CASE ata \in {"reset", "ready"} -> Ready
              [] ata \in {"identify", "data"} -> HasData

Waiting == ata \in {"reset", "identify", "ready", "data"}

WaitOver == WaitsFor \/ time > MaxTime

\* A wait that does not count its sleeps.
SleepUncounted == Waiting /\ ~WaitOver /\ UNCHANGED ataVars

\* sleep(10); time++
WaitSleep ==
  /\ Waiting /\ ~WaitOver
  /\ time' = time + 1
  /\ UNCHANGED <<deviceVars, ata, asked, result, gaveUp>>

\* wait returns, and its caller goes on at "point".
WaitReturns(here, point) ==
  /\ ata = here /\ WaitOver
  /\ ata' = point
  /\ time' = 0
  /\ gaveUp' = (gaveUp \/ ~WaitsFor)

\* initialise(): nothing to do if the status is 0xFF, otherwise reset() ...
NoDevice ==
  /\ ata = "start" /\ ~present
  /\ ata' = "idle"
  /\ UNCHANGED <<deviceVars, time, asked, result, gaveUp>>

Reset ==
  /\ ata = "start" /\ present
  /\ ata' = "reset"
  /\ bsy' = TRUE
  /\ drq' = FALSE
  /\ job' = "none"
  /\ UNCHANGED <<present, volume, lba, port, time, asked, result, gaveUp>>

\* ... and the command IDENTIFY, whose answer is dropped.
Identify ==
  /\ WaitReturns("reset", "identify")
  /\ Command("identify", 0)
  /\ UNCHANGED <<asked, result>>

DropIdentity ==
  /\ WaitReturns("identify", "idle")
  /\ PortEmptied
  /\ UNCHANGED <<asked, result>>

\* read_u8(1, offset), up to the wait of prepare()
StartRead(offset) ==
  /\ ata \in {"idle", "done"}
  /\ ata' = "ready"
  /\ time' = 0
  /\ asked' = offset
  /\ gaveUp' = FALSE
  /\ UNCHANGED <<deviceVars, result>>

\* ATA_SECTOR, ATA_CYL_LO and ATA_CYL_HI get a byte of the sector number each,
\* and the device puts them together.
Address(offset) ==
  (offset % Byte) + Byte * ((offset \div Byte) % Byte)
    + Byte * Byte * ((offset \div (Byte * Byte)) % Byte)

\* A prepare() that does not wait.
PrepareAtOnce ==
  /\ ata = "ready"
  /\ ata' = "data"
  /\ time' = 0
  /\ Command("read", Address(asked))
  /\ UNCHANGED <<asked, result, gaveUp>>

\* prepare(): the registers and ATA_COMMAND_READ
Prepare ==
  /\ WaitReturns("ready", "data")
  /\ Command("read", Address(asked))
  /\ UNCHANGED <<asked, result>>

\* The block of 256 words, split into bytes.
ReadBlock ==
  /\ WaitReturns("data", "done")
  /\ result' = AtPort
  /\ PortEmptied
  /\ UNCHANGED asked

AtaStep == \/ WaitSleep \/ NoDevice \/ Reset \/ Identify \/ DropIdentity
           \/ Prepare \/ ReadBlock

-----------------------------------------------------------------------------
(* Properties *)

AtaTypeOK ==
  /\ present \in BOOLEAN /\ bsy \in BOOLEAN /\ drq \in BOOLEAN
  /\ job \in {"none", "identify", "read"}
  /\ lba \in Sector /\ asked \in Sector
  /\ ata \in {"start", "reset", "identify", "idle", "ready", "data", "done"}
  /\ time \in 0 .. MaxTime + 1
  /\ gaveUp \in BOOLEAN

\* A read that did not have to give up waiting returns the sector it was
\* called for, also after earlier reads that did give up and whose commands
\* the device has answered late or never seen.
ReadGetsItsSector == ata = "done" /\ ~gaveUp => result = volume[asked]
=============================================================================
