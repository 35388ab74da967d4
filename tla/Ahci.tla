-------------------------------- MODULE Ahci --------------------------------
(***************************************************************************)
(* The SATA driver and the block layer above it: src/src/platform/ahci.c   *)
(* and src/src/block/block.c, with the host bus adapter they poll.  One    *)
(* CPU runs the boot scan of the ports and then serves one block_read at a *)
(* time; the adapter works on its own, and the only clock is the interrupt *)
(* of the timer.                                                           *)
(*                                                                         *)
(* The registers of a port are the record hba[p]: the bits of PxCMD, PxTFD,*)
(* PxIS and PxCI the driver uses for its only slot, 0, and the adapter's   *)
(* own phase and fetched command.  The adapter is external: its actions    *)
(* are what the driver's polling relies on, and it owes no progress.       *)
(***************************************************************************)
EXTENDS Integers, Sequences

CONSTANTS PortCount,      \* ports the controller implements
          LinkUp,         \* ports with det = 3 and ipm = 1
          SataDrives,     \* ports whose signature is AHCI_SATA_DRIVE
          Lba48,          \* drives whose IDENTIFY data announce LBA48
          SectorCount,    \* capacity of a drive
          MaxSectors,     \* max_sectors: capacity of the DMA buffer, 1024 of 512 bytes
          Lba28Limit,     \* what the 8-bit sector count of READ DMA counts to, 256
          TimerRuns,      \* a tick may unmask IRQ 0 again; FALSE in the build
          Timeout,        \* ticks until a deadline
          Lbas, Counts,   \* the requests callers make
          U64             \* 2^64

Ports == 1 .. PortCount

ASSUME AhciAssumption ==
  /\ PortCount \in Nat \ {0} /\ SataDrives \subseteq LinkUp /\ LinkUp \subseteq Ports
  /\ Lba48 \subseteq SataDrives
  /\ SectorCount \in Nat \ {0} /\ MaxSectors \in Nat \ {0} /\ Lba28Limit \in Nat \ {0}
  /\ TimerRuns \in BOOLEAN /\ Timeout \in Nat \ {0, 1}
  /\ U64 \in Nat \ {0} /\ Lbas \subseteq 0 .. U64 - 1 /\ Counts \subseteq 0 .. U64 - 1

VARIABLES pc,             \* where the CPU is in init_ahci or block_read
          port,           \* the port it works on
          op,             \* "identify" or "read": who called ahci_submit_command
          bios,           \* BOHC: the firmware still owns the controller
          hba,            \* the registers of each port
          table,          \* command header and table in memory
          buffer,         \* DMA buffer in memory, one entry per sector
          held,           \* pages the driver has taken for a port
          ready,          \* devices on sata_list
          registered,     \* block_devices, by bdev
          req, got,       \* the request being served, the caller's buffer
          result,         \* what the last block_read returned
          waited,         \* ticks since the current deadline was set
          irq0Open,       \* IRQ 0 is unmasked
          overlap         \* history: this request set up a command while slot 0 was in use

cpu    == <<pc, port, op>>
memory == <<table, buffer, held>>
disks  == <<ready, registered>>
call   == <<req, got, result>>
clock  == <<waited, irq0Open>>
vars   == <<cpu, bios, hba, memory, disks, call, clock, overlap>>

NoCommand == [lba |-> 0, count |-> 0]
Identify  == [lba |-> U64, count |-> 1]
Junk      == U64 + 1

Init ==
  /\ pc = "handoff" /\ port = 1 /\ op = "identify"
  /\ bios \in BOOLEAN
  /\ \E engine, busy \in BOOLEAN :
       hba = [p \in Ports |-> [st |-> engine, fre |-> engine, engine |-> engine, busy |-> busy,
                               err |-> FALSE, tfes |-> FALSE, ci |-> FALSE,
                               phase |-> "idle", cmd |-> NoCommand]]
  /\ table  = [p \in Ports |-> NoCommand]
  /\ buffer = [p \in Ports |-> [i \in 1 .. MaxSectors |-> Junk]]
  /\ held   = [p \in Ports |-> {}]
  /\ ready = {} /\ registered = <<>>
  /\ req = NoCommand /\ got = <<>> /\ result = "none"
  /\ waited = 0 /\ irq0Open = TRUE
  /\ overlap = FALSE

Drives == {registered[i] : i \in DOMAIN registered}

-----------------------------------------------------------------------------
(* timer.c: timer_get_ms() >= deadline *)

TimedOut == waited >= Timeout

SetDeadline == waited' = 0 /\ UNCHANGED irq0Open

\* The timer interrupt: the handler counts, and irq_global_handler leaves
\* IRQ 0 masked.  That it may be unmasked is the clock the driver is written
\* for and the build does not have.
Tick ==
  /\ irq0Open
  /\ irq0Open' \in {FALSE, TimerRuns}
  /\ waited' = IF waited < Timeout THEN waited + 1 ELSE waited
  /\ UNCHANGED <<cpu, bios, hba, memory, disks, call, overlap>>

-----------------------------------------------------------------------------
(* The adapter (external). *)

Others == UNCHANGED <<cpu, bios, table, held, disks, call, clock, overlap>>

FirmwareLetsGo ==
  /\ bios /\ bios' = FALSE
  /\ UNCHANGED <<cpu, hba, memory, disks, call, clock, overlap>>

EngineFollows(p) ==
  /\ hba[p].engine # hba[p].st
  /\ hba' = [hba EXCEPT ![p].engine = hba[p].st]
  /\ Others /\ UNCHANGED buffer

DriveSpunUp(p) ==
  /\ hba[p].busy /\ hba[p].phase = "idle"
  /\ hba' = [hba EXCEPT ![p].busy = FALSE]
  /\ Others /\ UNCHANGED buffer

\* The command is read from memory as it is now.
Fetch(p) ==
  /\ hba[p].engine /\ hba[p].st /\ hba[p].ci /\ ~ hba[p].busy /\ hba[p].phase = "idle"
  /\ hba' = [hba EXCEPT ![p].phase = "fetched", ![p].busy = TRUE, ![p].cmd = table[p]]
  /\ Others /\ UNCHANGED buffer

\* DMA of the sectors that exist into the front of the buffer.
Transfer(p) ==
  LET c == hba[p].cmd
  IN  /\ hba[p].phase = "fetched"
      /\ c = Identify \/ c.lba + c.count <= SectorCount
      /\ buffer' = [buffer EXCEPT ![p] =
                     [i \in 1 .. MaxSectors |-> IF i <= c.count THEN c.lba + i - 1 ELSE @[i]]]
      /\ hba' = [hba EXCEPT ![p].phase = "moved"]
      /\ Others

\* The final status is posted before the slot is cleared.
PostStatus(p) ==
  /\ hba[p].phase = "moved"
  /\ hba' = [hba EXCEPT ![p].phase = "posted", ![p].busy = FALSE, ![p].err = FALSE]
  /\ Others /\ UNCHANGED buffer

ClearSlot(p) ==
  /\ hba[p].phase = "posted"
  /\ hba' = [hba EXCEPT ![p].phase = "idle", ![p].ci = FALSE]
  /\ Others /\ UNCHANGED buffer

\* A task file error; most adapters halt with the slot still set, some clear it.
PostError(p) ==
  /\ hba[p].phase \in {"fetched", "moved"}
  /\ \E halts \in BOOLEAN :
       hba' = [hba EXCEPT ![p].phase = IF halts THEN "halted" ELSE "idle", ![p].ci = halts,
                          ![p].busy = FALSE, ![p].err = TRUE, ![p].tfes = TRUE]
  /\ Others /\ UNCHANGED buffer

Adapter(p) == \/ EngineFollows(p) \/ DriveSpunUp(p) \/ Fetch(p) \/ Transfer(p)
              \/ PostStatus(p) \/ ClearSlot(p) \/ PostError(p)

-----------------------------------------------------------------------------
(* block.c *)

Valid(lba, count) == (lba + count) % U64 <= SectorCount

\* block_register: a device of no sectors is refused, and so is a name that
\* is in use; the comparison of names is strcmp, an assertion that fails.
RegisterPanics == registered # <<>>

-----------------------------------------------------------------------------
(* init_ahci and ahci_init_sata_device *)

HandoffDone ==
  /\ pc = "handoff" /\ (~ bios \/ TimedOut)
  /\ pc' = "scan"
  /\ UNCHANGED <<port, op, bios, hba, memory, disks, call, clock, overlap>>

\* (mutant) The port goes on receiving.
StoppedHalf(p) == [hba EXCEPT ![p].st = FALSE]

\* The registers after ahci_port_stop has cleared ST and FRE.
Stopped(p) == [hba EXCEPT ![p].st = FALSE, ![p].fre = FALSE]

\* The device is kmalloc'ed and ahci_port_stop begins.
ScanPort ==
  /\ pc = "scan" /\ port <= PortCount
  /\ IF port \in LinkUp
       THEN /\ pc' = "stop" /\ port' = port
            /\ hba' = Stopped(port)
            /\ SetDeadline
       ELSE /\ port' = port + 1
            /\ UNCHANGED <<pc, hba, clock>>
  /\ UNCHANGED <<op, bios, memory, disks, call, overlap>>

ScanDone ==
  /\ pc = "scan" /\ port > PortCount
  /\ pc' = "idle" /\ op' = "read"
  /\ UNCHANGED <<port, bios, hba, memory, disks, call, clock, overlap>>

\* init_ahci frees the sata_device and goes on; pages it had taken and the
\* state of the port stay as they are.
InitFails == pc' = "scan" /\ port' = port + 1 /\ UNCHANGED op

StopEnds ==
  /\ pc = "stop"
  /\ \/ ~ hba[port].engine /\ pc' = "alloc" /\ UNCHANGED <<port, op>>
     \/ hba[port].engine /\ TimedOut /\ InitFails
  /\ UNCHANGED <<bios, hba, memory, disks, call, clock, overlap>>

\* ahci_port_alloc_buffers, then the start of ahci_port_start.
AllocBuffers ==
  /\ pc = "alloc"
  /\ \/ /\ InitFails
        /\ UNCHANGED <<held, hba, clock>>
     \/ /\ held' = [held EXCEPT ![port] = {"clb", "fb"}]
        /\ hba' = [hba EXCEPT ![port].fre = TRUE, ![port].tfes = FALSE]
        /\ pc' = "start" /\ UNCHANGED <<port, op>>
        /\ SetDeadline
  /\ UNCHANGED <<bios, table, buffer, disks, call, overlap>>

StartEnds ==
  /\ pc = "start"
  /\ \/ /\ ~ hba[port].busy
        /\ hba' = [hba EXCEPT ![port].st = TRUE]
        /\ pc' = "tables" /\ UNCHANGED <<port, op>>
     \/ hba[port].busy /\ TimedOut /\ InitFails /\ UNCHANGED hba
  /\ UNCHANGED <<bios, memory, disks, call, clock, overlap>>

\* With both pages there, ahci_fetch_device_geometry writes its command.
AllocTables ==
  /\ pc = "tables"
  /\ \/ InitFails /\ UNCHANGED <<held, table>>
     \/ /\ held' = [held EXCEPT ![port] = @ \cup {"table", "buffer"}]
        /\ table' = [table EXCEPT ![port] = Identify]
        /\ pc' = "submit" /\ UNCHANGED <<port, op>>
  /\ UNCHANGED <<bios, hba, buffer, disks, call, clock, overlap>>

\* IDENTIFY has ended well.
Identified ==
  IF port \in SataDrives /\ RegisterPanics
    THEN /\ pc' = "panic"
         /\ UNCHANGED <<port, op, disks>>
    ELSE /\ registered' = IF port \in SataDrives THEN Append(registered, port) ELSE registered
         /\ ready' = ready \cup {port}
         /\ InitFails    \* on to the next port, as after a failure

-----------------------------------------------------------------------------
(* ahci_submit_command *)

Fails(e) ==
  IF op = "identify"
    THEN InitFails /\ UNCHANGED call
    ELSE /\ pc' = "idle" /\ result' = e
         /\ UNCHANGED <<port, op, req, got>>

\* SERR and IS are cleared.
Submit ==
  /\ pc = "submit"
  /\ hba' = [hba EXCEPT ![port].tfes = FALSE]
  /\ pc' = "submit_wait" /\ SetDeadline
  /\ UNCHANGED <<port, op, bios, memory, disks, call, overlap>>

SubmitWaitEnds ==
  /\ pc = "submit_wait"
  /\ \/ ~ hba[port].busy /\ pc' = "issue" /\ UNCHANGED <<port, op, call>>
     \/ hba[port].busy /\ TimedOut /\ Fails("ETIMEDOUT")
  /\ UNCHANGED <<bios, hba, memory, disks, clock, overlap>>

Issue ==
  /\ pc = "issue"
  /\ hba' = [hba EXCEPT ![port].ci = TRUE]
  /\ pc' = "poll_ci" /\ SetDeadline
  /\ UNCHANGED <<port, op, bios, memory, disks, call, overlap>>

\* The loop reads PxCI, PxIS and the clock one after the other.
PollSlot ==
  /\ pc = "poll_ci"
  /\ pc' = IF hba[port].ci THEN "poll_is" ELSE "check"
  /\ UNCHANGED <<port, op, bios, hba, memory, disks, call, clock, overlap>>

PollError ==
  /\ pc = "poll_is"
  /\ \/ ~ hba[port].tfes /\ pc' = "poll_time" /\ UNCHANGED <<port, op, call>>
     \/ hba[port].tfes /\ Fails("EIO")
  /\ UNCHANGED <<bios, hba, memory, disks, clock, overlap>>

\* (mutant) The deadline is not looked at.
PollForever ==
  /\ pc = "poll_time" /\ pc' = "poll_ci"
  /\ UNCHANGED <<port, op, call, bios, hba, memory, disks, clock, overlap>>

PollClock ==
  /\ pc = "poll_time"
  /\ \/ ~ TimedOut /\ pc' = "poll_ci" /\ UNCHANGED <<port, op, call>>
     \/ TimedOut /\ Fails("ETIMEDOUT")
  /\ UNCHANGED <<bios, hba, memory, disks, clock, overlap>>

\* The slot is clear: PxTFD.ERR decides.
CheckError ==
  /\ pc = "check" /\ hba[port].err
  /\ Fails("EIO")
  /\ UNCHANGED <<bios, hba, memory, disks, clock, overlap>>

\* (mutant) The error bit is not looked at.
IdentifyEndsAnyhow ==
  /\ pc = "check" /\ op = "identify"
  /\ Identified
  /\ UNCHANGED <<bios, hba, memory, call, clock, overlap>>

IdentifyEnds ==
  /\ pc = "check" /\ ~ hba[port].err /\ op = "identify"
  /\ Identified
  /\ UNCHANGED <<bios, hba, memory, call, clock, overlap>>

-----------------------------------------------------------------------------
(* block_read and sata_block_read *)

ReadRefused(lba, count) ==
  /\ pc = "idle"
  /\ count = 0 \/ ~ Valid(lba, count)
  /\ result' = IF count = 0 THEN "ok" ELSE "EINVAL"
  /\ req' = [lba |-> lba, count |-> count] /\ got' = <<>>
  /\ UNCHANGED <<cpu, bios, hba, memory, disks, clock, overlap>>

ReadCall(p, lba, count) ==
  /\ pc = "idle" /\ count # 0 /\ Valid(lba, count)
  /\ port' = p /\ pc' = "read_wait" /\ UNCHANGED op
  /\ req' = [lba |-> lba, count |-> count] /\ got' = <<>> /\ result' = "none"
  /\ SetDeadline
  /\ overlap' = FALSE
  /\ UNCHANGED <<bios, hba, memory, disks>>

ReadWaitEnds ==
  /\ pc = "read_wait"
  /\ \/ ~ hba[port].busy /\ pc' = "setup" /\ UNCHANGED <<port, op, call>>
     \/ hba[port].busy /\ TimedOut /\ Fails("ETIMEDOUT")
  /\ UNCHANGED <<bios, hba, memory, disks, clock, overlap>>

Chunk == IF req.count - Len(got) > MaxSectors THEN MaxSectors ELSE req.count - Len(got)

\* What the sector count of the command says: READ DMA keeps its low byte,
\* and zero stands for the limit.
EncodedCount(p, n) ==
  IF p \in Lba48 THEN n
  ELSE IF n % Lba28Limit = 0 THEN Lba28Limit ELSE n % Lba28Limit

\* (mutant) Every chunk starts where the request does.
ChunkLbaFixed == req.lba

ChunkLba == (req.lba + Len(got)) % U64

SetupChunk ==
  /\ pc = "setup"
  /\ table' = [table EXCEPT ![port] = [lba   |-> ChunkLba,
                                       count |-> EncodedCount(port, Chunk)]]
  /\ overlap' = (overlap \/ hba[port].ci)
  /\ pc' = "submit"
  /\ UNCHANGED <<port, op, bios, hba, buffer, held, disks, call, clock>>

\* The chunk is copied out of the DMA buffer; got is the caller's buffer.
ChunkEnds ==
  /\ pc = "check" /\ ~ hba[port].err /\ op = "read"
  /\ got' = got \o SubSeq(buffer[port], 1, Chunk)
  /\ IF Len(got) + Chunk = req.count
       THEN pc' = "idle" /\ result' = "ok"
       ELSE pc' = "setup" /\ UNCHANGED result
  /\ UNCHANGED <<port, op, bios, hba, memory, disks, req, clock, overlap>>

\* block_write and block_flush.  The driver's handlers are empty: nothing
\* reaches the disk, and what they return is whatever the caller finds.
WriteCall(lba, count) ==
  /\ pc = "idle"
  /\ \E r \in {"ok", "EIO"} :
       result' = IF count = 0 THEN "ok" ELSE IF ~ Valid(lba, count) THEN "EINVAL" ELSE r
  /\ req' = NoCommand /\ got' = <<>>
  /\ UNCHANGED <<cpu, bios, hba, memory, disks, clock, overlap>>

FlushCall ==
  /\ pc = "idle"
  /\ result' \in {"ok", "EIO"}
  /\ req' = NoCommand /\ got' = <<>>
  /\ UNCHANGED <<cpu, bios, hba, memory, disks, clock, overlap>>

Driver ==
  \/ HandoffDone \/ ScanPort \/ ScanDone \/ StopEnds \/ AllocBuffers \/ StartEnds \/ AllocTables
  \/ Submit \/ SubmitWaitEnds \/ Issue \/ PollSlot \/ PollError \/ PollClock \/ CheckError
  \/ IdentifyEnds \/ ReadWaitEnds \/ SetupChunk \/ ChunkEnds

Call == \E p \in Drives :
          \/ \E lba \in Lbas, count \in Counts :
               ReadRefused(lba, count) \/ ReadCall(p, lba, count) \/ WriteCall(lba, count)
          \/ FlushCall

Next == Driver \/ Call \/ Tick \/ FirmwareLetsGo \/ \E p \in LinkUp : Adapter(p)

\* The CPU keeps running, and while its line is open the timer is counted.
Spec == Init /\ [][Next]_vars /\ WF_vars(Driver) /\ WF_waited(Tick)

-----------------------------------------------------------------------------
(* Correctness *)

\* The driver, not the firmware, has started the port.
TakenOver(p) ==
  op = "read" \/ p < port \/ (p = port /\ pc \notin {"handoff", "scan"})

\* The adapter is never left with memory the driver has given back, whichever
\* step of the initialisation failed: a port that may receive has its command
\* list and FIS page, a slot in use its table and buffer.
DmaMemoryIsHeld ==
  \A p \in LinkUp :
    /\ (hba[p].fre /\ TakenOver(p)) => {"clb", "fb"} \subseteq held[p]
    /\ hba[p].ci => {"table", "buffer"} \subseteq held[p]

\* A device on the list or in the registry has a running port, all its
\* memory, and a buffer its drive has answered IDENTIFY into.
PublishedOnlyReady ==
  \A p \in ready \cup Drives :
    /\ hba[p].st /\ held[p] = {"clb", "fb", "table", "buffer"}
    /\ buffer[p][1] # Junk

\* block_read answers 0 only after the sectors asked for are in the caller's
\* buffer in order, over chunks, errors, late answers and sums that wrap around; what is
\* excepted is the one request that set its command up while the slot still
\* held an abandoned one.
ReadsDeliver ==
  (pc = "idle" /\ result = "ok" /\ ~ overlap) =>
     got = [i \in 1 .. req.count |-> req.lba + i - 1]

\* As long as no tick leaves IRQ 0 masked, the boot scan and every request end,
\* whatever the drive does: the driver's side of docs/block-devices-plan.md:57,
\* "give every hardware wait a timeout".  The kernel does not keep its side: the
\* first tick leaves the line masked (idt.c:159), timer_ms stops, and no deadline
\* is reached again, so that a drive which never answers holds a request for ever.
RequestReturns ==
  []irq0Open => ((pc \notin {"idle", "panic"}) ~> (pc \in {"idle", "panic"}))
=============================================================================
