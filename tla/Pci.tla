-------------------------------- MODULE Pci --------------------------------
(***************************************************************************)
(* How the kernel finds its SATA controller: init_acpi                     *)
(* (platform/acpi.c), init_pci (platform/pcie.c) and the beginning of      *)
(* init_ahci (platform/ahci.c), up to where the module Ahci takes over.    *)
(*                                                                         *)
(* Configuration space is a window of memory.  Addresses are counted in    *)
(* blocks of 256 bytes: a function has 16 of them, of which the first is   *)
(* its header and the others hold extended capabilities; a device has 8    *)
(* functions and a bus 32 devices.  The machine is external and is the     *)
(* choice of PciInit.                                                      *)
(***************************************************************************)
EXTENDS Integers, Sequences, FiniteSets

CONSTANTS Tables,         \* sequences of tables the XSDT may list; an MCFG is the sequence
                          \* of its entries, any other table is NoTable
          NoTable,
          Slots,          \* places where a device may be: <<entry, bus, device>>
          Uppers,         \* its functions besides function 0
          ExtBlocks,      \* blocks of function 0 that may hold a capability, or zeros
          MaxDevices,     \* PCI_MAX_DEVICES, 32
          MaxFunctions,   \* PCI_MAX_FUNCTIONS, 8
          MaxRefused      \* bound: kmalloc calls that fail

PageBlocks == 16
DevBlocks  == 8 * PageBlocks
BusBlocks  == 32 * DevBlocks

ASSUME PciAssumption ==
  /\ MaxDevices \in 1 .. 32 /\ MaxFunctions \in 1 .. 8 /\ MaxRefused \in Nat
  /\ Uppers \subseteq 1 .. 7 /\ ExtBlocks \subseteq 1 .. PageBlocks - 1
  /\ Slots \subseteq Nat \X Nat \X (0 .. 31)
  /\ Tables \subseteq Seq(Seq([start : Nat, end : Nat]) \cup {NoTable})

VARIABLES class,          \* function present -> "ahci" or "other"
          caps,           \* <<function, block>> where extended space is not all ones
          xsdt, mcfg,     \* acpi_tables; the MCFG found, or NoTable
          stage, at,      \* where the CPU is; [entry, bus, dev, func] of the scan
          devices,        \* pci_devices: the first of the list first
          command,        \* function -> bits of its command register
          picked,         \* the entry of pci_devices init_ahci works on, or None
          controller,     \* what it points to: a function, "unset" or "garbage"
          refused,        \* kmalloc calls that have failed
          lost            \* history: entries that were not allocated

machine == <<class, caps, xsdt>>
pciVars == <<machine, mcfg, stage, at, devices, command, picked, controller, refused, lost>>

None   == <<>>
Header == 0

Functions == DOMAIN class

\* The functions of devices at the places zero, of which function 0 is one.
Present(zero, more) == UNION {{Append(s, f) : f \in more[s] \cup {0}} : s \in zero}

\* The extended space of a device holds capabilities, zeros (an Express device)
\* or reads as all ones (any other).
PciInit ==
  /\ \E zero \in SUBSET Slots : \E more \in [zero -> SUBSET Uppers] :
       /\ class \in [Present(zero, more) -> {"ahci", "other"}]
       /\ caps \in SUBSET {<<Append(s, 0), k>> : s \in zero, k \in ExtBlocks}
  /\ xsdt \in Tables
  /\ mcfg = NoTable
  /\ stage = "acpi" /\ at = [entry |-> 1, bus |-> 0, dev |-> 0, func |-> 0]
  /\ devices = <<>>
  /\ command = [f \in Functions |-> {}]
  /\ picked = None /\ controller = "unset"
  /\ refused = 0 /\ lost = {}

-----------------------------------------------------------------------------
(* The window of entry e (external): block n of it belongs to a function.  *)

FunctionAt(e, n) ==
  <<e, n \div BusBlocks, (n % BusBlocks) \div DevBlocks, (n % DevBlocks) \div PageBlocks>>

BlockOf(n) == n % PageBlocks

\* The vendor ID read there is not PCI_VENDOR_NO_DEVICE.
Answers(e, n) ==
  IF BlockOf(n) = Header THEN FunctionAt(e, n) \in Functions
  ELSE <<FunctionAt(e, n), BlockOf(n)>> \in caps

\* The three bytes of the class; that a capability has the same bytes there is
\* left out.
ReadsAhci(e, n) == BlockOf(n) = Header /\ class[FunctionAt(e, n)] = "ahci"

-----------------------------------------------------------------------------
(* platform/pcie.c *)

\* pci_ecam_reg; the function is shifted by 8, not by 12.
EcamReg(bus, dev, func) == bus * BusBlocks + dev * DevBlocks + func

\* The last of several MCFGs is kept.
IsMcfg(i) == xsdt[i] # NoTable

FindMcfg ==
  /\ stage = "acpi"
  /\ LET found == {i \in DOMAIN xsdt : IsMcfg(i)}
     IN  IF found = {}
           THEN stage' = "search" /\ UNCHANGED mcfg
           ELSE /\ mcfg' \in {xsdt[i] : i \in {i \in found : \A j \in found : j <= i}}
                /\ stage' = "entry"
  /\ UNCHANGED <<machine, at, devices, command, picked, controller, refused, lost>>

\* (mutant) The last bus of an entry is left out.
LastBusExclusive(e) == mcfg[e].end - 1

LastBus(e) == mcfg[e].end

\* An entry may have no bus at all.
StartEntry ==
  /\ stage = "entry"
  /\ \/ /\ at.entry <= Len(mcfg) /\ mcfg[at.entry].start <= LastBus(at.entry)
        /\ at' = [at EXCEPT !.bus = mcfg[at.entry].start, !.dev = 0, !.func = 0]
        /\ stage' = "probe"
     \/ /\ at.entry <= Len(mcfg) /\ mcfg[at.entry].start > LastBus(at.entry)
        /\ at' = [at EXCEPT !.entry = @ + 1]
        /\ UNCHANGED stage
     \/ at.entry > Len(mcfg) /\ stage' = "search" /\ UNCHANGED at
  /\ UNCHANGED <<machine, mcfg, devices, command, picked, controller, refused, lost>>

\* The loops over buses, devices and functions go on.
Onward ==
  LET func == (at.func + 1) % MaxFunctions
      dev  == IF func = 0 THEN (at.dev + 1) % MaxDevices ELSE at.dev
      bus  == IF func = 0 /\ dev = 0 THEN at.bus + 1 ELSE at.bus
  IN  IF bus <= LastBus(at.entry)
        THEN /\ at' = [at EXCEPT !.bus = bus, !.dev = dev, !.func = func]
             /\ UNCHANGED stage
        ELSE /\ at' = [at EXCEPT !.entry = @ + 1]
             /\ stage' = "entry"

Place  == <<at.entry, at.bus, at.dev, at.func>>
Block  == EcamReg(at.bus, at.dev, at.func)

ProbeNothing ==
  /\ stage = "probe" /\ ~ Answers(at.entry, Block)
  /\ Onward
  /\ UNCHANGED <<machine, mcfg, devices, command, picked, controller, refused, lost>>

\* list_add puts it in front.
ProbeListed ==
  /\ stage = "probe" /\ Answers(at.entry, Block)
  /\ devices' = <<Place>> \o devices
  /\ Onward
  /\ UNCHANGED <<machine, mcfg, command, picked, controller, refused, lost>>

ProbeRefused ==
  /\ stage = "probe" /\ Answers(at.entry, Block)
  /\ refused < MaxRefused
  /\ refused' = refused + 1
  /\ lost' = lost \cup {Place}
  /\ Onward
  /\ UNCHANGED <<machine, mcfg, devices, command, picked, controller>>

-----------------------------------------------------------------------------
(* platform/ahci.c, init_ahci *)

\* The registers an entry's ecam_base leads to.
BaseOf(d) == EcamReg(d[2], d[3], d[4])

Matches(d) == ReadsAhci(d[1], BaseOf(d))

Search ==
  /\ stage = "search"
  /\ LET hits == {i \in DOMAIN devices : Matches(devices[i])}
     IN  IF hits = {}
           THEN stage' = "done" /\ UNCHANGED picked
           ELSE /\ picked' \in {devices[i] : i \in {i \in hits : \A j \in hits : i <= j}}
                /\ stage' = "enable"
  /\ UNCHANGED <<machine, mcfg, at, devices, command, controller, refused, lost>>

Target == FunctionAt(picked[1], BaseOf(picked))

\* (mutant) Only the memory of the controller is enabled.
EnabledBitsMemory == {"memory"}

EnabledBits == {"memory", "master"}

\* cmd |= PCI_CMD_MEM_SPACE | PCI_CMD_BUS_MASTER, written back.
Enable ==
  /\ stage = "enable"
  /\ command' = [command EXCEPT ![Target] = @ \cup EnabledBits]
  /\ stage' = "map"
  /\ UNCHANGED <<machine, mcfg, at, devices, picked, controller, refused, lost>>

\* vmap may answer NULL; virt_start is read from it all the same.
Map ==
  /\ stage = "map"
  /\ \/ controller' = Target /\ UNCHANGED refused
     \/ /\ refused < MaxRefused
        /\ refused' = refused + 1 /\ controller' = "garbage"
  /\ stage' = "ghc"
  /\ UNCHANGED <<machine, mcfg, at, devices, command, picked, lost>>

\* GHC.AE is set; with a wild pointer anything may follow, and the model ends.
EnableAhci ==
  /\ stage = "ghc"
  /\ stage' = IF controller = "garbage" THEN "undefined" ELSE "done"
  /\ UNCHANGED <<machine, mcfg, at, devices, command, picked, controller, refused, lost>>

PciNext ==
  \/ FindMcfg \/ StartEntry \/ ProbeNothing \/ ProbeListed \/ ProbeRefused
  \/ Search \/ Enable \/ Map \/ EnableAhci

PciSpec == PciInit /\ [][PciNext]_pciVars

-----------------------------------------------------------------------------
(* Correctness *)

\* The scan has been there.
Probed(f) ==
  /\ mcfg # NoTable /\ f[1] \in DOMAIN mcfg
  /\ f[2] \in mcfg[f[1]].start .. mcfg[f[1]].end
  /\ f[3] < MaxDevices /\ f[4] < MaxFunctions
  /\ \/ stage \notin {"acpi", "entry", "probe"} \/ f[1] < at.entry
     \/ /\ f[1] = at.entry /\ stage = "probe"
        /\ BaseOf(f) < Block

Listed == {devices[i] : i \in DOMAIN devices}

\* The scan of pcie.c, over tables, buses and failed allocations: no place is
\* listed twice, and of the functions 0 it has passed, on the last bus of an
\* entry too, the list has those that exist and were given memory.  What is
\* excepted are the entries of other functions, which are read from the wrong
\* address.
FunctionsZeroListed ==
  /\ Cardinality(Listed) = Len(devices)
  /\ {d \in Listed : d[4] = 0} = {f \in Functions : f[4] = 0 /\ Probed(f)} \ lost

\* Registers are not touched before the function decodes memory and may do
\* DMA, those of another function never are, and the controller is one.
ControllerEnabled ==
  /\ stage = "ghc" /\ controller # "garbage" =>
       class[controller] = "ahci" /\ command[controller] = {"memory", "master"}
  /\ \A f \in Functions : command[f] # {} => picked # None /\ f = Target
=============================================================================
