-------------------------------- MODULE Boot -------------------------------
(***************************************************************************)
(* From the firmware to the kernel: efi_main (uefi-bootloader/boot.c)      *)
(* places the kernel image, the boot information and a copy of the memory  *)
(* map in memory, ends the firmware's boot services and enters the kernel, *)
(* which finds its memory in that map (BootMap).  The firmware goes on     *)
(* allocating memory of its own until its boot services have ended.        *)
(*                                                                         *)
(* A call that fails is reported by EFI_ERR: the loader waits for a key    *)
(* and then goes on as if the call had succeeded.                          *)
(***************************************************************************)
EXTENDS BootMap, SequencesExt

CONSTANTS RamPages,       \* the pages of RAM, from 0
          Owners,         \* who may own them at first: functions Ram -> Kinds
          Segments,       \* the PT_LOAD segments: [start, pages]
          PerPage,        \* descriptors that fit in a page
          Screen,         \* pages of the framebuffer
          MaxFirmware     \* bound: allocations of the firmware of its own

Ram == 0 .. RamPages - 1

\* What the firmware's map says of memory; pages it says nothing of are "none".
Types == UsableTypes \cup {"reserved", "mmio", "loadercode", "loaderdata"}
Kinds == Types \cup {"none"}

ASSUME BootAssumption ==
  /\ RamPages \in Nat \ {0} /\ PerPage \in Nat \ {0} /\ MaxFirmware \in Nat
  /\ Owners \subseteq [Ram -> Kinds]
  /\ Segments \in Seq([start : Nat, pages : Nat \ {0}]) /\ Segments # << >>
  /\ IsFiniteSet(Screen) /\ Screen # {}
  /\ \A s \in Screen : s \in Nat /\ s >= RamPages
  /\ Screen = Least(Screen) .. Least(Screen) + Cardinality(Screen) - 1
  /\ \A i \in DOMAIN Segments :
       KernelStart <= Segments[i].start * PageSize
         /\ (Segments[i].start + Segments[i].pages) * PageSize <= KernelEnd
  /\ \E i \in DOMAIN Segments : KernelStart = Segments[i].start * PageSize
  /\ \E i \in DOMAIN Segments : KernelEnd = (Segments[i].start + Segments[i].pages) * PageSize

VARIABLES owner,          \* the firmware's view: what a page is used for
          live,           \* its boot services are in use
          version,        \* the key of its current map
          services,       \* allocations of the firmware of its own
          pc, after,      \* the loader's next step; where it goes on after a key
          segment,        \* the next program header
          asked,          \* descriptors the firmware's map had when its size was asked
          count,          \* MemoryMapSize, in descriptors
          key,            \* MemoryMapKey
          buffer,         \* the descriptors in the loader's copy of the map
          pressed         \* a key was pressed after an error

loader == <<owner, live, version, services, pc, after, segment, asked, count, key, buffer, pressed>>

BootInit ==
  /\ Unbooted
  /\ owner \in Owners /\ live = TRUE /\ version = 0 /\ services = 0
  /\ pc = "segments" /\ after = "segments" /\ segment = 1
  /\ asked = 0 /\ count = 0 /\ key = 0 /\ buffer = << >> /\ pressed = FALSE

-----------------------------------------------------------------------------
(* The firmware *)

Run(p, n) == p .. p + n - 1

\* Maximal runs of pages with one owner, as [type, start, npages].
RunAt(p) ==
  LET last == CHOOSE q \in Ram : /\ q >= p /\ \A r \in p .. q : owner[r] = owner[p]
                                 /\ q + 1 \in Ram => owner[q + 1] # owner[p]
  IN  [type |-> owner[p], start |-> p * PageSize, npages |-> last - p + 1]

Starts == {p \in Ram : owner[p] # "none" /\ (p = 0 \/ owner[p - 1] # owner[p])}

FirmwareMap ==
  [i \in 1 .. Cardinality(Starts) |->
     RunAt(CHOOSE p \in Starts : Cardinality({q \in Starts : q < p}) = i - 1)]

\* AllocatePages of type AllocateAddress.
Allocatable(p, n) == Run(p, n) \subseteq Ram /\ \A q \in Run(p, n) : owner[q] = "conventional"

Allocate(p, n, kind) ==
  /\ owner' = [q \in Ram |-> IF q \in Run(p, n) THEN kind ELSE owner[q]]
  /\ version' = version + 1

\* The firmware takes a page for itself, in a timer event say.
FirmwareTakes ==
  /\ live /\ services < MaxFirmware
  /\ \E p \in Ram : owner[p] = "conventional" /\ Allocate(p, 1, "bootdata")
  /\ services' = services + 1
  /\ UNCHANGED <<live, pc, after, segment, asked, count, key, buffer, pressed, vars>>

-----------------------------------------------------------------------------
(* efi_main *)

BootInfo == KernelEnd \div PageSize       \* one page
BufferAt == BootInfo + 1

Capacity    == asked + 1
BufferPages == (Capacity + PerPage - 1) \div PerPage

\* EFI_ERR
Succeeds(next_) == pc' = next_ /\ UNCHANGED after
Reports(next_)  == pc' = "halt" /\ after' = next_

Placed(p, n, kind, next_) ==
  \/ /\ Allocatable(p, n) /\ Allocate(p, n, kind)
     /\ Succeeds(next_)
  \/ /\ ~ Allocatable(p, n) /\ UNCHANGED <<owner, version>>
     /\ Reports(next_)

LoadSegment ==
  /\ pc = "segments" /\ segment <= Len(Segments)
  /\ segment' = segment + 1
  /\ Placed(Segments[segment].start, Segments[segment].pages, "loadercode", "segments")
  /\ UNCHANGED <<live, services, asked, count, key, buffer, pressed, vars>>

PlaceBootInfo ==
  /\ pc = "segments" /\ segment > Len(Segments)
  /\ Placed(BootInfo, 1, "loaderdata", "size")
  /\ UNCHANGED <<live, services, segment, asked, count, key, buffer, pressed, vars>>

\* GetMemoryMap with no buffer answers the size, and a key.
AskSize ==
  /\ pc = "size" /\ Succeeds("buffer")
  /\ asked' = Len(FirmwareMap) /\ key' = version
  /\ UNCHANGED <<owner, live, version, services, segment, count, buffer, pressed, vars>>

\* (mutant) The copy of the map goes to memory that the kernel reclaims.
PlaceBufferReclaimed ==
  /\ pc = "buffer"
  /\ Placed(BufferAt, BufferPages, "bootdata", "map")
  /\ UNCHANGED <<live, services, segment, asked, count, key, buffer, pressed, vars>>

PlaceBuffer ==
  /\ pc = "buffer"
  /\ Placed(BufferAt, BufferPages, "loaderdata", "map")
  /\ UNCHANGED <<live, services, segment, asked, count, key, buffer, pressed, vars>>

\* What ZeroMem leaves.
Zero == [type |-> "reserved", start |-> 0, npages |-> 0]

\* GetMemoryMap into the buffer; the firmware's order is its own.  A buffer
\* that is too small stays as it is, and the size becomes the one needed.
GetMap ==
  /\ pc = "map"
  /\ count' = Len(FirmwareMap) /\ key' = version
  /\ IF Len(FirmwareMap) <= Capacity
       THEN /\ buffer' \in {FirmwareMap, Reverse(FirmwareMap)}
            /\ Succeeds("append")
       ELSE /\ buffer' = [i \in 1 .. Len(FirmwareMap) |-> Zero]
            /\ Reports("append")
  /\ UNCHANGED <<owner, live, version, services, segment, asked, pressed, vars>>

ScreenDescriptor ==
  [type |-> "mmio", start |-> Least(Screen) * PageSize, npages |-> Cardinality(Screen)]

\* (mutant) The framebuffer's descriptor takes the place of the last one.
AppendScreenOver ==
  /\ pc = "append" /\ Succeeds("exit")
  /\ buffer' = [buffer EXCEPT ![Len(buffer)] = ScreenDescriptor]
  /\ UNCHANGED <<owner, live, version, services, segment, asked, count, key, pressed, vars>>

AppendScreen ==
  /\ pc = "append" /\ Succeeds("exit")
  /\ buffer' = Append(buffer, ScreenDescriptor)
  /\ UNCHANGED <<owner, live, version, services, segment, asked, count, key, pressed, vars>>

\* ExitBootServices refuses a key that is not that of the current map.
ExitBootServices ==
  /\ pc = "exit"
  /\ \/ key = version /\ live' = FALSE /\ Succeeds("enter")
     \/ key # version /\ UNCHANGED live /\ Reports("enter")
  /\ UNCHANGED <<owner, version, services, segment, asked, count, key, buffer, pressed, vars>>

\* Halt
PressKey ==
  /\ pc = "halt" /\ pc' = after /\ pressed' = TRUE
  /\ UNCHANGED <<owner, live, version, services, after, segment, asked, count, key, buffer, vars>>

Enter ==
  /\ pc = "enter" /\ pc' = "kernel"
  /\ Kentry(buffer)
  /\ UNCHANGED <<owner, live, version, services, after, segment, asked, count, key, buffer, pressed>>

LoaderStep ==
  \/ LoadSegment \/ PlaceBootInfo \/ AskSize \/ PlaceBuffer \/ GetMap
  \/ AppendScreen \/ ExitBootServices \/ PressKey \/ Enter

BootNext ==
  \/ FirmwareTakes
  \/ LoaderStep
  \/ KernelStep /\ UNCHANGED loader

Spec == BootInit /\ [][BootNext]_<<loader, vars>>

-----------------------------------------------------------------------------
(* Correctness *)

Image == UNION {Run(Segments[i].start, Segments[i].pages) : i \in DOMAIN Segments}

\* The pages the copy of the map is written to.
Written == BufferAt .. BufferAt + (count + PerPage) \div PerPage - 1

\* The pages with no other owner than the kernel once it runs.
MayUse ==
  {p \in Ram : owner[p] \in UsableTypes}
    \ ({0, BootInfo} \cup KernelPages \cup Run(BufferAt, BufferPages))

\* efi_main: unless a key was pressed after an error, the firmware has let go
\* when the kernel starts, the map handed over says of every page what the
\* firmware last said of it, and adds the framebuffer, and everything handed
\* over lies in memory allocated for it.  The map's end may not, when the map
\* has grown since its size was asked.
HandoverSound ==
  stage # "loader" /\ ~ pressed =>
    /\ ~ live
    /\ \A k \in Types :
         DescPages(given, {k}) = {p \in Ram : owner[p] = k} \cup (IF k = "mmio" THEN Screen ELSE {})
    /\ Image \subseteq {p \in Ram : owner[p] = "loadercode"}
    /\ BootInfo \in Ram /\ owner[BootInfo] = "loaderdata"
    /\ Written \subseteq {p \in Ram : owner[p] = "loaderdata"} \/ count > asked

\* init_bootmem and init_palloc: the page allocator is given only memory that
\* nothing uses any more, none of it twice: neither the firmware's nor the
\* loader's, not the null page, the kernel, the map or the page descriptors.
ReleasesOnlyFreeMemory ==
  ~ pressed =>
    \A p \in DOMAIN freed :
      /\ freed[p] <= 1
      /\ freed[p] = 1 => p \in MayUse \ ArrayPages

\* The same two: all of that memory is released, unless the table of regions
\* overflowed.
ReleasesAllMemory ==
  stage = "done" /\ ~ pressed /\ (\E i \in 1 .. MaxRegions : regions[i].start = 0) =>
    \A p \in MayUse \ ArrayPages : p \in DOMAIN freed /\ freed[p] = 1
=============================================================================
