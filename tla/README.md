# Verification of tiny-kernel

TLA+ models of the parts of tiny-kernel that keep state and make decisions, the TLC configurations that
check them on small instances, and machine-checked proofs about the way from the firmware to the page allocator, the page and object allocators, virtual memory,
the file systems, interrupts, the search for the disk controller and its driver, the console and formatted output: every safety property
the passing runs check is proved, too.
Paths below are relative to `src/` of the repository unless they begin with `docs/` or `tests/`.

## 1. The system

tiny-kernel is a 64-bit kernel for one CPU, without threads, user processes or locks. A UEFI loader hands
it the firmware's memory map; `_kentry` (`arch/x86/boot/init.c`) then initialises one part after
the other, reads one disk sector, mounts ramfs and halts. Concurrency comes from three places: interrupt
handlers, which run between any two instructions while IF is set; the SATA adapter, which reads and writes
memory by DMA at its own pace; and the processor's address translation, which sees page tables half way
through an update.

| part | state | operations | talks to |
|---|---|---|---|
| boot loader: `src/uefi-bootloader/boot.c` (beside the kernel's `src/`) | its copy of the memory map and the map's key, the pages of image and boot information | `efi_main` | firmware; kernel |
| boot memory map: `clean_efi_memory_map`, `mm/bootmem.c` | the firmware's map, `__regions`, `max_pfn` | compact in place, insert, allocate early | page allocator (page array, regions) |
| page allocator: `mm/palloc.c` | descriptor array, a free list and count per order, `free_pages` | `init_palloc`, `palloc`, `pfree`, `vpalloc`, `vpfree` | everyone |
| object allocator: `mm/kmalloc.c` | per size class: chain of frames, free list and count per frame | `kmalloc`, `kfree` | page allocator |
| virtual memory: `arch/x86/mm/paging.c`, `mm/vmm.c` | four levels of tables, `kernel_space.areas` | `vm_map`, `vmap` | page and object allocators; the MMU reads the tables |
| interrupts: `arch/x86/kernel/idt.c`, `arch/x86/drivers/pic.c` | handler lists, IF, mask / request / in-service bits | `register_irq_handler`, `irq_global_handler`, `pic_*` | drivers (callbacks) |
| timer: `arch/x86/kernel/timer.c` | `timer_ms` | handler, `timer_get_ms` | interrupts; deadlines of the SATA driver |
| ACPI and PCI Express: `platform/acpi.c`, `platform/pcie.c`, the start of `init_ahci` | `acpi_tables`, `pci_devices`, command registers | `init_acpi`, `init_pci`, the search for a class | virtual memory, object allocator; SATA driver |
| SATA driver: `platform/ahci.c` | port registers, command table, DMA buffer, `sata_list` | `init_ahci`, `sata_block_read` | adapter, timer, block layer, page allocator |
| block layer: `block/block.c` | `block_devices`, `block_counter` | register, find, read, (write, flush) | SATA driver, FAT |
| VFS and ramfs: `fs/*.c` | dentry tree, reference counts, mounts, superblocks | walk, create, rmdir, mount, unmount, open | object allocator |
| FAT: `drivers/fat.c` | per-mount `fat_super`, scratch pages | fill and kill a superblock, write an inode | block layer, VFS; `init_fat` is not called yet |
| console: `kernel/tty.c`, `kernel/video.c`, `kernel/panic.c` | `console.current_cell`, the frame buffer | `write_char`, scrolling, `__panic` | everything that prints, handlers included |
| formatted output: `kernel/io.c` | none that outlives a call | `vsprintf`, `sprintf`, `kprintf`, `print_number` | console, serial port; names of disks |
| the rest | no state of interest | serial port, keyboard, GDT, symbols, strings | |

What is hard in each part, and what makes it right:

- **Page allocator.** Long sequences of splits and merges over five structures that must agree. Right when
  blocks never overlap, no page is lost, the five agree, a released block is merged as far as it goes, and a
  caller sees only aligned blocks of its own.
- **Boot loader.** Between a call that reads the firmware's map and the one that ends its services the firmware
  goes on allocating, and a failed call is reported and then passed over. Right when the kernel is entered with the services ended,
  its segments in place and a map that is true.
- **Boot memory map.** One pass over a map that is overwritten while it is read, then rounding, slot 0 and
  the kernel image as special cases. Right when exactly the usable pages reach the allocator, each once.
- **Object allocator.** A poison check drops damaged objects from a list without correcting the count, and
  a refused frame is set up and counted before the refusal is noticed. Right when nothing is handed out twice
  and a frame lives exactly as long as an object in it.
- **Virtual memory.** Two passes that decide separately what is a large page, failing in the middle. Right
  when at every moment the tables translate the recorded areas and nothing else.
- **Interrupts.** Mask, acknowledge, call, unmask on a cascaded pair of controllers, with new requests at any
  step. Right when nothing stays in service or shut and each line is served in the end.
- **Finding the controller.** Windows of configuration space, places without a device, and an address whose shift is wrong.
  Right when each function 0 is listed once and only a controller that decodes its registers and may do DMA is used.
- **SATA driver.** Polling of registers that change between two reads, failures at every step of the
  initialisation, timeouts that leave a command behind. Right when memory the adapter can reach is held, only
  working disks are published, a read that answers 0 delivered the sectors, and every call ends.
- **VFS.** Mounts on mounts, reference counts taken by walks. Right when counts are exact, nothing pointed at
  is freed and walks end where the paths lead.
- **FAT.** Sizes read from the disk are added in 32 bits, eight steps of a mount may fail, and all reads and writes go
  through one buffer. Right when a failed mount keeps nothing, the clusters of a mounted volume lie on it, and writing an
  inode changes its own directory entry only.
- **Console.** Handlers print between a load and a store of the cursor or within a scroll, and the end of the screen is
  recognised by one exact value. Right when the screen shows the last rows printed, and a panic is readable whatever it came upon.
- **Formatted output.** Widths, lengths, signs and the ends of the ranges, carried from one character to the next. Right when the
  text says the numbers that were given.

`PROJECT.json` lists these dangers one by one under `hazards`, at their lines, with the properties on guard.

## 2. Modules

| module | models | proofs |
|---|---|---|
| `PageAlloc` | what the page allocator promises: an abstract specification | |
| `Buddy` | `mm/palloc.c`; implements `PageAlloc` | `BuddyProofs` |
| `Boot` | `efi_main` of the loader and the firmware beside it; composed with `BootMap` | `BootProofs` |
| `BootMap` | `clean_efi_memory_map`, `mm/bootmem.c`, the release loop of `init_palloc` | `BootProofs` |
| `ObjAlloc` | what the object allocator promises: an abstract specification | |
| `Slab` | `mm/kmalloc.c`; implements `ObjAlloc` | `SlabProofs` |
| `VmMap` | `vm_map`, `vmap`, the boot tables | `VmMapProofs` |
| `Irq` | `idt.c`, `pic.c`, `timer.c` and a pair of 8259s | `IrqProofs` |
| `Pci` | `platform/acpi.c`, `platform/pcie.c`, the start of `init_ahci` | `AhciProofs` |
| `Ahci` | the rest of `platform/ahci.c`, `block/block.c`, the adapter and the clock | `AhciProofs` |
| `Vfs` | `fs/vfs.c`, `fs/namei.c`, `fs/ramfs.c` | `VfsProofs` |
| `Fat` | `drivers/fat.c`, and the superblock's life in `fs/vfs.c` | `FatProofs` |
| `Format` | `vsprintf`, `sprintf` and `print_number` of `kernel/io.c` | `IrqProofs` |
| `Tty` | `kprintf`, `kernel/tty.c`, `kernel/video.c`, `kernel/panic.c`; extends `Format` | `IrqProofs` |
| `MC*` | the instances TLC checks | |

Definitions marked `(mutant)` are deliberately wrong variants of the definition that follows them; they
are in no specification, and each breaks the property it is paired with under `mutants`: evidence that the
property would notice the bug.

**Buddy.** `order`, `count`, `free` and `invalid` are the fields and flags of `struct page`; `list` and
`freeCount` are `allocator.maps`. A list is the set of the first pages of its blocks; which is taken is left
open. One action per call, since nothing interrupts the allocator: `BootPage` is one turn of the release loop of
`init_palloc`; `PallocDirect`, `PallocSplit`, `PallocNull` and `PallocExhausted` are the four outcomes of
`palloc`; `Pfree` has both its panics; `VpfreeEnd` is the address one past the end. The coalescing loop is
not a recursion but its result: `StopsAt(p, o, m)` says at which order it stops, and `FreeBlock` the state it
leaves. `palloc` halves a larger block *once*, so it may refuse although memory is free (`PallocNull`).
With no larger block at all `split_block` reads `maps[9]`, past the array: what is there is undefined, and both
outcomes are in the model.

**Boot.** `owner` is what the firmware uses each page for, `live` and `version` say whether its services run and how new its map
is; `pc` is the loader's place in `efi_main`, with a step for each call of the firmware, and `services` counts the firmware's own
allocations, which come between any two. A failed call leads to `PressKey`: the loader waits for a key and goes on, as `EFI_ERR` does.
`Enter` hands the copy of the map to `BootMap`, whose actions follow in the same behaviour.

**BootMap.** `map` is rewritten in place while `next` reads it, `regions` is `__regions` with its empty-slot
convention, and `freed` counts how often each page is released. Addresses have units below a page, so that
rounding matters.

**Slab.** `chain`, `frameCount`, `freeList`, `freeCount`. `WriteAfterFree` (external) is the misuse the
poison check is written for. `KmallocRefused` keeps what the code does when `vpalloc` answers NULL. Under the mapping of `AbstractSpec` an
object is its frame, first unit and size, and the allocator implements `ObjAlloc`: aligned, shared with nobody, not written to since it was
free. An object the poison check drops is memory that was touched and never comes back.

**VmMap.** `entry` maps `<<level, number of the span>>` to what the table entry holds. A turn of the loop over
levels is a step (`CheckLeaf`, `CheckTable`, `AddTable`, then `InstallLeaf`, `FollowTable`), because the processor
may translate in between; `Translate` is its walk (external). Permissions are kept; cache flags and the
alignment test are not.

**Irq.** `imr`, `irr`, `isr` of both controllers, IF, and the step of the handler (`frame`) and of
`register_irq_handler` (`reg`) under way. The controllers' side (`Raise`, `Deliver`, `Spurious`, `Rank`, `Open`) is
external.

**Pci.** The machine is chosen by `Init`: what the XSDT lists, which functions exist, what fills extended configuration space.
Addresses are counted in blocks of 256 bytes and formed as `pci_ecam_reg` forms them, shift included, so that a read of a function
other than 0 lands where the code's lands. An MCFG may have any number of entries, none among them (`StartEntry` then goes straight to the end). `controller` is what the driver's pointer to the registers leads to.

**Ahci.** `pc` is where the one CPU is in `init_ahci` or `block_read`, with a step for each register read
of a polling loop; `hba` is the port as the adapter drives it, `table` and `buffer` the memory they share. The
adapter is external and owes no progress: it may stall for ever, fail and keep the slot or clear it, or answer after the
driver has given up. Sectors are their own numbers, so a wrong one shows, and 64-bit sums wrap at `U64`. The handlers of `block_write` and `block_flush` are
empty: what they answer is whatever the register holds. `overlap` remembers that the request under way set its command up
over an abandoned one.

**Vfs.** Each call is a step on the caller's path `cwd`. `ref` is the code's count, `taken` the history of
references walks have taken. The caller mounts, creates and removes as `init_ramfs` and the commented calls of `_kentry` do.
`fault` stands for the page fault of a call through a NULL operation, when a path leads through a file.

**Fat.** `bpb` is the boot sector, its fields the only ones the code reads; `sb.fat` is `struct fat_super`. `held` is the
set of objects a mount has allocated, so that each error path (`Cleanup`) is compared with what had been allocated
(`AllocatedBefore`). `scratch` is the one buffer of a mount and `disk` the sectors with directory entries: a failed read may
have filled the buffer or not, a failed write may have reached the disk or not. The SATA driver's write is empty, so this is what
`tests/fat_inode_test.c` has a block device do. Numbers are cut where the code's variables cut them (`U16`, `U32`).
`UmountShared` ends the model, as what follows a release of an address inside an object is undefined.

**Format.** A format is a sequence of characters and an argument a word. A turn of the loop takes one character and either
copies it, adds to what is known of the directive (width, length) or converts; `vsprintf` forgets what it knows after a conversion and
`sprintf` does not. `print_number` takes as many digits from its buffer as the width says. `IsDirective` says what a call may be made of: the lengths `vsprintf`
knows, the conversions of numbers, and no width for which the buffer of 32 characters has no room, the sign included.

**Tty.** A step is one load or store of `console.current_cell`, one scan line of a glyph or of a scroll; a handler runs whole between any two
of them (`Interrupt`, `PanicInHandler`), since interrupts are off in it. `printed` remembers every character, `torn` that an interrupt came where the
code cannot stand one. `KprintfEarly` is a `kprintf` before there is a console: its text goes to the serial port alone. What a screen should show is said without cells and
pixels: the text is laid out on an endless `Tape` of rows. `TextAssumption` and `EarlyAssumption` say what is printed: texts, a handler's ending its line and
a panic's fitting the screen, and calls of directives with a word for each.

Modules do not share state except where the code's parts share it tightly: the timer and the block layer are in
`Ahci` as the driver sees them, the release loop is in `BootMap` (which pages) and in `Buddy` (what becomes of them).

## 3. Runs

| run | result | shows | bounds, and why they are enough |
|---|---|---|---|
| `buddy` | pass | invariants, `ReleaseCoalesces`, refinement of `PageAlloc` | 12 pages of RAM in 23, orders 0 to 3: one block of each order, splits over several orders, a hole, a kernel page and a last page without a buddy |
| `boot` | pass | `CleanKeepsMap`, `HandoverSound`, `ReleasesOnlyFreeMemory`, `ReleasesAllMemory` | eleven pages of two units, two kernel segments with a hole between, any one page the loader wants taken, four others of any kind, one allocation of the firmware at any moment, four table slots, two sizes of the page array: stale keys, a grown map, an overflow, gaps and memory inside the image occur |
| `slab` | pass | sharing, counts, frames held, loss only by damage, refinement of `ObjAlloc` | two classes competing for two frames, 3 and 2 objects a frame, two damaged objects, one refusal |
| `vmmap` | pass | `TranslatesTheAreas`, `SecondPassIsPrepared` | four levels, two entries a table under four, both ends of the address space, two areas, large pages at two levels, boot mappings |
| `irq` | pass | acknowledgement, lines reopen, registration undisturbed, service | the timer, a line of the master, line 7 with its spurious requests and a line of the slave |
| `pci` | pass | `FunctionsZeroListed`, `ControllerEnabled` | two windows, three places, two functions a device, a capability where the wrong shift reads, no MCFG or several, one refused `kmalloc` |
| `ahci` | pass | `DmaMemoryIsHeld`, `PublishedOnlyReady`, `ReadsDeliver`, `RequestReturns` | a port without and one with a disk of four sectors, buffer of two: one and two commands per read, and an address whose sum with the count wraps; a tick leaves its line open or masked |
| `vfs` | pass | counts, nothing dangles, walks follow mounts and know the mount they are in | two names, five entries, three mounts, paths of two components, two references of walks an entry: a mount inside a mount and a directory below a directory |
| `fat` | pass | `HeldExactly`, `ClustersOnVolume`, `AnsweredIsWritten`, `OnlyOwnEntry` | 866 boot sectors on devices of four sector sizes, two of them refused, every failure of a mount. 16-bit numbers end at 8 and 32-bit numbers at 32, so sums wrap and all three types occur. Six inodes on two sectors: two entries of one sector, a directory, a size too large, an offset off the grid and one past the end |
| `tty` | pass | `ScreenShowsText`, `CursorLostOnlyAtFullRow`, `PanicIsShown`, `TextIsMeant` | two rows of three cells of two scan lines, eight characters, two interrupts: wrapping, newlines, scrolling, a handler in each step. Words of 8 bits with an `int` of 4: every conversion and length, three widths, the ends of each range, and pairs of conversions |
| `irq_clock` | violated | the timer stays masked after one tick | |
| `vfs_shared` | violated | one unmount kills the superblock of another mount | |

The two violations are disagreements between the code and what its comments, tests or docs say; `findings`
quotes both sides. More are described by the models and have no run of their own:

- `palloc` panics, or takes a block from past its array, instead of answering NULL when no larger block is free (`PallocExhausted`
  of `Buddy`);
- `..` at the root of a mount leads to the root of the parent mount (`Up` of `Vfs`);
- `pci_ecam_reg` shifts the function by the wrong amount, and `init_ahci` does not look at what `vmap` answers (`Pci`);
- a chunk beyond the 8-bit count of READ DMA is delivered stale to an LBA28 disk (`ReadsDeliver` fails with `Lba48 = {}` and
  `MaxSectors = 3`);
- registering a second SATA disk ends in `strcmp`, an assertion that fails (`RegisterPanics` of `Ahci`);
- `fat_kill_super` loses the scratch pages (`HeldExactly` says so), and the 32-bit sum that places a FAT volume's data may wrap
  (`DataStart`);
- a width cuts the number it is meant to pad, and `sprintf` carries a width over to the next conversion (`PrintNumber`, `SSpecifier`).

Deadlock is not checked where the machine may stop for good: after a panic (`buddy`, `tty`), when the boot code has done its work
(`boot`, `pci`), after a page fault (`vfs`), once a shared superblock has been killed (`fat`), or when the clock has stopped (`ahci`: the driver
waits for ever for a drive that stalls, or no disk was found and nobody calls).

Exceptions written into properties are the ones the code makes:

- `ReleasesAllMemory` excepts a full table of regions;
- `HandoverSound` excepts a boot after a failed call (`pressed`) and the end of a map that has grown past its buffer;
- `FunctionsZeroListed` says nothing of functions other than 0, which are read from the wrong address, and `ControllerEnabled` nothing of
  a mapping that failed (`garbage`);
- `ReadsDeliver` excepts a request that set a command up while slot 0 still held an abandoned one;
- `RequestReturns` speaks of a clock that is not masked, which the build does not have beyond the first tick;
- `LinesReopen` excepts the timer's line, which `irq_clock` shows to stay shut;
- `ScreenShowsText` and `CursorLostOnlyAtFullRow` except text printed by an interrupt in the critical part of `write_char` (`torn`) and, once
  a newline has followed a full last row, all that comes after;
- `TextIsMeant` asks of a number that is wider than its width no more than its low digits, and of `sprintf` nothing where another
  conversion follows a width or a length, nor of `%p`.

**Fairness.** `Ahci`: the CPU runs (`WF(Driver)`) and, while IRQ 0 is open, the timer is counted (`WF_waited(Tick)`, the counting ticks); none for
the adapter, callers or firmware. The run has `TimerRuns = TRUE`: a tick leaves the line open, or masked for good. That it stays open is no fairness
but the hypothesis `[]irq0Open` of `RequestReturns`, since this kernel does not provide it: in the build the first tick masks the line (`irq_clock`), after
which a drive that stalls holds a request for ever. TLC finds that behaviour when the hypothesis is dropped. What `RequestReturns` shows is that
the driver needs nothing but a clock, on whatever path it waits. `Irq`: the CPU executes
(`WF(Cpu)`), takes an interrupt that is open again and again (`SF(Deliver)`: IF and masks close and open), boot code
gets its turn between handlers (`SF` of the steps of `init_timer`), and the timer chip raises its line. The other
modules state safety only.

## 4. Proofs

`BuddyProofs` proves, for every number of pages, every memory map, every place of the kernel and every largest order
up to 8, that the allocator keeps its types and the five safety invariants of the run `buddy`, that a release merges as far as it can
(`BuddyCoalesces`), and that it implements `PageAlloc` (`BuddyImplementsPageAlloc`). Assumed are only the four assumptions on the constants that `Buddy` declares.

The argument. The inductive invariant `IInv` is the conjunction of the type invariant and the five safety invariants,
none of which is inductive alone: disjointness needs the agreement of lists and flags (a merged buddy is free, a block
on a list is of that order), the counters need the lists to be those of the free heads, and the panics of `pfree` are
unreachable only because heads are aligned and counts say what is in use. `BuddyProofs` goes bottom-up:

1. Geometry: `BlockSizeFacts`, `BaseFacts`, `Halves` (a block and its buddy are the halves of the block one order up)
   by arithmetic for each order, and `Ladder`, induction over the orders written out.
2. `LoopGeometry`: what the coalescing loop from order o to m has put together is exactly the block of order m that
   results. `FreeBlockEffect` says the same of the state: p and the absorbed buddies stop being heads and one
   free head appears that covers what they covered.
3. One lemma per action that changes blocks: `FreeBlockPreserves` (used for `PfreePreserves` and `BootPagePreserves`),
   `PallocDirectPreserves`, `PallocSplitPreserves`, `PallocNullPreserves`, the last two over `SplitBlocks`.
4. `InitInvariant` and `NextInvariant`, and from them `BuddyInvariant` and the theorem of each invariant.
5. `ReleaseCoalesces` speaks of the memory after the release, the loop tests the memory before it. `ReleaseMerges` closes the gap: the buddy that stopped
   the loop is not one the release touches, and one that is free is not invalid. `OnlyPfreeReleases`: a split never takes a block out of use.
6. Refinement: `AllocStep`, `FreeStep`, `BootStep`, `NullStepHeld` and `NextRefines`. `pool` is mapped to the managed pages
   and `held` to the heads in use; splits, merges and ignored calls are stuttering steps.

`FatProofs` proves the type invariant and all properties of the run `fat`, for every width,
sector size, limit between the types, set of boot sectors and set of inodes that fit the assumptions of `Fat`.

1. `HeldExactly` is inductive: `HeldStep` shows `AllocatedBefore(at)` within `Cleanup(at)` for each failure.
2. `TypeOK` rests on `EncodedEntry` (every field that is written is cut to its width) and `WritableSlot` (an aligned offset
   with room behind it is a slot of the sector). `OnlyOwnEntry` follows from it by `ChangedSector`.
3. `ClustersOnVolume` is not inductive. `VolumeIsRead` (a live superblock holds what its boot
   sector says, and that was accepted) is; `ClusterPlace` shows that 32 bits suffice for `ClusterLba`, since
   n clusters of p sectors fit between data start and total (`PartsFit`, `ProductMonotone`), and `LayoutOnVolume`
   concludes. The layout itself may have wrapped: the clusters stay on the volume, the
   FATs need not.
4. `AnswersAreWritten`: the two halves in which an entry keeps a cluster give it back (`QuotientRemainder`). On FAT12 and FAT16 only the low half is
   read, and that is enough because such a volume has no cluster above 16 bits (`SmallVolume`), by the limits of `fat.h` that
   `WidthAssumption` states.

`IrqProofs` proves the three safety properties of the run `irq`, for any lines, drivers and handlers. What makes them inductive is that
one thing is under way at a time: with IF clear there is a handler or a registration, never both, and `IInv` says of every bit
in service and every mask to which of the two it belongs. A spurious request
has put nothing in service, which is why the invariant says of the bits that they are among those of the line (`Served`), not that they are all of them.

`AhciProofs` proves `DmaMemoryIsHeld` and `PublishedOnlyReady`, for any ports, drives, sizes and requests and an adapter that does what it
likes. `IInv` says what the CPU relies on at each `pc` (`CpuInv`), that a command in the adapter's hands sits in a slot that is set and
backed by memory (`SlotInv`), and what connects the two: while the driver waits for IDENTIFY, a port that shows no error and has finished has filled the
buffer (`AnswerInv`), because the slot was clear when the command was issued (`Fresh`). The lemmas follow the kinds of steps:
`AdapterPreserves` for what the adapter may do, `QuietPreserves` for steps of the CPU that write nothing, `PortStepPreserves` for those that
write registers or memory of their own port, and one lemma per action on top of these.

`AhciReadsDeliver` adds what a request has got so far (`GotInv`), that a command is the part of the request that is due (`CommandInv`), in the
table and in the adapter's hands, and that a drive's sectors are all the driver counts (`DriveInv`); `AnsweredInv` follows the answer out of the driver. It has two
hypotheses. A drive knows 48-bit addresses (`SataDrives \subseteq Lba48`): on another, the count of READ DMA loses all but its low byte, and the
property is false. And a capacity fits into 64 bits, as `uint64_t` makes it.

`SlabProofs` proves `NoSharing`, `FramesHeldExactlyWhileUsed` and `CountsAgree`, for any size classes, frames, damaged objects and refusals, from
`LayoutAssumption` alone. `IInv` keeps the three together, as no one of them is inductive: that `kfree` gives a frame back at the right moment needs the count, that the
count is right needs the free list to hold no object in use (`FrameOk`), and that no object is on a list twice needs the frame to be on one chain. The
conjunct `Len(chain[c]) <= frameCount[c]` (`ChainInv`) is what makes `slab_free_frame`, whose walk `frame_count` bounds, reach the frame it frees: a refused
frame is counted all the same, so the two differ, in the harmless direction. The proof rests on four lemmas about lists without repetition
(`TailElements`, `AppendElements`, `ConsElements`, `RemoveElements`), one for each way the code changes a list, and `FrameStep` for
the steps that touch one frame and no chain.

`SlabLosesOnlySkipped` follows an object dropped by the poison check: what is in no list and not in use has been written to since it was free (`LossInvariant`).
`SlabImplementsObjAlloc` is the refinement, step by step: `AllocRefines`, `FreeRefines` and `WriteRefines` for the operations that show, `QuietRefines` for those that
change frames and lists only and are stuttering of `ObjAlloc`.

`VfsProofs` proves the four invariants of the run `vfs`, for any names, entries, mounts and lengths of paths. The hypothesis
`Devices = {}` says that no two mounts share a superblock: with a shared one `NothingDangles` is false, as `vfs_shared` shows.

1. `IInv` strengthens the counts by what every operation relies on: a mounted superblock is used once and its root is the root of a tree of its
   own (`MountInv`), a directory has a name once (`NameInv`), and there is a labelling of the entries by the roots of their trees under which
   mountpoints and the caller's path are in the tree of their mount (`LabelInv`). The last is why an unmount never takes away the mount the path is in.
2. `WalkPlaces`: each component takes a walk from a place to a place, for paths of any length; one lemma per operation then, and `VfsInvariant`.
3. `WalksFollowMounts` is an induction over the path (`StepFollowsMounts`): names are unique, so what a path denotes is one entry or none.
4. `WalksStayInTheirMount` is about `Ancestors`, which climbs as often as there are entries: that is enough (`ClimbIsShort`, by the pigeonhole
   principle), hence the hypothesis that the pool of entries is finite.

Walks and climbs are recursive functions. That they exist is itself proved: `NatSetInduction` is induction over the numbers for a set instead of a
predicate, from `NatLessThanWellFounded` and `WFMin`, and `RecursiveFunction` builds the function from it.

`VmMapProofs` proves both properties of the run `vmmap`, for tables of any width, any number of addresses and pages and any requests, from
`VmMapAssumption` alone (which says that a table and `pgd` have two entries at least, and `pgd` as many in either half).

1. Arithmetic: division has one result (`Divide`, `Unique`, `DivideTwice`), so an entry stands for the entries of the table below it (`KeyUp`, `KeyNest`) and
   two canonical addresses have the same entry just when they are in the same span (`SameKey`): the gap between the halves is never folded onto them.
2. `TreeInv`: whatever is not empty hangs below tables. A new entry in an empty slot then changes what the addresses below it mean and nothing else
   (`PutTable`, `PutLeaf`, `PutElsewhere`).
3. `PreparedInv` connects the passes. Behind the first, and ahead of the second, each page has an empty slot (`PreparedAt`) that lies in the range, that a page of
   its level fits, and above which the tables allow what is asked for. The second pass tests the alignment and the entry again and must come to the same
   answer. It does, because it is always at the start of such a slot (`AtSlotStart`): otherwise the page before would be in the same, empty, slot, and that page
   is mapped. So the invariant needs `TranslatesTheAreas`, and `TranslatesTheAreas` needs it in turn.
4. One lemma per action, `StepInv`, and the two theorems.

`BootProofs` proves the four properties of the run `boot` about the whole way from the firmware's first map to the last page released, for any size of
RAM, any use of it, any segments, framebuffer, page size and table of regions. `BootAssumption` and `BootMapAssumption` say what a machine and
an image are: `KernelStart` and `KernelEnd` are the least and the greatest bound of segments of whole pages, as `efi_main` computes
them, and the framebuffer is one run of pages behind RAM.

1. `MapTells`: the firmware's map has a descriptor per run of pages with one use, in order, and so it tells of every page what it is used for. The
   descriptors are counted, not enumerated (`Ranks`), since the model makes the map a function of the rank.
2. `LoaderInv`: the key is at most the version of the firmware's map; a copy whose key is the current one tells the truth (`Tells`, `Handed`); the
   pages of image, boot information and copy belong to the loader. Nothing is claimed once an error has been passed over (`Smooth`).
   ExitBootServices compares the keys, so that an allocation between it and GetMemoryMap cannot go unnoticed: `LoaderGivesHandover`.
3. `CleanInv`: in the middle of the compaction the first `kept` descriptors say what the descriptors before `next` of the map that was given said, and those
   from `next` on are untouched, because `kept < next` (`Compacting`). That covers the overwriting of what is read.
4. `MemoryInv` carries on from there. The descriptors stay on whole pages and apart while they are merged (`StillApart`, `WellFormed`); the table of
   regions holds the pages of a set, each in one slot (`Holds`), which is the set of usable pages copied so far (`Copying`) and, once the page array has been
   cut out of a region, the usable pages outside the array (`AllocStep`). A region that lies in the kernel's image is not copied, so that a page of the
   image may be missing; no descriptor covers the image on both sides (`NoneCovers`, from `HandoverSound`: the image is the loader's).
   `Releasing` says of each page whether its slot has been passed.
5. The table may overflow, and then insertions are lost: `Holds` promises all pages only while a slot is left, hence the condition of
   `ReleasesAllMemory`.

The search for the controller is proved in `AhciProofs`, beside the driver it ends in: `FunctionsZeroListed` and `ControllerEnabled`, for any configuration
space, tables, windows, number of devices and refusals. `PciInv` says that the scan goes through the places in the order of their addresses, so that
what is listed or was lost to a refused `kmalloc` lies behind it and what is ahead is untouched; that what reads as a controller is a function 0, for which
the wrong shift is harmless; and that only the command register of the function picked has been written. Assumed is that places and tables are what
their types say.

The console and formatted output are proved in `IrqProofs`, after the interrupts that disturb them. `ScreenShowsText`, `CursorLostOnlyAtFullRow` and
`PanicIsShown` hold for any size of screen and glyphs and any texts, from `TtyAssumption` (the framebuffer holds the rows, and not another one) and `TextAssumption`.

1. `TtyInv` says of each `pc` of `write_char` that the console is what the finished part of the call makes of one that was good (`Stage`), unless an
   interrupt came where it must not. Good is: the cursor is at the row and column the tape has reached and each word of the screen is the one
   visible on the tape (`Rep`), or both have lost the cursor by a newline after a full last row (`Lost`). This is why the two properties need each other.
2. `ScrollPictured`: copying the pixels up shows the tape one row further. It reads one
   word from behind the framebuffer, which is the exception `Stray`. `DrawPictured`: a glyph shows its character at its place on the tape. The
   scan lines done so far are in the invariant (`Scrolling`, `Drawing`).
3. `CharacterGood` puts the steps of one character together, and `PutGood` the characters of a handler's text, which runs whole. `HandlerLine`: the text is a line, so it
   leaves the console as good as it was found, and the cursor off the value by which the interrupted character recognised the end of the screen.
4. A panic starts from a clear screen and cursor 0, and so does not depend on what was there (`PanicIsSeen`).

`NumbersAreMeant` proves `TextIsMeant` for any calls that `EarlyAssumption` admits, any width up to the buffer's and any two sizes of words
(`FormatAssumption`: an `int` has two values at least and a `long` no fewer).

1. The loops are folds over characters whose arguments have no common type, so it is the step that is folded (`Does`): `Comes` says what a loop comes to over a text,
   and texts are read one after the other (`ComesJoined`).
2. A directive is read part by part: the width as the numeral it is (`ReadsWidth`; 8 bits suffice), the length (`ReadsLength`), the conversion. After one, `vsprintf` is
   as at the start, and `sprintf` is if there was neither width nor length (`ReadsDirective`). So a format writes its conversions one after the other
   (`WritesConversions`).
3. `DigitsExpand`: the digits come with the quotients of the division loop, each of which is the next times the radix plus the digit, and the highest is not 0. `NumeralOfDigits`
   reads them back from the top; what is cut off by a width is a multiple of the power of the radix (`Rest`), and zeros in front change nothing (`ZerosArePadded`).
4. `SignedIs`: the magnitude of a negative number fits, the least one included. `ConversionReadsBack` concludes for one conversion, `CallIsMeant` for a call.

Folds, like the recursive functions of `Digits` and `Power`, are defined by CHOOSE: that a function exists that satisfies the equation is proved first (`ReadsExist`, `DigitsExist`,
`PowerExists`), by induction for a set of numbers or texts instead of a predicate (`SetInduction`, `TextInduction`).

TLC checks, and nothing proves: liveness (`LinesAreServed` and `RequestReturns`; temporal
proofs under fairness and ENABLED are beyond the prover, as are recursive operators and inductions that no set expresses, which the
modules to be proved about avoid), and the two runs that end in a violation. The type invariants of `Buddy` and `Fat` are proved and have no run; those of `Irq`, `Ahci`, `Slab`, `Vfs`, `VmMap` and `Boot`
are part of the inductive invariants. The bound of 8 on the largest order is the build's `BUDDY_MAX_ORDER`.

## 5. Not modelled

- The serial port, the keyboard's port and the set-up of the CPU (GDT, descriptor tables): a port or a table written once, no decision.
  `symbols` and the string helpers are pure.
- In the loader: reading and checking the ELF file, the choice of a graphics mode, the search for the RSDP.
- Code without a caller or a body: `tty_show_prompt`, `slab_clear`, `disable_pic`, `iget`, `fat_next_cluster`, `fat_read_cluster`,
  `vunmap`; the file operations of ramfs.
- In `Vfs`, memory that runs out: the error paths of `alloc_super`, `sget`, `dlookup` and `vfs_mount` (`vfs.c:63-70`, `182-183`, `235`) and the `-ENOMEM` of
  `ramfs.c` (64, 75, 102, 169, 174). `fault` stands for whatever a call through a NULL operation does; the model ends there.
- In `Ahci`, the split of the address into the bytes of the command (`ahci.c:203-208`): 48 of 64 bits are sent, and the model sends the address as it is. A disk's
  capacity is at most 2^48 sectors and `block_read` refuses what lies beyond. A request whose sum wraps begins within `count` of 2^64, and its low 48 bits
  within `count` of 2^48: beyond a real disk either way.
- Inside the modules: zeroing of pages, cache flags and alignment tests of mappings, log prefixes, glyphs and colours, the content of structures no
  decision depends on; exceptions of the processor, which print and stop.

More than two thirds of the source lines are headers the loader takes over from the EFI and ELF projects (`src/uefi-bootloader/include`),
declarations without behaviour. The share of all lines that the modules stand for stays low for that reason.

## 6. Plan

Done, in this order:

1. Memory: `Buddy` with `PageAlloc` and `BuddyProofs`; `BootMap`, and `Boot` in front of it, with `BootProofs`; `Slab` with `ObjAlloc` and `SlabProofs`.
2. Mappings: `VmMap` with `VmMapProofs`.
3. What runs beside the CPU: `Irq` with `IrqProofs`; `Pci` and `Ahci` with `AhciProofs`.
4. File systems: `Vfs` with `VfsProofs`, `Fat` with `FatProofs`.
5. Output: `Format`, `Tty`, with `IrqProofs`.

Left:

1. An abstract address space that `VmMap` implements, and an abstract block device (a request answers once, with its sectors or an error)
   for `Ahci`.
2. A second path held while entries are removed in `Vfs`, and two mounts on one entry.
