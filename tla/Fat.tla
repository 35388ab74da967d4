-------------------------------- MODULE Fat --------------------------------
(***************************************************************************)
(* The FAT file system, drivers/fat.c: what fat_fill_super accepts as a    *)
(* volume and what it holds for it, how the superblock is shared and given *)
(* up (sget and deactivate_super of fs/vfs.c), and the two operations that *)
(* reach the disk.  Create, mkdir, rmdir, rename and truncate answer       *)
(* -EROFS and do nothing.                                                  *)
(*                                                                         *)
(* The kernel has no threads: each call is a step.  There is one device;   *)
(* its sector size is a power of two.  Memory may be refused and a sector  *)
(* may fail to be read or written at every call.                           *)
(***************************************************************************)
EXTENDS Integers, FiniteSets

CONSTANTS U16, U32,       \* 2^16 and 2^32, or smaller numbers in their place
          EntryMask,      \* FAT32_ENTRY_MASK + 1: clusters have fewer bits than U32
          ReservedMin,    \* FAT32_RESERVED_MIN
          Fat12Max, Fat16Max,       \* FAT12_CLUSTER_COUNT_MAX, FAT16_CLUSTER_COUNT_MAX
          EntrySize,      \* sizeof(struct fat_dirent), 32 in the build
          MinSector, MaxSector,     \* 512 and 4096 in the build
          SectorSizes,    \* sector sizes the device may have
          BootSectors,    \* struct fat_bpb: what sector 0 may hold
          DirSectors,     \* sectors of the device with directory entries
          Inodes,         \* inodes the caller may have: [sector, offset, attr, cluster, dir, size]
          MaxMounts       \* bound: mounts of the device at a time

FirstCluster == 2

ASSUME WidthAssumption ==
  /\ U16 \in Nat \ {0} /\ U32 \in Nat \ {0} /\ EntryMask \in Nat \ {0}
  /\ EntryMask <= U16 * U16 /\ EntryMask <= U32
  /\ ReservedMin \in 0 .. EntryMask /\ Fat16Max \in Nat /\ Fat12Max \in 0 .. Fat16Max
  /\ Fat16Max + FirstCluster <= U16    \* the last cluster of a FAT16 volume has a number
ASSUME SectorAssumption ==
  /\ EntrySize \in Nat \ {0} /\ MinSector \in Nat /\ MaxSector \in Nat
  /\ SectorSizes \subseteq Nat \ {0}
  /\ DirSectors \subseteq Nat \ {0}
ASSUME BootSectorAssumption ==
  BootSectors \subseteq [sectorSize : Nat, perCluster : Nat, reserved : Nat, fats : Nat,
                         rootEntries : Nat, total16 : 0 .. U32 - 1, total32 : 0 .. U32 - 1,
                         fatSize16 : Nat, fatSize32 : Nat, rootCluster : Nat]
ASSUME InodeAssumption ==
  Inodes \subseteq [sector : DirSectors, offset : Nat, attr : Nat, cluster : Nat,
                    dir : BOOLEAN, size : Nat]
ASSUME MountAssumption == MaxMounts \in Nat

VARIABLES sectorSize,     \* dev->sector_size
          bpb,            \* the boot sector
          disk,           \* sector -> slot -> directory entry
          sb,             \* the superblock: [state, count, fat]
          held,           \* objects allocated for the mount and not released
          scratch,        \* what the scratch buffer holds: slot -> directory entry
          last            \* the last call on an inode: [on, answer]

vars == <<sectorSize, bpb, disk, sb, held, scratch, last>>

NoVolume == [type |-> "unknown", total |-> 0, rootStart |-> 0, dataStart |-> 0,
             clusters |-> 0, perCluster |-> 0, rootSize |-> 0, rootCluster |-> 0]
NoSuper  == [state |-> "none", count |-> 0, fat |-> NoVolume]
NoCall   == [on |-> {}, answer |-> "none"]
Slots    == 0 .. (sectorSize \div EntrySize) - 1

\* An entry as it was before any write; sector 0 read as entries is the boot sector.
OldEntry(s, k) == [name |-> <<s, k>>, attr |-> 0, low |-> 0, high |-> 0, size |-> 0]
OldSector(s)   == [k \in Slots |-> OldEntry(s, k)]

Init ==
  /\ sectorSize \in SectorSizes
  /\ bpb \in BootSectors
  /\ disk = [s \in DirSectors |-> OldSector(s)]
  /\ sb = NoSuper
  /\ held = {}
  /\ scratch = OldSector(0)
  /\ last = NoCall

-----------------------------------------------------------------------------
(* fat_parse_bpb, in the widths of its variables. *)

TotalSectors(b) == IF b.total16 # 0 THEN b.total16 ELSE b.total32
FatSize(b)      == IF b.fatSize16 # 0 THEN b.fatSize16 ELSE b.fatSize32
RootSectors(b)  == (b.rootEntries * EntrySize + b.sectorSize - 1) \div b.sectorSize
AfterFats(b)    == (b.reserved + b.fats * FatSize(b)) % U32
DataStart(b)    == (AfterFats(b) + RootSectors(b)) % U32

\* (mutant) Sectors before the data region are counted as clusters.
AllClusters(b) == TotalSectors(b) \div b.perCluster

ClusterCount(b) == (TotalSectors(b) - DataStart(b)) \div b.perCluster

TypeOf(n) == IF n <= Fat12Max THEN "fat12" ELSE IF n <= Fat16Max THEN "fat16" ELSE "fat32"

Parses(b) ==
  /\ b.sectorSize # 0 /\ b.perCluster # 0
  /\ TotalSectors(b) > DataStart(b)

\* fat_cluster_lba
ClusterLba(start, perCluster, c) == (start + (c - FirstCluster) * perCluster) % U32

\* What fat_fill_super asks of the root cluster of a FAT32 volume.
RootClusterValid(b) ==
  /\ b.rootCluster >= FirstCluster
  /\ b.rootCluster < ReservedMin
  /\ b.rootCluster < ClusterCount(b) + FirstCluster

Accepted(b) ==
  /\ b.sectorSize = sectorSize
  /\ Parses(b)
  /\ TypeOf(ClusterCount(b)) = "fat32" => RootClusterValid(b)

\* struct fat_super, and what the root inode gets.
VolumeOf(b) ==
  LET t == TypeOf(ClusterCount(b))
  IN  [type |-> t, total |-> TotalSectors(b), dataStart |-> DataStart(b),
       clusters |-> ClusterCount(b), perCluster |-> b.perCluster,
       rootStart |-> IF t # "fat32" THEN AfterFats(b)
                     ELSE ClusterLba(DataStart(b), b.perCluster, b.rootCluster),
       rootSize |-> IF t = "fat32" THEN 0 ELSE b.rootEntries * EntrySize,
       rootCluster |-> IF t = "fat32" THEN b.rootCluster ELSE 0]

-----------------------------------------------------------------------------
(* sget and fat_fill_super *)

\* The objects a mount allocates, in order, and the two checks between them.
Failures == {"super", "device", "private", "scratch", "read", "volume", "inode", "root"}

\* What has been allocated when the step named at fails.
AllocatedBefore(at) ==
  CASE at = "super" -> {}
    [] at \in {"device", "private"} -> {"super"}
    [] at = "scratch" -> {"super", "private"}
    [] at \in {"read", "volume", "inode"} -> {"super", "private", "scratch"}
    [] at = "root" -> {"super", "private", "scratch", "inode"}

\* (mutant) The inode is taken off its list and not freed.
CleanupKeepsInode(at) ==
  {"super", "private"} \cup (IF at \in {"private", "scratch"} THEN {} ELSE {"scratch"})

\* What the error paths release: the label fail the private data and the
\* buffer, and the caller, sget, the superblock.
Cleanup(at) ==
  {"super"} \cup (CASE at \in {"super", "device", "private"} -> {}
                    [] at = "scratch" -> {"private"}
                    [] at \in {"read", "volume", "inode"} -> {"private", "scratch"}
                    [] at = "root" -> {"private", "scratch", "inode"})

\* The sectors of the device are neither too small nor too large.
DeviceUsable == sectorSize >= MinSector /\ sectorSize <= MaxSector

\* A number that no device has fails as an unusable device does.
CanFail(at) ==
  /\ at \in {"super", "device"} \/ DeviceUsable
  /\ at = "volume" => ~ Accepted(bpb)
  /\ at \in {"inode", "root"} => Accepted(bpb)

MountFails(at) ==
  /\ sb.state = "none" /\ MaxMounts > 0
  /\ CanFail(at)
  /\ held' = (held \cup AllocatedBefore(at)) \ Cleanup(at)
  /\ UNCHANGED <<sectorSize, bpb, disk, sb, scratch, last>>

\* fat_fill_super succeeds.  The buffer it has read the boot sector into
\* becomes the scratch buffer.
MountNew ==
  /\ sb.state = "none" /\ MaxMounts > 0
  /\ DeviceUsable /\ Accepted(bpb)
  /\ sb' = [state |-> "live", count |-> 1, fat |-> VolumeOf(bpb)]
  /\ held' = held \cup {"super", "private", "scratch", "inode", "root"}
  /\ scratch' = OldSector(0)
  /\ UNCHANGED <<sectorSize, bpb, disk, last>>

\* sget finds the superblock of the device, used or not, and shares it.
MountAgain ==
  /\ sb.state = "live" /\ sb.count < MaxMounts
  /\ sb' = [sb EXCEPT !.count = @ + 1]
  /\ UNCHANGED <<sectorSize, bpb, disk, held, scratch, last>>

-----------------------------------------------------------------------------
(* deactivate_super and fat_kill_super *)

Mounted == sb.state = "live" /\ sb.count > 0

\* The last user leaves everything as it is: deactivate_super has its test
\* the wrong way round.
UmountLast ==
  /\ Mounted /\ sb.count = 1
  /\ sb' = [sb EXCEPT !.count = 0]
  /\ UNCHANGED <<sectorSize, bpb, disk, held, scratch, last>>

\* Any other kills the superblock.  fat_kill_super releases the private data,
\* which fills it with poison, and takes from it the address of the buffer;
\* vpfree ignores that address, as it is not that of a page.  The root entry
\* is released by dput, with its inode, and then once more, and the inode by
\* an address inside its object: what the object allocator does afterwards
\* is undefined, and the model ends here.
UmountShared ==
  /\ Mounted /\ sb.count > 1
  /\ held' = held \ {"super", "private", "inode", "root"}
  /\ sb' = [NoSuper EXCEPT !.state = "dead"]
  /\ UNCHANGED <<sectorSize, bpb, disk, scratch, last>>

-----------------------------------------------------------------------------
(* fat_lookup and fat_write_inode *)

\* fat_lookup reads the sector of the directory's own entry, which for the
\* root is sector 0, and answers -EIO whatever it finds; dlookup deletes the
\* entry it has made for the name.
Lookup ==
  /\ Mounted
  /\ scratch' \in {scratch, OldSector(0)}
  /\ last' = [on |-> {}, answer |-> "EIO"]
  /\ UNCHANGED <<sectorSize, bpb, disk, sb, held>>

\* The root directory has no entry of its own.
WriteRoot ==
  /\ Mounted
  /\ last' = [on |-> {}, answer |-> "ok"]
  /\ UNCHANGED <<sectorSize, bpb, disk, sb, held, scratch>>

\* The inode can be written as an entry of a sector.
Writable(i) ==
  /\ i.offset % EntrySize = 0
  /\ i.offset + EntrySize <= sectorSize
  /\ i.dir \/ i.size < U32

SlotOf(i) == i.offset \div EntrySize

\* (mutant) A cluster number is not split for FAT32.
HighZero(c) == 0

\* first_cluster_high
High(c) == IF sb.fat.type = "fat32" THEN (c % EntryMask) \div U16 ELSE 0

\* The fields fat_write_inode changes in the entry e.
Encoded(e, i) ==
  [e EXCEPT !.attr = i.attr, !.low = i.cluster % U16, !.high = High(i.cluster),
            !.size = IF i.dir THEN 0 ELSE i.size % U32]

\* What the buffer holds when it is written back.
Changed(buffer, i) == [buffer EXCEPT ![SlotOf(i)] = Encoded(@, i)]

WriteRefused(i) ==
  /\ Mounted /\ ~ Writable(i)
  /\ last' = [on |-> {i}, answer |-> "EINVAL"]
  /\ UNCHANGED <<sectorSize, bpb, disk, sb, held, scratch>>

\* A failed read may have filled the buffer or not.
WriteReadFails(i) ==
  /\ Mounted /\ Writable(i)
  /\ scratch' \in {scratch, disk[i.sector]}
  /\ last' = [on |-> {i}, answer |-> "EIO"]
  /\ UNCHANGED <<sectorSize, bpb, disk, sb, held>>

\* (mutant) The answer of block_read is dropped: the buffer may hold another sector.
WriteStale(i) ==
  /\ Mounted /\ Writable(i)
  /\ \E buffer \in {scratch, disk[i.sector]} : scratch' = Changed(buffer, i)
  /\ disk' = [disk EXCEPT ![i.sector] = scratch']
  /\ last' = [on |-> {i}, answer |-> "ok"]
  /\ UNCHANGED <<sectorSize, bpb, sb, held>>

\* The sector is read, changed and written back; a failed write may have
\* reached the disk or not.
WriteInode(i) ==
  /\ Mounted /\ Writable(i)
  /\ scratch' = Changed(disk[i.sector], i)
  /\ LET written == [disk EXCEPT ![i.sector] = scratch']
     IN  \/ disk' = written /\ last' = [on |-> {i}, answer |-> "ok"]
         \/ disk' \in {disk, written} /\ last' = [on |-> {i}, answer |-> "EIO"]
  /\ UNCHANGED <<sectorSize, bpb, sb, held>>

Next ==
  \/ \E at \in Failures : MountFails(at)
  \/ MountNew \/ MountAgain \/ UmountLast \/ UmountShared
  \/ Lookup \/ WriteRoot
  \/ \E i \in Inodes : WriteRefused(i) \/ WriteReadFails(i) \/ WriteInode(i)

Spec == Init /\ [][Next]_vars

-----------------------------------------------------------------------------
(* Correctness *)

Objects == {"super", "private", "scratch", "inode", "root"}

Entries == [name : ({0} \cup DirSectors) \X Slots, attr : {0} \cup {i.attr : i \in Inodes},
            low : 0 .. U16 - 1, high : 0 .. U16 - 1, size : 0 .. U32 - 1]

TypeOK ==
  /\ sectorSize \in SectorSizes /\ bpb \in BootSectors
  /\ sb.state \in {"none", "live", "dead"} /\ sb.count \in 0 .. MaxMounts
  /\ sb = [state |-> sb.state, count |-> sb.count, fat |-> sb.fat]
  /\ held \subseteq Objects
  /\ disk \in [DirSectors -> [Slots -> Entries]]
  /\ scratch \in [Slots -> Entries]

\* A mount that fails, at whichever step, keeps nothing (what
\* tests/fat_root_test.c counts for some of the steps), and one that succeeds
\* holds everything as long as the superblock lives.  A superblock that is
\* killed loses its scratch pages and nothing else, although
\* docs/block-fat-integration-plan.md:78 asks for "private-state cleanup".
HeldExactly ==
  /\ sb.state = "none" => held = {}
  /\ sb.state = "live" => held = Objects
  /\ sb.state = "dead" => held = {"scratch"}

\* The clusters of a mounted volume, as fat_cluster_lba places them in 32 bits,
\* lie behind one another in the data region and end on the volume.
ClustersOnVolume ==
  sb.state = "live" =>
    LET v == sb.fat
        lba(c) == ClusterLba(v.dataStart, v.perCluster, c)
    IN  \A c \in FirstCluster .. v.clusters + 1 :
          /\ lba(c) + v.perCluster <= v.total
          /\ lba(c) >= v.dataStart
          /\ \A d \in FirstCluster .. c - 1 : lba(d) + v.perCluster <= lba(c)

\* However reads and writes fail, and whatever the shared buffer held before,
\* a call on an inode changes no entry but the inode's, and not its name.
OnlyOwnEntry ==
  [][\A s \in DirSectors : \A k \in Slots :
       disk'[s][k] # disk[s][k] =>
         /\ \E i \in last'.on : i.sector = s /\ SlotOf(i) = k
         /\ disk'[s][k].name = disk[s][k].name]_vars

\* The cluster an entry names, read as the volume's type has it.
ClusterIn(e) == IF sb.fat.type = "fat32" THEN e.high * U16 + e.low ELSE e.low

\* When fat_write_inode has answered 0, the entry on the disk says what the
\* inode says, for every cluster the volume has.
AnsweredIsWritten ==
  sb.state = "live" /\ last.answer = "ok" =>
    \A i \in last.on :
      LET e == disk[i.sector][SlotOf(i)]
      IN  /\ i.cluster \in FirstCluster .. sb.fat.clusters + 1 /\ i.cluster < ReservedMin =>
               ClusterIn(e) = i.cluster
          /\ e.attr = i.attr
          /\ ~ i.dir => e.size = i.size
=============================================================================
