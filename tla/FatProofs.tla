----------------------------- MODULE FatProofs -----------------------------
(***************************************************************************)
(* Proofs about Fat, for every width, sector size, boot sector and set of  *)
(* inodes: types, what a mount holds, what a write may change and where    *)
(* the clusters of a mounted volume lie.                                   *)
(***************************************************************************)
EXTENDS Fat, TLAPS

-----------------------------------------------------------------------------
(* What a mount holds. *)

\* The mount holds what it should initially.
LEMMA HeldInit == Init => HeldExactly
BY DEF Init, HeldExactly, NoSuper

\* Every call keeps HeldExactly; of the calls that fail, because each error
\* path releases what had been allocated before it.
LEMMA HeldStep == HeldExactly /\ [Next]_vars => HeldExactly'
<1> SUFFICES ASSUME HeldExactly, [Next]_vars PROVE HeldExactly'
  OBVIOUS
<1>1. ASSUME NEW at \in Failures, MountFails(at) PROVE HeldExactly'
  <2>1. AllocatedBefore(at) \subseteq Cleanup(at)
    BY <1>1 DEF Failures, AllocatedBefore, Cleanup
  <2>2. held' = {}
    BY <1>1, <2>1 DEF MountFails, HeldExactly
  <2> QED
    BY <1>1, <2>2 DEF MountFails, HeldExactly
<1>2. CASE MountNew
  BY <1>2 DEF MountNew, HeldExactly, Objects
<1>3. CASE MountAgain
  BY <1>3 DEF MountAgain, HeldExactly
<1>4. CASE UmountLast
  BY <1>4 DEF UmountLast, HeldExactly
<1>5. CASE UmountShared
  BY <1>5 DEF Mounted, UmountShared, HeldExactly, Objects, NoSuper
<1>6. CASE Lookup \/ WriteRoot
  BY <1>6 DEF Lookup, WriteRoot, HeldExactly
<1>7. ASSUME NEW i \in Inodes, WriteRefused(i) \/ WriteReadFails(i) \/ WriteInode(i)
      PROVE  HeldExactly'
  BY <1>7 DEF WriteRefused, WriteReadFails, WriteInode, HeldExactly
<1>8. CASE UNCHANGED vars
  BY <1>8 DEF vars, HeldExactly
<1> QED
  BY <1>1, <1>2, <1>3, <1>4, <1>5, <1>6, <1>7, <1>8 DEF Next

\* A failed mount keeps nothing, a live superblock holds all its objects, and
\* a dead one loses the scratch pages only, in every reachable state.
THEOREM MountHoldsExactly == Spec => []HeldExactly
BY HeldInit, HeldStep, PTL DEF Spec

-----------------------------------------------------------------------------
(* Types, and what a write may change. *)

\* What fat_write_inode makes of an entry is an entry with the same name: no
\* field is wider than it is on the disk.
LEMMA EncodedEntry ==
  ASSUME NEW e \in Entries, NEW i \in Inodes
  PROVE  Encoded(e, i) \in Entries /\ Encoded(e, i).name = e.name
<1> DEFINE low  == i.cluster % U16
           high == High(i.cluster)
           size == IF i.dir THEN 0 ELSE i.size % U32
<1>1. i \in [sector : DirSectors, offset : Nat, attr : Nat, cluster : Nat,
             dir : BOOLEAN, size : Nat]
  BY InodeAssumption
<1>2. low \in 0 .. U16 - 1
  BY <1>1, WidthAssumption
<1>3. high \in 0 .. U16 - 1
  <2> DEFINE c == i.cluster % EntryMask
  <2>1. c \in 0 .. EntryMask - 1
    BY <1>1, WidthAssumption
  <2>2. c < U16 * U16 /\ c \in Nat
    BY <2>1, WidthAssumption
  <2>3. c \div U16 \in 0 .. U16 - 1
    <3> HIDE DEF c
    <3> QED
      BY <2>2, WidthAssumption
  <2> QED
    BY <2>3, WidthAssumption DEF High
<1>4. size \in 0 .. U32 - 1
  BY <1>1, WidthAssumption
<1>5. Encoded(e, i) = [e EXCEPT !.attr = i.attr, !.low = low, !.high = high, !.size = size]
  BY DEF Encoded
<1> HIDE DEF low, high, size
<1> QED
  BY <1>2, <1>3, <1>4, <1>5, ZenonT(30) DEF Entries

\* Everything has its type initially.
LEMMA TypeInit == Init => TypeOK
<1> SUFFICES ASSUME Init PROVE TypeOK
  OBVIOUS
<1>1. \A s \in {0} \cup DirSectors : OldSector(s) \in [Slots -> Entries]
  BY WidthAssumption DEF OldSector, OldEntry, Entries
<1>2. disk \in [DirSectors -> [Slots -> Entries]] /\ scratch \in [Slots -> Entries]
  BY <1>1 DEF Init
<1> QED
  BY <1>2, MountAssumption DEF Init, TypeOK, NoSuper

\* A sector is still a sector when the entry of an inode is changed in it.
LEMMA ChangedSector ==
  ASSUME NEW b \in [Slots -> Entries], NEW i \in Inodes, SlotOf(i) \in Slots
  PROVE  /\ Changed(b, i) \in [Slots -> Entries]
         /\ \A k \in Slots : Changed(b, i)[k] # b[k] => k = SlotOf(i)
         /\ Changed(b, i)[SlotOf(i)].name = b[SlotOf(i)].name
<1>1. Changed(b, i) = [b EXCEPT ![SlotOf(i)] = Encoded(b[SlotOf(i)], i)]
  BY DEF Changed
<1>2. /\ Encoded(b[SlotOf(i)], i) \in Entries
      /\ Encoded(b[SlotOf(i)], i).name = b[SlotOf(i)].name
  BY EncodedEntry
<1> QED
  BY <1>1, <1>2

\* The entry of an inode that passes the checks is in the sector.
LEMMA WritableSlot ==
  ASSUME NEW i \in Inodes, Writable(i), sectorSize \in SectorSizes
  PROVE  SlotOf(i) \in Slots
<1>1. i.offset \in Nat
  BY InodeAssumption
<1>2. /\ sectorSize \in Nat /\ EntrySize \in Nat \ {0}
      /\ i.offset % EntrySize = 0 /\ i.offset + EntrySize <= sectorSize
  BY SectorAssumption DEF Writable
<1>3. (i.offset + EntrySize) \div EntrySize = i.offset \div EntrySize + 1
  BY <1>1, <1>2
<1>4. (i.offset + EntrySize) \div EntrySize <= sectorSize \div EntrySize
  BY <1>1, <1>2
<1>5. i.offset \div EntrySize \in Nat /\ sectorSize \div EntrySize \in Nat
  BY <1>1, <1>2
<1> QED
  BY <1>3, <1>4, <1>5 DEF SlotOf, Slots

\* Every call keeps the types.
LEMMA TypeStep == TypeOK /\ [Next]_vars => TypeOK'
<1> SUFFICES ASSUME TypeOK, [Next]_vars PROVE TypeOK'
  OBVIOUS
<1> USE MountAssumption
<1>0. ASSUME UNCHANGED <<sectorSize, disk, scratch>>
      PROVE  /\ disk' \in [DirSectors -> [Slots' -> Entries']]
             /\ scratch' \in [Slots' -> Entries']
  <2>1. Slots' = Slots /\ Entries' = Entries
    BY <1>0 DEF Slots, Entries
  <2> QED
    BY <1>0, <2>1 DEF TypeOK
<1>1. OldSector(0) \in [Slots -> Entries]
  BY WidthAssumption DEF OldSector, OldEntry, Entries
<1>2. ASSUME NEW at \in Failures, MountFails(at) PROVE TypeOK'
  <2>1. AllocatedBefore(at) \subseteq Objects
    BY <1>2 DEF Failures, AllocatedBefore, Objects
  <2> QED
    BY <1>0, <1>2, <2>1 DEF MountFails, TypeOK
<1>3. CASE MountNew
  <2>1. Slots' = Slots /\ Entries' = Entries
    BY <1>3 DEF MountNew, Slots, Entries
  <2> QED
    BY <1>1, <1>3, <2>1 DEF MountNew, TypeOK, Objects
<1>4. CASE MountAgain
  <2>1. sb'.state = sb.state /\ sb'.count = sb.count + 1 /\ sb.count < MaxMounts
    BY <1>4 DEF MountAgain, TypeOK
  <2> QED
    BY <1>0, <1>4, <2>1 DEF MountAgain, TypeOK
<1>5. CASE UmountLast
  BY <1>0, <1>5 DEF UmountLast, TypeOK
<1>6. CASE UmountShared
  BY <1>0, <1>6 DEF UmountShared, TypeOK, NoSuper
<1>7. CASE Lookup
  <2>1. Slots' = Slots /\ Entries' = Entries
    BY <1>7 DEF Lookup, Slots, Entries
  <2> QED
    BY <1>1, <1>7, <2>1 DEF Lookup, TypeOK
<1>8. CASE WriteRoot
  BY <1>0, <1>8 DEF WriteRoot, TypeOK
<1>9. ASSUME NEW i \in Inodes, WriteRefused(i) PROVE TypeOK'
  BY <1>0, <1>9 DEF WriteRefused, TypeOK
<1>10. ASSUME NEW i \in Inodes, WriteReadFails(i) PROVE TypeOK'
  <2>1. Slots' = Slots /\ Entries' = Entries
    BY <1>10 DEF WriteReadFails, Slots, Entries
  <2>2. i.sector \in DirSectors
    BY InodeAssumption
  <2> QED
    BY <1>10, <2>1, <2>2 DEF WriteReadFails, TypeOK
<1>11. ASSUME NEW i \in Inodes, WriteInode(i) PROVE TypeOK'
  <2>1. Slots' = Slots /\ Entries' = Entries
    BY <1>11 DEF WriteInode, Slots, Entries
  <2>2. i.sector \in DirSectors /\ SlotOf(i) \in Slots
    BY <1>11, InodeAssumption, WritableSlot DEF WriteInode, TypeOK
  <2>3. scratch' \in [Slots -> Entries]
    BY <1>11, <2>2, ChangedSector DEF WriteInode, TypeOK
  <2>4. disk' \in [DirSectors -> [Slots -> Entries]]
    BY <1>11, <2>2, <2>3 DEF WriteInode, TypeOK
  <2> QED
    BY <1>11, <2>1, <2>3, <2>4 DEF WriteInode, TypeOK
<1>12. CASE UNCHANGED vars
  BY <1>0, <1>12 DEF vars, TypeOK
<1> QED
  BY <1>2, <1>3, <1>4, <1>5, <1>6, <1>7, <1>8, <1>9, <1>10, <1>11, <1>12 DEF Next

\* Every reachable state is typed: no field of an entry is ever wider than
\* the disk has it.
THEOREM TypeCorrect == Spec => []TypeOK
BY TypeInit, TypeStep, PTL DEF Spec

\* The entries a call changes.
LEMMA EntryStep ==
  ASSUME TypeOK, [Next]_vars
  PROVE  [\A s \in DirSectors : \A k \in Slots :
            disk'[s][k] # disk[s][k] =>
              /\ \E i \in last'.on : i.sector = s /\ SlotOf(i) = k
              /\ disk'[s][k].name = disk[s][k].name]_vars
<1>1. ASSUME disk' = disk
      PROVE  \A s \in DirSectors : \A k \in Slots : disk'[s][k] = disk[s][k]
  BY <1>1
<1>2. ASSUME NEW i \in Inodes, WriteInode(i),
             NEW s \in DirSectors, NEW k \in Slots, disk'[s][k] # disk[s][k]
      PROVE  /\ \E j \in last'.on : j.sector = s /\ SlotOf(j) = k
             /\ disk'[s][k].name = disk[s][k].name
  <2>1. i.sector \in DirSectors /\ SlotOf(i) \in Slots
    BY <1>2, InodeAssumption, WritableSlot DEF WriteInode, TypeOK
  <2>2. /\ disk' = [disk EXCEPT ![i.sector] = Changed(disk[i.sector], i)]
        /\ i \in last'.on
    BY <1>2 DEF WriteInode
  <2>3. s = i.sector /\ disk'[s] = Changed(disk[s], i)
    BY <1>2, <2>1, <2>2 DEF TypeOK
  <2>4. disk[s] \in [Slots -> Entries]
    BY <2>1, <2>3 DEF TypeOK
  <2> QED
    BY <1>2, <2>1, <2>2, <2>3, <2>4, ChangedSector
<1>3. ASSUME Next, ~ \E i \in Inodes : WriteInode(i) PROVE disk' = disk
  BY <1>3 DEF Next, MountFails, MountNew, MountAgain, UmountLast, UmountShared, Lookup,
              WriteRoot, WriteRefused, WriteReadFails
<1>4. CASE UNCHANGED vars
  BY <1>1, <1>4 DEF vars
<1>5. CASE Next
  BY <1>1, <1>2, <1>3, <1>5
<1> QED
  BY <1>4, <1>5

\* A call on an inode changes no entry but the inode's, and never its name.
THEOREM WriteChangesOwnEntry == Spec => OnlyOwnEntry
BY TypeCorrect, EntryStep, PTL DEF Spec, OnlyOwnEntry

-----------------------------------------------------------------------------
(* Where the clusters of a mounted volume lie. *)

\* A product grows with its first factor.
LEMMA ProductMonotone ==
  ASSUME NEW a \in Nat, NEW b \in Nat, NEW p \in Nat, a <= b
  PROVE  a * p <= b * p
OBVIOUS

\* n equal parts of a length do not exceed it.
LEMMA PartsFit ==
  ASSUME NEW x \in Nat, NEW p \in Nat \ {0}
  PROVE  /\ x \div p \in Nat
         /\ (x \div p) * p <= x
OBVIOUS

\* 32 bits suffice for the first sector of a cluster: cluster c is the
\* (c - 2)-nd part of the data region and ends on the volume.
LEMMA ClusterPlace ==
  ASSUME NEW T \in 0 .. U32 - 1, NEW D \in Nat, D < T, NEW p \in Nat \ {0},
         NEW c \in 2 .. ((T - D) \div p) + 1
  PROVE  /\ ClusterLba(D, p, c) = D + (c - 2) * p
         /\ ClusterLba(D, p, c) + p <= T
         /\ (c - 2) * p \in Nat
<1> DEFINE n == (T - D) \div p
<1>1. n \in Nat /\ n * p <= T - D
  BY PartsFit
<1>2. c \in 2 .. n + 1
  OBVIOUS
<1> HIDE DEF n
<1>3. c - 2 \in Nat /\ c - 1 \in Nat /\ c - 1 <= n
  BY <1>1, <1>2
<1>4. (c - 1) * p <= T - D
  BY <1>1, <1>3, ProductMonotone
<1>5. (c - 1) * p = (c - 2) * p + p /\ (c - 2) * p \in Nat
  BY <1>3
<1>6. D + (c - 2) * p + p <= T
  BY <1>4, <1>5
<1>7. D + (c - 2) * p \in 0 .. U32 - 1
  BY <1>5, <1>6, WidthAssumption
<1>8. (D + (c - 2) * p) % U32 = D + (c - 2) * p
  <2> DEFINE y == D + (c - 2) * p
  <2> HIDE DEF y
  <2> SUFFICES ASSUME y \in 0 .. U32 - 1 PROVE y % U32 = y
    BY <1>7 DEF y
  <2> QED
    BY WidthAssumption
<1> QED
  BY <1>5, <1>6, <1>8 DEF ClusterLba, FirstCluster

\* What a live superblock knows of its volume is what its boot sector says,
\* and the boot sector is one fat_fill_super accepts.
VolumeIsRead == sb.state = "live" => sb.fat = VolumeOf(bpb) /\ Accepted(bpb)

\* Nothing is mounted initially.
LEMMA VolumeInit == Init => VolumeIsRead
BY DEF Init, VolumeIsRead, NoSuper

\* No call changes the volume of a live superblock.
LEMMA VolumeStep == TypeOK /\ VolumeIsRead /\ [Next]_vars => VolumeIsRead'
<1> SUFFICES ASSUME TypeOK, VolumeIsRead, [Next]_vars PROVE VolumeIsRead'
  OBVIOUS
<1>1. UNCHANGED <<sectorSize, bpb>>
  BY DEF Next, vars, MountFails, MountNew, MountAgain, UmountLast, UmountShared, Lookup,
         WriteRoot, WriteRefused, WriteReadFails, WriteInode
<1>2. (VolumeOf(bpb) = VolumeOf(bpb)' /\ Accepted(bpb) = Accepted(bpb)')
  BY <1>1 DEF VolumeOf, Accepted
<1>3. CASE MountNew
  BY <1>2, <1>3 DEF MountNew, VolumeIsRead
<1>4. CASE UmountShared
  BY <1>4 DEF UmountShared, VolumeIsRead, NoSuper
<1>5. CASE MountAgain \/ UmountLast
  BY <1>2, <1>5 DEF MountAgain, UmountLast, VolumeIsRead, TypeOK
<1>6. CASE UNCHANGED sb
  BY <1>2, <1>6 DEF VolumeIsRead
<1> QED
  BY <1>3, <1>4, <1>5, <1>6
  DEF Next, vars, MountFails, Lookup, WriteRoot, WriteRefused, WriteReadFails, WriteInode

\* The data region starts at a number of 32 bits.
LEMMA VolumeStart ==
  ASSUME TypeOK, VolumeIsRead, sb.state = "live"
  PROVE  DataStart(bpb) \in Nat
<1>1. bpb \in [sectorSize : Nat, perCluster : Nat, reserved : Nat, fats : Nat,
               rootEntries : Nat, total16 : 0 .. U32 - 1, total32 : 0 .. U32 - 1,
               fatSize16 : Nat, fatSize32 : Nat, rootCluster : Nat]
  BY BootSectorAssumption DEF TypeOK
<1>2. AfterFats(bpb) \in Int /\ RootSectors(bpb) \in Int
  <2>1. FatSize(bpb) \in Nat
    BY <1>1 DEF FatSize
  <2>2. bpb.reserved + bpb.fats * FatSize(bpb) \in Nat
    BY <1>1, <2>1
  <2>3. bpb.sectorSize \in Nat \ {0}
    BY <1>1 DEF VolumeIsRead, Accepted, Parses
  <2>4. bpb.rootEntries * EntrySize + bpb.sectorSize - 1 \in Nat
    BY <1>1, <2>3, SectorAssumption
  <2> QED
    BY <2>2, <2>3, <2>4, WidthAssumption DEF AfterFats, RootSectors
<1> QED
  BY <1>2, WidthAssumption DEF DataStart

\* The layout of an accepted boot sector keeps the clusters on the volume.
LEMMA LayoutOnVolume == TypeOK /\ VolumeIsRead => ClustersOnVolume
<1> SUFFICES ASSUME TypeOK, VolumeIsRead, sb.state = "live"
             PROVE  ClustersOnVolume
  BY DEF ClustersOnVolume
<1> DEFINE T == TotalSectors(bpb)
           D == DataStart(bpb)
           p == bpb.perCluster
           n == ClusterCount(bpb)
<1>1. bpb \in [sectorSize : Nat, perCluster : Nat, reserved : Nat, fats : Nat,
               rootEntries : Nat, total16 : 0 .. U32 - 1, total32 : 0 .. U32 - 1,
               fatSize16 : Nat, fatSize32 : Nat, rootCluster : Nat]
  BY BootSectorAssumption DEF TypeOK
<1>2. T \in 0 .. U32 - 1
  BY <1>1 DEF TotalSectors
<1>3. D < T /\ p \in Nat \ {0}
  BY <1>1 DEF VolumeIsRead, Accepted, Parses
<1>4. D \in Nat
  BY VolumeStart
<1>5. /\ sb.fat.dataStart = D /\ sb.fat.perCluster = p /\ sb.fat.total = T
      /\ sb.fat.clusters = n /\ n = (T - D) \div p
  BY DEF VolumeIsRead, VolumeOf, ClusterCount
<1> HIDE DEF T, D, p, n
<1>6. n \in Nat
  BY <1>2, <1>3, <1>4, <1>5, PartsFit
<1>7. SUFFICES ASSUME NEW c \in 2 .. n + 1
      PROVE  /\ ClusterLba(D, p, c) + p <= T
             /\ ClusterLba(D, p, c) >= D
             /\ \A d \in 2 .. c - 1 : ClusterLba(D, p, d) + p <= ClusterLba(D, p, c)
  BY <1>5 DEF ClustersOnVolume, FirstCluster
<1>8. /\ ClusterLba(D, p, c) = D + (c - 2) * p /\ ClusterLba(D, p, c) + p <= T
      /\ (c - 2) * p \in Nat
  BY <1>2, <1>3, <1>4, <1>5, ClusterPlace
<1>9. ASSUME NEW d \in 2 .. c - 1
      PROVE  ClusterLba(D, p, d) + p <= ClusterLba(D, p, c)
  <2>1. d \in 2 .. n + 1 /\ d - 2 \in Nat /\ d - 1 \in Nat /\ c - 2 \in Nat /\ d - 1 <= c - 2
    BY <1>6
  <2>2. ClusterLba(D, p, d) = D + (d - 2) * p /\ (d - 2) * p \in Nat
    BY <1>2, <1>3, <1>4, <1>5, <2>1, ClusterPlace
  <2>3. (d - 1) * p <= (c - 2) * p
    BY <1>3, <2>1, ProductMonotone
  <2>4. (d - 1) * p = (d - 2) * p + p
    BY <1>3, <2>1
  <2> QED
    BY <1>3, <1>4, <1>8, <2>2, <2>3, <2>4
<1> QED
  BY <1>3, <1>4, <1>8, <1>9

\* The clusters of every mounted volume lie behind one another in its data
\* region and end on it, whatever the boot sector says, although the sums
\* are made in 32 bits and are not checked.
THEOREM ClustersStayOnVolume == Spec => []ClustersOnVolume
<1>1. Init => TypeOK /\ VolumeIsRead
  BY TypeInit, VolumeInit
<1>2. (TypeOK /\ VolumeIsRead) /\ [Next]_vars => (TypeOK /\ VolumeIsRead)'
  BY TypeStep, VolumeStep
<1> QED
  BY <1>1, <1>2, LayoutOnVolume, PTL DEF Spec

-----------------------------------------------------------------------------
(* What an answer of fat_write_inode means. *)

\* A number put together from its quotient and its remainder.
LEMMA QuotientRemainder ==
  ASSUME NEW c \in Nat, NEW u \in Nat \ {0}, NEW q, NEW r, q = c \div u, r = c % u
  PROVE  q * u + r = c
<1>1. q \in Nat /\ r \in Nat
  OBVIOUS
<1>2. c % u = c - u * (c \div u)
  OBVIOUS
<1>3. r = c - u * q
  BY <1>2, Zenon
<1> QED
  BY <1>1, <1>3

\* A number below the modulus is its own remainder.
LEMMA SmallRemainder ==
  ASSUME NEW u \in Nat \ {0}, NEW c \in 0 .. u - 1
  PROVE  c % u = c
OBVIOUS

\* A volume that is not FAT32 has no cluster above 16 bits.
LEMMA SmallVolume ==
  ASSUME NEW n \in Nat, TypeOf(n) # "fat32"
  PROVE  n + 1 < U16
<1>1. n <= Fat16Max
  BY WidthAssumption DEF TypeOf
<1> QED
  BY <1>1, WidthAssumption DEF FirstCluster

\* The number of clusters of a mounted volume.
LEMMA ClustersCounted ==
  ASSUME TypeOK, VolumeIsRead, sb.state = "live"
  PROVE  sb.fat.clusters \in Nat /\ sb.fat.type = TypeOf(sb.fat.clusters)
<1> DEFINE T == TotalSectors(bpb)
           D == DataStart(bpb)
<1>1. bpb \in [sectorSize : Nat, perCluster : Nat, reserved : Nat, fats : Nat,
               rootEntries : Nat, total16 : 0 .. U32 - 1, total32 : 0 .. U32 - 1,
               fatSize16 : Nat, fatSize32 : Nat, rootCluster : Nat]
  BY BootSectorAssumption DEF TypeOK
<1>2. T \in Nat /\ D < T /\ bpb.perCluster \in Nat \ {0}
  BY <1>1, WidthAssumption DEF TotalSectors, VolumeIsRead, Accepted, Parses
<1>3. D \in Nat
  BY VolumeStart
<1>4. sb.fat.clusters = (T - D) \div bpb.perCluster /\ sb.fat.type = TypeOf(sb.fat.clusters)
  BY DEF VolumeIsRead, VolumeOf, ClusterCount
<1> HIDE DEF T, D
<1> QED
  BY <1>2, <1>3, <1>4, PartsFit

\* What the entry of an inode says after fat_write_inode has changed it.
Says(e, i) ==
  /\ i.cluster \in FirstCluster .. sb.fat.clusters + 1 /\ i.cluster < ReservedMin =>
       ClusterIn(e) = i.cluster
  /\ e.attr = i.attr
  /\ ~ i.dir => e.size = i.size

\* The two halves of a cluster number are the number again.
LEMMA EncodedSays ==
  ASSUME TypeOK, VolumeIsRead, sb.state = "live", NEW e \in Entries, NEW i \in Inodes, Writable(i)
  PROVE  Says(Encoded(e, i), i)
<1>1. i \in [sector : DirSectors, offset : Nat, attr : Nat, cluster : Nat,
             dir : BOOLEAN, size : Nat]
  BY InodeAssumption
<1>2. /\ Encoded(e, i).attr = i.attr /\ Encoded(e, i).low = i.cluster % U16
      /\ Encoded(e, i).high = High(i.cluster)
      /\ Encoded(e, i).size = IF i.dir THEN 0 ELSE i.size % U32
  BY DEF Encoded, Entries
<1>3. ~ i.dir => Encoded(e, i).size = i.size
  <2>1. ~ i.dir => i.size \in 0 .. U32 - 1
    BY <1>1, WidthAssumption DEF Writable
  <2> QED
    BY <1>2, <2>1, SmallRemainder, WidthAssumption
<1>4. ASSUME i.cluster \in FirstCluster .. sb.fat.clusters + 1, i.cluster < ReservedMin
      PROVE  ClusterIn(Encoded(e, i)) = i.cluster
  <2>1. CASE sb.fat.type = "fat32"
    <3>1. i.cluster \in 0 .. EntryMask - 1
      BY <1>1, <1>4, WidthAssumption
    <3>2. i.cluster % EntryMask = i.cluster
      BY <3>1, SmallRemainder, WidthAssumption
    <3>3. High(i.cluster) = i.cluster \div U16
      BY <2>1, <3>2 DEF High
    <3>4. Encoded(e, i).high = i.cluster \div U16 /\ Encoded(e, i).low = i.cluster % U16
      BY <1>2, <3>3
    <3>5. ClusterIn(Encoded(e, i)) = Encoded(e, i).high * U16 + Encoded(e, i).low
      BY <2>1 DEF ClusterIn
    <3> QED
      BY <1>1, <3>4, <3>5, QuotientRemainder, WidthAssumption
  <2>2. CASE sb.fat.type # "fat32"
    <3>1. sb.fat.clusters \in Nat /\ sb.fat.clusters + 1 < U16
      BY <2>2, ClustersCounted, SmallVolume
    <3>2. i.cluster \in 0 .. U16 - 1
      BY <1>1, <1>4, <3>1, WidthAssumption
    <3> QED
      BY <1>2, <2>2, <3>2, SmallRemainder, WidthAssumption DEF ClusterIn
  <2> QED
    BY <2>1, <2>2
<1> QED
  BY <1>2, <1>3, <1>4 DEF Says

\* No inode has been written before anything is mounted.
WrittenInv == AnsweredIsWritten /\ (sb.state = "none" => last.on = {})

LEMMA WrittenInit == Init => WrittenInv
BY DEF Init, WrittenInv, AnsweredIsWritten, NoSuper, NoCall

\* What the last answer says of the disk stays true until the next call on an inode.
LEMMA WrittenStep ==
  TypeOK /\ VolumeIsRead /\ WrittenInv /\ [Next]_vars => WrittenInv'
<1> SUFFICES ASSUME TypeOK, VolumeIsRead, WrittenInv, [Next]_vars PROVE WrittenInv'
  OBVIOUS
<1>1. CASE MountNew \/ \E at \in Failures : MountFails(at)
  BY <1>1 DEF MountNew, MountFails, WrittenInv, AnsweredIsWritten
<1>2. CASE UmountShared
  BY <1>2 DEF UmountShared, Mounted, WrittenInv, AnsweredIsWritten, NoSuper
<1>3. CASE MountAgain \/ UmountLast \/ UNCHANGED vars
  <2>1. /\ sb'.state = sb.state /\ sb'.fat = sb.fat /\ UNCHANGED <<disk, last>>
    BY <1>3 DEF MountAgain, UmountLast, vars, TypeOK
  <2> QED
    BY <2>1 DEF WrittenInv, AnsweredIsWritten, ClusterIn
<1>4. CASE Lookup \/ WriteRoot
  BY <1>4 DEF Lookup, WriteRoot, Mounted, WrittenInv, AnsweredIsWritten
<1>5. ASSUME NEW i \in Inodes, WriteRefused(i) \/ WriteReadFails(i) PROVE WrittenInv'
  BY <1>5 DEF WriteRefused, WriteReadFails, Mounted, WrittenInv, AnsweredIsWritten
<1>6. ASSUME NEW i \in Inodes, WriteInode(i) PROVE WrittenInv'
  <2>1. sb' = sb /\ sb.state = "live" /\ Writable(i) /\ last'.on = {i}
    BY <1>6 DEF WriteInode, Mounted
  <2>2. i.sector \in DirSectors /\ SlotOf(i) \in Slots
    BY <2>1, InodeAssumption, WritableSlot DEF TypeOK
  <2>3. ASSUME last'.answer = "ok" PROVE Says(disk'[i.sector][SlotOf(i)], i)
    <3>1. disk' = [disk EXCEPT ![i.sector] = Changed(disk[i.sector], i)]
      BY <1>6, <2>3 DEF WriteInode
    <3>2. disk[i.sector] \in [Slots -> Entries] /\ disk'[i.sector] = Changed(disk[i.sector], i)
      BY <2>2, <3>1 DEF TypeOK
    <3>3. Changed(disk[i.sector], i)[SlotOf(i)] = Encoded(disk[i.sector][SlotOf(i)], i)
      BY <2>2, <3>2 DEF Changed
    <3>4. disk[i.sector][SlotOf(i)] \in Entries
      BY <2>2, <3>2
    <3> QED
      BY <2>1, <3>2, <3>3, <3>4, EncodedSays
  <2> QED
    BY <2>1, <2>3 DEF WrittenInv, AnsweredIsWritten, Says, ClusterIn
<1> QED
  BY <1>1, <1>2, <1>3, <1>4, <1>5, <1>6 DEF Next

\* When fat_write_inode answers 0 the entry on the disk names the inode's
\* cluster, its attributes and its size, for every cluster number a volume of
\* any type may have and for every width of the two halves of a number.
THEOREM AnswersAreWritten == Spec => []AnsweredIsWritten
<1>1. Init => TypeOK /\ VolumeIsRead /\ WrittenInv
  BY TypeInit, VolumeInit, WrittenInit
<1>2. (TypeOK /\ VolumeIsRead /\ WrittenInv) /\ [Next]_vars
        => (TypeOK /\ VolumeIsRead /\ WrittenInv)'
  BY TypeStep, VolumeStep, WrittenStep
<1>3. WrittenInv => AnsweredIsWritten
  BY DEF WrittenInv
<1> QED
  BY <1>1, <1>2, <1>3, PTL DEF Spec

=============================================================================
