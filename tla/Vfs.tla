-------------------------------- MODULE Vfs --------------------------------
(***************************************************************************)
(* The virtual file system over ramfs: the tree of directory entries, the  *)
(* mounts grafted on it and the walk of a path (fs/vfs.c, fs/namei.c,      *)
(* fs/ramfs.c, include/tiny/fs/vfs.h).                                     *)
(*                                                                         *)
(* The kernel has no threads and calls this from one place: each call is a *)
(* step.  The caller has one path at a time, cwd, the result of its last   *)
(* walk, and applies the operations to it as init_ramfs and _kentry do.    *)
(* It is well behaved: it creates a name it has not found, mounts and      *)
(* removes what a path of plain names has led to, and mounts no directory  *)
(* twice.                                                                  *)
(***************************************************************************)
EXTENDS Integers, Sequences, FiniteSets

CONSTANTS Names,          \* components of paths
          Dentries,       \* pool of struct dentry, positive numbers
          Mounts,         \* pool of struct mount, positive numbers
          Devices,        \* block devices a mount may name, 0 standing for none
          MaxPath,        \* bound: components of a path
          MaxTaken        \* bound: references of walks to one entry

ASSUME VfsAssumption ==
  /\ Dentries \subseteq Nat \ {0} /\ Mounts \subseteq Nat \ {0}
  /\ 1 \in Dentries /\ 1 \in Mounts
  /\ Names \cap {".", "..", ""} = {}
  /\ Devices \subseteq Nat \ {0}
  /\ MaxPath \in Nat \ {0} /\ MaxTaken \in Nat

VARIABLES live,           \* allocated dentries, droot not among them
          name, parent,   \* of a dentry; a root's parent is itself
          kind,           \* its inode: "dir", "file", or "none" for a negative one
          ref,            \* its reference count
          mounted,        \* dentries with DCACHE_MOUNTED
          mnt,            \* mount -> [parent, point, root] or Unused
          super,          \* root dentry -> the device and count of its superblock
          cwd,            \* the caller's path: [mnt, dentry, plain], or what the walk answered
          taken           \* history: references walks have taken, by dentry

tree   == <<live, name, parent, kind, ref>>
mounts == <<mounted, mnt, super>>
vars   == <<tree, mounts, cwd, taken>>

DRoot   == 0
RootMnt == 1
NoSuper == [dev |-> 0, count |-> 0]
Unused  == [parent |-> 0, point |-> 0, root |-> 0]
NoPath  == [mnt |-> 0, dentry |-> 0, plain |-> FALSE, status |-> "none"]

LiveMounts  == {m \in Mounts : mnt[m] # Unused}

\* The free slot a pool hands out: slots have no identity, so the least one.
NextOf(free) == {x \in free : \A y \in free : x <= y}

Children(d) == {c \in live : c # d /\ parent[c] = d}

\* init_vfs and the mount of init_ramfs: ramfs on droot.
Init ==
  /\ live = {1}
  /\ name = [d \in Dentries |-> ""] /\ parent = [d \in Dentries |-> d]
  /\ kind = [d \in Dentries |-> IF d = 1 THEN "dir" ELSE "none"]
  /\ ref  = [d \in Dentries |-> IF d = 1 THEN 1 ELSE 0]
  /\ mounted = {DRoot}
  /\ mnt = [m \in Mounts |-> IF m = RootMnt
                               THEN [parent |-> RootMnt, point |-> DRoot, root |-> 1] ELSE Unused]
  /\ super = [d \in Dentries |-> IF d = 1 THEN [dev |-> 0, count |-> 1] ELSE NoSuper]
  /\ cwd = NoPath
  /\ taken = [d \in Dentries |-> 0]

-----------------------------------------------------------------------------
(* namei.c: path_walk *)

\* vfs_lookup_mount
MountAt(d) == CHOOSE m \in LiveMounts : mnt[m].point = d

\* dlookup among the cached entries and the children.
Entries(d, c) == {e \in Children(d) : name[e] = c}

\* (mutant) A mount is not noticed.
PivotNowhere(p) == p

\* Pivot to what is mounted on the entry, once.
Pivot(p) ==
  IF p.dentry \in mounted
    THEN [p EXCEPT !.mnt = MountAt(p.dentry), !.dentry = mnt[MountAt(p.dentry)].root]
    ELSE p

\* (mutant) The mount that is left is kept.
UpKeepsMount(p) ==
  IF p.dentry = mnt[p.mnt].root
    THEN [p EXCEPT !.dentry = mnt[mnt[p.mnt].parent].root]
    ELSE [p EXCEPT !.dentry = parent[p.dentry]]

\* `..` at the root of a mount leads to the root of the mount it is in, not to
\* the directory above the mountpoint.
Up(p) ==
  IF p.dentry = mnt[p.mnt].root
    THEN [p EXCEPT !.mnt = mnt[p.mnt].parent, !.dentry = mnt[mnt[p.mnt].parent].root]
    ELSE [p EXCEPT !.dentry = parent[p.dentry]]

\* A name that no child has: ramfs_lookup finds nothing, and the new negative
\* entry is deleted again.  An entry that is no directory has no operation to
\* ask: the call through NULL is a page fault, and the kernel stops.
Down(p, c) ==
  LET q == Pivot(p)
  IN  IF Entries(q.dentry, c) # {}
        THEN [q EXCEPT !.dentry = CHOOSE e \in Entries(q.dentry, c) : TRUE]
        ELSE [q EXCEPT !.status = IF kind[q.dentry] = "dir" THEN "ENODIR" ELSE "fault"]

StepTo(p, c) ==
  IF p.status # "ok" \/ c = "." THEN p
  ELSE IF c = ".." THEN Up(p) ELSE Down(p, c)

Start == [mnt |-> RootMnt, dentry |-> mnt[RootMnt].root, plain |-> TRUE, status |-> "ok"]

\* Where the walk of path is after each component.
Walked(path) ==
  LET at[i \in 0 .. Len(path)] == IF i = 0 THEN Start ELSE StepTo(at[i - 1], path[i])
  IN  at

Plain(path) == \A i \in DOMAIN path : path[i] \in Names

\* Every successful lookup takes a reference on what it finds, and no step of
\* the walk gives one back.
Lookups(path, at, d) ==
  Cardinality({i \in DOMAIN path : path[i] \in Names /\ at[i].status = "ok" /\ at[i].dentry = d})

Paths ==
  {<<"">>} \cup UNION {[1 .. n -> Names \cup {".", ".."}] : n \in 1 .. MaxPath}

PathWalk(path) ==
  LET at    == Walked(path)
      end   == at[Len(path)]
      found == [d \in Dentries |-> Lookups(path, at, d)]
  IN  /\ cwd.status # "fault"
      /\ \A d \in Dentries : taken[d] + found[d] <= MaxTaken
      /\ taken' = [d \in Dentries |-> taken[d] + found[d]]
      /\ ref'   = [d \in Dentries |-> ref[d] + found[d]]
      /\ cwd' = IF end.status = "ok" THEN [end EXCEPT !.plain = Plain(path)]
                ELSE [NoPath EXCEPT !.status = end.status]
      /\ UNCHANGED <<live, name, parent, kind, mounts>>

-----------------------------------------------------------------------------
(* vfs.c: the operations on cwd *)

Here == cwd.status = "ok"

\* dalloc of a named entry under d.
Dalloc(e, d, c, k) ==
  /\ live'   = live \cup {e}
  /\ name'   = [name EXCEPT ![e] = c]
  /\ parent' = [parent EXCEPT ![e] = d]
  /\ kind'   = [kind EXCEPT ![e] = k]
  /\ ref'    = [ref EXCEPT ![e] = 1, ![d] = @ + 1]

\* The inode ramfs makes below d for an entry of kind k: a parent that is no
\* directory has no operations, and the entry stays negative.
NewKind(d, k) == IF kind[d] = "dir" THEN k ELSE "none"

\* dalloc of the negative entry, then vfs_create or vfs_mkdir.
Create(e, c, k) ==
  /\ Here /\ Entries(cwd.dentry, c) = {}
  /\ e \in NextOf(Dentries \ live)
  /\ Dalloc(e, cwd.dentry, c, NewKind(cwd.dentry, k))
  /\ UNCHANGED <<mounts, cwd, taken>>

\* (mutant) The parent keeps the reference.
DdeleteKeepsParent(d) ==
  /\ live' = live \ {d}
  /\ ref' = [ref EXCEPT ![d] = 0] /\ taken' = [taken EXCEPT ![d] = 0]
  /\ kind' = [kind EXCEPT ![d] = "none"]
  /\ name' = [name EXCEPT ![d] = ""] /\ parent' = [parent EXCEPT ![d] = d]

\* ddelete, whatever the count of references says.
Ddelete(d) ==
  /\ live' = live \ {d}
  /\ ref'  = [ref EXCEPT ![d] = 0, ![parent[d]] = @ - 1]
  /\ taken' = [taken EXCEPT ![d] = 0]
  /\ kind' = [kind EXCEPT ![d] = "none"]
  /\ name' = [name EXCEPT ![d] = ""]
  /\ parent' = [parent EXCEPT ![d] = d]

\* (mutant) A mountpoint may be removed.
RemovableMounted(d) == kind[d] = "dir" /\ Children(d) = {}

Removable(d) == kind[d] = "dir" /\ d \notin mounted /\ Children(d) = {}

\* vfs_rmdir and ramfs_rmdir
Rmdir ==
  /\ Here /\ cwd.plain
  /\ Removable(cwd.dentry) /\ Ddelete(cwd.dentry)
  /\ cwd' = NoPath
  /\ UNCHANGED mounts

\* sget: the superblock that holds the device already, or a new one with a root
\* of its own (alloc_super, ramfs_fill_super).
Sget(dev) ==
  LET held == {r \in live : dev # 0 /\ super[r].dev = dev}
  IN  IF held # {} THEN held ELSE NextOf(Dentries \ live)

\* deactivate_super of the superblock rooted at r, used count times: the test of
\* the count is the wrong way round.  The last user leaves everything allocated,
\* and any other kills the superblock.  Its root is then released by
\* ramfs_kill_super and once more by deactivate_super: what the object allocator
\* makes of the second release is left out, and the root is free either way.
Outlives(count) == count = 1

\* vfs_mount.  On a mountpoint that is no directory graft_tree fails, and the
\* superblock is deactivated.
Mount(m, r, dev) ==
  /\ Here /\ cwd.plain
  /\ kind[cwd.dentry] # "none" /\ cwd.dentry \notin mounted
  /\ m \in NextOf(Mounts \ LiveMounts)
  /\ r \in Sget(dev)
  /\ LET uses  == super[r].count + 1
         grafted == kind[cwd.dentry] = "dir"
         lives == grafted \/ Outlives(uses)
     IN  /\ live'  = IF lives THEN live \cup {r} ELSE live \ {r}
         /\ kind'  = [kind EXCEPT ![r] = IF lives THEN "dir" ELSE "none"]
         /\ ref'   = [ref EXCEPT ![r] = IF ~ lives THEN 0 ELSE IF r \in live THEN @ ELSE 1]
         /\ super' = [super EXCEPT ![r] =
                        IF ~ lives THEN NoSuper
                        ELSE [dev |-> dev, count |-> IF grafted THEN uses ELSE 0]]
         /\ IF grafted
              THEN /\ mounted' = mounted \cup {cwd.dentry}
                   /\ mnt' = [mnt EXCEPT ![m] = [parent |-> cwd.mnt, point |-> cwd.dentry, root |-> r]]
              ELSE UNCHANGED <<mounted, mnt>>
  /\ UNCHANGED <<name, parent, cwd, taken>>

Submounts(m) == {s \in LiveMounts : s # m /\ mnt[s].parent = m}

\* vfs_umount; the mount at droot has no entry a path could lead to.
Umount ==
  /\ Here /\ cwd.dentry \in mounted
  /\ LET m == MountAt(cwd.dentry)
         r == mnt[m].root
         lives == Outlives(super[r].count)
     IN  /\ Submounts(m) = {}
         /\ mnt' = [mnt EXCEPT ![m] = Unused]
         /\ mounted' = mounted \ {cwd.dentry}
         /\ super' = IF lives THEN [super EXCEPT ![r].count = @ - 1] ELSE [super EXCEPT ![r] = NoSuper]
         /\ live'  = IF lives THEN live ELSE live \ {r}
         /\ ref'   = [ref EXCEPT ![r] = IF lives THEN @ ELSE 0]
         /\ kind'  = [kind EXCEPT ![r] = IF lives THEN @ ELSE "none"]
  /\ UNCHANGED <<name, parent, cwd, taken>>

Next ==
  \/ \E path \in Paths : PathWalk(path)
  \/ \E e \in Dentries, c \in Names, k \in {"dir", "file"} : Create(e, c, k)
  \/ \E m \in Mounts, r \in Dentries, dev \in Devices \cup {0} : Mount(m, r, dev)
  \/ Rmdir \/ Umount

Spec == Init /\ [][Next]_vars

-----------------------------------------------------------------------------
(* Correctness *)

\* The count of an entry is its own reference, one for each child and one for
\* each walk that has been through it: it never falls to zero, and the entry
\* is never freed, under a child.
RefsExact ==
  \A d \in live : ref[d] = 1 + Cardinality(Children(d)) + taken[d]

\* No parent, mountpoint, root, parent mount or place a walk has reached is
\* freed while it is pointed at, over removals and unmounts in any order, and
\* the flag of an entry says exactly whether something is mounted there.
NothingDangles ==
  /\ \A d \in live : parent[d] \in live
  /\ \A m \in LiveMounts :
       /\ mnt[m].root \in live /\ mnt[m].point \in live \cup {DRoot}
       /\ mnt[m].parent \in LiveMounts
  /\ mounted = {mnt[m].point : m \in LiveMounts}
  /\ cwd.status = "ok" => cwd.dentry \in live /\ cwd.mnt \in LiveMounts

\* A superblock lives as long as a mount uses it: unmounting one of two mounts
\* of a device leaves the other its root.  It is what sget shares a superblock
\* for, and what docs/block-fat-integration-plan.md:94 asks of deactivate_super.
MountedRootsLive == \A m \in LiveMounts : mnt[m].root \in live

\* The entries from d up to the root of its tree.
Ancestors(d) ==
  LET up[i \in 0 .. Cardinality(Dentries)] == IF i = 0 THEN d ELSE parent[up[i - 1]]
  IN  {up[i] : i \in DOMAIN up}

Inside(p) == mnt[p.mnt].root \in Ancestors(p.dentry)

\* namei.c:42, path_walk: from wherever a walk may be, each component takes it to
\* an entry in the tree of the mount it goes on with.  That mount decides where
\* the next `..` leaves a tree and which superblock a caller works on.
WalkStaysInItsMount ==
  \A m \in LiveMounts, d \in live, c \in Names \cup {".", ".."} :
    LET p == [Start EXCEPT !.mnt = m, !.dentry = d]
        q == StepTo(p, c)
    IN  Inside(p) /\ q.status = "ok" => Inside(q)

\* The entries a path of plain names denotes when each mounted root stands
\* for the entry it covers.
Covering(d) == IF d \in mounted THEN mnt[MountAt(d)].root ELSE d
Denoted(path) ==
  LET set[i \in 0 .. Len(path)] ==
        IF i = 0 THEN {Covering(mnt[RootMnt].root)}
        ELSE {Covering(e) : e \in {e \in live : /\ name[e] = path[i]
                                              /\ parent[e] \in set[i - 1] \ {e}}}
  IN  set[Len(path)]

PlainPaths == UNION {[1 .. n -> Names] : n \in 1 .. MaxPath}

\* A walk along plain names ends at the entry the path denotes, or at the
\* entry its root covers, and fails when there is none.
WalkFollowsMounts ==
  \A path \in PlainPaths :
    LET p == Walked(path)[Len(path)]
    IN  Denoted(path) = IF p.status = "ok" THEN {Covering(p.dentry)} ELSE {}
=============================================================================
