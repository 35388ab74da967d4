----------------------------- MODULE VfsProofs -----------------------------
(***************************************************************************)
(* What the tree of entries and mounts keeps for any names, entries,       *)
(* mounts and lengths of paths, when no two mounts share a device: the     *)
(* reference counts are exact, nothing that is pointed at is freed, and a  *)
(* walk ends where the path leads.                                         *)
(***************************************************************************)
EXTENDS Vfs, FiniteSetTheorems, WellFoundedInduction, TLAPS

-----------------------------------------------------------------------------
(* The inductive invariant.  No device is shared, so that every superblock  *)
(* has a root of its own and outlives its mount.                           *)

TypeInv ==
  /\ live \subseteq Dentries /\ IsFiniteSet(live)
  /\ name \in [Dentries -> Names \cup {""}] /\ parent \in [Dentries -> Dentries]
  /\ kind \in [Dentries -> {"dir", "file", "none"}]
  /\ ref \in [Dentries -> Int] /\ taken \in [Dentries -> Nat]
  /\ mnt \in [Mounts -> [parent : Mounts \cup {0}, point : Dentries \cup {0}, root : Dentries \cup {0}]]
  /\ super \in [Dentries -> [dev : {0}, count : Nat]]
  /\ cwd \in [mnt : Nat, dentry : Nat, plain : BOOLEAN, status : {"none", "ok", "ENODIR", "fault"}]

\* An entry that is allocated hangs below another; one that is not has nothing.
IsRoot(d) == parent[d] = d
EntryInv ==
  /\ \A d \in live : parent[d] \in live
  /\ \A d \in Dentries \ live : IsRoot(d) /\ taken[d] = 0 /\ super[d] = NoSuper
  /\ \A d \in live : ~ IsRoot(d) => super[d] = NoSuper

\* No two entries of a directory have one name.
NameInv ==
  \A d, e \in live :
    ~ IsRoot(d) /\ ~ IsRoot(e) /\ parent[d] = parent[e] /\ name[d] = name[e] => d = e

MountInv ==
  /\ RootMnt \in LiveMounts /\ mnt[RootMnt].parent = RootMnt /\ mnt[RootMnt].point = DRoot
  /\ \A m \in LiveMounts :
       /\ mnt[m].root \in live /\ IsRoot(mnt[m].root) /\ super[mnt[m].root].count = 1
       /\ mnt[m].parent \in LiveMounts
       /\ m # RootMnt => mnt[m].point \in live /\ mnt[m].parent # m
  /\ \A m, n \in LiveMounts : m # n => mnt[m].root # mnt[n].root /\ mnt[m].point # mnt[n].point
  /\ mounted = {mnt[m].point : m \in LiveMounts}

\* t names the root of each entry's tree: a mountpoint is in the tree of the
\* mount its own mount is in, and so is a path.
Labels(t) ==
  /\ \A d \in live : t[d] = t[parent[d]] /\ (IsRoot(d) => t[d] = d)
  /\ \A m \in LiveMounts \ {RootMnt} : t[mnt[m].point] = mnt[mnt[m].parent].root
  /\ cwd.status = "ok" => t[cwd.dentry] = mnt[cwd.mnt].root
LabelInv == \E t \in [Dentries -> Dentries] : Labels(t)

PathInv ==
  cwd.status = "ok" =>
    /\ cwd.dentry \in live /\ cwd.mnt \in LiveMounts
    /\ cwd.plain => ~ IsRoot(cwd.dentry)

IInv == TypeInv /\ EntryInv /\ NameInv /\ MountInv /\ LabelInv /\ PathInv /\ RefsExact

-----------------------------------------------------------------------------
(* Induction and recursive functions. *)

\* A set of numbers with 0 and every successor has all numbers: otherwise the
\* least of the others would be a successor of a member.
LEMMA NatSetInduction ==
  ASSUME NEW T, 0 \in T, \A n \in Nat : n \in T => n + 1 \in T
  PROVE  Nat \subseteq T
<1> DEFINE U == Nat \ T
           R == OpToRel(<, Nat)
<1> SUFFICES ASSUME U # {} PROVE FALSE
  OBVIOUS
<1>1. IsWellFoundedOn(R, Nat)
  BY NatLessThanWellFounded
<1>2. \A x, y \in Nat : <<x, y>> \in R <=> x < y
  BY DEF OpToRel
<1> HIDE DEF R
<1>3. PICK x \in U : \A y \in U : ~ (<<y, x>> \in R)
  <2>1. U \subseteq Nat
    OBVIOUS
  <2> HIDE DEF U
  <2> QED
    BY <1>1, <2>1, WFMin
<1>4. x # 0 /\ x - 1 \in Nat /\ <<x - 1, x>> \in R
  BY <1>2
<1>5. x - 1 \in T
  BY <1>3, <1>4
<1> QED
  BY <1>3, <1>4, <1>5

\* What follows a value of S at each number, and a sequence of values of S that
\* starts with a and goes on so.
Steps(n, S)           == [S \X (1 .. n) -> S]
Follows(n, S, a, F)   == {f \in [0 .. n -> S] : f[0] = a /\ \A i \in 1 .. n : f[i] = F[<<f[i - 1], i>>]}

\* A function on 0 .. n can be defined by recursion.
LEMMA RecursiveFunction ==
  ASSUME NEW n \in Nat, NEW S, NEW a \in S, NEW F \in Steps(n, S)
  PROVE  Follows(n, S, a, F) # {}
<1> USE DEF Steps
<1> SUFFICES \E f \in [0 .. n -> S] : f[0] = a /\ \A i \in 1 .. n : f[i] = F[<<f[i - 1], i>>]
  BY DEF Follows
<1> DEFINE Upto(k) == \E f \in [0 .. k -> S] : f[0] = a /\ \A i \in 1 .. k : f[i] = F[<<f[i - 1], i>>]
           T == {k \in Nat : k <= n => Upto(k)}
<1>1. 0 \in T
  <2>1. [i \in 0 .. 0 |-> a] \in [0 .. 0 -> S] /\ [i \in 0 .. 0 |-> a][0] = a
    OBVIOUS
  <2>2. 1 .. 0 = {}
    OBVIOUS
  <2> QED
    BY <2>1, <2>2
<1>2. ASSUME NEW k \in Nat, k \in T PROVE k + 1 \in T
  <2> SUFFICES ASSUME k + 1 <= n PROVE Upto(k + 1)
    OBVIOUS
  <2>1. PICK f \in [0 .. k -> S] : f[0] = a /\ \A i \in 1 .. k : f[i] = F[<<f[i - 1], i>>]
    BY <1>2
  <2> DEFINE g == [i \in 0 .. k + 1 |-> IF i = k + 1 THEN F[<<f[k], k + 1>>] ELSE f[i]]
  <2>2. F[<<f[k], k + 1>>] \in S
    <3>1. <<f[k], k + 1>> \in S \X (1 .. n)
      OBVIOUS
    <3> QED
      BY <3>1
  <2>3. \A i \in 0 .. k : g[i] = f[i] /\ f[i] \in S
    OBVIOUS
  <2>4. g[k + 1] = F[<<f[k], k + 1>>]
    OBVIOUS
  <2>5. g \in [0 .. k + 1 -> S]
    BY <2>2
  <2> HIDE DEF g
  <2>6. ASSUME NEW i \in 1 .. k + 1 PROVE g[i] = F[<<g[i - 1], i>>]
    <3>1. i - 1 \in 0 .. k /\ g[i - 1] = f[i - 1]
      BY <2>3
    <3>2. CASE i = k + 1
      BY <2>4, <3>1, <3>2
    <3>3. CASE i \in 1 .. k
      BY <2>1, <2>3, <3>1, <3>3
    <3> QED
      BY <3>2, <3>3
  <2>7. g[0] = a
    BY <2>1, <2>3
  <2> QED
    BY <2>5, <2>6, <2>7
<1>3. Nat \subseteq T
  <2> HIDE DEF T
  <2> QED
    BY <1>1, <1>2, NatSetInduction
<1>4. n \in T
  BY <1>3, Zenon
<1> QED
  BY <1>4

-----------------------------------------------------------------------------
(* Where a walk may be. *)

Places(t) ==
  {p \in [mnt : LiveMounts, dentry : live, plain : {TRUE}, status : {"ok", "ENODIR", "fault"}] :
     t[p.dentry] = mnt[p.mnt].root}

LEMMA MountedAt ==
  ASSUME MountInv, NEW d \in mounted
  PROVE  MountAt(d) \in LiveMounts /\ mnt[MountAt(d)].point = d
<1>1. \E m \in LiveMounts : mnt[m].point = d
  BY DEF MountInv
<1> QED
  BY <1>1 DEF MountAt

LEMMA PivotPlace ==
  ASSUME EntryInv, MountInv, NEW t, Labels(t), NEW p \in Places(t)
  PROVE  /\ Pivot(p) \in Places(t) /\ Pivot(p).status = p.status
         /\ Pivot(p).dentry = Covering(p.dentry)
<1>1. CASE p.dentry \in mounted
  <2> DEFINE m == MountAt(p.dentry)
  <2>1. m \in LiveMounts /\ mnt[m].root \in live /\ t[mnt[m].root] = mnt[m].root
    BY <1>1, MountedAt DEF MountInv, Labels
  <2>2. Pivot(p) = [p EXCEPT !.mnt = m, !.dentry = mnt[m].root]
    BY <1>1 DEF Pivot
  <2> HIDE DEF m
  <2>3. Pivot(p) \in Places(t) /\ Pivot(p).status = p.status /\ Pivot(p).dentry = mnt[m].root
    BY <2>1, <2>2 DEF Places
  <2> QED
    BY <1>1, <2>3 DEF Covering, m
<1>2. CASE p.dentry \notin mounted
  BY <1>2 DEF Pivot, Covering
<1> QED
  BY <1>1, <1>2

\* Each component leads from a place to a place, and a name to no root.
LEMMA StepPlace ==
  ASSUME EntryInv, MountInv, NEW t, Labels(t), NEW p \in Places(t), NEW c
  PROVE  /\ StepTo(p, c) \in Places(t)
         /\ c \in Names /\ StepTo(p, c).status = "ok" => ~ IsRoot(StepTo(p, c).dentry)
<1>0. /\ p.mnt \in LiveMounts /\ p.dentry \in live /\ t[p.dentry] = mnt[p.mnt].root
      /\ p = [mnt |-> p.mnt, dentry |-> p.dentry, plain |-> TRUE, status |-> p.status]
  BY DEF Places
<1>1. Up(p) \in Places(t)
  <2>1. CASE p.dentry = mnt[p.mnt].root
    <3> DEFINE m == mnt[p.mnt].parent
    <3>1. m \in LiveMounts /\ mnt[m].root \in live /\ t[mnt[m].root] = mnt[m].root
      BY <1>0 DEF MountInv, Labels
    <3>2. Up(p) = [p EXCEPT !.mnt = m, !.dentry = mnt[m].root]
      BY <2>1 DEF Up
    <3> HIDE DEF m
    <3> QED
      BY <3>1, <3>2 DEF Places
  <2>2. CASE p.dentry # mnt[p.mnt].root
    <3>1. parent[p.dentry] \in live /\ t[parent[p.dentry]] = mnt[p.mnt].root
      BY <1>0 DEF EntryInv, Labels
    <3>2. Up(p) = [p EXCEPT !.dentry = parent[p.dentry]]
      BY <2>2 DEF Up
    <3> QED
      BY <1>0, <3>1, <3>2 DEF Places
  <2> QED
    BY <2>1, <2>2
<1>2. Down(p, c) \in Places(t) /\ (Down(p, c).status = "ok" /\ p.status = "ok" => ~ IsRoot(Down(p, c).dentry))
  <2> DEFINE q == Pivot(p)
             e == CHOOSE e \in Entries(q.dentry, c) : TRUE
  <2>1. q \in Places(t)
    BY PivotPlace
  <2>2. CASE Entries(q.dentry, c) # {}
    <3>1. e \in Entries(q.dentry, c)
      BY <2>2
    <3>2. e \in live /\ e # q.dentry /\ parent[e] = q.dentry
      BY <3>1 DEF Entries, Children
    <3>3. t[e] = t[q.dentry] /\ ~ IsRoot(e)
      BY <3>2 DEF Labels, IsRoot
    <3>4. Down(p, c) = [q EXCEPT !.dentry = e]
      BY <2>2 DEF Down
    <3> HIDE DEF e, q
    <3> QED
      BY <2>1, <3>2, <3>3, <3>4 DEF Places
  <2>3. CASE Entries(q.dentry, c) = {}
    <3>1. Down(p, c) = [q EXCEPT !.status = IF kind[q.dentry] = "dir" THEN "ENODIR" ELSE "fault"]
      BY <2>3 DEF Down
    <3> HIDE DEF q
    <3> QED
      BY <2>1, <3>1 DEF Places
  <2> QED
    BY <2>2, <2>3
<1>3. c \in Names => c # "." /\ c # ".."
  BY VfsAssumption
<1> QED
  BY <1>1, <1>2, <1>3 DEF StepTo

LEMMA WalkPlaces ==
  ASSUME EntryInv, MountInv, NEW t, Labels(t), NEW path, Len(path) \in Nat
  PROVE  LET at == Walked(path)
         IN  /\ at \in [0 .. Len(path) -> Places(t)] /\ at[0] = Start
             /\ \A i \in 1 .. Len(path) : at[i] = StepTo(at[i - 1], path[i])
<1> DEFINE n == Len(path)
           F == [x \in Places(t) \X (1 .. n) |-> StepTo(x[1], path[x[2]])]
<1>1. Start \in Places(t)
  <2>1. RootMnt \in LiveMounts /\ mnt[RootMnt].root \in live
        /\ t[mnt[RootMnt].root] = mnt[RootMnt].root
    BY DEF MountInv, Labels
  <2> QED
    BY <2>1 DEF Start, Places
<1>2. F \in Steps(n, Places(t))
  <2>1. \A x \in Places(t) \X (1 .. n) : x[1] \in Places(t)
    OBVIOUS
  <2>2. \A x \in Places(t) \X (1 .. n) : StepTo(x[1], path[x[2]]) \in Places(t)
    BY <2>1, StepPlace
  <2> QED
    BY <2>2 DEF Steps
<1>3. PICK f \in [0 .. n -> Places(t)] : f[0] = Start /\ \A i \in 1 .. n : f[i] = F[<<f[i - 1], i>>]
  <2> HIDE DEF F
  <2>1. Follows(n, Places(t), Start, F) # {}
    BY <1>1, <1>2, RecursiveFunction
  <2> QED
    BY <2>1 DEF Follows
<1>4. ASSUME NEW i \in 1 .. n PROVE f[i] = StepTo(f[i - 1], path[i])
  <2>1. <<f[i - 1], i>> \in Places(t) \X (1 .. n)
    OBVIOUS
  <2> QED
    BY <1>3, <2>1
<1>5. f = [i \in 0 .. n |-> IF i = 0 THEN Start ELSE StepTo(f[i - 1], path[i])]
  BY <1>3, <1>4
<1>6. Walked(path) = [i \in 0 .. n |-> IF i = 0 THEN Start ELSE StepTo(Walked(path)[i - 1], path[i])]
  BY <1>5 DEF Walked
<1> DEFINE at == Walked(path)
           T == {k \in Nat : k <= n => at[k] \in Places(t)}
<1>7. at[0] = Start /\ \A i \in 1 .. n : at[i] = StepTo(at[i - 1], path[i])
  BY <1>6
<1> HIDE DEF at
<1>8. 0 \in T
  BY <1>1, <1>7
<1>9. ASSUME NEW k \in Nat, k \in T PROVE k + 1 \in T
  <2> SUFFICES ASSUME k + 1 <= n PROVE at[k + 1] \in Places(t)
    OBVIOUS
  <2>1. at[k] \in Places(t) /\ at[k + 1] = StepTo(at[k], path[k + 1])
    BY <1>7, <1>9
  <2> QED
    BY <2>1, StepPlace
<1>10. Nat \subseteq T
  <2> HIDE DEF T
  <2> QED
    BY <1>8, <1>9, NatSetInduction
<1>11. \A i \in 0 .. n : at[i] \in Places(t)
  BY <1>10
<1>12. at \in [0 .. n -> Places(t)]
  <2>1. at = [i \in 0 .. n |-> at[i]]
    BY <1>6 DEF at
  <2> QED
    BY <1>11, <2>1
<1> QED
  BY <1>7, <1>12 DEF at

-----------------------------------------------------------------------------
(* The invariant holds at first and every step keeps it. *)

LEMMA InitInvariant ==
  ASSUME Init PROVE IInv
<1>1. LiveMounts = {RootMnt} /\ RootMnt \in Mounts
  BY VfsAssumption DEF Init, LiveMounts, RootMnt, Unused, DRoot
<1>2. \A d \in live : Children(d) = {} /\ IsRoot(d)
  BY VfsAssumption DEF Init, Children, IsRoot
<1>3. mnt[RootMnt] = [parent |-> RootMnt, point |-> DRoot, root |-> 1]
  BY <1>1 DEF Init
<1>4. TypeInv
  <2>1. IsFiniteSet(live) /\ live \subseteq Dentries
    BY FS_Singleton, VfsAssumption DEF Init
  <2>2. mnt \in [Mounts -> [parent : Mounts \cup {0}, point : Dentries \cup {0}, root : Dentries \cup {0}]]
    BY VfsAssumption DEF Init, Unused, DRoot, RootMnt
  <2>3. super \in [Dentries -> [dev : {0}, count : Nat]]
    BY DEF Init, NoSuper
  <2>4. name \in [Dentries -> Names \cup {""}] /\ parent \in [Dentries -> Dentries]
        /\ kind \in [Dentries -> {"dir", "file", "none"}]
    BY DEF Init
  <2>5. ref \in [Dentries -> Int] /\ taken \in [Dentries -> Nat]
    <3>1. \A d \in Dentries : (IF d = 1 THEN 1 ELSE 0) \in Int
      OBVIOUS
    <3> QED
      BY <3>1 DEF Init
  <2>6. cwd \in [mnt : Nat, dentry : Nat, plain : BOOLEAN, status : {"none", "ok", "ENODIR", "fault"}]
    BY DEF Init, NoPath
  <2> QED
    BY <2>1, <2>2, <2>3, <2>4, <2>5, <2>6 DEF TypeInv
<1>5. EntryInv /\ NameInv
  BY VfsAssumption DEF Init, EntryInv, NameInv, IsRoot
<1>6. MountInv
  <2>1. super[1].count = 1 /\ 1 \in live /\ mounted = {DRoot}
    BY VfsAssumption DEF Init
  <2>2. mnt[RootMnt].parent = RootMnt /\ mnt[RootMnt].point = DRoot /\ mnt[RootMnt].root = 1
    BY <1>3
  <2>3. {mnt[m].point : m \in LiveMounts} = {DRoot}
    BY <1>1, <2>2
  <2>4. \A m \in LiveMounts : m = RootMnt
    BY <1>1
  <2> QED
    BY <1>1, <1>2, <2>1, <2>2, <2>3, <2>4 DEF MountInv
<1>7. cwd.status # "ok"
  BY DEF Init, NoPath
<1>8. LabelInv
  <2>1. Labels([d \in Dentries |-> 1])
    <3>1. live = {1} /\ 1 \in Dentries /\ parent[1] = 1
      BY VfsAssumption DEF Init
    <3> QED
      BY <1>1, <1>7, <3>1 DEF Labels, IsRoot
  <2>2. [d \in Dentries |-> 1] \in [Dentries -> Dentries]
    BY VfsAssumption
  <2> QED
    BY <2>1, <2>2, Zenon DEF LabelInv
<1>9. RefsExact
  <2>1. \A d \in live : Cardinality(Children(d)) = 0
    BY <1>2, FS_EmptySet
  <2>2. \A d \in live : ref[d] = 1 /\ taken[d] = 0
    BY VfsAssumption DEF Init
  <2>3. \A d \in live : ref[d] = 1 + Cardinality(Children(d)) + taken[d]
    BY <2>1, <2>2
  <2> QED
    BY <2>3, Zenon DEF RefsExact
<1> QED
  BY <1>4, <1>5, <1>6, <1>7, <1>8, <1>9 DEF IInv, PathInv

LEMMA ChildrenFinite ==
  ASSUME TypeInv, NEW d
  PROVE  IsFiniteSet(Children(d)) /\ Cardinality(Children(d)) \in Nat
BY FS_Subset, FS_CardinalityType DEF TypeInv, Children

\* The walk of a path: cwd is a place, and below the root if the path is plain.
LEMMA PathWalkInvariant ==
  ASSUME IInv, NEW path \in Paths, PathWalk(path) PROVE IInv'
<1> USE DEF IInv
<1>0. PICK n \in Nat \ {0} : DOMAIN path = 1 .. n /\ Len(path) = n
  <2>1. CASE path = <<"">>
    <3>1. DOMAIN <<"">> = 1 .. 1 /\ Len(<<"">>) = 1
      OBVIOUS
    <3>2. DOMAIN path = 1 .. 1 /\ Len(path) = 1
      BY <2>1, <3>1, Zenon
    <3>3. 1 \in Nat \ {0}
      OBVIOUS
    <3> QED
      BY <3>2, <3>3, Zenon
  <2>2. CASE \E k \in 1 .. MaxPath : path \in [1 .. k -> Names \cup {".", ".."}]
    <3>1. PICK k \in 1 .. MaxPath : path \in [1 .. k -> Names \cup {".", ".."}]
      BY <2>2
    <3>2. k \in Nat \ {0}
      <4>1. MaxPath \in Nat
        BY VfsAssumption
      <4> QED
        BY <4>1
    <3>3. DOMAIN path = 1 .. k
      BY <3>1
    <3>4. Len(path) = k
      BY <3>2, <3>3
    <3> QED
      BY <3>2, <3>3, <3>4
  <2> QED
    BY <2>1, <2>2 DEF Paths
<1> DEFINE at == Walked(path)
           end == at[n]
           found == [d \in Dentries |-> Lookups(path, at, d)]
<1>1. PICK t \in [Dentries -> Dentries] : Labels(t)
  BY DEF LabelInv
<1>2. /\ at \in [0 .. n -> Places(t)]
      /\ \A i \in 1 .. n : at[i] = StepTo(at[i - 1], path[i])
  BY <1>0, <1>1, WalkPlaces
<1>3. end \in Places(t) /\ (end.status = "ok" /\ Plain(path) => ~ IsRoot(end.dentry))
  <2>1. n \in 1 .. n /\ at[n - 1] \in Places(t)
    BY <1>2
  <2>2. at[n] = StepTo(at[n - 1], path[n])
    BY <1>2, <2>1
  <2>3. Plain(path) => path[n] \in Names
    BY <1>0, <2>1 DEF Plain
  <2> QED
    BY <1>1, <2>1, <2>2, <2>3, StepPlace
<1>4. found \in [Dentries -> Nat]
  <2> SUFFICES ASSUME NEW d \in Dentries PROVE Lookups(path, at, d) \in Nat
    OBVIOUS
  <2> HIDE DEF at
  <2> DEFINE X == {i \in DOMAIN path : path[i] \in Names /\ at[i].status = "ok" /\ at[i].dentry = d}
  <2>1. IsFiniteSet(1 .. n)
    BY FS_Interval
  <2>2. X \subseteq 1 .. n
    BY <1>0
  <2>3. IsFiniteSet(X)
    BY <2>1, <2>2, FS_Subset
  <2>4. Cardinality(X) \in Nat
    BY <2>3, FS_CardinalityType
  <2> QED
    BY <2>4 DEF Lookups
<1>5. /\ taken' = [d \in Dentries |-> taken[d] + found[d]]
      /\ ref' = [d \in Dentries |-> ref[d] + found[d]]
      /\ cwd' = IF end.status = "ok" THEN [end EXCEPT !.plain = Plain(path)]
                ELSE [NoPath EXCEPT !.status = end.status]
      /\ UNCHANGED <<live, name, parent, kind, mounts>>
  BY <1>0 DEF PathWalk
<1> HIDE DEF found, end, at
<1>6. UNCHANGED <<live, name, parent, kind, mounted, mnt, super>>
  BY <1>5 DEF mounts
<1>7. /\ end.mnt \in LiveMounts /\ end.dentry \in live /\ t[end.dentry] = mnt[end.mnt].root
      /\ end = [mnt |-> end.mnt, dentry |-> end.dentry, plain |-> TRUE, status |-> end.status]
      /\ end.status \in {"ok", "ENODIR", "fault"}
  BY <1>3 DEF Places
<1>8. /\ cwd'.status = "ok" => end.status = "ok" /\ cwd'.mnt = end.mnt /\ cwd'.dentry = end.dentry
                               /\ cwd'.plain = Plain(path)
      /\ cwd' \in [mnt : Nat, dentry : Nat, plain : BOOLEAN, status : {"none", "ok", "ENODIR", "fault"}]
  <2>1. CASE end.status = "ok"
    <3>1. cwd' = [mnt |-> end.mnt, dentry |-> end.dentry, plain |-> Plain(path), status |-> "ok"]
      BY <1>5, <1>7, <2>1
    <3>2. end.mnt \in Nat /\ end.dentry \in Nat
      BY <1>7, VfsAssumption DEF LiveMounts, TypeInv
    <3>3. Plain(path) \in BOOLEAN
      BY DEF Plain
    <3> QED
      BY <2>1, <3>1, <3>2, <3>3
  <2>2. CASE end.status # "ok"
    BY <1>5, <1>7, <2>2 DEF NoPath
  <2> QED
    BY <2>1, <2>2
<1>9. TypeInv'
  <2>1. ref' \in [Dentries -> Int] /\ taken' \in [Dentries -> Nat]
    <3>1. \A d \in Dentries : ref[d] \in Int /\ taken[d] \in Nat /\ found[d] \in Nat
      BY <1>4 DEF TypeInv
    <3>2. \A d \in Dentries : ref[d] + found[d] \in Int /\ taken[d] + found[d] \in Nat
      BY <3>1
    <3> QED
      BY <1>5, <3>2
  <2> QED
    BY <1>6, <1>8, <2>1 DEF TypeInv
<1>10. EntryInv' /\ NameInv' /\ MountInv'
  <2>1. \A d \in Dentries \ live : found[d] = 0
    <3> SUFFICES ASSUME NEW d \in Dentries \ live PROVE found[d] = 0
      OBVIOUS
    <3>1. \A i \in DOMAIN path : at[i] \in Places(t)
      BY <1>0, <1>2
    <3>2. \A p \in Places(t) : p.dentry # d
      BY DEF Places
    <3>3. {i \in DOMAIN path : path[i] \in Names /\ at[i].status = "ok" /\ at[i].dentry = d} = {}
      BY <3>1, <3>2
    <3> QED
      BY <3>3, FS_EmptySet DEF Lookups, found
  <2>2. \A d \in Dentries \ live : taken'[d] = 0
    BY <1>5, <2>1 DEF EntryInv
  <2> QED
    BY <1>6, <2>2 DEF EntryInv, NameInv, MountInv, IsRoot, LiveMounts
<1>11. LabelInv' /\ PathInv'
  <2>1. Labels(t)'
    BY <1>1, <1>6, <1>7, <1>8 DEF Labels, IsRoot, LiveMounts
  <2>2. PathInv'
    BY <1>3, <1>6, <1>7, <1>8 DEF PathInv, IsRoot, LiveMounts
  <2> QED
    BY <1>1, <2>1, <2>2 DEF LabelInv
<1>12. RefsExact'
  <2> SUFFICES ASSUME NEW d \in live
               PROVE  ref'[d] = 1 + Cardinality(Children(d)') + taken'[d]
    BY <1>6 DEF RefsExact
  <2>1. Children(d)' = Children(d)
    BY <1>6 DEF Children
  <2>2. Cardinality(Children(d)) \in Nat /\ ref[d] \in Int /\ taken[d] \in Nat /\ found[d] \in Nat
    BY <1>4, ChildrenFinite DEF TypeInv
  <2>3. ref'[d] = ref[d] + found[d] /\ taken'[d] = taken[d] + found[d]
    BY <1>5 DEF TypeInv
  <2>4. ref[d] = 1 + Cardinality(Children(d)) + taken[d]
    BY DEF RefsExact
  <2> QED
    BY <2>1, <2>2, <2>3, <2>4
<1> QED
  BY <1>9, <1>10, <1>11, <1>12

\* A new entry: one child more for the directory, of a name it did not have.
LEMMA CreateInvariant ==
  ASSUME IInv, NEW e \in Dentries, NEW c \in Names, NEW k \in {"dir", "file"}, Create(e, c, k)
  PROVE  IInv'
<1> USE DEF IInv
<1>0. PICK d : d = cwd.dentry
  OBVIOUS
<1>1. e \in Dentries \ live /\ d \in live /\ d \in Dentries /\ e # d /\ Entries(d, c) = {}
  BY <1>0 DEF Create, NextOf, Here, PathInv, TypeInv
<1>2. IsRoot(e) /\ taken[e] = 0 /\ super[e] = NoSuper /\ \A x \in live : parent[x] # e
  BY <1>1 DEF EntryInv
<1>3. /\ live' = live \cup {e} /\ name' = [name EXCEPT ![e] = c]
      /\ parent' = [parent EXCEPT ![e] = d] /\ kind' = [kind EXCEPT ![e] = NewKind(d, k)]
      /\ ref' = [ref EXCEPT ![e] = 1, ![d] = @ + 1]
      /\ UNCHANGED <<mounted, mnt, super, cwd, taken>>
  BY <1>0 DEF Create, Dalloc, mounts
<1>4. parent'[e] = d /\ name'[e] = c /\ \A x \in live : x # e /\ parent'[x] = parent[x] /\ name'[x] = name[x]
  BY <1>1, <1>3 DEF TypeInv
<1>5. LiveMounts' = LiveMounts
  BY <1>3 DEF LiveMounts
<1>6. TypeInv'
  <2>1. live' \subseteq Dentries /\ IsFiniteSet(live')
    BY <1>1, <1>3, FS_AddElement DEF TypeInv
  <2>2. ref' \in [Dentries -> Int]
    <3>1. ref \in [Dentries -> Int] /\ ref[d] \in Int
      BY <1>1 DEF TypeInv
    <3>2. ref[d] + 1 \in Int
      BY <3>1
    <3> QED
      BY <1>1, <1>3, <3>1, <3>2
  <2>3. kind' \in [Dentries -> {"dir", "file", "none"}]
    BY <1>3 DEF TypeInv, NewKind
  <2>4. name' \in [Dentries -> Names \cup {""}] /\ parent' \in [Dentries -> Dentries]
    BY <1>1, <1>3 DEF TypeInv
  <2> QED
    BY <1>3, <2>1, <2>2, <2>3, <2>4 DEF TypeInv
<1>7. EntryInv'
  <2>1. \A x \in live' : parent'[x] \in live'
    BY <1>1, <1>3, <1>4 DEF EntryInv
  <2>2. \A x \in Dentries \ live' : parent'[x] = x /\ taken'[x] = 0 /\ super'[x] = NoSuper
    BY <1>3 DEF EntryInv, IsRoot, TypeInv
  <2>3. \A x \in live' : parent'[x] # x => super'[x] = NoSuper
    BY <1>2, <1>3, <1>4 DEF EntryInv, IsRoot
  <2> QED
    BY <2>1, <2>2, <2>3 DEF EntryInv, IsRoot
<1>8. NameInv'
  <2> SUFFICES ASSUME NEW x \in live', NEW y \in live', parent'[x] # x, parent'[y] # y,
                      parent'[x] = parent'[y], name'[x] = name'[y]
               PROVE  x = y
    BY DEF NameInv, IsRoot
  <2>1. \A z \in live : z # d /\ parent[z] = d => name[z] # c
    BY <1>1 DEF Entries, Children
  <2>2. CASE x \in live /\ y \in live
    BY <1>4, <2>2 DEF NameInv, IsRoot
  <2>3. CASE x = e /\ y \in live
    BY <1>4, <2>1, <2>3
  <2>4. CASE x \in live /\ y = e
    BY <1>4, <2>1, <2>4
  <2>5. CASE x = e /\ y = e
    BY <2>5
  <2> QED
    BY <1>3, <2>2, <2>3, <2>4, <2>5
<1>9. MountInv'
  BY <1>3, <1>4, <1>5 DEF MountInv, IsRoot
<1>10. LabelInv'
  <2>1. PICK t \in [Dentries -> Dentries] : Labels(t)
    BY DEF LabelInv
  <2>2. PICK u \in [Dentries -> Dentries] : u[e] = t[d] /\ \A x \in live : u[x] = t[x]
    <3> DEFINE v == [t EXCEPT ![e] = t[d]]
    <3>1. v \in [Dentries -> Dentries] /\ v[e] = t[d] /\ \A x \in live : v[x] = t[x]
      BY <1>1, <2>1 DEF TypeInv
    <3> HIDE DEF v
    <3> QED
      BY <3>1
  <2>3. \A x \in live' : u[x] = u[parent'[x]] /\ (parent'[x] = x => u[x] = x)
    <3>1. \A x \in live : parent[x] \in live
      BY DEF EntryInv
    <3>2. \A x \in live : u[x] = u[parent'[x]] /\ (parent'[x] = x => u[x] = x)
      BY <1>4, <2>1, <2>2, <3>1 DEF Labels, IsRoot
    <3>3. u[e] = u[parent'[e]] /\ parent'[e] # e
      BY <1>1, <1>4, <2>2
    <3> QED
      BY <1>3, <3>2, <3>3
  <2>4. \A m \in LiveMounts \ {RootMnt} : u[mnt[m].point] = mnt[mnt[m].parent].root
    BY <2>1, <2>2 DEF Labels, MountInv
  <2>5. cwd.status = "ok" => u[cwd.dentry] = mnt[cwd.mnt].root
    BY <2>1, <2>2 DEF Labels, PathInv
  <2>6. Labels(u)'
    BY <1>3, <1>5, <2>3, <2>4, <2>5 DEF Labels, IsRoot
  <2> QED
    BY <2>2, <2>6 DEF LabelInv
<1>11. PathInv'
  BY <1>3, <1>4, <1>5 DEF PathInv, IsRoot
<1>12. RefsExact'
  <2>1. ref'[e] = 1 /\ ref'[d] = ref[d] + 1 /\ \A x \in live \ {d} : ref'[x] = ref[x]
    BY <1>1, <1>3, <1>4 DEF TypeInv
  <2>2. \A x : Children(x)' = {z \in live' : z # x /\ parent'[z] = x}
    BY DEF Children
  <2>3. Children(e)' = {}
    BY <1>2, <1>3, <1>4, <2>2
  <2>4. Children(d)' = Children(d) \cup {e} /\ e \notin Children(d)
    BY <1>1, <1>3, <1>4, <2>2 DEF Children
  <2>5. \A x \in live \ {d} : Children(x)' = Children(x)
    BY <1>3, <1>4, <2>2 DEF Children
  <2>6. ref'[e] = 1 + Cardinality(Children(e)') + taken'[e]
    <3>1. Cardinality(Children(e)') = 0
      BY <2>3, FS_EmptySet
    <3> QED
      BY <1>2, <1>3, <2>1, <3>1
  <2>7. ref'[d] = 1 + Cardinality(Children(d)') + taken'[d]
    <3>1. IsFiniteSet(Children(d)) /\ Cardinality(Children(d)) \in Nat
      BY ChildrenFinite
    <3>2. Cardinality(Children(d) \cup {e}) = Cardinality(Children(d)) + 1
      BY <2>4, <3>1, FS_AddElement
    <3>3. ref[d] = 1 + Cardinality(Children(d)) + taken[d] /\ taken[d] \in Nat
      BY <1>1 DEF RefsExact, TypeInv
    <3> QED
      BY <1>3, <2>1, <2>4, <3>1, <3>2, <3>3
  <2>8. \A x \in live \ {d} : ref'[x] = 1 + Cardinality(Children(x)') + taken'[x]
    BY <1>3, <2>1, <2>5 DEF RefsExact
  <2> QED
    BY <1>3, <2>6, <2>7, <2>8 DEF RefsExact
<1> QED
  BY <1>6, <1>7, <1>8, <1>9, <1>10, <1>11, <1>12

\* An entry less: the directory loses a child and the count of it.
LEMMA RmdirInvariant ==
  ASSUME IInv, Rmdir PROVE IInv'
<1> USE DEF IInv
<1>0. PICK d, p : d = cwd.dentry /\ p = parent[d]
  OBVIOUS
<1>1. /\ d \in live /\ d \in Dentries /\ p # d /\ p \in live /\ p \in Dentries
      /\ d \notin mounted /\ Children(d) = {}
  BY <1>0 DEF Rmdir, Here, Removable, PathInv, TypeInv, EntryInv, IsRoot
<1>2. /\ live' = live \ {d}
      /\ ref' = [ref EXCEPT ![d] = 0, ![p] = @ - 1] /\ taken' = [taken EXCEPT ![d] = 0]
      /\ kind' = [kind EXCEPT ![d] = "none"] /\ name' = [name EXCEPT ![d] = ""]
      /\ parent' = [parent EXCEPT ![d] = d]
      /\ cwd' = NoPath /\ UNCHANGED <<mounted, mnt, super>>
  BY <1>0 DEF Rmdir, Ddelete, mounts
<1>3. \A x \in live \ {d} : parent[x] \in live \ {d}
  BY <1>1 DEF Children, EntryInv
<1>4. /\ \A x \in Dentries \ {d} : parent'[x] = parent[x] /\ name'[x] = name[x] /\ taken'[x] = taken[x]
      /\ parent'[d] = d /\ taken'[d] = 0
  BY <1>1, <1>2, ZenonT(30) DEF TypeInv
<1>5. LiveMounts' = LiveMounts /\ cwd'.status # "ok" /\ live' \subseteq live /\ live \subseteq Dentries
  BY <1>2 DEF LiveMounts, NoPath, TypeInv
<1>6. TypeInv'
  <2>1. IsFiniteSet(live')
    BY <1>2, FS_Subset DEF TypeInv
  <2>2. ref' \in [Dentries -> Int]
    <3>1. ref \in [Dentries -> Int] /\ ref[p] \in Int
      BY <1>1 DEF TypeInv
    <3>2. ref[p] - 1 \in Int
      BY <3>1
    <3> DEFINE g == [ref EXCEPT ![d] = 0]
    <3>3. g \in [Dentries -> Int] /\ g[p] = ref[p]
      BY <1>1, <3>1
    <3>4. ref' = [g EXCEPT ![p] = g[p] - 1]
      BY <1>1, <1>2
    <3> HIDE DEF g
    <3> QED
      BY <3>2, <3>3, <3>4
  <2>3. taken' \in [Dentries -> Nat] /\ parent' \in [Dentries -> Dentries]
    BY <1>1, <1>2 DEF TypeInv
  <2>4. cwd' \in [mnt : Nat, dentry : Nat, plain : BOOLEAN, status : {"none", "ok", "ENODIR", "fault"}]
    BY <1>2 DEF NoPath
  <2>5. name' \in [Dentries -> Names \cup {""}] /\ kind' \in [Dentries -> {"dir", "file", "none"}]
    BY <1>2 DEF TypeInv
  <2> QED
    BY <1>2, <1>5, <2>1, <2>2, <2>3, <2>4, <2>5 DEF TypeInv
<1>7. EntryInv'
  <2>1. super[d] = NoSuper
    BY <1>0, <1>1 DEF EntryInv, IsRoot
  <2>2. \A x \in live' : parent'[x] \in live' /\ (parent'[x] # x => super'[x] = NoSuper)
    BY <1>2, <1>3, <1>4, <1>5 DEF EntryInv, IsRoot
  <2>3. \A x \in Dentries \ live' : parent'[x] = x /\ taken'[x] = 0 /\ super'[x] = NoSuper
    BY <1>2, <1>4, <2>1 DEF EntryInv, IsRoot
  <2> QED
    BY <2>2, <2>3 DEF EntryInv, IsRoot
<1>8. NameInv'
  <2>1. \A x \in live' : x \in live /\ parent'[x] = parent[x] /\ name'[x] = name[x]
    BY <1>2, <1>4, <1>5
  <2> QED
    BY <2>1 DEF NameInv, IsRoot
<1>9. MountInv'
  <2>1. \A m \in LiveMounts : mnt[m].root # d /\ mnt[m].point # d
    BY <1>0, <1>1 DEF MountInv, IsRoot
  <2>2. \A m \in LiveMounts : mnt[m].root \in live' /\ parent'[mnt[m].root] = mnt[m].root
    BY <1>2, <1>4, <1>5, <2>1, ZenonT(30) DEF MountInv, IsRoot
  <2>3. \A m \in LiveMounts : m # RootMnt => mnt[m].point \in live'
    BY <1>2, <2>1 DEF MountInv
  <2>4. /\ RootMnt \in LiveMounts' /\ mnt'[RootMnt].parent = RootMnt /\ mnt'[RootMnt].point = DRoot
        /\ mounted' = {mnt'[m].point : m \in LiveMounts'}
    <3>1. mounted' = mounted /\ mnt' = mnt
      BY <1>2
    <3>2. /\ RootMnt \in LiveMounts /\ mnt[RootMnt].parent = RootMnt /\ mnt[RootMnt].point = DRoot
          /\ mounted = {mnt[m].point : m \in LiveMounts}
      BY DEF MountInv
    <3> QED
      BY <1>5, <3>1, <3>2, Zenon
  <2>5. \A m \in LiveMounts' :
          /\ mnt'[m].root \in live' /\ parent'[mnt'[m].root] = mnt'[m].root
          /\ super'[mnt'[m].root].count = 1 /\ mnt'[m].parent \in LiveMounts'
          /\ m # RootMnt => mnt'[m].point \in live' /\ mnt'[m].parent # m
    BY <1>2, <1>5, <2>2, <2>3 DEF MountInv
  <2>6. \A m, n \in LiveMounts' : m # n => mnt'[m].root # mnt'[n].root /\ mnt'[m].point # mnt'[n].point
    BY <1>2, <1>5 DEF MountInv
  <2> QED
    BY <2>4, <2>5, <2>6 DEF MountInv, IsRoot
<1>10. LabelInv'
  <2>1. PICK t \in [Dentries -> Dentries] : Labels(t)
    BY DEF LabelInv
  <2>2. Labels(t)'
    BY <1>2, <1>4, <1>5, <2>1 DEF Labels, IsRoot
  <2> QED
    BY <2>1, <2>2 DEF LabelInv
<1>11. PathInv'
  BY <1>5 DEF PathInv
<1>12. RefsExact'
  <2>1. ref'[p] = ref[p] - 1 /\ \A x \in live \ {d, p} : ref'[x] = ref[x]
    BY <1>1, <1>2, <1>5 DEF TypeInv
  <2>2. \A x : Children(x)' = {z \in live' : z # x /\ parent'[z] = x}
    BY DEF Children
  <2>3. Children(p)' = Children(p) \ {d} /\ d \in Children(p)
    BY <1>0, <1>1, <1>2, <1>4, <1>5, <2>2 DEF Children
  <2>4. \A x \in live \ {d, p} : Children(x)' = Children(x)
    BY <1>0, <1>2, <1>4, <1>5, <2>2 DEF Children
  <2>5. ref'[p] = 1 + Cardinality(Children(p)') + taken'[p]
    <3>1. IsFiniteSet(Children(p)) /\ Cardinality(Children(p)) \in Nat
      BY ChildrenFinite
    <3>2. Cardinality(Children(p) \ {d}) = Cardinality(Children(p)) - 1
      BY <2>3, <3>1, FS_RemoveElement
    <3>3. ref[p] = 1 + Cardinality(Children(p)) + taken[p] /\ taken[p] \in Nat /\ taken'[p] = taken[p]
      BY <1>1, <1>4 DEF RefsExact, TypeInv
    <3> QED
      BY <2>1, <2>3, <3>1, <3>2, <3>3
  <2>6. \A x \in live \ {d, p} : ref'[x] = 1 + Cardinality(Children(x)') + taken'[x]
    BY <1>4, <1>5, <2>1, <2>4 DEF RefsExact
  <2> QED
    BY <1>2, <2>5, <2>6 DEF RefsExact
<1> QED
  BY <1>6, <1>7, <1>8, <1>9, <1>10, <1>11, <1>12

\* A superblock of no device is new, and so is its root: a tree of one entry.
\* It hangs at the mountpoint, or is left over when that is no directory.
LEMMA MountInvariant ==
  ASSUME IInv, Devices = {}, NEW m \in Mounts, NEW r \in Dentries, NEW dev \in Devices \cup {0},
         Mount(m, r, dev)
  PROVE  IInv'
<1> USE DEF IInv
<1>0. PICK d, q : d = cwd.dentry /\ q = cwd.mnt
  OBVIOUS
<1>1. /\ d \in live /\ d \in Dentries /\ ~ IsRoot(d) /\ q \in LiveMounts /\ d \notin mounted
      /\ cwd.status = "ok" /\ m \in Mounts \ LiveMounts
  BY <1>0 DEF Mount, Here, PathInv, NextOf, TypeInv
<1>2. dev = 0 /\ r \in Dentries \ live /\ super[r] = NoSuper
  <2>1. r \in Sget(0) /\ dev = 0
    BY DEF Mount
  <2>2. Sget(0) \subseteq Dentries \ live
    BY DEF Sget, NextOf
  <2> QED
    BY <2>1, <2>2 DEF EntryInv
<1>3. IsRoot(r) /\ taken[r] = 0 /\ r # d /\ \A x \in live : parent[x] # r
  BY <1>1, <1>2 DEF EntryInv
<1>4. PICK count \in Nat :
        /\ live' = live \cup {r} /\ kind' = [kind EXCEPT ![r] = "dir"]
        /\ ref' = [ref EXCEPT ![r] = 1] /\ super' = [super EXCEPT ![r] = [dev |-> 0, count |-> count]]
        /\ UNCHANGED <<name, parent, cwd, taken>>
        /\ \/ /\ count = 1 /\ mounted' = mounted \cup {d}
              /\ mnt' = [mnt EXCEPT ![m] = [parent |-> q, point |-> d, root |-> r]]
           \/ UNCHANGED <<mounted, mnt>>
  <2>1. super[r].count + 1 = 1
    BY <1>2 DEF NoSuper
  <2>2. Outlives(super[r].count + 1)
    BY <2>1 DEF Outlives
  <2>3. /\ live' = live \cup {r} /\ kind' = [kind EXCEPT ![r] = "dir"]
        /\ ref' = [ref EXCEPT ![r] = 1]
        /\ super' = [super EXCEPT ![r] = [dev |-> 0, count |-> IF kind[d] = "dir" THEN 1 ELSE 0]]
        /\ UNCHANGED <<name, parent, cwd, taken>>
    BY <1>0, <1>2, <2>1, <2>2 DEF Mount
  <2>4. IF kind[d] = "dir"
          THEN /\ mounted' = mounted \cup {d}
               /\ mnt' = [mnt EXCEPT ![m] = [parent |-> q, point |-> d, root |-> r]]
          ELSE UNCHANGED <<mounted, mnt>>
    BY <1>0 DEF Mount
  <2>5. CASE kind[d] = "dir"
    BY <2>3, <2>4, <2>5
  <2>6. CASE kind[d] # "dir"
    BY <2>3, <2>4, <2>6
  <2> QED
    BY <2>5, <2>6
<1>5. /\ super'[r].count = count /\ \A x \in live : super'[x] = super[x]
      /\ ref'[r] = 1 /\ \A x \in live : ref'[x] = ref[x]
      /\ \A x \in Dentries : parent'[x] = parent[x] /\ name'[x] = name[x] /\ taken'[x] = taken[x]
      /\ \A x \in Dentries \ {r} : super'[x] = super[x]
  <2>1. live \subseteq Dentries /\ DOMAIN super = Dentries /\ DOMAIN ref = Dentries
    BY DEF TypeInv
  <2>2. super'[r] = [dev |-> 0, count |-> count] /\ \A x \in Dentries \ {r} : super'[x] = super[x]
    BY <1>4, <2>1
  <2>3. ref'[r] = 1 /\ \A x \in Dentries \ {r} : ref'[x] = ref[x]
    BY <1>4, <2>1
  <2> QED
    BY <1>2, <1>4, <2>1, <2>2, <2>3
<1>6. EntryInv' /\ NameInv'
  <2>0. live \subseteq Dentries
    BY DEF TypeInv
  <2>1. live' \subseteq Dentries
    BY <1>2, <1>4, <2>0
  <2>2. \A x \in live' : parent'[x] \in live' /\ (parent'[x] # x => super'[x] = NoSuper)
    BY <1>3, <1>4, <1>5, <2>1 DEF EntryInv, IsRoot
  <2>3. \A x \in Dentries \ live' : parent'[x] = x /\ taken'[x] = 0 /\ super'[x] = NoSuper
    BY <1>4, <1>5 DEF EntryInv, IsRoot
  <2>4. NameInv'
    BY <1>3, <1>4 DEF NameInv, IsRoot
  <2> QED
    BY <2>2, <2>3, <2>4 DEF EntryInv, IsRoot
<1>7. RefsExact'
  <2>1. Children(r)' = {} /\ \A x \in live : Children(x)' = Children(x)
    BY <1>2, <1>3, <1>4 DEF Children, IsRoot
  <2>2. ref'[r] = 1 + Cardinality(Children(r)') + taken'[r]
    <3>1. Cardinality(Children(r)') = 0
      BY <2>1, FS_EmptySet
    <3> QED
      BY <1>2, <1>3, <1>5, <3>1
  <2>3. \A x \in live : ref'[x] = 1 + Cardinality(Children(x)') + taken'[x]
    BY <1>5, <2>1 DEF RefsExact, TypeInv
  <2> QED
    BY <1>4, <2>2, <2>3 DEF RefsExact
<1>8. /\ live' \subseteq Dentries /\ IsFiniteSet(live') /\ ref' \in [Dentries -> Int]
      /\ super' \in [Dentries -> [dev : {0}, count : Nat]]
      /\ kind' \in [Dentries -> {"dir", "file", "none"}]
  <2>1. live' \subseteq Dentries /\ IsFiniteSet(live')
    BY <1>2, <1>4, FS_AddElement DEF TypeInv
  <2>2. super' \in [Dentries -> [dev : {0}, count : Nat]]
    <3>1. super \in [Dentries -> [dev : {0}, count : Nat]]
      BY DEF TypeInv
    <3>2. [dev |-> 0, count |-> count] \in [dev : {0}, count : Nat]
      OBVIOUS
    <3> QED
      BY <1>4, <3>1, <3>2
  <2>3. ref' \in [Dentries -> Int] /\ kind' \in [Dentries -> {"dir", "file", "none"}]
    <3>1. ref \in [Dentries -> Int] /\ kind \in [Dentries -> {"dir", "file", "none"}]
      BY DEF TypeInv
    <3> QED
      BY <1>4, <3>1
  <2> QED
    BY <2>1, <2>2, <2>3
<1>9. PICK t \in [Dentries -> Dentries] : Labels(t)
  BY DEF LabelInv
<1>10. PICK u \in [Dentries -> Dentries] : u[r] = r /\ \A x \in live : u[x] = t[x]
  <2> DEFINE v == [t EXCEPT ![r] = r]
  <2>1. v \in [Dentries -> Dentries] /\ v[r] = r /\ \A x \in live : v[x] = t[x]
    BY <1>2, <1>9 DEF TypeInv
  <2> HIDE DEF v
  <2> QED
    BY <2>1
<1>11. /\ \A x \in live' : u[x] = u[parent'[x]] /\ (parent'[x] = x => u[x] = x)
       /\ \A n \in LiveMounts \ {RootMnt} : u[mnt[n].point] = mnt[mnt[n].parent].root
       /\ u[d] = mnt[q].root
  <2>1. \A x \in live : parent[x] \in live
    BY DEF EntryInv
  <2>2. \A x \in live : u[x] = u[parent[x]] /\ (parent[x] = x => u[x] = x)
    BY <1>9, <1>10, <2>1 DEF Labels, IsRoot
  <2>3. \A n \in LiveMounts \ {RootMnt} : u[mnt[n].point] = mnt[mnt[n].parent].root
    BY <1>9, <1>10 DEF Labels, MountInv
  <2>4. u[d] = mnt[q].root
    BY <1>0, <1>1, <1>9, <1>10 DEF Labels
  <2> QED
    BY <1>3, <1>4, <1>10, <2>2, <2>3, <2>4 DEF IsRoot
<1>12. CASE UNCHANGED <<mounted, mnt>>
  <2>1. LiveMounts' = LiveMounts
    BY <1>12 DEF LiveMounts
  <2>2. TypeInv'
    BY <1>4, <1>8, <1>12 DEF TypeInv
  <2>3. MountInv'
    <3>1. \A n \in LiveMounts : super'[mnt[n].root].count = 1
      BY <1>5 DEF MountInv
    <3> QED
      BY <1>4, <1>12, <2>1, <3>1 DEF MountInv, IsRoot
  <2>4. Labels(u)'
    BY <1>0, <1>4, <1>11, <1>12, <2>1 DEF Labels, IsRoot
  <2>5. PathInv'
    BY <1>4, <1>12, <2>1 DEF PathInv, IsRoot
  <2> QED
    BY <1>6, <1>7, <2>2, <2>3, <2>4, <2>5 DEF LabelInv
<1>13. CASE count = 1 /\ mounted' = mounted \cup {d}
            /\ mnt' = [mnt EXCEPT ![m] = [parent |-> q, point |-> d, root |-> r]]
  <2>0. m \in Mounts /\ q \in Mounts /\ mnt \in [Mounts -> [parent : Mounts \cup {0}, point : Dentries \cup {0}, root : Dentries \cup {0}]]
    BY <1>1 DEF LiveMounts, TypeInv
  <2>1. /\ mnt'[m] = [parent |-> q, point |-> d, root |-> r]
        /\ \A n \in Mounts \ {m} : mnt'[n] = mnt[n]
    BY <1>13, <2>0
  <2>2. mnt'[m].parent = q /\ mnt'[m].point = d /\ mnt'[m].root = r /\ mnt'[m] # Unused
    <3>1. r # 0
      BY <1>2, VfsAssumption
    <3> QED
      BY <2>1, <3>1 DEF Unused
  <2>3. /\ LiveMounts' = LiveMounts \cup {m} /\ m \notin LiveMounts /\ LiveMounts \subseteq Mounts
        /\ \A n \in LiveMounts : mnt'[n] = mnt[n]
    BY <1>1, <2>0, <2>1, <2>2 DEF LiveMounts
  <2>4. TypeInv'
    <3>1. mnt' \in [Mounts -> [parent : Mounts \cup {0}, point : Dentries \cup {0}, root : Dentries \cup {0}]]
      <4>1. [parent |-> q, point |-> d, root |-> r] \in [parent : Mounts \cup {0}, point : Dentries \cup {0}, root : Dentries \cup {0}]
        BY <1>1, <2>0
      <4> QED
        BY <1>13, <2>0, <4>1
    <3> QED
      BY <1>4, <1>8, <3>1 DEF TypeInv
  <2>5. MountInv'
    <3>1. /\ RootMnt \in LiveMounts' /\ RootMnt # m
          /\ mnt'[RootMnt].parent = RootMnt /\ mnt'[RootMnt].point = DRoot
      BY <2>3 DEF MountInv
    <3>2. \A n \in LiveMounts :
            /\ mnt'[n].root \in live' /\ parent'[mnt'[n].root] = mnt'[n].root
            /\ super'[mnt'[n].root].count = 1 /\ mnt'[n].parent \in LiveMounts'
            /\ n # RootMnt => mnt'[n].point \in live' /\ mnt'[n].parent # n
      BY <1>4, <1>5, <2>3 DEF MountInv, IsRoot
    <3>3. /\ mnt'[m].root \in live' /\ parent'[mnt'[m].root] = mnt'[m].root
          /\ super'[mnt'[m].root].count = 1 /\ mnt'[m].parent \in LiveMounts'
          /\ mnt'[m].point \in live' /\ mnt'[m].parent # m
      BY <1>1, <1>3, <1>4, <1>5, <1>13, <2>2, <2>3 DEF IsRoot
    <3>4. \A n \in LiveMounts : mnt'[n].root # r /\ mnt'[n].point # d
      BY <1>1, <1>2, <2>3 DEF MountInv
    <3>5. \A n, o \in LiveMounts' : n # o => mnt'[n].root # mnt'[o].root /\ mnt'[n].point # mnt'[o].point
      BY <2>2, <2>3, <3>4 DEF MountInv
    <3>6. mounted' = {mnt'[n].point : n \in LiveMounts'}
      <4>1. mounted = {mnt[n].point : n \in LiveMounts}
        BY DEF MountInv
      <4>2. {mnt'[n].point : n \in LiveMounts'} = {mnt'[n].point : n \in LiveMounts} \cup {mnt'[m].point}
        BY <2>3
      <4>3. {mnt'[n].point : n \in LiveMounts} = {mnt[n].point : n \in LiveMounts}
        BY <2>3
      <4> QED
        BY <1>13, <2>2, <4>1, <4>2, <4>3
    <3>7. \A n \in LiveMounts' :
            /\ mnt'[n].root \in live' /\ parent'[mnt'[n].root] = mnt'[n].root
            /\ super'[mnt'[n].root].count = 1 /\ mnt'[n].parent \in LiveMounts'
            /\ n # RootMnt => mnt'[n].point \in live' /\ mnt'[n].parent # n
      BY <2>3, <3>2, <3>3
    <3> QED
      BY <3>1, <3>5, <3>6, <3>7 DEF MountInv, IsRoot
  <2>6. Labels(u)'
    <3>1. \A n \in LiveMounts : mnt[n].parent \in LiveMounts
      BY DEF MountInv
    <3>2. \A n \in LiveMounts' \ {RootMnt} : u[mnt'[n].point] = mnt'[mnt'[n].parent].root
      BY <1>1, <1>11, <2>2, <2>3, <3>1
    <3>3. cwd'.status = "ok" => u[cwd'.dentry] = mnt'[cwd'.mnt].root
      BY <1>0, <1>1, <1>4, <1>11, <2>3
    <3> QED
      BY <1>11, <3>2, <3>3 DEF Labels, IsRoot
  <2>7. PathInv'
    BY <1>4, <2>3 DEF PathInv, IsRoot
  <2> QED
    BY <1>6, <1>7, <2>4, <2>5, <2>6, <2>7 DEF LabelInv
<1> QED
  BY <1>4, <1>12, <1>13

\* The root of what is unmounted outlives it, and no other mount is in it: the
\* mount the path is in is the one above.
LEMMA UmountInvariant ==
  ASSUME IInv, Umount PROVE IInv'
<1> USE DEF IInv
<1>0. PICK d, q, m, r : d = cwd.dentry /\ q = cwd.mnt /\ m = MountAt(d) /\ r = mnt[m].root
  OBVIOUS
<1>1. /\ d \in live /\ q \in LiveMounts /\ d \in mounted /\ cwd.status = "ok"
      /\ m \in LiveMounts /\ mnt[m].point = d /\ r \in live /\ r \in Dentries
      /\ IsRoot(r) /\ super[r].count = 1 /\ Submounts(m) = {}
  <2>1. d \in live /\ q \in LiveMounts /\ d \in mounted /\ cwd.status = "ok" /\ Submounts(m) = {}
    BY <1>0 DEF Umount, Here, PathInv
  <2>2. m \in LiveMounts /\ mnt[m].point = d
    BY <1>0, <2>1, MountedAt
  <2> QED
    BY <1>0, <2>1, <2>2 DEF MountInv, TypeInv
<1>2. m # RootMnt
  <2>1. mnt[RootMnt].point = 0
    BY DEF MountInv, DRoot
  <2>2. d # 0
    BY <1>1, VfsAssumption DEF TypeInv
  <2> QED
    BY <1>1, <2>1, <2>2
<1>3. /\ mnt' = [mnt EXCEPT ![m] = Unused] /\ mounted' = mounted \ {d}
      /\ super' = [super EXCEPT ![r] = [super[r] EXCEPT !.count = super[r].count - 1]]
      /\ UNCHANGED <<live, ref, kind, name, parent, cwd, taken>>
  <2>1. Outlives(super[r].count)
    BY <1>1 DEF Outlives
  <2>2. ref' = [ref EXCEPT ![r] = @] /\ kind' = [kind EXCEPT ![r] = @]
    BY <1>0, <2>1 DEF Umount
  <2>3. ref' = ref /\ kind' = kind
    BY <2>2 DEF TypeInv
  <2>4. super' = [super EXCEPT ![r] = [super[r] EXCEPT !.count = super[r].count - 1]]
    <3>1. super' = [super EXCEPT ![r].count = @ - 1]
      BY <1>0, <2>1 DEF Umount
    <3>2. r \in DOMAIN super /\ super[r] = [dev |-> super[r].dev, count |-> super[r].count]
      BY <1>1 DEF TypeInv
    <3> QED
      BY <3>1, <3>2
  <2>5. mnt' = [mnt EXCEPT ![m] = Unused] /\ mounted' = mounted \ {d} /\ live' = live
        /\ UNCHANGED <<name, parent, cwd, taken>>
    BY <1>0, <2>1 DEF Umount
  <2> QED
    BY <2>3, <2>4, <2>5
<1>4. \A n \in LiveMounts \ {m} : mnt[n].parent # m
  BY <1>1 DEF Submounts
<1>5. mnt \in [Mounts -> [parent : Mounts \cup {0}, point : Dentries \cup {0}, root : Dentries \cup {0}]]
  BY DEF TypeInv
<1>6. /\ LiveMounts' = LiveMounts \ {m} /\ LiveMounts \subseteq Mounts
      /\ \A n \in LiveMounts \ {m} : mnt'[n] = mnt[n]
  BY <1>1, <1>3, <1>5 DEF LiveMounts
<1>7. super' \in [Dentries -> [dev : {0}, count : Nat]] /\ \A x \in Dentries \ {r} : super'[x] = super[x]
  <2>1. super \in [Dentries -> [dev : {0}, count : Nat]] /\ super[r] \in [dev : {0}, count : Nat]
    BY <1>1 DEF TypeInv
  <2> DEFINE v == [super[r] EXCEPT !.count = super[r].count - 1]
  <2>2. v \in [dev : {0}, count : Nat]
    BY <1>1, <2>1
  <2>3. super' = [super EXCEPT ![r] = v]
    BY <1>3
  <2> HIDE DEF v
  <2> QED
    BY <2>1, <2>2, <2>3
<1>8. TypeInv'
  <2>1. mnt' \in [Mounts -> [parent : Mounts \cup {0}, point : Dentries \cup {0}, root : Dentries \cup {0}]]
    <3>1. Unused \in [parent : Mounts \cup {0}, point : Dentries \cup {0}, root : Dentries \cup {0}]
      BY DEF Unused
    <3> QED
      BY <1>3, <1>5, <3>1
  <2> QED
    BY <1>3, <1>7, <2>1 DEF TypeInv
<1>9. EntryInv' /\ NameInv' /\ RefsExact'
  <2>1. \A x \in live' : parent'[x] # x => super'[x] = NoSuper
    BY <1>1, <1>3, <1>7 DEF EntryInv, IsRoot, TypeInv
  <2>2. \A x \in Dentries \ live' : parent'[x] = x /\ taken'[x] = 0 /\ super'[x] = NoSuper
    BY <1>1, <1>3, <1>7 DEF EntryInv, IsRoot
  <2>3. EntryInv'
    BY <1>3, <2>1, <2>2 DEF EntryInv, IsRoot
  <2>4. NameInv'
    BY <1>3 DEF NameInv, IsRoot
  <2>5. RefsExact'
    BY <1>3 DEF RefsExact, Children
  <2> QED
    BY <2>3, <2>4, <2>5
<1>10. MountInv'
  <2>1. /\ RootMnt \in LiveMounts' /\ mnt'[RootMnt].parent = RootMnt /\ mnt'[RootMnt].point = DRoot
    BY <1>2, <1>6 DEF MountInv
  <2>2. \A n \in LiveMounts \ {m} : mnt[n].root # r /\ mnt[n].root \in Dentries /\ mnt[n].point # d
    <3>1. live \subseteq Dentries
      BY DEF TypeInv
    <3> QED
      BY <1>0, <1>1, <3>1 DEF MountInv
  <2>3. \A n \in LiveMounts \ {m} :
          /\ mnt'[n].root \in live' /\ parent'[mnt'[n].root] = mnt'[n].root
          /\ super'[mnt'[n].root].count = 1 /\ mnt'[n].parent \in LiveMounts'
          /\ n # RootMnt => mnt'[n].point \in live' /\ mnt'[n].parent # n
    <3> SUFFICES ASSUME NEW n \in LiveMounts \ {m}
                 PROVE  /\ mnt[n].root \in live /\ parent[mnt[n].root] = mnt[n].root
                        /\ super'[mnt[n].root].count = 1 /\ mnt[n].parent \in LiveMounts'
                        /\ n # RootMnt => mnt[n].point \in live /\ mnt[n].parent # n
      BY <1>3, <1>6
    <3>1. super'[mnt[n].root] = super[mnt[n].root]
      BY <1>7, <2>2
    <3> QED
      BY <1>4, <1>6, <3>1 DEF MountInv, IsRoot
  <2>4. \A n, o \in LiveMounts' : n # o => mnt'[n].root # mnt'[o].root /\ mnt'[n].point # mnt'[o].point
    BY <1>6 DEF MountInv
  <2>5. mounted' = {mnt'[n].point : n \in LiveMounts'}
    <3>1. mounted = {mnt[n].point : n \in LiveMounts}
      BY DEF MountInv
    <3>2. {mnt'[n].point : n \in LiveMounts'} = {mnt[n].point : n \in LiveMounts \ {m}}
      BY <1>6
    <3>3. {mnt[n].point : n \in LiveMounts \ {m}} = mounted \ {d}
      BY <1>1, <2>2, <3>1
    <3> QED
      BY <1>3, <3>2, <3>3
  <2>6. \A n \in LiveMounts' :
          /\ mnt'[n].root \in live' /\ parent'[mnt'[n].root] = mnt'[n].root
          /\ super'[mnt'[n].root].count = 1 /\ mnt'[n].parent \in LiveMounts'
          /\ n # RootMnt => mnt'[n].point \in live' /\ mnt'[n].parent # n
    BY <1>6, <2>3
  <2> QED
    BY <2>1, <2>4, <2>5, <2>6 DEF MountInv, IsRoot
<1>11. PICK t \in [Dentries -> Dentries] : Labels(t)
  BY DEF LabelInv
<1>12. q # m
  <2>1. mnt[q].root = mnt[mnt[m].parent].root
    BY <1>0, <1>1, <1>2, <1>11 DEF Labels
  <2>2. mnt[m].parent \in LiveMounts /\ mnt[m].parent # m
    BY <1>1, <1>2 DEF MountInv
  <2>3. q = mnt[m].parent
    BY <1>1, <2>1, <2>2 DEF MountInv
  <2> QED
    BY <2>2, <2>3
<1>13. LabelInv'
  <2>1. \A n \in LiveMounts \ {m} : mnt[n].parent \in LiveMounts \ {m}
    BY <1>4 DEF MountInv
  <2>2. \A n \in LiveMounts' \ {RootMnt} : t[mnt'[n].point] = mnt'[mnt'[n].parent].root
    BY <1>6, <1>11, <2>1 DEF Labels
  <2>3. cwd'.status = "ok" => t[cwd'.dentry] = mnt'[cwd'.mnt].root
    BY <1>0, <1>1, <1>3, <1>6, <1>11, <1>12 DEF Labels
  <2>4. \A x \in live' : t[x] = t[parent'[x]] /\ (parent'[x] = x => t[x] = x)
    BY <1>3, <1>11 DEF Labels, IsRoot
  <2>5. Labels(t)'
    BY <2>2, <2>3, <2>4 DEF Labels, IsRoot
  <2> QED
    BY <1>11, <2>5 DEF LabelInv
<1>14. PathInv'
  BY <1>0, <1>1, <1>3, <1>6, <1>12 DEF PathInv, IsRoot
<1> QED
  BY <1>8, <1>9, <1>10, <1>13, <1>14

LEMMA NextInvariant ==
  ASSUME IInv, Devices = {}, [Next]_vars PROVE IInv'
<1>1. ASSUME NEW path \in Paths, PathWalk(path) PROVE IInv'
  BY <1>1, PathWalkInvariant
<1>2. ASSUME NEW e \in Dentries, NEW c \in Names, NEW k \in {"dir", "file"}, Create(e, c, k) PROVE IInv'
  BY <1>2, CreateInvariant
<1>3. ASSUME NEW m \in Mounts, NEW r \in Dentries, NEW dev \in Devices \cup {0}, Mount(m, r, dev) PROVE IInv'
  BY <1>3, MountInvariant
<1>4. ASSUME Rmdir PROVE IInv'
  BY <1>4, RmdirInvariant
<1>5. ASSUME Umount PROVE IInv'
  BY <1>5, UmountInvariant
<1>6. ASSUME UNCHANGED vars PROVE IInv'
  <2>1. UNCHANGED <<live, name, parent, kind, ref, mounted, mnt, super, cwd, taken>>
    BY <1>6 DEF vars, tree, mounts
  <2>2. LiveMounts' = LiveMounts /\ (\A x : Children(x)' = Children(x))
    BY <2>1 DEF LiveMounts, Children
  <2>3. TypeInv' /\ EntryInv' /\ NameInv'
    <3>1. TypeInv'
      BY <2>1 DEF IInv, TypeInv
    <3>2. EntryInv' /\ NameInv'
      BY <2>1 DEF IInv, EntryInv, NameInv, IsRoot
    <3> QED
      BY <3>1, <3>2
  <2>4. MountInv' /\ PathInv'
    BY <2>1, <2>2 DEF IInv, MountInv, PathInv, IsRoot
  <2>5. LabelInv'
    BY <2>1, <2>2 DEF IInv, LabelInv, Labels, IsRoot
  <2>6. RefsExact'
    BY <2>1, <2>2 DEF IInv, RefsExact
  <2> QED
    BY <2>3, <2>4, <2>5, <2>6 DEF IInv
<1> QED
  BY <1>1, <1>2, <1>3, <1>4, <1>5, <1>6 DEF Next

\* What every walk and every operation of the caller finds and keeps.
THEOREM VfsInvariant == ASSUME Devices = {} PROVE Spec => []IInv
<1>1. Init => IInv
  BY InitInvariant
<1>2. IInv /\ [Next]_vars => IInv'
  BY NextInvariant
<1> QED
  BY <1>1, <1>2, PTL DEF Spec

\* Over walks, creations, removals, mounts and unmounts in any order, the count
\* of an entry is what dalloc, dget and ddelete should make it.
THEOREM RefsAreExact == ASSUME Devices = {} PROVE Spec => []RefsExact
<1>1. IInv => RefsExact
  BY DEF IInv
<1> QED
  BY <1>1, VfsInvariant, PTL

\* Nothing is freed while an entry, a mount or the caller's path points at it.
THEOREM NothingIsLeftDangling == ASSUME Devices = {} PROVE Spec => []NothingDangles
<1>1. ASSUME IInv PROVE NothingDangles
  <2>1. \A m \in LiveMounts : mnt[m].point \in live \cup {DRoot}
    BY <1>1 DEF IInv, MountInv
  <2> QED
    BY <1>1, <2>1 DEF IInv, EntryInv, MountInv, PathInv, NothingDangles
<1> QED
  BY <1>1, VfsInvariant, PTL

-----------------------------------------------------------------------------
(* Where a path of names leads. *)

\* The entries of the name c below one of X, or what is mounted on them.
Below(c, X) == {Covering(e) : e \in {e \in live : name[e] = c /\ parent[e] \in X \ {e}}}

\* One name takes the walk to the one entry of that name, if there is one.
LEMMA StepFollowsMounts ==
  ASSUME EntryInv, NameInv, MountInv, NEW t, Labels(t), NEW p \in Places(t), NEW c \in Names,
         NEW X, X = IF p.status = "ok" THEN {Covering(p.dentry)} ELSE {}
  PROVE  Below(c, X) = IF StepTo(p, c).status = "ok" THEN {Covering(StepTo(p, c).dentry)} ELSE {}
<1>1. CASE p.status # "ok"
  <2>1. StepTo(p, c) = p /\ X = {}
    BY <1>1 DEF StepTo
  <2> QED
    BY <1>1, <2>1 DEF Below
<1>2. CASE p.status = "ok"
  <2>0. PICK q, w : q = Pivot(p) /\ w = q.dentry
    OBVIOUS
  <2>1. q \in Places(t) /\ q.status = "ok" /\ w = Covering(p.dentry) /\ X = {w}
    BY <1>2, <2>0, PivotPlace
  <2>2. StepTo(p, c) = Down(p, c)
    <3>1. c # "." /\ c # ".."
      BY VfsAssumption
    <3> QED
      BY <1>2, <3>1 DEF StepTo
  <2>3. {e \in live : name[e] = c /\ parent[e] \in X \ {e}} = Entries(w, c)
    BY <2>1 DEF Entries, Children
  <2>4. CASE Entries(w, c) = {}
    <3>1. Down(p, c) = [q EXCEPT !.status = IF kind[w] = "dir" THEN "ENODIR" ELSE "fault"]
      BY <2>0, <2>4 DEF Down
    <3>2. Down(p, c).status # "ok"
      BY <2>1, <3>1 DEF Places
    <3> QED
      BY <2>2, <2>3, <2>4, <3>2 DEF Below
  <2>5. CASE Entries(w, c) # {}
    <3>1. PICK e \in Entries(w, c) : e = CHOOSE x \in Entries(w, c) : TRUE
      BY <2>5
    <3>2. Down(p, c) = [q EXCEPT !.dentry = e]
      BY <2>0, <2>5, <3>1 DEF Down
    <3>3. Down(p, c).status = "ok" /\ Down(p, c).dentry = e
      BY <2>1, <3>2 DEF Places
    <3>4. \A x \in Entries(w, c) : x = e
      BY <3>1 DEF Entries, Children, NameInv, IsRoot
    <3>5. Entries(w, c) = {e}
      BY <3>1, <3>4
    <3> QED
      BY <2>2, <2>3, <3>3, <3>5 DEF Below
  <2> QED
    BY <2>4, <2>5
<1> QED
  BY <1>1, <1>2

LEMMA CoveringLives ==
  ASSUME MountInv, NEW d \in live PROVE Covering(d) \in live
BY MountedAt DEF Covering, MountInv

LEMMA WalkLeadsWhereNamed ==
  ASSUME EntryInv, NameInv, MountInv, NEW t, Labels(t), NEW path, NEW n \in Nat, Len(path) = n,
         \A i \in 1 .. n : path[i] \in Names
  PROVE  LET p == Walked(path)[n]
         IN  Denoted(path) = IF p.status = "ok" THEN {Covering(p.dentry)} ELSE {}
<1> DEFINE at == Walked(path)
           set[i \in 0 .. Len(path)] ==
             IF i = 0 THEN {Covering(mnt[RootMnt].root)}
             ELSE {Covering(e) : e \in {e \in live : /\ name[e] = path[i]
                                                   /\ parent[e] \in set[i - 1] \ {e}}}
           S == SUBSET live
           a == {Covering(mnt[RootMnt].root)}
           F == [x \in S \X (1 .. n) |-> Below(path[x[2]], x[1])]
<1>1. at \in [0 .. n -> Places(t)] /\ at[0] = Start /\ \A i \in 1 .. n : at[i] = StepTo(at[i - 1], path[i])
  BY WalkPlaces
<1>2. Denoted(path) = set[n]
  BY DEF Denoted
<1>3. a \in S /\ F \in Steps(n, S)
  <2>1. a \in S
    BY CoveringLives DEF MountInv
  <2>2. \A c, X : Below(c, X) \in S
    BY CoveringLives DEF Below
  <2> QED
    BY <2>1, <2>2 DEF Steps
<1>4. PICK f \in [0 .. n -> S] : f[0] = a /\ \A i \in 1 .. n : f[i] = F[<<f[i - 1], i>>]
  <2> HIDE DEF F, S, a
  <2>1. Follows(n, S, a, F) # {}
    BY <1>3, RecursiveFunction
  <2> QED
    BY <2>1 DEF Follows
<1>5. ASSUME NEW i \in 1 .. n PROVE f[i] = Below(path[i], f[i - 1])
  <2>1. <<f[i - 1], i>> \in S \X (1 .. n)
    BY <1>4
  <2> QED
    BY <1>4, <2>1
<1>6. f = [i \in 0 .. n |-> IF i = 0 THEN a ELSE Below(path[i], f[i - 1])]
  BY <1>4, <1>5
<1>7. f = [i \in 0 .. Len(path) |->
             IF i = 0 THEN {Covering(mnt[RootMnt].root)}
             ELSE {Covering(e) : e \in {e \in live : /\ name[e] = path[i]
                                                   /\ parent[e] \in f[i - 1] \ {e}}}]
  BY <1>6 DEF Below
<1>8. set = [i \in 0 .. Len(path) |->
               IF i = 0 THEN {Covering(mnt[RootMnt].root)}
               ELSE {Covering(e) : e \in {e \in live : /\ name[e] = path[i]
                                                     /\ parent[e] \in set[i - 1] \ {e}}}]
  BY <1>7
<1> HIDE DEF at, set, F, S, a
<1>9. set[0] = a /\ \A i \in 1 .. n : set[i] = Below(path[i], set[i - 1])
  <2>1. set = [i \in 0 .. n |-> IF i = 0 THEN a ELSE Below(path[i], set[i - 1])]
    BY <1>8, Zenon DEF Below, a
  <2>2. 0 \in 0 .. n /\ \A i \in 1 .. n : i \in 0 .. n /\ i # 0
    OBVIOUS
  <2> QED
    BY <2>1, <2>2, Zenon
<1> DEFINE Good(i) == set[i] = IF at[i].status = "ok" THEN {Covering(at[i].dentry)} ELSE {}
           T == {k \in Nat : k <= n => Good(k)}
<1>10. 0 \in T
  <2>1. at[0].status = "ok" /\ at[0].dentry = mnt[RootMnt].root
    BY <1>1 DEF Start
  <2> QED
    BY <1>9, <2>1 DEF a
<1>11. ASSUME NEW k \in Nat, k \in T PROVE k + 1 \in T
  <2> SUFFICES ASSUME k + 1 <= n PROVE Good(k + 1)
    OBVIOUS
  <2>1. k \in 0 .. n /\ k + 1 \in 1 .. n /\ k + 1 - 1 = k
    OBVIOUS
  <2>2. Good(k) /\ at[k] \in Places(t) /\ path[k + 1] \in Names
    BY <1>1, <1>11, <2>1
  <2>3. at[k + 1] = StepTo(at[k], path[k + 1]) /\ set[k + 1] = Below(path[k + 1], set[k])
    BY <1>1, <1>9, <2>1
  <2>4. PICK p, X, c : p = at[k] /\ X = set[k] /\ c = path[k + 1]
    OBVIOUS
  <2>5. X = IF p.status = "ok" THEN {Covering(p.dentry)} ELSE {}
    BY <2>2, <2>4
  <2>6. Below(c, X) = IF StepTo(p, c).status = "ok" THEN {Covering(StepTo(p, c).dentry)} ELSE {}
    BY <2>2, <2>4, <2>5, StepFollowsMounts
  <2> QED
    BY <2>3, <2>4, <2>6
<1>12. n \in T
  <2> HIDE DEF T
  <2>1. Nat \subseteq T
    BY <1>10, <1>11, NatSetInduction
  <2> QED
    BY <2>1
<1> QED
  BY <1>2, <1>12 DEF at

\* For paths of any length a walk along names is the walk of the tree with the
\* mounted roots in the place of the entries they cover, and fails only where
\* that tree has no such name.
THEOREM WalksFollowMounts == ASSUME Devices = {} PROVE Spec => []WalkFollowsMounts
<1>1. ASSUME IInv PROVE WalkFollowsMounts
  <2> SUFFICES ASSUME NEW k \in 1 .. MaxPath, NEW path \in [1 .. k -> Names]
               PROVE  LET p == Walked(path)[Len(path)]
                      IN  Denoted(path) = IF p.status = "ok" THEN {Covering(p.dentry)} ELSE {}
    BY DEF WalkFollowsMounts, PlainPaths
  <2>1. k \in Nat
    OBVIOUS
  <2>2. DOMAIN path = 1 .. k
    OBVIOUS
  <2>3. Len(path) = k
    BY <2>1, <2>2
  <2>4. PICK t : Labels(t)
    BY <1>1 DEF IInv, LabelInv
  <2> QED
    BY <1>1, <2>1, <2>3, <2>4, WalkLeadsWhereNamed DEF IInv
<1> QED
  BY <1>1, VfsInvariant, PTL

-----------------------------------------------------------------------------
(* The mount of a walk. *)

\* What Ancestors lists: the entry, its parent, and so on.
Climbs(d) ==
  {u \in [0 .. Cardinality(Dentries) -> Dentries] :
     u[0] = d /\ \A i \in 1 .. Cardinality(Dentries) : u[i] = parent[u[i - 1]]}

LEMMA AncestorsClimb ==
  ASSUME TypeInv, IsFiniteSet(Dentries), NEW d \in Dentries
  PROVE  \E u \in Climbs(d) : Ancestors(d) = {u[i] : i \in 0 .. Cardinality(Dentries)}
<1> DEFINE n == Cardinality(Dentries)
           up[i \in 0 .. Cardinality(Dentries)] == IF i = 0 THEN d ELSE parent[up[i - 1]]
           F == [x \in Dentries \X (1 .. n) |-> parent[x[1]]]
<1>1. n \in Nat /\ F \in Steps(n, Dentries)
  BY FS_CardinalityType DEF Steps, TypeInv
<1>2. PICK f \in [0 .. n -> Dentries] : f[0] = d /\ \A i \in 1 .. n : f[i] = F[<<f[i - 1], i>>]
  <2> HIDE DEF F, n
  <2>1. Follows(n, Dentries, d, F) # {}
    BY <1>1, RecursiveFunction
  <2> QED
    BY <2>1 DEF Follows
<1>3. ASSUME NEW i \in 1 .. n PROVE f[i] = parent[f[i - 1]]
  <2> HIDE DEF n
  <2>1. i - 1 \in 0 .. n
    BY <1>1
  <2>2. f[i - 1] \in Dentries
    BY <1>2, <2>1
  <2>3. <<f[i - 1], i>> \in Dentries \X (1 .. n)
    BY <2>2
  <2>4. F[<<f[i - 1], i>>] = parent[f[i - 1]]
    BY <2>3
  <2> HIDE DEF F
  <2> QED
    BY <1>2, <2>4
<1>4. f = [i \in 0 .. Cardinality(Dentries) |-> IF i = 0 THEN d ELSE parent[f[i - 1]]]
  BY <1>1, <1>2, <1>3
<1>5. up = [i \in 0 .. Cardinality(Dentries) |-> IF i = 0 THEN d ELSE parent[up[i - 1]]]
  BY <1>4
<1>6. Ancestors(d) = {up[i] : i \in DOMAIN up}
  BY DEF Ancestors
<1> HIDE DEF up, F
<1>7. DOMAIN up = 0 .. n /\ up[0] = d /\ \A i \in 1 .. n : up[i] = parent[up[i - 1]]
  BY <1>1, <1>5
<1> DEFINE T == {k \in Nat : k <= n => up[k] \in Dentries}
<1>8. Nat \subseteq T
  <2>1. 0 \in T
    BY <1>7
  <2>2. ASSUME NEW k \in Nat, k \in T PROVE k + 1 \in T
    <3> SUFFICES ASSUME k + 1 <= n PROVE up[k + 1] \in Dentries
      OBVIOUS
    <3>1. up[k + 1] = parent[up[k]] /\ up[k] \in Dentries
      BY <1>1, <1>7, <2>2
    <3> QED
      BY <3>1 DEF TypeInv
  <2> HIDE DEF T
  <2> QED
    BY <2>1, <2>2, NatSetInduction
<1>9. up \in [0 .. n -> Dentries]
  <2>1. \A i \in 0 .. n : up[i] \in Dentries
    BY <1>1, <1>8
  <2>2. up = [i \in 0 .. n |-> up[i]]
    BY <1>5
  <2> QED
    BY <2>1, <2>2
<1>10. up \in Climbs(d)
  BY <1>7, <1>9 DEF Climbs
<1> QED
  BY <1>6, <1>7, <1>10

\* The climb from an entry is one step ahead of the climb from its parent.
LEMMA ClimbFromParent ==
  ASSUME IsFiniteSet(Dentries), NEW d \in Dentries, NEW u \in Climbs(d), NEW v \in Climbs(parent[d]),
         NEW i \in Nat, i + 1 <= Cardinality(Dentries)
  PROVE  v[i] = u[i + 1]
<1> DEFINE n == Cardinality(Dentries)
           T == {k \in Nat : k + 1 <= n => v[k] = u[k + 1]}
<1>0. n \in Nat
  BY FS_CardinalityType
<1>1. /\ u[0] = d /\ \A k \in 1 .. n : u[k] = parent[u[k - 1]]
      /\ v[0] = parent[d] /\ \A k \in 1 .. n : v[k] = parent[v[k - 1]]
  BY DEF Climbs
<1> HIDE DEF n
<1>2. 0 \in T
  BY <1>0, <1>1
<1>3. ASSUME NEW k \in Nat, k \in T PROVE k + 1 \in T
  <2> SUFFICES ASSUME k + 1 + 1 <= n PROVE v[k + 1] = u[k + 1 + 1]
    OBVIOUS
  <2>1. v[k + 1] = parent[v[k]] /\ u[k + 1 + 1] = parent[u[k + 1]]
    BY <1>0, <1>1
  <2> QED
    BY <1>0, <1>3, <2>1
<1>4. i \in T
  <2> HIDE DEF T
  <2> QED
    BY <1>2, <1>3, NatSetInduction
<1> QED
  BY <1>4 DEF n

\* A climb that first meets an entry after as many steps as there are entries
\* would have passed more entries than there are: it meets none twice, for
\* what it would do after the second time it did after the first.
LEMMA ClimbIsShort ==
  ASSUME IsFiniteSet(Dentries), NEW d \in Dentries, NEW v \in Climbs(d),
         NEW j \in 0 .. Cardinality(Dentries)
  PROVE  \E i \in 0 .. Cardinality(Dentries) : i < Cardinality(Dentries) /\ v[i] = v[j]
<1> DEFINE n == Cardinality(Dentries)
<1>0. n \in Nat
  BY FS_CardinalityType
<1>1. v \in [0 .. n -> Dentries] /\ \A k \in 1 .. n : v[k] = parent[v[k - 1]]
  BY DEF Climbs
<1>2. \E x, y \in 0 .. n : x # y /\ v[x] = v[y]
  <2>1. IsFiniteSet(0 .. n) /\ Cardinality(0 .. n) = n + 1
    BY <1>0, FS_Interval
  <2>2. Cardinality(Dentries) < Cardinality(0 .. n)
    BY <1>0, <2>1
  <2> HIDE DEF n
  <2>3. PICK S : S = 0 .. n
    OBVIOUS
  <2>4. IsFiniteSet(S) /\ Cardinality(Dentries) < Cardinality(S) /\ v \in [S -> Dentries]
    BY <1>1, <2>1, <2>2, <2>3
  <2>5. \E x, y \in S : x # y /\ v[x] = v[y]
    BY <2>4, FS_PigeonHole, Zenon
  <2> QED
    BY <2>3, <2>5
<1>3. PICK x, y \in 0 .. n : x < y /\ v[x] = v[y]
  <2>1. PICK x, y \in 0 .. n : x # y /\ v[x] = v[y]
    BY <1>2
  <2>2. x < y \/ y < x
    BY <1>0, <2>1
  <2> QED
    BY <2>1, <2>2
<1> HIDE DEF n
<1> DEFINE T == {k \in Nat : y + k <= n => v[x + k] = v[y + k]}
<1>4. Nat \subseteq T
  <2>1. 0 \in T
    BY <1>3
  <2>2. ASSUME NEW k \in Nat, k \in T PROVE k + 1 \in T
    <3> SUFFICES ASSUME y + (k + 1) <= n PROVE v[x + (k + 1)] = v[y + (k + 1)]
      OBVIOUS
    <3>1. v[x + k] = v[y + k]
      BY <1>0, <1>3, <2>2
    <3>2. x + (k + 1) \in 1 .. n /\ y + (k + 1) \in 1 .. n
          /\ x + (k + 1) - 1 = x + k /\ y + (k + 1) - 1 = y + k
      BY <1>0, <1>3
    <3> QED
      BY <1>1, <3>1, <3>2
  <2> HIDE DEF T
  <2> QED
    BY <2>1, <2>2, NatSetInduction
<1>5. CASE j = n
  <2>1. n - y \in Nat /\ y + (n - y) = n /\ x + (n - y) \in 0 .. n /\ x + (n - y) < n
    BY <1>0, <1>3
  <2>2. v[x + (n - y)] = v[y + (n - y)]
    BY <1>0, <1>4, <2>1
  <2>3. v[x + (n - y)] = v[j]
    BY <1>5, <2>1, <2>2
  <2> QED
    BY <2>1, <2>3 DEF n
<1>6. CASE j # n
  BY <1>0, <1>6 DEF n
<1> QED
  BY <1>5, <1>6

LEMMA AncestorsOfParent ==
  ASSUME TypeInv, IsFiniteSet(Dentries), NEW d \in Dentries, NEW r, r \in Ancestors(d), r # d
  PROVE  r \in Ancestors(parent[d])
<1>0. parent[d] \in Dentries /\ Cardinality(Dentries) \in Nat
  BY FS_CardinalityType DEF TypeInv
<1>1. PICK u \in Climbs(d) : Ancestors(d) = {u[i] : i \in 0 .. Cardinality(Dentries)}
  BY AncestorsClimb
<1>2. PICK v \in Climbs(parent[d]) : Ancestors(parent[d]) = {v[i] : i \in 0 .. Cardinality(Dentries)}
  BY <1>0, AncestorsClimb
<1>3. PICK j \in 0 .. Cardinality(Dentries) : r = u[j]
  BY <1>1
<1>4. j # 0
  BY <1>3 DEF Climbs
<1>5. j - 1 \in Nat /\ j - 1 + 1 <= Cardinality(Dentries) /\ j - 1 + 1 = j /\ j - 1 \in 0 .. Cardinality(Dentries)
  BY <1>0, <1>4
<1>6. v[j - 1] = u[j - 1 + 1]
  BY <1>5, ClimbFromParent
<1>7. r = v[j - 1]
  BY <1>3, <1>5, <1>6
<1> QED
  BY <1>2, <1>5, <1>7

LEMMA AncestorsOfChild ==
  ASSUME TypeInv, IsFiniteSet(Dentries), NEW d \in Dentries, NEW r, r \in Ancestors(parent[d])
  PROVE  r \in Ancestors(d)
<1>0. parent[d] \in Dentries /\ Cardinality(Dentries) \in Nat
  BY FS_CardinalityType DEF TypeInv
<1>1. PICK u \in Climbs(d) : Ancestors(d) = {u[i] : i \in 0 .. Cardinality(Dentries)}
  BY AncestorsClimb
<1>2. PICK v \in Climbs(parent[d]) : Ancestors(parent[d]) = {v[i] : i \in 0 .. Cardinality(Dentries)}
  BY <1>0, AncestorsClimb
<1>3. PICK j \in 0 .. Cardinality(Dentries) : r = v[j]
  BY <1>2
<1>4. PICK i \in 0 .. Cardinality(Dentries) : i < Cardinality(Dentries) /\ v[i] = v[j]
  BY <1>0, ClimbIsShort
<1>5. i \in Nat /\ i + 1 <= Cardinality(Dentries) /\ i + 1 \in 0 .. Cardinality(Dentries)
  BY <1>0, <1>4
<1>6. v[i] = u[i + 1]
  BY <1>5, ClimbFromParent
<1> QED
  BY <1>1, <1>3, <1>4, <1>5, <1>6

LEMMA OwnAncestor ==
  ASSUME TypeInv, IsFiniteSet(Dentries), NEW d \in Dentries
  PROVE  d \in Ancestors(d)
<1>1. PICK u \in Climbs(d) : Ancestors(d) = {u[i] : i \in 0 .. Cardinality(Dentries)}
  BY AncestorsClimb
<1>2. u[0] = d /\ 0 \in 0 .. Cardinality(Dentries)
  BY FS_CardinalityType DEF Climbs
<1> QED
  BY <1>1, <1>2

\* From anywhere in the tree of a mount a component leads into the tree of the
\* mount the walk goes on with, `..` over the edge of a mount and a name under
\* a mountpoint included.
THEOREM WalksStayInTheirMount ==
  ASSUME Devices = {}, IsFiniteSet(Dentries) PROVE Spec => []WalkStaysInItsMount
<1>1. ASSUME IInv PROVE WalkStaysInItsMount
  <2> SUFFICES ASSUME NEW m \in LiveMounts, NEW d \in live, NEW c \in Names \cup {".", ".."},
                      NEW p, p = [Start EXCEPT !.mnt = m, !.dentry = d],
                      Inside(p), StepTo(p, c).status = "ok"
               PROVE  Inside(StepTo(p, c))
    BY DEF WalkStaysInItsMount
  <2>0. TypeInv /\ EntryInv /\ MountInv /\ live \subseteq Dentries
    BY <1>1 DEF IInv, TypeInv
  <2>1. p = [mnt |-> m, dentry |-> d, plain |-> TRUE, status |-> "ok"]
    BY DEF Start
  <2>2. mnt[m].root \in Ancestors(d)
    BY <2>1 DEF Inside
  <2>3. \A n \in LiveMounts : mnt[n].root \in live /\ mnt[n].root \in Ancestors(mnt[n].root)
    BY <2>0, OwnAncestor DEF MountInv
  <2>4. Inside(Up(p))
    <3>1. CASE d = mnt[m].root
      <4>1. Up(p) = [p EXCEPT !.mnt = mnt[m].parent, !.dentry = mnt[mnt[m].parent].root]
        BY <2>1, <3>1 DEF Up
      <4>2. Up(p).mnt = mnt[m].parent /\ Up(p).dentry = mnt[mnt[m].parent].root
        BY <2>1, <4>1
      <4>3. mnt[m].parent \in LiveMounts
        BY <2>0 DEF MountInv
      <4> QED
        BY <2>3, <4>2, <4>3 DEF Inside
    <3>2. CASE d # mnt[m].root
      <4>1. Up(p) = [p EXCEPT !.dentry = parent[d]]
        BY <2>1, <3>2 DEF Up
      <4>2. Up(p).mnt = m /\ Up(p).dentry = parent[d]
        BY <2>1, <4>1
      <4>3. mnt[m].root \in Ancestors(parent[d])
        BY <2>0, <2>2, <3>2, AncestorsOfParent
      <4> QED
        BY <4>2, <4>3 DEF Inside
    <3> QED
      BY <3>1, <3>2
  <2>5. ASSUME StepTo(p, c) = Down(p, c) PROVE Inside(Down(p, c))
    <3>0. PICK q : q = Pivot(p)
      OBVIOUS
    <3>1. /\ q = [mnt |-> q.mnt, dentry |-> q.dentry, plain |-> TRUE, status |-> "ok"]
          /\ q.dentry \in live /\ mnt[q.mnt].root \in Ancestors(q.dentry)
      <4>1. CASE d \in mounted
        <5>1. PICK n \in LiveMounts : n = MountAt(d)
          BY <2>0, <4>1, MountedAt
        <5>2. PICK w : w = mnt[n].root
          OBVIOUS
        <5>3. q = [p EXCEPT !.mnt = n, !.dentry = w]
          BY <3>0, <2>1, <4>1, <5>1, <5>2 DEF Pivot
        <5>4. q = [mnt |-> n, dentry |-> w, plain |-> TRUE, status |-> "ok"]
          <6>1. q.mnt = n /\ q.dentry = w /\ q.plain = TRUE /\ q.status = "ok"
            BY <2>1, <5>3
          <6>2. q = [x \in {"mnt", "dentry", "plain", "status"} |-> q[x]]
            BY <2>1, <5>3
          <6> QED
            BY <6>1, <6>2
        <5>5. w \in live /\ w \in Ancestors(w)
          BY <2>3, <5>2
        <5> QED
          BY <5>2, <5>4, <5>5
      <4>2. CASE d \notin mounted
        <5>1. q = p
          BY <2>1, <3>0, <4>2 DEF Pivot
        <5> QED
          BY <2>1, <2>2, <5>1
      <4> QED
        BY <4>1, <4>2
    <3>2. Entries(q.dentry, c) # {}
      <4>1. Entries(q.dentry, c) = {} =>
              Down(p, c) = [q EXCEPT !.status = IF kind[q.dentry] = "dir" THEN "ENODIR" ELSE "fault"]
        BY <3>0 DEF Down
      <4>2. Entries(q.dentry, c) = {} => Down(p, c).status # "ok"
        BY <3>1, <4>1
      <4> QED
        BY <2>5, <4>2
    <3>3. PICK e \in Entries(q.dentry, c) : Down(p, c) = [q EXCEPT !.dentry = e]
      <4>1. PICK e \in Entries(q.dentry, c) : e = CHOOSE x \in Entries(q.dentry, c) : TRUE
        BY <3>2
      <4> QED
        BY <3>0, <3>2, <4>1 DEF Down
    <3>4. e \in Dentries /\ parent[e] = q.dentry
      BY <2>0 DEF Entries, Children
    <3>5. mnt[q.mnt].root \in Ancestors(e)
      BY <2>0, <3>1, <3>4, AncestorsOfChild
    <3>6. Down(p, c).mnt = q.mnt /\ Down(p, c).dentry = e
      BY <3>1, <3>3
    <3> QED
      BY <3>5, <3>6 DEF Inside
  <2>6. StepTo(p, c) \in {p, Up(p), Down(p, c)}
    BY DEF StepTo
  <2> QED
    BY <2>4, <2>5, <2>6
<1> QED
  BY <1>1, VfsInvariant, PTL
=============================================================================
