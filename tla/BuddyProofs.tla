---------------------------- MODULE BuddyProofs ----------------------------
(***************************************************************************)
(* Proofs about the physical page allocator, for every number of pages,    *)
(* every memory map and every largest order up to 8 (the build's).         *)
(*                                                                         *)
(* Geometry first: Halves is one turn of the coalescing loop, Ladder lifts *)
(* it to the whole loop (an induction over at most nine orders, unrolled), *)
(* LoopGeometry is the result.  FreeBlockEffect restates the release of a  *)
(* block as an operation on disjoint blocks, and everything above it is    *)
(* set reasoning, one lemma per action.                                    *)
(***************************************************************************)
EXTENDS Buddy, FiniteSetTheorems, TLAPS

\* Induction over the orders from o to m.
LEMMA Ladder ==
  ASSUME NEW o \in 0 .. 8, NEW m \in 0 .. 8, o <= m, NEW S,
         o \in S, \A k \in o .. m - 1 : k \in S => k + 1 \in S
  PROVE  \A k \in o .. m : k \in S
<1> DEFINE P(k) == k \in o .. m => k \in S
<1>0. P(0) BY SMT
<1>1. P(1) BY <1>0, SMT
<1>2. P(2) BY <1>1, SMT
<1>3. P(3) BY <1>2, SMT
<1>4. P(4) BY <1>3, SMT
<1>5. P(5) BY <1>4, SMT
<1>6. P(6) BY <1>5, SMT
<1>7. P(7) BY <1>6, SMT
<1>8. P(8) BY <1>7, SMT
<1> QED BY <1>0, <1>1, <1>2, <1>3, <1>4, <1>5, <1>6, <1>7, <1>8, SMT

\* 1 << k is positive and doubles with k.
LEMMA BlockSizeFacts ==
  ASSUME NEW k \in 0 .. 8
  PROVE  /\ BlockSize(k) \in Nat \ {0}
         /\ k < 8 => BlockSize(k + 1) = 2 * BlockSize(k)
BY DEF BlockSize

\* p lies in the aligned block of order k that starts at Base(p, k).
LEMMA BaseFacts ==
  ASSUME NEW p \in Nat, NEW k \in 0 .. 8
  PROVE  /\ Base(p, k) \in Nat
         /\ Base(p, k) <= p
         /\ p < Base(p, k) + BlockSize(k)
         /\ Base(p, k) % BlockSize(k) = 0
BY DEF BlockSize, Base

\* One turn of the loop: the block at order k and its buddy are the two
\* halves of the block at order k + 1.
LEMMA Halves ==
  ASSUME NEW p \in Nat, NEW k \in 0 .. 7
  PROVE  LET lo == Base(p, k + 1)
             hi == lo + BlockSize(k)
         IN  \/ Base(p, k) = lo /\ BuddyOf(Base(p, k), k) = hi
             \/ Base(p, k) = hi /\ BuddyOf(Base(p, k), k) = lo
<1>0. CASE k = 0 BY <1>0 DEF Base, BuddyOf, BlockSize
<1>1. CASE k = 1 BY <1>1 DEF Base, BuddyOf, BlockSize
<1>2. CASE k = 2 BY <1>2 DEF Base, BuddyOf, BlockSize
<1>3. CASE k = 3 BY <1>3 DEF Base, BuddyOf, BlockSize
<1>4. CASE k = 4 BY <1>4 DEF Base, BuddyOf, BlockSize
<1>5. CASE k = 5 BY <1>5 DEF Base, BuddyOf, BlockSize
<1>6. CASE k = 6 BY <1>6 DEF Base, BuddyOf, BlockSize
<1>7. CASE k = 7 BY <1>7 DEF Base, BuddyOf, BlockSize
<1> QED BY <1>0, <1>1, <1>2, <1>3, <1>4, <1>5, <1>6, <1>7

\* The block of order k around p lies in the block of order m around p.
LEMMA LowerOrders ==
  ASSUME NEW p \in Nat, NEW o \in 0 .. 8, NEW m \in 0 .. 8, NEW k \in o .. m
  PROVE  /\ Base(p, m) <= Base(p, k)
         /\ Base(p, k) + BlockSize(k) <= Base(p, m) + BlockSize(m)
<1> DEFINE S == {i \in 0 .. 8 : /\ Base(p, i) <= Base(p, k)
                                /\ Base(p, k) + BlockSize(k) <= Base(p, i) + BlockSize(i)}
<1>1. k \in 0 .. 8 /\ k <= m
  OBVIOUS
<1>2. k \in S
  <2>1. Base(p, k) \in Nat /\ BlockSize(k) \in Nat
    BY <1>1, BaseFacts, BlockSizeFacts
  <2> QED BY <1>1, <2>1
<1>3. ASSUME NEW i \in k .. m - 1, i \in S
      PROVE  i + 1 \in S
  <2>1. i \in 0 .. 7 /\ i \in 0 .. 8 /\ i + 1 \in 0 .. 8
    BY <1>1
  <2>2. BlockSize(i + 1) = 2 * BlockSize(i) /\ BlockSize(i) \in Nat \ {0} /\ BlockSize(k) \in Nat
    BY <2>1, <1>1, BlockSizeFacts
  <2>3. Base(p, i) \in Nat /\ Base(p, i + 1) \in Nat /\ Base(p, k) \in Nat
    BY <2>1, <1>1, BaseFacts
  <2>4. Base(p, i) = Base(p, i + 1) \/ Base(p, i) = Base(p, i + 1) + BlockSize(i)
    BY <2>1, Halves
  <2> QED BY <1>3, <2>1, <2>2, <2>3, <2>4
<1>4. \A i \in k .. m : i \in S
  <2> HIDE DEF S
  <2> QED BY <1>1, <1>2, <1>3, Ladder
<1> QED BY <1>1, <1>4

\* The loop from order o to order m, with p aligned to o: the merged block is
\* made of the block released and of the absorbed buddies, its head is one
\* of their heads, and each of their other heads becomes the inside.
LEMMA LoopGeometry ==
  ASSUME NEW p \in Nat, NEW o \in 0 .. 8, NEW m \in 0 .. 8, o <= m,
         p % BlockSize(o) = 0
  PROVE  /\ Base(p, m) \in {p} \cup Absorbed(p, o, m)
         /\ {p} \cup Absorbed(p, o, m) \subseteq {Base(p, m)} \cup Uppers(p, o, m)
         /\ \A u \in Uppers(p, o, m) : u \in Block(Base(p, m), m) /\ u # Base(p, m)
         /\ \A x \in Int : x \in Block(Base(p, m), m) <=>
               \/ x \in Block(p, o)
               \/ \E k \in o .. m - 1 : x \in Block(BuddyOf(Base(p, k), k), k)
         /\ p \notin Absorbed(p, o, m)
<1>1. Base(p, o) = p
  BY DEF Base
<1>2. ASSUME NEW k \in o .. m - 1
      PROVE  /\ k \in 0 .. 7 /\ k \in 0 .. 8 /\ k + 1 \in 0 .. 8
             /\ BlockSize(k + 1) = 2 * BlockSize(k)
             /\ BlockSize(k) \in Nat \ {0}
             /\ Base(p, k) \in Nat /\ Base(p, k + 1) \in Nat
             /\ \/ Base(p, k) = Base(p, k + 1) /\ BuddyOf(Base(p, k), k) = Base(p, k + 1) + BlockSize(k)
                \/ Base(p, k) = Base(p, k + 1) + BlockSize(k) /\ BuddyOf(Base(p, k), k) = Base(p, k + 1)
  <2>1. k \in 0 .. 7 /\ k \in 0 .. 8 /\ k + 1 \in 0 .. 8
    OBVIOUS
  <2>2. BlockSize(k + 1) = 2 * BlockSize(k) /\ BlockSize(k) \in Nat \ {0}
    BY <2>1, BlockSizeFacts
  <2>3. Base(p, k) \in Nat /\ Base(p, k + 1) \in Nat
    BY <2>1, BaseFacts
  <2> QED BY <2>1, <2>2, <2>3, Halves
<1>3. Base(p, m) \in {p} \cup Absorbed(p, o, m)
  <2> DEFINE S == {k \in 0 .. 8 : Base(p, k) = p \/ \E j \in o .. k - 1 : Base(p, k) = BuddyOf(Base(p, j), j)}
  <2>1. o \in S
    BY <1>1
  <2>2. ASSUME NEW k \in o .. m - 1, k \in S PROVE k + 1 \in S
    BY <2>2, <1>2
  <2>3. m \in S
    <3> HIDE DEF S
    <3> QED BY <2>1, <2>2, Ladder
  <2> QED BY <2>3 DEF Absorbed
<1>4. ASSUME NEW j \in o .. m
      PROVE  Base(p, j) \in {Base(p, m)} \cup Uppers(p, o, m)
  <2> DEFINE S == {k \in 0 .. 8 : Base(p, k) = Base(p, j) \/ \E i \in j .. k - 1 : Base(p, j) = Base(p, i + 1) + BlockSize(i)}
  <2>1. j \in S /\ j \in 0 .. 8 /\ j <= m
    OBVIOUS
  <2>2. ASSUME NEW k \in j .. m - 1, k \in S PROVE k + 1 \in S
    BY <2>2, <1>2
  <2>3. m \in S
    <3> HIDE DEF S
    <3> QED BY <2>1, <2>2, Ladder
  <2> QED BY <2>3 DEF Uppers
<1>5. {p} \cup Absorbed(p, o, m) \subseteq {Base(p, m)} \cup Uppers(p, o, m)
  <2>1. p \in {Base(p, m)} \cup Uppers(p, o, m)
    BY <1>1, <1>4
  <2>2. ASSUME NEW k \in o .. m - 1
        PROVE  BuddyOf(Base(p, k), k) \in {Base(p, m)} \cup Uppers(p, o, m)
    <3>1. CASE BuddyOf(Base(p, k), k) = Base(p, k + 1)
      BY <3>1, <1>4
    <3>2. CASE BuddyOf(Base(p, k), k) = Base(p, k + 1) + BlockSize(k)
      BY <3>2 DEF Uppers
    <3> QED BY <3>1, <3>2, <1>2
  <2> QED BY <2>1, <2>2 DEF Absorbed
<1>6. ASSUME NEW k \in o .. m - 1
      PROVE  LET u == Base(p, k + 1) + BlockSize(k)
             IN  u \in Block(Base(p, m), m) /\ u # Base(p, m)
  <2>1. /\ Base(p, m) <= Base(p, k + 1)
        /\ Base(p, k + 1) + BlockSize(k + 1) <= Base(p, m) + BlockSize(m)
    BY LowerOrders
  <2>2. Base(p, m) \in Nat /\ BlockSize(m) \in Nat
    BY BaseFacts, BlockSizeFacts
  <2> QED BY <1>2, <2>1, <2>2 DEF Block
<1>7. ASSUME NEW x \in Int
      PROVE  x \in Block(Base(p, m), m) <=>
               \/ x \in Block(p, o)
               \/ \E k \in o .. m - 1 : x \in Block(BuddyOf(Base(p, k), k), k)
  <2> DEFINE S == {k \in 0 .. 8 : x \in Block(Base(p, k), k) <=>
                      \/ x \in Block(p, o)
                      \/ \E j \in o .. k - 1 : x \in Block(BuddyOf(Base(p, j), j), j)}
  <2>1. o \in S
    BY <1>1
  <2>2. ASSUME NEW k \in o .. m - 1, k \in S PROVE k + 1 \in S
    <3>1. x \in Block(Base(p, k + 1), k + 1) <=>
            x \in Block(Base(p, k), k) \/ x \in Block(BuddyOf(Base(p, k), k), k)
      BY <1>2 DEF Block
    <3>2. \A j \in Int : j \in o .. (k + 1) - 1 <=> j \in o .. k - 1 \/ j = k
      OBVIOUS
    <3> QED BY <2>2, <1>2, <3>1, <3>2
  <2>3. m \in S
    <3> HIDE DEF S
    <3> QED BY <2>1, <2>2, Ladder
  <2> QED BY <2>3
<1>8. ASSUME NEW k \in o .. m - 1
      PROVE  BuddyOf(Base(p, k), k) # p
  <2>1. k \in 0 .. 8 /\ Base(p, k) <= p /\ p < Base(p, k) + BlockSize(k)
    BY <1>2, BaseFacts
  <2> QED BY <1>2, <2>1
<1> QED BY <1>3, <1>5, <1>6, <1>7, <1>8 DEF Absorbed, Uppers

-----------------------------------------------------------------------------
(* The state.  What the coalescing loop does, in terms of blocks. *)

IInv == /\ TypeOK
        /\ BlocksDisjoint
        /\ NoPageLost
        /\ ListsAgree
        /\ CountersExact
        /\ FreeChecksNeverFire

\* The orders and page numbers of every instance are small naturals.
LEMMA OrdersAreSmall == Orders \subseteq 0 .. 8 /\ Pages \subseteq Nat
BY MaxOrderAssumption, PageCountAssumption DEF Orders, Pages

\* The release of the block (p, o) as seen on the blocks: p and the absorbed
\* buddies A stop being heads of free blocks, and B heads one free block of
\* order m that covers exactly what they covered.
FreedInto(p, o, B, m, A) ==
  /\ m >= o /\ B % BlockSize(m) = 0 /\ B \in {p} \cup A /\ p \notin A
  /\ \A a \in A : order[a] \in o .. m - 1
  /\ order' \in [Pages -> -1 .. MaxOrder] /\ order'[B] = m
  /\ Heads' = (Heads \ ({p} \cup A)) \cup {B}
  /\ \A q \in Heads' \ {B} : order'[q] = order[q]
  /\ free' = (free \ A) \cup {B}
  /\ \A x \in Int : x \in Block(B, m) <=>
       x \in Block(p, o) \/ \E a \in A : x \in Block(a, order[a])
  /\ list' = [k \in Orders |-> IF k = m THEN list[k] \cup {B} ELSE list[k] \ A]
  /\ freeCount' = [k \in Orders |->
       IF k = m THEN freeCount[k] + 1
       ELSE IF \E a \in A : order[a] = k THEN freeCount[k] - 1
       ELSE freeCount[k]]
  /\ \A a, c \in A : order[a] = order[c] => a = c
  /\ freePages' = freePages + BlockSize(o)

\* __allocator_free_block(p, o) for a block that overlaps no other: it
\* removes the absorbed buddies A and p from the heads, and adds one free
\* head B whose block is exactly what they covered.
LEMMA FreeBlockEffect ==
  ASSUME TypeOK, ListsAgree,
         \A q, r \in Heads : q # r => Block(q, order[q]) \cap Block(r, order[r]) = {},
         NEW p \in Pages, NEW o \in Orders, p % BlockSize(o) = 0, p \notin free,
         \A q \in Heads \ {p} : Block(q, order[q]) \cap Block(p, o) = {},
         FreeBlock(p, o)
  PROVE  \E B \in Pages, m \in Orders, A \in SUBSET free : FreedInto(p, o, B, m, A)
<1>1. PICK m \in o .. MaxOrder :
        /\ StopsAt(p, o, m)
        /\ order' = [q \in Pages |-> IF q = Base(p, m) THEN m
                                     ELSE IF q \in Uppers(p, o, m) THEN -1
                                     ELSE order[q]]
        /\ list' = [k \in Orders |-> IF k = m THEN list[k] \cup {Base(p, m)}
                                     ELSE list[k] \ Absorbed(p, o, m)]
        /\ freeCount' = [k \in Orders |-> IF k = m THEN freeCount[k] + 1
                                          ELSE IF k \in o .. m - 1 THEN freeCount[k] - 1
                                          ELSE freeCount[k]]
        /\ free' = (free \ Absorbed(p, o, m)) \cup {Base(p, m)}
        /\ freePages' = freePages + BlockSize(o)
  BY DEF FreeBlock
<1> DEFINE H == Base(p, m)
           T == Absorbed(p, o, m)
<1>2. /\ m \in Orders /\ o \in 0 .. 8 /\ m \in 0 .. 8 /\ o <= m /\ p \in Nat
      /\ MaxOrder \in 0 .. 8 /\ o .. m - 1 \subseteq Orders
  BY MaxOrderAssumption, PageCountAssumption DEF Orders, Pages
<1>3. /\ H \in {p} \cup T
      /\ {p} \cup T \subseteq {H} \cup Uppers(p, o, m)
      /\ \A u \in Uppers(p, o, m) : u \in Block(H, m) /\ u # H
      /\ \A x \in Int : x \in Block(H, m) <=>
            \/ x \in Block(p, o)
            \/ \E k \in o .. m - 1 : x \in Block(BuddyOf(Base(p, k), k), k)
      /\ p \notin T
  BY <1>2, LoopGeometry
<1>4. \A k \in o .. m - 1 : LET b == BuddyOf(Base(p, k), k)
                            IN  b \in Pages /\ b \in free /\ order[b] = k
  BY <1>1 DEF StopsAt, Mergeable
<1>5. T \subseteq free /\ T \subseteq Pages /\ \A a \in T : order[a] \in o .. m - 1
  BY <1>4 DEF Absorbed
<1>6. \A k \in o .. m - 1 : \A a \in T : order[a] = k <=> a = BuddyOf(Base(p, k), k)
  BY <1>4 DEF Absorbed
<1>7. \A x \in Int : x \in Block(H, m) <=>
         x \in Block(p, o) \/ \E a \in T : x \in Block(a, order[a])
  BY <1>3, <1>4 DEF Absorbed
<1>8. H \in Pages /\ H % BlockSize(m) = 0
  BY <1>2, <1>3, <1>5, BaseFacts
<1>9. order' \in [Pages -> -1 .. MaxOrder] /\ order'[H] = m
  BY <1>1, <1>2, <1>8 DEF TypeOK
<1>10. \A q \in Heads : q \in Block(q, order[q])
  <2> SUFFICES ASSUME NEW q \in Heads PROVE q \in Block(q, order[q])
    OBVIOUS
  <2>1. q \in Nat /\ order[q] \in 0 .. 8
    <3>1. q \in Pages /\ order[q] >= 0
      BY DEF Heads
    <3>2. order[q] \in -1 .. MaxOrder
      BY <3>1 DEF TypeOK
    <3> QED BY <3>1, <3>2, <1>2, PageCountAssumption DEF Pages
  <2> QED BY <2>1, BlockSizeFacts DEF Block
<1>11. \A u \in Uppers(p, o, m) \cap Heads : u \in {p} \cup T
  <2> SUFFICES ASSUME NEW u \in Uppers(p, o, m), u \in Heads, u # p
               PROVE  u \in T
    OBVIOUS
  <2>1. u \in Int /\ u \in Block(H, m) /\ u \in Block(u, order[u])
    BY <1>3, <1>10, PageCountAssumption DEF Heads, Pages
  <2>2. u \notin Block(p, o)
    BY <2>1
  <2>3. PICK a \in T : u \in Block(a, order[a])
    BY <1>7, <2>1, <2>2
  <2>4. a \in Heads
    BY <1>5 DEF ListsAgree
  <2> QED BY <2>1, <2>3, <2>4
<1>12. Heads' = (Heads \ ({p} \cup T)) \cup {H}
  <2>1. \A q \in Pages : q \in Heads' <=> order'[q] >= 0
    BY DEF Heads
  <2>2. \A q \in Pages : order'[q] = IF q = H THEN m ELSE IF q \in Uppers(p, o, m) THEN -1 ELSE order[q]
    BY <1>1
  <2>3. \A q \in Pages : q \in Heads' <=> q = H \/ (q \notin Uppers(p, o, m) /\ q \in Heads)
    BY <2>1, <2>2, <1>2 DEF Heads, TypeOK
  <2>4. Heads' \subseteq Pages /\ Heads \subseteq Pages
    BY DEF Heads
  <2> QED BY <2>3, <2>4, <1>3, <1>8, <1>11
<1>13. \A q \in Heads' \ {H} : order'[q] = order[q]
  BY <1>1, <1>12, <1>3, <1>9, <1>11, <1>2 DEF Heads
<1>14. \A k \in Orders : k # m => (k \in o .. m - 1 <=> \E a \in T : order[a] = k)
  BY <1>4, <1>5 DEF Absorbed
<1>15. freeCount' = [k \in Orders |->
                IF k = m THEN freeCount[k] + 1
                ELSE IF \E a \in T : order[a] = k THEN freeCount[k] - 1
                ELSE freeCount[k]]
  BY <1>1, <1>14
<1>16. \A a, c \in T : order[a] = order[c] => a = c
  BY <1>5, <1>6
<1>17. /\ free' = (free \ T) \cup {H}
       /\ list' = [k \in Orders |-> IF k = m THEN list[k] \cup {H} ELSE list[k] \ T]
       /\ freePages' = freePages + BlockSize(o)
       /\ m >= o
  BY <1>1
<1> HIDE DEF T, H
<1>18. FreedInto(p, o, H, m, T)
  BY <1>3, <1>5, <1>7, <1>8, <1>9, <1>12, <1>13, <1>15, <1>16, <1>17 DEF FreedInto
<1>19. H \in Pages /\ m \in Orders /\ T \in SUBSET free
  BY <1>2, <1>5, <1>8
<1> QED BY <1>18, <1>19

\* Every set of pages is finite and has a size.
LEMMA PagesFinite ==
  ASSUME NEW S \in SUBSET Pages
  PROVE  IsFiniteSet(S) /\ Cardinality(S) \in Nat
<1>1. IsFiniteSet(Pages)
  BY FS_Interval, PageCountAssumption DEF Pages
<1>2. IsFiniteSet(S)
  BY <1>1, FS_Subset
<1> QED BY <1>2, FS_CardinalityType

\* A block of order k has 1 << k pages.
LEMMA BlockCardinality ==
  ASSUME NEW p \in Nat, NEW k \in 0 .. 8
  PROVE  Cardinality(Block(p, k)) = BlockSize(k)
<1>1. BlockSize(k) \in Nat \ {0}
  BY BlockSizeFacts
<1>2. p + BlockSize(k) - 1 \in Int /\ p \in Int /\ ~ (p > p + BlockSize(k) - 1)
  BY <1>1
<1> HIDE DEF BlockSize
<1> QED BY <1>1, <1>2, FS_Interval DEF Block

\* Releasing a block keeps the invariant: the release of a block in use
\* (pfree) and of a page handed over at boot (init_palloc) alike.
LEMMA FreeBlockPreserves ==
  ASSUME IInv, NEW p \in Pages, NEW o \in Orders, p % BlockSize(o) = 0, p \notin free,
         p \in Heads => order[p] = o,
         \A q \in Heads \ {p} : Block(q, order[q]) \cap Block(p, o) = {},
         FreeBlock(p, o),
         Managed' = Managed \cup Block(p, o),
         count' \in [Pages -> {0, 1}], invalid' \subseteq Pages,
         \A q \in Pages : count'[q] = 1 <=> q \in (Heads \ free) \ {p},
         status' \in {"boot", "running"}
  PROVE  IInv'
<1> USE DEF IInv
<1>1. PICK B \in Pages, m \in Orders, A \in SUBSET free : FreedInto(p, o, B, m, A)
  BY FreeBlockEffect DEF BlocksDisjoint
<1>a. /\ m >= o /\ B % BlockSize(m) = 0 /\ B \in {p} \cup A /\ p \notin A
      /\ \A a \in A : order[a] \in o .. m - 1
  BY <1>1 DEF FreedInto
<1>b. /\ order' \in [Pages -> -1 .. MaxOrder] /\ order'[B] = m
      /\ Heads' = (Heads \ ({p} \cup A)) \cup {B}
      /\ \A q \in Heads' \ {B} : order'[q] = order[q]
      /\ free' = (free \ A) \cup {B}
  BY <1>1 DEF FreedInto
<1>c. \A x \in Int : x \in Block(B, m) <=>
        x \in Block(p, o) \/ \E a \in A : x \in Block(a, order[a])
  BY <1>1 DEF FreedInto
<1>d. list' = [k \in Orders |-> IF k = m THEN list[k] \cup {B} ELSE list[k] \ A]
  BY <1>1 DEF FreedInto
<1>e. freeCount' = [k \in Orders |->
        IF k = m THEN freeCount[k] + 1
        ELSE IF \E a \in A : order[a] = k THEN freeCount[k] - 1
        ELSE freeCount[k]]
  BY <1>1 DEF FreedInto
<1>f. /\ \A a, c \in A : order[a] = order[c] => a = c
      /\ freePages' = freePages + BlockSize(o)
  BY <1>1 DEF FreedInto
<1>2. /\ A \subseteq Heads /\ Heads \subseteq Pages /\ free \subseteq Heads
      /\ Orders \subseteq 0 .. 8 /\ Pages \subseteq Nat
  BY OrdersAreSmall DEF ListsAgree, Heads
<1>3. \A q \in Heads : Block(q, order[q]) \subseteq Managed /\ order[q] \in Orders
  BY DEF BlocksDisjoint, Heads, TypeOK, Orders
<1>4. \A q \in Heads \ ({p} \cup A) : Block(q, order[q]) \cap Block(B, m) = {}
  <2> SUFFICES ASSUME NEW q \in Heads \ ({p} \cup A), NEW x \in Block(q, order[q]), x \in Block(B, m)
               PROVE  FALSE
    OBVIOUS
  <2>1. x \in Int
    BY DEF Block
  <2>2. x \notin Block(p, o)
    OBVIOUS
  <2>3. PICK a \in A : x \in Block(a, order[a])
    BY <1>c, <2>1, <2>2
  <2> QED BY <2>3, <1>2 DEF BlocksDisjoint
<1>5. BlocksDisjoint'
  <2>1. ASSUME NEW q \in Heads'
        PROVE  q % BlockSize(order'[q]) = 0 /\ Block(q, order'[q]) \subseteq Managed'
    <3>1. CASE q = B
      <4>1. Block(B, m) \subseteq Managed'
        <5> SUFFICES ASSUME NEW x \in Block(B, m) PROVE x \in Managed'
          OBVIOUS
        <5>1. x \in Int
          BY DEF Block
        <5> QED BY <5>1, <1>c, <1>2, <1>3
      <4> QED BY <3>1, <4>1, <1>a, <1>b
    <3>2. CASE q # B
      BY <3>2, <1>b, <1>3 DEF BlocksDisjoint
    <3> QED BY <3>1, <3>2
  <2>2. ASSUME NEW q \in Heads', NEW r \in Heads', q # r
        PROVE  Block(q, order'[q]) \cap Block(r, order'[r]) = {}
    <3>1. CASE q = B
      BY <3>1, <2>2, <1>b, <1>4
    <3>2. CASE r = B
      BY <3>2, <2>2, <1>b, <1>4
    <3>3. CASE q # B /\ r # B
      BY <3>3, <2>2, <1>b DEF BlocksDisjoint
    <3> QED BY <3>1, <3>2, <3>3
  <2> QED BY <2>1, <2>2 DEF BlocksDisjoint
<1>6. NoPageLost'
  <2> SUFFICES ASSUME NEW x \in Managed' PROVE \E q \in Heads' : x \in Block(q, order'[q])
    BY DEF NoPageLost
  <2>1. CASE x \in Block(B, m)
    BY <2>1, <1>b
  <2>2. CASE x \notin Block(B, m)
    <3>0. x \in Int
      BY PageCountAssumption, RamAssumption DEF Managed, Block, Pages
    <3>1. x \notin Block(p, o) /\ \A a \in A : x \notin Block(a, order[a])
      BY <2>2, <3>0, <1>c
    <3>2. PICK q \in Heads : x \in Block(q, order[q])
      BY <3>1 DEF NoPageLost
    <3>3. q \notin {p} \cup A
      BY <3>1, <3>2
    <3>4. q # B
      BY <3>3, <1>a
    <3> QED BY <3>2, <3>3, <3>4, <1>b
  <2> QED BY <2>1, <2>2
<1>7. ListsAgree'
  <2>1. ASSUME NEW k \in Orders PROVE list'[k] = {q \in free' : order'[q] = k}
    <3>1. list[k] = {q \in free : order[q] = k}
      BY DEF ListsAgree
    <3>2. \A q \in free \ A : q # B /\ order'[q] = order[q]
      BY <1>a, <1>b, <1>2
    <3>3. k = m => list[k] \cap A = {}
      <4>1. \A a \in A : order[a] # m
        BY <1>a, <1>2
      <4> QED BY <3>1, <4>1
    <3>4. B \in free => B \in A
      BY <1>a
    <3>5. CASE k = m
      <4>1. list'[k] = list[k] \cup {B}
        BY <3>5, <1>d
      <4>2. \A q : q \in list[k] => q \in free \ A
        BY <3>1, <3>3, <3>5
      <4>3. \A q \in free' : q = B \/ (q \in free \ A /\ order'[q] = order[q])
        BY <3>2, <1>b
      <4> QED BY <3>1, <3>2, <3>5, <4>1, <4>2, <4>3, <1>b
    <3>6. CASE k # m
      <4>1. list'[k] = list[k] \ A
        BY <3>6, <1>d
      <4>2. \A q \in free' : q = B \/ (q \in free \ A /\ order'[q] = order[q])
        BY <3>2, <1>b
      <4> QED BY <3>1, <3>2, <3>6, <4>1, <4>2, <1>b
    <3> QED BY <3>5, <3>6
  <2>2. free' \subseteq Heads'
    BY <1>b, <1>2
  <2>3. \A q \in Pages : count'[q] = 1 <=> q \in Heads' \ free'
    BY <1>a, <1>b
  <2> QED BY <2>1, <2>2, <2>3 DEF ListsAgree
<1>8. \A k \in Orders : freeCount'[k] = Cardinality(list'[k])
  <2> SUFFICES ASSUME NEW k \in Orders PROVE freeCount'[k] = Cardinality(list'[k])
    OBVIOUS
  <2>1. /\ list[k] = {q \in free : order[q] = k} /\ list[k] \in SUBSET Pages
        /\ freeCount[k] = Cardinality(list[k])
    BY DEF ListsAgree, CountersExact, TypeOK
  <2>2. IsFiniteSet(list[k]) /\ Cardinality(list[k]) \in Nat
    BY <2>1, PagesFinite
  <2>3. CASE k = m
    <3>1. B \notin list[k]
      BY <2>1, <2>3, <1>a, <1>2
    <3>2. Cardinality(list[k] \cup {B}) = Cardinality(list[k]) + 1
      BY <2>2, <3>1, FS_AddElement
    <3>3. list'[k] = list[k] \cup {B} /\ freeCount'[k] = freeCount[k] + 1
      BY <2>3, <1>d, <1>e
    <3> QED BY <2>1, <3>2, <3>3
  <2>4. CASE k # m /\ \E a \in A : order[a] = k
    <3>1. PICK a \in A : order[a] = k
      BY <2>4
    <3>2. a \in list[k] /\ list[k] \ A = list[k] \ {a}
      BY <2>1, <3>1, <1>f
    <3>3. Cardinality(list[k] \ {a}) = Cardinality(list[k]) - 1
      BY <2>2, <3>2, FS_RemoveElement
    <3> QED BY <2>1, <2>4, <3>2, <3>3, <1>d, <1>e
  <2>5. CASE k # m /\ ~ \E a \in A : order[a] = k
    <3>1. list[k] \ A = list[k]
      BY <2>1, <2>5
    <3> QED BY <2>1, <2>5, <3>1, <1>d, <1>e
  <2> QED BY <2>3, <2>4, <2>5
<1>9. freePages' = Cardinality(FreeMemory')
  <2>1. FreeMemory' = FreeMemory \cup Block(p, o)
    <3>1. ASSUME NEW x \in FreeMemory' PROVE x \in FreeMemory \cup Block(p, o)
      <4>1. PICK q \in free' : x \in Block(q, order'[q])
        BY DEF FreeMemory
      <4>2. CASE q = B
        <5>1. x \in Int /\ x \in Block(B, m)
          BY <4>1, <4>2, <1>b DEF Block
        <5> QED BY <5>1, <1>c DEF FreeMemory
      <4>3. CASE q # B
        BY <4>1, <4>3, <1>b, <1>2 DEF FreeMemory
      <4> QED BY <4>2, <4>3
    <3>2. ASSUME NEW x \in FreeMemory PROVE x \in FreeMemory'
      <4>1. PICK q \in free : x \in Block(q, order[q])
        BY DEF FreeMemory
      <4>2. CASE q \in A
        <5>1. x \in Int
          BY <4>1 DEF Block
        <5>2. x \in Block(B, m)
          BY <5>1, <4>1, <4>2, <1>c
        <5> QED BY <5>2, <1>b DEF FreeMemory
      <4>3. CASE q \notin A
        <5>1. q \in free' /\ q \in Heads' /\ q # B
          BY <4>3, <1>a, <1>b, <1>2
        <5> QED BY <4>1, <5>1, <1>b DEF FreeMemory
      <4> QED BY <4>2, <4>3
    <3>3. ASSUME NEW x \in Block(p, o) PROVE x \in FreeMemory'
      <4>1. x \in Int
        BY DEF Block
      <4> QED BY <4>1, <1>b, <1>c DEF FreeMemory
    <3> QED BY <3>1, <3>2, <3>3
  <2>2. FreeMemory \cap Block(p, o) = {}
    BY <1>2 DEF FreeMemory
  <2>3. FreeMemory \in SUBSET Pages /\ Block(p, o) \in SUBSET Pages
    <3>1. Managed \subseteq Pages /\ Managed' \subseteq Pages
      BY RamAssumption DEF Managed
    <3> QED BY <3>1, <1>2, <1>3 DEF FreeMemory
  <2>4. /\ IsFiniteSet(FreeMemory) /\ IsFiniteSet(Block(p, o))
        /\ Cardinality(FreeMemory) \in Nat /\ Cardinality(Block(p, o)) \in Nat
    BY <2>3, PagesFinite
  <2>5. Cardinality(FreeMemory \cup Block(p, o)) = Cardinality(FreeMemory) + Cardinality(Block(p, o))
    <3>1. Cardinality(FreeMemory \cup Block(p, o)) =
            Cardinality(FreeMemory) + Cardinality(Block(p, o)) - Cardinality(FreeMemory \cap Block(p, o))
      BY <2>4, FS_Union
    <3>2. Cardinality({}) = 0
      BY FS_EmptySet
    <3>3. Cardinality(FreeMemory \cap Block(p, o)) = 0
      BY <3>2, <2>2
    <3> QED BY <3>1, <3>3, <2>4
  <2>6. Cardinality(Block(p, o)) = BlockSize(o)
    BY <1>2, BlockCardinality
  <2> QED BY <2>1, <2>5, <2>6, <1>f DEF CountersExact
<1>10. TypeOK'
  <2>1. list' \in [Orders -> SUBSET Pages]
    BY <1>d DEF TypeOK
  <2>2. freeCount' \in [Orders -> Int]
    BY <1>e DEF TypeOK
  <2>3. freePages' \in Int
    BY <1>f, <1>2, BlockSizeFacts DEF TypeOK
  <2>4. free' \subseteq Pages
    BY <1>b DEF TypeOK
  <2> QED BY <2>1, <2>2, <2>3, <2>4, <1>b DEF TypeOK
<1> QED BY <1>5, <1>6, <1>7, <1>8, <1>9, <1>10 DEF CountersExact, FreeChecksNeverFire

-----------------------------------------------------------------------------
(* palloc. *)

\* The halves that split_block makes are aligned, and the buddy is the upper one.
LEMMA SplitGeometry ==
  ASSUME NEW s \in 1 .. 8, NEW p \in Nat, p % BlockSize(s) = 0
  PROVE  LET b == BuddyOf(p, s - 1)
         IN  /\ b = p + BlockSize(s - 1)
             /\ p % BlockSize(s - 1) = 0 /\ b % BlockSize(s - 1) = 0
             /\ BlockSize(s) = 2 * BlockSize(s - 1)
<1> DEFINE Goal == LET b == BuddyOf(p, s - 1)
                   IN  /\ b = p + BlockSize(s - 1)
                       /\ p % BlockSize(s - 1) = 0 /\ b % BlockSize(s - 1) = 0
                       /\ BlockSize(s) = 2 * BlockSize(s - 1)
<1>1. CASE s = 1 BY <1>1 DEF BuddyOf, BlockSize
<1>2. CASE s = 2 BY <1>2 DEF BuddyOf, BlockSize
<1>3. CASE s = 3 BY <1>3 DEF BuddyOf, BlockSize
<1>4. CASE s = 4 BY <1>4 DEF BuddyOf, BlockSize
<1>5. CASE s = 5 BY <1>5 DEF BuddyOf, BlockSize
<1>6. CASE s = 6 BY <1>6 DEF BuddyOf, BlockSize
<1>7. CASE s = 7 BY <1>7 DEF BuddyOf, BlockSize
<1>8. CASE s = 8 BY <1>8 DEF BuddyOf, BlockSize
<1> HIDE DEF Goal
<1>9. Goal
  BY <1>1, <1>2, <1>3, <1>4, <1>5, <1>6, <1>7, <1>8 DEF Goal
<1> QED BY <1>9 DEF Goal

\* Taking a block's memory out of the free memory.
LEMMA TakeBlock ==
  ASSUME NEW F \in SUBSET Pages, NEW p \in Nat, NEW k \in 0 .. 8, Block(p, k) \subseteq F
  PROVE  Cardinality(F \ Block(p, k)) = Cardinality(F) - BlockSize(k)
<1>1. IsFiniteSet(F)
  BY PagesFinite
<1>2. Cardinality(F \ Block(p, k)) = Cardinality(F) - Cardinality(F \cap Block(p, k))
  BY <1>1, FS_Difference
<1>3. F \cap Block(p, k) = Block(p, k)
  OBVIOUS
<1> QED BY <1>2, <1>3, BlockCardinality

\* What the invariant says of a head: its block is aligned, managed and contains it.
LEMMA HeadFacts ==
  ASSUME IInv
  PROVE  /\ Heads \subseteq Pages /\ free \subseteq Heads /\ Pages \subseteq Nat
         /\ \A q \in Heads : /\ order[q] \in Orders /\ order[q] \in 0 .. 8
                             /\ q % BlockSize(order[q]) = 0
                             /\ Block(q, order[q]) \subseteq Managed
                             /\ q \in Block(q, order[q])
         /\ Managed \subseteq Pages /\ FreeMemory \subseteq Pages
<1>1. Heads \subseteq Pages /\ free \subseteq Heads /\ Pages \subseteq Nat /\ Orders \subseteq 0 .. 8
  BY OrdersAreSmall DEF IInv, ListsAgree, Heads
<1>2. ASSUME NEW q \in Heads
      PROVE  /\ order[q] \in Orders /\ order[q] \in 0 .. 8
             /\ q % BlockSize(order[q]) = 0
             /\ Block(q, order[q]) \subseteq Managed
             /\ q \in Block(q, order[q])
  <2>1. order[q] \in Orders
    BY MaxOrderAssumption DEF IInv, TypeOK, Heads, Orders
  <2>2. q % BlockSize(order[q]) = 0 /\ Block(q, order[q]) \subseteq Managed
    BY DEF IInv, BlocksDisjoint
  <2>3. q \in Nat /\ BlockSize(order[q]) \in Nat \ {0}
    BY <2>1, <1>1, BlockSizeFacts
  <2>4. q \in Block(q, order[q])
    BY <2>3 DEF Block
  <2> QED BY <2>1, <2>2, <2>4, <1>1
<1>3. Managed \subseteq Pages
  BY RamAssumption DEF Managed
<1>4. FreeMemory \subseteq Pages
  BY <1>1, <1>2, <1>3 DEF FreeMemory
<1> QED BY <1>1, <1>2, <1>3, <1>4

\* palloc from the list of the order asked for keeps the invariant.
LEMMA PallocDirectPreserves ==
  ASSUME IInv, NEW o \in Orders, PallocDirect(o)
  PROVE  IInv'
<1>1. PICK p \in list[o] :
         /\ list'      = [list EXCEPT ![o] = @ \ {p}]
         /\ freeCount' = [freeCount EXCEPT ![o] = @ - 1]
         /\ free'      = free \ {p}
         /\ order'     = [order EXCEPT ![p] = o]
         /\ count'     = [count EXCEPT ![p] = 1]
         /\ freePages' = freePages - BlockSize(o)
  BY DEF PallocDirect
<1>2. p \in free /\ order[p] = o /\ p \in Heads /\ p \in Pages /\ p \in Nat /\ o \in 0 .. 8
  BY HeadFacts, OrdersAreSmall DEF IInv, ListsAgree
<1>3. order' = order /\ Heads' = Heads /\ Managed' = Managed
  BY <1>1, <1>2 DEF IInv, TypeOK, Heads, Managed, PallocDirect
<1>4. TypeOK'
  BY <1>1, <1>2, <1>3, BlockSizeFacts DEF IInv, TypeOK, PallocDirect
<1>5. BlocksDisjoint' /\ NoPageLost'
  BY <1>3 DEF IInv, BlocksDisjoint, NoPageLost
<1>6. ListsAgree'
  <2>1. \A k \in Orders : list'[k] = {q \in free' : order'[q] = k}
    BY <1>1, <1>2, <1>3 DEF IInv, ListsAgree, TypeOK
  <2>2. free' \subseteq Heads'
    BY <1>1, <1>3, HeadFacts
  <2>3. \A q \in Pages : count'[q] = 1 <=> q \in Heads' \ free'
    BY <1>1, <1>2, <1>3 DEF IInv, ListsAgree, TypeOK
  <2> QED BY <2>1, <2>2, <2>3 DEF ListsAgree
<1>7. CountersExact'
  <2>1. ASSUME NEW k \in Orders PROVE freeCount'[k] = Cardinality(list'[k])
    <3>1. freeCount[k] = Cardinality(list[k]) /\ list[k] \in SUBSET Pages
      BY DEF IInv, CountersExact, TypeOK
    <3>2. IsFiniteSet(list[k])
      BY <3>1, PagesFinite
    <3>3. CASE k = o
      <4>1. Cardinality(list[k] \ {p}) = Cardinality(list[k]) - 1
        BY <3>2, <3>3, FS_RemoveElement
      <4>2. list'[k] = list[k] \ {p} /\ freeCount'[k] = freeCount[k] - 1
        BY <1>1, <3>3 DEF IInv, TypeOK
      <4> QED BY <3>1, <4>1, <4>2
    <3>4. CASE k # o
      BY <1>1, <3>1, <3>4 DEF IInv, TypeOK
    <3> QED BY <3>3, <3>4
  <2>2. FreeMemory' = FreeMemory \ Block(p, o)
    <3>1. \A q \in free \ {p} : Block(q, order[q]) \cap Block(p, o) = {}
      BY <1>2, HeadFacts DEF IInv, BlocksDisjoint
    <3> QED BY <1>1, <1>2, <1>3, <3>1 DEF FreeMemory
  <2>3. Block(p, o) \subseteq FreeMemory
    BY <1>2 DEF FreeMemory
  <2>4. Cardinality(FreeMemory \ Block(p, o)) = Cardinality(FreeMemory) - BlockSize(o)
    BY <2>3, <1>2, HeadFacts, TakeBlock
  <2> QED BY <1>1, <2>1, <2>2, <2>4 DEF IInv, CountersExact
<1> QED BY <1>4, <1>5, <1>6, <1>7 DEF IInv, FreeChecksNeverFire, PallocDirect

\* split_block: a free block of order s becomes two blocks of order s - 1.
LEMMA SplitBlocks ==
  ASSUME IInv, NEW s \in Orders \ {0}, NEW p \in list[s],
         order' = [order EXCEPT ![p] = s - 1, ![BuddyOf(p, s - 1)] = s - 1],
         invalid' = invalid
  PROVE  LET b == BuddyOf(p, s - 1)
         IN  /\ p \in free /\ order[p] = s /\ p \in Pages /\ s - 1 \in Orders
             /\ b \in Pages \ Heads /\ Heads' = Heads \cup {b}
             /\ order' \in [Pages -> -1 .. MaxOrder]
             /\ order'[p] = s - 1 /\ order'[b] = s - 1
             /\ \A q \in Heads \ {p} : order'[q] = order[q] /\ q # b
             /\ Block(p, s) = Block(p, s - 1) \cup Block(b, s - 1)
             /\ Block(p, s - 1) \cap Block(b, s - 1) = {}
             /\ BlocksDisjoint' /\ NoPageLost'
<1> DEFINE b == BuddyOf(p, s - 1)
<1>1. p \in free /\ order[p] = s /\ p \in Heads /\ p \in Pages /\ p \in Nat /\ s \in 1 .. 8 /\ s - 1 \in Orders /\ s - 1 \in 0 .. 8
  <2>1. p \in free /\ order[p] = s
    BY DEF IInv, ListsAgree
  <2>2. s \in 1 .. 8 /\ s - 1 \in Orders /\ s - 1 \in 0 .. 8
    BY MaxOrderAssumption DEF Orders
  <2> QED BY <2>1, <2>2, HeadFacts
<1>2. /\ b = p + BlockSize(s - 1)
      /\ p % BlockSize(s - 1) = 0 /\ b % BlockSize(s - 1) = 0
      /\ BlockSize(s) = 2 * BlockSize(s - 1)
      /\ BlockSize(s - 1) \in Nat \ {0}
  <2>1. p % BlockSize(s) = 0
    BY <1>1, HeadFacts
  <2> QED BY <1>1, <2>1, SplitGeometry, BlockSizeFacts
<1>3. /\ Block(p, s) = Block(p, s - 1) \cup Block(b, s - 1)
      /\ Block(p, s - 1) \cap Block(b, s - 1) = {}
      /\ b \in Block(p, s) /\ b # p
  BY <1>1, <1>2 DEF Block
<1>4. b \in Pages \ Heads
  <2>1. b \in Pages
    BY <1>1, <1>3, HeadFacts
  <2>2. ASSUME b \in Heads PROVE FALSE
    <3>1. b \in Block(b, order[b]) /\ b \in Block(p, order[p])
      BY <2>2, <1>1, <1>3, HeadFacts
    <3> QED BY <2>2, <3>1, <1>1, <1>3 DEF IInv, BlocksDisjoint
  <2> QED BY <2>1, <2>2
<1>5. /\ order' \in [Pages -> -1 .. MaxOrder]
      /\ order'[p] = s - 1 /\ order'[b] = s - 1
      /\ \A q \in Pages : q # p /\ q # b => order'[q] = order[q]
  <2>1. s - 1 \in -1 .. MaxOrder
    BY <1>1 DEF Orders
  <2>2. order' = [order EXCEPT ![p] = s - 1, ![b] = s - 1]
    OBVIOUS
  <2>3. order \in [Pages -> -1 .. MaxOrder]
    BY DEF IInv, TypeOK
  <2> HIDE DEF b
  <2>4. order' \in [Pages -> -1 .. MaxOrder]
    BY <2>1, <2>2, <2>3
  <2>5. \A q \in Pages : order'[q] = IF q = b THEN s - 1 ELSE IF q = p THEN s - 1 ELSE order[q]
    BY <2>2, <2>3
  <2> QED BY <2>4, <2>5, <1>1, <1>4
<1>6. Heads' = Heads \cup {b}
  <2>1. s - 1 >= 0
    BY <1>1
  <2>2. \A q \in Pages : order'[q] >= 0 <=> order[q] >= 0 \/ q = b
    BY <1>1, <1>5, <2>1
  <2> QED BY <1>4, <2>2 DEF Heads
<1>7. \A q \in Heads \ {p} : order'[q] = order[q] /\ q # b
  BY <1>4, <1>5 DEF Heads
<1>8. \A q \in Heads \ {p} : /\ Block(q, order[q]) \cap Block(p, s - 1) = {}
                             /\ Block(q, order[q]) \cap Block(b, s - 1) = {}
  BY <1>1, <1>3 DEF IInv, BlocksDisjoint
<1>9. Managed' = Managed
  BY DEF Managed
<1>10. BlocksDisjoint'
  <2>1. ASSUME NEW q \in Heads'
        PROVE  q % BlockSize(order'[q]) = 0 /\ Block(q, order'[q]) \subseteq Managed'
    <3>1. Block(p, s) \subseteq Managed
      BY <1>1, HeadFacts
    <3>2. CASE q = p \/ q = b
      BY <1>2, <1>3, <1>5, <1>9, <3>1, <3>2
    <3>3. CASE q # p /\ q # b
      BY <1>6, <1>7, <1>9, <3>3, HeadFacts
    <3> QED BY <3>2, <3>3
  <2>2. ASSUME NEW q \in Heads', NEW r \in Heads', q # r
        PROVE  Block(q, order'[q]) \cap Block(r, order'[r]) = {}
    <3>1. CASE q \in {p, b} /\ r \in {p, b}
      BY <3>1, <2>2, <1>3, <1>5
    <3>2. CASE q \in {p, b} /\ r \notin {p, b}
      BY <3>2, <1>5, <1>6, <1>7, <1>8
    <3>3. CASE q \notin {p, b} /\ r \in {p, b}
      <4>1. q \in Heads \ {p} /\ order'[q] = order[q] /\ order'[r] = s - 1
        BY <3>3, <1>5, <1>6, <1>7
      <4>2. Block(q, order[q]) \cap Block(r, s - 1) = {}
        BY <3>3, <4>1, <1>8
      <4> QED BY <4>1, <4>2
    <3>4. CASE q \notin {p, b} /\ r \notin {p, b}
      BY <3>4, <2>2, <1>6, <1>7 DEF IInv, BlocksDisjoint
    <3> QED BY <3>1, <3>2, <3>3, <3>4
  <2> QED BY <2>1, <2>2 DEF BlocksDisjoint
<1>11. NoPageLost'
  <2> SUFFICES ASSUME NEW x \in Managed PROVE \E q \in Heads' : x \in Block(q, order'[q])
    BY <1>9 DEF NoPageLost
  <2>1. PICK q \in Heads : x \in Block(q, order[q])
    BY DEF IInv, NoPageLost
  <2>2. CASE q = p
    BY <2>1, <2>2, <1>1, <1>3, <1>5, <1>6
  <2>3. CASE q # p
    BY <2>1, <2>3, <1>6, <1>7
  <2> QED BY <2>2, <2>3
<1> QED BY <1>1, <1>3, <1>4, <1>5, <1>6, <1>7, <1>10, <1>11

\* Membership and size of a list after one element left or entered it.
LEMMA ListSize ==
  ASSUME IInv, NEW k \in Orders, NEW x
  PROVE  /\ x \in list[k] => freeCount[k] - 1 = Cardinality(list[k] \ {x})
         /\ x \notin list[k] => freeCount[k] + 1 = Cardinality(list[k] \cup {x})
<1>1. freeCount[k] = Cardinality(list[k]) /\ list[k] \in SUBSET Pages
  BY DEF IInv, CountersExact, TypeOK
<1>2. IsFiniteSet(list[k])
  BY <1>1, PagesFinite
<1>3. x \in list[k] => Cardinality(list[k] \ {x}) = Cardinality(list[k]) - 1
  BY <1>2, FS_RemoveElement
<1>4. x \notin list[k] => Cardinality(list[k] \cup {x}) = Cardinality(list[k]) + 1
  BY <1>2, FS_AddElement
<1> QED BY <1>1, <1>3, <1>4

\* palloc that halves a block and hands out the lower half keeps the invariant.
LEMMA PallocSplitPreserves ==
  ASSUME IInv, NEW o \in Orders, PallocSplit(o)
  PROVE  IInv'
<1>0. o + 1 \in Orders \ {0} /\ o \in 0 .. 8 /\ (o + 1) - 1 = o
  BY MaxOrderAssumption DEF PallocSplit, SplitOrder, Orders
<1>1. PICK p \in list[o + 1] :
         /\ list'      = [list EXCEPT ![o + 1] = @ \ {p}, ![o] = @ \cup {BuddyOf(p, o)}]
         /\ freeCount' = [freeCount EXCEPT ![o + 1] = @ - 1, ![o] = @ + 1]
         /\ free'      = (free \ {p}) \cup {BuddyOf(p, o)}
         /\ order'     = [order EXCEPT ![p] = o, ![BuddyOf(p, o)] = o]
         /\ count'     = [count EXCEPT ![p] = 1, ![BuddyOf(p, o)] = 0]
         /\ freePages' = freePages - BlockSize(o)
  BY DEF PallocSplit
<1>2. PICK b : b = BuddyOf(p, o)
  OBVIOUS
<1>3. /\ p \in free /\ order[p] = o + 1 /\ p \in Pages /\ p \in Heads /\ p \in Nat
      /\ b \in Pages \ Heads /\ Heads' = Heads \cup {b}
      /\ order' \in [Pages -> -1 .. MaxOrder]
      /\ order'[p] = o /\ order'[b] = o
      /\ \A q \in Heads \ {p} : order'[q] = order[q] /\ q # b
      /\ Block(p, o + 1) = Block(p, o) \cup Block(b, o)
      /\ Block(p, o) \cap Block(b, o) = {}
      /\ BlocksDisjoint' /\ NoPageLost'
  <2>1. invalid' = invalid
    BY DEF PallocSplit
  <2>2. order' = [order EXCEPT ![p] = (o + 1) - 1, ![BuddyOf(p, (o + 1) - 1)] = (o + 1) - 1]
    BY <1>0, <1>1
  <2>3. LET c == BuddyOf(p, (o + 1) - 1)
        IN  /\ p \in free /\ order[p] = o + 1 /\ p \in Pages
            /\ c \in Pages \ Heads /\ Heads' = Heads \cup {c}
            /\ order' \in [Pages -> -1 .. MaxOrder]
            /\ order'[p] = (o + 1) - 1 /\ order'[c] = (o + 1) - 1
            /\ \A q \in Heads \ {p} : order'[q] = order[q] /\ q # c
            /\ Block(p, o + 1) = Block(p, (o + 1) - 1) \cup Block(c, (o + 1) - 1)
            /\ Block(p, (o + 1) - 1) \cap Block(c, (o + 1) - 1) = {}
            /\ BlocksDisjoint' /\ NoPageLost'
    BY <1>0, <2>1, <2>2, SplitBlocks
  <2> QED BY <1>0, <1>2, <2>3, HeadFacts
<1>4. list[o] = {} /\ freeCount[o] = 0
  <2>1. freeCount[o] = 0
    BY <1>0 DEF PallocSplit, SplitOrder
  <2>2. list[o] \in SUBSET Pages /\ Cardinality(list[o]) = 0
    BY <2>1 DEF IInv, TypeOK, CountersExact
  <2> QED BY <2>1, <2>2, PagesFinite, FS_EmptySet
<1>5. free \subseteq Heads /\ b # p /\ b \notin free
  BY <1>3, HeadFacts
<1>6. TypeOK'
  <2>1. list' \in [Orders -> SUBSET Pages]
    BY <1>0, <1>1, <1>2, <1>3 DEF IInv, TypeOK
  <2>2. freeCount' \in [Orders -> Int]
    BY <1>1 DEF IInv, TypeOK
  <2>3. freePages' \in Int
    BY <1>0, <1>1, BlockSizeFacts DEF IInv, TypeOK
  <2>4. free' \subseteq Pages /\ count' \in [Pages -> {0, 1}]
    BY <1>1, <1>2, <1>3 DEF IInv, TypeOK
  <2> QED BY <2>1, <2>2, <2>3, <2>4, <1>3 DEF IInv, TypeOK, PallocSplit
<1>7. ListsAgree'
  <2>1. ASSUME NEW k \in Orders PROVE list'[k] = {q \in free' : order'[q] = k}
    <3>1. list[k] = {q \in free : order[q] = k}
      BY DEF IInv, ListsAgree
    <3>2. \A q \in free' : q = b \/ (q \in free /\ q # p /\ order'[q] = order[q])
      BY <1>1, <1>2, <1>3, <1>5
    <3>3. \A q \in free : q # p => q \in free' /\ order'[q] = order[q]
      BY <1>1, <1>2, <1>3, <1>5
    <3>4. b \in free' /\ order'[b] = o
      BY <1>1, <1>2, <1>3
    <3>5. CASE k = o + 1
      <4>1. list'[k] = list[k] \ {p}
        BY <1>0, <1>1, <3>5 DEF IInv, TypeOK
      <4> QED BY <1>0, <3>1, <3>2, <3>3, <3>4, <3>5, <4>1
    <3>6. CASE k = o
      <4>1. list'[k] = {b}
        BY <1>0, <1>1, <1>2, <1>4, <3>6 DEF IInv, TypeOK
      <4> QED BY <1>4, <3>1, <3>2, <3>3, <3>4, <3>6, <4>1
    <3>7. CASE k # o /\ k # o + 1
      <4>1. list'[k] = list[k]
        BY <1>1, <3>7 DEF IInv, TypeOK
      <4> QED BY <1>3, <3>1, <3>2, <3>3, <3>4, <3>7, <4>1
    <3> QED BY <3>5, <3>6, <3>7
  <2>2. free' \subseteq Heads'
    BY <1>1, <1>2, <1>3, <1>5
  <2>3. \A q \in Pages : count'[q] = 1 <=> q \in Heads' \ free'
    <3>1. \A q \in Pages : count'[q] = IF q = b THEN 0 ELSE IF q = p THEN 1 ELSE count[q]
      BY <1>1, <1>2, <1>3, <1>5 DEF IInv, TypeOK
    <3>2. \A q \in Pages : count[q] = 1 <=> q \in Heads \ free
      BY DEF IInv, ListsAgree
    <3>3. \A q \in Pages : q \in Heads' \ free' <=> q # b /\ (q = p \/ q \in Heads \ free)
      BY <1>1, <1>2, <1>3, <1>5
    <3> QED BY <3>1, <3>2, <3>3, <1>5
  <2> QED BY <2>1, <2>2, <2>3 DEF ListsAgree
<1>8. CountersExact'
  <2>1. ASSUME NEW k \in Orders PROVE freeCount'[k] = Cardinality(list'[k])
    <3>1. CASE k = o + 1
      <4>1. list'[k] = list[k] \ {p} /\ freeCount'[k] = freeCount[k] - 1
        BY <1>0, <1>1, <3>1 DEF IInv, TypeOK
      <4>2. freeCount[k] - 1 = Cardinality(list[k] \ {p})
        BY <3>1, ListSize
      <4> QED BY <4>1, <4>2
    <3>2. CASE k = o
      <4>1. list'[k] = list[k] \cup {b} /\ freeCount'[k] = freeCount[k] + 1
        BY <1>0, <1>1, <1>2, <3>2 DEF IInv, TypeOK
      <4>2. freeCount[k] + 1 = Cardinality(list[k] \cup {b})
        BY <1>4, <3>2, ListSize
      <4> QED BY <4>1, <4>2
    <3>3. CASE k # o /\ k # o + 1
      BY <1>1, <3>3 DEF IInv, TypeOK, CountersExact
    <3> QED BY <3>1, <3>2, <3>3
  <2>2. FreeMemory' = FreeMemory \ Block(p, o)
    <3>1. \A q \in free \ {p} : Block(q, order[q]) \cap Block(p, o + 1) = {}
      BY <1>3, <1>5 DEF IInv, BlocksDisjoint
    <3>2. \A q \in free' : q = b \/ (q \in free \ {p} /\ order'[q] = order[q])
      BY <1>1, <1>2, <1>3, <1>5
    <3>3. \A q \in free \ {p} : q \in free' /\ order'[q] = order[q]
      BY <1>1, <1>2, <1>3, <1>5
    <3>4. b \in free' /\ order'[b] = o
      BY <1>1, <1>2, <1>3
    <3>5. ASSUME NEW x \in FreeMemory' PROVE x \in FreeMemory /\ x \notin Block(p, o)
      <4>1. PICK q \in free' : x \in Block(q, order'[q])
        BY DEF FreeMemory
      <4>2. CASE q = b
        BY <4>1, <4>2, <3>4, <1>3 DEF FreeMemory
      <4>3. CASE q # b
        BY <4>1, <4>3, <3>1, <3>2, <1>3 DEF FreeMemory
      <4> QED BY <4>2, <4>3
    <3>6. ASSUME NEW x \in FreeMemory, x \notin Block(p, o) PROVE x \in FreeMemory'
      <4>1. PICK q \in free : x \in Block(q, order[q])
        BY DEF FreeMemory
      <4>2. CASE q = p
        BY <4>1, <4>2, <3>4, <3>6, <1>3 DEF FreeMemory
      <4>3. CASE q # p
        BY <4>1, <4>3, <3>3 DEF FreeMemory
      <4> QED BY <4>2, <4>3
    <3> QED BY <3>5, <3>6
  <2>3. Block(p, o) \subseteq FreeMemory
    BY <1>3 DEF FreeMemory
  <2>4. Cardinality(FreeMemory \ Block(p, o)) = Cardinality(FreeMemory) - BlockSize(o)
    BY <2>3, <1>0, <1>3, HeadFacts, TakeBlock
  <2> QED BY <1>1, <2>1, <2>2, <2>4 DEF IInv, CountersExact
<1> QED BY <1>3, <1>6, <1>7, <1>8 DEF IInv, FreeChecksNeverFire, PallocSplit

\* palloc that halves a larger block and answers NULL keeps the invariant.
LEMMA PallocNullPreserves ==
  ASSUME IInv, NEW o \in Orders, PallocNull(o)
  PROVE  IInv'
<1>a. PICK s \in o + 2 .. MaxOrder :
        SplitOrder(o, s) /\ \E p \in list[s] : SplitBlock(s, p)
  BY DEF PallocNull
<1>0. PICK p \in list[s] :
         /\ SplitOrder(o, s)
         /\ list'      = [list EXCEPT ![s] = @ \ {p}, ![s - 1] = @ \cup {p, BuddyOf(p, s - 1)}]
         /\ freeCount' = [freeCount EXCEPT ![s] = @ - 1, ![s - 1] = @ + 2]
         /\ free'      = free \cup {p, BuddyOf(p, s - 1)}
         /\ order'     = [order EXCEPT ![p] = s - 1, ![BuddyOf(p, s - 1)] = s - 1]
         /\ count'     = [count EXCEPT ![p] = 0, ![BuddyOf(p, s - 1)] = 0]
  BY <1>a DEF SplitBlock
<1>1. s \in Orders \ {0} /\ s - 1 \in Orders /\ s - 1 \in o .. s - 1 /\ s \in Int
  BY MaxOrderAssumption DEF Orders
<1>2. PICK b : b = BuddyOf(p, s - 1)
  OBVIOUS
<1>3. /\ p \in free /\ order[p] = s /\ p \in Pages /\ p \in Heads
      /\ b \in Pages \ Heads /\ Heads' = Heads \cup {b}
      /\ order' \in [Pages -> -1 .. MaxOrder]
      /\ order'[p] = s - 1 /\ order'[b] = s - 1
      /\ \A q \in Heads \ {p} : order'[q] = order[q] /\ q # b
      /\ Block(p, s) = Block(p, s - 1) \cup Block(b, s - 1)
      /\ BlocksDisjoint' /\ NoPageLost'
  <2>1. invalid' = invalid
    BY DEF PallocNull
  <2>2. LET c == BuddyOf(p, s - 1)
        IN  /\ p \in free /\ order[p] = s /\ p \in Pages
            /\ c \in Pages \ Heads /\ Heads' = Heads \cup {c}
            /\ order' \in [Pages -> -1 .. MaxOrder]
            /\ order'[p] = s - 1 /\ order'[c] = s - 1
            /\ \A q \in Heads \ {p} : order'[q] = order[q] /\ q # c
            /\ Block(p, s) = Block(p, s - 1) \cup Block(c, s - 1)
            /\ BlocksDisjoint' /\ NoPageLost'
    BY <1>0, <1>1, <2>1, SplitBlocks
  <2> QED BY <1>2, <2>2, HeadFacts
<1>4. list[s - 1] = {} /\ freeCount[s - 1] = 0
  <2>1. freeCount[s - 1] = 0
    BY <1>0, <1>1 DEF SplitOrder
  <2>2. list[s - 1] \in SUBSET Pages /\ Cardinality(list[s - 1]) = 0
    BY <1>1, <2>1 DEF IInv, TypeOK, CountersExact
  <2> QED BY <2>1, <2>2, PagesFinite, FS_EmptySet
<1>5. free \subseteq Heads /\ b # p /\ b \notin free
  BY <1>3, HeadFacts
<1>6. TypeOK'
  <2>1. list' \in [Orders -> SUBSET Pages]
    BY <1>0, <1>1, <1>2, <1>3 DEF IInv, TypeOK
  <2>2. freeCount' \in [Orders -> Int]
    <3>1. freeCount \in [Orders -> Int] /\ freeCount[s] - 1 \in Int /\ freeCount[s - 1] + 2 \in Int
      BY <1>1 DEF IInv, TypeOK
    <3>2. freeCount' = [[freeCount EXCEPT ![s] = freeCount[s] - 1]
                          EXCEPT ![s - 1] = freeCount[s - 1] + 2]
      BY <1>0, <1>1, <3>1
    <3> QED BY <3>1, <3>2
  <2>3. free' \subseteq Pages /\ count' \in [Pages -> {0, 1}]
    BY <1>0, <1>2, <1>3 DEF IInv, TypeOK
  <2> QED BY <2>1, <2>2, <2>3, <1>3 DEF IInv, TypeOK, PallocNull
<1>7. /\ free' = free \cup {b}
      /\ \A q \in free : q # p => order'[q] = order[q]
  BY <1>0, <1>2, <1>3, <1>5
<1>8. ListsAgree'
  <2>1. ASSUME NEW k \in Orders PROVE list'[k] = {q \in free' : order'[q] = k}
    <3>1. list[k] = {q \in free : order[q] = k}
      BY DEF IInv, ListsAgree
    <3>2. CASE k = s
      <4>1. list'[k] = list[k] \ {p}
        BY <1>0, <1>1, <3>2 DEF IInv, TypeOK
      <4> QED BY <1>1, <1>3, <1>7, <3>1, <3>2, <4>1
    <3>3. CASE k = s - 1
      <4>1. list'[k] = {p, b}
        BY <1>0, <1>1, <1>2, <1>4, <3>3 DEF IInv, TypeOK
      <4> QED BY <1>3, <1>4, <1>7, <3>1, <3>3, <4>1
    <3>4. CASE k # s /\ k # s - 1
      <4>1. list'[k] = list[k]
        BY <1>0, <3>4 DEF IInv, TypeOK
      <4> QED BY <1>3, <1>7, <3>1, <3>4, <4>1
    <3> QED BY <3>2, <3>3, <3>4
  <2>2. free' \subseteq Heads'
    BY <1>3, <1>5, <1>7
  <2>3. \A q \in Pages : count'[q] = 1 <=> q \in Heads' \ free'
    <3>1. \A q \in Pages : count'[q] = IF q = b THEN 0 ELSE IF q = p THEN 0 ELSE count[q]
      BY <1>0, <1>2, <1>3, <1>5 DEF IInv, TypeOK
    <3>2. \A q \in Pages : count[q] = 1 <=> q \in Heads \ free
      BY DEF IInv, ListsAgree
    <3>3. \A q \in Pages : q \in Heads' \ free' <=> q # b /\ q \in Heads \ free
      BY <1>3, <1>7
    <3> QED BY <3>1, <3>2, <3>3, <1>3
  <2> QED BY <2>1, <2>2, <2>3 DEF ListsAgree
<1>9. CountersExact'
  <2>1. ASSUME NEW k \in Orders PROVE freeCount'[k] = Cardinality(list'[k])
    <3>1. CASE k = s
      <4>1. list'[k] = list[k] \ {p} /\ freeCount'[k] = freeCount[k] - 1
        BY <1>0, <1>1, <3>1 DEF IInv, TypeOK
      <4>2. freeCount[k] - 1 = Cardinality(list[k] \ {p})
        BY <3>1, ListSize
      <4> QED BY <4>1, <4>2
    <3>2. CASE k = s - 1
      <4>1. list'[k] = {b} \cup {p} /\ freeCount'[k] = 2
        BY <1>0, <1>1, <1>2, <1>4, <3>2 DEF IInv, TypeOK
      <4>2. IsFiniteSet({b}) /\ Cardinality({b}) = 1
        BY FS_Singleton
      <4>3. Cardinality({b} \cup {p}) = Cardinality({b}) + 1
        <5>1. p \notin {b}
          BY <1>5
        <5> QED BY <4>2, <5>1, FS_AddElement
      <4> QED BY <4>1, <4>2, <4>3
    <3>3. CASE k # s /\ k # s - 1
      BY <1>0, <3>3 DEF IInv, TypeOK, CountersExact
    <3> QED BY <3>1, <3>2, <3>3
  <2>2. FreeMemory' = FreeMemory
    <3>1. ASSUME NEW x \in FreeMemory' PROVE x \in FreeMemory
      <4>1. PICK q \in free' : x \in Block(q, order'[q])
        BY DEF FreeMemory
      <4>2. CASE q \in {p, b}
        BY <4>1, <4>2, <1>3 DEF FreeMemory
      <4>3. CASE q \notin {p, b}
        BY <4>1, <4>3, <1>7 DEF FreeMemory
      <4> QED BY <4>2, <4>3
    <3>2. ASSUME NEW x \in FreeMemory PROVE x \in FreeMemory'
      <4>1. PICK q \in free : x \in Block(q, order[q])
        BY DEF FreeMemory
      <4>2. CASE q = p
        BY <4>1, <4>2, <1>3, <1>7 DEF FreeMemory
      <4>3. CASE q # p
        BY <4>1, <4>3, <1>7 DEF FreeMemory
      <4> QED BY <4>2, <4>3
    <3> QED BY <3>1, <3>2
  <2> QED BY <2>1, <2>2 DEF IInv, CountersExact, PallocNull
<1> QED BY <1>3, <1>6, <1>8, <1>9 DEF IInv, FreeChecksNeverFire, PallocNull

-----------------------------------------------------------------------------
(* pfree and the boot loop, both through FreeBlockPreserves. *)

\* The head of a block of more than one page is even: the alignment check of pfree passes.
LEMMA EvenHead ==
  ASSUME NEW k \in 1 .. 8, NEW p \in Nat, p % BlockSize(k) = 0
  PROVE  p % 2 = 0
<1>1. CASE k = 1 BY <1>1 DEF BlockSize
<1>2. CASE k = 2 BY <1>2 DEF BlockSize
<1>3. CASE k = 3 BY <1>3 DEF BlockSize
<1>4. CASE k = 4 BY <1>4 DEF BlockSize
<1>5. CASE k = 5 BY <1>5 DEF BlockSize
<1>6. CASE k = 6 BY <1>6 DEF BlockSize
<1>7. CASE k = 7 BY <1>7 DEF BlockSize
<1>8. CASE k = 8 BY <1>8 DEF BlockSize
<1> QED BY <1>1, <1>2, <1>3, <1>4, <1>5, <1>6, <1>7, <1>8

\* pfree keeps the invariant, and neither of its checks fires.
LEMMA PfreePreserves ==
  ASSUME IInv, NEW p \in Pages, Pfree(p)
  PROVE  IInv'
<1>1. order[p] \in Orders /\ p \notin free /\ p \in Heads
  BY DEF Pfree, Heads, Orders
<1>2. count[p] = 1
  BY <1>1 DEF IInv, ListsAgree
<1>3. order[p] > 0 => p % 2 = 0
  <2>1. order[p] > 0 => order[p] \in 1 .. 8
    BY <1>1, HeadFacts
  <2> QED BY <1>1, <2>1, HeadFacts, EvenHead
<1>4. /\ count' = [count EXCEPT ![p] = 0]
      /\ FreeBlock(p, order[p])
      /\ status' = status /\ invalid' = invalid /\ status = "running"
  BY <1>2, <1>3 DEF Pfree
<1>5. p % BlockSize(order[p]) = 0 /\ Managed \cup Block(p, order[p]) = Managed
  BY <1>1, HeadFacts
<1>6. \A q \in Heads \ {p} : Block(q, order[q]) \cap Block(p, order[p]) = {}
  BY <1>1 DEF IInv, BlocksDisjoint
<1>7. Managed' = Managed \cup Block(p, order[p])
  BY <1>4, <1>5 DEF Managed
<1>8. count' \in [Pages -> {0, 1}] /\ \A q \in Pages : count'[q] = 1 <=> q \in (Heads \ free) \ {p}
  BY <1>4 DEF IInv, TypeOK, ListsAgree
<1>9. invalid' \subseteq Pages
  BY <1>4 DEF IInv, TypeOK
<1> QED BY <1>1, <1>4, <1>5, <1>6, <1>7, <1>8, <1>9, FreeBlockPreserves

\* A turn of the release loop of init_palloc keeps the invariant.
LEMMA BootPagePreserves ==
  ASSUME IInv, NEW p \in Pages, BootPage(p)
  PROVE  IInv'
<1>1. /\ status = "boot" /\ status' = status /\ count' = count
      /\ p \in Ram \cap invalid /\ invalid' = invalid \ {p}
  BY DEF BootPage
<1>2. CASE p \in Kernel
  <2>1. Managed' = Managed
    BY <1>1, <1>2 DEF Managed
  <2>2. /\ order' = order /\ free' = free /\ list' = list
        /\ freeCount' = freeCount /\ freePages' = freePages
    BY <1>2 DEF BootPage
  <2>3. TypeOK'
    BY <1>1, <2>2 DEF IInv, TypeOK
  <2>4. Heads' = Heads /\ FreeMemory' = FreeMemory
    BY <2>2 DEF Heads, FreeMemory
  <2>5. BlocksDisjoint' /\ NoPageLost' /\ ListsAgree' /\ CountersExact' /\ FreeChecksNeverFire'
    BY <1>1, <2>1, <2>2, <2>4
       DEF IInv, BlocksDisjoint, NoPageLost, ListsAgree, CountersExact, FreeChecksNeverFire
  <2> QED BY <2>3, <2>5 DEF IInv
<1>3. CASE p \notin Kernel
  <2>1. FreeBlock(p, 0)
    BY <1>3 DEF BootPage
  <2>2. 0 \in Orders /\ BlockSize(0) = 1 /\ p \in Nat
    BY MaxOrderAssumption, PageCountAssumption DEF Orders, BlockSize, Pages
  <2>3. Block(p, 0) = {p} /\ p % BlockSize(0) = 0
    BY <2>2 DEF Block
  <2>4. p \notin Managed
    BY <1>1 DEF Managed
  <2>5. p \notin Heads /\ p \notin free
    BY <2>4, HeadFacts
  <2>6. \A q \in Heads \ {p} : Block(q, order[q]) \cap Block(p, 0) = {}
    BY <2>3, <2>4, HeadFacts
  <2>7. Managed' = Managed \cup Block(p, 0)
    BY <1>1, <1>3, <2>3 DEF Managed
  <2>8. count' \in [Pages -> {0, 1}] /\ \A q \in Pages : count'[q] = 1 <=> q \in (Heads \ free) \ {p}
    BY <1>1, <2>5 DEF IInv, TypeOK, ListsAgree
  <2>9. invalid' \subseteq Pages /\ status' \in {"boot", "running"}
    BY <1>1 DEF IInv, TypeOK
  <2> QED BY <2>1, <2>2, <2>3, <2>5, <2>6, <2>7, <2>8, <2>9, FreeBlockPreserves
<1> QED BY <1>2, <1>3

-----------------------------------------------------------------------------
(* The theorems. *)

\* The invariant holds before the first page is released.
LEMMA InitInvariant == Init => IInv
<1> SUFFICES ASSUME Init PROVE IInv
  OBVIOUS
<1>1. Heads = {} /\ Managed = {} /\ FreeMemory = {}
  BY RamAssumption DEF Init, Heads, Managed, FreeMemory
<1>2. TypeOK
  BY MaxOrderAssumption DEF Init, TypeOK
<1>3. BlocksDisjoint /\ NoPageLost /\ ListsAgree /\ FreeChecksNeverFire
  BY <1>1 DEF Init, BlocksDisjoint, NoPageLost, ListsAgree, FreeChecksNeverFire
<1>4. CountersExact
  <2>1. Cardinality({}) = 0
    BY FS_EmptySet
  <2> QED BY <1>1, <2>1 DEF Init, CountersExact
<1> QED BY <1>2, <1>3, <1>4 DEF IInv

\* A step that leaves the descriptors and lists alone.
LEMMA QuietStep ==
  ASSUME IInv, UNCHANGED <<order, count, free, invalid, list, freeCount, freePages>>,
         status' \in {"boot", "running", "oom", "undefined", "badaddr"}
  PROVE  IInv'
<1>1. Heads' = Heads /\ Managed' = Managed /\ FreeMemory' = FreeMemory
  BY DEF Heads, Managed, FreeMemory
<1>2. TypeOK'
  BY DEF IInv, TypeOK
<1>3. BlocksDisjoint' /\ NoPageLost' /\ ListsAgree' /\ CountersExact' /\ FreeChecksNeverFire'
  BY <1>1 DEF IInv, BlocksDisjoint, NoPageLost, ListsAgree, CountersExact, FreeChecksNeverFire
<1> QED BY <1>2, <1>3 DEF IInv

\* Every step keeps the invariant.
LEMMA NextInvariant == IInv /\ [Next]_vars => IInv'
<1> SUFFICES ASSUME IInv, [Next]_vars PROVE IInv'
  OBVIOUS
<1>1. ASSUME NEW p \in Pages, BootPage(p) PROVE IInv'
  BY <1>1, BootPagePreserves
<1>2. CASE BootDone
  BY <1>2, QuietStep DEF BootDone
<1>3. ASSUME NEW o \in Orders, PallocDirect(o) PROVE IInv'
  BY <1>3, PallocDirectPreserves
<1>4. ASSUME NEW o \in Orders, PallocSplit(o) PROVE IInv'
  BY <1>4, PallocSplitPreserves
<1>5. ASSUME NEW o \in Orders, PallocNull(o) PROVE IInv'
  BY <1>5, PallocNullPreserves
<1>6. ASSUME NEW o \in Orders, PallocExhausted(o) PROVE IInv'
  BY <1>6, QuietStep DEF PallocExhausted
<1>7. ASSUME NEW p \in Pages, Pfree(p) PROVE IInv'
  BY <1>7, PfreePreserves
<1>8. CASE VpfreeEnd
  BY <1>8, QuietStep DEF VpfreeEnd
<1>9. CASE UNCHANGED vars
  <2>1. status \in {"boot", "running", "oom", "undefined", "badaddr"}
    BY DEF IInv, TypeOK, FreeChecksNeverFire
  <2> QED BY <1>9, <2>1, QuietStep DEF vars
<1> QED BY <1>1, <1>2, <1>3, <1>4, <1>5, <1>6, <1>7, <1>8, <1>9 DEF Next, Palloc

\* The inductive invariant, for every memory map and every largest order up to 8.
THEOREM BuddyInvariant == Spec => []IInv
<1> QED BY InitInvariant, NextInvariant, PTL DEF Spec

\* The state never leaves its types.
THEOREM BuddyTypes == Spec => []TypeOK
<1> QED BY BuddyInvariant, PTL DEF IInv

\* No two blocks, free or in use, ever share a page.
THEOREM BuddyDisjoint == Spec => []BlocksDisjoint
<1> QED BY BuddyInvariant, PTL DEF IInv

\* Every page handed over at boot stays in some block.
THEOREM BuddyKeepsPages == Spec => []NoPageLost
<1> QED BY BuddyInvariant, PTL DEF IInv

\* Page descriptors and free lists never disagree.
THEOREM BuddyLists == Spec => []ListsAgree
<1> QED BY BuddyInvariant, PTL DEF IInv

\* free_count and free_pages are exact.
THEOREM BuddyCounters == Spec => []CountersExact
<1> QED BY BuddyInvariant, PTL DEF IInv

\* The consistency panics of pfree are unreachable.
THEOREM BuddyFreeChecks == Spec => []FreeChecksNeverFire
<1> QED BY BuddyInvariant, PTL DEF IInv

-----------------------------------------------------------------------------
(* Coalescing. *)

\* Only pfree takes a block out of use.
LEMMA OnlyPfreeReleases ==
  ASSUME IInv, [Next]_vars, NEW p \in Pages, count[p] = 1, count'[p] = 0
  PROVE  Pfree(p) /\ count' # count
<1>0. count \in [Pages -> {0, 1}] /\ count' # count /\ p \notin free /\ p \in Heads
  BY DEF IInv, TypeOK, ListsAgree
<1>1. ASSUME NEW q \in Pages, BootPage(q) PROVE FALSE
  BY <1>0, <1>1 DEF BootPage
<1>2. ASSUME NEW o \in Orders, PallocDirect(o) PROVE FALSE
  BY <1>0, <1>2 DEF PallocDirect
<1>3. ASSUME NEW o \in Orders, PallocSplit(o) PROVE FALSE
  <2>0. PICK s \in Orders \ {0} : s = o + 1 /\ o = s - 1
    BY <1>3, MaxOrderAssumption DEF PallocSplit, SplitOrder, Orders
  <2>a. PICK h \in list[o + 1] :
          /\ order' = [order EXCEPT ![h] = o, ![BuddyOf(h, o)] = o]
          /\ count' = [count EXCEPT ![h] = 1, ![BuddyOf(h, o)] = 0]
    BY <1>3 DEF PallocSplit
  <2>1. /\ h \in list[s]
        /\ order' = [order EXCEPT ![h] = s - 1, ![BuddyOf(h, s - 1)] = s - 1]
        /\ count' = [count EXCEPT ![h] = 1, ![BuddyOf(h, s - 1)] = 0]
    BY <2>0, <2>a, Zenon
  <2>2. invalid' = invalid
    BY <1>3 DEF PallocSplit
  <2>3. BuddyOf(h, s - 1) \in Pages \ Heads
    BY <2>1, <2>2, SplitBlocks
  <2> QED
    BY <1>0, <2>1, <2>3
<1>4. ASSUME NEW o \in Orders, PallocNull(o) PROVE FALSE
  <2>0. PICK s \in o + 2 .. MaxOrder : invalid' = invalid /\ \E h \in list[s] : SplitBlock(s, h)
    BY <1>4 DEF PallocNull
  <2>1. PICK h \in list[s] :
          /\ order' = [order EXCEPT ![h] = s - 1, ![BuddyOf(h, s - 1)] = s - 1]
          /\ count' = [count EXCEPT ![h] = 0, ![BuddyOf(h, s - 1)] = 0]
    BY <2>0 DEF SplitBlock
  <2>2. s \in Orders \ {0}
    BY MaxOrderAssumption DEF Orders
  <2>3. BuddyOf(h, s - 1) \in Pages \ Heads /\ h \in free
    BY <2>0, <2>1, <2>2, SplitBlocks
  <2> QED
    BY <1>0, <2>1, <2>3
<1>5. ASSUME NEW q \in Pages, Pfree(q) PROVE Pfree(p)
  <2>1. count' = [count EXCEPT ![q] = 0]
    BY <1>0, <1>5 DEF Pfree
  <2>2. q = p
    BY <1>0, <2>1
  <2> QED
    BY <1>5, <2>2
<1> QED
  BY <1>0, <1>1, <1>2, <1>3, <1>4, <1>5 DEF Next, Palloc, BootDone, PallocExhausted, VpfreeEnd, vars

\* p lies in the free block of head h, whose buddy is not a free block of its order.
MergedUp(p, h) ==
  /\ p \in Block(h, order[h])
  /\ order[h] < MaxOrder =>
       ~ LET b == BuddyOf(h, order[h]) IN b \in free /\ order[b] = order[h]

\* The block that the loop leaves cannot be merged with the memory as it is then:
\* the loop looked at the state before, and at a buddy it does not touch.
LEMMA ReleaseMerges ==
  ASSUME IInv, NEW p \in Pages, Pfree(p), count' # count
  PROVE  \E h \in free' : MergedUp(p, h)'
<1>1. FreeBlock(p, order[p]) /\ order[p] \in Orders
  BY DEF Pfree
<1>2. PICK o \in Orders : o = order[p]
  BY <1>1
<1>3. PICK m \in o .. MaxOrder :
        /\ StopsAt(p, o, m)
        /\ order' = [q \in Pages |-> IF q = Base(p, m) THEN m
                                     ELSE IF q \in Uppers(p, o, m) THEN -1
                                     ELSE order[q]]
        /\ free' = (free \ Absorbed(p, o, m)) \cup {Base(p, m)}
  BY <1>1, <1>2 DEF FreeBlock
<1>4. p \in Nat /\ o \in 0 .. 8 /\ m \in 0 .. 8 /\ o <= m /\ p \in Heads /\ p % BlockSize(o) = 0
  BY <1>1, <1>2, HeadFacts, OrdersAreSmall, MaxOrderAssumption DEF Orders, Heads
<1>5. PICK h : h = Base(p, m)
  OBVIOUS
<1>6. /\ h \in {p} \cup Absorbed(p, o, m)
      /\ p \in Block(p, o) => p \in Block(h, m)
  BY <1>4, <1>5, LoopGeometry
<1>7. h \in Pages /\ p \in Block(h, m)
  <2>1. Absorbed(p, o, m) \subseteq Pages
    BY <1>3 DEF Absorbed, StopsAt, Mergeable
  <2> QED
    BY <1>2, <1>4, <1>6, <2>1, HeadFacts
<1>8. h \in free' /\ order'[h] = m
  BY <1>3, <1>5, <1>7
<1>9. ASSUME m < MaxOrder, BuddyOf(h, m) \in free', order'[BuddyOf(h, m)] = m PROVE FALSE
  <2>1. PICK b : b = BuddyOf(h, m)
    OBVIOUS
  <2>2. h \in Nat /\ BlockSize(m) \in Nat \ {0}
    BY <1>4, <1>7, OrdersAreSmall, BlockSizeFacts
  <2>3. b # h
    BY <2>1, <2>2 DEF BuddyOf
  <2>4. b \in free /\ b \in Pages
    BY <1>3, <1>5, <1>9, <2>1, <2>3, HeadFacts
  <2>5. order[b] = m
    BY <1>3, <1>4, <1>5, <1>9, <2>1, <2>3, <2>4
  <2>6. b \notin invalid
    BY <2>4, HeadFacts DEF Managed
  <2>7. Mergeable(h, m)
    BY <2>1, <2>4, <2>5, <2>6 DEF Mergeable
  <2> QED
    BY <1>3, <1>5, <1>9, <2>7 DEF StopsAt
<1> QED
  BY <1>7, <1>8, <1>9 DEF MergedUp

\* When a block is released, the block it ends up in could not be merged further with
\* the memory as it is then, whatever the map and the largest order.
THEOREM BuddyCoalesces == Spec => ReleaseCoalesces
<1>1. ASSUME IInv, [Next]_vars, NEW p \in Pages, count[p] = 1, count'[p] = 0
      PROVE  \E h \in free' : MergedUp(p, h)'
  BY <1>1, OnlyPfreeReleases, ReleaseMerges
<1>2. IInv /\ [Next]_vars =>
        \A p \in Pages : count[p] = 1 /\ count'[p] = 0 =>
          \E h \in free' : /\ p \in Block(h, order'[h])
                           /\ order'[h] < MaxOrder =>
                                ~ LET b == BuddyOf(h, order'[h])
                                  IN  b \in free' /\ order'[b] = order'[h]
  BY <1>1 DEF MergedUp
<1> QED
  BY <1>2, BuddyInvariant, PTL DEF Spec, ReleaseCoalesces

-----------------------------------------------------------------------------
(* Refinement: what a caller sees of a step. *)

\* With the same managed pages and blocks in use the step is invisible.
LEMMA HeldUnchanged ==
  ASSUME Managed' = Managed, HeldOf' = HeldOf
  PROVE  UNCHANGED Abstract!pvars
BY DEF Abstract!pvars

\* A palloc that hands out a block is an abstract allocation of that block.
LEMMA AllocStep ==
  ASSUME IInv, IInv', NEW o \in Orders, PallocDirect(o) \/ PallocSplit(o)
  PROVE  \E p \in Pages : Abstract!Alloc(<<p, o>>)
<1>1. PICK p \in Pages :
        /\ p \in free /\ p \in Heads' \ free' /\ order'[p] = o
        /\ \A q \in Pages : q # p => (q \in Heads' \ free' <=> q \in Heads \ free)
        /\ \A q \in Heads \ free : order'[q] = order[q]
  <2>1. CASE PallocDirect(o)
    <3>1. PICK p \in list[o] :
            /\ free'  = free \ {p}
            /\ order' = [order EXCEPT ![p] = o]
      BY <2>1 DEF PallocDirect
    <3>2. p \in free /\ order[p] = o /\ p \in Heads /\ p \in Pages
      BY HeadFacts DEF IInv, ListsAgree
    <3>3. order' = order /\ Heads' = Heads
      BY <3>1, <3>2 DEF IInv, TypeOK, Heads
    <3> QED BY <3>1, <3>2, <3>3
  <2>2. CASE PallocSplit(o)
    <3>1. PICK p \in list[o + 1] :
            /\ free'  = (free \ {p}) \cup {BuddyOf(p, o)}
            /\ order' = [order EXCEPT ![p] = o, ![BuddyOf(p, o)] = o]
      BY <2>2 DEF PallocSplit
    <3>2. o + 1 \in Orders \ {0} /\ (o + 1) - 1 = o /\ invalid' = invalid
      BY <2>2, MaxOrderAssumption DEF PallocSplit, SplitOrder, Orders
    <3>3. LET c == BuddyOf(p, (o + 1) - 1)
          IN  /\ p \in free /\ p \in Pages
              /\ c \in Pages \ Heads /\ Heads' = Heads \cup {c}
              /\ order'[p] = (o + 1) - 1
              /\ \A q \in Heads \ {p} : order'[q] = order[q] /\ q # c
      <4>1. order' = [order EXCEPT ![p] = (o + 1) - 1, ![BuddyOf(p, (o + 1) - 1)] = (o + 1) - 1]
        BY <3>1, <3>2
      <4> QED BY <3>2, <4>1, SplitBlocks
    <3>4. PICK c : c = BuddyOf(p, o)
      OBVIOUS
    <3>5. /\ p \in free /\ p \in Pages
          /\ c \in Pages \ Heads /\ Heads' = Heads \cup {c}
          /\ order'[p] = o
          /\ \A q \in Heads \ {p} : order'[q] = order[q] /\ q # c
          /\ free' = (free \ {p}) \cup {c}
      BY <3>1, <3>2, <3>3, <3>4
    <3> QED BY <3>5, HeadFacts
  <2> QED BY <2>1, <2>2
<1>2. HeldOf' = HeldOf \cup {<<p, o>>}
  <2>1. Heads \subseteq Pages /\ Heads' \subseteq Pages
    BY DEF Heads
  <2> QED BY <1>1, <2>1 DEF HeldOf
<1>3. Managed' = Managed
  BY DEF Managed, PallocDirect, PallocSplit
<1>4. p % BlockSize(o) = 0 /\ Block(p, o) \subseteq Managed
  BY <1>1, <1>3 DEF IInv, BlocksDisjoint
<1>5. ASSUME NEW h \in HeldOf PROVE Block(h[1], h[2]) \cap Block(p, o) = {}
  <2>1. PICK q \in Heads \ free : h = <<q, order[q]>>
    BY DEF HeldOf
  <2>2. q \in Heads' /\ q # p /\ order'[q] = order[q]
    BY <1>1, HeadFacts
  <2>3. Block(q, order'[q]) \cap Block(p, order'[p]) = {}
    BY <1>1, <2>2 DEF IInv, BlocksDisjoint
  <2> QED BY <1>1, <2>1, <2>2, <2>3
<1>6. Abstract!Alloc(<<p, o>>)
  BY <1>2, <1>3, <1>4, <1>5 DEF Abstract!Alloc, Abstract!PagesOf, Block
<1> QED BY <1>6

\* pfree of a block in use is its abstract release.
LEMMA FreeStep ==
  ASSUME IInv, NEW p \in Pages, Pfree(p)
  PROVE  Abstract!Free(<<p, order[p]>>) /\ order[p] \in Orders
<1>1. order[p] \in Orders /\ p \notin free /\ p \in Heads
  BY DEF Pfree, Heads, Orders
<1>2. order[p] > 0 => p % 2 = 0
  <2>1. order[p] > 0 => order[p] \in 1 .. 8
    BY <1>1, HeadFacts
  <2> QED BY <1>1, <2>1, HeadFacts, EvenHead
<1>3. FreeBlock(p, order[p]) /\ invalid' = invalid
  BY <1>1, <1>2 DEF Pfree, IInv, ListsAgree
<1>4. p % BlockSize(order[p]) = 0
      /\ \A q \in Heads \ {p} : Block(q, order[q]) \cap Block(p, order[p]) = {}
  BY <1>1, HeadFacts DEF IInv, BlocksDisjoint
<1>5. PICK B \in Pages, m \in Orders, A \in SUBSET free : FreedInto(p, order[p], B, m, A)
  BY <1>1, <1>3, <1>4, FreeBlockEffect DEF IInv, BlocksDisjoint
<1>6. /\ B \in {p} \cup A
      /\ Heads' = (Heads \ ({p} \cup A)) \cup {B}
      /\ \A q \in Heads' \ {B} : order'[q] = order[q]
      /\ free' = (free \ A) \cup {B}
  BY <1>5 DEF FreedInto
<1>7. Heads' \ free' = (Heads \ free) \ {p} /\ \A q \in (Heads \ free) \ {p} : order'[q] = order[q]
  BY <1>6
<1>8. HeldOf' = HeldOf \ {<<p, order[p]>>} /\ <<p, order[p]>> \in HeldOf
  BY <1>1, <1>7 DEF HeldOf
<1>9. Managed' = Managed
  BY <1>3 DEF Managed
<1> QED BY <1>1, <1>8, <1>9 DEF Abstract!Free

\* A page released at boot is handed over, and a page of the kernel is not.
LEMMA BootStep ==
  ASSUME IInv, NEW p \in Pages, BootPage(p)
  PROVE  Abstract!HandOver(p) \/ UNCHANGED Abstract!pvars
<1>1. p \in Ram \cap invalid /\ invalid' = invalid \ {p} /\ p \notin Managed
  BY DEF BootPage, Managed
<1>2. CASE p \in Kernel
  <2>1. Managed' = Managed /\ HeldOf' = HeldOf
    BY <1>1, <1>2 DEF BootPage, Managed, HeldOf, Heads
  <2> QED BY <2>1, HeldUnchanged
<1>3. CASE p \notin Kernel
  <2>1. FreeBlock(p, 0) /\ Managed' = Managed \cup {p}
    BY <1>1, <1>3 DEF BootPage, Managed
  <2>2. 0 \in Orders /\ BlockSize(0) = 1 /\ p \in Nat
    BY MaxOrderAssumption, PageCountAssumption DEF Orders, BlockSize, Pages
  <2>3. Block(p, 0) = {p} /\ p % BlockSize(0) = 0
    BY <2>2 DEF Block
  <2>4. p \notin Heads /\ p \notin free
    BY <1>1, HeadFacts
  <2>5. \A q \in Heads \ {p} : Block(q, order[q]) \cap Block(p, 0) = {}
    BY <1>1, <2>3, HeadFacts
  <2>6. PICK B \in Pages, m \in Orders, A \in SUBSET free : FreedInto(p, 0, B, m, A)
    BY <2>1, <2>2, <2>3, <2>4, <2>5, FreeBlockEffect DEF IInv, BlocksDisjoint
  <2>7. /\ B \in {p} \cup A
        /\ Heads' = (Heads \ ({p} \cup A)) \cup {B}
        /\ \A q \in Heads' \ {B} : order'[q] = order[q]
        /\ free' = (free \ A) \cup {B}
    BY <2>6 DEF FreedInto
  <2>8. Heads' \ free' = Heads \ free /\ \A q \in Heads \ free : order'[q] = order[q]
    BY <2>4, <2>7
  <2>9. HeldOf' = HeldOf
    BY <2>8 DEF HeldOf
  <2> QED BY <1>1, <2>1, <2>9 DEF Abstract!HandOver
<1> QED BY <1>2, <1>3

\* A palloc that answers NULL changes nothing a caller can see.
LEMMA NullStepHeld ==
  ASSUME IInv, NEW o \in Orders, PallocNull(o)
  PROVE  UNCHANGED Abstract!pvars
<1>0. PICK s \in o + 2 .. MaxOrder : \E p \in list[s] : SplitBlock(s, p)
  BY DEF PallocNull
<1>1. PICK p \in list[s] : SplitBlock(s, p)
  BY <1>0
<1>2. s \in Orders \ {0} /\ invalid' = invalid
  BY MaxOrderAssumption DEF PallocNull, Orders
<1>3. PICK c : c = BuddyOf(p, s - 1)
  OBVIOUS
<1>4. /\ p \in free /\ c \in Pages \ Heads /\ Heads' = Heads \cup {c}
      /\ \A q \in Heads \ {p} : order'[q] = order[q] /\ q # c
      /\ free' = free \cup {p, c}
  <2>1. order' = [order EXCEPT ![p] = s - 1, ![BuddyOf(p, s - 1)] = s - 1]
    BY <1>1 DEF SplitBlock
  <2>2. LET b == BuddyOf(p, s - 1)
        IN  /\ p \in free /\ b \in Pages \ Heads /\ Heads' = Heads \cup {b}
            /\ \A q \in Heads \ {p} : order'[q] = order[q] /\ q # b
    BY <1>2, <2>1, SplitBlocks
  <2> QED BY <1>1, <1>3, <2>2 DEF SplitBlock
<1>5. Heads' \ free' = Heads \ free /\ \A q \in Heads \ free : order'[q] = order[q]
  BY <1>4
<1>6. HeldOf' = HeldOf /\ Managed' = Managed
  BY <1>2, <1>5 DEF HeldOf, Managed
<1> QED BY <1>6, HeldUnchanged

\* Every step of the code is an abstract step or invisible.
LEMMA NextRefines ==
  IInv /\ IInv' /\ [Next]_vars => [Abstract!Next]_(Abstract!pvars)
<1> SUFFICES ASSUME IInv, IInv', [Next]_vars
             PROVE  Abstract!Next \/ UNCHANGED Abstract!pvars
  OBVIOUS
<1>1. ASSUME NEW p \in Pages, BootPage(p) PROVE Abstract!Next \/ UNCHANGED Abstract!pvars
  BY <1>1, BootStep DEF Abstract!Next
<1>2. ASSUME UNCHANGED <<order, free, invalid>> PROVE UNCHANGED Abstract!pvars
  BY <1>2, HeldUnchanged DEF HeldOf, Heads, Managed
<1>3. ASSUME NEW o \in Orders, PallocDirect(o) \/ PallocSplit(o) PROVE Abstract!Next
  <2>1. PICK p \in Pages : Abstract!Alloc(<<p, o>>)
    BY <1>3, AllocStep
  <2>2. <<p, o>> \in Pages \X Orders
    OBVIOUS
  <2> QED BY <2>1, <2>2 DEF Abstract!Next
<1>4. ASSUME NEW o \in Orders, PallocNull(o) PROVE UNCHANGED Abstract!pvars
  BY <1>4, NullStepHeld
<1>5. ASSUME NEW p \in Pages, Pfree(p) PROVE Abstract!Next
  <2>1. Abstract!Free(<<p, order[p]>>) /\ <<p, order[p]>> \in Pages \X Orders
    BY <1>5, FreeStep
  <2> QED BY <2>1 DEF Abstract!Next
<1>6. BootDone \/ VpfreeEnd \/ UNCHANGED vars => UNCHANGED <<order, free, invalid>>
  BY DEF BootDone, VpfreeEnd, vars
<1>7. ASSUME NEW o \in Orders, PallocExhausted(o) PROVE UNCHANGED <<order, free, invalid>>
  BY <1>7 DEF PallocExhausted
<1> QED BY <1>1, <1>2, <1>3, <1>4, <1>5, <1>6, <1>7 DEF Next, Palloc

\* The allocator starts with no page and no block in use.
LEMMA InitRefines == Init => Abstract!Init
BY RamAssumption DEF Init, Abstract!Init, HeldOf, Heads, Managed

\* palloc and pfree implement the abstract allocator: what they hand out is
\* aligned, managed memory that overlaps no block in use.
THEOREM BuddyImplementsPageAlloc == Spec => AbstractSpec
<1>1. Spec => []IInv
  BY BuddyInvariant
<1> QED BY <1>1, InitRefines, NextRefines, PTL DEF Spec, AbstractSpec, Abstract!Spec
=============================================================================
