------------------------------- MODULE Buddy -------------------------------
(***************************************************************************)
(* The physical page allocator, src/src/mm/palloc.c: an array of page      *)
(* descriptors, one free list and one counter per block order, a split on  *)
(* allocation and a coalescing loop on release.                            *)
(*                                                                         *)
(* A page descriptor (struct page) is spread over the functions order and  *)
(* count and over the sets free (PG_FREE) and invalid (PG_INVALID).  A     *)
(* free list is the set of the first pages of its blocks: which block of a *)
(* list is taken is left open (the code takes the tail).                   *)
(*                                                                         *)
(* The allocator has no lock and no caller in an interrupt handler, so     *)
(* each call is one step.                                                  *)
(***************************************************************************)
EXTENDS Integers, FiniteSets

CONSTANTS PageCount,      \* allocator.page_count: descriptors exist for 0 .. PageCount-1
          MaxOrder,       \* BUDDY_MAX_ORDER, 8 in the build
          Ram,            \* pages of the REGION_TYPE_RAM regions, page 0 excluded
          Kernel          \* pages of the kernel image

Pages  == 0 .. PageCount - 1
Orders == 0 .. MaxOrder

ASSUME PageCountAssumption == PageCount \in Nat \ {0}
ASSUME MaxOrderAssumption  == MaxOrder \in 0 .. 8
ASSUME RamAssumption       == Ram \subseteq Pages /\ 0 \notin Ram
ASSUME KernelAssumption    == Kernel \subseteq Pages

VARIABLES order,          \* page -> order of the block it heads, -1 inside a block
          count,          \* page -> reference count
          free,           \* pages with PG_FREE set
          invalid,        \* pages with PG_INVALID set
          list,           \* order -> first pages of the blocks on maps[order].list
          freeCount,      \* order -> maps[order].free_count
          freePages,      \* allocator.free_pages
          status          \* "boot", "running", or why the machine stopped

vars == <<order, count, free, invalid, list, freeCount, freePages, status>>

-----------------------------------------------------------------------------
(* Block geometry. *)

\* 1 << k
BlockSize(k) == <<1, 2, 4, 8, 16, 32, 64, 128, 256>>[k + 1]

\* The pages of the block of order k that starts at p.
Block(p, k) == p .. (p + BlockSize(k) - 1)

\* (mutant) The bit is set, not flipped.
BuddyAbove(p, k) == p + BlockSize(k)

\* get_buddy_pn: flip bit k of p.
BuddyOf(p, k) == IF (p \div BlockSize(k)) % 2 = 0 THEN p + BlockSize(k) ELSE p - BlockSize(k)

\* The start of the block of order k that contains p: what is left of p
\* after the coalescing loop has cleared its bits below k.
Base(p, k) == p - (p % BlockSize(k))

-----------------------------------------------------------------------------
(* __allocator_free_block *)

\* (mutant) The buddy's PG_FREE flag is not looked at.
MergeableInUse(p, k) ==
  LET b == BuddyOf(p, k) IN b \in Pages /\ order[b] = k /\ b \notin invalid

\* The loop goes on at order k: the buddy exists and is a free block of the same order.
Mergeable(p, k) ==
  LET b == BuddyOf(p, k)
  IN  /\ b \in Pages
      /\ order[b] = k
      /\ b \notin invalid
      /\ b \in free

\* (mutant) The loop ends one order too early.
StopsEarly(p, o, m) ==
  LET top == IF o < MaxOrder THEN MaxOrder - 1 ELSE MaxOrder
  IN  /\ m <= top /\ \A k \in o .. m - 1 : Mergeable(Base(p, k), k)
      /\ m < top => ~ Mergeable(Base(p, m), m)

\* The loop, entered with (p, o), leaves at order m.
StopsAt(p, o, m) ==
  /\ \A k \in o .. m - 1 : Mergeable(Base(p, k), k)
  /\ m < MaxOrder => ~ Mergeable(Base(p, m), m)

\* Buddies taken off their lists on the way from o to m, and the upper
\* halves that become the inside of a larger block.
Absorbed(p, o, m) == {BuddyOf(Base(p, k), k) : k \in o .. m - 1}
Uppers(p, o, m)   == {Base(p, k + 1) + BlockSize(k) : k \in o .. m - 1}

\* (mutant) The head gets the order after the last increment, and the lists of
\* the absorbed buddies keep their counts.
FreeBlockMiscounts(p, o) ==
  \E m \in o .. MaxOrder :
    /\ StopsAt(p, o, m)
    /\ order' = [q \in Pages |-> IF q = Base(p, m) THEN m + 1
                                 ELSE IF q \in Uppers(p, o, m) THEN -1 ELSE order[q]]
    /\ list' = [k \in Orders |-> IF k = m THEN list[k] \cup {Base(p, m)}
                                 ELSE list[k] \ Absorbed(p, o, m)]
    /\ freeCount' = [freeCount EXCEPT ![m] = @ + 1]
    /\ free' = (free \ Absorbed(p, o, m)) \cup {Base(p, m)}
    /\ freePages' = freePages + BlockSize(o)

FreeBlock(p, o) ==
  \E m \in o .. MaxOrder :
    /\ StopsAt(p, o, m)
    /\ order' = [q \in Pages |-> IF q = Base(p, m) THEN m
                                 ELSE IF q \in Uppers(p, o, m) THEN -1
                                 ELSE order[q]]
    /\ list' = [k \in Orders |-> IF k = m THEN list[k] \cup {Base(p, m)}
                                 ELSE list[k] \ Absorbed(p, o, m)]
    /\ freeCount' = [k \in Orders |-> IF k = m THEN freeCount[k] + 1
                                      ELSE IF k \in o .. m - 1 THEN freeCount[k] - 1
                                      ELSE freeCount[k]]
    /\ free' = (free \ Absorbed(p, o, m)) \cup {Base(p, m)}
    /\ freePages' = freePages + BlockSize(o)

-----------------------------------------------------------------------------
(* init_palloc *)

Init ==
  /\ order     = [p \in Pages |-> -1]
  /\ count     = [p \in Pages |-> 0]
  /\ free      = {}
  /\ invalid   = Pages
  /\ list      = [k \in Orders |-> {}]
  /\ freeCount = [k \in Orders |-> 0]
  /\ freePages = 0
  /\ status    = "boot"

\* One iteration of the loop over the pages of the RAM regions; the regions
\* are disjoint but in no particular order.
BootPage(p) ==
  /\ status = "boot"
  /\ p \in Ram \cap invalid
  /\ invalid' = invalid \ {p}
  /\ IF p \in Kernel
       THEN UNCHANGED <<order, list, freeCount, free, freePages>>
       ELSE FreeBlock(p, 0)
  /\ UNCHANGED <<count, status>>

BootDone ==
  /\ status = "boot"
  /\ Ram \cap invalid = {}
  /\ status' = "running"
  /\ UNCHANGED <<order, count, free, invalid, list, freeCount, freePages>>

-----------------------------------------------------------------------------
(* palloc *)

\* (mutant) The block handed out keeps the count it had.
PallocDirectUncounted(o) ==
  /\ status = "running" /\ freeCount[o] # 0
  /\ \E p \in list[o] :
       /\ list'      = [list EXCEPT ![o] = @ \ {p}]
       /\ freeCount' = [freeCount EXCEPT ![o] = @ - 1]
       /\ free'      = free \ {p}
       /\ freePages' = freePages - BlockSize(o)
  /\ UNCHANGED <<order, count, invalid, status>>

\* A block of exactly the order asked for is on its list.
PallocDirect(o) ==
  /\ status = "running"
  /\ freeCount[o] # 0
  /\ \E p \in list[o] :
       /\ list'      = [list EXCEPT ![o] = @ \ {p}]
       /\ freeCount' = [freeCount EXCEPT ![o] = @ - 1]
       /\ free'      = free \ {p}
       /\ order'     = [order EXCEPT ![p] = o]
       /\ count'     = [count EXCEPT ![p] = 1]
       /\ freePages' = freePages - BlockSize(o)
  /\ UNCHANGED <<invalid, status>>

\* The order split_block finds a block at.
SplitOrder(o, s) ==
  /\ s \in o + 1 .. MaxOrder
  /\ freeCount[s] # 0
  /\ \A k \in o .. s - 1 : freeCount[k] = 0

\* (mutant) The upper half does not become a block.
PallocSplitDropsHalf(o) ==
  /\ status = "running" /\ SplitOrder(o, o + 1)
  /\ \E p \in list[o + 1] :
       /\ list'      = [list EXCEPT ![o + 1] = @ \ {p}]
       /\ freeCount' = [freeCount EXCEPT ![o + 1] = @ - 1]
       /\ free'      = free \ {p}
       /\ order'     = [order EXCEPT ![p] = o]
       /\ count'     = [count EXCEPT ![p] = 1]
       /\ freePages' = freePages - BlockSize(o)
  /\ UNCHANGED <<invalid, status>>

\* split_block halves one block of the next larger order and the lower half
\* is handed out.
PallocSplit(o) ==
  /\ status = "running"
  /\ SplitOrder(o, o + 1)
  /\ \E p \in list[o + 1] :
       LET b == BuddyOf(p, o)
       IN  /\ list'      = [list EXCEPT ![o + 1] = @ \ {p}, ![o] = @ \cup {b}]
           /\ freeCount' = [freeCount EXCEPT ![o + 1] = @ - 1, ![o] = @ + 1]
           /\ free'      = (free \ {p}) \cup {b}
           /\ order'     = [order EXCEPT ![p] = o, ![b] = o]
           /\ count'     = [count EXCEPT ![p] = 1, ![b] = 0]
           /\ freePages' = freePages - BlockSize(o)
  /\ UNCHANGED <<invalid, status>>

\* split_block(order) that finds a block p of order s: both halves go on the
\* list of the next smaller order.
SplitBlock(s, p) ==
  LET b == BuddyOf(p, s - 1)
  IN  /\ list'      = [list EXCEPT ![s] = @ \ {p}, ![s - 1] = @ \cup {p, b}]
      /\ freeCount' = [freeCount EXCEPT ![s] = @ - 1, ![s - 1] = @ + 2]
      /\ free'      = free \cup {p, b}
      /\ order'     = [order EXCEPT ![p] = s - 1, ![b] = s - 1]
      /\ count'     = [count EXCEPT ![p] = 0, ![b] = 0]

\* The first non-empty list is more than one order up: its block is halved
\* once, the list of order o is still empty and palloc returns NULL.
PallocNull(o) ==
  /\ status = "running"
  /\ \E s \in o + 2 .. MaxOrder :
       SplitOrder(o, s) /\ \E p \in list[s] : SplitBlock(s, p)
  /\ UNCHANGED <<invalid, freePages, status>>

\* No block of a larger order: the search of split_block reads
\* maps[BUDDY_MAX_ORDER + 1], which is past the array.  If what it finds
\* there is zero it panics ("OOM"), otherwise it takes a block off a list
\* that does not exist.  (For the largest order split_block refuses to
\* search, and palloc returns NULL with nothing changed.)
PallocExhausted(o) ==
  /\ status = "running"
  /\ o < MaxOrder
  /\ \A k \in o .. MaxOrder : freeCount[k] = 0
  /\ status' \in {"oom", "undefined"}
  /\ UNCHANGED <<order, count, free, invalid, list, freeCount, freePages>>

Palloc(o) == PallocDirect(o) \/ PallocSplit(o) \/ PallocNull(o) \/ PallocExhausted(o)

-----------------------------------------------------------------------------
(* pfree and vpfree *)

\* (mutant) The count of the released block is not reset.
PfreeKeepsCount(p) ==
  /\ status = "running"
  /\ order[p] \in Orders /\ p \notin invalid /\ p \notin free
  /\ FreeBlock(p, order[p])
  /\ UNCHANGED <<count, invalid, status>>

\* pfree returns at once for a page that heads no block in use; otherwise
\* its two consistency checks come before the release.  The alignment check
\* parses as pfn & (mask != 0): it looks at bit 0 of pfn when the order is
\* not 0, and at nothing when it is.
Pfree(p) ==
  /\ status = "running"
  /\ order[p] \in Orders /\ p \notin invalid /\ p \notin free
  /\ IF (order[p] > 0 /\ p % 2 = 1) \/ count[p] # 1
       THEN /\ status' = "badfree"
            /\ UNCHANGED <<order, count, free, list, freeCount, freePages>>
       ELSE /\ count' = [count EXCEPT ![p] = 0]
            /\ FreeBlock(p, order[p])
            /\ UNCHANGED status
  /\ UNCHANGED invalid

\* vpfree of the address one past the last page passes its range check,
\* finds no descriptor and panics.
VpfreeEnd ==
  /\ status = "running"
  /\ status' = "badaddr"
  /\ UNCHANGED <<order, count, free, invalid, list, freeCount, freePages>>

-----------------------------------------------------------------------------
Next ==
  \/ \E p \in Pages : BootPage(p)
  \/ BootDone
  \/ \E o \in Orders : Palloc(o)
  \/ \E p \in Pages : Pfree(p)
  \/ VpfreeEnd

Spec == Init /\ [][Next]_vars
-----------------------------------------------------------------------------
(* Correctness *)

TypeOK ==
  /\ order \in [Pages -> -1 .. MaxOrder]
  /\ count \in [Pages -> {0, 1}]
  /\ free \subseteq Pages
  /\ invalid \subseteq Pages
  /\ list \in [Orders -> SUBSET Pages]
  /\ freeCount \in [Orders -> Int]
  /\ freePages \in Int
  /\ status \in {"boot", "running", "oom", "undefined", "badfree", "badaddr"}

\* First pages of blocks, free or in use, and the pages of memory handed over so far.
Heads   == {p \in Pages : order[p] >= 0}
Managed == Ram \ (Kernel \cup invalid)

\* The blocks are naturally aligned, lie in managed memory and never overlap.
BlocksDisjoint ==
  /\ \A p \in Heads : p % BlockSize(order[p]) = 0 /\ Block(p, order[p]) \subseteq Managed
  /\ \A p, q \in Heads : p # q => Block(p, order[p]) \cap Block(q, order[q]) = {}

\* Splitting and coalescing never lose a page: every managed page is in a block.
NoPageLost == \A x \in Managed : \E p \in Heads : x \in Block(p, order[p])

\* The descriptors and the lists tell the same story: PG_FREE is set exactly
\* on the heads that are on the list of their order, and count is 1 exactly
\* on the heads in use.
ListsAgree ==
  /\ \A k \in Orders : list[k] = {p \in free : order[p] = k}
  /\ free \subseteq Heads
  /\ \A p \in Pages : count[p] = 1 <=> p \in Heads \ free

\* The pages of the free blocks.
FreeMemory == UNION {Block(p, order[p]) : p \in free}

\* free_count is the length of the list and free_pages the number of pages
\* in free blocks, through every split, merge and failed allocation.
CountersExact ==
  /\ \A k \in Orders : freeCount[k] = Cardinality(list[k])
  /\ freePages = Cardinality(FreeMemory)

\* Neither consistency check of pfree can fire, whatever page it is given:
\* a block in use is aligned and has count 1.
FreeChecksNeverFire == status # "badfree"

\* docs/palloc.md:4-5, "repeat until we cannot merge any more": when a block
\* has been released, the block it ended up in could not have been merged
\* further with the memory as it is now.
ReleaseCoalesces ==
  [][\A p \in Pages : count[p] = 1 /\ count'[p] = 0 =>
       \E h \in free' : /\ p \in Block(h, order'[h])
                        /\ order'[h] < MaxOrder =>
                             ~ LET b == BuddyOf(h, order'[h])
                               IN  b \in free' /\ order'[b] = order'[h]]_vars

\* The blocks in use.
HeldOf == {<<p, order[p]>> : p \in Heads \ free}

\* Seen from outside, palloc and pfree are the abstract allocator: what is
\* handed out is aligned, managed, of the order asked for and shares no page
\* with a block in use; only a block in use is given back; a refusal, a
\* split or an ignored pfree changes nothing a caller can see.
Abstract == INSTANCE PageAlloc WITH SizeOf <- BlockSize, pool <- Managed, held <- HeldOf
AbstractSpec == Abstract!Spec
=============================================================================
