------------------------------ MODULE BootMap ------------------------------
(***************************************************************************)
(* How the kernel finds out which memory it may use, before the page       *)
(* allocator exists: clean_efi_memory_map (arch/x86/boot/init.c) compacts  *)
(* the firmware's map in place, init_bootmem (mm/bootmem.c) copies it into *)
(* a fixed table of regions, __bootmem_alloc carves the page descriptors   *)
(* out of it, and init_palloc releases what is left page by page.          *)
(*                                                                         *)
(* The map itself is built by the loader: module Boot composes the two.    *)
(* Addresses are counted in units of 1/PageSize of a page; a region is     *)
(* [start, end).  A table slot with start = 0 is empty.                    *)
(***************************************************************************)
EXTENDS Integers, Sequences, FiniteSets

CONSTANTS PageSize,       \* units per page
          MaxRegions,     \* slots of __regions
          KernelStart, KernelEnd,     \* the kernel image
          DescriptorSizes \* sizes in units the page array may have

ASSUME BootMapAssumption ==
  /\ PageSize \in Nat \ {0} /\ MaxRegions \in Nat \ {0}
  /\ KernelStart \in Nat /\ KernelEnd \in Nat /\ KernelStart <= KernelEnd
  /\ DescriptorSizes \subseteq Nat \ {0}

VARIABLES map,            \* the firmware's map: [type, start, npages]
          given,          \* the map as it was passed
          next,           \* the next descriptor clean_efi_memory_map or init_bootmem reads
          kept,           \* mmap_descriptors: descriptors kept so far
          lastFree,       \* index of the descriptor being grown, 0 if none
          regions,        \* __regions: [start, end, type]
          maxPfn,         \* max_pfn
          pagesArray,     \* where the page descriptors were put: [start, end]
          freed,          \* page -> times init_palloc has released it
          stage           \* what the boot code is doing

vars == <<map, given, next, kept, lastFree, regions, maxPfn, pagesArray, freed, stage>>

AlignUp(a)   == ((a + PageSize - 1) \div PageSize) * PageSize
AlignDown(a) == (a \div PageSize) * PageSize
Least(S)     == CHOOSE x \in S : \A y \in S : x <= y

Empty == [start |-> 0, end |-> 0, type |-> "ram"]

Unbooted ==
  /\ given = << >> /\ map = << >>
  /\ next = 1 /\ kept = 0 /\ lastFree = 0
  /\ regions = [i \in 1 .. MaxRegions |-> Empty]
  /\ maxPfn = 0
  /\ pagesArray = [start |-> 0, end |-> 0]
  /\ freed = << >>
  /\ stage = "loader"

\* _kentry is called with the map m.
Kentry(m) ==
  /\ stage = "loader" /\ stage' = "clean"
  /\ given' = m /\ map' = m
  /\ UNCHANGED <<next, kept, lastFree, regions, maxPfn, pagesArray, freed>>

-----------------------------------------------------------------------------
(* clean_efi_memory_map, one descriptor at a time, in place. *)

\* (mutant) Memory of the boot services is not reclaimed.
UsableNow(d) == d.type = "conventional"

Usable(d) == d.type \in {"conventional", "bootcode", "bootdata"}

\* (mutant) The last usable descriptor grows over any gap.
GrowsAnyhow(d) == lastFree # 0

\* d begins where the last usable descriptor ends.
Grows(d) ==
  lastFree # 0 /\ d.start = map[lastFree].start + map[lastFree].npages * PageSize

CleanOne ==
  /\ stage = "clean" /\ next <= Len(map)
  /\ LET d == map[next]
     IN  CASE Usable(d) /\ Grows(d) ->
                /\ map' = [map EXCEPT ![lastFree].npages = @ + d.npages]
                /\ UNCHANGED <<kept, lastFree>>
           [] Usable(d) /\ ~ Grows(d) ->
                /\ map' = [map EXCEPT ![kept + 1] = [d EXCEPT !.type = "conventional"]]
                /\ kept' = kept + 1
                /\ lastFree' = kept + 1
           [] ~ Usable(d) ->
                /\ map' = [map EXCEPT ![kept + 1] = d]
                /\ kept' = kept + 1
                /\ UNCHANGED lastFree
  /\ next' = next + 1
  /\ UNCHANGED <<given, regions, maxPfn, pagesArray, freed, stage>>

CleanDone ==
  /\ stage = "clean" /\ next > Len(map)
  /\ map' = SubSeq(map, 1, kept)
  /\ next' = 1
  /\ stage' = "insert"
  /\ UNCHANGED <<given, kept, lastFree, regions, maxPfn, pagesArray, freed>>

-----------------------------------------------------------------------------
(* bootmem_insert_region *)

\* The first empty slot takes the region; with none left it is dropped.
Put(table, s, e, t) ==
  LET slots == {i \in 1 .. MaxRegions : table[i].start = 0}
  IN  IF slots = {} THEN table
      ELSE [table EXCEPT ![Least(slots)] = [start |-> s, end |-> e, type |-> t]]

\* The bounds as the table stores them: whole pages, physical page 0 left out.
Low(s)  == IF AlignUp(s) = 0 THEN PageSize ELSE AlignUp(s)
High(e) == AlignDown(e)

NullPageOnly(s, e) == AlignUp(s) = 0 /\ Low(s) >= High(e)

InKernel(s, e)  == Low(s) >= KernelStart /\ High(e) <= KernelEnd
CoversKernel(s, e) ==
  \/ Low(s) < KernelStart /\ High(e) >= KernelEnd
  \/ Low(s) <= KernelStart /\ High(e) > KernelEnd

InsertPart(table, s, e, t) ==
  IF NullPageOnly(s, e) \/ InKernel(s, e) THEN table ELSE Put(table, Low(s), High(e), t)

\* A region that covers the kernel is inserted as the parts around it, and
\* then also as a whole: the code falls through.
Insert(table, s, e, t) ==
  LET left  == IF Low(s) < KernelStart THEN InsertPart(table, Low(s), KernelStart, t) ELSE table
      parts == IF High(e) > KernelEnd THEN InsertPart(left, KernelEnd, High(e), t) ELSE left
  IN  InsertPart(IF CoversKernel(s, e) THEN parts ELSE table, s, e, t)

\* max_pfn grows with every region, the kernel's own included.
GrownPfn(s, e) ==
  IF NullPageOnly(s, e) \/ High(e) \div PageSize <= maxPfn THEN maxPfn ELSE High(e) \div PageSize

-----------------------------------------------------------------------------
(* init_bootmem *)

KindOf(d) == IF d.type = "conventional" THEN "ram" ELSE "mmio"

InsertOne ==
  /\ stage = "insert" /\ next <= Len(map)
  /\ LET d == map[next]
         e == d.start + d.npages * PageSize
     IN  IF d.type \in {"conventional", "mmio"}
           THEN /\ regions' = Insert(regions, d.start, e, KindOf(d))
                /\ maxPfn' = GrownPfn(d.start, e)
           ELSE UNCHANGED <<regions, maxPfn>>
  /\ next' = next + 1
  /\ UNCHANGED <<map, given, kept, lastFree, pagesArray, freed, stage>>

-----------------------------------------------------------------------------
(* init_palloc: the page array, then every page of every RAM region. *)

\* __bootmem_alloc of size units, page aligned: the first RAM region that is
\* larger gives up its start.
Fits(i, size) ==
  LET s == AlignUp(regions[i].start)
      e == AlignDown(regions[i].end)
  IN  /\ regions[i].type = "ram" /\ regions[i].start # 0
      /\ s < e /\ e - s > size

BootmemAlloc(size) ==
  /\ stage = "insert" /\ next > Len(map)
  /\ LET fit == {i \in 1 .. MaxRegions : Fits(i, size)}
         i == Least(fit)
         s == AlignUp(regions[i].start)
     IN  IF fit = {}
           THEN /\ stage' = "panic"
                /\ UNCHANGED <<regions, maxPfn, pagesArray>>
           ELSE /\ regions' = Insert([regions EXCEPT ![i].start = s + size], s, s + size, "alloc")
                /\ pagesArray' = [start |-> s, end |-> s + size]
                /\ maxPfn' = GrownPfn(s, s + size)
                /\ stage' = "release"
  /\ freed' = [p \in 0 .. maxPfn - 1 |-> 0]
  /\ next' = 1
  /\ UNCHANGED <<map, given, kept, lastFree>>

\* The pages of [s, e) that init_palloc visits.
PagesIn(s, e) == (Low(s) \div PageSize) .. (High(e) \div PageSize) - 1

\* __free_single_page refuses a page that starts in the kernel image, its
\* last address included.
KernelPage(p) == p * PageSize >= KernelStart /\ p * PageSize <= KernelEnd

ReleaseRegion ==
  /\ stage = "release" /\ next <= MaxRegions
  /\ LET r == regions[next]
     IN  freed' = [p \in DOMAIN freed |->
                    IF r.type = "ram" /\ p \in PagesIn(r.start, r.end) /\ ~ KernelPage(p)
                      THEN freed[p] + 1
                      ELSE freed[p]]
  /\ next' = next + 1
  /\ UNCHANGED <<map, given, kept, lastFree, regions, maxPfn, pagesArray, stage>>

ReleaseDone ==
  /\ stage = "release" /\ next > MaxRegions
  /\ stage' = "done"
  /\ UNCHANGED <<map, given, next, kept, lastFree, regions, maxPfn, pagesArray, freed>>

KernelStep ==
  \/ CleanOne \/ CleanDone
  \/ InsertOne
  \/ \E size \in DescriptorSizes : BootmemAlloc(size)
  \/ ReleaseRegion \/ ReleaseDone

-----------------------------------------------------------------------------
(* Correctness *)

DescPages(m, S) ==
  UNION {(m[i].start \div PageSize) .. (m[i].start \div PageSize + m[i].npages - 1) :
           i \in {j \in DOMAIN m : m[j].type \in S}}

UsableTypes == {"conventional", "bootcode", "bootdata"}

\* The other descriptors of m, each with its place among them.
Others(m) ==
  {<<Cardinality({j \in 1 .. i : ~ Usable(m[j])}), m[i]>> : i \in {j \in DOMAIN m : ~ Usable(m[j])}}

\* clean_efi_memory_map: the compacted map describes the same memory as the
\* loader's, the same usable pages and the other descriptors untouched and in
\* order, although it is written over the map that is being read.
CleanKeepsMap ==
  stage \notin {"loader", "clean"} =>
    /\ DescPages(map, {"conventional"}) = DescPages(given, UsableTypes)
    /\ Others(map) = Others(given)

\* Pages the kernel image overlaps, KernelEnd included.
KernelPages == {p \in 0 .. maxPfn : p * PageSize <= KernelEnd /\ (p + 1) * PageSize > KernelStart}
ArrayPages  == (pagesArray.start \div PageSize) .. ((pagesArray.end - 1) \div PageSize)
=============================================================================
