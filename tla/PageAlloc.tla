----------------------------- MODULE PageAlloc -----------------------------
(***************************************************************************)
(* What the physical page allocator promises to the rest of the kernel,    *)
(* independent of how it is built: memory is handed over once (at boot),   *)
(* an allocation returns a naturally aligned block of handed-over pages    *)
(* that shares no page with a block still in use, and only a block that is *)
(* in use can be given back.                                               *)
(***************************************************************************)
EXTENDS Integers

CONSTANTS Pages,          \* the page frame numbers the allocator describes
          Orders,         \* the orders a caller may ask for
          SizeOf(_)       \* the number of pages of a block of an order

VARIABLES pool,           \* the pages handed over to the allocator
          held            \* the blocks in use: <<first page, order>>

pvars == <<pool, held>>

\* The pages of a block.
PagesOf(b) == b[1] .. (b[1] + SizeOf(b[2]) - 1)

Init == pool = {} /\ held = {}

HandOver(p) ==
  /\ p \in Pages \ pool
  /\ pool' = pool \cup {p}
  /\ UNCHANGED held

Alloc(b) ==
  /\ b[1] % SizeOf(b[2]) = 0
  /\ PagesOf(b) \subseteq pool
  /\ \A h \in held : PagesOf(h) \cap PagesOf(b) = {}
  /\ held' = held \cup {b}
  /\ UNCHANGED pool

Free(b) ==
  /\ b \in held
  /\ held' = held \ {b}
  /\ UNCHANGED pool

Next ==
  \/ \E p \in Pages : HandOver(p)
  \/ \E b \in Pages \X Orders : Alloc(b) \/ Free(b)

Spec == Init /\ [][Next]_pvars
=============================================================================
