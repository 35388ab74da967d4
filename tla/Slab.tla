-------------------------------- MODULE Slab --------------------------------
(***************************************************************************)
(* The object allocator, src/src/mm/kmalloc.c: size classes, each with a   *)
(* chain of frames of 2^3 pages taken from the page allocator; a frame     *)
(* holds objects threaded on a free list.  An object is <<frame, index>>.  *)
(*                                                                         *)
(* The kernel that calls kmalloc and kfree is well behaved except that it  *)
(* may write to an object it has freed: the poison check exists for that.  *)
(* Frames the page allocator does not refuse come from FramePool.          *)
(***************************************************************************)
EXTENDS Integers, Sequences, FiniteSets

CONSTANTS Classes,        \* the entries of slabs[] in use
          ObjSize,        \* class -> units of an object
          FramePool,      \* blocks of 2^SLAB_FRAME_BLOCK_SIZE pages
          FrameSize,      \* units in such a block
          Header,         \* units of struct slab_frame
          MaxCorrupt,     \* bound: writes to freed objects
          MaxRefused      \* bound: vpalloc calls that answer NULL

ASSUME LayoutAssumption ==
  /\ FrameSize \in Nat /\ Header \in Nat
  /\ ObjSize \in [Classes -> Nat \ {0}]
  /\ \A c \in Classes : FrameSize % ObjSize[c] = 0 /\ Header + 2 * ObjSize[c] <= FrameSize
ASSUME BoundsAssumption   == MaxCorrupt \in Nat /\ MaxRefused \in Nat

VARIABLES chain,          \* class -> its frames, from slabs[c].head along next
          frameCount,     \* class -> slabs[c].frame_count
          freeList,       \* frame -> its free_list
          freeCount,      \* frame -> its free_count
          corrupt,        \* free objects whose poison has been overwritten
          live,           \* objects handed out and not given back
          result,         \* what the last kmalloc answered
          refused         \* NULL answers of vpalloc, each of which makes
                          \* slab_alloc_new_frame write over low memory

vars == <<chain, frameCount, freeList, freeCount, corrupt, live, result, refused>>

NULL == <<>>

\* (mutant) The header is not taken off.
ObjCountWhole == [c \in Classes |-> FrameSize \div ObjSize[c]]

\* frame->obj_count
ObjCount == [c \in Classes |-> (FrameSize - Header) \div ObjSize[c]]

\* frame->start_addr: the header's end, aligned up.
StartOf(c) == ((Header + ObjSize[c] - 1) \div ObjSize[c]) * ObjSize[c]

Elements(s)   == {s[i] : i \in DOMAIN s}
Objects(c, f) == {f} \X (1 .. ObjCount[c])
Chained(c)    == Elements(chain[c])
InUse         == UNION {Chained(c) : c \in Classes}

Init ==
  /\ chain      = [c \in Classes |-> <<>>]
  /\ frameCount = [c \in Classes |-> 0]
  /\ freeList   = [f \in FramePool |-> <<>>]
  /\ freeCount  = [f \in FramePool |-> 0]
  /\ corrupt    = {}
  /\ live       = {}
  /\ result     = NULL
  /\ refused    = 0

-----------------------------------------------------------------------------
(* slab_alloc_obj: objects whose poison is damaged are dropped from the    *)
(* free list until an intact one is found; free_count does not count them  *)
(* out.                                                                    *)

\* (mutant) Any intact object will do.
SkipAnywhere(s, i) == s[i] \notin corrupt

SkipTo(s, i) == s[i] \notin corrupt /\ \A j \in 1 .. i - 1 : s[j] \in corrupt

AllocObj(f) ==
  LET s == freeList[f]
  IN  \/ \E i \in DOMAIN s :
           /\ SkipTo(s, i)
           /\ freeList'  = [freeList EXCEPT ![f] = SubSeq(s, i + 1, Len(s))]
           /\ freeCount' = [freeCount EXCEPT ![f] = @ - 1]
           /\ result' = s[i]
           /\ live' = live \cup {s[i]}
      \/ /\ Elements(s) \subseteq corrupt
         /\ freeList' = [freeList EXCEPT ![f] = <<>>]
         /\ result' = NULL
         /\ UNCHANGED <<freeCount, live>>

\* slab_malloc takes the first frame of the chain that counts a free object.
KmallocOld(c) ==
  /\ \E i \in DOMAIN chain[c] :
       /\ freeCount[chain[c][i]] > 0
       /\ \A j \in 1 .. i - 1 : freeCount[chain[c][j]] <= 0
       /\ AllocObj(chain[c][i])
  /\ UNCHANGED <<chain, frameCount, corrupt, refused>>

NoneFree(c) == \A f \in Chained(c) : freeCount[f] <= 0

CountFrame(c) == frameCount' = [frameCount EXCEPT ![c] = @ + 1]

\* (mutant) The object handed out stays on the list and in the count.
KmallocNewKeepsFirst(c) ==
  /\ NoneFree(c)
  /\ \E f \in FramePool \ InUse :
       /\ chain'      = [chain EXCEPT ![c] = Append(@, f)]
       /\ CountFrame(c)
       /\ freeList'   = [freeList EXCEPT ![f] = [i \in 1 .. ObjCount[c] |-> <<f, i>>]]
       /\ freeCount'  = [freeCount EXCEPT ![f] = ObjCount[c]]
       /\ result'     = <<f, 1>>
       /\ live'       = live \cup {<<f, 1>>}
  /\ UNCHANGED <<corrupt, refused>>

\* slab_alloc_new_frame threads the objects in address order, and its first
\* object is handed out at once.
KmallocNew(c) ==
  /\ NoneFree(c)
  /\ \E f \in FramePool \ InUse :
       /\ chain'      = [chain EXCEPT ![c] = Append(@, f)]
       /\ CountFrame(c)
       /\ freeList'   = [freeList EXCEPT ![f] = [i \in 1 .. ObjCount[c] - 1 |-> <<f, i + 1>>]]
       /\ freeCount'  = [freeCount EXCEPT ![f] = ObjCount[c] - 1]
       /\ result'     = <<f, 1>>
       /\ live'       = live \cup {<<f, 1>>}
  /\ UNCHANGED <<corrupt, refused>>

KmallocRefused(c) ==
  /\ NoneFree(c)
  /\ refused < MaxRefused
  /\ refused'    = refused + 1
  /\ CountFrame(c)
  /\ result'     = NULL
  /\ UNCHANGED <<chain, freeList, freeCount, corrupt, live>>

Kmalloc(c) == KmallocOld(c) \/ KmallocNew(c) \/ KmallocRefused(c)

\* Flags kmalloc does not know, or a size above the largest class.
KmallocInvalid ==
  /\ result' = NULL
  /\ UNCHANGED <<chain, frameCount, freeList, freeCount, corrupt, live, refused>>

-----------------------------------------------------------------------------
(* kfree *)

\* slab_free_frame walks at most frame_count links to the frame and takes
\* what it stands on out of the chain.
FreeFrame(c, f) ==
  LET s == chain[c]
      k == CHOOSE i \in DOMAIN s : s[i] = f
      n == IF k - 1 <= frameCount[c] THEN k - 1 ELSE frameCount[c]
  IN  /\ chain' = [chain EXCEPT ![c] = SubSeq(s, 1, n) \o SubSeq(s, k + 1, Len(s))]
      /\ frameCount' = [frameCount EXCEPT ![c] = @ - 1]

\* (mutant) The objects on the list are counted.
DrainedByList(c, f) == Len(freeList[f]) + 1 = ObjCount[c]

\* With the object being freed, every object of the frame is counted free.
Drained(c, f) == freeCount[f] + 1 = ObjCount[c]

\* slab_free_obj poisons the object, puts it at the head of the free list
\* and gives the frame back when every object of it is counted free.
Kfree(o) ==
  LET f == o[1]
  IN  \E c \in Classes :
        /\ f \in Chained(c)
        /\ live' = live \ {o}
        /\ freeCount' = [freeCount EXCEPT ![f] = @ + 1]
        /\ freeList' = [freeList EXCEPT ![f] = <<o>> \o @]
        /\ IF Drained(c, f)
             THEN /\ FreeFrame(c, f)
                  /\ corrupt' = {x \in corrupt : x[1] # f}
             ELSE /\ corrupt' = corrupt \ {o}
                  /\ UNCHANGED <<chain, frameCount>>
        /\ UNCHANGED <<result, refused>>

\* A write through a pointer that has been freed, past the free-list link.
WriteAfterFree(o) ==
  /\ o \in UNION {Elements(freeList[f]) : f \in InUse} \ corrupt
  /\ Cardinality(corrupt) < MaxCorrupt
  /\ corrupt' = corrupt \cup {o}
  /\ UNCHANGED <<chain, frameCount, freeList, freeCount, live, result, refused>>

AllObjects == UNION {Objects(c, f) : c \in Classes, f \in FramePool}

Next ==
  \/ \E c \in Classes : Kmalloc(c)
  \/ KmallocInvalid
  \/ \E o \in live : Kfree(o)
  \/ \E o \in AllObjects : WriteAfterFree(o)

Spec == Init /\ [][Next]_vars

-----------------------------------------------------------------------------
(* Correctness *)

Distinct(s) == \A i, j \in DOMAIN s : i # j => s[i] # s[j]

\* A frame is on one chain, once, and an object is never free and live at once.
NoSharing ==
  /\ \A c \in Classes : Distinct(chain[c])
  /\ \A c, d \in Classes : c # d => Chained(c) \cap Chained(d) = {}
  /\ \A c \in Classes : \A f \in Chained(c) :
       /\ Distinct(freeList[f])
       /\ Elements(freeList[f]) \subseteq Objects(c, f) \ live

\* A frame with a live object is never given back to the page allocator,
\* however many damaged objects were skipped meanwhile; a frame without one
\* is never kept.
FramesHeldExactlyWhileUsed == InUse = {o[1] : o \in live}

\* free_count is the number of objects that are not live, although the
\* skipped ones are on no list: without that a frame with a skipped object
\* would never be given back.
CountsAgree ==
  \A c \in Classes : \A f \in Chained(c) :
    freeCount[f] = ObjCount[c] - Cardinality({o \in live : o[1] = f})

\* A frame that counts a free object has one on its list unless it was
\* skipped as damaged: kmalloc fails only after a write to freed memory (or
\* when vpalloc refuses).
OnlySkippedObjectsAreLost ==
  \A c \in Classes : \A f \in Chained(c) :
    freeCount[f] - Len(freeList[f]) =
      Cardinality({o \in corrupt : o[1] = f} \ Elements(freeList[f]))

\* The memory of an object of a frame on the chain of class c.
Memory(c, o) == <<o[1], StartOf(c) + (o[2] - 1) * ObjSize[c], ObjSize[c]>>
MemoryOf(S)  == {Memory(x[1], x[2]) : x \in {y \in Classes \X S : y[2][1] \in Chained(y[1])}}
UnitsOf(m)   == {m[1]} \X (m[2] .. m[2] + m[3] - 1)
Touched      == UNION {UnitsOf(m) : m \in MemoryOf(corrupt)}

\* kmalloc and kfree implement the abstract object allocator: what is handed
\* out lies in a frame behind its header, is aligned, intact and disjoint from
\* every object in use, those of other classes included, whatever has become
\* of the frames before.
Abstract == INSTANCE ObjAlloc WITH
  Frames <- FramePool, Sizes <- {ObjSize[c] : c \in Classes},
  held <- MemoryOf(live), touched <- Touched
AbstractSpec == Abstract!Spec
=============================================================================
