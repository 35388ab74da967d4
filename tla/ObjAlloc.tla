------------------------------ MODULE ObjAlloc -----------------------------
(***************************************************************************)
(* What kmalloc and kfree promise to the rest of the kernel, independent   *)
(* of how objects are kept: an object is aligned memory inside some frame, *)
(* behind the frame's header, that shares no unit with an object in use;   *)
(* it has not been written to since it was last free; and only what is in  *)
(* use is given back.                                                      *)
(***************************************************************************)
EXTENDS Integers

CONSTANTS Frames,         \* the memory objects are made of
          FrameSize,      \* units in a frame
          Header,         \* units of a frame that describe it
          Sizes           \* the sizes an object may have

VARIABLES held,           \* the objects in use: <<frame, first unit, size>>
          touched         \* units written to while no object in use had them

ovars == <<held, touched>>

Blocks   == Frames \X (Header .. FrameSize - 1) \X Sizes
Units(x) == {x[1]} \X (x[2] .. x[2] + x[3] - 1)
Used     == UNION {Units(h) : h \in held}

Init == held = {} /\ touched = {}

Alloc(x) ==
  /\ x[2] % x[3] = 0 /\ x[2] + x[3] <= FrameSize
  /\ Units(x) \cap (Used \cup touched) = {}
  /\ held' = held \cup {x}
  /\ UNCHANGED touched

\* With an object other memory may become clean.
Free(x) ==
  /\ x \in held
  /\ held' = held \ {x}
  /\ touched' \subseteq touched

\* Somebody writes to memory that is not theirs.
Touch ==
  /\ UNCHANGED held
  /\ touched \subseteq touched'
  /\ (touched' \ touched) \cap Used = {}

Next == Touch \/ \E x \in Blocks : Alloc(x) \/ Free(x)

Spec == Init /\ [][Next]_ovars
=============================================================================
