------------------------------ MODULE MCBuddy ------------------------------
(***************************************************************************)
(* A small memory map for Buddy: pages 8 .. 15 merge into one block of the *)
(* largest order, so that a split may have to search several orders; the   *)
(* kernel is on page 18, page 19 is a hole and 22 is the last page: its    *)
(* buddy has no descriptor.                                                *)
(***************************************************************************)
EXTENDS Buddy

MCPageCount == 23
MCMaxOrder  == 3
MCKernel    == {18}
MCRam       == (8 .. 15) \cup {18} \cup (20 .. 22)
=============================================================================
