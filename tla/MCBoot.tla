------------------------------- MODULE MCBoot ------------------------------
(***************************************************************************)
(* Eleven pages of RAM of two units each.  The kernel's segments belong on *)
(* pages 3 and 5, the boot information behind them on page 6 and the map   *)
(* from page 7 on.  At most one of these pages is taken already; the pages *)
(* around are usable in one of two ways, reserved or not described.        *)
(***************************************************************************)
EXTENDS Boot

MCSegments == <<[start |-> 3, pages |-> 1], [start |-> 5, pages |-> 1]>>

MCKernelStart == 6
MCKernelEnd   == 12

Wanted == {3, 6, 7}
Around == {1, 2, 4, 9}
Uses   == {"conventional", "bootdata", "reserved", "none"}

MCOwners ==
  {[p \in 0 .. 10 |-> IF p \in taken THEN "bootdata"
                    ELSE IF p \in Around THEN kind[p] ELSE "conventional"] :
     taken \in {{}} \cup {{p} : p \in Wanted}, kind \in [Around -> Uses]}
=============================================================================
