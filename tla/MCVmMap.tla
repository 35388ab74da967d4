------------------------------ MODULE MCVmMap ------------------------------
(***************************************************************************)
(* Tables of two entries under a pgd of four: pages of 1, 2 and 4, and 8   *)
(* pages an entry of pgd.  16 addresses at either end of 64 are canonical; *)
(* the 8 outermost at each end are mapped by the boot tables.              *)
(***************************************************************************)
EXTENDS VmMap

=============================================================================
