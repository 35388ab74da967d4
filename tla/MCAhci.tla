------------------------------- MODULE MCAhci -------------------------------
(***************************************************************************)
(* A controller with two ports, one without a link and one with a disk of  *)
(* four sectors.  The DMA buffer holds two sectors, so a request for three *)
(* takes two commands.                                                     *)
(***************************************************************************)
EXTENDS Ahci

=============================================================================
