------------------------------- MODULE MCPci -------------------------------
(***************************************************************************)
(* Two windows: one of two buses with two places, one of a single bus with *)
(* one; a device has up to two functions, an upper one of number 2, and    *)
(* its extended space a capability at the block that is read for function  *)
(* 1.  The XSDT may have no MCFG, or two of which the first is for the     *)
(* first bus only, or one whose first entry has no bus.                    *)
(***************************************************************************)
EXTENDS Pci

CONSTANT other

BothBuses == [start |-> 0, end |-> 1]
NoBus     == [start |-> 1, end |-> 0]
OneBus(b) == [start |-> b, end |-> b]

MCTables ==
  {<<other>>, <<other, <<BothBuses>>>>, <<<<OneBus(0)>>, other, <<BothBuses, OneBus(1)>>>>,
   <<<<NoBus, OneBus(0)>>>>}
MCSlots == {<<1, 0, 1>>, <<1, 1, 0>>, <<2, 1, 1>>}
=============================================================================
