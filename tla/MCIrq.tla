------------------------------- MODULE MCIrq -------------------------------
(***************************************************************************)
(* The timer, the keyboard, line 7 with its spurious requests and a        *)
(* device on the slave controller.                                         *)
(***************************************************************************)
EXTENDS Irq

=============================================================================
