------------------------------- MODULE MCVfs -------------------------------
(***************************************************************************)
(* Two names, five entries and three mounts: a directory below a           *)
(* directory, a mount on either and a mount inside a mount.  The names are *)
(* interchangeable; the entries are not, 1 being the first root.           *)
(***************************************************************************)
EXTENDS Vfs, TLC

CONSTANTS a, b

NamePermutations == Permutations({a, b})
=============================================================================
