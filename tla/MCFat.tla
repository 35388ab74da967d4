------------------------------- MODULE MCFat -------------------------------
(***************************************************************************)
(* Bytes are scaled down: a directory entry has 2, a sector 2, 4, 8 or 16  *)
(* (4 and 8 are allowed), a 16-bit number ends at 8 and a 32-bit number at *)
(* 32.  Among the boot sectors are refused ones of every kind, layouts     *)
(* that wrap, and volumes of all three types.                              *)
(***************************************************************************)
EXTENDS Fat

MCBootSectors ==
  [sectorSize : {0, 4, 8}, perCluster : {0, 1, 3}, reserved : {1}, fats : {1, 2},
   rootEntries : {0, 3}, total16 : {0, 7}, total32 : {14, 31},
   fatSize16 : {0}, fatSize32 : {2, 31}, rootCluster : {1, 2, 13}]
  \cup
  [sectorSize : {4}, perCluster : {1}, reserved : {1}, fats : {1}, rootEntries : {2},
   total16 : {0}, total32 : {5, 8}, fatSize16 : {1}, fatSize32 : {0}, rootCluster : {0}]

Inode(s, o, c, d, n) ==
  [sector |-> s, offset |-> o, attr |-> IF d THEN 16 ELSE 32, cluster |-> c, dir |-> d, size |-> n]

MCInodes == {Inode(5, 0, 2, FALSE, 3), Inode(5, 2, 13, TRUE, 40), Inode(6, 2, 12, FALSE, 31),
             Inode(6, 2, 5, FALSE, 32), Inode(6, 1, 3, FALSE, 1), Inode(6, 4, 3, FALSE, 1)}
=============================================================================
