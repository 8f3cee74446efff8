----------------------------- MODULE MCFatFile -----------------------------
(* Every chain of up to four of the clusters 2 .. 6: forward and backward  *)
(* gaps, gaps of every cluster, none at all.  A cluster has two sectors of *)
(* two bytes, a block of the FAT two entries.  The longest read is longer  *)
(* than two clusters.                                                      *)
EXTENDS FatFile

MCChains ==
  {c \in UNION {[1 .. n -> 2 .. 6] : n \in 1 .. 4} :
     \A i, j \in DOMAIN c : c[i] = c[j] => i = j}
=============================================================================
