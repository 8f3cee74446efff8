---------------------------- MODULE MCPhotoFrame ----------------------------
(* Every list of up to four items that has a picture.                       *)
EXTENDS PhotoFrame

MCLists ==
  {l \in UNION {[1 .. n -> Kinds] : n \in 1 .. 4} :
     \E i \in DOMAIN l : l[i] # "other"}
=============================================================================
