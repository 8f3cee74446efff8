--------------------------- MODULE MCFatSmallRead ---------------------------
(* One file of two clusters that do not follow each other on the card.      *)
EXTENDS FatFile

MCChains == {<<2, 4>>}
=============================================================================
