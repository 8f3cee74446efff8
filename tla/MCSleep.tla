------------------------------ MODULE MCSleep ------------------------------
(* Two seconds to sleep, one to dim, or always on; the seconds begin again  *)
(* after eight.                                                             *)
EXTENDS Sleep

MCTimes == {0, 2}
=============================================================================
