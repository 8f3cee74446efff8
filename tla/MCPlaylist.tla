---------------------------- MODULE MCPlaylist ----------------------------
(* A list that plays, one with an item that nothing plays and a broken      *)
(* movie at its end, and a broken movie alone.  The table has an entry      *)
(* behind the longest.                                                     *)
EXTENDS Playlist

MCLists ==
  {<<"music", "music", "music">>, <<"music", "other", "broken">>,
   <<"broken">>}
=============================================================================
