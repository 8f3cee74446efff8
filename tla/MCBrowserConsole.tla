-------------------------- MODULE MCBrowserConsole --------------------------
(***************************************************************************)
(* The browser with a touch panel and a serial console at once, on a card  *)
(* with one directory, so that their handlers interleave with every step   *)
(* of the players.                                                         *)
(***************************************************************************)
EXTENDS Browser, TLC

T == INSTANCE SettingsTable

MCTree == {<<>>, <<1>>}

MCFileCnt == (<<>> :> 3) @@ (<<1>> :> 2)

MCMenu ==
  [root |-> T!List("NULL", <<T!Sub("display", 2)>>),
   display |-> T!List("root", <<T!Leaf>>)]

MCLevel == T!LevelOf(MCMenu)
=============================================================================
