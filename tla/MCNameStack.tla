---------------------------- MODULE MCNameStack -----------------------------
(***************************************************************************)
(* The stacks of changeDir at their real sizes, on a card with a single    *)
(* directory.                                                              *)
(***************************************************************************)
EXTENDS Browser, TLC

T == INSTANCE SettingsTable

MCTree == {<<>>, <<1>>}

MCFileCnt == (<<>> :> 2) @@ (<<1>> :> 1)

MCMenu == [root |-> T!List("NULL", <<>>)]

MCLevel == T!LevelOf(MCMenu)
=============================================================================
