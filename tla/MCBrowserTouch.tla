--------------------------- MODULE MCBrowserTouch ---------------------------
(***************************************************************************)
(* The browser with a touch panel only, two lines to the page: a root with *)
(* two subdirectories, one of them with a subdirectory of its own, all of  *)
(* different sizes, and settings lists two deep.                           *)
(***************************************************************************)
EXTENDS BrowserNav, SettingsTable, TLC

MCTree == {<<>>, <<1>>, <<3>>, <<1, 2>>}

MCFileCnt == (<<>> :> 4) @@ (<<1>> :> 3) @@ (<<3>> :> 1) @@ (<<1, 2>> :> 2)

MCMenu ==
  [root |-> List("NULL", <<Sub("display", 2), Sub("usb", 2)>>),
   display |-> List("root", <<Leaf>>),
   usb |-> List("root", <<Connect("select", 1)>>),
   select |-> List("usb", <<>>)]

MCLevel == LevelOf(MCMenu)
=============================================================================
