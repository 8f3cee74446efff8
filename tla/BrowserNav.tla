----------------------------- MODULE BrowserNav -----------------------------
(***************************************************************************)
(* The browser keeps the promise of PathNav: the two cursor stacks are a   *)
(* path in one tree of lists, in which the settings hang below item 0 of   *)
(* the root.                                                               *)
(***************************************************************************)
EXTENDS Browser

(* The lists on the way along p, which starts with item 0 of the root, from *)
(* the first settings list to the one at the end of p.                      *)
LeadsAlong(p, way) ==
  /\ p[1] = 0 /\ way[1] = settings_root_list
  /\ \A k \in 1 .. Len(p) - 1 :
       /\ p[k + 1] \in DOMAIN Menu[way[k]] \ {0}
       /\ Menu[way[k]][p[k + 1]].next = way[k + 1]

Ways(p) == {way \in [1 .. Len(p) -> DOMAIN Menu] : LeadsAlong(p, way)}

EntryNumbers == UNION {DOMAIN Menu[l] : l \in DOMAIN Menu}

Lists ==
  Tree \union {p \in UNION {[1 .. n -> EntryNumbers] :
                              n \in 1 .. MAX_SETTING_STACK_LEVEL} : Ways(p) # {}}

Items(p) ==
  IF p \in Tree THEN FileCnt[p]
  ELSE LET way == CHOOSE w \in Ways(p) : TRUE
       IN Cardinality(DOMAIN Menu[way[Len(p)]])

(* What is highlighted in the lists above, from the root down. *)
DirPath ==
  [k \in 1 .. dirLevel |->
     dirCursorStack[k - 1].pos + dirCursorStack[k - 1].pageIdx * PAGE_NUM_ITEMS]

SettingsPath ==
  [k \in 1 .. settings_stack.idx |->
     IF k = 1 THEN 0 ELSE settings_stack.pos[k - 1]]

PathShown == IF settings_mode THEN SettingsPath ELSE DirPath

Path == INSTANCE PathNav WITH list <- PathShown, item <- Selected

(* Every handler maps to a move of PathNav: what ".." restores is what was *)
(* highlighted when the list was left, and the list is the one behind the  *)
(* item highlighted (LCDCursorEnter, changeDir).                           *)
PathNavSpec == Path!Spec
=============================================================================
