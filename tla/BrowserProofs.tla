--------------------------- MODULE BrowserProofs ----------------------------
(***************************************************************************)
(* Proofs about Browser, for every card, settings table, page size and     *)
(* pair of input devices the assumptions admit.                            *)
(*                                                                         *)
(* CursorOnItem and DirStackMirrorsPath are not inductive: a way back      *)
(* finds an item of the list it returns to only because each saved cursor  *)
(* was on that list when it was saved, and a player returns to an item     *)
(* only because its list was not exchanged.  IInv says so.                 *)
(***************************************************************************)
EXTENDS BrowserNav, FiniteSetTheorems, SequenceTheorems,
        WellFoundedInduction, TLAPS

Lines == 0 .. PAGE_NUM_ITEMS - 1

CursorInv ==
  /\ pos \in Lines /\ pageIdx \in Nat
  /\ \/ Selected < fileCnt
     \/ Selected = fileCnt /\ idEntry = fileCnt
     \/ Playing \/ stray

StrokeInv ==
  /\ currentTouchItem \in TouchLine
  /\ firstTouchedItem \in TouchLine \union {NoItem}

ListInv ==
  /\ fileCnt \in Nat \ {0} /\ pages \in Nat
  /\ settings_mode \in BOOLEAN
  /\ settings_mode => /\ settings_p \in DOMAIN Menu
                      /\ currentDir = Root
  /\ ListCountIsCurrent

(* The saved cursor of each directory above is the item that leads down. *)
DirInv ==
  /\ currentDir \in Tree
  /\ dirLevel = Len(currentDir)
  /\ dirCursorStack \in
       [0 .. StackDepth - 1 -> [pageIdx : 0 .. 255, pos : Lines]]
  /\ \A k \in 0 .. dirLevel - 1 :
       dirCursorStack[k].pos + dirCursorStack[k].pageIdx * PAGE_NUM_ITEMS
         = currentDir[k + 1]

(* The lists on a settings stack, from the first to the one on the screen. *)
IsChain(path, idx, list, stack) ==
  /\ path \in [1 .. idx -> DOMAIN Menu]
  /\ path[1] = settings_root_list
  /\ path[idx] = list
  /\ \A k \in 1 .. idx : Level[path[k]] = k
  /\ \A k \in 1 .. idx - 1 :
       /\ Menu[path[k + 1]][0].next = path[k]
       /\ DOMAIN Menu[path[k]] = 0 .. stack.items[k] - 1
       /\ stack.items[k] \in Nat \ {0}
       /\ stack.pos[k] \in 0 .. stack.items[k] - 1

SettingsInv ==
  /\ DOMAIN settings_stack.pos = StackLevels
  /\ DOMAIN settings_stack.items = StackLevels
  /\ settings_stack = [idx |-> settings_stack.idx, pos |-> settings_stack.pos,
                       items |-> settings_stack.items,
                       name |-> settings_stack.name]
  /\ settings_mode =>
       /\ settings_stack.idx \in 1 .. MAX_SETTING_STACK_LEVEL
       /\ \E path :
            IsChain(path, settings_stack.idx, settings_p, settings_stack)

(* The file a player has is on the list, or one behind its end. *)
PlayInv ==
  /\ main \in MainStates /\ waitExitKey \in ExitKeys /\ idEntry \in Nat
  /\ stray \in BOOLEAN
  /\ FileInUse => idEntry <= fileCnt \/ stray

IInv ==
  /\ CursorInv /\ StrokeInv /\ ListInv /\ DirInv /\ SettingsInv /\ PlayInv
  /\ touchUpdate \in BOOLEAN

-----------------------------------------------------------------------------
(* Arithmetic of pages and lines. *)

(* Highlighting an item by its number highlights that item. *)
LEMMA PageLine ==
  ASSUME NEW id \in Nat
  PROVE  /\ id % PAGE_NUM_ITEMS \in Lines
         /\ id \div PAGE_NUM_ITEMS \in Nat
         /\ (id % PAGE_NUM_ITEMS) + (id \div PAGE_NUM_ITEMS) * PAGE_NUM_ITEMS = id
BY PageAssumption DEF Lines

(* One page back is PAGE_NUM_ITEMS items back. *)
LEMMA PageBefore ==
  ASSUME NEW p \in Nat \ {0}
  PROVE  /\ (p - 1) * PAGE_NUM_ITEMS = p * PAGE_NUM_ITEMS - PAGE_NUM_ITEMS
         /\ p * PAGE_NUM_ITEMS \in Nat
BY PageAssumption

(* The page of an item is not behind the page of a later one. *)
LEMMA PageOrder ==
  ASSUME NEW p \in Nat, NEW l \in Lines, NEW n \in Nat,
         l + p * PAGE_NUM_ITEMS < n
  PROVE  /\ p <= (n - 1) \div PAGE_NUM_ITEMS
         /\ p <= n \div PAGE_NUM_ITEMS
BY PageAssumption DEF Lines

(* The page of an item of a directory fits in the byte it is saved in. *)
LEMMA PageFitsByte ==
  ASSUME NEW p \in Nat, NEW l \in Lines, NEW n \in Nat,
         n <= 256 * PAGE_NUM_ITEMS, l + p * PAGE_NUM_ITEMS < n
  PROVE  p \in 0 .. 255 /\ p % 256 = p
BY PageAssumption DEF Lines

-----------------------------------------------------------------------------
(* The cursor on a list that stays. *)

(* The keys keep the cursor on the list. *)
LEMMA KeysMoveOnList ==
  ASSUME CursorInv, ListInv, LCDCursorUp \/ LCDCursorDown,
         UNCHANGED <<fileCnt, idEntry, main, stray>>
  PROVE  CursorInv'
<1> USE PageAssumption DEF CursorInv, ListInv, Selected, Lines, Playing
<1>1. CASE UNCHANGED cursorVars
  BY <1>1 DEF cursorVars
<1>2. CASE LCDCursorUp /\ pos > 0
  BY <1>2 DEF LCDCursorUp
<1>3. CASE LCDCursorUp /\ pos = 0 /\ pageIdx > 0
  <2>1. (pageIdx - 1) * PAGE_NUM_ITEMS = pageIdx * PAGE_NUM_ITEMS - PAGE_NUM_ITEMS
    BY <1>3, PageBefore
  <2>2. pos' = PAGE_NUM_ITEMS - 1 /\ pageIdx' = pageIdx - 1
    BY <1>3 DEF LCDCursorUp
  <2>3. pageIdx * PAGE_NUM_ITEMS \in Nat
    BY <1>3, PageBefore
  <2> QED BY <1>3, <2>1, <2>2, <2>3
<1>4. CASE LCDCursorDown /\ Selected + 1 < fileCnt /\ pos < PAGE_NUM_ITEMS - 1
  BY <1>4 DEF LCDCursorDown
<1>5. CASE LCDCursorDown /\ Selected + 1 < fileCnt /\ pos >= PAGE_NUM_ITEMS - 1
  <2>1. /\ (pageIdx + 1) - 1 = pageIdx
        /\ pageIdx * PAGE_NUM_ITEMS
             = (pageIdx + 1) * PAGE_NUM_ITEMS - PAGE_NUM_ITEMS
        /\ (pageIdx + 1) * PAGE_NUM_ITEMS \in Nat
    BY PageBefore
  <2>2. 0 + (pageIdx + 1) * PAGE_NUM_ITEMS < fileCnt
    BY <1>5, <2>1
  <2>3. /\ pageIdx + 1 <= (fileCnt - 1) \div PAGE_NUM_ITEMS
        /\ pageIdx + 1 <= fileCnt \div PAGE_NUM_ITEMS
    BY <2>2, PageOrder
  <2>4. ~(pageIdx + 1 > pages)
    BY <2>3 DEF ListCountIsCurrent
  <2>5. pos' = 0 /\ pageIdx' = pageIdx + 1
    BY <1>5, <2>4 DEF LCDCursorDown
  <2> QED BY <2>2, <2>5
<1> QED BY <1>1, <1>2, <1>3, <1>4, <1>5 DEF LCDCursorUp, LCDCursorDown

(* So does a finger, on any line and at any time. *)
LEMMA TouchMovesOnList ==
  ASSUME CursorInv, StrokeInv, ListInv, NEW line \in TouchLine,
         NEW stroke \in BOOLEAN,
         LCDTouchPoint(line, stroke),
         UNCHANGED <<fileCnt, idEntry, main, stray>>
  PROVE  CursorInv' /\ StrokeInv'
<1> DEFINE item == IF pageIdx = 0 /\ line < 0 THEN 0 ELSE line
<1>1. StrokeInv'
  BY PageAssumption DEF LCDTouchPoint, StrokeInv, TouchLine
<1> SUFFICES CursorInv'
  BY <1>1
<1>2. CASE UNCHANGED cursorVars
  BY <1>2 DEF cursorVars, CursorInv, Selected, Lines, Playing
<1>3. CASE LCDCursorUp \/ LCDCursorDown
  BY <1>3, KeysMoveOnList
<1>4. CASE /\ item + pageIdx * PAGE_NUM_ITEMS < fileCnt
           /\ line >= 0 /\ item < PAGE_NUM_ITEMS
           /\ pos' = item /\ UNCHANGED pageIdx
  BY <1>4, PageAssumption DEF CursorInv, Selected, Lines, TouchLine, ListInv
<1> QED BY <1>2, <1>3, <1>4 DEF LCDTouchPoint

-----------------------------------------------------------------------------
(* Moving between directories. *)

LEMMA StackDepthNat == StackDepth \in Nat
BY TreeAssumption

(* A directory other than the root extends its parent by an item of it. *)
LEMMA ParentOf ==
  ASSUME NEW d \in Tree, d # Root
  PROVE  /\ Parent(d) \in Tree
         /\ Len(d) \in Nat \ {0} /\ Len(d) <= StackDepth
         /\ Len(Parent(d)) = Len(d) - 1
         /\ \A k \in 1 .. Len(d) - 1 : Parent(d)[k] = d[k]
         /\ d[Len(d)] \in Nat \ {0} /\ d[Len(d)] < FileCnt[Parent(d)]
<1>1. d \in Seq(Nat) /\ d # <<>>
  BY TreeAssumption DEF Root
<1>2. Len(d) \in Nat \ {0}
  BY <1>1, EmptySeq
<1>3. \A k \in 1 .. Len(d) - 1 : d[k] \in Nat
  BY <1>1, <1>2, ElementOfSeq
<1>4. /\ Len(Parent(d)) = Len(d) - 1
      /\ \A k \in 1 .. Len(d) - 1 : Parent(d)[k] = d[k]
  <2> DEFINE n == Len(d) - 1
  <2>1. 1 \in Int /\ n \in Int /\ n + 1 = Len(d) /\ n >= 0
    BY <1>2
  <2>2. \A k \in 1 .. n : d[k] \in Nat
    BY <1>3
  <2> HIDE DEF n
  <2>3. /\ SubSeq(d, 1, n) \in Seq(Nat)
        /\ Len(SubSeq(d, 1, n)) = IF 1 <= n THEN n - 1 + 1 ELSE 0
        /\ \A k \in 1 .. n - 1 + 1 : SubSeq(d, 1, n)[k] = d[1 + k - 1]
    BY <2>1, <2>2, SubSeqProperties
  <2>4. /\ Len(SubSeq(d, 1, n)) = n
        /\ \A k \in 1 .. n : SubSeq(d, 1, n)[k] = d[k]
    BY <2>1, <2>3
  <2> QED BY <2>4 DEF Parent, n
<1>5. d[Len(d)] \in Nat
  BY <1>1, <1>2
<1> QED BY <1>2, <1>4, <1>5, TreeAssumption

(* The directory behind an item of a directory. *)
LEMMA ChildOf ==
  ASSUME NEW d \in Tree, NEW id \in Nat, Append(d, id) \in Tree
  PROVE  /\ Len(d) \in Nat /\ Len(Append(d, id)) = Len(d) + 1
         /\ Len(d) < StackDepth
         /\ \A k \in 1 .. Len(d) : Append(d, id)[k] = d[k]
         /\ Append(d, id)[Len(d) + 1] = id
         /\ Append(d, id) # Root
         /\ Parent(Append(d, id)) = d
<1>1. d \in Seq(Nat) /\ Append(d, id) \in Seq(Nat)
  BY TreeAssumption
<1>2. /\ Len(d) \in Nat /\ Len(Append(d, id)) = Len(d) + 1
      /\ \A k \in 1 .. Len(d) : Append(d, id)[k] = d[k]
      /\ Append(d, id)[Len(d) + 1] = id
  BY <1>1, AppendProperties
<1>3. Len(d) < StackDepth
  <2>1. \A t \in Tree : Len(t) <= StackDepth
    BY TreeAssumption
  <2>2. Len(Append(d, id)) <= StackDepth
    BY <2>1
  <2> QED BY <1>2, <2>2, StackDepthNat
<1>4. Append(d, id) # Root
  BY <1>2 DEF Root
<1>5. Parent(Append(d, id)) = d
  BY <1>1, <1>2 DEF Parent
<1> QED BY <1>2, <1>3, <1>4, <1>5

(* The list of a directory has its size and its last page. *)
LEMMA FileListInv ==
  ASSUME ListInv, currentDir' \in Tree, makeFileList(currentDir'),
         settings_mode' = FALSE
  PROVE  ListInv'
<1>1. FileCnt[currentDir'] \in Nat \ {0}
  BY TreeAssumption
<1>2. (FileCnt[currentDir'] - 1) \div PAGE_NUM_ITEMS \in Nat
  BY <1>1, PageLine
<1> QED BY <1>1, <1>2 DEF ListInv, ListCountIsCurrent, makeFileList

(* ".." finds the item the directory was opened from. *)
LEMMA ToParentInv ==
  ASSUME ListInv, DirInv, ~settings_mode, settings_mode' = FALSE,
         NEW id, ChangeToParent(id)
  PROVE  CursorInv' /\ ListInv' /\ DirInv'
<1>1. /\ currentDir \in Tree /\ currentDir # Root
      /\ currentDir' = Parent(currentDir)
      /\ dirLevel = Len(currentDir) /\ dirLevel' = dirLevel - 1
      /\ UNCHANGED dirCursorStack
  BY DEF DirInv, ChangeToParent
<1>2. /\ currentDir' \in Tree
      /\ dirLevel \in Nat \ {0} /\ dirLevel <= StackDepth
      /\ dirLevel' = Len(currentDir')
      /\ \A k \in 1 .. dirLevel - 1 : currentDir'[k] = currentDir[k]
      /\ currentDir[dirLevel] \in Nat
      /\ currentDir[dirLevel] < FileCnt[currentDir']
  BY <1>1, ParentOf
<1>3. DirInv'
  BY <1>1, <1>2 DEF DirInv, Lines
<1>4. ListInv'
  BY <1>2, FileListInv DEF ChangeToParent
<1>5. /\ pageIdx' = dirCursorStack[dirLevel'].pageIdx
      /\ pos' = dirCursorStack[dirLevel'].pos
      /\ fileCnt' = FileCnt[currentDir']
  BY DEF ChangeToParent, makeFileList
<1>6. /\ dirLevel' \in 0 .. StackDepth - 1 /\ dirLevel' \in 0 .. dirLevel - 1
      /\ dirLevel' + 1 = dirLevel
  BY <1>1, <1>2, StackDepthNat
<1>7. pos' \in Lines /\ pageIdx' \in Nat
  <2>1. dirCursorStack[dirLevel'] \in [pageIdx : 0 .. 255, pos : Lines]
    BY <1>6 DEF DirInv
  <2> QED BY <1>5, <2>1
<1>8. Selected' = currentDir[dirLevel]
  BY <1>5, <1>6 DEF DirInv, Selected
<1> QED BY <1>2, <1>3, <1>4, <1>5, <1>7, <1>8 DEF CursorInv, Lines

(* Opening a subdirectory saves the highlighted item whole. *)
LEMMA ToChildInv ==
  ASSUME CursorInv, ListInv, DirInv, ~settings_mode, settings_mode' = FALSE,
         ChangeToChild(Selected), Selected < fileCnt
  PROVE  CursorInv' /\ ListInv' /\ DirInv'
<1> DEFINE child == Append(currentDir, Selected)
<1>1. /\ currentDir \in Tree /\ child \in Tree /\ currentDir' = child
      /\ dirLevel = Len(currentDir) /\ dirLevel' = dirLevel + 1
      /\ dirCursorStack' =
           [dirCursorStack EXCEPT ![dirLevel] =
              [pageIdx |-> pageIdx % 256, pos |-> pos]]
      /\ pos' = 0 /\ pageIdx' = 0
  BY DEF DirInv, ChangeToChild
<1>2. pos \in Lines /\ pageIdx \in Nat /\ Selected \in Nat
  <2>1. pageIdx * PAGE_NUM_ITEMS \in Nat
    BY PageAssumption DEF CursorInv
  <2> QED BY <2>1, PageAssumption DEF CursorInv, Lines, Selected
<1>3. /\ dirLevel \in Nat /\ dirLevel < StackDepth
      /\ dirLevel' = Len(child)
      /\ \A k \in 1 .. dirLevel : child[k] = currentDir[k]
      /\ child[dirLevel + 1] = Selected
  BY <1>1, <1>2, ChildOf
<1>4. pageIdx \in 0 .. 255 /\ pageIdx % 256 = pageIdx
  <2>1. fileCnt = FileCnt[currentDir]
    BY DEF ListInv, ListCountIsCurrent
  <2>2. fileCnt \in Nat /\ fileCnt <= 256 * PAGE_NUM_ITEMS
    BY <1>1, <2>1, TreeAssumption DEF ListInv
  <2> QED BY <1>2, <2>2, PageFitsByte DEF Selected
<1>5. DirInv'
  <2>1. dirCursorStack' \in
          [0 .. StackDepth - 1 -> [pageIdx : 0 .. 255, pos : Lines]]
    <3>1. [pageIdx |-> pageIdx % 256, pos |-> pos]
             \in [pageIdx : 0 .. 255, pos : Lines]
      BY <1>2, <1>4
    <3>2. dirCursorStack \in
            [0 .. StackDepth - 1 -> [pageIdx : 0 .. 255, pos : Lines]]
      BY DEF DirInv
    <3> QED BY <1>1, <3>1, <3>2
  <2>2. \A k \in 0 .. dirLevel - 1 : dirCursorStack'[k] = dirCursorStack[k]
    BY <1>1, <1>3, TreeAssumption DEF DirInv
  <2>3. dirCursorStack'[dirLevel] = [pageIdx |-> pageIdx, pos |-> pos]
    BY <1>1, <1>3, <1>4, TreeAssumption DEF DirInv
  <2>4. \A k \in 0 .. dirLevel' - 1 :
          dirCursorStack'[k].pos + dirCursorStack'[k].pageIdx * PAGE_NUM_ITEMS
            = currentDir'[k + 1]
    BY <1>1, <1>3, <2>2, <2>3 DEF DirInv, Selected
  <2> QED BY <1>1, <1>3, <2>1, <2>4 DEF DirInv, Lines
<1>6. ListInv'
  BY <1>1, FileListInv DEF ChangeToChild
<1>7. CursorInv'
  BY <1>1, <1>6, PageAssumption DEF CursorInv, ListInv, Lines, Selected
<1> QED BY <1>5, <1>6, <1>7

-----------------------------------------------------------------------------
(* Moving between the settings lists. *)

(* A list has its entries numbered from 0 and at least "..". *)
LEMMA MenuSize ==
  ASSUME NEW l \in DOMAIN Menu
  PROVE  /\ Cardinality(DOMAIN Menu[l]) \in Nat \ {0}
         /\ DOMAIN Menu[l] = 0 .. Cardinality(DOMAIN Menu[l]) - 1
<1>1. PICK last \in DOMAIN Menu[l] : DOMAIN Menu[l] = 0 .. last
  BY MenuAssumption
<1>2. last \in Nat
  BY <1>1, MenuAssumption
<1>3. Cardinality(0 .. last) = last + 1
  BY <1>2, FS_Interval
<1> QED BY <1>1, <1>2, <1>3

(* What the tables say of an entry that opens a list. *)
LEMMA MenuEntry ==
  ASSUME NEW l \in DOMAIN Menu, NEW i \in DOMAIN Menu[l],
         i # 0, Menu[l][i].next # NULL
  PROVE  /\ Menu[l][i].next \in DOMAIN Menu
         /\ Menu[l][i].itemCnt \in Nat \ {0}
         /\ DOMAIN Menu[Menu[l][i].next] = 0 .. Menu[l][i].itemCnt - 1
         /\ Menu[Menu[l][i].next][0].next = l
         /\ Level[Menu[l][i].next] = Level[l] + 1
<1>1. /\ Menu[l][i].next \in DOMAIN Menu
      /\ Menu[l][i].itemCnt \in Nat
      /\ DOMAIN Menu[Menu[l][i].next] = 0 .. Menu[l][i].itemCnt - 1
      /\ Menu[Menu[l][i].next][0].next = l
      /\ Level[Menu[l][i].next] = Level[l] + 1
  BY MenuAssumption
<1>2. 0 \in DOMAIN Menu[Menu[l][i].next]
  BY <1>1, MenuSize
<1> QED BY <1>1, <1>2

(* Every list is shown with its size, the cursor within it. *)
LEMMA ShowListInv ==
  ASSUME NEW l \in DOMAIN Menu, NEW n \in Nat \ {0}, NEW name,
         NEW id \in 0 .. n - 1,
         DOMAIN Menu[l] = 0 .. n - 1,
         ShowList(l, n, name), MoveTo(id),
         settings_mode' = TRUE, currentDir' = Root
  PROVE  ListInv' /\ CursorInv'
<1>1. n \div PAGE_NUM_ITEMS \in Nat
  BY PageLine
<1>2. ListInv'
  BY <1>1 DEF ListInv, ListCountIsCurrent, ShowList
<1>3. pos' \in Lines /\ pageIdx' \in Nat /\ Selected' = id
  BY PageLine DEF MoveTo, Selected
<1> QED BY <1>2, <1>3 DEF CursorInv, ShowList, Lines

LEMMA OpenSettingsInv ==
  ASSUME IInv, NEW id, OpenSettings(id)
  PROVE  CursorInv' /\ ListInv' /\ DirInv' /\ SettingsInv'
<1> DEFINE l == settings_root_list
           n == Cardinality(DOMAIN Menu[l])
<1>1. l \in DOMAIN Menu /\ Level[l] = 1
  BY MenuAssumption
<1>2. n \in Nat \ {0} /\ DOMAIN Menu[l] = 0 .. n - 1 /\ 0 \in 0 .. n - 1
  BY <1>1, MenuSize
<1>3. /\ settings_mode' = TRUE /\ currentDir' = Root /\ currentDir = Root
      /\ UNCHANGED dirVars /\ ShowList(l, n, SettingsName) /\ MoveTo(0)
      /\ settings_stack' = [settings_stack EXCEPT !.idx = 1]
      /\ settings_p' = l
  BY DEF OpenSettings, dirVars, ShowList
<1>4. ListInv' /\ CursorInv'
  <2> HIDE DEF l, n
  <2> QED BY <1>1, <1>2, <1>3, ShowListInv
<1>5. DirInv'
  BY <1>3 DEF IInv, DirInv, dirVars, Lines
<1>6. SettingsInv'
  <2>1. /\ settings_stack'.idx = 1
        /\ settings_stack'.pos = settings_stack.pos
        /\ settings_stack'.items = settings_stack.items
        /\ settings_stack'.name = settings_stack.name
        /\ settings_stack' = [idx |-> 1, pos |-> settings_stack.pos,
                              items |-> settings_stack.items,
                              name |-> settings_stack.name]
    BY <1>3 DEF IInv, SettingsInv
  <2>2. IsChain([k \in 1 .. 1 |-> l], 1, settings_p', settings_stack')
    BY <1>1, <1>3, <2>1 DEF IsChain
  <2>3. 1 \in 1 .. MAX_SETTING_STACK_LEVEL
    BY MenuAssumption
  <2> QED BY <2>1, <2>2, <2>3 DEF IInv, SettingsInv, StackLevels
<1> QED BY <1>4, <1>5, <1>6

LEMMA LeaveSettingsInv ==
  ASSUME IInv, NEW id, LeaveSettings(id)
  PROVE  CursorInv' /\ ListInv' /\ DirInv' /\ SettingsInv'
<1>1. /\ currentDir = Root /\ currentDir' = Root
      /\ makeFileList(currentDir') /\ settings_mode' = FALSE
      /\ MoveTo(0)
      /\ UNCHANGED <<settings_stack, dirLevel, dirCursorStack>>
  BY DEF LeaveSettings, IInv, ListInv
<1>2. Root \in Tree
  BY TreeAssumption
<1>3. ListInv'
  BY <1>1, <1>2, FileListInv DEF IInv
<1>4. pos' \in Lines /\ pageIdx' \in Nat /\ Selected' = 0
  BY <1>1, PageLine DEF MoveTo, Selected
<1>5. CursorInv'
  BY <1>3, <1>4 DEF CursorInv, ListInv, Lines
<1>6. DirInv'
  BY <1>1 DEF IInv, DirInv, Lines
<1>7. SettingsInv'
  BY <1>1 DEF IInv, SettingsInv, StackLevels
<1> QED BY <1>3, <1>5, <1>6, <1>7

(* ".." finds the list above, its size and the entry that was opened. *)
LEMMA SettingsBackInv ==
  ASSUME IInv, NEW id, SettingsBack(id)
  PROVE  CursorInv' /\ ListInv' /\ DirInv' /\ SettingsInv'
<1> DEFINE top == settings_stack.idx - 1
           l == Menu[settings_p][0].next
           n == settings_stack.items[top]
           back == settings_stack.pos[top]
<1>1. /\ settings_mode /\ l # NULL /\ settings_mode' = TRUE
      /\ settings_stack' = [settings_stack EXCEPT !.idx = top]
      /\ ShowList(l, n, settings_stack.name[top])
      /\ MoveTo(back)
      /\ UNCHANGED dirVars
      /\ settings_p' = l
  BY DEF SettingsBack, ShowList, IInv, ListInv
<1>2. PICK path : IsChain(path, settings_stack.idx, settings_p, settings_stack)
  BY <1>1 DEF IInv, SettingsInv
<1>3. settings_stack.idx \in 1 .. MAX_SETTING_STACK_LEVEL
  BY <1>1 DEF IInv, SettingsInv
<1>4. settings_stack.idx # 1
  <2>1. Menu[settings_root_list][0].next = NULL
    BY MenuAssumption
  <2> QED BY <1>1, <1>2, <2>1 DEF IsChain
<1>5. MAX_SETTING_STACK_LEVEL \in Nat
  BY MenuAssumption
<1>6. /\ top \in 1 .. settings_stack.idx - 1
      /\ top \in 1 .. MAX_SETTING_STACK_LEVEL
      /\ top + 1 = settings_stack.idx
  BY <1>3, <1>4, <1>5
<1>7. /\ path[top] = l /\ l \in DOMAIN Menu
      /\ DOMAIN Menu[l] = 0 .. n - 1 /\ n \in Nat \ {0}
      /\ back \in 0 .. n - 1
  <2>1. path[top] \in DOMAIN Menu
    BY <1>2, <1>3, <1>5, <1>6 DEF IsChain
  <2>2. path[top + 1] = settings_p
    BY <1>2, <1>6 DEF IsChain
  <2>3. /\ Menu[path[top + 1]][0].next = path[top]
        /\ DOMAIN Menu[path[top]] = 0 .. n - 1 /\ n \in Nat \ {0}
        /\ back \in 0 .. n - 1
    BY <1>2, <1>6 DEF IsChain
  <2> QED BY <2>1, <2>2, <2>3
<1>8. currentDir' = Root
  BY <1>1 DEF IInv, ListInv, dirVars
<1>9. ListInv' /\ CursorInv'
  <2> HIDE DEF l, n, back
  <2> QED BY <1>1, <1>7, <1>8, ShowListInv
<1>10. DirInv'
  BY <1>1 DEF IInv, DirInv, dirVars, Lines
<1>11. SettingsInv'
  <2>1. settings_stack' = [idx |-> top, pos |-> settings_stack.pos,
                           items |-> settings_stack.items,
                           name |-> settings_stack.name]
    BY <1>1 DEF IInv, SettingsInv
  <2>2. /\ settings_stack'.idx = top
        /\ settings_stack'.pos = settings_stack.pos
        /\ settings_stack'.items = settings_stack.items
        /\ settings_stack'.name = settings_stack.name
    BY <2>1
  <2> DEFINE above == [k \in 1 .. top |-> path[k]]
  <2>3. IsChain(above, top, settings_p', settings_stack')
    <3>1. \A k \in 1 .. top : k \in 1 .. settings_stack.idx
      BY <1>3, <1>5, <1>6
    <3>2. above \in [1 .. top -> DOMAIN Menu]
      BY <3>1, <1>2 DEF IsChain
    <3>3. above[1] = settings_root_list /\ above[top] = l
      BY <1>2, <1>6, <1>7 DEF IsChain
    <3>4. \A k \in 1 .. top : Level[above[k]] = k
      BY <3>1, <1>2 DEF IsChain
    <3>5. \A k \in 1 .. top - 1 :
            /\ k \in 1 .. settings_stack.idx - 1
            /\ k \in 1 .. top /\ k + 1 \in 1 .. top
      BY <1>3, <1>5, <1>6
    <3>6. \A k \in 1 .. top - 1 :
            /\ Menu[above[k + 1]][0].next = above[k]
            /\ DOMAIN Menu[above[k]] = 0 .. settings_stack.items[k] - 1
            /\ settings_stack.items[k] \in Nat \ {0}
            /\ settings_stack.pos[k] \in 0 .. settings_stack.items[k] - 1
      BY <3>5, <1>2 DEF IsChain
    <3> HIDE DEF above, top, l
    <3> QED BY <1>1, <2>2, <3>2, <3>3, <3>4, <3>6 DEF IsChain
  <2> HIDE DEF above, top
  <2> QED BY <2>1, <2>2, <2>3, <1>6 DEF IInv, SettingsInv, StackLevels
<1> QED BY <1>9, <1>10, <1>11

(* Opening a list saves the way back, and the stack has room for it. *)
LEMMA SettingsForwardInv ==
  ASSUME IInv, NEW id \in 0 .. fileCnt - 1, SettingsForward(id)
  PROVE  CursorInv' /\ ListInv' /\ DirInv' /\ SettingsInv'
<1> DEFINE top == settings_stack.idx
           l == settings_p
           next == Menu[l][id].next
           n == Menu[l][id].itemCnt
           pos1 == [settings_stack.pos EXCEPT ![top] = id]
           items1 == [settings_stack.items EXCEPT ![top] = fileCnt]
           name1 == [settings_stack.name EXCEPT ![top] = currentDirName]
           stack1 == [idx |-> top + 1, pos |-> pos1, items |-> items1,
                      name |-> name1]
<1>1. /\ settings_mode /\ id # 0 /\ next # NULL /\ settings_mode' = TRUE
      /\ settings_stack' = stack1
      /\ ShowList(next, n, EntryName(l, id))
      /\ MoveTo(0)
      /\ UNCHANGED dirVars
      /\ settings_p' = next
  BY DEF SettingsForward, ShowList, IInv, ListInv
<1>2. /\ l \in DOMAIN Menu /\ DOMAIN Menu[l] = 0 .. fileCnt - 1
      /\ fileCnt \in Nat \ {0} /\ currentDir = Root
  BY <1>1 DEF IInv, ListInv, ListCountIsCurrent
<1>3. /\ next \in DOMAIN Menu /\ n \in Nat \ {0}
      /\ DOMAIN Menu[next] = 0 .. n - 1
      /\ Menu[next][0].next = l
      /\ Level[next] = Level[l] + 1
  BY <1>1, <1>2, MenuEntry
<1>4. PICK path : IsChain(path, top, l, settings_stack)
  BY <1>1 DEF IInv, SettingsInv
<1>5. /\ top \in 1 .. MAX_SETTING_STACK_LEVEL
      /\ MAX_SETTING_STACK_LEVEL \in Nat
      /\ DOMAIN settings_stack.pos = StackLevels
      /\ DOMAIN settings_stack.items = StackLevels
  BY <1>1, MenuAssumption DEF IInv, SettingsInv
<1>6. Level[next] = top + 1 /\ top + 1 \in 1 .. MAX_SETTING_STACK_LEVEL
  <2>1. Level[l] = top
    BY <1>4, <1>5 DEF IsChain
  <2>2. Level[next] \in 1 .. MAX_SETTING_STACK_LEVEL
    BY <1>3, MenuAssumption
  <2> QED BY <2>1, <2>2, <1>3
<1>7. top \in StackLevels
  BY <1>5, <1>6 DEF StackLevels
<1>8. currentDir' = Root
  BY <1>1, <1>2 DEF dirVars
<1>9. ListInv' /\ CursorInv'
  <2>1. 0 \in 0 .. n - 1
    BY <1>3
  <2> HIDE DEF l, n, next
  <2> QED BY <1>1, <1>3, <1>8, <2>1, ShowListInv
<1>10. DirInv'
  BY <1>1 DEF IInv, DirInv, dirVars, Lines
<1>11. SettingsInv'
  <2> DEFINE below == [k \in 1 .. top + 1 |-> IF k = top + 1 THEN next ELSE path[k]]
  <2>1. \A k \in 1 .. top : k # top + 1 /\ k \in 1 .. top + 1
    BY <1>5
  <2>2. below \in [1 .. top + 1 -> DOMAIN Menu]
    BY <1>3, <1>4, <1>5 DEF IsChain
  <2>3. below[1] = settings_root_list /\ below[top + 1] = next
    BY <1>4, <1>5 DEF IsChain
  <2>4. \A k \in 1 .. top + 1 : Level[below[k]] = k
    BY <1>4, <1>5, <1>6 DEF IsChain
  <2>5. /\ pos1[top] = id /\ items1[top] = fileCnt
        /\ \A k \in 1 .. top - 1 : /\ pos1[k] = settings_stack.pos[k]
                                   /\ items1[k] = settings_stack.items[k]
    BY <1>5, <1>7 DEF StackLevels
  <2>6. \A k \in 1 .. top :
          /\ Menu[below[k + 1]][0].next = below[k]
          /\ DOMAIN Menu[below[k]] = 0 .. items1[k] - 1
          /\ items1[k] \in Nat \ {0}
          /\ pos1[k] \in 0 .. items1[k] - 1
    <3> SUFFICES ASSUME NEW k \in 1 .. top
                 PROVE  /\ Menu[below[k + 1]][0].next = below[k]
                        /\ DOMAIN Menu[below[k]] = 0 .. items1[k] - 1
                        /\ items1[k] \in Nat \ {0}
                        /\ pos1[k] \in 0 .. items1[k] - 1
      OBVIOUS
    <3>1. CASE k = top
      <4>1. below[k] = l /\ below[k + 1] = next
        BY <3>1, <1>4, <1>5 DEF IsChain
      <4> QED BY <3>1, <4>1, <1>2, <1>3, <2>5
    <3>2. CASE k # top
      <4>1. k \in 1 .. top - 1 /\ k + 1 # top + 1 /\ k + 1 \in 1 .. top + 1
        BY <3>2, <1>5
      <4>2. below[k] = path[k] /\ below[k + 1] = path[k + 1]
        BY <4>1, <2>1
      <4> QED BY <4>1, <4>2, <1>4, <2>5 DEF IsChain
    <3> QED BY <3>1, <3>2
  <2>7. (top + 1) - 1 = top
    BY <1>5
  <2>8. IsChain(below, top + 1, settings_p', settings_stack')
    <3>1. settings_stack'.pos = pos1 /\ settings_stack'.items = items1
      BY <1>1
    <3> HIDE DEF below, top, pos1, items1, next
    <3> QED BY <1>1, <2>2, <2>3, <2>4, <2>6, <2>7, <3>1 DEF IsChain
  <2>9. /\ settings_stack'.idx = top + 1 /\ settings_stack'.pos = pos1
        /\ settings_stack'.items = items1 /\ settings_stack'.name = name1
        /\ settings_stack' = stack1
    BY <1>1
  <2>10. DOMAIN pos1 = StackLevels /\ DOMAIN items1 = StackLevels
    BY <1>5
  <2> HIDE DEF below, top, pos1, items1, name1
  <2> QED BY <1>6, <2>8, <2>9, <2>10 DEF SettingsInv, StackLevels
<1> QED BY <1>9, <1>10, <1>11

-----------------------------------------------------------------------------
(* The handlers and the main loop. *)

LEMMA SelectedNat == CursorInv => Selected \in Nat
<1>1. CursorInv => pageIdx * PAGE_NUM_ITEMS \in Nat
  BY PageAssumption DEF CursorInv
<1> QED BY <1>1, PageAssumption DEF CursorInv, Selected, Lines

(* A file stays on its list until an Enter opens another list. *)
LEMMA EnterPlayInv ==
  ASSUME PlayInv, fileCnt \in Nat, NEW id \in Nat, NEW repeat,
         Enter(id, repeat)
  PROVE  PlayInv'
<1>1. /\ stray' = (stray \/ FileInUse) /\ main' = main
      /\ id < fileCnt
  BY DEF Enter
<1>2. stray' \in BOOLEAN
  BY <1>1 DEF PlayInv, FileInUse, Playing
<1>3. CASE UNCHANGED <<waitExitKey, idEntry>>
  BY <1>1, <1>2, <1>3 DEF PlayInv, FileInUse, Playing, MainStates, ExitKeys
<1>4. CASE EnterFile(id, repeat) /\ idEntry' = id
  BY <1>1, <1>2, <1>4
     DEF PlayInv, FileInUse, Playing, MainStates, ExitKeys, EnterFile, listVars
<1> QED BY <1>3, <1>4 DEF Enter, EnterSettings, EnterDirectory, EnterFile

LEMMA EnterInv ==
  ASSUME IInv, NEW id \in {0, Selected}, NEW repeat, Enter(id, repeat)
  PROVE  CursorInv' /\ ListInv' /\ DirInv' /\ SettingsInv' /\ PlayInv'
<1>1. id \in Nat /\ id < fileCnt
  BY SelectedNat DEF IInv, Enter
<1>2. PlayInv'
  BY <1>1, EnterPlayInv DEF IInv, ListInv
<1>3. CASE OpenSettings(id)
  BY <1>2, <1>3, OpenSettingsInv
<1>4. CASE LeaveSettings(id)
  BY <1>2, <1>4, LeaveSettingsInv
<1>5. CASE SettingsBack(id)
  BY <1>2, <1>5, SettingsBackInv
<1>6. CASE SettingsForward(id)
  <2>1. id \in 0 .. fileCnt - 1
    BY <1>1 DEF IInv, ListInv
  <2> QED BY <1>2, <1>6, <2>1, SettingsForwardInv
<1>7. main' = main /\ (stray => stray')
  BY DEF Enter
<1>8. CASE SettingsChoose(id) \/ EnterFile(id, repeat)
  <2>1. UNCHANGED <<pos, pageIdx, pages, fileCnt, dirVars, settingsVars>>
    BY <1>8 DEF SettingsChoose, EnterFile, listVars, cursorVars
  <2>2. Selected < fileCnt \/ idEntry' = idEntry
    BY <1>1, <1>8 DEF SettingsChoose, EnterFile, Enter, EnterSettings,
                     EnterDirectory
  <2>6. CursorInv'
    BY <2>1, <2>2, <1>7 DEF IInv, CursorInv, Selected, Lines, Playing
  <2>3. ListInv'
    BY <2>1 DEF IInv, ListInv, ListCountIsCurrent, dirVars, settingsVars
  <2>4. DirInv'
    BY <2>1 DEF IInv, DirInv, dirVars, Lines
  <2>5. SettingsInv'
    BY <2>1 DEF IInv, SettingsInv, settingsVars, StackLevels
  <2> QED BY <1>2, <2>6, <2>3, <2>4, <2>5
<1>9. CASE EnterDirectory(id)
  <2>1. /\ ~settings_mode /\ settings_mode' = FALSE
        /\ UNCHANGED settingsVars
    BY <1>9 DEF EnterDirectory, settingsVars, IInv, ListInv
  <2>2. SettingsInv'
    BY <2>1 DEF IInv, SettingsInv, settingsVars, StackLevels
  <2>3. CASE ChangeToParent(id)
    BY <1>2, <2>1, <2>2, <2>3, ToParentInv DEF IInv
  <2>4. CASE ChangeToChild(id)
    <3>1. currentDir \in Tree /\ Append(currentDir, id) \in Tree
      BY <2>4 DEF ChangeToChild, IInv, DirInv
    <3>2. id # 0
      <4> DEFINE child == Append(currentDir, id)
      <4>1. /\ child # Root
            /\ Len(currentDir) \in Nat /\ Len(child) = Len(currentDir) + 1
            /\ child[Len(currentDir) + 1] = id
        BY <3>1, <1>1, ChildOf
      <4>2. child[Len(child)] # 0
        BY <3>1, <4>1, ParentOf
      <4> QED BY <4>1, <4>2
    <3>3. ChangeToChild(Selected)
      BY <2>4, <3>2
    <3> QED BY <1>1, <1>2, <2>1, <2>2, <3>2, <3>3, ToChildInv DEF IInv
  <2> QED BY <1>9, <2>3, <2>4 DEF EnterDirectory, changeDir
<1> QED BY <1>3, <1>4, <1>5, <1>6, <1>8, <1>9 DEF Enter, EnterSettings

LEMMA InitInv == Init => IInv
<1> SUFFICES ASSUME Init PROVE IInv
  OBVIOUS
<1> USE PageAssumption DEF Init, DirInit, SettingsInit
<1>1. FileCnt[Root] \in Nat \ {0} /\ Root \in Tree
  BY TreeAssumption
<1>2. CursorInv /\ StrokeInv
  BY <1>1 DEF CursorInv, StrokeInv, Selected, Lines, TouchLine
<1>3. ListInv
  <2>1. FileCnt[Root] - 1 \in Nat
    BY <1>1
  <2>2. (FileCnt[Root] - 1) \div PAGE_NUM_ITEMS \in Nat
    BY <2>1, PageLine
  <2> QED BY <1>1, <2>2 DEF ListInv, ListCountIsCurrent
<1>4. DirInv
  <2>1. Len(Root) = 0
    BY DEF Root
  <2>2. dirCursorStack \in
          [0 .. StackDepth - 1 -> [pageIdx : 0 .. 255, pos : Lines]]
    BY DEF Lines
  <2> QED BY <1>1, <2>1, <2>2 DEF DirInv
<1>5. SettingsInv
  BY DEF SettingsInv
<1>6. PlayInv
  BY DEF PlayInv, MainStates, ExitKeys, FileInUse, Playing
<1> QED BY <1>2, <1>3, <1>4, <1>5, <1>6 DEF IInv

(* A step that leaves the list and the cursor alone. *)
LEMMA SameListInv ==
  ASSUME IInv, UNCHANGED <<cursorVars, pages, fileCnt, dirVars, settingsVars>>,
         stray' = stray, Playing => Playing', idEntry' = idEntry \/ Playing'
  PROVE  CursorInv' /\ ListInv' /\ DirInv' /\ SettingsInv'
<1>1. CursorInv'
  BY DEF IInv, CursorInv, cursorVars, Selected, Lines
<1>2. ListInv'
  BY DEF IInv, ListInv, ListCountIsCurrent, dirVars, settingsVars
<1>3. DirInv'
  BY DEF IInv, DirInv, dirVars, Lines
<1>4. SettingsInv'
  BY DEF IInv, SettingsInv, settingsVars, StackLevels
<1> QED BY <1>1, <1>2, <1>3, <1>4

(* A step that moves the cursor on the list. *)
LEMMA SameDirsInv ==
  ASSUME IInv, UNCHANGED <<pages, fileCnt, dirVars, settingsVars>>
  PROVE  ListInv' /\ DirInv' /\ SettingsInv'
<1>1. ListInv'
  BY DEF IInv, ListInv, ListCountIsCurrent, dirVars, settingsVars
<1>2. DirInv'
  BY DEF IInv, DirInv, dirVars, Lines
<1>3. SettingsInv'
  BY DEF IInv, SettingsInv, settingsVars, StackLevels
<1> QED BY <1>1, <1>2, <1>3

LEMMA SerialInv == IInv /\ SerialKey => IInv'
<1> SUFFICES ASSUME IInv, SerialKey PROVE IInv'
  OBVIOUS
<1>1. CASE waitExitKey # "none" /\ ExitKey
  <2>1. /\ UNCHANGED <<cursorVars, pages, fileCnt, dirVars, settingsVars>>
        /\ UNCHANGED <<strokeVars, touchUpdate, main, idEntry, stray>>
        /\ waitExitKey' \in ExitKeys
    BY <1>1 DEF ExitKey, listVars, touchVars
  <2>2. StrokeInv' /\ touchUpdate' \in BOOLEAN
    BY <2>1 DEF IInv, StrokeInv, strokeVars, TouchLine, NoItem
  <2>3. PlayInv'
    BY <2>1, <1>1 DEF IInv, PlayInv, FileInUse, Playing, MainStates, ExitKeys
  <2> QED BY <2>1, <2>2, <2>3, SameListInv DEF IInv, Playing
<1>2. CASE CursorKey
  <2>1. /\ LCDCursorUp \/ LCDCursorDown
        /\ UNCHANGED <<pages, fileCnt, dirVars, settingsVars>>
        /\ UNCHANGED <<strokeVars, touchUpdate, main, waitExitKey, idEntry, stray>>
    BY <1>2 DEF CursorKey, ListUnchanged, playVars
  <2>2. CursorInv'
    BY <2>1, KeysMoveOnList DEF IInv
  <2>3. StrokeInv' /\ touchUpdate' \in BOOLEAN
    BY <2>1 DEF IInv, StrokeInv, strokeVars, TouchLine, NoItem
  <2>4. PlayInv'
    BY <2>1 DEF IInv, PlayInv, FileInUse, Playing, MainStates, ExitKeys
  <2> QED BY <2>1, <2>2, <2>3, <2>4, SameDirsInv DEF IInv
<1>3. CASE EnterKey
  <2>1. StrokeInv' /\ touchUpdate' \in BOOLEAN
    BY <1>3 DEF EnterKey, IInv, StrokeInv, strokeVars, TouchLine, NoItem
  <2>2. PICK id \in {0, Selected} : Enter(id, touchRepeat)
    BY <1>3 DEF EnterKey
  <2> QED BY <2>1, <2>2, EnterInv DEF IInv
<1> QED BY <1>1, <1>2, <1>3 DEF SerialKey

LEMMA PenInv == IInv /\ (PenDown \/ PenSample \/ PenUp) => IInv'
<1> SUFFICES ASSUME IInv, PenDown \/ PenSample \/ PenUp PROVE IInv'
  OBVIOUS
<1>1. /\ UNCHANGED <<pages, fileCnt, dirVars, settingsVars>>
      /\ UNCHANGED <<main, waitExitKey, idEntry, stray>>
  BY DEF PenDown, PenSample, PenUp, ListUnchanged, listVars, playVars
<1>2. PlayInv'
  BY <1>1 DEF IInv, PlayInv, FileInUse, Playing, MainStates, ExitKeys
<1>3. touchUpdate' \in BOOLEAN
  BY DEF IInv, PenDown, PenSample, PenUp
<1>4. CASE UNCHANGED <<cursorVars, strokeVars>>
  <2>1. StrokeInv'
    BY <1>4 DEF IInv, StrokeInv, strokeVars, TouchLine, NoItem
  <2>2. CursorInv'
    BY <1>1, <1>4, SameListInv DEF Playing
  <2> QED BY <1>1, <1>2, <1>3, <2>1, <2>2, SameDirsInv DEF IInv
<1>5. CASE \E line \in TouchLine : LCDTouchPoint(line, touchUpdate)
  <2>1. CursorInv' /\ StrokeInv'
    BY <1>1, <1>5, TouchMovesOnList DEF IInv
  <2> QED BY <1>1, <1>2, <1>3, <2>1, SameDirsInv DEF IInv
<1> QED BY <1>4, <1>5 DEF PenDown, PenSample, PenUp, listVars

LEMMA Tim9Inv == IInv /\ Tim9Tick => IInv'
<1> SUFFICES ASSUME IInv, Tim9Tick PROVE IInv'
  OBVIOUS
<1>1. touchUpdate' \in BOOLEAN
  BY DEF Tim9Tick
<1>2. CASE UNCHANGED <<listVars, strokeVars, playVars, stray>>
  <2>1. StrokeInv'
    <3>1. UNCHANGED strokeVars
      BY <1>2
    <3> QED BY <3>1 DEF IInv, StrokeInv, strokeVars, TouchLine, NoItem
  <2>2. PlayInv'
    BY <1>2 DEF IInv, PlayInv, FileInUse, Playing, MainStates, ExitKeys, playVars,
                listVars
  <2> QED BY <1>1, <1>2, <2>1, <2>2, SameListInv
         DEF IInv, listVars, playVars, Playing
<1>3. CASE /\ Enter(Selected, FALSE)
           /\ currentTouchItem' = 0 /\ firstTouchedItem' = NoItem
  <2>1. StrokeInv'
    BY <1>3, PageAssumption DEF StrokeInv, TouchLine, NoItem
  <2> QED BY <1>1, <1>3, <2>1, EnterInv DEF IInv
<1> QED BY <1>2, <1>3 DEF Tim9Tick, LCDTouchReleased

(* A player returns to an item of its list. *)
LEMMA MainInv == IInv /\ Main => IInv'
<1> SUFFICES ASSUME IInv, Main PROVE IInv'
  OBVIOUS
<1>1. CASE MassStorageLoop
  <2>1. UNCHANGED <<cursorVars, pages, fileCnt, dirVars, settingsVars,
                    strokeVars, touchUpdate, main, waitExitKey, idEntry, stray>>
    BY <1>1 DEF MassStorageLoop, vars, listVars, playVars, touchVars
  <2>2. StrokeInv' /\ PlayInv' /\ touchUpdate' \in BOOLEAN
    BY <2>1 DEF IInv, StrokeInv, strokeVars, TouchLine, NoItem, PlayInv,
                FileInUse, Playing, MainStates, ExitKeys
  <2> QED BY <2>1, <2>2, SameListInv DEF IInv, Playing
<1>2. CASE MainUnchanged
  <2>1. /\ UNCHANGED <<pages, fileCnt, dirVars, settingsVars>>
        /\ UNCHANGED <<strokeVars, touchUpdate, stray>>
    BY <1>2 DEF MainUnchanged
  <2>2. StrokeInv' /\ touchUpdate' \in BOOLEAN
    BY <2>1 DEF IInv, StrokeInv, strokeVars, TouchLine, NoItem
  <2>3. fileCnt \in Nat \ {0} /\ idEntry \in Nat
    BY DEF IInv, ListInv, PlayInv
  <2>4. idEntry' \in NextEntry /\ FileInUse =>
          idEntry' \in Nat /\ (idEntry' <= fileCnt \/ stray)
    BY <2>3 DEF NextEntry, IInv, PlayInv
  <2>5. PlayInv'
    <3>1. CASE PlayOn
      BY <2>1, <2>4, <3>1 DEF PlayOn, IInv, PlayInv, FileInUse, Playing, MainStates, ExitKeys
    <3>2. CASE LeavePlayer
      BY <2>1, <2>4, <3>2
         DEF LeavePlayer, IInv, PlayInv, FileInUse, Playing, MainStates, ExitKeys
    <3>3. CASE ~PlayOn /\ ~LeavePlayer /\ ~MassStorageLoop
      BY <2>1, <3>3
         DEF Main, StartMassStorage, StartPlayer, PlayerReturns, StartFont,
             FontListed, FontDone, IInv, PlayInv, FileInUse, Playing, MainStates, ExitKeys
    <3> QED BY <1>1, <3>1, <3>2, <3>3 DEF IInv
  <2>6. CursorInv'
    <3>1. CASE MoveTo(idEntry') /\ idEntry' \in NextEntry /\ FileInUse
      <4>1. idEntry' \in Nat /\ (idEntry' <= fileCnt \/ stray)
        BY <2>4, <3>1
      <4>2. pos' \in Lines /\ pageIdx' \in Nat /\ Selected' = idEntry'
        BY <3>1, <4>1, PageLine DEF MoveTo, Selected
      <4> QED BY <2>1, <2>3, <4>1, <4>2 DEF CursorInv, Lines
    <3>2. CASE UNCHANGED cursorVars /\ ~LeavePlayer
      <4>1. Playing => Playing'
        BY <1>2, <3>2
           DEF Main, StartMassStorage, StartPlayer, PlayerReturns, PlayOn,
               StartFont, FontListed, FontDone, MassStorageLoop, Playing, vars,
               playVars
      <4>2. idEntry' = idEntry \/ Playing'
        BY <1>2, <3>2
           DEF Main, StartMassStorage, StartPlayer, PlayerReturns, PlayOn,
               StartFont, FontListed, FontDone, MassStorageLoop, Playing, vars,
               playVars
      <4> QED BY <2>1, <3>2, <4>1, <4>2, SameListInv
    <3> QED BY <3>1, <3>2
         DEF Main, StartMassStorage, StartPlayer, PlayerReturns, PlayOn,
             LeavePlayer, StartFont, FontListed, FontDone, MassStorageLoop,
             FileInUse, Playing, vars, listVars
  <2> QED BY <2>1, <2>2, <2>5, <2>6, SameDirsInv DEF IInv
<1> QED BY <1>1, <1>2 DEF Main, StartMassStorage, StartPlayer, PlayerReturns,
      PlayOn, LeavePlayer, StartFont, FontListed, FontDone

THEOREM InductiveInvariant == Spec => []IInv
<1>1. IInv /\ UNCHANGED vars => IInv'
  <2> SUFFICES ASSUME IInv, UNCHANGED vars PROVE IInv'
    OBVIOUS
  <2>1. UNCHANGED <<cursorVars, pages, fileCnt, dirVars, settingsVars,
                    strokeVars, touchUpdate, main, waitExitKey, idEntry, stray>>
    BY DEF vars, listVars, playVars, touchVars
  <2>2. StrokeInv' /\ PlayInv' /\ touchUpdate' \in BOOLEAN
    BY <2>1 DEF IInv, StrokeInv, strokeVars, TouchLine, NoItem, PlayInv,
                FileInUse, Playing, MainStates, ExitKeys
  <2> QED BY <2>1, <2>2, SameListInv DEF IInv, Playing
<1>2. IInv /\ Next => IInv'
  BY SerialInv, PenInv, Tim9Inv, MainInv DEF Next
<1> QED BY <1>1, <1>2, InitInv, PTL DEF Spec

(* The highlighted item is on the list, whatever keys and strokes moved it *)
(* (LCDCursorUp, LCDCursorDown, LCDTouchPoint, changeDir, main).           *)
THEOREM CursorStaysOnItem == Spec => []CursorOnItem
<1>1. IInv => CursorOnItem
  BY PageAssumption DEF IInv, CursorInv, CursorOnItem, Lines
<1> QED BY <1>1, InductiveInvariant, PTL

(* The cursor stack always holds the way to the directory shown            *)
(* (changeDir).                                                            *)
THEOREM DirStackIsPath == Spec => []DirStackMirrorsPath
<1>1. IInv => DirStackMirrorsPath
  BY DEF IInv, DirInv, DirStackMirrorsPath
<1> QED BY <1>1, InductiveInvariant, PTL

(* The number of items and of pages is that of the list on the screen,     *)
(* for directories and settings (makeFileList, LCDCursorEnter).            *)
THEOREM ListCountStaysCurrent == Spec => []ListCountIsCurrent
<1>1. IInv => ListCountIsCurrent
  BY DEF IInv, ListInv
<1> QED BY <1>1, InductiveInvariant, PTL

-----------------------------------------------------------------------------
(* A shuffle table survives only as long as its list. *)

(* Only opening a directory changes the directory, and it forgets the      *)
(* table.                                                                  *)
LEMMA EnterShuffle ==
  ASSUME IInv, NEW id, NEW repeat, Enter(id, repeat), ShuffleTableForList
  PROVE  ShuffleTableForList'
<1>1. shuffleDir' = shuffleDir /\ (stray => stray')
  BY DEF Enter
<1>2. CASE EnterSettings(id)
  <2>1. flag_make_rand' = flag_make_rand
    BY <1>2 DEF EnterSettings
  <2>2. currentDir' = currentDir
    BY <1>2 DEF EnterSettings, OpenSettings, LeaveSettings, SettingsBack,
                SettingsForward, SettingsChoose, dirVars, IInv, ListInv
  <2> QED BY <1>1, <2>1, <2>2, Zenon DEF ShuffleTableForList
<1>3. CASE EnterDirectory(id)
  BY <1>3 DEF EnterDirectory, ShuffleTableForList
<1>4. CASE EnterFile(id, repeat)
  BY <1>1, <1>4, Zenon DEF EnterFile, listVars, dirVars, ShuffleTableForList
<1> QED BY <1>2, <1>3, <1>4 DEF Enter

(* The table a player made is used only on the list it was made for        *)
(* (LCDCursorEnter clears flag_make_rand).                                 *)
THEOREM ShuffleTableKeepsList == Spec => []ShuffleTableForList
<1>1. Init => ShuffleTableForList
  BY DEF Init, ShuffleTableForList
<1>2. IInv /\ ShuffleTableForList /\ [Next]_vars => ShuffleTableForList'
  <2> SUFFICES ASSUME IInv, ShuffleTableForList, [Next]_vars
               PROVE  ShuffleTableForList'
    OBVIOUS
  <2>1. CASE UNCHANGED <<flag_make_rand, shuffleDir, currentDir, stray>>
    BY <2>1, Zenon DEF ShuffleTableForList
  <2>2. CASE \E id, repeat : Enter(id, repeat)
    BY <2>2, EnterShuffle
  <2>3. CASE PlayerReturns
    BY <2>3, Zenon DEF PlayerReturns, MainUnchanged, dirVars,
                       ShuffleTableForList
  <2>4. CASE Main /\ ~PlayerReturns
    BY <2>1, <2>4
       DEF Main, StartMassStorage, StartPlayer, PlayOn, LeavePlayer, StartFont,
           FontListed, FontDone, MassStorageLoop, MainUnchanged, dirVars,
           vars, listVars, playVars
  <2>5. CASE SerialKey
    BY <2>1, <2>2, <2>5
       DEF SerialKey, ExitKey, CursorKey, EnterKey, ListUnchanged, dirVars,
           listVars, playVars
  <2>6. CASE PenDown \/ PenSample \/ PenUp
    BY <2>1, <2>6
       DEF PenDown, PenSample, PenUp, ListUnchanged, dirVars, listVars, playVars
  <2>7. CASE Tim9Tick
    BY <2>1, <2>2, <2>7
       DEF Tim9Tick, LCDTouchReleased, dirVars, listVars, playVars
  <2>8. CASE UNCHANGED vars
    BY <2>1, <2>8 DEF vars, listVars, dirVars, playVars
  <2> QED BY <2>3, <2>4, <2>5, <2>6, <2>7, <2>8 DEF Next
<1> QED BY <1>1, <1>2, InductiveInvariant, PTL DEF Spec

-----------------------------------------------------------------------------
(* Without a console a player keeps the list it was started from. *)

(* From the tap that picks a file to the next printed list no stroke       *)
(* begins: touch.repeat is FALSE, and the stroke of the tap is over.       *)
KeepInv ==
  ~Serial => /\ ~stray
             /\ FileInUse => ~touchRepeat /\ ~Tapped

(* A tap opens an item only when no file is in use, and one that picks a   *)
(* file closes the list.                                                   *)
LEMMA Tim9Keeps == KeepInv /\ Tim9Tick => KeepInv'
<1> SUFFICES ASSUME KeepInv, Tim9Tick, ~Serial PROVE KeepInv'
  BY DEF KeepInv
<1>1. CASE UNCHANGED <<strokeVars, playVars, touchRepeat, stray>>
  BY <1>1 DEF KeepInv, FileInUse, Playing, Tapped, strokeVars, playVars
<1>2. CASE /\ Tapped /\ Enter(Selected, FALSE)
           /\ currentTouchItem' = 0 /\ firstTouchedItem' = NoItem
  <2>1. ~FileInUse /\ ~stray /\ main' = main /\ ~stray'
    BY <1>2 DEF KeepInv, Enter
  <2>2. ~Tapped'
    BY <1>2 DEF Tapped, NoItem
  <2>3. waitExitKey' = waitExitKey \/ touchRepeat' = FALSE
    BY <1>2 DEF Enter, EnterSettings, EnterDirectory, EnterFile
  <2> QED BY <2>1, <2>2, <2>3 DEF KeepInv, FileInUse, Playing
<1> QED BY <1>1, <1>2 DEF Tim9Tick, LCDTouchReleased

LEMMA KeepInvariant == Spec => []KeepInv
<1>1. Init => KeepInv
  BY DEF Init, KeepInv, FileInUse, Playing
<1>2. KeepInv /\ [Next]_vars => KeepInv'
  <2> SUFFICES ASSUME KeepInv, [Next]_vars, ~Serial PROVE KeepInv'
    BY DEF KeepInv
  <2>1. CASE PenDown \/ PenUp
    BY <2>1 DEF PenDown, PenUp, KeepInv, FileInUse, Playing, Tapped, strokeVars, playVars
  <2>2. CASE PenSample
    <3>1. main' = main /\ waitExitKey' = waitExitKey /\ stray' = stray
      BY <2>2 DEF PenSample, playVars
    <3>2. FileInUse => ~touchRepeat' /\ ~Tapped'
      BY <2>2 DEF PenSample, KeepInv, Tapped, strokeVars
    <3> QED BY <3>1, <3>2 DEF KeepInv, FileInUse, Playing
  <2>3. CASE Main
    <3>1. UNCHANGED <<strokeVars, stray>>
      BY <2>3 DEF Main, StartMassStorage, StartPlayer, PlayerReturns, PlayOn,
                  LeavePlayer, StartFont, FontListed, FontDone, MainUnchanged,
                  MassStorageLoop, vars
    <3>2. Tapped' = Tapped
      BY <3>1 DEF Tapped, strokeVars
    <3>3. FileInUse' => FileInUse /\ touchRepeat' = touchRepeat
      BY <2>3
         DEF Main, StartMassStorage, StartPlayer, PlayerReturns, PlayOn,
             LeavePlayer, StartFont, FontListed, FontDone, MassStorageLoop,
             FileInUse, Playing, vars, playVars, touchVars
    <3> QED BY <3>1, <3>2, <3>3 DEF KeepInv
  <2>4. CASE UNCHANGED vars
    BY <2>4 DEF vars, playVars, touchVars, strokeVars, KeepInv, FileInUse, Playing, Tapped
  <2> QED BY <2>1, <2>2, <2>3, <2>4, Tim9Keeps DEF Next, SerialKey
<1> QED BY <1>1, <1>2, PTL DEF Spec

(* With the panel alone no list is opened under a player                   *)
(* (TIM1_BRK_TIM9_IRQHandler, LCDTouchReleased, main).                     *)
THEOREM PlayerListIsKept == Spec => []PlayerKeepsList
<1>1. KeepInv => PlayerKeepsList
  BY DEF KeepInv, PlayerKeepsList
<1> QED BY <1>1, KeepInvariant, PTL

-----------------------------------------------------------------------------
(* The titles, the way through the settings, and the types. *)

(* The first k items of the path of directory d. *)
UpTo(d, k) == [i \in 1 .. k |-> d[i]]

(* The name stack ends with the names of the directories down to the one   *)
(* shown.  What is below them are the names of directories left by way of  *)
(* the root.                                                               *)
NameInv ==
  /\ DOMAIN dirNameStack = 0 .. NameSlots - 1
  /\ idxDirNameStack \in dirLevel .. NameSlots
  /\ \A k \in 1 .. dirLevel :
       dirNameStack[idxDirNameStack - dirLevel + k - 1]
         = DirName(UpTo(currentDir, k))
  /\ ~settings_mode => currentDirName = DirName(currentDir)

(* The title of the k-th list of a way through the settings. *)
TitleAt(path, k) ==
  IF k = 1 THEN SettingsName
  ELSE EntryName(path[k - 1], settings_stack.pos[k - 1])

(* The names saved are the titles of the lists they are saved for. *)
WayInv ==
  /\ settings_p \in DOMAIN Menu \union {NULL}
  /\ DOMAIN settings_stack.name = StackLevels
  /\ settings_mode =>
       \E path \in [1 .. settings_stack.idx -> DOMAIN Menu] :
         /\ IsWay(path)
         /\ \A k \in 1 .. settings_stack.idx - 1 :
              settings_stack.name[k] = TitleAt(path, k)
         /\ currentDirName = TitleAt(path, settings_stack.idx)

FlagInv ==
  /\ usb_msc_enable \in BOOLEAN /\ flag_make_rand \in BOOLEAN
  /\ touchRepeat \in BOOLEAN /\ pen \in BOOLEAN /\ tim9 \in BOOLEAN
  /\ shuffleDir \in Tree
  /\ touchFunc \in {"list", "player", "none"}

(* A step within a list keeps its title and the way to it. *)
LEMMA SameTitle ==
  ASSUME NameInv, WayInv,
         UNCHANGED <<currentDirName, dirVars, settingsVars>>
  PROVE  NameInv' /\ WayInv'
<1>1. NameInv'
  BY DEF NameInv, dirVars, settingsVars, UpTo
<1>2. /\ UNCHANGED <<settings_mode, settings_p, settings_stack, currentDirName>>
      /\ \A path : IsWay(path) => IsWay(path)'
      /\ \A path, k : TitleAt(path, k)' = TitleAt(path, k)
  BY DEF settingsVars, IsWay, TitleAt
<1>3. WayInv'
  BY <1>2 DEF WayInv, StackLevels
<1> QED BY <1>1, <1>3

(* A directory is the whole of its path. *)
LEMMA WholePath ==
  ASSUME NEW d \in Tree
  PROVE  Len(d) \in Nat /\ UpTo(d, Len(d)) = d
<1>1. d \in Seq(Nat)
  BY TreeAssumption
<1> QED BY <1>1, LenProperties DEF UpTo

(* The title behind ".." is below the name of the directory that is left. *)
LEMMA ToParentTitle ==
  ASSUME IInv, NameInv, ~settings_mode, UNCHANGED settingsVars,
         NEW id, ChangeToParent(id)
  PROVE  NameInv'
<1>1. /\ currentDir \in Tree /\ currentDir # Root
      /\ currentDir' = Parent(currentDir)
      /\ dirLevel = Len(currentDir) /\ dirLevel' = dirLevel - 1
      /\ UNCHANGED dirNameStack
      /\ settings_mode' = settings_mode
  BY DEF IInv, DirInv, ChangeToParent, settingsVars
<1>2. /\ currentDir' \in Tree
      /\ dirLevel \in Nat \ {0}
      /\ dirLevel' = Len(currentDir')
      /\ \A k \in 1 .. dirLevel - 1 : currentDir'[k] = currentDir[k]
  BY <1>1, ParentOf
<1>3. NameSlots \in Nat /\ idxDirNameStack \in dirLevel .. NameSlots
  BY TreeAssumption DEF NameInv
<1>4. \A k \in 1 .. dirLevel' : UpTo(currentDir', k) = UpTo(currentDir, k)
  BY <1>1, <1>2 DEF UpTo
<1>5. CASE currentDir' = Root
  <2>1. currentDirName' = DirName(Root) /\ UNCHANGED idxDirNameStack
    BY <1>5 DEF ChangeToParent
  <2>2. dirLevel' = 0
    BY <1>2, <1>5 DEF Root
  <2> QED BY <1>1, <1>2, <1>3, <1>5, <2>1, <2>2 DEF NameInv
<1>6. CASE currentDir' # Root
  <2>1. /\ idxDirNameStack' = idxDirNameStack - 1
        /\ currentDirName' = dirNameStack[idxDirNameStack' - 1]
    BY <1>6 DEF ChangeToParent
  <2>2. idxDirNameStack' \in dirLevel' .. NameSlots
    BY <1>1, <1>2, <1>3, <2>1
  <2>3. \A k \in 1 .. dirLevel' :
          /\ k \in 1 .. dirLevel
          /\ idxDirNameStack' - dirLevel' + k - 1
               = idxDirNameStack - dirLevel + k - 1
    BY <1>1, <1>2, <1>3, <2>1
  <2>4. \A k \in 1 .. dirLevel' :
          dirNameStack'[idxDirNameStack' - dirLevel' + k - 1]
            = DirName(UpTo(currentDir', k))
    BY <1>1, <1>4, <2>3 DEF NameInv
  <2>5. dirLevel' # 0
    <3>1. currentDir' \in Seq(Nat)
      BY <1>2, TreeAssumption
    <3> QED BY <1>2, <1>6, <3>1, EmptySeq DEF Root
  <2>6. currentDirName' = DirName(currentDir')
    <3>1. /\ dirLevel' \in 1 .. dirLevel'
          /\ idxDirNameStack' - dirLevel' + dirLevel' - 1 = idxDirNameStack' - 1
      BY <1>1, <1>2, <1>3, <2>1, <2>5
    <3>2. UpTo(currentDir', dirLevel') = currentDir'
      BY <1>2, WholePath
    <3> QED BY <1>1, <2>1, <2>4, <3>1, <3>2
  <2> QED BY <1>1, <2>2, <2>4, <2>6 DEF NameInv
<1> QED BY <1>5, <1>6

(* The name of the directory that is opened goes above the others. *)
LEMMA ToChildTitle ==
  ASSUME IInv, NameInv, ~settings_mode, UNCHANGED settingsVars,
         NEW id \in Nat, ChangeToChild(id)
  PROVE  NameInv'
<1> DEFINE child == Append(currentDir, id)
<1>1. /\ currentDir \in Tree /\ child \in Tree /\ currentDir' = child
      /\ dirLevel = Len(currentDir) /\ dirLevel' = dirLevel + 1
      /\ currentDirName' = DirName(child)
      /\ idxDirNameStack < NameSlots
      /\ dirNameStack' =
           [dirNameStack EXCEPT ![idxDirNameStack] = DirName(child)]
      /\ idxDirNameStack' = idxDirNameStack + 1
      /\ settings_mode' = settings_mode
  BY DEF IInv, DirInv, ChangeToChild, settingsVars
<1>2. /\ dirLevel \in Nat /\ Len(child) = dirLevel + 1
      /\ \A k \in 1 .. dirLevel : child[k] = currentDir[k]
  BY <1>1, ChildOf
<1>3. /\ NameSlots \in Nat /\ idxDirNameStack \in dirLevel .. NameSlots
      /\ DOMAIN dirNameStack = 0 .. NameSlots - 1
  BY TreeAssumption DEF NameInv
<1>4. DOMAIN dirNameStack' = 0 .. NameSlots - 1
  BY <1>1, <1>3
<1>5. idxDirNameStack' \in dirLevel' .. NameSlots
  BY <1>1, <1>2, <1>3
<1>6. \A k \in 1 .. dirLevel' :
        dirNameStack'[idxDirNameStack' - dirLevel' + k - 1]
          = DirName(UpTo(currentDir', k))
  <2> SUFFICES ASSUME NEW k \in 1 .. dirLevel'
               PROVE  dirNameStack'[idxDirNameStack' - dirLevel' + k - 1]
                        = DirName(UpTo(currentDir', k))
    OBVIOUS
  <2>1. idxDirNameStack' - dirLevel' + k - 1 = idxDirNameStack - dirLevel + k - 1
    BY <1>1, <1>2, <1>3
  <2>2. CASE k = dirLevel'
    <3>1. idxDirNameStack - dirLevel + k - 1 = idxDirNameStack
      BY <1>1, <1>2, <1>3, <2>2
    <3>2. idxDirNameStack \in DOMAIN dirNameStack
      BY <1>1, <1>2, <1>3
    <3>3. UpTo(currentDir', k) = child
      BY <1>1, <1>2, <2>2, WholePath
    <3> HIDE DEF child
    <3> QED BY <1>1, <2>1, <3>1, <3>2, <3>3
  <2>3. CASE k # dirLevel'
    <3>1. /\ k \in 1 .. dirLevel
          /\ idxDirNameStack - dirLevel + k - 1 \in DOMAIN dirNameStack
          /\ idxDirNameStack - dirLevel + k - 1 # idxDirNameStack
      BY <1>1, <1>2, <1>3, <2>3
    <3>2. UpTo(currentDir', k) = UpTo(currentDir, k)
      BY <1>1, <1>2, <3>1 DEF UpTo
    <3>3. dirNameStack[idxDirNameStack - dirLevel + k - 1]
            = DirName(UpTo(currentDir, k))
      BY <3>1 DEF NameInv
    <3> HIDE DEF child
    <3> QED BY <1>1, <2>1, <3>1, <3>2, <3>3
  <2> QED BY <2>2, <2>3
<1>7. currentDirName' = DirName(currentDir')
  BY <1>1
<1> QED BY <1>4, <1>5, <1>6, <1>7 DEF NameInv

(* Directories do not touch the settings. *)
LEMMA OutsideWay ==
  ASSUME WayInv, ~settings_mode, UNCHANGED settingsVars
  PROVE  WayInv'
<1>1. UNCHANGED <<settings_mode, settings_p, settings_stack>>
  BY DEF settingsVars
<1> QED BY <1>1 DEF WayInv, StackLevels

LEMMA OpenSettingsTitle ==
  ASSUME IInv, NameInv, WayInv, NEW id, OpenSettings(id)
  PROVE  NameInv' /\ WayInv'
<1>1. /\ settings_mode' = TRUE /\ settings_p' = settings_root_list
      /\ settings_stack' = [settings_stack EXCEPT !.idx = 1]
      /\ currentDirName' = SettingsName
      /\ UNCHANGED dirVars
  BY DEF OpenSettings, ShowList
<1>2. NameInv'
  BY <1>1 DEF NameInv, dirVars, UpTo
<1>3. /\ settings_stack'.idx = 1
      /\ settings_stack'.name = settings_stack.name
  BY <1>1 DEF IInv, SettingsInv
<1> DEFINE path == [k \in 1 .. 1 |-> settings_root_list]
<1>4. path \in [1 .. 1 -> DOMAIN Menu] /\ path[1] = settings_root_list
  BY MenuAssumption
<1> HIDE DEF path
<1>5. IsWay(path)' /\ TitleAt(path, 1)' = SettingsName
  BY <1>1, <1>3, <1>4 DEF IsWay, TitleAt
<1>6. settings_p' \in DOMAIN Menu
  BY <1>1, MenuAssumption
<1> QED BY <1>1, <1>2, <1>3, <1>4, <1>5, <1>6 DEF WayInv, StackLevels

LEMMA LeaveSettingsTitle ==
  ASSUME IInv, NameInv, WayInv, NEW id, LeaveSettings(id)
  PROVE  NameInv' /\ WayInv'
<1>1. /\ settings_mode' = FALSE /\ settings_p' = NULL
      /\ currentDir' = Root /\ currentDir = Root
      /\ currentDirName' = DirName(Root)
      /\ UNCHANGED <<settings_stack, dirLevel, idxDirNameStack, dirNameStack>>
  BY DEF LeaveSettings, IInv, ListInv
<1>2. NameInv'
  BY <1>1 DEF NameInv, UpTo
<1> QED BY <1>1, <1>2 DEF WayInv, StackLevels

(* The list ".." leads to is the one before on the way. *)
LEMMA SettingsBackTitle ==
  ASSUME IInv, NameInv, WayInv, NEW id, SettingsBack(id)
  PROVE  NameInv' /\ WayInv'
<1> DEFINE idx == settings_stack.idx
<1>0. PICK top, l : top = idx - 1 /\ l = Menu[settings_p][0].next
  OBVIOUS
<1>1. /\ settings_mode /\ l # NULL /\ settings_mode' = settings_mode
      /\ settings_stack' = [settings_stack EXCEPT !.idx = top]
      /\ settings_p' = l
      /\ currentDirName' = settings_stack.name[top]
      /\ UNCHANGED dirVars
  BY <1>0 DEF SettingsBack, ShowList
<1>2. NameInv'
  BY <1>1 DEF NameInv, dirVars, UpTo
<1>3. /\ settings_stack'.idx = top
      /\ settings_stack'.pos = settings_stack.pos
      /\ settings_stack'.items = settings_stack.items
      /\ settings_stack'.name = settings_stack.name
  BY <1>1 DEF IInv, SettingsInv
<1>4. idx \in 1 .. MAX_SETTING_STACK_LEVEL /\ MAX_SETTING_STACK_LEVEL \in Nat
  BY <1>1, MenuAssumption DEF IInv, SettingsInv
<1>5. PICK path \in [1 .. idx -> DOMAIN Menu] :
        /\ IsWay(path)
        /\ \A k \in 1 .. top : settings_stack.name[k] = TitleAt(path, k)
  BY <1>0, <1>1 DEF WayInv
<1>6. idx # 1
  <2>1. Menu[settings_root_list][0].next = NULL
    BY MenuAssumption
  <2> QED BY <1>0, <1>1, <1>5, <2>1 DEF IsWay
<1>7. top \in 1 .. idx - 1 /\ top \in 1 .. idx /\ top + 1 = idx
  BY <1>0, <1>4, <1>6
<1>8. path[top] = l /\ l \in DOMAIN Menu
  <2> DEFINE i == settings_stack.pos[top]
  <2>1. /\ path[top] \in DOMAIN Menu /\ path[top + 1] \in DOMAIN Menu
        /\ path[top + 1] = settings_p
        /\ i \in DOMAIN Menu[path[top]] \ {0}
        /\ Menu[path[top]][i].next = path[top + 1]
    BY <1>5, <1>7 DEF IsWay
  <2>2. Menu[path[top]][i].next # NULL
    BY <2>1, MenuAssumption
  <2> HIDE DEF i
  <2>3. Menu[Menu[path[top]][i].next][0].next = path[top]
    BY <2>1, <2>2, MenuEntry
  <2> QED BY <1>0, <2>1, <2>3
<1>9. PICK above \in [1 .. top -> DOMAIN Menu] :
        \A k \in 1 .. top : above[k] = path[k]
  <2> DEFINE way == [k \in 1 .. top |-> path[k]]
  <2>1. \A k \in 1 .. top : k \in 1 .. idx
    BY <1>4, <1>7
  <2>2. way \in [1 .. top -> DOMAIN Menu] /\ \A k \in 1 .. top : way[k] = path[k]
    BY <1>5, <2>1
  <2> QED BY <2>2
<1>10. \A k \in 1 .. top - 1 : /\ k \in 1 .. top /\ k + 1 \in 1 .. top
                              /\ k \in 1 .. idx - 1
  BY <1>4, <1>7
<1>11. 1 \in 1 .. top
  BY <1>7
<1>12. IsWay(above)'
  BY <1>1, <1>3, <1>5, <1>7, <1>8, <1>9, <1>10, <1>11 DEF IsWay
<1>13. \A k \in 1 .. top : TitleAt(above, k)' = TitleAt(path, k)
  <2>1. \A k \in 1 .. top : k # 1 => k - 1 \in 1 .. top
    BY <1>4, <1>7
  <2> QED BY <1>3, <1>9, <2>1 DEF TitleAt
<1>14. \A k \in 1 .. top : settings_stack.name[k] = TitleAt(above, k)'
  BY <1>5, <1>13
<1>15. top \in 1 .. top
  BY <1>7
<1>16. currentDirName' = TitleAt(above, top)'
  BY <1>1, <1>3, <1>14, <1>15
<1>17. \A k \in 1 .. settings_stack'.idx - 1 :
          settings_stack'.name[k] = TitleAt(above, k)'
  BY <1>3, <1>10, <1>14
<1>18. above \in [1 .. settings_stack'.idx -> DOMAIN Menu]
  BY <1>3, <1>9
<1>19. DOMAIN settings_stack'.name = StackLevels'
  BY <1>3 DEF WayInv, StackLevels
<1> QED BY <1>1, <1>2, <1>3, <1>8, <1>12, <1>16, <1>17, <1>18, <1>19
        DEF WayInv, TitleAt

(* The list that is opened is one more on the way. *)
LEMMA SettingsForwardTitle ==
  ASSUME IInv, NameInv, WayInv, NEW id \in 0 .. fileCnt - 1,
         SettingsForward(id)
  PROVE  NameInv' /\ WayInv'
<1>0. PICK top, l, next :
        top = settings_stack.idx /\ l = settings_p /\ next = Menu[l][id].next
  OBVIOUS
<1> DEFINE pos1 == [settings_stack.pos EXCEPT ![top] = id]
           items1 == [settings_stack.items EXCEPT ![top] = fileCnt]
           name1 == [settings_stack.name EXCEPT ![top] = currentDirName]
<1>1. /\ settings_mode /\ settings_mode' = settings_mode
      /\ id # 0 /\ next # NULL
      /\ settings_stack' = [idx |-> top + 1, pos |-> pos1, items |-> items1,
                            name |-> name1]
      /\ settings_p' = next
      /\ currentDirName' = EntryName(l, id)
      /\ UNCHANGED dirVars
  BY <1>0 DEF SettingsForward, ShowList
<1>2. NameInv'
  BY <1>1 DEF NameInv, dirVars, UpTo
<1>3. /\ settings_stack'.idx = top + 1 /\ settings_stack'.pos = pos1
      /\ settings_stack'.items = items1 /\ settings_stack'.name = name1
  BY <1>1
<1>4. /\ l \in DOMAIN Menu /\ DOMAIN Menu[l] = 0 .. fileCnt - 1
      /\ id \in DOMAIN Menu[l]
  BY <1>0, <1>1 DEF IInv, ListInv, ListCountIsCurrent
<1>5. next \in DOMAIN Menu /\ Level[next] = Level[l] + 1
  BY <1>0, <1>1, <1>4, MenuEntry
<1>6. PICK path \in [1 .. top -> DOMAIN Menu] :
        /\ IsWay(path)
        /\ \A k \in 1 .. top - 1 : settings_stack.name[k] = TitleAt(path, k)
        /\ currentDirName = TitleAt(path, top)
  BY <1>0, <1>1 DEF WayInv
<1>7. /\ top \in 1 .. MAX_SETTING_STACK_LEVEL
      /\ MAX_SETTING_STACK_LEVEL \in Nat
      /\ DOMAIN settings_stack.pos = StackLevels
      /\ DOMAIN settings_stack.items = StackLevels
      /\ DOMAIN settings_stack.name = StackLevels
  BY <1>0, <1>1, MenuAssumption DEF IInv, SettingsInv, WayInv
<1>8. top \in StackLevels
  <2>1. PICK chain : IsChain(chain, top, l, settings_stack)
    BY <1>0, <1>1 DEF IInv, SettingsInv
  <2>2. Level[l] = top
    BY <1>7, <2>1 DEF IsChain
  <2>3. Level[next] \in 1 .. MAX_SETTING_STACK_LEVEL
    BY <1>5, MenuAssumption
  <2> QED BY <1>5, <1>7, <2>2, <2>3 DEF StackLevels
<1>9. /\ pos1[top] = id /\ items1[top] = fileCnt /\ name1[top] = currentDirName
      /\ \A k \in 1 .. top - 1 :
           /\ pos1[k] = settings_stack.pos[k]
           /\ items1[k] = settings_stack.items[k]
           /\ name1[k] = settings_stack.name[k]
  BY <1>7, <1>8 DEF StackLevels
<1>10. PICK below \in [1 .. top + 1 -> DOMAIN Menu] :
         below[top + 1] = next /\ \A k \in 1 .. top : below[k] = path[k]
  <2> DEFINE way == [k \in 1 .. top + 1 |-> IF k = top + 1 THEN next ELSE path[k]]
  <2>1. /\ way \in [1 .. top + 1 -> DOMAIN Menu]
        /\ way[top + 1] = next /\ \A k \in 1 .. top : way[k] = path[k]
    BY <1>5, <1>6, <1>7
  <2> QED BY <2>1
<1>11. /\ (top + 1) - 1 = top /\ top + 1 # 1 /\ 1 \in 1 .. top
       /\ top \in 1 .. top /\ top \in Nat
  BY <1>7
<1>12. DOMAIN name1 = StackLevels
  BY <1>7
<1> HIDE DEF pos1, items1, name1
<1>13. IsWay(below)'
  <2>1. below[1] = settings_root_list /\ below[settings_stack'.idx] = settings_p'
    BY <1>1, <1>3, <1>6, <1>10, <1>11 DEF IsWay
  <2>2. ASSUME NEW k \in 1 .. top
        PROVE  /\ pos1[k] \in DOMAIN Menu[below[k]] \ {0}
               /\ Menu[below[k]][pos1[k]].next = below[k + 1]
               /\ DOMAIN Menu[below[k]] = 0 .. items1[k] - 1
    <3>1. CASE k = top
      <4>1. path[top] = l
        BY <1>0, <1>6 DEF IsWay
      <4> QED BY <3>1, <4>1, <1>0, <1>1, <1>4, <1>9, <1>10
    <3>2. CASE k # top
      <4>1. k \in 1 .. top - 1 /\ k + 1 \in 1 .. top
        BY <3>2, <1>11
      <4> QED BY <4>1, <1>0, <1>6, <1>9, <1>10 DEF IsWay
    <3> QED BY <3>1, <3>2
  <2> QED BY <1>3, <1>11, <2>1, <2>2 DEF IsWay
<1>14. \A k \in 1 .. top : TitleAt(below, k)' = TitleAt(path, k)
  <2> SUFFICES ASSUME NEW k \in 1 .. top
               PROVE  TitleAt(below, k)' = TitleAt(path, k)
    OBVIOUS
  <2>1. CASE k = 1
    BY <2>1 DEF TitleAt
  <2>2. CASE k # 1
    <3>1. k - 1 \in 1 .. top /\ k - 1 \in 1 .. top - 1
      BY <2>2, <1>11
    <3> QED BY <2>2, <3>1, <1>3, <1>9, <1>10 DEF TitleAt
  <2> QED BY <2>1, <2>2
<1>15. \A k \in 1 .. top : name1[k] = TitleAt(below, k)'
  <2> SUFFICES ASSUME NEW k \in 1 .. top
               PROVE  name1[k] = TitleAt(path, k)
    BY <1>14
  <2>1. CASE k = top
    BY <2>1, <1>6, <1>9
  <2>2. CASE k # top
    <3>1. k \in 1 .. top - 1
      BY <2>2, <1>11
    <3> QED BY <3>1, <1>6, <1>9
  <2> QED BY <2>1, <2>2
<1>16. currentDirName' = TitleAt(below, top + 1)'
  <2>1. below[top] = l
    BY <1>0, <1>6, <1>10, <1>11 DEF IsWay
  <2> QED BY <2>1, <1>0, <1>1, <1>3, <1>9, <1>11 DEF TitleAt
<1>17. /\ \A k \in 1 .. settings_stack'.idx - 1 :
            settings_stack'.name[k] = TitleAt(below, k)'
       /\ below \in [1 .. settings_stack'.idx -> DOMAIN Menu]
  BY <1>3, <1>10, <1>11, <1>15
<1>18. settings_p' \in DOMAIN Menu /\ DOMAIN settings_stack'.name = StackLevels'
  BY <1>1, <1>3, <1>5, <1>12 DEF StackLevels
<1> QED BY <1>2, <1>3, <1>13, <1>16, <1>17, <1>18 DEF WayInv, TitleAt

(* Whatever is entered, the title follows. *)
LEMMA EnterTitle ==
  ASSUME IInv, NameInv, WayInv, NEW id \in {0, Selected}, NEW repeat,
         Enter(id, repeat)
  PROVE  NameInv' /\ WayInv'
<1>1. id \in Nat /\ id \in 0 .. fileCnt - 1
  BY SelectedNat DEF IInv, ListInv, Enter
<1>2. CASE EnterSettings(id)
  <2>1. CASE SettingsChoose(id)
    BY <2>1, SameTitle DEF SettingsChoose
  <2> QED BY <1>1, <1>2, <2>1, OpenSettingsTitle, LeaveSettingsTitle,
             SettingsBackTitle, SettingsForwardTitle DEF EnterSettings
<1>3. CASE EnterDirectory(id)
  BY <1>1, <1>3, ToParentTitle, ToChildTitle, OutsideWay
     DEF EnterDirectory, changeDir
<1>4. CASE EnterFile(id, repeat)
  BY <1>4, SameTitle DEF EnterFile, listVars
<1> QED BY <1>2, <1>3, <1>4 DEF Enter

(* Every way from one state to the next. *)
LEMMA StepsOrEnters ==
  ASSUME [Next]_vars
  PROVE  \/ UNCHANGED <<currentDirName, dirVars, settingsVars>>
         \/ \E id \in {0, Selected}, repeat \in {touchRepeat, FALSE} :
              Enter(id, repeat)
<1>1. CASE SerialKey
  BY <1>1 DEF SerialKey, ExitKey, CursorKey, EnterKey, ListUnchanged, listVars
<1>2. CASE PenDown \/ PenSample \/ PenUp
  BY <1>2 DEF PenDown, PenSample, PenUp, ListUnchanged, listVars
<1>3. CASE Tim9Tick
  BY <1>3 DEF Tim9Tick, LCDTouchReleased, listVars
<1>4. CASE Main
  BY <1>4 DEF Main, StartMassStorage, StartPlayer, PlayerReturns, PlayOn,
              LeavePlayer, StartFont, FontListed, FontDone, MassStorageLoop,
              MainUnchanged, vars, listVars
<1>5. CASE UNCHANGED vars
  BY <1>5 DEF vars, listVars
<1> QED BY <1>1, <1>2, <1>3, <1>4, <1>5 DEF Next

LEMMA TitleInvariant == Spec => [](NameInv /\ WayInv)
<1>1. Init => NameInv /\ WayInv
  <2> SUFFICES ASSUME Init PROVE NameInv /\ WayInv
    OBVIOUS
  <2>1. NameSlots \in Nat
    BY TreeAssumption
  <2> QED BY <2>1 DEF Init, DirInit, SettingsInit, NameInv, WayInv
<1>2. IInv /\ NameInv /\ WayInv /\ [Next]_vars => NameInv' /\ WayInv'
  BY StepsOrEnters, SameTitle, EnterTitle
<1> QED BY <1>1, <1>2, InductiveInvariant, PTL DEF Spec

(* The title bar names the list below it, in directories of any depth and  *)
(* in every settings table (changeDir, LCDCursorEnter).                    *)
THEOREM HeaderIsName == Spec => []HeaderNamesList
<1>1. IInv /\ NameInv /\ WayInv => HeaderNamesList
  <2> SUFFICES ASSUME IInv, NameInv, WayInv PROVE HeaderNamesList
    OBVIOUS
  <2>1. CASE ~settings_mode
    BY <2>1 DEF NameInv, HeaderNamesList
  <2>2. CASE settings_mode
    <3> DEFINE idx == settings_stack.idx
    <3>1. PICK path \in [1 .. idx -> DOMAIN Menu] :
            IsWay(path) /\ currentDirName = TitleAt(path, idx)
      BY <2>2 DEF WayInv
    <3>2. CASE idx = 1
      BY <2>2, <3>1, <3>2 DEF TitleAt, HeaderNamesList
    <3>3. CASE idx # 1
      <4> DEFINE i == settings_stack.pos[idx - 1]
                 l == path[idx - 1]
      <4>1. idx \in 1 .. MAX_SETTING_STACK_LEVEL /\ MAX_SETTING_STACK_LEVEL \in Nat
        BY <2>2, MenuAssumption DEF IInv, SettingsInv
      <4>2. /\ idx - 1 \in 1 .. idx - 1 /\ idx - 1 \in 1 .. idx
            /\ (idx - 1) + 1 = idx /\ idx \in 1 .. idx
        BY <3>3, <4>1
      <4>3. /\ l \in DOMAIN Menu /\ i \in DOMAIN Menu[l] \ {0}
            /\ Menu[l][i].next = settings_p /\ settings_p \in DOMAIN Menu
        BY <3>1, <4>2 DEF IsWay
      <4>4. currentDirName = EntryName(l, i)
        BY <3>1, <3>3 DEF TitleAt
      <4> HIDE DEF i, l, idx
      <4>5. Menu[settings_p][0].next = l
        BY <4>3, MenuEntry, MenuAssumption
      <4> QED BY <2>2, <3>3, <4>4, <4>5 DEF HeaderNamesList, i, idx
    <3> QED BY <3>2, <3>3
  <2> QED BY <2>1, <2>2
<1> QED BY <1>1, InductiveInvariant, TitleInvariant, PTL

(* The settings stack holds the way to the list on the screen, within its  *)
(* array, in every settings table (LCDCursorEnter).                        *)
THEOREM SettingsStackIsPath == Spec => []SettingsStackMirrorsPath
<1>1. IInv /\ WayInv => SettingsStackMirrorsPath
  BY DEF IInv, SettingsInv, WayInv, SettingsStackMirrorsPath
<1> QED BY <1>1, InductiveInvariant, TitleInvariant, PTL

(* The flags the handlers and the main loop share are flags, the shuffle   *)
(* table is that of a directory.                                           *)
LEMMA FlagInvariant == Spec => []FlagInv
<1>1. Init => FlagInv
  BY TreeAssumption DEF Init, FlagInv
<1>2. IInv /\ FlagInv /\ [Next]_vars => FlagInv'
  <2> SUFFICES ASSUME IInv, FlagInv, [Next]_vars PROVE FlagInv'
    OBVIOUS
  <2>1. ASSUME NEW id, NEW repeat \in BOOLEAN, Enter(id, repeat),
               pen' = pen, tim9' \in BOOLEAN
        PROVE  FlagInv'
    <3>1. /\ usb_msc_enable' \in BOOLEAN /\ flag_make_rand' \in BOOLEAN
          /\ touchRepeat' \in BOOLEAN
          /\ touchFunc' \in {touchFunc, "list"}
      BY <2>1 DEF Enter, EnterSettings, EnterDirectory, EnterFile, ListPrinted,
                  ConnectsHost, FlagInv
    <3> QED BY <2>1, <3>1 DEF Enter, FlagInv
  <2>2. CASE SerialKey
    <3>1. CASE EnterKey
      BY <2>1, <3>1 DEF EnterKey, FlagInv
    <3>2. CASE CursorKey \/ ExitKey
      BY <3>2 DEF CursorKey, ExitKey, RedrawIfTurned, ListPrinted, playVars,
                  touchVars, FlagInv
    <3> QED BY <2>2, <3>1, <3>2 DEF SerialKey
  <2>3. CASE PenDown \/ PenSample \/ PenUp
    BY <2>3 DEF PenDown, PenSample, PenUp, RedrawIfTurned, ListPrinted,
                playVars, FlagInv
  <2>4. CASE Tim9Tick
    <3>1. CASE Enter(Selected, FALSE)
      <4>1. pen' = pen /\ tim9' \in BOOLEAN
        BY <2>4 DEF Tim9Tick, FlagInv
      <4> QED BY <2>1, <3>1, <4>1
    <3>2. CASE UNCHANGED <<playVars, touchFunc, touchRepeat>>
      BY <2>4, <3>2 DEF Tim9Tick, playVars, FlagInv
    <3> QED BY <2>4, <3>1, <3>2 DEF Tim9Tick, LCDTouchReleased
  <2>5. CASE Main
    BY <2>5 DEF Main, StartMassStorage, StartPlayer, PlayerReturns, PlayOn,
                LeavePlayer, StartFont, FontListed, FontDone, MassStorageLoop,
                MainUnchanged, ListPrinted, vars, playVars, touchVars, FlagInv,
                IInv, DirInv
  <2>6. CASE UNCHANGED vars
    BY <2>6 DEF vars, playVars, touchVars, FlagInv
  <2> QED BY <2>2, <2>3, <2>4, <2>5, <2>6 DEF Next
<1> QED BY <1>1, <1>2, InductiveInvariant, PTL DEF Spec

(* Every variable of the browser keeps its type: counters, both stacks and *)
(* the flags shared by the handlers (lcd.h, fat.h, settings.h, xpt2046.h). *)
THEOREM BrowserTypes == Spec => []TypeOK
<1>1. IInv /\ NameInv /\ WayInv /\ FlagInv => TypeOK
  <2> SUFFICES ASSUME IInv, NameInv, WayInv, FlagInv PROVE TypeOK
    OBVIOUS
  <2>1. dirLevel \in 0 .. StackDepth
    <3>1. currentDir \in Tree /\ dirLevel = Len(currentDir)
      BY DEF IInv, DirInv
    <3>2. Len(currentDir) \in Nat
      BY <3>1, WholePath
    <3>3. Len(currentDir) <= StackDepth
      BY <3>1, TreeAssumption
    <3> QED BY <3>1, <3>2, <3>3, StackDepthNat
  <2>2. /\ pos \in Nat /\ pageIdx \in Nat /\ pages \in Nat /\ fileCnt \in Nat \ {0}
        /\ currentTouchItem \in TouchLine
        /\ firstTouchedItem \in TouchLine \union {NoItem}
        /\ currentDir \in Tree /\ settings_mode \in BOOLEAN
        /\ main \in MainStates /\ waitExitKey \in ExitKeys /\ idEntry \in Nat
        /\ stray \in BOOLEAN /\ touchUpdate \in BOOLEAN
    BY PageAssumption DEF IInv, CursorInv, ListInv, StrokeInv, DirInv, PlayInv, Lines
  <2>3. dirCursorStack \in [0 .. StackDepth - 1 -> [pageIdx : 0 .. 255, pos : Nat]]
    <3>1. dirCursorStack \in
            [0 .. StackDepth - 1 -> [pageIdx : 0 .. 255, pos : Lines]]
      BY DEF IInv, DirInv
    <3>2. Lines \subseteq Nat
      BY PageAssumption DEF Lines
    <3> QED BY <3>1, <3>2
  <2>4. idxDirNameStack \in 0 .. NameSlots /\ DOMAIN dirNameStack = 0 .. NameSlots - 1
    BY <2>1, TreeAssumption, StackDepthNat DEF NameInv
  <2>5. settings_p \in DOMAIN Menu \union {NULL}
    BY DEF WayInv
  <2>6. /\ {usb_msc_enable, flag_make_rand, touchRepeat, touchUpdate, pen, tim9,
            stray} \subseteq BOOLEAN
        /\ shuffleDir \in Tree
        /\ touchFunc \in {"list", "player", "none"}
    BY <2>2 DEF FlagInv
  <2> QED BY <2>1, <2>2, <2>3, <2>4, <2>5, <2>6 DEF TypeOK
<1> QED BY <1>1, InductiveInvariant, TitleInvariant, FlagInvariant, PTL

-----------------------------------------------------------------------------
(* With the panel alone the browser implements PathNav. *)

LEMMA LeastNat ==
  ASSUME NEW T \in SUBSET Nat, T # {}
  PROVE  \E n \in T : \A m \in T : n <= m
<1>1. IsWellFoundedOn(OpToRel(<, Nat), Nat)
  BY NatLessThanWellFounded
<1>2. PICK n \in T : \A m \in T : ~(<<m, n>> \in OpToRel(<, Nat))
  BY <1>1, WFMin
<1>3. \A m \in T : ~(m < n)
  BY <1>2 DEF OpToRel
<1> QED BY <1>3

(* No directory is behind item 0 of the root, where the settings are: the  *)
(* shortest path that begins so would be behind item 0 of its parent.      *)
LEMMA SettingsApart ==
  ASSUME NEW d \in Tree, d # Root
  PROVE  d[1] # 0
<1> SUFFICES ASSUME d[1] = 0 PROVE FALSE
  OBVIOUS
<1> DEFINE T == {n \in Nat : \E c \in Tree : c # Root /\ c[1] = 0 /\ Len(c) = n}
<1>1. Len(d) \in T
  BY ParentOf
<1>2. PICK n \in T : \A m \in T : n <= m
  <2>1. T \in SUBSET Nat /\ T # {}
    BY <1>1
  <2> HIDE DEF T
  <2> QED BY <2>1, LeastNat
<1>3. PICK c \in Tree : c # Root /\ c[1] = 0 /\ Len(c) = n
  BY <1>2
<1>4. /\ Parent(c) \in Tree /\ n \in Nat \ {0}
      /\ Len(Parent(c)) = n - 1
      /\ \A k \in 1 .. n - 1 : Parent(c)[k] = c[k]
      /\ c[n] # 0
  BY <1>3, ParentOf
<1>5. n # 1
  BY <1>3, <1>4
<1>6. /\ Parent(c)[1] = 0 /\ Parent(c) # Root
      /\ Len(Parent(c)) \in Nat /\ Len(Parent(c)) < n
  BY <1>3, <1>4, <1>5 DEF Root
<1>7. Len(Parent(c)) \in T
  BY <1>4, <1>6
<1> QED BY <1>2, <1>4, <1>6, <1>7

(* A path through the settings has one way: two that part do so behind a   *)
(* list they share, at the same entry of it.                               *)
LEMMA OneWay ==
  ASSUME NEW p, Len(p) \in Nat, NEW v \in Ways(p), NEW w \in Ways(p)
  PROVE  \A k \in 1 .. Len(p) : v[k] = w[k]
<1> SUFFICES ASSUME NEW j \in 1 .. Len(p), v[j] # w[j] PROVE FALSE
  OBVIOUS
<1> DEFINE T == {n \in 1 .. Len(p) : v[n] # w[n]}
<1>1. PICK n \in T : \A m \in T : n <= m
  <2>1. T \in SUBSET Nat /\ T # {}
    OBVIOUS
  <2> HIDE DEF T
  <2> QED BY <2>1, LeastNat
<1>2. LeadsAlong(p, v) /\ LeadsAlong(p, w)
  BY DEF Ways
<1>3. n # 1
  BY <1>1, <1>2 DEF LeadsAlong
<1>4. n - 1 \in 1 .. Len(p) - 1 /\ (n - 1) + 1 = n /\ n - 1 \in 1 .. Len(p)
  BY <1>1, <1>3
<1>5. v[n - 1] = w[n - 1]
  BY <1>1, <1>4
<1>6. v[n] = w[n]
  BY <1>2, <1>4, <1>5 DEF LeadsAlong
<1> QED BY <1>1, <1>6

(* The directories above are the directory shown. *)
LEMMA DirPathIs ==
  ASSUME IInv
  PROVE  DirPath = currentDir /\ currentDir \in Seq(Nat) /\ Len(currentDir) = dirLevel
<1>1. /\ currentDir \in Tree /\ dirLevel = Len(currentDir)
      /\ \A k \in 0 .. dirLevel - 1 :
           dirCursorStack[k].pos + dirCursorStack[k].pageIdx * PAGE_NUM_ITEMS
             = currentDir[k + 1]
  BY DEF IInv, DirInv
<1>2. /\ Len(currentDir) \in Nat /\ UpTo(currentDir, Len(currentDir)) = currentDir
      /\ currentDir \in Seq(Nat)
  BY <1>1, WholePath, TreeAssumption
<1>3. \A k \in 1 .. dirLevel :
        dirCursorStack[k - 1].pos + dirCursorStack[k - 1].pageIdx * PAGE_NUM_ITEMS
          = currentDir[k]
  <2>1. \A k \in 1 .. dirLevel : k - 1 \in 0 .. dirLevel - 1 /\ (k - 1) + 1 = k
    BY <1>1, <1>2
  <2> QED BY <1>1, <2>1
<1>4. DirPath = UpTo(currentDir, dirLevel)
  BY <1>3 DEF DirPath, UpTo
<1> QED BY <1>1, <1>2, <1>4

(* The settings stack is a path with a way to the list on the screen. *)
LEMMA SettingsPathIs ==
  ASSUME IInv, WayInv, settings_mode
  PROVE  /\ SettingsPath \in Seq(Nat) /\ Len(SettingsPath) = settings_stack.idx
         /\ SettingsPath \in [1 .. settings_stack.idx -> EntryNumbers]
         /\ settings_stack.idx \in 1 .. MAX_SETTING_STACK_LEVEL
         /\ SettingsPath[1] = 0
         /\ \E way \in Ways(SettingsPath) : way[settings_stack.idx] = settings_p
<1>0. PICK idx : idx = settings_stack.idx
  OBVIOUS
<1>1. idx \in 1 .. MAX_SETTING_STACK_LEVEL /\ MAX_SETTING_STACK_LEVEL \in Nat
  BY <1>0, MenuAssumption DEF IInv, SettingsInv
<1>2. PICK way \in [1 .. idx -> DOMAIN Menu] : IsWay(way)
  BY <1>0 DEF WayInv
<1>3. \A k \in 1 .. idx : k # 1 => k - 1 \in 1 .. idx - 1 /\ k - 1 \in 1 .. idx
  BY <1>1
<1>4. \A k \in 1 .. idx : SettingsPath[k] = IF k = 1 THEN 0 ELSE settings_stack.pos[k - 1]
  BY <1>0 DEF SettingsPath
<1>5. \A k \in 1 .. idx : SettingsPath[k] \in EntryNumbers
  <2> SUFFICES ASSUME NEW k \in 1 .. idx PROVE SettingsPath[k] \in EntryNumbers
    OBVIOUS
  <2>1. CASE k = 1
    <3>1. 0 \in DOMAIN Menu[settings_root_list] /\ settings_root_list \in DOMAIN Menu
      BY MenuAssumption, MenuSize
    <3> QED BY <2>1, <3>1, <1>4 DEF EntryNumbers
  <2>2. CASE k # 1
    <3>1. /\ way[k - 1] \in DOMAIN Menu
          /\ settings_stack.pos[k - 1] \in DOMAIN Menu[way[k - 1]]
      BY <2>2, <1>0, <1>2, <1>3 DEF IsWay
    <3> QED BY <2>2, <3>1, <1>4 DEF EntryNumbers
  <2> QED BY <2>1, <2>2
<1>6. EntryNumbers \subseteq Nat
  BY MenuAssumption DEF EntryNumbers
<1>7. SettingsPath \in [1 .. idx -> EntryNumbers]
  BY <1>0, <1>5 DEF SettingsPath
<1>8. SettingsPath \in [1 .. idx -> Nat]
  BY <1>0, <1>5, <1>6 DEF SettingsPath
<1>9. SettingsPath \in Seq(Nat) /\ Len(SettingsPath) = idx
  <2>1. idx \in Nat
    BY <1>1
  <2> QED BY <2>1, <1>8, SeqDef, LenProperties
<1>10. \A k \in 1 .. idx - 1 : SettingsPath[k + 1] = settings_stack.pos[k]
  <2>1. \A k \in 1 .. idx - 1 : k + 1 \in 1 .. idx /\ k + 1 # 1 /\ (k + 1) - 1 = k
    BY <1>1
  <2> QED BY <2>1, <1>4
<1>11. SettingsPath[1] = 0
  BY <1>1, <1>4
<1>12. LeadsAlong(SettingsPath, way)
  BY <1>0, <1>2, <1>9, <1>10, <1>11 DEF LeadsAlong, IsWay
<1>13. way \in Ways(SettingsPath) /\ way[idx] = settings_p
  BY <1>0, <1>2, <1>9, <1>12 DEF Ways, IsWay
<1> QED BY <1>0, <1>1, <1>7, <1>9, <1>11, <1>13

(* What is shown is a list of the tree, with as many items. *)
ShownInv ==
  /\ PathShown \in Lists /\ Items(PathShown) = fileCnt
  /\ PathShown \in Seq(Nat)
  /\ ~settings_mode => PathShown = currentDir
  /\ settings_mode => Len(PathShown) = settings_stack.idx

LEMMA ShownIsList == IInv /\ WayInv => ShownInv
<1> SUFFICES ASSUME IInv, WayInv PROVE ShownInv
  OBVIOUS
<1>1. CASE ~settings_mode
  <2>1. /\ PathShown = currentDir /\ currentDir \in Tree
        /\ currentDir \in Seq(Nat)
    BY <1>1, DirPathIs DEF PathShown, IInv, DirInv
  <2>2. fileCnt = FileCnt[currentDir]
    BY <1>1 DEF IInv, ListInv, ListCountIsCurrent
  <2> QED BY <1>1, <2>1, <2>2 DEF ShownInv, Lists, Items
<1>2. CASE settings_mode
  <2>0. PICK p, idx : p = SettingsPath /\ idx = settings_stack.idx
    OBVIOUS
  <2>1. /\ p \in Seq(Nat) /\ Len(p) = idx
        /\ p \in [1 .. idx -> EntryNumbers]
        /\ idx \in 1 .. MAX_SETTING_STACK_LEVEL
        /\ p[1] = 0
    BY <1>2, <2>0, SettingsPathIs
  <2>2. PICK way \in Ways(p) : way[idx] = settings_p
    BY <1>2, <2>0, SettingsPathIs
  <2>3. p # Root /\ p \notin Tree
    <3>1. Len(p) # 0
      BY <2>1
    <3>2. p # Root
      BY <3>1 DEF Root
    <3> QED BY <2>1, <3>2, SettingsApart
  <2>4. p \in Lists
    BY <2>1, <2>2 DEF Lists
  <2>5. PICK w \in Ways(p) : w = CHOOSE v \in Ways(p) : TRUE
    BY <2>2
  <2>6. w[idx] = settings_p
    <3>1. idx \in 1 .. Len(p) /\ Len(p) \in Nat
      BY <2>1
    <3> QED BY <3>1, <2>2, OneWay
  <2>7. Items(p) = Cardinality(DOMAIN Menu[settings_p])
    BY <2>1, <2>3, <2>5, <2>6 DEF Items
  <2>8. fileCnt \in Nat \ {0} /\ DOMAIN Menu[settings_p] = 0 .. fileCnt - 1
    BY <1>2 DEF IInv, ListInv, ListCountIsCurrent
  <2>9. Cardinality(0 .. fileCnt - 1) = fileCnt
    <3>1. 0 \in Int /\ fileCnt - 1 \in Int
      BY <2>8
    <3> QED BY <2>8, <3>1, FS_Interval
  <2> QED BY <1>2, <2>0, <2>1, <2>4, <2>7, <2>8, <2>9 DEF ShownInv, PathShown
<1> QED BY <1>1, <1>2 DEF IInv, ListInv

(* A sequence that goes one item further. *)
LEMMA OneFurther ==
  ASSUME NEW p \in Seq(Nat), NEW q \in Seq(Nat), NEW e \in Nat,
         Len(q) = Len(p) + 1, q[Len(p) + 1] = e,
         \A k \in 1 .. Len(p) : q[k] = p[k]
  PROVE  q = Append(p, e)
<1>1. /\ Append(p, e) \in Seq(Nat) /\ Len(Append(p, e)) = Len(p) + 1
      /\ \A k \in 1 .. Len(p) : Append(p, e)[k] = p[k]
      /\ Append(p, e)[Len(p) + 1] = e
  BY AppendProperties
<1>2. Len(p) \in Nat
  BY LenProperties
<1>3. \A k \in 1 .. Len(q) : q[k] = Append(p, e)[k]
  <2>1. \A k \in 1 .. Len(p) + 1 : k \in 1 .. Len(p) \/ k = Len(p) + 1
    BY <1>2
  <2> QED BY <1>1, <2>1
<1> QED BY <1>1, <1>3, SeqEqual

(* A sequence that goes one item less far. *)
LEMMA OneLess ==
  ASSUME NEW p \in Seq(Nat), NEW q \in Seq(Nat), Len(p) = Len(q) + 1,
         \A k \in 1 .. Len(q) : q[k] = p[k]
  PROVE  q = SubSeq(p, 1, Len(p) - 1)
<1> DEFINE n == Len(p) - 1
<1>1. Len(q) \in Nat /\ n = Len(q)
  BY LenProperties
<1>2. \A k \in 1 .. n : p[k] \in Nat
  <2>1. \A k \in 1 .. n : k \in 1 .. Len(p)
    BY <1>1
  <2> QED BY <2>1, ElementOfSeq
<1> HIDE DEF n
<1>3. /\ SubSeq(p, 1, n) \in Seq(Nat)
      /\ Len(SubSeq(p, 1, n)) = IF 1 <= n THEN n - 1 + 1 ELSE 0
      /\ \A k \in 1 .. n - 1 + 1 : SubSeq(p, 1, n)[k] = p[1 + k - 1]
  <2>1. 1 \in Int /\ n \in Int
    BY <1>1
  <2> QED BY <1>2, <2>1, SubSeqProperties
<1>4. Len(SubSeq(p, 1, n)) = Len(q) /\ \A k \in 1 .. Len(q) : q[k] = SubSeq(p, 1, n)[k]
  BY <1>1, <1>3
<1>5. q = SubSeq(p, 1, n)
  BY <1>3, <1>4, SeqEqual
<1> QED BY <1>5 DEF n

(* Opening and going back, of either kind of list. *)
LEMMA PathOpens ==
  ASSUME NEW p \in Seq(Nat), PathShown = p, PathShown' \in Seq(Nat),
         Len(PathShown') = Len(p) + 1, PathShown'[Len(p) + 1] = Selected,
         \A k \in 1 .. Len(p) : PathShown'[k] = p[k],
         Selected \in Nat, Selected' = 0, PathShown' \in Lists
  PROVE  Path!Open
<1>1. PathShown' = Append(PathShown, Selected)
  BY OneFurther
<1> QED BY <1>1 DEF Path!Open

LEMMA PathGoesBack ==
  ASSUME NEW p \in Seq(Nat), PathShown = p, PathShown' \in Seq(Nat),
         Len(p) = Len(PathShown') + 1, Selected = 0, Selected' = p[Len(p)],
         \A k \in 1 .. Len(PathShown') : PathShown'[k] = p[k]
  PROVE  Path!Back
<1>1. PathShown' = SubSeq(PathShown, 1, Len(PathShown) - 1)
  BY OneLess
<1>2. p # <<>>
  <2>1. Len(PathShown') \in Nat
    BY LenProperties
  <2>2. Len(p) # 0
    BY <2>1
  <2> QED BY <2>2
<1> QED BY <1>1, <1>2 DEF Path!Back

(* MoveTo highlights what it is told to. *)
LEMMA Highlights ==
  ASSUME NEW id \in Nat, MoveTo(id)
  PROVE  Selected' = id
BY PageLine DEF MoveTo, Selected

LEMMA NavChild ==
  ASSUME IInv, ShownInv, ShownInv', ~settings_mode, ~settings_mode',
         ChangeToChild(Selected)
  PROVE  Path!Open
<1>1. /\ currentDir \in Tree /\ currentDir' \in Tree
      /\ currentDir' = Append(currentDir, Selected)
      /\ pos' = 0 /\ pageIdx' = 0
  BY DEF ChangeToChild, IInv, DirInv
<1>2. Selected \in Nat
  BY SelectedNat DEF IInv
<1>3. /\ PathShown = currentDir /\ currentDir \in Seq(Nat)
      /\ PathShown' = currentDir' /\ currentDir' \in Seq(Nat)
      /\ PathShown' \in Lists
  BY DEF ShownInv
<1>4. /\ Len(currentDir') = Len(currentDir) + 1
      /\ currentDir'[Len(currentDir) + 1] = Selected
      /\ \A k \in 1 .. Len(currentDir) : currentDir'[k] = currentDir[k]
  BY <1>1, <1>2, ChildOf
<1>5. Selected' = 0
  BY <1>1, PageAssumption DEF Selected
<1> QED BY <1>2, <1>3, <1>4, <1>5, PathOpens

LEMMA NavParent ==
  ASSUME IInv, ShownInv, ShownInv', ~settings_mode, ~settings_mode',
         ChangeToParent(Selected)
  PROVE  Path!Back
<1>1. /\ currentDir \in Tree /\ currentDir # Root
      /\ currentDir' = Parent(currentDir)
      /\ dirLevel = Len(currentDir) /\ dirLevel' = dirLevel - 1
      /\ pageIdx' = dirCursorStack[dirLevel'].pageIdx
      /\ pos' = dirCursorStack[dirLevel'].pos
      /\ Selected = 0
  BY DEF ChangeToParent, IInv, DirInv
<1>2. /\ PathShown = currentDir /\ currentDir \in Seq(Nat)
      /\ PathShown' = currentDir' /\ currentDir' \in Seq(Nat)
  BY DEF ShownInv
<1>3. /\ dirLevel \in Nat \ {0}
      /\ Len(currentDir') = dirLevel - 1
      /\ \A k \in 1 .. dirLevel - 1 : currentDir'[k] = currentDir[k]
  BY <1>1, ParentOf
<1>4. Selected' = currentDir[dirLevel]
  <2>1. dirLevel' \in 0 .. dirLevel - 1 /\ dirLevel' + 1 = dirLevel
    BY <1>1, <1>3
  <2> QED BY <1>1, <2>1 DEF IInv, DirInv, Selected
<1>5. Len(currentDir) = Len(currentDir') + 1
  BY <1>1, <1>3
<1> QED BY <1>1, <1>2, <1>3, <1>4, <1>5, PathGoesBack

LEMMA NavOpenSettings ==
  ASSUME IInv, ShownInv, ShownInv', OpenSettings(Selected)
  PROVE  Path!Open
<1>1. /\ ~settings_mode /\ settings_mode' = TRUE
      /\ currentDir = Root /\ Selected = 0 /\ MoveTo(0)
      /\ settings_stack'.idx = 1
  BY DEF OpenSettings, IInv, SettingsInv
<1>2. /\ PathShown = <<>> /\ <<>> \in Seq(Nat)
      /\ PathShown' \in Seq(Nat) /\ PathShown' \in Lists
      /\ Len(PathShown') = 1
  BY <1>1 DEF ShownInv, Root
<1>3. PathShown'[1] = 0
  BY <1>1 DEF PathShown, SettingsPath
<1>4. Selected' = 0
  BY <1>1, Highlights
<1>5. Len(<<>>) = 0 /\ 0 + 1 = 1 /\ 1 .. 0 = {}
  OBVIOUS
<1> QED BY <1>1, <1>2, <1>3, <1>4, <1>5, PathOpens

LEMMA NavLeaveSettings ==
  ASSUME IInv, ShownInv, ShownInv', LeaveSettings(Selected)
  PROVE  Path!Back
<1>1. /\ settings_mode /\ settings_mode' = FALSE
      /\ currentDir' = Root /\ Selected = 0 /\ MoveTo(0)
      /\ Menu[settings_p][0].next = NULL
  BY DEF LeaveSettings
<1>2. settings_p = settings_root_list
  BY <1>1, MenuAssumption DEF IInv, ListInv
<1>3. settings_stack.idx = 1
  <2>1. PICK chain : IsChain(chain, settings_stack.idx, settings_p, settings_stack)
    BY <1>1 DEF IInv, SettingsInv
  <2>2. settings_stack.idx \in 1 .. settings_stack.idx
    BY <1>1, MenuAssumption DEF IInv, SettingsInv
  <2> QED BY <1>2, <2>1, <2>2, MenuAssumption DEF IsChain
<1>4. /\ PathShown \in Seq(Nat) /\ Len(PathShown) = 1
      /\ PathShown' = <<>> /\ PathShown' \in Seq(Nat)
  BY <1>1, <1>3 DEF ShownInv, Root
<1>5. PathShown[1] = 0
  BY <1>1, <1>3 DEF PathShown, SettingsPath
<1>6. Selected' = 0
  BY <1>1, Highlights
<1> QED BY <1>1, <1>4, <1>5, <1>6, PathGoesBack

LEMMA NavSettingsBack ==
  ASSUME IInv, IInv', ShownInv, ShownInv', SettingsBack(Selected)
  PROVE  Path!Back
<1>0. PICK idx, back : idx = settings_stack.idx /\ back = settings_stack.pos[idx - 1]
  OBVIOUS
<1>1. /\ settings_mode /\ settings_mode' /\ Selected = 0
      /\ settings_stack' = [settings_stack EXCEPT !.idx = idx - 1]
      /\ MoveTo(back)
  BY <1>0 DEF SettingsBack
<1>2. settings_stack'.idx = idx - 1 /\ settings_stack'.pos = settings_stack.pos
  BY <1>1 DEF IInv, SettingsInv
<1>3. /\ PathShown \in Seq(Nat) /\ Len(PathShown) = idx
      /\ PathShown' \in Seq(Nat) /\ Len(PathShown') = idx - 1
  BY <1>0, <1>1, <1>2 DEF ShownInv
<1>4. idx \in Nat /\ idx - 1 \in Nat
  BY <1>3, LenProperties
<1>5. /\ \A k \in 1 .. idx :
           PathShown[k] = IF k = 1 THEN 0 ELSE settings_stack.pos[k - 1]
      /\ \A k \in 1 .. idx - 1 :
           PathShown'[k] = IF k = 1 THEN 0 ELSE settings_stack.pos[k - 1]
  BY <1>0, <1>1, <1>2 DEF PathShown, SettingsPath
<1>6. idx # 1
  <2>1. settings_stack'.idx \in 1 .. MAX_SETTING_STACK_LEVEL
    BY <1>1 DEF IInv, SettingsInv
  <2> QED BY <1>2, <2>1, MenuAssumption
<1>7. \A k \in 1 .. idx - 1 : PathShown'[k] = PathShown[k]
  <2>1. \A k \in 1 .. idx - 1 : k \in 1 .. idx
    BY <1>4
  <2> QED BY <1>5, <2>1
<1>8. PathShown[idx] = back /\ back \in Nat
  <2>1. idx \in 1 .. idx
    BY <1>4, <1>6
  <2> QED BY <1>0, <1>3, <1>5, <1>6, <2>1, ElementOfSeq
<1>9. Selected' = back
  BY <1>1, <1>8, Highlights
<1> QED BY <1>1, <1>3, <1>4, <1>7, <1>8, <1>9, PathGoesBack

LEMMA NavSettingsForward ==
  ASSUME IInv, IInv', ShownInv, ShownInv', SettingsForward(Selected)
  PROVE  Path!Open
<1>0. PICK idx, pos1 :
        /\ idx = settings_stack.idx
        /\ pos1 = [settings_stack.pos EXCEPT ![idx] = Selected]
  OBVIOUS
<1>1. /\ settings_mode /\ settings_mode' /\ MoveTo(0)
      /\ settings_stack'.idx = idx + 1 /\ settings_stack'.pos = pos1
  BY <1>0 DEF SettingsForward
<1>2. /\ PathShown \in Seq(Nat) /\ Len(PathShown) = idx
      /\ PathShown' \in Seq(Nat) /\ Len(PathShown') = idx + 1
      /\ PathShown' \in Lists
  BY <1>0, <1>1 DEF ShownInv
<1>3. /\ \A k \in 1 .. idx :
           PathShown[k] = IF k = 1 THEN 0 ELSE settings_stack.pos[k - 1]
      /\ \A k \in 1 .. idx + 1 :
           PathShown'[k] = IF k = 1 THEN 0 ELSE pos1[k - 1]
  BY <1>0, <1>1 DEF PathShown, SettingsPath
<1>4. idx \in 1 .. MAX_SETTING_STACK_LEVEL /\ MAX_SETTING_STACK_LEVEL \in Nat
  BY <1>0, <1>1, MenuAssumption DEF IInv, SettingsInv
<1>5. pos1[idx] = Selected /\ \A k \in 1 .. idx - 1 : pos1[k] = settings_stack.pos[k]
  <2>1. DOMAIN settings_stack.pos = StackLevels
    BY DEF IInv, SettingsInv
  <2>2. settings_stack'.idx \in 1 .. MAX_SETTING_STACK_LEVEL
    BY <1>1 DEF IInv, SettingsInv
  <2>3. idx \in StackLevels
    BY <1>1, <1>4, <2>2 DEF StackLevels
  <2> QED BY <1>0, <1>4, <2>1, <2>3 DEF StackLevels
<1>6. \A k \in 1 .. idx : PathShown'[k] = PathShown[k]
  <2> SUFFICES ASSUME NEW k \in 1 .. idx PROVE PathShown'[k] = PathShown[k]
    OBVIOUS
  <2>1. k \in 1 .. idx + 1 /\ (k # 1 => k - 1 \in 1 .. idx - 1)
    BY <1>4
  <2> QED BY <1>3, <1>5, <2>1
<1>7. PathShown'[idx + 1] = Selected
  <2>1. idx + 1 \in 1 .. idx + 1 /\ idx + 1 # 1 /\ (idx + 1) - 1 = idx
    BY <1>4
  <2> QED BY <1>3, <1>5, <2>1
<1>8. Selected \in Nat
  BY SelectedNat DEF IInv
<1>9. Selected' = 0
  BY <1>1, Highlights
<1> QED BY <1>2, <1>6, <1>7, <1>8, <1>9, PathOpens

(* The path is read off these variables. *)
LEMMA PathStays ==
  ASSUME UNCHANGED <<pos, pageIdx, dirVars, settingsVars>>
  PROVE  UNCHANGED <<PathShown, Selected>>
BY DEF PathShown, DirPath, SettingsPath, dirVars, settingsVars, Selected

(* Whatever is tapped, the path follows. *)
LEMMA NavEnter ==
  ASSUME IInv, IInv', ShownInv, ShownInv', NEW repeat, Enter(Selected, repeat)
  PROVE  Path!Next \/ UNCHANGED <<PathShown, Selected>>
<1>1. Selected \in Nat
  BY SelectedNat DEF IInv
<1>2. CASE SettingsChoose(Selected) \/ EnterFile(Selected, repeat)
  <2>1. UNCHANGED <<pos, pageIdx, dirVars, settingsVars>>
    BY <1>2 DEF SettingsChoose, EnterFile, listVars, cursorVars
  <2> QED BY <2>1, PathStays
<1>3. CASE EnterDirectory(Selected)
  <2>1. /\ ~settings_mode /\ ~settings_mode'
        /\ ChangeToParent(Selected) \/ ChangeToChild(Selected)
    BY <1>3 DEF EnterDirectory, changeDir, settingsVars
  <2> QED BY <2>1, NavParent, NavChild DEF Path!Next
<1>4. CASE EnterSettings(Selected) /\ ~SettingsChoose(Selected)
  BY <1>4, NavOpenSettings, NavLeaveSettings, NavSettingsBack,
     NavSettingsForward DEF EnterSettings, Path!Next
<1> QED BY <1>2, <1>3, <1>4 DEF Enter

(* Within a list the cursor goes to one of its items, or one behind them.  *)
(* A finger moves it only while no file is in use.                         *)
LEMMA NavWithin ==
  ASSUME IInv, IInv', ShownInv, KeepInv, KeepInv', ~Serial, [Next]_vars,
         ~Tim9Tick
  PROVE  Path!Highlight \/ UNCHANGED <<PathShown, Selected>>
<1>1. UNCHANGED <<fileCnt, dirVars, settingsVars>>
  BY DEF Next, SerialKey, PenDown, PenSample, PenUp, ListUnchanged, Main,
         StartMassStorage, StartPlayer, PlayerReturns, PlayOn, LeavePlayer,
         StartFont, FontListed, FontDone, MassStorageLoop, MainUnchanged, vars,
         listVars
<1>2. PathShown' = PathShown
  BY <1>1 DEF PathShown, DirPath, SettingsPath, dirVars, settingsVars
<1>3. fileCnt \in Nat \ {0} /\ idEntry \in Nat /\ Selected \in Nat
  BY SelectedNat DEF IInv, ListInv, PlayInv
<1>4. Items(PathShown) = fileCnt
  BY DEF ShownInv
<1>5. CASE UNCHANGED cursorVars
  BY <1>2, <1>5 DEF cursorVars, Selected
<1>6. CASE Selected' \in 0 .. fileCnt
  BY <1>2, <1>4, <1>6 DEF Path!Highlight
<1>7. CASE PenSample /\ ~UNCHANGED cursorVars
  <2>1. /\ touchRepeat /\ main' = main /\ waitExitKey' = waitExitKey
        /\ idEntry' = idEntry
    BY <1>7 DEF PenSample, playVars, listVars
  <2>2. ~FileInUse /\ ~stray'
    BY <2>1 DEF KeepInv
  <2>3. ~Playing'
    BY <2>1, <2>2 DEF FileInUse, Playing
  <2>4. Selected' < fileCnt' \/ Selected' = fileCnt'
    BY <2>2, <2>3 DEF IInv, CursorInv
  <2>5. Selected' \in Nat
    <3>1. pos' \in Nat /\ pageIdx' \in Nat
      BY PageAssumption DEF IInv, CursorInv, Lines
    <3>2. \A p \in Nat : p * PAGE_NUM_ITEMS \in Nat
      BY PageAssumption
    <3> QED BY <3>1, <3>2 DEF Selected
  <2> QED BY <1>1, <1>3, <1>6, <2>4, <2>5
<1>8. CASE PlayOn \/ LeavePlayer
  <2>1. CASE MoveTo(idEntry')
    <3>1. idEntry' \in 0 .. fileCnt
      <4>1. FileInUse /\ ~stray
        BY <1>8 DEF PlayOn, LeavePlayer, FileInUse, Playing, KeepInv
      <4>2. idEntry <= fileCnt
        BY <4>1 DEF IInv, PlayInv
      <4> QED BY <1>3, <1>8, <4>2 DEF PlayOn, LeavePlayer, NextEntry
    <3>2. Selected' = idEntry'
      BY <1>3, <2>1, <3>1, PageLine DEF MoveTo, Selected
    <3> QED BY <1>6, <3>1, <3>2
  <2> QED BY <1>5, <1>8, <2>1 DEF PlayOn, LeavePlayer
<1> QED BY <1>5, <1>7, <1>8
        DEF Next, SerialKey, PenDown, PenUp, Main, StartMassStorage, StartPlayer,
            PlayerReturns, StartFont, FontListed, FontDone, MassStorageLoop,
            vars, listVars

(* With the panel alone the browser keeps its promise: a list is opened    *)
(* from the highlighted item, and the way back finds that item again       *)
(* (LCDCursorEnter, changeDir, LCDTouchPoint, LCDTouchReleased, main).     *)
THEOREM ImplementsPathNav == ASSUME ~Serial PROVE Spec => PathNavSpec
<1>1. Init => Path!Init
  <2> SUFFICES ASSUME Init PROVE PathShown = <<>> /\ Selected = 0
    BY DEF Path!Init
  <2>1. /\ ~settings_mode /\ pos = 0 /\ pageIdx = 0 /\ currentDir = <<>>
    BY DEF Init, DirInit, SettingsInit, Root
  <2>2. DirPath = currentDir
    BY InitInv, DirPathIs
  <2> QED BY <2>1, <2>2, PageAssumption DEF PathShown, Selected
<1>2. IInv /\ IInv' /\ ShownInv /\ ShownInv' /\ KeepInv /\ KeepInv' /\ [Next]_vars
        => [Path!Next]_<<PathShown, Selected>>
  <2> SUFFICES ASSUME IInv, IInv', ShownInv, ShownInv', KeepInv, KeepInv',
                      [Next]_vars
               PROVE  [Path!Next]_<<PathShown, Selected>>
    OBVIOUS
  <2>1. CASE ~Tim9Tick
    BY <2>1, NavWithin DEF Path!Next
  <2>2. CASE Tim9Tick /\ Enter(Selected, FALSE)
    BY <2>2, NavEnter
  <2>3. CASE Tim9Tick /\ ~Enter(Selected, FALSE)
    <3>1. UNCHANGED <<pos, pageIdx, dirVars, settingsVars>>
      BY <2>3 DEF Tim9Tick, LCDTouchReleased, listVars, cursorVars
    <3> QED BY <3>1, PathStays
  <2> QED BY <2>1, <2>2, <2>3
<1> QED BY <1>1, <1>2, InductiveInvariant, TitleInvariant, KeepInvariant,
           ShownIsList, PTL DEF Spec, PathNavSpec, Path!Spec
=============================================================================
