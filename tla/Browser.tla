------------------------------ MODULE Browser -------------------------------
(***************************************************************************)
(* The file browser: the list on the screen, driven from two interrupt     *)
(* handlers (the touch panel of xpt2046.c, the serial console of usart.c)  *)
(* while the main loop of main.c, which they interrupt, starts and leaves  *)
(* the players.                                                            *)
(*                                                                         *)
(* The handlers have the same priority and run to the end once started, so *)
(* each is one step; only a pen that stays down is several steps, in which *)
(* nothing else runs.  The main loop has the steps between which a handler *)
(* can come.                                                               *)
(***************************************************************************)
EXTENDS SettingsMenu

CONSTANTS
  Touch,     (* there is a touch panel            *)
  Serial     (* there is a terminal on the USART  *)

ASSUME InputAssumption == {Touch, Serial} \subseteq BOOLEAN

VARIABLES
  main,               (* what the main loop is doing                        *)
  waitExitKey,        (* LCDStatusStruct.waitExitKey                        *)
  idEntry,            (* LCDStatusStruct.idEntry: the item to play          *)
  usb_msc_enable,
  flag_make_rand,     (* shuffle_play.flag_make_rand: there is a table ...  *)
  shuffleDir,         (* ... made for the list of this directory            *)
  touchFunc,          (* touch.func: the "list"'s, or the "player"'s        *)
  touchRepeat,        (* touch.repeat: the list accepts touches             *)
  touchUpdate,        (* touch.update: a position was reported in this tick *)
  pen,                (* the TIM5 handler is sampling a pen that is down    *)
  tim9,               (* TIM9, the pen release timer, is running            *)
  stray               (* an Enter came while a file of the list was in use  *)

playVars == <<main, waitExitKey, idEntry, usb_msc_enable, flag_make_rand,
              shuffleDir>>
touchVars == <<touchFunc, touchRepeat, touchUpdate, pen, tim9>>
listVars == <<cursorVars, pages, fileCnt, currentDirName, dirVars, settingsVars>>

vars == <<listVars, strokeVars, playVars, touchVars, stray>>

(* "file" and "font" stand for the file types of a player and of a PCF     *)
(* font, "key" for any other value but 0, which is "none".                 *)
ExitKeys == {"none", "key", "file", "font"}

(* In "between" a player has returned and the loop around it has not been  *)
(* left yet; in "listed" a font is loaded and waitExitKey not yet cleared. *)
MainStates == {"loop", "player", "between", "font", "listed", "usb"}

Init ==
  /\ DirInit /\ SettingsInit
  /\ pos = 0 /\ pageIdx = 0
  /\ fileCnt = FileCnt[Root]
  /\ pages = (FileCnt[Root] - 1) \div PAGE_NUM_ITEMS
  /\ firstTouchedItem = 0 /\ currentTouchItem = 0
  /\ main = "loop" /\ waitExitKey = "none" /\ idEntry = 0
  /\ usb_msc_enable = FALSE
  /\ flag_make_rand = FALSE /\ shuffleDir = Root
  /\ touchFunc = "list" /\ touchRepeat = TRUE /\ touchUpdate = FALSE
  /\ pen = FALSE /\ tim9 = FALSE
  /\ stray = FALSE

-----------------------------------------------------------------------------
(* LCDCursorEnter of item id.  An item that is not on the list would be    *)
(* read from behind its end; the model stops there.                        *)

(* LCDPrintFileList and LCDPrintSettingsList give the touches to the list. *)
ListPrinted == touchFunc' = "list" /\ touchRepeat' = TRUE

EnterSettings(id) ==
  /\ \/ OpenSettings(id)
     \/ LeaveSettings(id)
     \/ SettingsBack(id)
     \/ SettingsForward(id)
     \/ SettingsChoose(id)
  /\ usb_msc_enable' = (usb_msc_enable \/ ConnectsHost(id))
  /\ ListPrinted
  /\ UNCHANGED <<waitExitKey, idEntry, flag_make_rand>>

(* Mutant: the shuffle table is kept. *)
EnterDirectoryKeepsTable(id) ==
  /\ ~settings_mode
  /\ changeDir(id)
  /\ ListPrinted
  /\ UNCHANGED <<settingsVars, waitExitKey, idEntry, usb_msc_enable,
                 flag_make_rand>>

EnterDirectory(id) ==
  /\ ~settings_mode
  /\ changeDir(id)
  /\ flag_make_rand' = FALSE
  /\ ListPrinted
  /\ UNCHANGED <<settingsVars, waitExitKey, idEntry, usb_msc_enable>>

(* Mutant: the list goes on accepting touches. *)
EnterFileTouchable(id, repeat) ==
  /\ ~settings_mode
  /\ id # 0 /\ Append(currentDir, id) \notin Tree
  /\ \/ waitExitKey' \in {"file", "font"} /\ idEntry' = id
     \/ UNCHANGED <<waitExitKey, idEntry>>
  /\ touchRepeat' = TRUE
  /\ UNCHANGED <<listVars, usb_msc_enable, flag_make_rand, touchFunc>>

(* The extension says whether a file has a player, is a font or neither.   *)
(* touch.repeat was put to `repeat` before.                                *)
EnterFile(id, repeat) ==
  /\ ~settings_mode
  /\ id # 0 /\ Append(currentDir, id) \notin Tree
  /\ \/ /\ waitExitKey' \in {"file", "font"}
        /\ idEntry' = id
        /\ touchRepeat' = repeat
     \/ touchRepeat' = TRUE /\ UNCHANGED <<waitExitKey, idEntry>>
  /\ UNCHANGED <<listVars, usb_msc_enable, flag_make_rand, touchFunc>>

Playing == main \in {"player", "between"}

(* A file of the list waits for its player or is played. *)
FileInUse == Playing \/ (main = "loop" /\ waitExitKey # "none")

Enter(id, repeat) ==
  /\ id < fileCnt
  /\ EnterSettings(id) \/ EnterDirectory(id) \/ EnterFile(id, repeat)
  /\ stray' = (stray \/ FileInUse)
  /\ UNCHANGED <<main, shuffleDir>>

(* Turning the page draws the list again. *)
RedrawIfTurned ==
  \/ pageIdx' # pageIdx /\ ListPrinted
  \/ pageIdx' = pageIdx /\ UNCHANGED <<touchFunc, touchRepeat>>

ListUnchanged ==
  UNCHANGED <<pages, fileCnt, currentDirName, dirVars, settingsVars>>

-----------------------------------------------------------------------------
(* USART3_IRQHandler *)

CursorKey ==
  /\ LCDCursorUp \/ LCDCursorDown
  /\ RedrawIfTurned /\ ListUnchanged
  /\ UNCHANGED <<strokeVars, playVars, touchUpdate, pen, tim9, stray>>

(* CURSOR_ENTER, and CURSOR_LEFT, which goes to item 0 first. *)
EnterKey ==
  /\ Enter(Selected, touchRepeat) \/ Enter(0, touchRepeat)
  /\ UNCHANGED <<strokeVars, touchUpdate, pen, tim9>>

(* While something plays a key only sets waitExitKey, 'e' to 0. *)
ExitKey ==
  /\ waitExitKey' \in ExitKeys
  /\ UNCHANGED <<listVars, strokeVars, main, idEntry, usb_msc_enable,
                 flag_make_rand, shuffleDir, touchVars, stray>>

SerialKey ==
  /\ Serial /\ ~pen
  /\ \/ waitExitKey # "none" /\ ExitKey
     \/ waitExitKey = "none" /\ (CursorKey \/ EnterKey)

-----------------------------------------------------------------------------
(* The touch panel: EXTI4_IRQHandler and TIM5_IRQHandler while the pen is  *)
(* down, TIM9 (TIM1_BRK_TIM9_IRQHandler) after it.                         *)

PenDown ==
  /\ Touch /\ ~pen /\ main # "usb"
  /\ pen' = TRUE /\ tim9' = TRUE
  /\ UNCHANGED <<listVars, strokeVars, playVars, touchFunc, touchRepeat,
                 touchUpdate, stray>>

(* One position, the average of 600 samples.  The touch functions of the   *)
(* players do not move the list.                                           *)
PenSample ==
  /\ pen
  /\ touchUpdate' = TRUE
  /\ \/ /\ touchFunc = "list" /\ touchRepeat
        /\ \E line \in TouchLine : LCDTouchPoint(line, touchUpdate)
        /\ RedrawIfTurned /\ ListUnchanged
     \/ /\ touchFunc # "list" \/ ~touchRepeat
        /\ UNCHANGED <<listVars, strokeVars, touchFunc, touchRepeat>>
  /\ UNCHANGED <<playVars, pen, tim9, stray>>

PenUp ==
  /\ pen
  /\ pen' = FALSE
  /\ UNCHANGED <<listVars, strokeVars, playVars, touchFunc, touchRepeat,
                 touchUpdate, tim9, stray>>

(* LCDTouchReleased: a stroke that stayed on one line opens the            *)
(* highlighted item.                                                       *)
Tapped == currentTouchItem # -1 /\ currentTouchItem = firstTouchedItem

LCDTouchReleased ==
  \/ /\ ~Tapped
     /\ UNCHANGED <<listVars, strokeVars, playVars, touchFunc, touchRepeat,
                    stray>>
  \/ /\ Tapped
     /\ Enter(Selected, FALSE)
     /\ currentTouchItem' = 0 /\ firstTouchedItem' = NoItem

(* The stroke ends at the first tick without a new position. *)
Tim9Tick ==
  /\ tim9 /\ ~pen
  /\ touchUpdate' = FALSE
  /\ \/ /\ ~touchUpdate
        /\ tim9' = FALSE
        /\ LCDTouchReleased
     \/ /\ touchUpdate
        /\ UNCHANGED <<listVars, strokeVars, playVars, touchFunc, touchRepeat,
                       tim9, stray>>
  /\ UNCHANGED pen

-----------------------------------------------------------------------------
(* The main loop.  It never runs while an interrupt handler does. *)

MainUnchanged ==
  UNCHANGED <<pages, fileCnt, currentDirName, dirVars, settingsVars, strokeVars,
              touchUpdate, pen, tim9, stray>>

(* MassStorage: the card is the host's from here on, the panel is off. *)
StartMassStorage ==
  /\ ~pen /\ main = "loop" /\ usb_msc_enable
  /\ main' = "usb"
  /\ touchFunc' = "none"
  /\ MainUnchanged
  /\ UNCHANGED <<cursorVars, waitExitKey, idEntry, usb_msc_enable,
                 flag_make_rand, shuffleDir, touchRepeat>>

(* while(1): nothing but the USB interrupts runs from here on. *)
MassStorageLoop == main = "usb" /\ UNCHANGED vars

StartPlayer ==
  /\ ~pen /\ main = "loop" /\ waitExitKey = "file"
  /\ main' = "player"
  /\ touchFunc' = "player"
  /\ MainUnchanged
  /\ UNCHANGED <<cursorVars, waitExitKey, idEntry, usb_msc_enable,
                 flag_make_rand, shuffleDir, touchRepeat>>

(* A player returns, having made a shuffle table of the list or not; the   *)
(* picture viewer gives the touches back to the list here.                 *)
PlayerReturns ==
  /\ ~pen /\ main = "player"
  /\ main' = "between"
  /\ waitExitKey' = "none"
  /\ touchFunc' \in {"player", "list"}
  /\ \/ flag_make_rand' = TRUE /\ shuffleDir' = currentDir
     \/ UNCHANGED <<flag_make_rand, shuffleDir>>
  /\ MainUnchanged
  /\ UNCHANGED <<cursorVars, idEntry, usb_msc_enable, touchRepeat>>

(* Mutant: the track before the first is not ruled out. *)
NextEntryUnbounded == {idEntry - 1} \union 0 .. fileCnt

(* The item the loop around the player goes on with: the same, another of  *)
(* the list, or one step off either end (the loops are modelled in Playlist *)
(* and PhotoFrame).  Left out: in shuffle mode a movie that cannot be       *)
(* played sends the cursor wherever the table of the list before says; see  *)
(* EntryOnList of Playlist.                                                *)
NextEntry == {idEntry} \union 0 .. fileCnt

(* Another round: the next track, or a key that came in between.  The loop *)
(* around the picture viewer moves the cursor every time.                  *)
PlayOn ==
  /\ ~pen /\ main = "between"
  /\ main' = "player"
  /\ waitExitKey' = IF waitExitKey = "none" THEN "key" ELSE waitExitKey
  /\ idEntry' \in NextEntry
  /\ MoveTo(idEntry') \/ UNCHANGED cursorVars
  /\ touchFunc' = "player"
  /\ MainUnchanged
  /\ UNCHANGED <<usb_msc_enable, flag_make_rand, shuffleDir, touchRepeat>>

(* The loop ends: the item played last is highlighted and the list shown. *)
LeavePlayer ==
  /\ ~pen /\ main = "between" /\ waitExitKey = "none"
  /\ main' = "loop"
  /\ idEntry' \in NextEntry
  /\ MoveTo(idEntry')
  /\ ListPrinted
  /\ MainUnchanged
  /\ UNCHANGED <<waitExitKey, usb_msc_enable, flag_make_rand, shuffleDir>>

(* A font is read, the list printed with it, and only then is waitExitKey  *)
(* cleared.                                                                *)
StartFont ==
  /\ ~pen /\ main = "loop" /\ waitExitKey = "font"
  /\ main' = "font"
  /\ MainUnchanged
  /\ UNCHANGED <<cursorVars, waitExitKey, idEntry, usb_msc_enable,
                 flag_make_rand, shuffleDir, touchFunc, touchRepeat>>

FontListed ==
  /\ ~pen /\ main = "font"
  /\ main' = "listed"
  /\ ListPrinted
  /\ MainUnchanged
  /\ UNCHANGED <<cursorVars, waitExitKey, idEntry, usb_msc_enable,
                 flag_make_rand, shuffleDir>>

FontDone ==
  /\ ~pen /\ main = "listed"
  /\ main' = "loop" /\ waitExitKey' = "none"
  /\ MainUnchanged
  /\ UNCHANGED <<cursorVars, idEntry, usb_msc_enable, flag_make_rand,
                 shuffleDir, touchFunc, touchRepeat>>

Main ==
  \/ StartMassStorage \/ MassStorageLoop
  \/ StartPlayer \/ PlayerReturns \/ PlayOn \/ LeavePlayer
  \/ StartFont \/ FontListed \/ FontDone

Next == SerialKey \/ PenDown \/ PenSample \/ PenUp \/ Tim9Tick \/ Main

Spec == Init /\ [][Next]_vars

-----------------------------------------------------------------------------
(* Properties *)

TypeOK ==
  /\ pos \in Nat /\ pageIdx \in Nat /\ pages \in Nat /\ fileCnt \in Nat \ {0}
  /\ currentTouchItem \in TouchLine
  /\ firstTouchedItem \in TouchLine \union {NoItem}
  /\ currentDir \in Tree
  /\ dirLevel \in 0 .. StackDepth
  /\ dirCursorStack \in
       [0 .. StackDepth - 1 -> [pageIdx : 0 .. 255, pos : Nat]]
  /\ idxDirNameStack \in 0 .. NameSlots
  /\ DOMAIN dirNameStack = 0 .. NameSlots - 1
  /\ settings_mode \in BOOLEAN
  /\ settings_p \in DOMAIN Menu \union {NULL}
  /\ main \in MainStates /\ waitExitKey \in ExitKeys /\ idEntry \in Nat
  /\ {usb_msc_enable, flag_make_rand, touchRepeat, touchUpdate, pen, tim9,
      stray} \subseteq BOOLEAN
  /\ shuffleDir \in Tree
  /\ touchFunc \in {"list", "player", "none"}

(* The list whose items the screen shows has fileCnt of them, and pages is *)
(* its last page for the directories: the three ways back to a list        *)
(* (changeDir, LCDCursorEnter and makeFileList) find its size again.       *)
ListCountIsCurrent ==
  IF settings_mode
  THEN /\ DOMAIN Menu[settings_p] = 0 .. fileCnt - 1
       /\ pages = fileCnt \div PAGE_NUM_ITEMS
  ELSE /\ fileCnt = FileCnt[currentDir]
       /\ pages = (fileCnt - 1) \div PAGE_NUM_ITEMS

(* The highlighted item is on the list, on a line of its page, whatever    *)
(* keys and strokes moved it and after every way back; except where a      *)
(* player that skipped off the list has just left it, or when a list was   *)
(* opened under a player's feet (LCDCursorUp, LCDCursorDown,               *)
(* LCDTouchPoint, changeDir, main).                                        *)
CursorOnItem ==
  /\ pos < PAGE_NUM_ITEMS
  /\ \/ Selected < fileCnt
     \/ Selected = idEntry
     \/ Playing \/ stray

(* The cursor stack holds the way to the directory on the screen: level k  *)
(* is the item of that directory's k-th ancestor that leads to it, so ".." *)
(* always finds the item it came through (changeDir).                      *)
DirStackMirrorsPath ==
  /\ dirLevel = Len(currentDir)
  /\ \A k \in 0 .. dirLevel - 1 :
       dirCursorStack[k].pos + dirCursorStack[k].pageIdx * PAGE_NUM_ITEMS
         = currentDir[k + 1]

(* The lists on the way to the settings list on the screen: each is as     *)
(* long as was saved for it, and its saved item, never "..", leads to the  *)
(* next.                                                                   *)
IsWay(path) ==
  /\ path[1] = settings_root_list
  /\ path[settings_stack.idx] = settings_p
  /\ \A k \in 1 .. settings_stack.idx - 1 :
       /\ settings_stack.pos[k] \in DOMAIN Menu[path[k]] \ {0}
       /\ Menu[path[k]][settings_stack.pos[k]].next = path[k + 1]
       /\ DOMAIN Menu[path[k]] = 0 .. settings_stack.items[k] - 1

(* The settings stack holds the way to the settings list on the screen and *)
(* the sizes of the lists on it, within its array (LCDCursorEnter in       *)
(* settings mode; settings_stack of settings.h).                           *)
SettingsStackMirrorsPath ==
  settings_mode =>
    /\ settings_stack.idx \in 1 .. MAX_SETTING_STACK_LEVEL
    /\ \E path \in [1 .. settings_stack.idx -> DOMAIN Menu] : IsWay(path)

(* The title bar names the list below it, after any number of moves into   *)
(* and out of directories and settings, although the names of directories  *)
(* left by way of the root stay on their stack (changeDir).  A settings    *)
(* list has the name of the entry of the list above that opens it.         *)
HeaderNamesList ==
  currentDirName =
    IF ~settings_mode THEN DirName(currentDir)
    ELSE IF settings_stack.idx = 1 THEN SettingsName
    ELSE EntryName(Menu[settings_p][0].next,
                   settings_stack.pos[settings_stack.idx - 1])

(* "Directory stack (nesting depth 32)" is what the comment on             *)
(* dirCursorStack and on the name stack sized after it promises: short of  *)
(* that depth there is room for one more name (changeDir).                 *)
NameStackHasRoom == dirLevel < StackDepth => idxDirNameStack < NameSlots

(* With the panel alone no list is opened while a player uses the one it   *)
(* was started from, although taps are still timed and released under the  *)
(* players (TIM1_BRK_TIM9_IRQHandler calls LCDTouchReleased whatever       *)
(* touch.func is).                                                         *)
PlayerKeepsList == ~Serial => ~stray

(* A shuffle table is used only on the list it was made for: every way out *)
(* of that list forgets it (LCDCursorEnter clears flag_make_rand).         *)
ShuffleTableForList == flag_make_rand /\ ~stray => shuffleDir = currentDir
=============================================================================
