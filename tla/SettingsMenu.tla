---------------------------- MODULE SettingsMenu ----------------------------
(***************************************************************************)
(* Moving between the settings lists (settings_mode in LCDCursorEnter of   *)
(* lcd.c, the list structures of settings.h).                              *)
(*                                                                         *)
(* The lists are constant tables; entry 0 of each is ".." and points to    *)
(* the list above.  The way back down is on settings_stack.                *)
(***************************************************************************)
EXTENDS DirNav, FiniteSets

CONSTANTS
  Menu,                       (* list -> its entries, numbered from 0       *)
  settings_root_list,
  NULL,                       (* no next list                               *)
  MAX_SETTING_STACK_LEVEL,    (* names settings_stack has room for          *)
  Level                       (* how deep a list is below the first, it: 1  *)

(* Every table is as long as the entries that lead to it say, its ".."     *)
(* leads back to the list that holds these entries, and it is no deeper    *)
(* than the stack.                                                         *)
ASSUME MenuAssumption ==
  /\ settings_root_list \in DOMAIN Menu
  /\ NULL \notin DOMAIN Menu
  /\ MAX_SETTING_STACK_LEVEL \in Nat \ {0}
  /\ Level \in [DOMAIN Menu -> 1 .. MAX_SETTING_STACK_LEVEL]
  /\ Level[settings_root_list] = 1
  /\ \A l \in DOMAIN Menu :
        /\ DOMAIN Menu[l] \subseteq Nat
        /\ \E last \in DOMAIN Menu[l] : DOMAIN Menu[l] = 0 .. last
        /\ \A i \in DOMAIN Menu[l] :
              LET entry == Menu[l][i]
              IN /\ entry.next \in DOMAIN Menu \union {NULL}
                 /\ entry.itemCnt \in Nat
                 /\ i # 0 /\ entry.next # NULL =>
                      /\ DOMAIN Menu[entry.next] = 0 .. entry.itemCnt - 1
                      /\ Menu[entry.next][0].next = l
                      /\ Level[entry.next] = Level[l] + 1
        /\ Menu[l][0].next = NULL <=> l = settings_root_list

VARIABLES
  settings_mode,
  settings_p,         (* the list on the screen, NULL outside the settings *)
  settings_stack      (* [idx, pos, items, name] as in settings.h          *)

settingsVars == <<settings_mode, settings_p, settings_stack>>

StackLevels == 0 .. MAX_SETTING_STACK_LEVEL - 1

(* The title of the list behind entry i of list l: the name of the entry. *)
EntryName(l, i) == <<"entry", l, i>>
SettingsName == EntryName(NULL, 0)

SettingsInit ==
  /\ settings_mode = FALSE
  /\ settings_p = NULL
  /\ settings_stack = [idx |-> 0,
                       pos |-> [k \in StackLevels |-> 0],
                       items |-> [k \in StackLevels |-> 0],
                       name |-> [k \in StackLevels |-> SettingsName]]

(* Show the n items of settings list l under the title `name`. *)
ShowList(l, n, name) ==
  /\ settings_p' = l
  /\ fileCnt' = n
  /\ pages' = n \div PAGE_NUM_ITEMS
  /\ currentDirName' = name

(* Item 0 of the root directory opens the settings. *)
OpenSettings(id) ==
  /\ ~settings_mode /\ currentDir = Root /\ id = 0
  /\ settings_mode' = TRUE
  /\ settings_stack' = [settings_stack EXCEPT !.idx = 1]
  /\ ShowList(settings_root_list, Cardinality(DOMAIN Menu[settings_root_list]),
              SettingsName)
  /\ MoveTo(0)
  /\ UNCHANGED dirVars

(* Mutant: the list of the root is not made again. *)
LeaveSettingsListKept(id) ==
  /\ settings_mode /\ id = 0
  /\ Menu[settings_p][0].next = NULL
  /\ settings_mode' = FALSE /\ settings_p' = NULL
  /\ currentDir' = Root /\ currentDirName' = DirName(Root)
  /\ MoveTo(0)
  /\ UNCHANGED <<fileCnt, pages, settings_stack, dirLevel, dirCursorStack,
                 idxDirNameStack, dirNameStack>>

(* ".." of the first settings list: the list of the root is made again and *)
(* the cursor, on item 0 to get here, stays there.                         *)
LeaveSettings(id) ==
  /\ settings_mode /\ id = 0
  /\ Menu[settings_p][0].next = NULL
  /\ settings_mode' = FALSE
  /\ settings_p' = NULL
  /\ currentDir' = Root
  /\ currentDirName' = DirName(Root)
  /\ makeFileList(Root)
  /\ MoveTo(0)
  /\ UNCHANGED <<settings_stack, dirLevel, dirCursorStack, idxDirNameStack,
                 dirNameStack>>

(* Mutant: the saved cursor is not restored. *)
SettingsBackToTop(id) ==
  LET top == settings_stack.idx - 1
  IN /\ settings_mode /\ id = 0
     /\ Menu[settings_p][0].next # NULL
     /\ settings_stack' = [settings_stack EXCEPT !.idx = top]
     /\ ShowList(Menu[settings_p][0].next, settings_stack.items[top],
                 settings_stack.name[top])
     /\ MoveTo(0)
     /\ UNCHANGED <<settings_mode, dirVars>>

(* Mutant: the stack is read and not popped. *)
SettingsBackUnpopped(id) ==
  LET top == settings_stack.idx - 1
  IN /\ settings_mode /\ id = 0
     /\ Menu[settings_p][0].next # NULL
     /\ ShowList(Menu[settings_p][0].next, settings_stack.items[top],
                 settings_stack.name[top])
     /\ MoveTo(settings_stack.pos[top])
     /\ UNCHANGED <<settings_stack, settings_mode, dirVars>>

(* ".." of any other settings list. *)
SettingsBack(id) ==
  LET top == settings_stack.idx - 1
  IN /\ settings_mode /\ id = 0
     /\ Menu[settings_p][0].next # NULL
     /\ settings_stack' = [settings_stack EXCEPT !.idx = top]
     /\ ShowList(Menu[settings_p][0].next, settings_stack.items[top],
                 settings_stack.name[top])
     /\ MoveTo(settings_stack.pos[top])
     /\ UNCHANGED <<settings_mode, dirVars>>

(* An entry with a list of its own.  The three writes go to level idx,     *)
(* whether or not the arrays have it.                                      *)
SettingsForward(id) ==
  LET top   == settings_stack.idx
      entry == Menu[settings_p][id]
  IN /\ settings_mode /\ id # 0
     /\ entry.next # NULL
     /\ settings_stack' =
          [idx   |-> top + 1,
           pos   |-> [settings_stack.pos EXCEPT ![top] = id],
           items |-> [settings_stack.items EXCEPT ![top] = fileCnt],
           name  |-> [settings_stack.name EXCEPT ![top] = currentDirName]]
     /\ ShowList(entry.next, entry.itemCnt, EntryName(settings_p, id))
     /\ MoveTo(0)
     /\ UNCHANGED <<settings_mode, dirVars>>

(* An entry without a list is a choice: it is marked and its handler runs, *)
(* the list stays.                                                         *)
SettingsChoose(id) ==
  /\ settings_mode /\ id # 0
  /\ Menu[settings_p][id].next = NULL
  /\ UNCHANGED <<settingsVars, dirVars, currentDirName, fileCnt, pages,
                 cursorVars>>

(* Opening this entry connects the card to a USB host. *)
ConnectsHost(id) ==
  settings_mode /\ id # 0 /\ Menu[settings_p][id].usb
=============================================================================
