------------------------------- MODULE DirNav -------------------------------
(***************************************************************************)
(* Moving between the directories of the card (changeDir and makeFileList  *)
(* of fat.c).                                                              *)
(*                                                                         *)
(* A directory is named by the list items that lead to it from the root,   *)
(* so Append(d, i) is the directory behind item i of d.  Two static stacks *)
(* remember the way back: dirCursorStack the highlighted item of every     *)
(* directory above, dirNameStack the names shown in the title bar.         *)
(***************************************************************************)
EXTENDS Cursor, Sequences

CONSTANTS
  Tree,         (* the directories, each a sequence of item numbers         *)
  FileCnt,      (* the number of items of the list of a directory           *)
  StackDepth,   (* entries of dirCursorStack; 32 in fat.c                   *)
  NameSlots     (* names dirNameStack has room for; 64 in fat.c             *)

Root == <<>>

Parent(d) == SubSeq(d, 1, Len(d) - 1)

(* A card the player can show: every directory is behind an item of its    *)
(* parent other than item 0 (the settings or ".."), no path is longer than *)
(* the cursor stack and no page number is wider than its byte.             *)
ASSUME TreeAssumption ==
  /\ StackDepth \in Nat
  /\ NameSlots \in Nat
  /\ Tree \subseteq Seq(Nat)
  /\ Root \in Tree
  /\ FileCnt \in [Tree -> Nat \ {0}]
  /\ \A d \in Tree : Len(d) <= StackDepth
  /\ \A d \in Tree \ {Root} :
        Parent(d) \in Tree /\ d[Len(d)] \in 1 .. FileCnt[Parent(d)] - 1
  /\ \A d \in Tree : FileCnt[d] <= 256 * PAGE_NUM_ITEMS

VARIABLES
  currentDir,        (* fat.currentDirCluster and currentDirEntry          *)
  currentDirName,    (* the title of the list on the screen                *)
  dirLevel,
  dirCursorStack,    (* [pageIdx, pos] of each directory above             *)
  idxDirNameStack,   (* counted in names, not in bytes                     *)
  dirNameStack

dirVars == <<currentDir, dirLevel, dirCursorStack, idxDirNameStack,
             dirNameStack>>

(* The name of a directory is as distinct as the directory. *)
DirName(d) == <<"dir", d>>

DirInit ==
  /\ currentDir = Root
  /\ currentDirName = DirName(Root)
  /\ dirLevel = 0
  /\ dirCursorStack = [k \in 0 .. StackDepth - 1 |-> [pageIdx |-> 0, pos |-> 0]]
  /\ idxDirNameStack = 0
  /\ dirNameStack = [k \in 0 .. NameSlots - 1 |-> DirName(Root)]

(* The list of directory d replaces the one in memory. *)
makeFileList(d) ==
  /\ fileCnt' = FileCnt[d]
  /\ pages' = (FileCnt[d] - 1) \div PAGE_NUM_ITEMS

(* Mutant: the title is read before the name stack is popped. *)
ChangeToParentLateTitle(id) ==
  /\ currentDir # Root /\ id = 0
  /\ currentDir' = Parent(currentDir)
  /\ makeFileList(currentDir')
  /\ dirLevel' = dirLevel - 1
  /\ pageIdx' = dirCursorStack[dirLevel'].pageIdx
  /\ pos' = dirCursorStack[dirLevel'].pos
  /\ idxDirNameStack' = idxDirNameStack - 1
  /\ currentDirName' = IF currentDir' = Root THEN DirName(Root)
                       ELSE dirNameStack[idxDirNameStack - 1]
  /\ UNCHANGED <<dirCursorStack, dirNameStack>>

(* changeDir of item 0 of a directory below the root: its ".." entry.  The *)
(* root's ".." cluster is 0, and then the name stack is left alone.        *)
ChangeToParent(id) ==
  /\ currentDir # Root
  /\ id = 0
  /\ currentDir' = Parent(currentDir)
  /\ makeFileList(currentDir')
  /\ dirLevel' = dirLevel - 1
  /\ pageIdx' = dirCursorStack[dirLevel'].pageIdx
  /\ pos' = dirCursorStack[dirLevel'].pos
  /\ \/ /\ currentDir' # Root
        /\ idxDirNameStack' = idxDirNameStack - 1
        /\ currentDirName' = dirNameStack[idxDirNameStack' - 1]
     \/ /\ currentDir' = Root
        /\ currentDirName' = DirName(Root)
        /\ UNCHANGED idxDirNameStack
  /\ UNCHANGED <<dirCursorStack, dirNameStack>>

(* Mutant: the cursor is saved after it was reset for the new list. *)
ChangeToChildLateSave(id) ==
  LET child == Append(currentDir, id)
  IN /\ child \in Tree
     /\ idxDirNameStack < NameSlots
     /\ currentDir' = child /\ currentDirName' = DirName(child)
     /\ makeFileList(child)
     /\ pos' = 0 /\ pageIdx' = 0
     /\ dirCursorStack' =
          [dirCursorStack EXCEPT ![dirLevel] = [pageIdx |-> 0, pos |-> 0]]
     /\ dirLevel' = dirLevel + 1
     /\ dirNameStack' =
          [dirNameStack EXCEPT ![idxDirNameStack] = DirName(child)]
     /\ idxDirNameStack' = idxDirNameStack + 1

(* changeDir of a subdirectory.  The page number is stored in a byte.  The *)
(* bound idxDirNameStack < NameSlots ends the model where the code would   *)
(* write behind dirNameStack.                                              *)
ChangeToChild(id) ==
  LET child == Append(currentDir, id)
  IN /\ child \in Tree
     /\ idxDirNameStack < NameSlots
     /\ currentDir' = child
     /\ currentDirName' = DirName(child)
     /\ makeFileList(child)
     /\ dirCursorStack' =
          [dirCursorStack EXCEPT ![dirLevel] =
             [pageIdx |-> pageIdx % 256, pos |-> pos]]
     /\ dirLevel' = dirLevel + 1
     /\ pos' = 0 /\ pageIdx' = 0
     /\ dirNameStack' =
          [dirNameStack EXCEPT ![idxDirNameStack] = DirName(child)]
     /\ idxDirNameStack' = idxDirNameStack + 1

changeDir(id) == ChangeToParent(id) \/ ChangeToChild(id)
=============================================================================
