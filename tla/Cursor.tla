------------------------------- MODULE Cursor -------------------------------
(***************************************************************************)
(* The highlighted line of the list on the screen (lcd.c, lcd.h).          *)
(*                                                                         *)
(* A list of fileCnt items is shown PAGE_NUM_ITEMS at a time; the          *)
(* highlighted item is the pair (page, line on the page).  The keys of the *)
(* serial console move it by one, a finger on the panel moves it to the    *)
(* touched line and scrolls at the two edges.                              *)
(***************************************************************************)
EXTENDS Integers

CONSTANT PAGE_NUM_ITEMS   (* lines of the list on the screen; 9 in lcd.h *)

ASSUME PageAssumption == PAGE_NUM_ITEMS \in Nat \ {0}

VARIABLES
  pos,                (* cursor.pos: highlighted line of the page           *)
  pageIdx,            (* cursor.pageIdx: page on the screen                 *)
  pages,              (* cursor.pages: index of the last page               *)
  fileCnt,            (* fat.fileCnt: items of the list on the screen       *)
  firstTouchedItem,   (* line where the stroke began, NoItem if it left it  *)
  currentTouchItem    (* line under the finger                              *)

cursorVars == <<pos, pageIdx>>
strokeVars == <<firstTouchedItem, currentTouchItem>>

(* The -999 that firstTouchedItem is set to when a stroke is not a tap. *)
NoItem == -999

(* The index in the list of the highlighted item. *)
Selected == pos + pageIdx * PAGE_NUM_ITEMS

(* Highlight item id of the list. *)
MoveTo(id) ==
  /\ pos' = id % PAGE_NUM_ITEMS
  /\ pageIdx' = id \div PAGE_NUM_ITEMS

(* Both 16 bit counters are decremented past zero and then put back. *)
LCDCursorUp ==
  \/ pos > 0 /\ pos' = pos - 1 /\ UNCHANGED pageIdx
  \/ /\ pos = 0 /\ pageIdx > 0
     /\ pos' = PAGE_NUM_ITEMS - 1
     /\ pageIdx' = pageIdx - 1
  \/ pos = 0 /\ pageIdx = 0 /\ UNCHANGED cursorVars

(* Mutant: the last item is not the end. *)
LCDCursorDownPastEnd ==
  \/ Selected >= fileCnt /\ UNCHANGED cursorVars
  \/ /\ Selected < fileCnt /\ pos < PAGE_NUM_ITEMS - 1
     /\ pos' = pos + 1 /\ UNCHANGED pageIdx
  \/ /\ Selected < fileCnt /\ pos >= PAGE_NUM_ITEMS - 1
     /\ pos' = 0 /\ pageIdx' = pageIdx + 1

LCDCursorDown ==
  \/ Selected + 1 >= fileCnt /\ UNCHANGED cursorVars
  \/ /\ Selected + 1 < fileCnt
     /\ pos < PAGE_NUM_ITEMS - 1
     /\ pos' = pos + 1
     /\ UNCHANGED pageIdx
  \/ /\ Selected + 1 < fileCnt
     /\ pos >= PAGE_NUM_ITEMS - 1
     /\ pos' = 0
     /\ pageIdx' = IF pageIdx + 1 > pages THEN pages - 1 ELSE pageIdx + 1

(* The lines a touch can report: -1 above the list, PAGE_NUM_ITEMS at the  *)
(* lower edge of the panel.                                                *)
TouchLine == -1 .. PAGE_NUM_ITEMS

(* One averaged touch position, on line `line`; `stroke` says whether an   *)
(* earlier position of the same stroke was reported (touch.update).        *)
LCDTouchPoint(line, stroke) ==
  LET item == IF pageIdx = 0 /\ line < 0 THEN 0 ELSE line
  IN /\ currentTouchItem' = item
     /\ firstTouchedItem' = IF ~stroke THEN item
                            ELSE IF firstTouchedItem # item THEN NoItem
                            ELSE firstTouchedItem
     /\ \/ /\ item = pos \/ item + pageIdx * PAGE_NUM_ITEMS >= fileCnt
           /\ UNCHANGED cursorVars
        \/ /\ item # pos /\ item + pageIdx * PAGE_NUM_ITEMS < fileCnt
           /\ \/ line < 0 /\ LCDCursorUp
              \/ item >= PAGE_NUM_ITEMS /\ LCDCursorDown
              \/ /\ line >= 0 /\ item < PAGE_NUM_ITEMS
                 /\ pos' = item
                 /\ UNCHANGED pageIdx
=============================================================================
