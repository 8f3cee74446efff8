------------------------------ MODULE PathNav -------------------------------
(***************************************************************************)
(* What the file browser promises: the screen shows one list of a tree of  *)
(* lists with one of its items highlighted, and going back from a list     *)
(* shows the parent with the item highlighted that led down.               *)
(*                                                                         *)
(* A list is named by the item numbers that lead to it from the root, so   *)
(* no stack is needed.                                                     *)
(***************************************************************************)
EXTENDS Integers, Sequences

CONSTANTS Lists,      (* the lists, each a sequence of item numbers *)
          Items(_)    (* the number of items of a list              *)

VARIABLES list,       (* the list on the screen                     *)
          item        (* its highlighted item                       *)

Init == list = <<>> /\ item = 0

(* The highlight may be one behind the last item, where nothing opens. *)
Highlight == item' \in 0 .. Items(list) /\ UNCHANGED list

Open ==
  /\ Append(list, item) \in Lists
  /\ list' = Append(list, item)
  /\ item' = 0

(* Item 0 of every list but the root is the way back. *)
Back ==
  /\ list # <<>> /\ item = 0
  /\ list' = SubSeq(list, 1, Len(list) - 1)
  /\ item' = list[Len(list)]

Next == Highlight \/ Open \/ Back

Spec == Init /\ [][Next]_<<list, item>>
=============================================================================
