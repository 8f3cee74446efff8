----------------------------- MODULE PhotoFrame -----------------------------
(***************************************************************************)
(* The picture viewer: the loop of main.c around dojpeg of dojpeg.c.  It   *)
(* shows one picture until an icon is touched, or, as a photo frame, one   *)
(* picture of the list after the other.  The panel works where dojpeg      *)
(* waits, the console ('e' puts waitExitKey to 0) everywhere, the sleep    *)
(* timer where settings.time2sleep is not 0.  Keys that open an item after *)
(* an 'e', before the viewer has noticed it, are left out (see stray in    *)
(* Browser).                                                               *)
(***************************************************************************)
EXTENDS Integers, Sequences

CONSTANT Lists     (* the lists there are, each the kinds of its items *)

(* "bad": a file with the extension of a picture that cannot be decoded. *)
Kinds == {"jpeg", "bad", "other"}

ASSUME ListAssumption == \A l \in Lists : l \in Seq(Kinds) /\ Len(l) > 0

CONSTANT MaxLen    (* the length of the longest of them *)

ASSUME MaxLenAssumption == \A l \in Lists : Len(l) <= MaxLen

VARIABLES
  list,               (* the items 1, 2, ... of the list on the screen       *)
  main,               (* where the main program is                           *)
  waitExitKey,        (* LCDStatusStruct.waitExitKey # 0                     *)
  idEntry,            (* LCDStatusStruct.idEntry                             *)
  ret,                (* what dojpeg returned or is about to                 *)
  djpeg_arrows,       (* what the icons of this picture can do               *)
  arrow_clicked, photo_frame_flag,
  touch_flag,         (* the icons are shown                                 *)
  time2sleep,         (* settings.time2sleep # 0                             *)
  time2sleep_cp,      (* dojpeg's copy of it                                 *)
  sleeps,             (* observer: what the user has set time2sleep to       *)
  asked               (* observer: the user has asked for the show to stop   *)

pictureVars == <<djpeg_arrows, touch_flag, time2sleep, time2sleep_cp>>
loopVars == <<arrow_clicked, photo_frame_flag>>
vars == <<list, main, waitExitKey, idEntry, ret, loopVars, pictureVars, sleeps,
          asked>>

fileCnt == Len(list) + 1
Items == 1 .. fileCnt - 1
IsPicture(id) == id \in Items /\ list[id] \in {"jpeg", "bad"}

(* "list": no viewer; "top", "after": the loop of main.c before and after   *)
(* dojpeg; in dojpeg "decode" reads the file, "delay" is the time a picture *)
(* of the photo frame stays, "wait" waits for a touch, "pref" for the one   *)
(* that chooses what to copy the picture to.                                *)
InViewer == main \in {"decode", "delay", "wait", "pref"}
Running == main # "list"

Init ==
  /\ list \in Lists
  /\ main = "list" /\ waitExitKey = FALSE /\ idEntry = 0 /\ ret = "none"
  /\ djpeg_arrows = {} /\ arrow_clicked = FALSE /\ photo_frame_flag = FALSE
  /\ touch_flag = FALSE
  /\ sleeps \in BOOLEAN /\ time2sleep = sleeps /\ time2sleep_cp = FALSE
  /\ asked = FALSE

Start(id) ==
  /\ main = "list" /\ IsPicture(id)
  /\ main' = "top" /\ waitExitKey' = TRUE /\ idEntry' = id
  /\ arrow_clicked' = FALSE /\ ret' = "none" /\ photo_frame_flag' = FALSE
  /\ asked' = FALSE
  /\ UNCHANGED <<list, pictureVars, sleeps>>

-----------------------------------------------------------------------------
(* The loop, up to the call of dojpeg *)

(* -1 has the bit of DJPEG_PLAY too. *)
Playing == ret \in {"PLAY", "-1"}

(* Mutant: the end of the list is one item late. *)
WrappedLate == IF Playing /\ idEntry > fileCnt THEN 1 ELSE idEntry

Wrapped == IF Playing /\ idEntry >= fileCnt THEN 1 ELSE idEntry

(* Mutant: there is an arrow to the item behind the last. *)
ArrowsPastEnd(id) ==
  {a \in {"LEFT", "RIGHT", "PLAY"} :
     \/ a = "LEFT" /\ id > 1 /\ IsPicture(id - 1)
     \/ a = "RIGHT" /\ (id + 1 = fileCnt \/ IsPicture(id + 1))
     \/ a = "PLAY" /\ Playing}

Arrows(id) ==
  {a \in {"LEFT", "RIGHT", "PLAY"} :
     \/ a = "LEFT" /\ id > 1 /\ IsPicture(id - 1)
     \/ a = "RIGHT" /\ id < fileCnt - 1 /\ IsPicture(id + 1)
     \/ a = "PLAY" /\ Playing}

(* An item that is no picture is passed over with ret as it was. *)
LoopTop ==
  /\ main = "top"
  /\ idEntry' = Wrapped
  /\ djpeg_arrows' = Arrows(Wrapped)
  /\ IF IsPicture(Wrapped)
     THEN /\ main' = "decode"
          /\ time2sleep_cp' = time2sleep /\ time2sleep' = FALSE
          /\ touch_flag' = FALSE
     ELSE main' = "after" /\ UNCHANGED <<time2sleep, time2sleep_cp, touch_flag>>
  /\ UNCHANGED <<list, waitExitKey, ret, loopVars, sleeps, asked>>

(* The item the loop goes on to; the picture that starts a photo frame is  *)
(* shown again.                                                            *)
NextEntry ==
  CASE ret = "LEFT" -> idEntry - 1
    [] ret = "RIGHT" -> idEntry + 1
    [] ret = "PLAY" /\ photo_frame_flag -> idEntry + 1
    [] OTHER -> idEntry

LoopAfter ==
  /\ main = "after"
  /\ idEntry' = NextEntry
  /\ arrow_clicked' = (ret \in {"LEFT", "RIGHT"} \/ (arrow_clicked /\ ret # "PLAY"))
  /\ photo_frame_flag' = (photo_frame_flag \/ ret = "PLAY")
  /\ main' = IF waitExitKey THEN "top" ELSE "list"
  /\ UNCHANGED <<list, waitExitKey, ret, pictureVars, sleeps, asked>>

-----------------------------------------------------------------------------
(* dojpeg *)

(* Mutant: the photo frame's delay forgets it. *)
ExitAwake(r) ==
  /\ main' = "after" /\ ret' = r
  /\ time2sleep' = (time2sleep \/ (time2sleep_cp /\ r # "PLAY"))

(* EXIT_JPEG: the time to sleep is what it was before. *)
Exit(r) ==
  /\ main' = "after" /\ ret' = r
  /\ time2sleep' = (time2sleep \/ time2sleep_cp)

Icons(shown) ==
  /\ touch_flag' = shown
  /\ time2sleep' = (time2sleep \/ (time2sleep_cp /\ shown))

(* Mutant: a picture that cannot be shown ends the photo frame. *)
BadPictureEnds ==
  /\ list[idEntry] = "bad"
  /\ waitExitKey' = FALSE /\ Exit("-1")
  /\ UNCHANGED touch_flag

(* A picture that cannot be shown ends the viewer; a photo frame passes    *)
(* over it, and over an 'e' that came before.                              *)
BadPicture ==
  /\ list[idEntry] = "bad"
  /\ \/ "PLAY" \in djpeg_arrows /\ waitExitKey' = TRUE /\ Exit("PLAY")
     \/ "PLAY" \notin djpeg_arrows /\ waitExitKey' = FALSE /\ Exit("-1")
  /\ UNCHANGED touch_flag

(* After an arrow the icons are shown with the picture. *)
GoodPicture ==
  /\ list[idEntry] = "jpeg"
  /\ UNCHANGED waitExitKey
  /\ CASE arrow_clicked -> main' = "wait" /\ ret' = "none" /\ Icons(TRUE)
       [] ~arrow_clicked /\ "PLAY" \in djpeg_arrows ->
            main' = "delay" /\ ret' = "PLAY" /\ UNCHANGED <<touch_flag, time2sleep>>
       [] OTHER -> /\ main' = "wait" /\ ret' = "none"
                   /\ time2sleep' = time2sleep_cp /\ UNCHANGED touch_flag

Decode ==
  /\ main = "decode"
  /\ BadPicture \/ GoodPicture
  /\ UNCHANGED <<list, idEntry, loopVars, djpeg_arrows, time2sleep_cp, sleeps, asked>>

DelayEnds ==
  /\ main = "delay"
  /\ Exit("PLAY")
  /\ UNCHANGED <<list, waitExitKey, idEntry, loopVars, djpeg_arrows, touch_flag,
                 time2sleep_cp, sleeps, asked>>

(* A touch stops the photo frame and shows the icons, unless an 'e' came.  *)
DelayTouched ==
  /\ main = "delay"
  /\ photo_frame_flag' = FALSE
  /\ asked' = TRUE
  /\ \/ ~waitExitKey /\ Exit("none") /\ UNCHANGED touch_flag
     \/ waitExitKey /\ main' = "wait" /\ ret' = "none" /\ Icons(TRUE)
  /\ UNCHANGED <<list, waitExitKey, idEntry, arrow_clicked, djpeg_arrows,
                 time2sleep_cp, sleeps>>

(* What a touch does where the icons are shown; they disappear.  It is on  *)
(* an arrow, the play, the preferences or the abort icon or on none.       *)
IconTouched(wait) ==
  /\ touch_flag
  /\ \/ \E a \in (djpeg_arrows \union {"PLAY"}) :
          touch_flag' = FALSE /\ waitExitKey' = wait /\ Exit(a)
     \/ touch_flag' = FALSE /\ waitExitKey' = FALSE /\ Exit("-1")
     \/ /\ main' = "pref" /\ waitExitKey' = wait
        /\ touch_flag' = FALSE /\ UNCHANGED <<ret, time2sleep>>
     \/ /\ touch_flag' = FALSE /\ waitExitKey' = wait
        /\ \/ wait /\ UNCHANGED <<main, ret, time2sleep>>
           \/ ~wait /\ Exit("none")

(* A touch shows the icons where they are not. *)
IconsAppear(wait) ==
  /\ ~touch_flag
  /\ waitExitKey' = wait /\ touch_flag' = TRUE
  /\ \/ wait /\ Icons(TRUE) /\ UNCHANGED <<main, ret>>
     \/ ~wait /\ Exit("none")

WaitUnchanged ==
  UNCHANGED <<list, idEntry, loopVars, djpeg_arrows, time2sleep_cp, sleeps>>

Touched ==
  /\ main = "wait" /\ waitExitKey
  /\ IconTouched(TRUE) \/ IconsAppear(TRUE)
  /\ asked' = FALSE
  /\ WaitUnchanged

(* The sleep timer ends the viewer; on the way out the last touch counts   *)
(* once more.                                                              *)
SleepTimer ==
  /\ main = "wait" /\ waitExitKey /\ time2sleep
  /\ IconTouched(FALSE) \/ IconsAppear(FALSE)
  /\ asked' = TRUE
  /\ WaitUnchanged

WaitLeft ==
  /\ main = "wait" /\ ~waitExitKey
  /\ Exit("-1") \/ Exit("none")
  /\ UNCHANGED <<waitExitKey, touch_flag, asked>>
  /\ WaitUnchanged

(* The picture was copied and the icons come back, or it was not, and the  *)
(* touch may have been on the abort icon.                                  *)
PrefTouched ==
  /\ main = "pref"
  /\ \/ waitExitKey /\ main' = "wait" /\ Icons(TRUE) /\ UNCHANGED <<waitExitKey, ret>>
     \/ waitExitKey /\ main' = "wait" /\ UNCHANGED <<waitExitKey, ret, touch_flag, time2sleep>>
     \/ waitExitKey' = FALSE /\ Exit("-1") /\ UNCHANGED touch_flag
     \/ ~waitExitKey /\ Exit("none") /\ UNCHANGED <<waitExitKey, touch_flag>>
  /\ UNCHANGED asked
  /\ WaitUnchanged

ExitKey ==
  /\ Running /\ waitExitKey
  /\ waitExitKey' = FALSE /\ asked' = TRUE
  /\ UNCHANGED <<list, main, idEntry, ret, loopVars, pictureVars, sleeps>>

Next ==
  \/ \E id \in Items : Start(id)
  \/ LoopTop \/ LoopAfter \/ Decode \/ DelayEnds \/ DelayTouched \/ Touched
  \/ SleepTimer \/ WaitLeft \/ PrefTouched \/ ExitKey

Spec == Init /\ [][Next]_vars

(* The main program runs whenever no handler does, and the delay is timed. *)
FairSpec ==
  /\ Spec
  /\ WF_vars(LoopTop) /\ WF_vars(LoopAfter) /\ WF_vars(Decode)
  /\ WF_vars(DelayEnds) /\ WF_vars(WaitLeft)

-----------------------------------------------------------------------------
(* Properties *)

TypeOK ==
  /\ list \in Lists
  /\ main \in {"list", "top", "after", "decode", "delay", "wait", "pref"}
  /\ idEntry \in 0 .. fileCnt
  /\ ret \in {"none", "-1", "LEFT", "RIGHT", "PLAY"}
  /\ djpeg_arrows \subseteq {"LEFT", "RIGHT", "PLAY"}
  /\ {waitExitKey, arrow_clicked, photo_frame_flag, touch_flag, time2sleep,
      time2sleep_cp, sleeps, asked} \subseteq BOOLEAN

(* Only pictures of the list are decoded, whatever mixture of arrows, photo *)
(* frame and unreadable pictures led there, and the list comes back to an  *)
(* item of it, or to one behind it where an 'e' ended a photo frame at the *)
(* last item (the loop of main.c).                                         *)
PictureOnList ==
  /\ InViewer => IsPicture(idEntry)
  /\ main = "list" /\ idEntry # 0 =>
       idEntry \in Items \/ (idEntry = fileCnt /\ ret = "PLAY")

(* dojpeg puts the time to sleep off while it shows a photo frame and       *)
(* gives it back on every way out of it; while a picture of the frame stays *)
(* on the screen the unit does not go to sleep.                            *)
SleepGivenBack ==
  /\ ~InViewer => time2sleep = sleeps
  /\ main = "delay" => ~time2sleep

(* Until somebody asks it to stop, a photo frame goes on to every picture   *)
(* of the list it can show, passing over the items that it cannot.         *)
EveryPictureShown ==
  \A k \in 1 .. MaxLen :
    (photo_frame_flag /\ Running /\ ~asked /\ k \in Items /\ list[k] = "jpeg")
      ~> (asked \/ (main = "delay" /\ idEntry = k))
=============================================================================
