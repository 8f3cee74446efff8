-------------------------- MODULE PhotoFrameProofs --------------------------
(***************************************************************************)
(* Proofs about PhotoFrame, for lists of every length and kind.            *)
(*                                                                         *)
(* An arrow of a picture leads to a picture, and only a photo frame can    *)
(* step behind the last item, from where LoopTop wraps: PictureInv.  The   *)
(* user's time to sleep is in time2sleep or in dojpeg's copy: SleepInv.    *)
(***************************************************************************)
EXTENDS PhotoFrame, TLAPS

(* What dojpeg was called with. *)
CallInv ==
  /\ IsPicture(idEntry)
  /\ djpeg_arrows \subseteq {"LEFT", "RIGHT", "PLAY"}
  /\ "LEFT" \in djpeg_arrows => IsPicture(idEntry - 1)
  /\ "RIGHT" \in djpeg_arrows => IsPicture(idEntry + 1)

PictureInv ==
  /\ list \in Lists
  /\ InViewer => CallInv
  /\ main \in {"top", "list"} /\ idEntry # 0 =>
       idEntry \in Items \/ (idEntry = fileCnt /\ ret = "PLAY")
  /\ main = "top" => /\ idEntry # 0
                     /\ ret \in {"LEFT", "RIGHT"} => IsPicture(idEntry)
  /\ main = "after" =>
       /\ idEntry \in Items
       /\ ret = "LEFT" => IsPicture(idEntry - 1)
       /\ ret = "RIGHT" => IsPicture(idEntry + 1)

(* There is an item on every list. *)
LEMMA ListSize ==
  ASSUME NEW l \in Lists
  PROVE  Len(l) \in Nat /\ Len(l) >= 1
BY ListAssumption

(* PictureInv holds in the initial states. *)
LEMMA PictureInit == Init => PictureInv
BY DEF Init, PictureInv, InViewer

(* Ways out of dojpeg and to another of its states keep PictureInv.  *)
LEMMA PictureExit ==
  ASSUME PictureInv, InViewer, NEW r, Exit(r),
         UNCHANGED <<list, idEntry, djpeg_arrows>>,
         r \in djpeg_arrows \union {"PLAY", "none", "-1"}
  PROVE  PictureInv'
BY DEF PictureInv, CallInv, Exit, InViewer, IsPicture, Items, fileCnt

LEMMA PictureStay ==
  ASSUME PictureInv, InViewer, main' \in {"wait", "delay", "pref"},
         UNCHANGED <<list, idEntry, djpeg_arrows>>
  PROVE  PictureInv'
BY DEF PictureInv, CallInv, InViewer, IsPicture, Items, fileCnt

(* PictureInv is kept by every step of PhotoFrame. *)
LEMMA PictureStep == PictureInv /\ [Next]_vars => PictureInv'
<1> SUFFICES ASSUME PictureInv, [Next]_vars PROVE PictureInv'
  OBVIOUS
<1>a. list \in Lists /\ Len(list) \in Nat /\ Len(list) >= 1
  BY ListSize DEF PictureInv
<1>1. ASSUME NEW id \in Items, Start(id) PROVE PictureInv'
  BY <1>1, <1>a DEF Start, PictureInv, InViewer, IsPicture, Items, fileCnt
<1>2. CASE LoopTop
  <2>1. Wrapped \in Items
    BY <1>2, <1>a DEF LoopTop, Wrapped, Playing, PictureInv, Items, fileCnt
  <2>2. /\ "LEFT" \in Arrows(Wrapped) => IsPicture(Wrapped - 1)
        /\ "RIGHT" \in Arrows(Wrapped) => IsPicture(Wrapped + 1)
        /\ Arrows(Wrapped) \subseteq {"LEFT", "RIGHT", "PLAY"}
    BY DEF Arrows
  <2>3. CASE IsPicture(Wrapped)
    BY <1>2, <2>1, <2>2, <2>3
       DEF LoopTop, PictureInv, CallInv, InViewer, IsPicture, Items, fileCnt
  <2>4. CASE ~IsPicture(Wrapped)
    <3>1. ret \notin {"LEFT", "RIGHT"}
      BY <1>2, <2>4 DEF LoopTop, Wrapped, Playing, PictureInv
    <3> QED
      BY <1>2, <2>1, <2>4, <3>1 DEF LoopTop, PictureInv, InViewer, Items, fileCnt
  <2> QED
    BY <2>3, <2>4
<1>3. CASE LoopAfter
  <2>1. NextEntry \in Items \/ (NextEntry = fileCnt /\ ret = "PLAY")
    BY <1>3, <1>a DEF LoopAfter, NextEntry, PictureInv, IsPicture, Items, fileCnt
  <2>2. NextEntry # 0
    BY <1>a, <2>1 DEF Items, fileCnt
  <2>3. ret \in {"LEFT", "RIGHT"} => IsPicture(NextEntry)
    BY <1>3 DEF LoopAfter, NextEntry, PictureInv
  <2> QED
    BY <1>3, <2>1, <2>2, <2>3
       DEF LoopAfter, PictureInv, InViewer, IsPicture, Items, fileCnt
<1>4. CASE Decode
  <2>1. CASE BadPicture
    BY <1>4, <2>1, PictureExit DEF Decode, BadPicture, InViewer
  <2>2. CASE GoodPicture
    <3>1. main' \in {"wait", "delay", "pref"}
      BY <2>2 DEF GoodPicture
    <3> QED
      BY <1>4, <3>1, PictureStay DEF Decode, InViewer
  <2> QED
    BY <1>4, <2>1, <2>2 DEF Decode
<1>5. CASE DelayEnds
  BY <1>5, PictureExit DEF DelayEnds, InViewer
<1>6. CASE DelayTouched
  BY <1>6, PictureExit, PictureStay DEF DelayTouched, InViewer
<1>7. ASSUME NEW wait, main = "wait", WaitUnchanged, IconTouched(wait) \/ IconsAppear(wait)
      PROVE  PictureInv'
  <2>1. \/ \E r \in djpeg_arrows \union {"PLAY", "none", "-1"} : Exit(r)
        \/ main' \in {"wait", "pref"}
    BY <1>7 DEF IconTouched, IconsAppear
  <2> QED
    BY <1>7, <2>1, PictureExit, PictureStay DEF WaitUnchanged, InViewer
<1>8. CASE Touched
  BY <1>7, <1>8 DEF Touched
<1>9. CASE SleepTimer
  BY <1>7, <1>9 DEF SleepTimer
<1>10. CASE WaitLeft
  BY <1>10, PictureExit DEF WaitLeft, WaitUnchanged, InViewer
<1>11. CASE PrefTouched
  BY <1>11, PictureExit, PictureStay DEF PrefTouched, WaitUnchanged, InViewer
<1>12. CASE ExitKey
  BY <1>12 DEF ExitKey, pictureVars, PictureInv, CallInv, InViewer, IsPicture,
               Items, fileCnt
<1>13. CASE UNCHANGED vars
  BY <1>13 DEF vars, pictureVars, PictureInv, CallInv, InViewer, IsPicture,
               Items, fileCnt
<1> QED
  BY <1>1, <1>2, <1>3, <1>4, <1>5, <1>6, <1>8, <1>9, <1>10, <1>11, <1>12, <1>13
     DEF Next

(* PictureOnList for every list: only pictures of the list are decoded, and *)
(* the list comes back to one of its items or the one behind (main.c).     *)
THEOREM OnlyPicturesAreDecoded == Spec => []PictureOnList
<1>1. PictureInv => PictureOnList
  BY DEF PictureInv, CallInv, PictureOnList
<1> QED
  BY <1>1, PictureInit, PictureStep, PTL DEF Spec

-----------------------------------------------------------------------------
SleepInv ==
  /\ {sleeps, time2sleep, time2sleep_cp} \subseteq BOOLEAN
  /\ ~InViewer => time2sleep = sleeps
  /\ InViewer => time2sleep_cp = sleeps /\ (time2sleep => sleeps)
  /\ main \in {"decode", "delay"} => ~time2sleep

(* SleepInv is kept by every step of PhotoFrame. *)
LEMMA SleepStep == SleepInv /\ [Next]_vars => SleepInv'
<1> SUFFICES ASSUME SleepInv, [Next]_vars PROVE SleepInv'
  OBVIOUS
<1> USE DEF SleepInv, InViewer
<1>1. ASSUME NEW r, Exit(r), InViewer, UNCHANGED <<sleeps, time2sleep_cp>>
      PROVE  SleepInv'
  BY <1>1 DEF Exit
<1>2. ASSUME NEW shown, Icons(shown), main' = "wait", InViewer,
             UNCHANGED <<sleeps, time2sleep_cp>>
      PROVE  SleepInv'
  BY <1>2 DEF Icons
<1>3. ASSUME main' \in {"wait", "pref"}, InViewer,
             UNCHANGED <<sleeps, time2sleep_cp, time2sleep>>
      PROVE  SleepInv'
  BY <1>3
<1>4. ASSUME NEW id \in Items, Start(id) PROVE SleepInv'
  BY <1>4 DEF Start, pictureVars
<1>5. CASE LoopTop
  BY <1>5 DEF LoopTop
<1>6. CASE LoopAfter
  BY <1>6 DEF LoopAfter, pictureVars
<1>7. CASE Decode
  <2>1. CASE BadPicture
    BY <1>1, <1>7, <2>1 DEF Decode, BadPicture
  <2>2. CASE GoodPicture
    <3>1. main = "decode" /\ UNCHANGED <<sleeps, time2sleep_cp>>
      BY <1>7 DEF Decode
    <3>2. \/ main' = "wait" /\ Icons(TRUE)
          \/ main' = "delay" /\ time2sleep' = time2sleep
          \/ main' = "wait" /\ time2sleep' = time2sleep_cp
      BY <2>2 DEF GoodPicture
    <3>3. CASE main' = "delay" /\ time2sleep' = time2sleep
      BY <3>1, <3>3
    <3>4. CASE main' = "wait" /\ time2sleep' = time2sleep_cp
      <4>1. time2sleep' = sleeps /\ time2sleep_cp' = sleeps /\ sleeps' = sleeps
        BY <3>1, <3>4
      <4>2. {sleeps', time2sleep', time2sleep_cp'} \subseteq BOOLEAN
        BY <4>1
      <4> QED
        BY <3>4, <4>1, <4>2
    <3> QED
      BY <1>2, <3>1, <3>2, <3>3, <3>4
  <2> QED
    BY <1>7, <2>1, <2>2 DEF Decode
<1>8. CASE DelayEnds
  BY <1>1, <1>8 DEF DelayEnds
<1>9. CASE DelayTouched
  BY <1>1, <1>2, <1>9 DEF DelayTouched
<1>10. ASSUME NEW wait, main = "wait", WaitUnchanged,
              IconTouched(wait) \/ IconsAppear(wait)
       PROVE  SleepInv'
  <2>1. UNCHANGED <<sleeps, time2sleep_cp>>
    BY <1>10 DEF WaitUnchanged
  <2>2. CASE IconTouched(wait)
    BY <1>1, <1>3, <1>10, <2>1, <2>2 DEF IconTouched
  <2>3. CASE IconsAppear(wait)
    BY <1>1, <1>2, <1>10, <2>1, <2>3 DEF IconsAppear
  <2> QED
    BY <1>10, <2>2, <2>3
<1>11. CASE Touched
  BY <1>10, <1>11 DEF Touched
<1>12. CASE SleepTimer
  BY <1>10, <1>12 DEF SleepTimer
<1>13. CASE WaitLeft
  BY <1>1, <1>13 DEF WaitLeft, WaitUnchanged
<1>14. CASE PrefTouched
  BY <1>1, <1>2, <1>3, <1>14 DEF PrefTouched, WaitUnchanged
<1>15. CASE ExitKey
  BY <1>15 DEF ExitKey, pictureVars
<1>16. CASE UNCHANGED vars
  BY <1>16 DEF vars, pictureVars
<1> QED
  BY <1>4, <1>5, <1>6, <1>7, <1>8, <1>9, <1>11, <1>12, <1>13, <1>14, <1>15, <1>16
     DEF Next

(* SleepGivenBack for every list: every way out of dojpeg gives the time to *)
(* sleep back that a photo frame puts off.                                 *)
THEOREM SleepIsGivenBack == Spec => []SleepGivenBack
<1>1. Init => SleepInv
  BY DEF Init, SleepInv, InViewer
<1>2. SleepInv => SleepGivenBack
  BY DEF SleepInv, SleepGivenBack, InViewer
<1> QED
  BY <1>1, <1>2, SleepStep, PTL DEF Spec
-----------------------------------------------------------------------------
(* Types.  Where idEntry is follows from PictureInv, and the flags of the    *)
(* sleep from SleepInv; the rest stands alone.                             *)
PlaceInv ==
  /\ main \in {"list", "top", "after", "decode", "delay", "wait", "pref"}
  /\ ret \in {"none", "-1", "LEFT", "RIGHT", "PLAY"}
  /\ djpeg_arrows \subseteq {"LEFT", "RIGHT", "PLAY"}

FlagInv ==
  /\ waitExitKey \in BOOLEAN /\ arrow_clicked \in BOOLEAN
  /\ photo_frame_flag \in BOOLEAN /\ touch_flag \in BOOLEAN /\ asked \in BOOLEAN

(* Both are kept by every step of PhotoFrame. *)
LEMMA PlaceStep == PlaceInv /\ [Next]_vars => PlaceInv'
<1> SUFFICES ASSUME PlaceInv, [Next]_vars PROVE PlaceInv'
  OBVIOUS
<1> USE DEF PlaceInv
<1>1. ASSUME NEW id \in Items, Start(id) PROVE PlaceInv'
  BY <1>1 DEF Start, pictureVars
<1>2. CASE LoopTop
  BY <1>2 DEF LoopTop, Arrows
<1>3. CASE LoopAfter
  BY <1>3 DEF LoopAfter, pictureVars
<1>4. CASE Decode
  BY <1>4 DEF Decode, BadPicture, GoodPicture, Exit
<1>5. CASE DelayEnds
  BY <1>5 DEF DelayEnds, Exit
<1>6. CASE DelayTouched
  BY <1>6 DEF DelayTouched, Exit
<1>7. ASSUME NEW wait, main = "wait", WaitUnchanged,
             IconTouched(wait) \/ IconsAppear(wait)
      PROVE  PlaceInv'
  BY <1>7 DEF WaitUnchanged, IconTouched, IconsAppear, Exit
<1>8. CASE Touched
  BY <1>7, <1>8 DEF Touched
<1>9. CASE SleepTimer
  BY <1>7, <1>9 DEF SleepTimer
<1>10. CASE WaitLeft
  BY <1>10 DEF WaitLeft, WaitUnchanged, Exit
<1>11. CASE PrefTouched
  BY <1>11 DEF PrefTouched, WaitUnchanged, Exit
<1>12. CASE ExitKey
  BY <1>12 DEF ExitKey, pictureVars
<1>13. CASE UNCHANGED vars
  BY <1>13 DEF vars, pictureVars
<1> QED
  BY <1>1, <1>2, <1>3, <1>4, <1>5, <1>6, <1>8, <1>9, <1>10, <1>11, <1>12, <1>13 DEF Next

LEMMA FlagStep == FlagInv /\ [Next]_vars => FlagInv'
<1> SUFFICES ASSUME FlagInv, [Next]_vars PROVE FlagInv'
  OBVIOUS
<1> USE DEF FlagInv
<1>1. ASSUME NEW id \in Items, Start(id) PROVE FlagInv'
  BY <1>1, Zenon DEF Start, pictureVars
<1>2. CASE LoopTop
  BY <1>2, Zenon DEF LoopTop, loopVars
<1>3. CASE LoopAfter
  <2>1. arrow_clicked' \in BOOLEAN /\ photo_frame_flag' \in BOOLEAN
    BY <1>3, Zenon DEF LoopAfter
  <2>2. QED
    BY <1>3, <2>1, Zenon DEF LoopAfter, pictureVars
<1>4. CASE Decode
  <2>1. touch_flag' \in BOOLEAN /\ waitExitKey' \in BOOLEAN
    BY <1>4 DEF Decode, BadPicture, GoodPicture, Icons
  <2>2. QED
    BY <1>4, <2>1, Zenon DEF Decode, loopVars
<1>5. CASE DelayEnds
  BY <1>5, Zenon DEF DelayEnds, loopVars
<1>6. CASE DelayTouched
  <2>1. touch_flag' \in BOOLEAN
    BY <1>6 DEF DelayTouched, Icons
  <2>2. QED
    BY <1>6, <2>1, Zenon DEF DelayTouched
<1>7. ASSUME NEW wait \in BOOLEAN, WaitUnchanged, asked' \in BOOLEAN,
             IconTouched(wait) \/ IconsAppear(wait)
      PROVE  FlagInv'
  <2>1. touch_flag' \in BOOLEAN
    BY <1>7 DEF IconTouched, IconsAppear
  <2>2. waitExitKey' \in BOOLEAN
    BY <1>7 DEF IconTouched, IconsAppear
  <2>3. QED
    BY <1>7, <2>1, <2>2, Zenon DEF WaitUnchanged, loopVars
<1>8. CASE Touched
  BY <1>7, <1>8 DEF Touched
<1>9. CASE SleepTimer
  BY <1>7, <1>9 DEF SleepTimer
<1>10. CASE WaitLeft
  BY <1>10, Zenon DEF WaitLeft, WaitUnchanged, loopVars
<1>11. CASE PrefTouched
  <2>1. touch_flag' \in BOOLEAN /\ waitExitKey' \in BOOLEAN
    BY <1>11 DEF PrefTouched, Icons
  <2>2. QED
    BY <1>11, <2>1, Zenon DEF PrefTouched, WaitUnchanged, loopVars
<1>12. CASE ExitKey
  BY <1>12, Zenon DEF ExitKey, loopVars, pictureVars
<1>13. CASE UNCHANGED vars
  BY <1>13, Zenon DEF vars, loopVars, pictureVars
<1> QED
  BY <1>1, <1>2, <1>3, <1>4, <1>5, <1>6, <1>8, <1>9, <1>10, <1>11, <1>12, <1>13 DEF Next

(* The viewer is in a state it knows, on the list or one item behind it.    *)
THEOREM PhotoFrameTypes == Spec => []TypeOK
<1>1. Init => SleepInv
  BY DEF Init, SleepInv, InViewer
<1>2. Init => PlaceInv
  BY DEF Init, PlaceInv
<1>3. Init => FlagInv
  BY DEF Init, FlagInv
<1>4. PictureInv /\ SleepInv /\ PlaceInv /\ FlagInv => TypeOK
  <2> SUFFICES ASSUME PictureInv, SleepInv, PlaceInv, FlagInv PROVE TypeOK
    OBVIOUS
  <2>1. Len(list) \in Nat /\ Len(list) >= 1 /\ list \in Lists
    BY ListSize DEF PictureInv
  <2>2. idEntry \in 0 .. fileCnt
    BY <2>1 DEF PictureInv, CallInv, PlaceInv, InViewer, IsPicture, Items, fileCnt
  <2>3. {waitExitKey, arrow_clicked, photo_frame_flag, touch_flag, time2sleep,
         time2sleep_cp, sleeps, asked} \subseteq BOOLEAN
    BY DEF SleepInv, FlagInv
  <2>4. QED
    BY <2>1, <2>2, <2>3 DEF TypeOK, PlaceInv
<1> QED
  BY <1>1, <1>2, <1>3, <1>4, PictureInit, PictureStep, SleepStep, PlaceStep, FlagStep, PTL
  DEF Spec
=============================================================================
