---------------------------- MODULE SleepProofs ----------------------------
(***************************************************************************)
(* Proofs about Sleep: for every width of the counter and every set of     *)
(* times to choose from the unit dims and sleeps only after so long, knows *)
(* that its light is dim, and can be woken by the pen.                     *)
(***************************************************************************)
EXTENDS Sleep, TLAPS

(* The seconds since the last touch or key are at least those the handler  *)
(* counts, unless the counter has begun again.                             *)
IdleInv == curTime >= prevTime => idle >= curTime - prevTime \/ idle = W

(* What the main program has read of dimLight is still good.               *)
DimInv ==
  /\ DimIsKnown
  /\ Storing /\ light = "dim" /\ ~lost => reg.dimLight

(* The 50 ms of TIM5 hold one tick at most.                                *)
JustTouched ==
  /\ tim5
  /\ IF ticked THEN curTime - prevTime \in {0, 1}
               ELSE curTime = prevTime /\ curTime < W - 1

(* A pen that is not let through was touched a moment ago, so that nobody  *)
(* wants to sleep.                                                         *)
PenOff == ~pinIrq /\ main # "movie" /\ ~caught
PenInv ==
  /\ PenOff => JustTouched /\ tim8 # "sleepset" /\ ~flags.stop_mode
  /\ tim8 # "off" => time2sleep # 0 \/ caught
  /\ main \in {"stop", "asleep"} => flags.stop_mode
  /\ Storing /\ reg.stop_mode => flags.stop_mode

IInv == TypeOK /\ IdleInv /\ DimInv /\ PenInv

(* The invariants hold when the program starts. *)
LEMMA InvInit == Init => IInv
<1> SUFFICES ASSUME Init PROVE IInv
  OBVIOUS
<1>1. TypeOK
  <2>1. flags \in Flags
    BY DEF Init, Flags
  <2>2. {curTime, prevTime} \subseteq -W .. W - 1 /\ idle \in 0 .. W
    BY TimeAssumption DEF Init
  <2>3. QED
    BY <2>1, <2>2 DEF Init, TypeOK
<1>2. IdleInv /\ DimInv /\ PenInv
  BY TimeAssumption DEF Init, IdleInv, DimInv, DimIsKnown, Storing, PenInv, PenOff
<1>3. QED
  BY <1>1, <1>2 DEF IInv

(* Types are kept by every step. *)
LEMMA TypeStep ==
  ASSUME TypeOK, [Next]_vars
  PROVE  TypeOK'
<1>1. CASE Count
  BY <1>1, TimeAssumption DEF Count, timeVars, penVars, TypeOK, Flags
<1>2. CASE Dim
  BY <1>2, TimeAssumption DEF Dim, Handler, timeVars, penVars, TypeOK, Flags
<1>3. CASE DimSet
  <2>1. flags' \in Flags
    BY <1>3 DEF DimSet, Handler, Storing, TypeOK, Flags
  <2>2. light' \in {"full", "dim", "off"}
    BY <1>3 DEF DimSet, Handler, Storing, TypeOK
  <2>3. QED
    BY <1>3, <2>1, <2>2, TimeAssumption DEF DimSet, Handler, Storing, timeVars, TypeOK
<1>4. CASE Sleep
  BY <1>4, TimeAssumption DEF Sleep, Handler, Enough, timeVars, penVars, TypeOK, Flags
<1>5. CASE SleepSet
  BY <1>5, TimeAssumption DEF SleepSet, Handler, Storing, timeVars, penVars, TypeOK, Flags
<1>6. CASE PenDown
  <2>1. flags' \in Flags
    BY <1>6 DEF PenDown, resetDimLightTimer, PenInStopMode, TypeOK, Flags
  <2>2. light' \in {"full", "dim", "off"}
    BY <1>6 DEF PenDown, resetDimLightTimer, PenInStopMode, TypeOK
  <2>3. {curTime', prevTime'} \subseteq -W .. W - 1 /\ idle' \in 0 .. W
    BY <1>6, TimeAssumption DEF PenDown, resetDimLightTimer, PenInStopMode, timeVars, TypeOK
  <2>4. time2sleep' \in Times /\ {pinIrq', tim5', waitExitKey', ticked', caught', lost'} \subseteq BOOLEAN
    BY <1>6 DEF PenDown, resetDimLightTimer, PenInStopMode, timeVars, TypeOK
  <2>5. QED
    BY <1>6, <2>1, <2>2, <2>3, <2>4 DEF PenDown, resetDimLightTimer, PenInStopMode, timeVars, TypeOK
<1>7. CASE PenSettled
  BY <1>7, TimeAssumption DEF PenSettled, timeVars, penVars, TypeOK, Flags
<1>8. CASE Key
  <2>1. flags' \in Flags
    BY <1>8 DEF Key, resetDimLightTimer, TypeOK, Flags
  <2>2. light' \in {"full", "dim", "off"}
    BY <1>8 DEF Key, resetDimLightTimer, TypeOK
  <2>3. {curTime', prevTime'} \subseteq -W .. W - 1 /\ idle' \in 0 .. W
    BY <1>8, TimeAssumption DEF Key, resetDimLightTimer, timeVars, TypeOK
  <2>4. time2sleep' \in Times /\ {pinIrq', tim5', waitExitKey', ticked', caught', lost'} \subseteq BOOLEAN
    BY <1>8 DEF Key, resetDimLightTimer, timeVars, TypeOK
  <2>5. QED
    BY <1>8, <2>1, <2>2, <2>3, <2>4 DEF Key, resetDimLightTimer, timeVars, TypeOK
<1>9. CASE CheckStop
  BY <1>9, TimeAssumption DEF CheckStop, Thread, timeVars, penVars, TypeOK, Flags
<1>10. CASE EnterStop
  BY <1>10, TimeAssumption DEF EnterStop, Thread, timeVars, penVars, TypeOK, Flags
<1>11. CASE Restart
  BY <1>11, TimeAssumption DEF Restart, Thread, Load, timeVars, penVars, TypeOK, Flags
<1>12. CASE ClearStop
  BY <1>12, TimeAssumption DEF ClearStop, Thread, Store, timeVars, penVars, TypeOK, Flags
<1>13. CASE NothingToDo
  BY <1>13, TimeAssumption DEF NothingToDo, Thread, timeVars, penVars, TypeOK, Flags
<1>14. CASE StartSound
  BY <1>14, TimeAssumption DEF StartSound, Thread, Load, timeVars, penVars, TypeOK, Flags
<1>15. CASE StartMovie
  BY <1>15, TimeAssumption DEF StartMovie, Thread, timeVars, penVars, TypeOK, Flags
<1>16. CASE DisableSleep
  BY <1>16, TimeAssumption DEF DisableSleep, Thread, Store, timeVars, penVars, TypeOK, Flags
<1>17. CASE EndSound
  BY <1>17, TimeAssumption DEF EndSound, Thread, Load, timeVars, penVars, TypeOK, Flags
<1>18. CASE EnableSleep
  BY <1>18, TimeAssumption DEF EnableSleep, Thread, Store, timeVars, penVars, TypeOK, Flags
<1>19. CASE PauseMovie
  BY <1>19, TimeAssumption DEF PauseMovie, Thread, timeVars, penVars, TypeOK, Flags
<1>20. CASE EndMovie
  BY <1>20, TimeAssumption DEF EndMovie, Thread, timeVars, penVars, TypeOK, Flags
<1>21. CASE CardChange
  <2>1. flags' \in Flags
    BY <1>21 DEF CardChange, TypeOK, Flags
  <2>2. light' \in {"full", "dim", "off"}
    BY <1>21 DEF CardChange, TypeOK
  <2>3. {curTime', prevTime'} \subseteq -W .. W - 1 /\ idle' \in 0 .. W
    BY <1>21, TimeAssumption DEF CardChange, timeVars, TypeOK
  <2>4. time2sleep' \in Times /\ {pinIrq', tim5', waitExitKey', ticked', caught', lost'} \subseteq BOOLEAN
    BY <1>21 DEF CardChange, timeVars, TypeOK
  <2>5. QED
    BY <1>21, <2>1, <2>2, <2>3, <2>4 DEF CardChange, timeVars, TypeOK
<1>22. CASE UNCHANGED vars
  BY <1>22 DEF vars, timeVars, penVars, timeVars, penVars, TypeOK, Flags
<1>23. QED
  BY <1>1, <1>2, <1>3, <1>4, <1>5, <1>6, <1>7, <1>8, <1>9, <1>10, <1>11, <1>12, <1>13, <1>14, <1>15, <1>16, <1>17, <1>18, <1>19, <1>20, <1>21, <1>22
  DEF Next, User, TIM8_IRQHandler, MainLoop, Players

(* The count of seconds is kept by every step. *)
LEMMA IdleStep ==
  ASSUME TypeOK, IdleInv, [Next]_vars
  PROVE  IdleInv'
<1>1. CASE Count
  BY <1>1, TimeAssumption DEF Count, timeVars, IdleInv, TypeOK
<1>2. CASE Dim
  BY <1>2, TimeAssumption DEF Dim, Handler, timeVars, IdleInv, TypeOK
<1>3. CASE DimSet
  BY <1>3, TimeAssumption DEF DimSet, Handler, Storing, timeVars, IdleInv, TypeOK
<1>4. CASE Sleep
  BY <1>4, TimeAssumption DEF Sleep, Handler, Enough, timeVars, IdleInv, TypeOK
<1>5. CASE SleepSet
  BY <1>5, TimeAssumption DEF SleepSet, Handler, Storing, timeVars, IdleInv, TypeOK
<1>6. CASE PenDown
  BY <1>6, TimeAssumption DEF PenDown, resetDimLightTimer, PenInStopMode, timeVars, IdleInv, TypeOK
<1>7. CASE PenSettled
  BY <1>7, TimeAssumption DEF PenSettled, timeVars, IdleInv, TypeOK
<1>8. CASE Key
  BY <1>8, TimeAssumption DEF Key, resetDimLightTimer, timeVars, IdleInv, TypeOK
<1>9. CASE CheckStop
  BY <1>9, TimeAssumption DEF CheckStop, Thread, timeVars, IdleInv, TypeOK
<1>10. CASE EnterStop
  BY <1>10, TimeAssumption DEF EnterStop, Thread, timeVars, IdleInv, TypeOK
<1>11. CASE Restart
  BY <1>11, TimeAssumption DEF Restart, Thread, Load, timeVars, IdleInv, TypeOK
<1>12. CASE ClearStop
  BY <1>12, TimeAssumption DEF ClearStop, Thread, Store, timeVars, IdleInv, TypeOK
<1>13. CASE NothingToDo
  BY <1>13, TimeAssumption DEF NothingToDo, Thread, timeVars, IdleInv, TypeOK
<1>14. CASE StartSound
  BY <1>14, TimeAssumption DEF StartSound, Thread, Load, timeVars, IdleInv, TypeOK
<1>15. CASE StartMovie
  BY <1>15, TimeAssumption DEF StartMovie, Thread, timeVars, IdleInv, TypeOK
<1>16. CASE DisableSleep
  BY <1>16, TimeAssumption DEF DisableSleep, Thread, Store, timeVars, IdleInv, TypeOK
<1>17. CASE EndSound
  BY <1>17, TimeAssumption DEF EndSound, Thread, Load, timeVars, IdleInv, TypeOK
<1>18. CASE EnableSleep
  BY <1>18, TimeAssumption DEF EnableSleep, Thread, Store, timeVars, IdleInv, TypeOK
<1>19. CASE PauseMovie
  BY <1>19, TimeAssumption DEF PauseMovie, Thread, timeVars, IdleInv, TypeOK
<1>20. CASE EndMovie
  BY <1>20, TimeAssumption DEF EndMovie, Thread, timeVars, IdleInv, TypeOK
<1>21. CASE CardChange
  BY <1>21, TimeAssumption DEF CardChange, timeVars, IdleInv, TypeOK
<1>22. CASE UNCHANGED vars
  BY <1>22 DEF vars, timeVars, penVars, timeVars, IdleInv, TypeOK
<1>23. QED
  BY <1>1, <1>2, <1>3, <1>4, <1>5, <1>6, <1>7, <1>8, <1>9, <1>10, <1>11, <1>12, <1>13, <1>14, <1>15, <1>16, <1>17, <1>18, <1>19, <1>20, <1>21, <1>22
  DEF Next, User, TIM8_IRQHandler, MainLoop, Players

(* What is known of the light is kept by every step. *)
LEMMA DimStep ==
  ASSUME TypeOK, DimInv, [Next]_vars
  PROVE  DimInv'
<1>1. CASE Count
  BY <1>1 DEF Count, DimInv, DimIsKnown, Storing, TypeOK, Flags
<1>2. CASE Dim
  BY <1>2 DEF Dim, Handler, DimInv, DimIsKnown, Storing, TypeOK, Flags
<1>3. CASE DimSet
  BY <1>3 DEF DimSet, Handler, Storing, DimInv, DimIsKnown, TypeOK, Flags
<1>4. CASE Sleep
  BY <1>4 DEF Sleep, Handler, Enough, DimInv, DimIsKnown, Storing, TypeOK, Flags
<1>5. CASE SleepSet
  BY <1>5 DEF SleepSet, Handler, Storing, DimInv, DimIsKnown, TypeOK, Flags
<1>6. CASE PenDown
  BY <1>6 DEF PenDown, resetDimLightTimer, PenInStopMode, DimInv, DimIsKnown, Storing, TypeOK, Flags
<1>7. CASE PenSettled
  BY <1>7 DEF PenSettled, DimInv, DimIsKnown, Storing, TypeOK, Flags
<1>8. CASE Key
  BY <1>8 DEF Key, resetDimLightTimer, DimInv, DimIsKnown, Storing, TypeOK, Flags
<1>9. CASE CheckStop
  BY <1>9 DEF CheckStop, Thread, DimInv, DimIsKnown, Storing, TypeOK, Flags
<1>10. CASE EnterStop
  BY <1>10 DEF EnterStop, Thread, DimInv, DimIsKnown, Storing, TypeOK, Flags
<1>11. CASE Restart
  BY <1>11 DEF Restart, Thread, Load, DimInv, DimIsKnown, Storing, TypeOK, Flags
<1>12. CASE ClearStop
  BY <1>12 DEF ClearStop, Thread, Store, DimInv, DimIsKnown, Storing, TypeOK, Flags
<1>13. CASE NothingToDo
  BY <1>13 DEF NothingToDo, Thread, DimInv, DimIsKnown, Storing, TypeOK, Flags
<1>14. CASE StartSound
  BY <1>14 DEF StartSound, Thread, Load, DimInv, DimIsKnown, Storing, TypeOK, Flags
<1>15. CASE StartMovie
  BY <1>15 DEF StartMovie, Thread, DimInv, DimIsKnown, Storing, TypeOK, Flags
<1>16. CASE DisableSleep
  BY <1>16 DEF DisableSleep, Thread, Store, DimInv, DimIsKnown, Storing, TypeOK, Flags
<1>17. CASE EndSound
  BY <1>17 DEF EndSound, Thread, Load, DimInv, DimIsKnown, Storing, TypeOK, Flags
<1>18. CASE EnableSleep
  BY <1>18 DEF EnableSleep, Thread, Store, DimInv, DimIsKnown, Storing, TypeOK, Flags
<1>19. CASE PauseMovie
  BY <1>19 DEF PauseMovie, Thread, DimInv, DimIsKnown, Storing, TypeOK, Flags
<1>20. CASE EndMovie
  BY <1>20 DEF EndMovie, Thread, DimInv, DimIsKnown, Storing, TypeOK, Flags
<1>21. CASE CardChange
  BY <1>21 DEF CardChange, DimInv, DimIsKnown, Storing, TypeOK, Flags
<1>22. CASE UNCHANGED vars
  BY <1>22 DEF vars, timeVars, penVars, DimInv, DimIsKnown, Storing, TypeOK, Flags
<1>23. QED
  BY <1>1, <1>2, <1>3, <1>4, <1>5, <1>6, <1>7, <1>8, <1>9, <1>10, <1>11, <1>12, <1>13, <1>14, <1>15, <1>16, <1>17, <1>18, <1>19, <1>20, <1>21, <1>22
  DEF Next, User, TIM8_IRQHandler, MainLoop, Players

(* A pen that is not let through stays a matter of a moment. *)
LEMMA PenStep ==
  ASSUME TypeOK, PenInv, [Next]_vars
  PROVE  PenInv'
<1>1. CASE Count
  BY <1>1, TimeAssumption DEF Count, timeVars, PenInv, PenOff, JustTouched, Storing, TypeOK, Flags
<1>2. CASE Dim
  BY <1>2, TimeAssumption DEF Dim, Handler, timeVars, PenInv, PenOff, JustTouched, Storing, TypeOK, Flags
<1>3. CASE DimSet
  <2>1. flags'.stop_mode = flags.stop_mode
    BY <1>3 DEF DimSet, TypeOK, Flags
  <2>2. QED
    BY <1>3, <2>1 DEF DimSet, Handler, Storing, timeVars, PenInv, PenOff, JustTouched
<1>4. CASE Sleep
  BY <1>4, TimeAssumption DEF Sleep, Handler, Enough, Elapsed, Abs, timeVars, PenInv, PenOff, JustTouched, Storing, TypeOK, Flags
<1>5. CASE SleepSet
  BY <1>5, TimeAssumption DEF SleepSet, Handler, Storing, timeVars, PenInv, PenOff, JustTouched, TypeOK, Flags
<1>6. CASE PenDown
  <2> USE <1>6 DEF PenDown
  <2>1. flags' = [flags EXCEPT !.dimLight = FALSE] /\ prevTime' = curTime /\ curTime' = curTime
    BY DEF resetDimLightTimer
  <2>2. flags'.stop_mode = flags.stop_mode
    BY <2>1 DEF TypeOK, Flags
  <2>3. PenOff' => JustTouched' /\ tim8' # "sleepset" /\ ~flags'.stop_mode
    <3> SUFFICES ASSUME PenOff' PROVE JustTouched' /\ tim8' # "sleepset" /\ ~flags'.stop_mode
      OBVIOUS
    <3>1. ~flags.stop_mode
      BY DEF PenOff, PenInStopMode
    <3>2. curTime # W - 1 /\ tim8 # "sleepset"
      BY DEF PenOff
    <3>3. curTime' < W - 1
      BY <2>1, <3>2, TimeAssumption DEF TypeOK
    <3>4. QED
      BY <2>1, <2>2, <3>1, <3>2, <3>3 DEF JustTouched
  <2>4. tim8' # "off" => time2sleep' # 0 \/ caught'
    BY DEF PenInv
  <2>5. main' \in {"stop", "asleep"} => flags'.stop_mode
    BY <2>2 DEF PenInv
  <2>6. Storing' /\ reg'.stop_mode => flags'.stop_mode
    BY <2>2 DEF PenInv, Storing
  <2>7. QED
    BY <2>3, <2>4, <2>5, <2>6 DEF PenInv
<1>7. CASE PenSettled
  BY <1>7, TimeAssumption DEF PenSettled, timeVars, PenInv, PenOff, JustTouched, Storing, TypeOK, Flags
<1>8. CASE Key
  <2> USE <1>8 DEF Key
  <2>1. flags' = [flags EXCEPT !.dimLight = FALSE] /\ prevTime' = curTime /\ curTime' = curTime
    BY DEF resetDimLightTimer
  <2>2. flags'.stop_mode = flags.stop_mode
    BY <2>1 DEF TypeOK, Flags
  <2>3. JustTouched => JustTouched'
    BY <2>1 DEF JustTouched, TypeOK
  <2>4. PenOff' => PenOff
    BY DEF PenOff
  <2>5. tim8' # "off" => time2sleep' # 0 \/ caught'
    BY DEF PenInv
  <2>6. QED
    BY <2>2, <2>3, <2>4, <2>5 DEF PenInv, Storing
<1>9. CASE CheckStop
  BY <1>9, TimeAssumption DEF CheckStop, Thread, timeVars, PenInv, PenOff, JustTouched, Storing, TypeOK, Flags
<1>10. CASE EnterStop
  BY <1>10, TimeAssumption DEF EnterStop, Thread, timeVars, PenInv, PenOff, JustTouched, Storing, TypeOK, Flags
<1>11. CASE Restart
  BY <1>11, TimeAssumption DEF Restart, Thread, Load, timeVars, PenInv, PenOff, JustTouched, Storing, TypeOK, Flags
<1>12. CASE ClearStop
  BY <1>12, TimeAssumption DEF ClearStop, Thread, Store, timeVars, PenInv, PenOff, JustTouched, Storing, TypeOK, Flags
<1>13. CASE NothingToDo
  BY <1>13, TimeAssumption DEF NothingToDo, Thread, timeVars, PenInv, PenOff, JustTouched, Storing, TypeOK, Flags
<1>14. CASE StartSound
  BY <1>14, TimeAssumption DEF StartSound, Thread, Load, timeVars, PenInv, PenOff, JustTouched, Storing, TypeOK, Flags
<1>15. CASE StartMovie
  BY <1>15, TimeAssumption DEF StartMovie, Thread, timeVars, PenInv, PenOff, JustTouched, Storing, TypeOK, Flags
<1>16. CASE DisableSleep
  BY <1>16, TimeAssumption DEF DisableSleep, Thread, Store, timeVars, PenInv, PenOff, JustTouched, Storing, TypeOK, Flags
<1>17. CASE EndSound
  BY <1>17, TimeAssumption DEF EndSound, Thread, Load, timeVars, PenInv, PenOff, JustTouched, Storing, TypeOK, Flags
<1>18. CASE EnableSleep
  BY <1>18, TimeAssumption DEF EnableSleep, Thread, Store, timeVars, PenInv, PenOff, JustTouched, Storing, TypeOK, Flags
<1>19. CASE PauseMovie
  BY <1>19, TimeAssumption DEF PauseMovie, Thread, timeVars, PenInv, PenOff, JustTouched, Storing, TypeOK, Flags
<1>20. CASE EndMovie
  BY <1>20, TimeAssumption DEF EndMovie, Thread, timeVars, PenInv, PenOff, JustTouched, Storing, TypeOK, Flags
<1>21. CASE CardChange
  BY <1>21, TimeAssumption DEF CardChange, timeVars, PenInv, PenOff, JustTouched, Storing, TypeOK, Flags
<1>22. CASE UNCHANGED vars
  BY <1>22 DEF vars, timeVars, penVars, timeVars, PenInv, PenOff, JustTouched, Storing, TypeOK, Flags
<1>23. QED
  BY <1>1, <1>2, <1>3, <1>4, <1>5, <1>6, <1>7, <1>8, <1>9, <1>10, <1>11, <1>12, <1>13, <1>14, <1>15, <1>16, <1>17, <1>18, <1>19, <1>20, <1>21, <1>22
  DEF Next, User, TIM8_IRQHandler, MainLoop, Players

-----------------------------------------------------------------------------
(* The invariant holds in every state. *)
THEOREM SleepInvariant == Spec => []IInv
<1>1. IInv /\ [Next]_vars => IInv'
  BY TypeStep, IdleStep, DimStep, PenStep DEF IInv
<1>2. QED
  BY InvInit, <1>1, PTL DEF Spec

(* The counters stay in their widths and the handlers where they can be,     *)
(* whatever time to sleep is chosen while they run                         *)
(* (TIM8_UP_TIM13_IRQHandler, main.c).                                     *)
THEOREM SleepTypes == Spec => []TypeOK
<1>1. IInv => TypeOK
  BY DEF IInv
<1>2. QED
  BY SleepInvariant, <1>1, PTL

(* A dim light is known to be dim, so that a touch makes it bright (main.c, *)
(* xpt2046.c), unless the flag is lost between two instructions.           *)
THEOREM DimLightIsKnown == Spec => []DimIsKnown
<1>1. IInv => DimIsKnown
  BY DEF IInv, DimInv
<1>2. QED
  BY SleepInvariant, <1>1, PTL

(* Who sleeps can be woken with the pen, but for the races "caught" names   *)
(* (EXTI4_IRQHandler).                                                     *)
THEOREM SleeperIsWakeable == Spec => []Wakeable
<1>1. IInv => Wakeable
  BY DEF IInv, PenInv, PenOff, Wakeable
<1>2. QED
  BY SleepInvariant, <1>1, PTL

(* The light is dimmed and the stop mode asked for only after as many       *)
(* seconds without touch or key as are chosen (TIM8_UP_TIM13_IRQHandler).  *)
THEOREM SleepsOnlyWhenIdle == Spec => IdleBefore
<1> DEFINE Idle ==
      /\ tim8' = "dimset" /\ tim8 # "dimset" => idle >= time2sleep \div 2 \/ Wrapped
      /\ tim8' = "sleepset" /\ tim8 # "sleepset" => idle >= time2sleep \/ Wrapped
<1>1. ASSUME IInv, [Next]_vars PROVE Idle
  <2>0. TypeOK /\ IdleInv
    BY <1>1 DEF IInv
  <2>1. time2sleep \in 0 .. W - 1 /\ time2sleep \div 2 \in 0 .. W - 1
    BY <2>0, TimeAssumption DEF TypeOK
  <2>2. ~Wrapped => idle >= Elapsed \/ idle = W
    BY <2>0, TimeAssumption DEF IdleInv, Wrapped, Elapsed, Abs, TypeOK
  <2>3. Elapsed \in Int /\ idle \in Int
    BY <2>0, TimeAssumption DEF Elapsed, Abs, TypeOK
  <2>4. CASE Dim
    BY <2>1, <2>2, <2>3, <2>4, TimeAssumption DEF Dim
  <2>5. CASE Sleep
    BY <2>1, <2>2, <2>3, <2>5, TimeAssumption DEF Sleep, Enough
  <2>6. CASE Count \/ DimSet \/ SleepSet
    BY <2>6 DEF Count, DimSet, SleepSet
  <2>7. CASE tim8' = tim8
    BY <2>7
  <2>8. QED
    BY <1>1, <2>4, <2>5, <2>6, <2>7
    DEF Next, User, TIM8_IRQHandler, MainLoop, Players, PenDown, Key, CardChange,
        PenSettled, Thread, CheckStop, EnterStop, Restart, ClearStop, NothingToDo,
        StartSound, StartMovie, DisableSleep, EndSound, EnableSleep, PauseMovie,
        EndMovie, vars
<1>2. QED
  BY SleepInvariant, <1>1, PTL DEF Spec, IdleBefore
=============================================================================
