------------------------------- MODULE Sleep -------------------------------
(***************************************************************************)
(* The back light and the stop mode: the handler of TIM8 (main.c), that of *)
(* the pen (EXTI4 and the 50 ms of TIM5, xpt2046.c), that of the console,  *)
(* and the main loop that stops the processor and starts it again.         *)
(*                                                                         *)
(* TIM8 interrupts the main program; pen and console interrupt both.  The  *)
(* flags are bits of one byte: to write one of them is to read the byte    *)
(* and to write it back, and what an interrupt wrote in between is lost.   *)
(***************************************************************************)
EXTENDS Integers

CONSTANTS
  W,           (* curTime and prevTime are numbers of -W .. W - 1: 32768     *)
  Times        (* the values of settings.time2sleep, 0 for "Always ON"       *)

ASSUME TimeAssumption ==
  /\ W \in Nat \ {0}
  /\ Times \subseteq {0} \cup 2 .. W - 1 /\ 0 \in Times

VARIABLES
  curTime, prevTime,     (* fields of time                                   *)
  flags,                 (* time.flags                                       *)
  time2sleep,            (* settings_group.disp_conf.time2sleep              *)
  light,                 (* the back light                                   *)
  pinIrq,                (* the interrupt of the pen is let through          *)
  tim5,                  (* TIM5 counts its 50 ms                            *)
  waitExitKey,           (* a file was opened                                *)
  main,                  (* where the main program is                        *)
  tim8,                  (* where the handler of TIM8 is, or "off"           *)
  reg,                   (* the flags as the main program has read them      *)
  (* Observers: *)
  idle,                  (* seconds since a touch or a key, W at most        *)
  ticked,                (* TIM8 has ticked while TIM5 counts                *)
  caught,                (* the pen was touched when it was too late to stay *)
                         (* awake or when the seconds were to begin again,   *)
                         (* or another time was chosen under TIM8's hands    *)
  lost                   (* TIM8 has written the flags last behind the main  *)
                         (* program's back                                   *)

timeVars == <<curTime, prevTime, idle>>
penVars == <<pinIrq, tim5, ticked, caught>>
vars == <<timeVars, penVars, flags, time2sleep, light, waitExitKey, main, tim8,
          reg, lost>>

Flags == [dimLight : BOOLEAN, enable : BOOLEAN, stop_mode : BOOLEAN]

Abs(n) == IF n < 0 THEN -n ELSE n
Elapsed == Abs(curTime - prevTime)

Init ==
  /\ curTime = 0 /\ prevTime = 0 /\ idle = 0
  /\ flags = [dimLight |-> FALSE, enable |-> TRUE, stop_mode |-> FALSE]
  /\ time2sleep \in Times
  /\ light = "full"
  /\ pinIrq = TRUE /\ tim5 = FALSE /\ ticked = FALSE /\ caught = FALSE
  /\ waitExitKey = FALSE
  /\ main = "loop" /\ tim8 = "off" /\ reg = flags /\ lost = FALSE

(* "stop", "asleep", "awake", "clearStop": stopping and starting again;     *)
(* "dispatch": behind the check of stop_mode; "startSound", "sound",        *)
(* "endSound": a sound player; "movie": the movie player.                   *)
Storing == main \in {"clearStop", "startSound", "endSound"}
Playing == main \in {"startSound", "sound", "endSound", "movie"}
Clocked == main # "asleep"

-----------------------------------------------------------------------------
(* The handler of TIM8, once a second *)

(* Mutant: the seconds do not begin again. *)
CountWide ==
  /\ tim8 = "off" /\ Clocked /\ main # "movie"
  /\ tim5 => ~ticked
  /\ time2sleep # 0
  /\ curTime' = curTime + 1
  /\ idle' = IF idle < W THEN idle + 1 ELSE W
  /\ ticked' = tim5
  /\ tim8' = "dim"
  /\ UNCHANGED <<prevTime, pinIrq, tim5, caught, flags, time2sleep, light,
                 waitExitKey, main, reg, lost>>

(* A second is longer than the 50 ms of TIM5.  The movie player stops TIM8. *)
Count ==
  /\ tim8 = "off" /\ Clocked /\ main # "movie"
  /\ tim5 => ~ticked
  /\ time2sleep # 0
  /\ curTime' = IF curTime = W - 1 THEN -W ELSE curTime + 1
  /\ idle' = IF idle < W THEN idle + 1 ELSE W
  /\ ticked' = tim5
  /\ tim8' = "dim"
  /\ UNCHANGED <<prevTime, pinIrq, tim5, caught, flags, time2sleep, light,
                 waitExitKey, main, reg, lost>>

Handler == UNCHANGED <<timeVars, pinIrq, tim5, ticked, time2sleep, waitExitKey,
                       main, reg>>

Dim ==
  /\ tim8 = "dim"
  /\ tim8' = IF Elapsed >= time2sleep \div 2 /\ ~flags.dimLight /\ flags.enable
             THEN "dimset" ELSE "sleep"
  /\ UNCHANGED <<flags, light, caught, lost>>
  /\ Handler

DimSet ==
  /\ tim8 = "dimset"
  /\ light' = IF light = "off" THEN "off" ELSE "dim"
  /\ flags' = [flags EXCEPT !.dimLight = TRUE]
  /\ lost' = Storing
  /\ tim8' = "sleep"
  /\ UNCHANGED caught
  /\ Handler

(* Mutant: once the light is dim the time is not looked at again. *)
EnoughDim(t) == flags.dimLight /\ flags.enable
Enough(t) == Elapsed >= t /\ flags.dimLight /\ flags.enable

Sleep ==
  /\ tim8 = "sleep"
  /\ tim8' = IF Enough(time2sleep) THEN "sleepset" ELSE "off"
  /\ UNCHANGED <<flags, light, caught, lost>>
  /\ Handler

(* A touch may have cleared dimLight before this handler's reading of the   *)
(* byte or after it.                                                        *)
SleepSet ==
  /\ tim8 = "sleepset"
  /\ \E dim \in {flags.dimLight, TRUE} :
       flags' = [flags EXCEPT !.stop_mode = TRUE, !.dimLight = dim]
  /\ lost' = (lost \/ Storing)
  /\ tim8' = "off"
  /\ UNCHANGED <<light, caught>>
  /\ Handler

-----------------------------------------------------------------------------
(* Pen and console *)

(* Mutant: the seconds begin, but the light stays as it is. *)
resetDimLightTimerDark ==
  /\ prevTime' = curTime /\ idle' = 0
  /\ flags' = [flags EXCEPT !.dimLight = FALSE]
  /\ UNCHANGED <<light, curTime>>

resetDimLightTimer ==
  /\ prevTime' = curTime /\ idle' = 0
  /\ flags' = [flags EXCEPT !.dimLight = FALSE]
  /\ light' = IF flags.dimLight /\ light # "off" THEN "full" ELSE light
  /\ UNCHANGED curTime

(* Mutant: a touch in the stop mode leaves the interrupt off. *)
PenInStopModeOff == UNCHANGED tim5 /\ pinIrq' = FALSE

PenInStopMode == tim5' = FALSE /\ pinIrq' = TRUE

PenDown ==
  /\ pinIrq
  /\ resetDimLightTimer
  /\ IF flags.stop_mode THEN PenInStopMode ELSE pinIrq' = FALSE /\ tim5' = TRUE
  /\ ticked' = FALSE
  /\ caught' = (tim8 = "sleepset" \/ curTime = W - 1 \/ (caught /\ tim8 # "off"))
  /\ main' = IF main = "asleep" THEN "awake" ELSE main
  /\ UNCHANGED <<time2sleep, waitExitKey, tim8, reg, lost>>

(* 50 ms later, or when the pen is lifted. *)
PenSettled ==
  /\ tim5 /\ Clocked
  /\ tim5' = FALSE /\ pinIrq' = TRUE
  /\ UNCHANGED <<timeVars, ticked, caught, flags, time2sleep, light,
                 waitExitKey, main, tim8, reg, lost>>

(* A key may open a file or choose another time to sleep. *)
Key ==
  /\ Clocked
  /\ resetDimLightTimer
  /\ waitExitKey' \in {waitExitKey, ~Playing}
  /\ time2sleep' \in IF Playing THEN {time2sleep} ELSE Times
  /\ caught' = (caught \/ (time2sleep' # time2sleep /\ tim8 # "off"))
  /\ UNCHANGED <<pinIrq, tim5, ticked, main, tim8, reg, lost>>

-----------------------------------------------------------------------------
(* The main program *)

Thread(from, to) ==
  /\ main = from /\ main' = to
  /\ tim8 = "off"
  /\ UNCHANGED <<curTime, idle, tim5, ticked, caught, time2sleep, tim8, lost>>

(* One flag is written: the byte as it was read, and this flag.            *)
Load == reg' = flags
Store(f) == flags' = f /\ UNCHANGED reg

CheckStop ==
  /\ Thread("loop", IF flags.stop_mode THEN "stop" ELSE "dispatch")
  /\ light' = IF flags.stop_mode THEN "off" ELSE light
  /\ UNCHANGED <<prevTime, pinIrq, flags, waitExitKey, reg>>

EnterStop ==
  /\ Thread("stop", "asleep")
  /\ UNCHANGED <<prevTime, pinIrq, flags, waitExitKey, reg, light>>

Restart ==
  /\ Thread("awake", "clearStop")
  /\ light' = "full"
  /\ Load
  /\ UNCHANGED <<prevTime, pinIrq, flags, waitExitKey>>

ClearStop ==
  /\ Thread("clearStop", "dispatch")
  /\ Store([reg EXCEPT !.stop_mode = FALSE])
  /\ UNCHANGED <<prevTime, pinIrq, waitExitKey, light>>

NothingToDo ==
  /\ Thread("dispatch", "loop")
  /\ ~waitExitKey
  /\ UNCHANGED <<prevTime, pinIrq, flags, waitExitKey, reg, light>>

StartSound ==
  /\ Thread("dispatch", "startSound")
  /\ waitExitKey
  /\ Load
  /\ UNCHANGED <<prevTime, pinIrq, flags, waitExitKey, light>>

DisableSleep ==
  /\ Thread("startSound", "sound")
  /\ Store([reg EXCEPT !.enable = FALSE])
  /\ UNCHANGED <<prevTime, pinIrq, waitExitKey, light>>

EndSound ==
  /\ Thread("sound", "endSound")
  /\ waitExitKey' = FALSE
  /\ prevTime' = curTime
  /\ Load
  /\ UNCHANGED <<pinIrq, flags, light>>

(* Mutant: sleeping stays put off. *)
EnableSleepNot ==
  /\ Thread("endSound", "loop")
  /\ Store(reg)
  /\ UNCHANGED <<prevTime, pinIrq, waitExitKey, light>>

EnableSleep ==
  /\ Thread("endSound", "loop")
  /\ Store([reg EXCEPT !.enable = TRUE])
  /\ UNCHANGED <<prevTime, pinIrq, waitExitKey, light>>

StartMovie ==
  /\ Thread("dispatch", "movie")
  /\ waitExitKey
  /\ pinIrq' = FALSE
  /\ UNCHANGED <<prevTime, flags, waitExitKey, reg, light>>

PauseMovie ==
  /\ Thread("movie", "movie")
  /\ pinIrq' = ~pinIrq
  /\ UNCHANGED <<prevTime, flags, waitExitKey, reg, light>>

EndMovie ==
  /\ Thread("movie", "loop")
  /\ waitExitKey' = FALSE
  /\ pinIrq' = TRUE
  /\ UNCHANGED <<prevTime, flags, reg, light>>

(* The card is pulled or inserted: after a while the watchdog starts the    *)
(* program anew.  This also wakes the unit.                                *)
CardChange ==
  /\ tim8 = "off"
  /\ curTime' = 0 /\ prevTime' = 0 /\ idle' = 0
  /\ flags' = [dimLight |-> FALSE, enable |-> TRUE, stop_mode |-> FALSE]
  /\ time2sleep' \in Times
  /\ light' = "full"
  /\ pinIrq' = TRUE /\ tim5' = FALSE /\ ticked' = FALSE /\ caught' = FALSE
  /\ waitExitKey' = FALSE
  /\ main' = "loop" /\ reg' = flags' /\ lost' = FALSE
  /\ UNCHANGED tim8

-----------------------------------------------------------------------------
User == PenDown \/ Key \/ CardChange
TIM8_IRQHandler == Count \/ Dim \/ DimSet \/ Sleep \/ SleepSet
MainLoop ==
  \/ CheckStop \/ EnterStop \/ Restart \/ ClearStop
  \/ NothingToDo \/ StartSound \/ StartMovie
Players == DisableSleep \/ EndSound \/ EnableSleep \/ PauseMovie \/ EndMovie

Next == User \/ PenSettled \/ TIM8_IRQHandler \/ MainLoop \/ Players

Spec == Init /\ [][Next]_vars

(* The timers run while the processor does, and their handlers, which end, *)
(* leave the main program time to go on.                                   *)
FairSpec ==
  /\ Spec
  /\ WF_vars(TIM8_IRQHandler) /\ WF_vars(PenSettled) /\ SF_vars(MainLoop)

-----------------------------------------------------------------------------
(* Properties *)

TypeOK ==
  /\ {curTime, prevTime} \subseteq -W .. W - 1
  /\ {flags, reg} \subseteq Flags
  /\ time2sleep \in Times
  /\ light \in {"full", "dim", "off"}
  /\ {pinIrq, tim5, waitExitKey, ticked, caught, lost} \subseteq BOOLEAN
  /\ main \in {"loop", "stop", "asleep", "awake", "clearStop", "dispatch",
              "startSound", "sound", "endSound", "movie"}
  /\ tim8 \in {"off", "dim", "dimset", "sleep", "sleepset"}
  /\ idle \in 0 .. W

(* The seconds have begun again since the last touch. *)
Wrapped == curTime < prevTime

(* The light is only dimmed and the stop mode only asked for after so long  *)
(* without touch or key as the user has chosen, until the seconds begin    *)
(* again (TIM8_UP_TIM13_IRQHandler).  "Always ON", chosen between the       *)
(* handler's first and its last reading of it, is a time that is over at   *)
(* once.                                                                   *)
IdleBefore ==
  [][/\ tim8' = "dimset" /\ tim8 # "dimset" => idle >= time2sleep \div 2 \/ Wrapped
     /\ tim8' = "sleepset" /\ tim8 # "sleepset" => idle >= time2sleep \/ Wrapped]_vars

(* Mind the user who touches the panel now: a dim light is known to be dim, *)
(* so that the touch makes it bright, unless the flag was lost between two  *)
(* instructions of the main program (the bits of time.flags).               *)
DimIsKnown == light = "dim" /\ ~lost => flags.dimLight

(* Who sleeps can be woken: the interrupt of the pen is on, unless the last *)
(* touch fell between the decision to sleep and the flag, into the second  *)
(* before the time begins again, or another time to sleep was chosen while *)
(* the handler of TIM8 ran (EXTI4_IRQHandler).                              *)
Wakeable == main = "asleep" => pinIrq \/ caught

(* Left alone the unit goes to sleep for good, unless it plays or is to     *)
(* stay on (the main loop, TIM8).                                           *)
SleepsAtLast ==
  \/ []<><<User>>_vars
  \/ []<>(time2sleep = 0 \/ Playing)
  \/ <>[](main = "asleep")
=============================================================================
