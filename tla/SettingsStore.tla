--------------------------- MODULE SettingsStore ---------------------------
(***************************************************************************)
(* The settings in RAM, the sector of the flash that keeps them, and the   *)
(* two programs that rewrite it: SETTINGS_Save, in the handler of a key or *)
(* of the pen, and the picture viewer, that copies its picture behind the  *)
(* lists or behind the music.  The head of each of the two pictures is in  *)
(* the sector of the settings.                                             *)
(*                                                                         *)
(* A sector is erased as a whole, and then a bit can only be cleared: what *)
(* is written over something else is the bits that both have.  A cell of   *)
(* the sector is one setting or the head of one picture, its contents the  *)
(* set of its bits that are set.                                           *)
(*                                                                         *)
(* SETTINGS_Save programs one byte at a time, the viewer two.  Before a     *)
(* cell of several bytes is finished, its last bytes are still erased      *)
(* (Rest).  The power may be lost between any two of these operations.     *)
(***************************************************************************)
EXTENDS Integers, Sequences

CONSTANTS
  Bits,                (* of a cell; all of them are set when it is erased   *)
  Conf,                (* the settings, in the order of settings_group       *)
  Table,               (* the values a setting may have                      *)
  Default,
  Rest,                (* what of a cell may be erased while it is written   *)
  Pictures,            (* heads of pictures                                  *)
  PlayerFields         (* what the music player sets: the look of the bars   *)

Fields == {Conf[i] : i \in DOMAIN Conf}
Heads == {"filer", "music"}
Cells == Heads \union Fields
CELLS == Len(Conf) + 2

ASSUME SettingsAssumption ==
  /\ Conf \in Seq(STRING)
  /\ \A i, j \in DOMAIN Conf : Conf[i] = Conf[j] => i = j
  /\ Fields \intersect Heads = {}
  /\ {"time2sleep", "touch_cal"} \subseteq Fields
  /\ PlayerFields \subseteq Fields \ {"time2sleep", "touch_cal"}
  /\ Table \in [Fields -> SUBSET SUBSET Bits]
  /\ \A f \in Fields : Default[f] \in Table[f]
  /\ {} \in Table["time2sleep"]
  /\ Pictures \subseteq SUBSET Bits
  /\ Rest \in [Cells -> SUBSET SUBSET Bits]

(* The bytes are written one after the other.  A number of several bytes    *)
(* with its last bytes erased is in no table.                              *)
ASSUME RestAssumption ==
  /\ \A c \in Cells : \A r, s \in Rest[c] : r \subseteq s \/ s \subseteq r
  /\ \A f \in Fields \ {"touch_cal"} :
       \A rest \in Rest[f], v \in Table[f] : ~(rest \subseteq v)

VARIABLES
  flash,               (* the sector                                         *)
  settings,            (* settings_group                                     *)
  saving, si, sbuf,    (* SETTINGS_Save, its index and its buffer            *)
  copying, to, ci, cbuf,     (* the same of the viewer's copy                *)
  viewer, time2sleep_cp,     (* dojpeg, and what it remembers                *)
  waitExitKey,
  usb,                 (* MassStorage                                        *)
  (* Observers: *)
  want,                (* what the sector should hold when nobody writes     *)
  met                  (* a save has come into the copy that is running      *)

save == <<saving, si, sbuf>>
copy == <<copying, to, ci, cbuf>>
view == <<viewer, time2sleep_cp, waitExitKey>>
vars == <<flash, settings, save, copy, view, usb, want, met>>

Other(t) == IF t = "filer" THEN "music" ELSE "filer"

(* The order in which the cells are written. *)
SaveOrder(i) == IF i = 1 THEN "filer" ELSE IF i = 2 THEN "music" ELSE Conf[i - 2]
CopyOrder(t, i) == IF i = 1 THEN Other(t) ELSE IF i = CELLS THEN t ELSE Conf[i - 1]

Erased == [c \in Cells |-> Bits]
Program(c, v) == [flash EXCEPT ![c] = @ \intersect v]

(* What a cell holds while v is written to it, and something of it is left. *)
Torn(c, v) == {v \union rest : rest \in Rest[c]}

(* Mutant: only what is erased is replaced. *)
UnlessErased(f, v) == IF v # Bits \/ f = "touch_cal" THEN v ELSE Default[f]

(* The calibration of the panel is taken as it is. *)
validate_saved_val(f, v) ==
  IF v \in Table[f] \/ f = "touch_cal" THEN v ELSE Default[f]

SETTINGS_Init(sector) == [f \in Fields |-> validate_saved_val(f, sector[f])]

(* A unit that was never used: the program's image has the two pictures.   *)
Init ==
  /\ flash \in {[c \in Cells |-> IF c \in Heads THEN p ELSE Bits] : p \in Pictures}
  /\ settings = SETTINGS_Init(flash)
  /\ saving = "no" /\ si = 1 /\ sbuf = Erased
  /\ copying = "no" /\ to = "filer" /\ ci = 1 /\ cbuf = Erased
  /\ viewer = FALSE /\ time2sleep_cp = {} /\ waitExitKey = FALSE
  /\ usb = FALSE
  /\ want = flash /\ met = FALSE

-----------------------------------------------------------------------------
(* SETTINGS_Save: the rest of the program waits for it. *)

(* Mutant: the pictures are left out of the buffer. *)
WithSettingsOnly(group) == [c \in Cells |-> IF c \in Fields THEN group[c] ELSE Bits]

(* The sector as it is, with the settings in their place. *)
WithSettings(group) == [c \in Cells |-> IF c \in Fields THEN group[c] ELSE flash[c]]

StartSave(group) ==
  /\ saving = "no"
  /\ settings' = group
  /\ saving' = "erase" /\ si' = 1 /\ sbuf' = WithSettings(group)
  /\ met' = (copying # "no")

SaveErase ==
  /\ saving = "erase"
  /\ flash' = Erased
  /\ saving' = "write"
  /\ UNCHANGED <<settings, si, sbuf, copy, view, usb, want, met>>

(* Some of a cell is programmed ... *)
SavePart ==
  /\ saving = "write"
  /\ \E v \in Torn(SaveOrder(si), sbuf[SaveOrder(si)]) : flash' = Program(SaveOrder(si), v)
  /\ UNCHANGED <<settings, save, copy, view, usb, want, met>>

(* ... and the rest of it. *)
SaveWrite ==
  /\ saving = "write"
  /\ flash' = Program(SaveOrder(si), sbuf[SaveOrder(si)])
  /\ IF si < CELLS
     THEN si' = si + 1 /\ UNCHANGED <<saving, sbuf, want>>
     ELSE /\ saving' = "no" /\ si' = 1 /\ sbuf' = Erased
          /\ want' = IF copying = "no" THEN [c \in Cells |-> IF c \in Fields
                                                 THEN settings[c] ELSE want[c]]
                     ELSE want
  /\ UNCHANGED <<settings, copy, view, usb, met>>

(* An item of the settings is entered, by key or by pen.  The keys are for  *)
(* the lists when nothing waits for an exit key.                           *)
Choose ==
  /\ ~waitExitKey
  /\ \E f \in Fields \ {"touch_cal"} : \E v \in Table[f] :
       StartSave([settings EXCEPT ![f] = v])
  /\ UNCHANGED <<flash, copy, view, usb, want>>

(* A tap on the bars while music plays: they look different, for now. *)
ChangeBars ==
  /\ saving = "no" /\ ~viewer /\ ~usb
  /\ \E f \in PlayerFields : \E v \in Table[f] : settings' = [settings EXCEPT ![f] = v]
  /\ UNCHANGED <<flash, save, copy, view, usb, want, met>>

-----------------------------------------------------------------------------
(* dojpeg *)

(* The unit must not sleep while a picture is made. *)
OpenPicture ==
  /\ saving = "no" /\ ~viewer /\ ~usb
  /\ viewer' = TRUE /\ waitExitKey' = TRUE
  /\ time2sleep_cp' = settings["time2sleep"]
  /\ settings' = [settings EXCEPT !["time2sleep"] = {}]
  /\ UNCHANGED <<flash, save, copy, usb, want, met>>

GiveBack ==
  settings' = IF time2sleep_cp = {} THEN settings
              ELSE [settings EXCEPT !["time2sleep"] = time2sleep_cp]

(* The picture is there, or it is tapped. *)
ShowPicture ==
  /\ saving = "no" /\ viewer /\ copying = "no"
  /\ GiveBack
  /\ UNCHANGED <<flash, save, copy, view, usb, want, met>>

(* The key 'e'.  The viewer looks at waitExitKey when it comes to it. *)
ExitKey ==
  /\ saving = "no" /\ waitExitKey
  /\ waitExitKey' = FALSE
  /\ UNCHANGED <<flash, settings, save, copy, viewer, time2sleep_cp, usb, want, met>>

(* Another picture may be next, then waitExitKey stays. *)
ClosePicture ==
  /\ saving = "no" /\ viewer /\ copying = "no"
  /\ GiveBack
  /\ viewer' = FALSE /\ waitExitKey' \in {waitExitKey, FALSE}
  /\ time2sleep_cp' = {}
  /\ UNCHANGED <<flash, save, copy, usb, want, met>>

-----------------------------------------------------------------------------
(* The copy: what it does not replace it reads, then erases, then writes.   *)

StartCopy ==
  /\ saving = "no" /\ viewer /\ copying = "no"
  /\ copying' = "read" /\ ci' = 1
  /\ to' \in Heads
  /\ \E p \in Pictures : cbuf' = [Erased EXCEPT ![to'] = p]
  /\ met' = FALSE
  /\ UNCHANGED <<flash, settings, save, view, usb, want>>

(* Mutant: the last of the settings is not read. *)
CopyReadLess ==
  /\ saving = "no" /\ copying = "read"
  /\ cbuf' = [cbuf EXCEPT ![CopyOrder(to, ci)] = flash[CopyOrder(to, ci)]]
  /\ IF ci + 2 < CELLS THEN ci' = ci + 1 /\ UNCHANGED copying
                       ELSE ci' = 1 /\ copying' = "erase"
  /\ UNCHANGED <<flash, settings, save, to, view, usb, want, met>>

(* Mutant: it reads one too many. *)
CopyReadMore ==
  /\ saving = "no" /\ copying = "read"
  /\ cbuf' = [cbuf EXCEPT ![CopyOrder(to, ci)] = flash[CopyOrder(to, ci)]]
  /\ IF ci <= CELLS THEN ci' = ci + 1 /\ UNCHANGED copying
                       ELSE ci' = 1 /\ copying' = "erase"
  /\ UNCHANGED <<flash, settings, save, to, view, usb, want, met>>

CopyRead ==
  /\ saving = "no" /\ copying = "read"
  /\ cbuf' = [cbuf EXCEPT ![CopyOrder(to, ci)] = flash[CopyOrder(to, ci)]]
  /\ IF ci + 1 < CELLS THEN ci' = ci + 1 /\ UNCHANGED copying
                       ELSE ci' = 1 /\ copying' = "erase"
  /\ UNCHANGED <<flash, settings, save, to, view, usb, want, met>>

CopyErase ==
  /\ saving = "no" /\ copying = "erase"
  /\ flash' = Erased
  /\ copying' = "write"
  /\ UNCHANGED <<settings, save, to, ci, cbuf, view, usb, want, met>>

CopyPart ==
  /\ saving = "no" /\ copying = "write"
  /\ \E v \in Torn(CopyOrder(to, ci), cbuf[CopyOrder(to, ci)]) :
       flash' = Program(CopyOrder(to, ci), v)
  /\ UNCHANGED <<settings, save, copy, view, usb, want, met>>

CopyWrite ==
  /\ saving = "no" /\ copying = "write"
  /\ flash' = Program(CopyOrder(to, ci), cbuf[CopyOrder(to, ci)])
  /\ IF ci < CELLS
     THEN ci' = ci + 1 /\ UNCHANGED <<copying, to, cbuf, want, met>>
     ELSE /\ copying' = "no" /\ ci' = 1 /\ to' = "filer" /\ cbuf' = Erased
          /\ met' = FALSE
          /\ want' = IF met THEN flash' ELSE [want EXCEPT ![to] = cbuf[to]]
  /\ UNCHANGED <<settings, save, view, usb>>

-----------------------------------------------------------------------------
MassStorage ==
  /\ saving = "no" /\ ~viewer /\ ~usb
  /\ usb' = TRUE
  /\ settings' = [settings EXCEPT !["time2sleep"] = {}]
  /\ UNCHANGED <<flash, save, copy, view, want, met>>

Writing == saving # "no" \/ copying # "no"

(* The power is lost, and comes again.  What a torn write has left counts. *)
Off ==
  /\ copying' = "no" /\ to' = "filer" /\ ci' = 1 /\ cbuf' = Erased
  /\ viewer' = FALSE /\ time2sleep_cp' = {} /\ waitExitKey' = FALSE
  /\ usb' = FALSE
  /\ want' = IF Writing THEN flash ELSE want

Restart ==
  /\ Off
  /\ settings' = SETTINGS_Init(flash)
  /\ saving' = "no" /\ si' = 1 /\ sbuf' = Erased
  /\ met' = FALSE
  /\ UNCHANGED flash

(* It is switched on with the user's switch held down, to set the panel's   *)
(* calibration.                                                            *)
TouchPanel_Calibration ==
  /\ Off
  /\ saving' = "erase" /\ si' = 1 /\ met' = FALSE
  /\ \E v \in Table["touch_cal"] :
       settings' = [SETTINGS_Init(flash) EXCEPT !["touch_cal"] = v]
  /\ sbuf' = WithSettings(settings')
  /\ UNCHANGED flash

Next ==
  \/ SaveErase \/ SavePart \/ SaveWrite \/ Choose \/ ChangeBars
  \/ OpenPicture \/ ShowPicture \/ ExitKey \/ ClosePicture
  \/ StartCopy \/ CopyRead \/ CopyErase \/ CopyPart \/ CopyWrite
  \/ MassStorage \/ Restart \/ TouchPanel_Calibration

Spec == Init /\ [][Next]_vars

-----------------------------------------------------------------------------
(* Properties *)

TypeOK ==
  /\ {flash, sbuf, cbuf, want} \subseteq [Cells -> SUBSET Bits]
  /\ settings \in [Fields -> SUBSET Bits]
  /\ saving \in {"no", "erase", "write"} /\ si \in 1 .. CELLS
  /\ copying \in {"no", "read", "erase", "write"} /\ to \in Heads
  /\ ci \in 1 .. CELLS
  /\ time2sleep_cp \in SUBSET Bits
  /\ {viewer, waitExitKey, usb, met} \subseteq BOOLEAN

(* Whatever a torn write, or two writers, have left in the sector, every    *)
(* setting the program works with is one of its table (SETTINGS_Init).     *)
ValidSettings == \A f \in Fields \ {"touch_cal"} : settings[f] \in Table[f]

(* When nobody writes, the sector holds the settings that were saved last   *)
(* and the pictures that were copied last, all of them: neither writer     *)
(* loses what the other has put there, as long as they do not meet         *)
(* (SETTINGS_Save, dojpeg).                                                *)
StoreIsTrue == ~Writing => flash = want

(* The values of a setting that may be in the sector, and what a start may  *)
(* make of them if they are not, or not all, written.                      *)
Written(f) == {want[f]} \union (IF saving = "no" THEN {} ELSE {settings[f]})

Found(f) ==
  IF f = "touch_cal"
  THEN {Bits} \union Written(f) \union UNION {Torn(f, v) : v \in Written(f)}
  ELSE {Default[f]} \union
         {validate_saved_val(f, v) : v \in {Bits} \union Written(f)}

(* A restart finds what was saved.  If the power is lost while the sector   *)
(* is written, each setting of a table is the old one, the new one, its    *)
(* default or what an erased cell stands for.  Nothing checks the          *)
(* calibration: it is the old one or the new one, of which the last bytes  *)
(* or all may be missing, but never has parts of both (SETTINGS_Save,      *)
(* dojpeg, SETTINGS_Init).  Not if a save has come into a copy.            *)
RestartFinds ==
  [][Restart /\ ~(met /\ Writing) =>
       \A f \in Fields :
         settings'[f] \in IF Writing THEN Found(f)
                          ELSE {validate_saved_val(f, want[f])}]_vars
=============================================================================
