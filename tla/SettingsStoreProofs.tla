------------------------ MODULE SettingsStoreProofs ------------------------
(***************************************************************************)
(* Proofs about SettingsStore, for every layout and all tables.  The       *)
(* inductive invariant says how far each of the two writers has come: the  *)
(* cells before its index are written, the one at its index may be begun,  *)
(* the others are erased.                                                  *)
(***************************************************************************)
EXTENDS SettingsStore, TLAPS

Value == SUBSET Bits

-----------------------------------------------------------------------------
(* The orders in which the cells are written *)

LEMMA Cell == CELLS \in Nat /\ CELLS >= 4 /\ Len(Conf) = CELLS - 2
              /\ DOMAIN Conf = 1 .. CELLS - 2
<1>1. Len(Conf) \in Nat /\ DOMAIN Conf = 1 .. Len(Conf)
  BY SettingsAssumption
<1>2. PICK i \in DOMAIN Conf : Conf[i] = "time2sleep"
  BY SettingsAssumption DEF Fields
<1>3. PICK j \in DOMAIN Conf : Conf[j] = "touch_cal"
  BY SettingsAssumption DEF Fields
<1>4. i # j
  BY <1>2, <1>3
<1>5. Len(Conf) >= 2
  BY <1>1, <1>4
<1> QED BY <1>1, <1>5 DEF CELLS

LEMMA ConfField ==
  /\ \A i \in 1 .. CELLS - 2 : Conf[i] \in Fields
  /\ \A f \in Fields : \E i \in 1 .. CELLS - 2 : f = Conf[i]
BY Cell DEF Fields

LEMMA FieldOrHead ==
  /\ "filer" \in Cells /\ "music" \in Cells /\ Fields \subseteq Cells
  /\ "filer" \notin Fields /\ "music" \notin Fields
  /\ "time2sleep" \in Fields /\ "touch_cal" \in Fields
  /\ \A c \in Cells : c \notin Fields => c = "filer" \/ c = "music"
BY SettingsAssumption DEF Cells, Heads

(* SaveOrder names each cell once. *)
LEMMA SaveCell ==
  /\ \A i \in 1 .. CELLS : SaveOrder(i) \in Cells
  /\ \A c \in Cells : \E i \in 1 .. CELLS : c = SaveOrder(i)
  /\ \A i, j \in 1 .. CELLS : SaveOrder(i) = SaveOrder(j) => i = j
<1>1. \A i \in 1 .. CELLS : SaveOrder(i) \in Cells
  BY Cell, ConfField, FieldOrHead DEF SaveOrder
<1>2. ASSUME NEW c \in Cells
      PROVE  \E i \in 1 .. CELLS : c = SaveOrder(i)
  <2>1. CASE c \in Fields
    <3>1. PICK i \in 1 .. CELLS - 2 : c = Conf[i]
      BY <2>1, ConfField
    <3>2. i + 2 \in 1 .. CELLS /\ SaveOrder(i + 2) = Conf[i]
      BY Cell DEF SaveOrder
    <3> QED BY <3>1, <3>2
  <2>2. CASE c = "filer"
    BY <2>2, Cell DEF SaveOrder
  <2>3. CASE c = "music"
    <3>1. SaveOrder(2) = "music" /\ 2 \in 1 .. CELLS
      BY Cell DEF SaveOrder
    <3> QED BY <2>3, <3>1
  <2> QED BY <2>1, <2>2, <2>3, FieldOrHead
<1>3. ASSUME NEW i \in 1 .. CELLS, NEW j \in 1 .. CELLS, SaveOrder(i) = SaveOrder(j)
      PROVE  i = j
  <2>1. \A k \in 1 .. CELLS : k # 1 /\ k # 2 =>
          SaveOrder(k) = Conf[k - 2] /\ SaveOrder(k) \in Fields /\ k - 2 \in DOMAIN Conf
    BY Cell, ConfField DEF SaveOrder
  <2>2. SaveOrder(1) = "filer" /\ SaveOrder(2) = "music" /\ "filer" # "music"
    BY DEF SaveOrder
  <2>3. CASE i \in {1, 2} \/ j \in {1, 2}
    BY <1>3, <2>1, <2>2, <2>3, FieldOrHead
  <2>4. CASE i \notin {1, 2} /\ j \notin {1, 2}
    <3>1. i - 2 = j - 2
      BY <1>3, <2>1, <2>4, SettingsAssumption
    <3> QED BY <3>1
  <2> QED BY <2>3, <2>4
<1> QED BY <1>1, <1>2, <1>3

(* So does CopyOrder, and the cell that is replaced is the last. *)
LEMMA CopyCell ==
  ASSUME NEW t \in Heads
  PROVE  /\ \A i \in 1 .. CELLS : CopyOrder(t, i) \in Cells
         /\ \A c \in Cells : \E i \in 1 .. CELLS : c = CopyOrder(t, i)
         /\ \A i, j \in 1 .. CELLS : CopyOrder(t, i) = CopyOrder(t, j) => i = j
         /\ CopyOrder(t, CELLS) = t
<1>0. /\ t \in {"filer", "music"} /\ Other(t) \in {"filer", "music"} /\ Other(t) # t
      /\ \A h \in {"filer", "music"} : h = t \/ h = Other(t)
  BY DEF Heads, Other
<1>1. /\ CopyOrder(t, 1) = Other(t) /\ CopyOrder(t, CELLS) = t
      /\ \A k \in 1 .. CELLS : k # 1 /\ k # CELLS =>
           /\ CopyOrder(t, k) = Conf[k - 1] /\ CopyOrder(t, k) \in Fields
           /\ k - 1 \in DOMAIN Conf
  BY Cell, ConfField DEF CopyOrder
<1>2. \A i \in 1 .. CELLS : CopyOrder(t, i) \in Cells
  BY <1>0, <1>1, FieldOrHead
<1>3. ASSUME NEW c \in Cells
      PROVE  \E i \in 1 .. CELLS : c = CopyOrder(t, i)
  <2>1. CASE c \in Fields
    <3>1. PICK i \in 1 .. CELLS - 2 : c = Conf[i]
      BY <2>1, ConfField
    <3>2. i + 1 \in 1 .. CELLS /\ CopyOrder(t, i + 1) = Conf[i]
      BY Cell DEF CopyOrder
    <3> QED BY <3>1, <3>2
  <2>2. CASE c \notin Fields
    <3>1. c = t \/ c = Other(t)
      BY <2>2, <1>0, FieldOrHead
    <3> QED BY <3>1, <1>1, Cell
  <2> QED BY <2>1, <2>2
<1>4. ASSUME NEW i \in 1 .. CELLS, NEW j \in 1 .. CELLS, CopyOrder(t, i) = CopyOrder(t, j)
      PROVE  i = j
  <2>1. CASE i \in {1, CELLS} \/ j \in {1, CELLS}
    BY <1>0, <1>1, <1>4, <2>1, FieldOrHead
  <2>2. CASE i \notin {1, CELLS} /\ j \notin {1, CELLS}
    <3>1. i - 1 = j - 1
      BY <1>1, <1>4, <2>2, SettingsAssumption
    <3> QED BY <3>1
  <2> QED BY <2>1, <2>2
<1> QED BY <1>1, <1>2, <1>3, <1>4

-----------------------------------------------------------------------------
(* The inductive invariant *)

TypeInv ==
  /\ TypeOK
  /\ \A f \in Fields : f # "touch_cal" => settings[f] \in Table[f]
  /\ time2sleep_cp \in Table["time2sleep"]

(* What is in a cell when v comes to it, or some of v has come.             *)
Begun(c, v) == {Bits} \union Torn(c, v)

(* How far SETTINGS_Save has come.  sbuf is the sector with the settings.   *)
SaveInv ==
  /\ saving # "no" => \A f \in Fields : sbuf[f] = settings[f]
  /\ saving # "no" /\ copying = "no" => \A h \in Heads : sbuf[h] = want[h]
  /\ saving = "erase" => si = 1 /\ (copying = "no" => flash = want)
  /\ saving = "write" =>
       \A i \in 1 .. CELLS :
         /\ i # si => flash[SaveOrder(i)] = IF i < si THEN sbuf[SaveOrder(i)] ELSE Bits
         /\ i = si => flash[SaveOrder(i)] \in Begun(SaveOrder(i), sbuf[SaveOrder(i)])

(* How far the copy has come, if no save came into it. *)
CopyInv ==
  /\ copying = "no" => ~met
  /\ copying # "no" /\ ~met => saving = "no"
  /\ copying = "read" => ci < CELLS
  /\ copying = "read" /\ ~met =>
       flash = want /\ \A i \in 1 .. CELLS :
                         i < ci => cbuf[CopyOrder(to, i)] = want[CopyOrder(to, i)]
  /\ copying = "erase" => ci = 1
  /\ copying \in {"erase", "write"} /\ ~met =>
       \A i \in 1 .. CELLS - 1 : cbuf[CopyOrder(to, i)] = want[CopyOrder(to, i)]
  /\ copying = "erase" /\ ~met => flash = want
  /\ copying = "write" /\ ~met =>
       \A i \in 1 .. CELLS :
         /\ i # ci => flash[CopyOrder(to, i)] =
                        IF i < ci THEN cbuf[CopyOrder(to, i)] ELSE Bits
         /\ i = ci => flash[CopyOrder(to, i)] \in
                        Begun(CopyOrder(to, i), cbuf[CopyOrder(to, i)])

IInv == TypeInv /\ SaveInv /\ CopyInv /\ StoreIsTrue

-----------------------------------------------------------------------------
(* What the operators of the steps return *)

LEMMA ProgramType ==
  ASSUME TypeOK, NEW c \in Cells, NEW v \in Value
  PROVE  /\ Program(c, v) \in [Cells -> Value]
         /\ Program(c, v)[c] = flash[c] \intersect v
         /\ \A d \in Cells : d # c => Program(c, v)[d] = flash[d]
BY DEF Program, TypeOK, Value

(* A cell that is begun can be finished, and can be begun a bit further. *)
LEMMA Finish ==
  ASSUME NEW c \in Cells, NEW v \in Value, NEW x \in Begun(c, v)
  PROVE  x \intersect v = v
BY DEF Begun, Torn, Value

LEMMA Further ==
  ASSUME NEW c \in Cells, NEW v \in Value, NEW x \in Begun(c, v), NEW y \in Torn(c, v)
  PROVE  y \in Value /\ x \intersect y \in Begun(c, v)
<1>1. PICK r \in Rest[c] : y = v \union r
  BY DEF Torn
<1>2. r \subseteq Bits /\ v \subseteq Bits
  BY SettingsAssumption DEF Value
<1>3. CASE x = Bits
  BY <1>1, <1>2, <1>3 DEF Begun, Torn, Value
<1>4. CASE x # Bits
  <2>1. PICK s \in Rest[c] : x = v \union s
    BY <1>4 DEF Begun, Torn
  <2>2. CASE r \subseteq s
    <3>1. x \intersect y = y
      BY <1>1, <2>1, <2>2
    <3> QED BY <1>1, <1>2, <3>1 DEF Begun, Torn, Value
  <2>3. CASE s \subseteq r
    <3>1. x \intersect y = x
      BY <1>1, <2>1, <2>3
    <3> QED BY <1>1, <1>2, <3>1 DEF Value
  <2> QED BY <2>2, <2>3, RestAssumption
<1> QED BY <1>3, <1>4

(* What is in the tables has the bits of a cell. *)
LEMMA TableValue ==
  \A f \in Fields : Table[f] \subseteq Value /\ Default[f] \in Table[f]
BY SettingsAssumption DEF Value

(* The type invariant, one variable at a time. *)
LEMMA TypeFlat ==
  ASSUME flash' \in [Cells -> Value], sbuf' \in [Cells -> Value],
         cbuf' \in [Cells -> Value], want' \in [Cells -> Value],
         settings' \in [Fields -> Value],
         \A f \in Fields : f # "touch_cal" => settings'[f] \in Table[f],
         saving' \in {"no", "erase", "write"}, si' \in 1 .. CELLS,
         copying' \in {"no", "read", "erase", "write"}, to' \in Heads,
         ci' \in 1 .. CELLS, time2sleep_cp' \in Table["time2sleep"],
         viewer' \in BOOLEAN, waitExitKey' \in BOOLEAN, usb' \in BOOLEAN,
         met' \in BOOLEAN
  PROVE  TypeInv'
<1>1. time2sleep_cp' \in Value
  BY TableValue, FieldOrHead
<1> QED BY <1>1 DEF TypeInv, TypeOK, Value

LEMMA FlatType ==
  ASSUME TypeInv
  PROVE  /\ flash \in [Cells -> Value] /\ sbuf \in [Cells -> Value]
         /\ cbuf \in [Cells -> Value] /\ want \in [Cells -> Value]
         /\ settings \in [Fields -> Value]
         /\ \A f \in Fields : f # "touch_cal" => settings[f] \in Table[f]
         /\ saving \in {"no", "erase", "write"} /\ si \in 1 .. CELLS
         /\ copying \in {"no", "read", "erase", "write"} /\ to \in Heads
         /\ ci \in 1 .. CELLS /\ time2sleep_cp \in Table["time2sleep"]
         /\ viewer \in BOOLEAN /\ waitExitKey \in BOOLEAN /\ usb \in BOOLEAN
         /\ met \in BOOLEAN
BY DEF TypeInv, TypeOK, Value

LEMMA One == 1 \in 1 .. CELLS /\ "filer" \in Heads
BY Cell DEF Heads

LEMMA InitValid ==
  ASSUME NEW sector \in [Cells -> Value]
  PROVE  /\ SETTINGS_Init(sector) \in [Fields -> Value]
         /\ \A f \in Fields :
              /\ SETTINGS_Init(sector)[f] = validate_saved_val(f, sector[f])
              /\ f # "touch_cal" => SETTINGS_Init(sector)[f] \in Table[f]
BY TableValue, FieldOrHead DEF SETTINGS_Init, validate_saved_val

(* The field of the time to sleep takes a value of its table. *)
LEMMA SetSleep ==
  ASSUME TypeInv, NEW v \in Table["time2sleep"]
  PROVE  LET group == [settings EXCEPT !["time2sleep"] = v]
         IN /\ group \in [Fields -> Value]
            /\ \A f \in Fields : f # "touch_cal" => group[f] \in Table[f]
BY TableValue, FieldOrHead DEF TypeInv, TypeOK, Value

LEMMA GiveBackValid ==
  ASSUME TypeInv, GiveBack
  PROVE  /\ settings' \in [Fields -> Value]
         /\ \A f \in Fields : f # "touch_cal" => settings'[f] \in Table[f]
<1>1. CASE time2sleep_cp = {}
  BY <1>1 DEF GiveBack, TypeInv, TypeOK, Value
<1>2. CASE time2sleep_cp # {}
  BY <1>2, SetSleep DEF GiveBack, TypeInv
<1> QED BY <1>1, <1>2

LEMMA ErasedType ==
  Erased \in [Cells -> Value] /\ \A c \in Cells : Erased[c] = Bits
BY DEF Erased, Value

(* The buffer of SETTINGS_Save has the new settings and the old pictures. *)
LEMMA WithSettingsIs ==
  ASSUME TypeOK, NEW group \in [Fields -> Value]
  PROVE  /\ WithSettings(group) \in [Cells -> Value]
         /\ \A f \in Fields : WithSettings(group)[f] = group[f]
         /\ \A h \in Heads : WithSettings(group)[h] = flash[h]
BY FieldOrHead DEF WithSettings, TypeOK, Value, Heads

(* A value of a table for a setting that is not the calibration. *)
LEMMA SetField ==
  ASSUME TypeInv, NEW f \in Fields, NEW v \in Table[f]
  PROVE  LET group == [settings EXCEPT ![f] = v]
         IN /\ group \in [Fields -> Value]
            /\ \A g \in Fields : g # "touch_cal" => group[g] \in Table[g]
BY TableValue DEF TypeInv, TypeOK, Value

-----------------------------------------------------------------------------
(* The steps of SETTINGS_Save *)

LEMMA StartSaveStep ==
  ASSUME IInv, NEW group \in [Fields -> Value],
         \A f \in Fields : f # "touch_cal" => group[f] \in Table[f],
         StartSave(group), UNCHANGED <<flash, copy, view, usb, want>>
  PROVE  IInv'
<1> USE DEF copy, view
<1>1. /\ sbuf' \in [Cells -> Value]
      /\ \A f \in Fields : sbuf'[f] = settings'[f]
      /\ \A h \in Heads : sbuf'[h] = flash[h]
  BY WithSettingsIs DEF StartSave, IInv, TypeInv
<1>2. TypeInv'
  BY <1>1, Cell DEF StartSave, IInv, TypeInv, TypeOK, Value
<1>3. SaveInv'
  BY <1>1 DEF StartSave, IInv, SaveInv, StoreIsTrue, Writing
<1>4. CopyInv'
  BY DEF StartSave, IInv, CopyInv
<1>5. StoreIsTrue'
  BY DEF StartSave, StoreIsTrue, Writing
<1> QED BY <1>2, <1>3, <1>4, <1>5 DEF IInv

LEMMA SaveEraseStep ==
  ASSUME IInv, SaveErase
  PROVE  IInv'
<1> USE DEF copy, view
<1>1. TypeInv'
  BY ErasedType DEF SaveErase, IInv, TypeInv, TypeOK, Value
<1>2. SaveInv'
  BY ErasedType, SaveCell, Cell DEF SaveErase, IInv, SaveInv, Begun
<1>3. CopyInv'
  BY DEF SaveErase, IInv, SaveInv, CopyInv
<1>4. StoreIsTrue'
  BY DEF SaveErase, StoreIsTrue, Writing
<1> QED BY <1>1, <1>2, <1>3, <1>4 DEF IInv

(* The cell at the index holds a bit more, the others what they held. *)
LEMMA SavePartStep ==
  ASSUME IInv, SavePart
  PROVE  IInv'
<1> USE DEF save, copy, view
<1> DEFINE c == SaveOrder(si)
<1>1. /\ si \in 1 .. CELLS /\ c \in Cells /\ sbuf[c] \in Value
      /\ flash[c] \in Begun(c, sbuf[c]) /\ TypeOK
  BY SaveCell, Cell DEF SavePart, IInv, TypeInv, TypeOK, SaveInv, Value
<1>2. PICK v \in Torn(c, sbuf[c]) : flash' = Program(c, v)
  BY DEF SavePart
<1>3. /\ flash' \in [Cells -> Value]
      /\ flash'[c] \in Begun(c, sbuf[c])
      /\ \A d \in Cells : d # c => flash'[d] = flash[d]
  <2> HIDE DEF c
  <2>1. v \in Value /\ flash[c] \intersect v \in Begun(c, sbuf[c])
    BY <1>1, Further
  <2>2. /\ Program(c, v) \in [Cells -> Value]
        /\ Program(c, v)[c] = flash[c] \intersect v
        /\ \A d \in Cells : d # c => Program(c, v)[d] = flash[d]
    BY <1>1, <2>1, ProgramType
  <2> QED BY <1>2, <2>1, <2>2
<1>4. TypeInv'
  BY <1>3 DEF SavePart, IInv, TypeInv, TypeOK, Value
<1>5. SaveInv'
  <2>1. ASSUME NEW i \in 1 .. CELLS
        PROVE  /\ i # si => flash'[SaveOrder(i)] =
                              IF i < si THEN sbuf[SaveOrder(i)] ELSE Bits
               /\ i = si => flash'[SaveOrder(i)] \in Begun(SaveOrder(i), sbuf[SaveOrder(i)])
    <3>1. CASE i = si
      BY <1>3, <3>1
    <3>2. CASE i # si
      <4>1. SaveOrder(i) \in Cells /\ SaveOrder(i) # c
        BY <1>1, <3>2, SaveCell
      <4> QED BY <1>3, <3>2, <4>1 DEF SavePart, IInv, SaveInv
    <3> QED BY <3>1, <3>2
  <2> QED BY <2>1 DEF SavePart, IInv, SaveInv
<1>6. CopyInv'
  BY DEF SavePart, IInv, SaveInv, CopyInv
<1>7. StoreIsTrue'
  BY DEF SavePart, StoreIsTrue, Writing
<1> QED BY <1>4, <1>5, <1>6, <1>7 DEF IInv

(* One cell more is written, on erased bits or on its first bytes. *)
LEMMA SaveWrites ==
  ASSUME IInv, SaveWrite
  PROVE  /\ flash' \in [Cells -> Value]
         /\ \A i \in 1 .. CELLS :
              flash'[SaveOrder(i)] = IF i <= si THEN sbuf[SaveOrder(i)] ELSE Bits
<1> DEFINE c == SaveOrder(si)
<1>1. /\ si \in 1 .. CELLS /\ c \in Cells /\ sbuf[c] \in Value
      /\ flash[c] \in Begun(c, sbuf[c])
  BY SaveCell, Cell DEF SaveWrite, IInv, TypeInv, TypeOK, SaveInv, Value
<1>2. /\ flash' \in [Cells -> Value]
      /\ flash'[c] = sbuf[c]
      /\ \A d \in Cells : d # c => flash'[d] = flash[d]
  <2>1. TypeOK /\ flash' = Program(c, sbuf[c])
    BY DEF SaveWrite, IInv, TypeInv
  <2> HIDE DEF c
  <2>2. flash[c] \intersect sbuf[c] = sbuf[c]
    BY <1>1, Finish
  <2> QED BY <1>1, <2>1, <2>2, ProgramType
<1>3. ASSUME NEW i \in 1 .. CELLS
      PROVE  flash'[SaveOrder(i)] = IF i <= si THEN sbuf[SaveOrder(i)] ELSE Bits
  <2>1. CASE i = si
    BY <1>2, <2>1
  <2>2. CASE i # si
    <3>1. SaveOrder(i) \in Cells /\ SaveOrder(i) # c
      BY <1>1, <2>2, SaveCell
    <3>2. flash'[SaveOrder(i)] = IF i < si THEN sbuf[SaveOrder(i)] ELSE Bits
      BY <1>2, <2>2, <3>1 DEF SaveWrite, IInv, SaveInv
    <3> QED BY <1>1, <2>2, <3>2, Cell
  <2> QED BY <2>1, <2>2
<1> QED BY <1>2, <1>3

LEMMA SaveWriteStep ==
  ASSUME IInv, SaveWrite
  PROVE  IInv'
<1> USE DEF copy, view
<1>1. CASE si < CELLS
  <2>1. TypeInv'
    BY <1>1, SaveWrites, Cell DEF SaveWrite, IInv, TypeInv, TypeOK, Value
  <2>2. SaveInv'
    <3>1. \A i \in 1 .. CELLS : (i <= si <=> i < si') /\ (i = si' => ~(i <= si))
      BY <1>1, Cell DEF SaveWrite, IInv, TypeInv, TypeOK
    <3> QED BY <1>1, <3>1, SaveWrites DEF SaveWrite, IInv, SaveInv, Begun
  <2>3. CopyInv'
    BY <1>1 DEF SaveWrite, IInv, CopyInv
  <2>4. StoreIsTrue'
    BY <1>1 DEF SaveWrite, StoreIsTrue, Writing
  <2> QED BY <2>1, <2>2, <2>3, <2>4 DEF IInv
<1>2. CASE ~(si < CELLS)
  <2>1. si = CELLS
    BY <1>2, Cell DEF IInv, TypeInv, TypeOK
  <2>2. \A c \in Cells : flash'[c] = sbuf[c]
    <3>1. ASSUME NEW c \in Cells PROVE flash'[c] = sbuf[c]
      <4>1. PICK i \in 1 .. CELLS : c = SaveOrder(i)
        BY SaveCell
      <4> QED BY <2>1, <4>1, SaveWrites, Cell
    <3> QED BY <3>1
  <2>3. copying = "no" => \A c \in Cells : want'[c] = sbuf[c]
    BY <1>2, FieldOrHead DEF SaveWrite, IInv, SaveInv, Heads
  <2>4. want' \in [Cells -> Value]
    BY <1>2, FieldOrHead DEF SaveWrite, IInv, TypeInv, TypeOK, Value
  <2>5. TypeInv'
    BY <1>2, <2>4, SaveWrites, ErasedType, Cell DEF SaveWrite, IInv, TypeInv, TypeOK, Value
  <2>6. SaveInv'
    BY <1>2 DEF SaveWrite, SaveInv
  <2>7. CopyInv'
    BY <1>2 DEF SaveWrite, IInv, CopyInv
  <2>8. StoreIsTrue'
    <3>1. CASE copying = "no"
      BY <2>2, <2>3, <2>4, <3>1, SaveWrites DEF StoreIsTrue
    <3>2. CASE copying # "no"
      BY <3>2 DEF SaveWrite, StoreIsTrue, Writing
    <3> QED BY <3>1, <3>2
  <2> QED BY <2>5, <2>6, <2>7, <2>8 DEF IInv
<1> QED BY <1>1, <1>2

-----------------------------------------------------------------------------
(* The steps of the copy *)

(* Once SETTINGS_Save does not run, its part of the invariant is void. *)
LEMMA NotSaving ==
  ASSUME saving' = "no"
  PROVE  SaveInv'
BY DEF SaveInv

LEMMA StartCopyStep ==
  ASSUME IInv, StartCopy
  PROVE  IInv'
<1> USE DEF save, view
<1>1. cbuf' \in [Cells -> Value]
  <2>1. PICK p \in Pictures : cbuf' = [Erased EXCEPT ![to'] = p]
    BY DEF StartCopy
  <2>2. p \in Value
    BY SettingsAssumption DEF Value
  <2> QED BY <2>1, <2>2, ErasedType
<1>2. TypeInv'
  <2>1. /\ to' \in Heads /\ ci' = 1 /\ copying' = "read" /\ met' = FALSE
        /\ UNCHANGED <<flash, settings, save, view, usb, want>> /\ TypeInv
    BY DEF StartCopy, IInv
  <2> QED BY <1>1, <2>1, TypeFlat, FlatType, One
<1>3. CopyInv'
  BY Cell DEF StartCopy, IInv, CopyInv, StoreIsTrue, Writing
<1>4. SaveInv' /\ StoreIsTrue'
  BY NotSaving DEF StartCopy, StoreIsTrue, Writing
<1> QED BY <1>2, <1>3, <1>4 DEF IInv

(* One cell more is read. *)
LEMMA CopyReads ==
  ASSUME IInv, CopyRead
  PROVE  /\ cbuf' \in [Cells -> Value]
         /\ ~met => \A i \in 1 .. CELLS :
              i <= ci => cbuf'[CopyOrder(to, i)] = want[CopyOrder(to, i)]
<1> DEFINE c == CopyOrder(to, ci)
<1>1. /\ ci \in 1 .. CELLS /\ to \in Heads
      /\ cbuf \in [Cells -> Value] /\ flash \in [Cells -> Value]
  BY DEF IInv, TypeInv, TypeOK, Value
<1>2. c \in Cells
  BY <1>1, CopyCell
<1>3. /\ cbuf' \in [Cells -> Value]
      /\ cbuf'[c] = flash[c]
      /\ \A d \in Cells : d # c => cbuf'[d] = cbuf[d]
  BY <1>1, <1>2 DEF CopyRead
<1>4. ASSUME ~met, NEW i \in 1 .. CELLS, i <= ci
      PROVE  cbuf'[CopyOrder(to, i)] = want[CopyOrder(to, i)]
  <2>1. CASE i = ci
    BY <1>3, <1>4, <2>1 DEF CopyRead, IInv, CopyInv
  <2>2. CASE i # ci
    <3>1. CopyOrder(to, i) \in Cells /\ CopyOrder(to, i) # c
      BY <1>1, <2>2, CopyCell
    <3>2. i < ci
      BY <1>1, <1>4, <2>2, Cell
    <3>3. cbuf[CopyOrder(to, i)] = want[CopyOrder(to, i)]
      BY <1>4, <3>2 DEF CopyRead, IInv, CopyInv
    <3> QED BY <1>3, <3>1, <3>3
  <2> QED BY <2>1, <2>2
<1> QED BY <1>3, <1>4

LEMMA CopyReadStep ==
  ASSUME IInv, CopyRead
  PROVE  IInv'
<1> USE DEF save, view
<1>1. ci \in 1 .. CELLS /\ CELLS \in Nat /\ CELLS >= 4 /\ ci < CELLS
  BY Cell DEF CopyRead, IInv, TypeInv, TypeOK, CopyInv
<1>2. TypeInv'
  <2>1. ci' \in 1 .. CELLS /\ copying' \in {"read", "erase"}
    BY <1>1 DEF CopyRead
  <2> QED BY <2>1, CopyReads DEF CopyRead, IInv, TypeInv, TypeOK, Value
<1>3. CopyInv'
  <2>1. CASE ci + 1 < CELLS
    <3>1. /\ ci' = ci + 1 /\ copying' = "read" /\ UNCHANGED <<flash, want, to, met, saving>>
          /\ \A i \in 1 .. CELLS : i < ci' => i <= ci
      BY <1>1, <2>1 DEF CopyRead
    <3> QED BY <1>1, <2>1, <3>1, CopyReads DEF CopyRead, IInv, CopyInv
  <2>2. CASE ~(ci + 1 < CELLS)
    <3>1. /\ ci' = 1 /\ copying' = "erase" /\ UNCHANGED <<flash, want, to, met, saving>>
          /\ \A i \in 1 .. CELLS - 1 : i \in 1 .. CELLS /\ i <= ci
      BY <1>1, <2>2 DEF CopyRead
    <3> QED BY <3>1, CopyReads DEF CopyRead, IInv, CopyInv
  <2> QED BY <2>1, <2>2
<1>4. SaveInv' /\ StoreIsTrue'
  BY NotSaving DEF CopyRead, StoreIsTrue, Writing
<1> QED BY <1>2, <1>3, <1>4 DEF IInv

LEMMA CopyEraseStep ==
  ASSUME IInv, CopyErase
  PROVE  IInv'
<1> USE DEF save, view
<1>1. TypeInv'
  BY ErasedType DEF CopyErase, IInv, TypeInv, TypeOK, Value
<1>2. CopyInv'
  <2>1. to \in Heads /\ ci = 1 /\ ci' = 1 /\ to' = to /\ CELLS \in Nat
    BY Cell DEF CopyErase, IInv, TypeInv, TypeOK, CopyInv
  <2>2. \A i \in 1 .. CELLS : flash'[CopyOrder(to, i)] = Bits /\ ~(i < ci)
    BY <2>1, ErasedType, CopyCell DEF CopyErase
  <2> QED BY <2>1, <2>2 DEF CopyErase, IInv, CopyInv, Begun
<1>3. SaveInv' /\ StoreIsTrue'
  BY NotSaving DEF CopyErase, StoreIsTrue, Writing
<1> QED BY <1>1, <1>2, <1>3 DEF IInv

(* The cell at the index holds a bit more, the others what they held. *)
LEMMA CopyPartStep ==
  ASSUME IInv, CopyPart
  PROVE  IInv'
<1> USE DEF save, copy, view
<1> DEFINE c == CopyOrder(to, ci)
<1>1. /\ ci \in 1 .. CELLS /\ to \in Heads
      /\ cbuf \in [Cells -> Value] /\ flash \in [Cells -> Value] /\ TypeOK
  BY DEF IInv, TypeInv, TypeOK, Value
<1>2. c \in Cells /\ cbuf[c] \in Value
  BY <1>1, CopyCell
<1>3. PICK v \in Torn(c, cbuf[c]) : flash' = Program(c, v)
  BY DEF CopyPart
<1>4. v \in Value
  BY <1>2, <1>3, SettingsAssumption DEF Torn, Value
<1>5. /\ flash' \in [Cells -> Value]
      /\ flash'[c] = flash[c] \intersect v
      /\ \A d \in Cells : d # c => flash'[d] = flash[d]
  <2> HIDE DEF c
  <2> QED BY <1>1, <1>2, <1>3, <1>4, ProgramType
<1>6. TypeInv'
  BY <1>5 DEF CopyPart, IInv, TypeInv, TypeOK, Value
<1>7. CopyInv'
  <2>1. ASSUME ~met, NEW i \in 1 .. CELLS
        PROVE  /\ i # ci => flash'[CopyOrder(to, i)] =
                              IF i < ci THEN cbuf[CopyOrder(to, i)] ELSE Bits
               /\ i = ci => flash'[CopyOrder(to, i)] \in
                              Begun(CopyOrder(to, i), cbuf[CopyOrder(to, i)])
    <3>1. CASE i = ci
      <4>1. flash[c] \in Begun(c, cbuf[c])
        BY <1>1, <2>1 DEF CopyPart, IInv, CopyInv
      <4>2. flash[c] \intersect v \in Begun(c, cbuf[c])
        <5> HIDE DEF c
        <5> QED BY <1>2, <1>3, <4>1, Further
      <4> QED BY <1>5, <3>1, <4>2
    <3>2. CASE i # ci
      <4>1. CopyOrder(to, i) \in Cells /\ CopyOrder(to, i) # c
        BY <1>1, <3>2, CopyCell
      <4> QED BY <1>5, <2>1, <3>2, <4>1 DEF CopyPart, IInv, CopyInv
    <3> QED BY <3>1, <3>2
  <2> QED BY <2>1 DEF CopyPart, IInv, CopyInv
<1>8. SaveInv' /\ StoreIsTrue'
  BY NotSaving DEF CopyPart, StoreIsTrue, Writing
<1> QED BY <1>6, <1>7, <1>8 DEF IInv

(* One cell more is written, on erased bits or on its first bytes. *)
LEMMA CopyWrites ==
  ASSUME IInv, CopyWrite
  PROVE  /\ flash' \in [Cells -> Value]
         /\ ~met => \A i \in 1 .. CELLS :
              flash'[CopyOrder(to, i)] = IF i <= ci THEN cbuf[CopyOrder(to, i)] ELSE Bits
<1> DEFINE c == CopyOrder(to, ci)
<1>1. /\ ci \in 1 .. CELLS /\ to \in Heads
      /\ cbuf \in [Cells -> Value] /\ flash \in [Cells -> Value] /\ TypeOK
  BY DEF IInv, TypeInv, TypeOK, Value
<1>2. c \in Cells /\ cbuf[c] \in Value
  BY <1>1, CopyCell
<1>3. /\ flash' \in [Cells -> Value]
      /\ flash'[c] = flash[c] \intersect cbuf[c]
      /\ \A d \in Cells : d # c => flash'[d] = flash[d]
  <2>1. flash' = Program(c, cbuf[c])
    BY DEF CopyWrite
  <2> HIDE DEF c
  <2> QED BY <1>1, <1>2, <2>1, ProgramType
<1>4. ASSUME ~met, NEW i \in 1 .. CELLS
      PROVE  flash'[CopyOrder(to, i)] = IF i <= ci THEN cbuf[CopyOrder(to, i)] ELSE Bits
  <2>1. CASE i = ci
    <3>1. flash[c] \in Begun(c, cbuf[c])
      BY <1>1, <1>4 DEF CopyWrite, IInv, CopyInv
    <3>2. flash[c] \intersect cbuf[c] = cbuf[c]
      <4> HIDE DEF c
      <4> QED BY <1>2, <3>1, Finish
    <3>3. i <= ci /\ CopyOrder(to, i) = c
      BY <1>1, <2>1, Cell
    <3>4. flash'[c] = cbuf[c]
      BY <1>3, <3>1, <3>2
    <3> HIDE DEF c
    <3> QED BY <3>3, <3>4
  <2>2. CASE i # ci
    <3>1. CopyOrder(to, i) \in Cells /\ CopyOrder(to, i) # c
      BY <1>1, <2>2, CopyCell
    <3>2. i < ci <=> i <= ci
      BY <1>1, <2>2, Cell
    <3>3. flash[CopyOrder(to, i)] = IF i < ci THEN cbuf[CopyOrder(to, i)] ELSE Bits
      BY <1>4, <2>2 DEF CopyWrite, IInv, CopyInv
    <3> QED BY <1>3, <3>1, <3>2, <3>3
  <2> QED BY <2>1, <2>2
<1> QED BY <1>3, <1>4

LEMMA CopyWriteStep ==
  ASSUME IInv, CopyWrite
  PROVE  IInv'
<1> USE DEF save, view
<1>1. ci \in 1 .. CELLS /\ CELLS \in Nat /\ CELLS >= 4 /\ to \in Heads
  BY Cell DEF IInv, TypeInv, TypeOK
<1>2. CASE ci < CELLS
  <2>1. TypeInv'
    <3>1. ci' \in 1 .. CELLS
      BY <1>1, <1>2 DEF CopyWrite
    <3> QED BY <1>2, <3>1, CopyWrites DEF CopyWrite, IInv, TypeInv, TypeOK, Value
  <2>2. CopyInv'
    <3>1. /\ ci' = ci + 1 /\ copying' = "write" /\ UNCHANGED <<cbuf, want, to, met, saving>>
          /\ \A i \in 1 .. CELLS : (i < ci' <=> i <= ci) /\ (i = ci' => ~(i <= ci))
      BY <1>1, <1>2 DEF CopyWrite
    <3> QED BY <3>1, CopyWrites DEF CopyWrite, IInv, CopyInv, Begun
  <2>3. SaveInv' /\ StoreIsTrue'
    BY <1>2, NotSaving DEF CopyWrite, StoreIsTrue, Writing
  <2> QED BY <2>1, <2>2, <2>3 DEF IInv
<1>3. CASE ~(ci < CELLS)
  <2>1. ci = CELLS
    BY <1>1, <1>3
  <2>2. want' \in [Cells -> Value] /\ (met => want' = flash')
    BY <1>1, <1>3, CopyWrites, FieldOrHead DEF CopyWrite, IInv, TypeInv, TypeOK, Value, Heads
  <2>3. TypeInv'
    <3>1. /\ to' = "filer" /\ ci' = 1 /\ copying' = "no" /\ met' = FALSE
          /\ cbuf' = Erased /\ UNCHANGED <<settings, save, view, usb>> /\ TypeInv
      BY <1>3 DEF CopyWrite, IInv
    <3> QED BY <2>2, <3>1, CopyWrites, ErasedType, TypeFlat, FlatType, One
  <2>4. ~met => flash' = want'
    <3>1. ASSUME ~met, NEW c \in Cells PROVE flash'[c] = want'[c]
      <4>1. PICK i \in 1 .. CELLS : c = CopyOrder(to, i)
        BY <1>1, CopyCell
      <4>2. flash'[c] = cbuf[c]
        BY <1>1, <2>1, <3>1, <4>1, CopyWrites
      <4>3. want' = [want EXCEPT ![to] = cbuf[to]]
        BY <1>3, <3>1 DEF CopyWrite
      <4>4. CASE i = CELLS
        <5>1. c = to
          BY <1>1, <4>1, <4>4, CopyCell
        <5> QED BY <4>2, <4>3, <5>1, <3>1 DEF IInv, TypeInv, TypeOK
      <4>5. CASE i # CELLS
        <5>1. c # to /\ i \in 1 .. CELLS - 1
          BY <1>1, <4>1, <4>5, CopyCell
        <5>2. cbuf[c] = want[c]
          BY <3>1, <4>1, <5>1 DEF CopyWrite, IInv, CopyInv
        <5> QED BY <4>2, <4>3, <5>1, <5>2, <3>1 DEF IInv, TypeInv, TypeOK
      <4> QED BY <4>4, <4>5
    <3> QED BY <2>2, <3>1, CopyWrites
  <2>5. CopyInv'
    BY <1>3 DEF CopyWrite, CopyInv
  <2>6. SaveInv' /\ StoreIsTrue'
    BY <2>2, <2>4, NotSaving DEF CopyWrite, StoreIsTrue
  <2> QED BY <2>3, <2>5, <2>6 DEF IInv
<1> QED BY <1>2, <1>3

-----------------------------------------------------------------------------
(* The other steps *)

(* Nobody writes before or after, and the settings stay in their tables. *)
LEMMA QuietStep ==
  ASSUME IInv, saving = "no", UNCHANGED <<flash, save, copy, want, met>>,
         settings' \in [Fields -> Value],
         \A f \in Fields : f # "touch_cal" => settings'[f] \in Table[f],
         time2sleep_cp' \in Table["time2sleep"],
         {viewer', waitExitKey', usb'} \subseteq BOOLEAN
  PROVE  IInv'
<1> USE DEF save, copy
<1>1. TypeInv'
  BY TableValue, FieldOrHead DEF IInv, TypeInv, TypeOK, Value
<1>2. CopyInv'
  BY DEF IInv, CopyInv
<1>3. SaveInv' /\ StoreIsTrue'
  BY NotSaving DEF IInv, StoreIsTrue, Writing
<1> QED BY <1>1, <1>2, <1>3 DEF IInv

(* A restart finds the sector as it was left. *)
LEMMA OffStep ==
  ASSUME IInv, Off, UNCHANGED flash
  PROVE  want' = flash /\ want' \in [Cells -> Value]
BY DEF Off, IInv, StoreIsTrue, TypeInv, TypeOK, Value

LEMMA RestartStep ==
  ASSUME IInv, Restart
  PROVE  IInv'
<1>1. want' = flash /\ flash' = flash /\ flash \in [Cells -> Value]
  BY OffStep DEF Restart, IInv, TypeInv, TypeOK, Value
<1>2. /\ settings' \in [Fields -> Value]
      /\ \A f \in Fields : f # "touch_cal" => settings'[f] \in Table[f]
  BY <1>1, InitValid DEF Restart
<1>3. TypeInv'
  <2>1. /\ saving' = "no" /\ si' = 1 /\ sbuf' = Erased /\ met' = FALSE
        /\ copying' = "no" /\ to' = "filer" /\ ci' = 1 /\ cbuf' = Erased
        /\ viewer' = FALSE /\ time2sleep_cp' = {} /\ waitExitKey' = FALSE /\ usb' = FALSE
    BY DEF Restart, Off
  <2>2. {} \in Table["time2sleep"]
    BY SettingsAssumption
  <2> QED BY <1>1, <1>2, <2>1, <2>2, ErasedType, TypeFlat, One
<1>4. CopyInv'
  BY DEF Restart, Off, CopyInv
<1>5. SaveInv' /\ StoreIsTrue'
  BY <1>1, NotSaving DEF Restart, StoreIsTrue
<1> QED BY <1>3, <1>4, <1>5 DEF IInv

LEMMA CalibrationStep ==
  ASSUME IInv, TouchPanel_Calibration
  PROVE  IInv'
<1>1. want' = flash /\ flash' = flash /\ flash \in [Cells -> Value]
  BY OffStep DEF TouchPanel_Calibration, IInv, TypeInv, TypeOK, Value
<1>2. PICK v \in Table["touch_cal"] :
        settings' = [SETTINGS_Init(flash) EXCEPT !["touch_cal"] = v]
  BY DEF TouchPanel_Calibration
<1>3. /\ settings' \in [Fields -> Value]
      /\ \A f \in Fields : f # "touch_cal" => settings'[f] \in Table[f]
  BY <1>1, <1>2, InitValid, TableValue, FieldOrHead
<1>4. /\ sbuf' \in [Cells -> Value]
      /\ \A f \in Fields : sbuf'[f] = settings'[f]
      /\ \A h \in Heads : sbuf'[h] = flash[h]
  <2>1. TypeOK /\ sbuf' = WithSettings(settings')
    BY DEF TouchPanel_Calibration, IInv, TypeInv
  <2> QED BY <1>3, <2>1, WithSettingsIs
<1>5. TypeInv'
  <2>1. /\ saving' = "erase" /\ si' = 1 /\ met' = FALSE
        /\ copying' = "no" /\ to' = "filer" /\ ci' = 1 /\ cbuf' = Erased
        /\ viewer' = FALSE /\ time2sleep_cp' = {} /\ waitExitKey' = FALSE /\ usb' = FALSE
    BY DEF TouchPanel_Calibration, Off
  <2>2. {} \in Table["time2sleep"]
    BY SettingsAssumption
  <2> QED BY <1>1, <1>3, <1>4, <2>1, <2>2, ErasedType, TypeFlat, One
<1>6. SaveInv'
  BY <1>1, <1>4 DEF TouchPanel_Calibration, Off, SaveInv
<1>7. CopyInv'
  BY DEF TouchPanel_Calibration, Off, CopyInv
<1>8. StoreIsTrue'
  BY DEF TouchPanel_Calibration, StoreIsTrue, Writing
<1> QED BY <1>5, <1>6, <1>7, <1>8 DEF IInv

-----------------------------------------------------------------------------
(* The theorems *)

LEMMA Initial == Init => IInv
<1> SUFFICES ASSUME Init PROVE IInv
  OBVIOUS
<1>1. PICK p \in Pictures : flash = [c \in Cells |-> IF c \in Heads THEN p ELSE Bits]
  BY DEF Init
<1>2. p \in Value /\ Bits \in Value
  BY SettingsAssumption DEF Value
<1>3. flash \in [Cells -> Value]
  BY <1>1, <1>2
<1>4. /\ settings \in [Fields -> Value]
      /\ \A f \in Fields : f # "touch_cal" => settings[f] \in Table[f]
  BY <1>3, InitValid DEF Init
<1>5. TypeInv
  BY <1>3, <1>4, ErasedType, One, SettingsAssumption DEF Init, TypeInv, TypeOK, Value
<1> QED BY <1>5 DEF Init, IInv, SaveInv, CopyInv, StoreIsTrue

(* Every step of the system, one action at a time. *)
LEMMA Step == IInv /\ [Next]_vars => IInv'
<1> SUFFICES ASSUME IInv, [Next]_vars PROVE IInv'
  OBVIOUS
<1>0. TypeInv
  BY DEF IInv
<1>1. CASE SaveErase
  BY <1>1, SaveEraseStep
<1>2. CASE SaveWrite
  BY <1>2, SaveWriteStep
<1>3. CASE Choose
  <2>1. PICK f \in Fields \ {"touch_cal"} : \E v \in Table[f] :
          StartSave([settings EXCEPT ![f] = v])
    BY <1>3 DEF Choose
  <2>2. PICK v \in Table[f] : StartSave([settings EXCEPT ![f] = v])
    BY <2>1
  <2> DEFINE group == [settings EXCEPT ![f] = v]
  <2>3. /\ group \in [Fields -> Value]
        /\ \A g \in Fields : g # "touch_cal" => group[g] \in Table[g]
    BY <1>0, SetField
  <2>4. StartSave(group) /\ UNCHANGED <<flash, copy, view, usb, want>>
    BY <1>3, <2>2 DEF Choose
  <2> HIDE DEF group
  <2> QED BY <2>3, <2>4, StartSaveStep
<1>4. CASE ChangeBars
  <2>1. PICK f \in PlayerFields : \E v \in Table[f] : settings' = [settings EXCEPT ![f] = v]
    BY <1>4 DEF ChangeBars
  <2>2. f \in Fields
    BY SettingsAssumption
  <2>3. /\ settings' \in [Fields -> Value]
        /\ \A g \in Fields : g # "touch_cal" => settings'[g] \in Table[g]
    BY <1>0, <2>1, <2>2, SetField
  <2> QED BY <1>0, <1>4, <2>3, QuietStep, FlatType DEF ChangeBars, view
<1>5. CASE OpenPicture
  <2>1. {} \in Table["time2sleep"] /\ settings["time2sleep"] \in Table["time2sleep"]
    BY <1>0, SettingsAssumption, FlatType, FieldOrHead
  <2>2. /\ settings' \in [Fields -> Value]
        /\ \A f \in Fields : f # "touch_cal" => settings'[f] \in Table[f]
    BY <1>0, <1>5, <2>1, SetSleep DEF OpenPicture
  <2> QED BY <1>0, <1>5, <2>1, <2>2, QuietStep, FlatType DEF OpenPicture
<1>6. CASE ShowPicture
  <2>1. /\ settings' \in [Fields -> Value]
        /\ \A f \in Fields : f # "touch_cal" => settings'[f] \in Table[f]
    BY <1>0, <1>6, GiveBackValid DEF ShowPicture
  <2> QED BY <1>0, <1>6, <2>1, QuietStep, FlatType DEF ShowPicture, view
<1>7. CASE ExitKey
  BY <1>0, <1>7, QuietStep, FlatType DEF ExitKey
<1>8. CASE ClosePicture
  <2>1. /\ settings' \in [Fields -> Value]
        /\ \A f \in Fields : f # "touch_cal" => settings'[f] \in Table[f]
    BY <1>0, <1>8, GiveBackValid DEF ClosePicture
  <2>2. {} \in Table["time2sleep"]
    BY SettingsAssumption
  <2> QED BY <1>0, <1>8, <2>1, <2>2, QuietStep, FlatType DEF ClosePicture
<1>9. CASE StartCopy
  BY <1>9, StartCopyStep
<1>10. CASE CopyRead
  BY <1>10, CopyReadStep
<1>11. CASE CopyErase
  BY <1>11, CopyEraseStep
<1>12. CASE CopyWrite
  BY <1>12, CopyWriteStep
<1>13. CASE MassStorage
  <2>1. {} \in Table["time2sleep"]
    BY SettingsAssumption
  <2>2. /\ settings' \in [Fields -> Value]
        /\ \A f \in Fields : f # "touch_cal" => settings'[f] \in Table[f]
    BY <1>0, <1>13, <2>1, SetSleep DEF MassStorage
  <2> QED BY <1>0, <1>13, <2>2, QuietStep, FlatType DEF MassStorage, view
<1>14. CASE Restart
  BY <1>14, RestartStep
<1>15. CASE TouchPanel_Calibration
  BY <1>15, CalibrationStep
<1>16. CASE SavePart
  BY <1>16, SavePartStep
<1>17. CASE CopyPart
  BY <1>17, CopyPartStep
<1>18. CASE UNCHANGED vars
  BY <1>18 DEF vars, save, copy, view, IInv, TypeInv, TypeOK, SaveInv, CopyInv,
               StoreIsTrue, Writing
<1> QED BY <1>1, <1>2, <1>3, <1>4, <1>5, <1>6, <1>7, <1>8, <1>9, <1>10, <1>11,
           <1>12, <1>13, <1>14, <1>15, <1>16, <1>17, <1>18 DEF Next

THEOREM StoreInvariant == Spec => []IInv
BY Initial, Step, PTL DEF Spec

(* TypeOK, for every layout of the sector and all tables. *)
THEOREM StoreTypes == Spec => []TypeOK
<1>1. IInv => TypeOK
  BY DEF IInv, TypeInv
<1> QED BY <1>1, StoreInvariant, PTL

(* Whatever the sector holds, the program works with values of the tables   *)
(* (SETTINGS_Init).                                                        *)
THEOREM SettingsAreValid == Spec => []ValidSettings
<1>1. IInv => ValidSettings
  BY DEF IInv, TypeInv, ValidSettings
<1> QED BY <1>1, StoreInvariant, PTL

(* When nobody writes, the sector holds what was saved and copied last       *)
(* (SETTINGS_Save, dojpeg).                                                *)
THEOREM SectorIsTrue == Spec => []StoreIsTrue
<1>1. IInv => StoreIsTrue
  BY DEF IInv
<1> QED BY <1>1, StoreInvariant, PTL

(* What a torn write can have left in the cell of a setting. *)
LEMMA TornCell ==
  ASSUME IInv, ~(met /\ Writing), Writing, NEW f \in Fields
  PROVE  flash[f] = Bits \/ \E v \in Written(f) : flash[f] \in {v} \union Torn(f, v)
<1>0. f \in Cells /\ f \notin Heads
  BY FieldOrHead DEF Heads
<1>1. want[f] \in Written(f) /\ (saving # "no" => settings[f] \in Written(f))
  BY DEF Written
<1>2. CASE saving # "no"
  <2>1. ~met /\ copying = "no"
    BY <1>2 DEF IInv, CopyInv, Writing
  <2>2. CASE saving = "erase"
    BY <1>1, <2>1, <2>2 DEF IInv, SaveInv
  <2>3. CASE saving = "write"
    <3>1. PICK i \in 1 .. CELLS : f = SaveOrder(i)
      BY <1>0, SaveCell
    <3>2. flash[f] = sbuf[f] \/ flash[f] = Bits \/ flash[f] \in Torn(f, sbuf[f])
      BY <2>3, <3>1 DEF IInv, SaveInv, Begun
    <3>3. sbuf[f] = settings[f]
      BY <1>2 DEF IInv, SaveInv
    <3> QED BY <1>1, <1>2, <3>2, <3>3
  <2> QED BY <1>2, <2>2, <2>3 DEF IInv, TypeInv, TypeOK
<1>3. CASE saving = "no" /\ copying # "no"
  <2>1. ~met
    BY <1>3 DEF Writing
  <2>2. CASE copying \in {"read", "erase"}
    BY <1>1, <2>1, <2>2 DEF IInv, CopyInv
  <2>3. CASE copying = "write"
    <3>1. to \in Heads /\ CELLS \in Nat
      BY Cell DEF IInv, TypeInv, TypeOK
    <3>2. PICK i \in 1 .. CELLS : f = CopyOrder(to, i)
      BY <1>0, <3>1, CopyCell
    <3>3. i \in 1 .. CELLS - 1
      BY <1>0, <3>1, <3>2, CopyCell
    <3>4. flash[f] = cbuf[f] \/ flash[f] = Bits \/ flash[f] \in Torn(f, cbuf[f])
      BY <2>1, <2>3, <3>2 DEF IInv, CopyInv, Begun
    <3>5. cbuf[f] = want[f]
      BY <2>1, <2>3, <3>2, <3>3 DEF IInv, CopyInv
    <3> QED BY <1>1, <3>4, <3>5
  <2> QED BY <1>3, <2>2, <2>3 DEF IInv, TypeInv, TypeOK
<1> QED BY <1>2, <1>3 DEF Writing

(* A number that is not all there is replaced by its default. *)
LEMMA TornIsDefault ==
  ASSUME NEW f \in Fields, f # "touch_cal", NEW v, NEW x \in Torn(f, v)
  PROVE  validate_saved_val(f, x) = Default[f]
<1>1. PICK rest \in Rest[f] : x = v \union rest
  BY DEF Torn
<1>2. x \notin Table[f]
  <2>1. rest \subseteq x
    BY <1>1
  <2> QED BY <2>1, RestAssumption
<1> QED BY <1>2 DEF validate_saved_val

(* A restart finds what was saved or, if it was being written, the old      *)
(* value, the new one, the default or what an erased cell stands for; the  *)
(* calibration may be torn, but is never made of two (SETTINGS_Save,       *)
(* dojpeg, SETTINGS_Init).                                                 *)
THEOREM NothingMixed == Spec => RestartFinds
<1>1. ASSUME IInv, Restart, ~(met /\ Writing), NEW f \in Fields
      PROVE  settings'[f] \in IF Writing THEN Found(f)
                              ELSE {validate_saved_val(f, want[f])}
  <2>1. settings'[f] = validate_saved_val(f, flash[f])
    BY <1>1, InitValid DEF Restart, IInv, TypeInv, TypeOK, Value
  <2>2. CASE ~Writing
    BY <1>1, <2>1, <2>2 DEF IInv, StoreIsTrue
  <2>3. CASE Writing /\ f = "touch_cal"
    <3>1. settings'[f] = flash[f]
      BY <2>1, <2>3 DEF validate_saved_val
    <3> QED BY <1>1, <2>3, <3>1, TornCell DEF Found
  <2>4. CASE Writing /\ f # "touch_cal"
    <3>1. CASE flash[f] \in {Bits} \union Written(f)
      BY <2>1, <2>4, <3>1 DEF Found
    <3>2. CASE flash[f] \notin {Bits} \union Written(f)
      <4>1. PICK v \in Written(f) : flash[f] \in Torn(f, v)
        BY <1>1, <2>4, <3>2, TornCell
      <4>2. settings'[f] = Default[f]
        BY <2>1, <2>4, <4>1, TornIsDefault
      <4> QED BY <2>4, <4>2 DEF Found
    <3> QED BY <3>1, <3>2
  <2> QED BY <2>2, <2>3, <2>4
<1>2. IInv /\ [Next]_vars =>
        [Restart /\ ~(met /\ Writing) =>
           \A f \in Fields :
             settings'[f] \in IF Writing THEN Found(f)
                              ELSE {validate_saved_val(f, want[f])}]_vars
  BY <1>1
<1> QED BY <1>2, StoreInvariant, PTL DEF Spec, RestartFinds
=============================================================================
