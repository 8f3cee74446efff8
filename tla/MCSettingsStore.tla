--------------------------- MODULE MCSettingsStore ---------------------------
(* One setting of each kind: the calibration, the time to sleep, the look   *)
(* of the bars.  A number is the set of its bits; the tables are cut to    *)
(* values that differ in kind.  What the looks 3 and 6 have in common is   *)
(* not in the table, like the common bits of the times 15 and 30.  Of a    *)
(* calibration the last bit stands for the bytes that are written last.    *)
EXTENDS SettingsStore, TLC

Number(n) == {b \in Bits : (n \div 2 ^ b) % 2 = 1}

MCConf == <<"touch_cal", "time2sleep", "fft_bar_color_idx">>

MCTable ==
  ("touch_cal" :> {Number(1), Number(2)})
    @@ ("time2sleep" :> {Number(0), Number(3)})
    @@ ("fft_bar_color_idx" :> {Number(3), Number(6)})

MCDefault ==
  ("touch_cal" :> Number(1))
    @@ ("time2sleep" :> Number(3)) @@ ("fft_bar_color_idx" :> Number(3))

MCRest == [c \in Cells |-> IF c = "touch_cal" THEN {{2}} ELSE {}]

MCPictures == {Number(5)}

MCPlayerFields == {"fft_bar_color_idx"}
=============================================================================
