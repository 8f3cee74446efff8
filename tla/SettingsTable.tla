--------------------------- MODULE SettingsTable ----------------------------
(***************************************************************************)
(* The settings lists of settings.c.  A list is a function from entry      *)
(* numbers; an entry has the list it opens, the size the entry claims for  *)
(* that list, and whether its handler connects the USB host.               *)
(***************************************************************************)
EXTENDS Integers, Sequences

NoList == "NULL"

Up(list) == [next |-> list, itemCnt |-> 0, usb |-> FALSE]
Sub(list, n) == [next |-> list, itemCnt |-> n, usb |-> FALSE]
Connect(list, n) == [next |-> list, itemCnt |-> n, usb |-> TRUE]
Leaf == Up(NoList)

(* The list with ".." to `up` and then the entries. *)
List(up, entries) ==
  [i \in 0 .. Len(entries) |-> IF i = 0 THEN Up(up) ELSE entries[i]]

(* A list of n radio buttons. *)
LeafList(up, n) == List(up, [i \in 1 .. n |-> Leaf])

SettingsLists == [
  settings_root_list |->
    List(NoList, <<Sub("settings_about_motionplayer_list", 1),
                   Sub("settings_card_list", 4),
                   Sub("settings_cpu_list", 3),
                   Sub("settings_debug_list", 2),
                   Sub("settings_display_list", 3),
                   Sub("settings_filer_list", 4),
                   Sub("settings_music_list", 4),
                   Sub("settings_usb_msc_list", 2)>>),
  settings_usb_msc_list |->
    List("settings_root_list", <<Connect("settings_usb_msc_select_list", 1)>>),
  settings_usb_msc_select_list |-> List("settings_usb_msc_list", <<>>),
  settings_about_motionplayer_list |-> List("settings_root_list", <<>>),
  settings_music_list |->
    List("settings_root_list", <<Sub("settings_fft_list", 4),
                                 Sub("settings_musicinfo_list", 3),
                                 Sub("settings_prehalve_list", 3)>>),
  settings_fft_list |->
    List("settings_music_list", <<Sub("settings_fft_display_list", 3),
                                  Sub("settings_fft_bar_type_list", 5),
                                  Sub("settings_fft_bar_color_list", 8)>>),
  settings_fft_display_list |-> LeafList("settings_fft_list", 2),
  settings_fft_bar_type_list |-> LeafList("settings_fft_list", 4),
  settings_fft_bar_color_list |-> LeafList("settings_fft_list", 7),
  settings_musicinfo_list |-> LeafList("settings_music_list", 2),
  settings_prehalve_list |-> LeafList("settings_music_list", 2),
  settings_display_list |->
    List("settings_root_list", <<Sub("settings_brightness_list", 5),
                                 Sub("settings_sleeptime_list", 6)>>),
  settings_brightness_list |-> LeafList("settings_display_list", 4),
  settings_sleeptime_list |-> LeafList("settings_display_list", 5),
  settings_filer_list |->
    List("settings_root_list", <<Sub("settings_font_list", 3),
                                 Sub("settings_sort_list", 3),
                                 Sub("settings_photo_frame_td_list", 5)>>),
  settings_font_list |-> LeafList("settings_filer_list", 2),
  settings_sort_list |-> LeafList("settings_filer_list", 2),
  settings_photo_frame_td_list |-> LeafList("settings_filer_list", 4),
  settings_debug_list |->
    List("settings_root_list", <<Sub("settings_baudrate_list", 9)>>),
  settings_baudrate_list |-> LeafList("settings_debug_list", 8),
  settings_cpu_list |->
    List("settings_root_list", <<Sub("settings_cpufreq_list", 8),
                                 Sub("settings_back_to_cpulist", 1)>>),
  settings_cpufreq_list |-> LeafList("settings_cpu_list", 7),
  settings_card_list |->
    List("settings_root_list", <<Sub("settings_card_buswidth_list", 3),
                                 Sub("settings_back_to_cardlist", 1),
                                 Sub("settings_back_to_cardlist", 1)>>),
  settings_card_buswidth_list |-> LeafList("settings_card_list", 2),
  settings_back_to_cardlist |-> List("settings_card_list", <<>>),
  settings_back_to_cpulist |-> List("settings_cpu_list", <<>>)]

(* How many lists lead to a list of menu m, itself included. *)
LevelOf(m) ==
  LET level[l \in DOMAIN m] ==
        IF m[l][0].next = NoList THEN 1 ELSE level[m[l][0].next] + 1
  IN level

(* The program's lists are as SettingsMenu assumes: the size an entry       *)
(* claims is that of its list, whose ".." leads back to the entry, and the *)
(* stack of MAX_SETTING_STACK_LEVEL (5) names has room for the way down.   *)
ASSUME TableAssumption ==
  /\ \A l \in DOMAIN SettingsLists : \A i \in DOMAIN SettingsLists[l] \ {0} :
       LET entry == SettingsLists[l][i]
       IN entry.next # NoList =>
            /\ DOMAIN SettingsLists[entry.next] = 0 .. entry.itemCnt - 1
            /\ SettingsLists[entry.next][0].next = l
  /\ \A l \in DOMAIN SettingsLists : LevelOf(SettingsLists)[l] <= 5
=============================================================================
