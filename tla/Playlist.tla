------------------------------ MODULE Playlist ------------------------------
(***************************************************************************)
(* The music loop of main.c around PlayMusic of sound.c: which item of the *)
(* list is played next, under the five modes of the loop icon, and which   *)
(* item is highlighted when the list comes back.                           *)
(*                                                                         *)
(* The loop runs in the main program.  Between any two of its steps the    *)
(* serial console can set waitExitKey, or, where that is 0, open an item   *)
(* of the list; the panel only works inside a player.                      *)
(***************************************************************************)
EXTENDS Integers, Sequences, FiniteSets

CONSTANTS
  Lists,        (* the lists of items there are, each the kinds of its items *)
  TABLE_SIZE    (* the length of rand_table: 256                             *)

(* "music": a sound file or a movie that plays; "broken": a movie whose    *)
(* atoms cannot be read; "other": anything PlayMusic finds no player for.  *)
Kinds == {"music", "broken", "other"}

(* Item 0 of a list is the way out of it, or the settings.  A longer list  *)
(* does not fit the table or its one byte entries.                         *)
ASSUME ListAssumption ==
  /\ TABLE_SIZE \in Nat
  /\ \A l \in Lists : l \in Seq(Kinds) /\ Len(l) \in 1 .. TABLE_SIZE - 2

VARIABLES
  list,             (* the items 1, 2, ... of the list on the screen         *)
  main,             (* where the main program is                             *)
  waitExitKey,      (* LCDStatusStruct.waitExitKey # 0                       *)
  idEntry,          (* LCDStatusStruct.idEntry                               *)
  ret, prevRet,     (* what PlayMusic returned; what the loop did before     *)
  mode,             (* navigation_loop_mode                                  *)
  initial_mode, play_continuous, mode_changed, flag_make_rand,
                    (* the fields of shuffle_play                            *)
  rand_table,       (* what pRandIdEntry points to                           *)
  track,            (* the item PlayMusic was called for or made of it       *)
  (* Observers, which the code does not have: *)
  moves,            (* items the loop has gone on to: none, one or more      *)
  steady,           (* every round of the loop was in the shuffle mode and   *)
                    (* nothing but NEXT and PREV moved it                    *)
  plain,            (* no round of the loop was in the shuffle mode and no   *)
                    (* item was opened over a running loop                   *)
  broken,           (* the loop ended at a broken movie                      *)
  heard             (* the items heard last, one after the other, at most    *)
                    (* all but one of the list's                             *)

shuffleVars == <<initial_mode, play_continuous, mode_changed, flag_make_rand,
                 rand_table>>
observers == <<moves, steady, plain, broken, heard>>
vars == <<list, main, waitExitKey, idEntry, ret, prevRet, mode, shuffleVars,
          track, observers>>

fileCnt == Len(list) + 1
Items == 1 .. fileCnt - 1

ONE_PLAY_EXIT == 0
PLAY_ENTIRE == 1
INFINITE_PLAY_ENTIRE == 2
INFINITE_ONE_PLAY == 3
SHUFFLE_PLAY == 4
Modes == 0 .. 4

RET_PLAY_NORM == 0
RET_PLAY_STOP == -1
RET_PLAY_NEXT == -2
RET_PLAY_PREV == -3
RET_PLAY_INVALID == -99

Int8(n) == ((n + 128) % 256) - 128

(* "idle": the list is on the screen; "listed": it has just come back from *)
(* the loop; "call": PlayMusic is about to be called; "player": a player   *)
(* runs; "returned": PlayMusic has returned.                               *)
Init ==
  /\ list \in Lists
  /\ main = "idle" /\ waitExitKey = FALSE /\ idEntry = 0
  /\ ret = 0 /\ prevRet = 0
  /\ mode = PLAY_ENTIRE /\ initial_mode = 0
  /\ play_continuous = FALSE /\ mode_changed = FALSE /\ flag_make_rand = FALSE
  /\ rand_table = [i \in 0 .. TABLE_SIZE - 1 |-> 0]
  /\ track = 0
  /\ moves = 0 /\ steady = FALSE /\ plain = FALSE /\ broken = FALSE
  /\ heard = <<>>

Running == main \in {"call", "player", "returned"}

-----------------------------------------------------------------------------
(* The list *)

(* LCDCursorEnter on a directory. *)
OpenDirectory(l) ==
  /\ ~Running
  /\ list' = l
  /\ main' = "idle"
  /\ flag_make_rand' = FALSE
  /\ UNCHANGED <<waitExitKey, idEntry, ret, prevRet, mode, initial_mode,
                 play_continuous, mode_changed, rand_table, track, observers>>

(* LCDCursorEnter on a file with a player, and the head of the loop. *)
Start(id) ==
  /\ ~Running
  /\ list[id] # "other"
  /\ main' = "call" /\ waitExitKey' = TRUE /\ idEntry' = id
  /\ play_continuous' = FALSE /\ mode_changed' = FALSE /\ initial_mode' = mode
  /\ moves' = 0 /\ steady' = TRUE /\ plain' = TRUE /\ broken' = FALSE
  /\ heard' = <<>>
  /\ UNCHANGED <<list, ret, prevRet, mode, flag_make_rand, rand_table, track>>

-----------------------------------------------------------------------------
(* PlayMusic *)

(* The tables the rejection loop can end with: the items of this list, each *)
(* once.  The entries behind them are those of the list before.            *)
make_shuffle_table ==
  /\ \E p \in [Items -> Items] :
       /\ \A i, j \in Items : p[i] = p[j] => i = j
       /\ rand_table' = [i \in DOMAIN rand_table |->
                           IF i \in Items THEN p[i] ELSE rand_table[i]]
  /\ flag_make_rand' = TRUE

After(id) == IF id + 1 >= fileCnt THEN 1 ELSE id + 1

(* Mutant: the item played first may come again at once. *)
NewTableUnchecked == make_shuffle_table

(* Tables are made until one does not go on with the item played first.    *)
NewTable ==
  /\ make_shuffle_table
  /\ fileCnt > 2 => rand_table'[After(idEntry)] # idEntry

(* The item to be played.  (The rest of PlayMusic's head, which compares the *)
(* mode with the one before, puts id to what it is.)                       *)
PickTrack ==
  /\ IF mode = SHUFFLE_PLAY
     THEN /\ \/ ~mode_changed /\ NewTable
             \/ mode_changed /\ UNCHANGED <<rand_table, flag_make_rand>>
          /\ mode_changed' = TRUE
          /\ track' = IF play_continuous THEN rand_table'[idEntry] ELSE idEntry
     ELSE /\ track' = idEntry
          /\ UNCHANGED <<rand_table, flag_make_rand, mode_changed>>
  /\ play_continuous' = TRUE
  /\ steady' = (steady /\ mode = SHUFFLE_PLAY)
  /\ plain' = (plain /\ mode # SHUFFLE_PLAY)

PlayMusic ==
  /\ main = "call"
  /\ PickTrack
  /\ IF list[track'] = "other"
     THEN /\ main' = "returned" /\ ret' = RET_PLAY_NEXT /\ waitExitKey' = TRUE
     ELSE /\ main' = "player" /\ UNCHANGED <<ret, waitExitKey>>
  /\ UNCHANGED <<list, idEntry, prevRet, mode, initial_mode, moves, broken,
                 heard>>

(* Mutant: there is one mode too many. *)
LoopIconSixModes ==
  /\ main = "player" /\ list[track] = "music"
  /\ mode' = (mode + 1) % 6
  /\ UNCHANGED <<list, main, waitExitKey, idEntry, ret, prevRet, shuffleVars,
                 track, observers>>

(* The loop icon, touched on the screen of a player. *)
LoopIcon ==
  /\ main = "player" /\ list[track] = "music"
  /\ mode' = (mode + 1) % 5
  /\ UNCHANGED <<list, main, waitExitKey, idEntry, ret, prevRet, shuffleVars,
                 track, observers>>

(* A player ends by itself, by one of its icons, or because waitExitKey is *)
(* 0: RET_PLAY_STOP, unless the file had just been read to its end.  A     *)
(* file it cannot play ends it with RET_PLAY_STOP too.                     *)
PlayerReturns(r) ==
  /\ main = "player"
  /\ IF list[track] = "broken"
     THEN r = RET_PLAY_INVALID
     ELSE r \in {RET_PLAY_NORM, RET_PLAY_STOP, RET_PLAY_NEXT, RET_PLAY_PREV}
  /\ main' = "returned"
  /\ ret' = r /\ waitExitKey' = FALSE
  /\ UNCHANGED <<list, idEntry, prevRet, mode, shuffleVars, track, observers>>

-----------------------------------------------------------------------------
(* The loop *)

(* Mutant: the index of the table is highlighted. *)
DecideUnmapped(id, r, wait) ==
  /\ ret' = r
  /\ waitExitKey' = wait
  /\ idEntry' = id
  /\ main' = IF r # RET_PLAY_STOP \/ wait THEN "call" ELSE "listed"

(* The loop goes on, or it ends and highlights item id, which in the       *)
(* shuffle mode is an index of the table.                                  *)
Decide(id, r, wait) ==
  /\ ret' = r
  /\ waitExitKey' = wait
  /\ IF r # RET_PLAY_STOP \/ wait
     THEN main' = "call" /\ idEntry' = id
     ELSE /\ main' = "listed"
          /\ idEntry' = IF flag_make_rand /\ mode = SHUFFLE_PLAY
                        THEN rand_table[id] ELSE id

(* When the shuffle mode is left the list goes on from the item the table  *)
(* gave, unless it was on from the start.                                  *)
LeavesShuffle == flag_make_rand /\ mode_changed /\ mode # SHUFFLE_PLAY

Current ==
  IF LeavesShuffle /\ initial_mode # SHUFFLE_PLAY THEN rand_table[idEntry]
  ELSE idEntry

(* The items heard, once `track` is among them.  The item the shuffle      *)
(* started from is not one the table gave: it counts once only.            *)
HeardNow ==
  IF fileCnt <= 2 \/ mode # SHUFFLE_PLAY THEN <<>>
  ELSE IF moves < 2 THEN <<track>>
  ELSE IF Len(heard) < fileCnt - 2 THEN Append(heard, track)
  ELSE Tail(Append(heard, track))

(* Mutant: at its end the list does not stop. *)
GoOnForever ==
  /\ ret \in {RET_PLAY_NORM, RET_PLAY_NEXT}
  /\ ret = RET_PLAY_NORM => mode \notin {ONE_PLAY_EXIT, INFINITE_ONE_PLAY}
  /\ mode_changed' = (mode_changed /\ ~LeavesShuffle)
  /\ prevRet' = Int8(Current)
  /\ moves' = IF moves = 0 THEN 1 ELSE 2
  /\ heard' = HeardNow
  /\ broken' = FALSE
  /\ Decide(After(Current), ret, TRUE)

(* PLAY_NEXT: a track that ended, or RET_PLAY_NEXT. *)
GoOn ==
  /\ ret \in {RET_PLAY_NORM, RET_PLAY_NEXT}
  /\ ret = RET_PLAY_NORM => mode \notin {ONE_PLAY_EXIT, INFINITE_ONE_PLAY}
  /\ mode_changed' = (mode_changed /\ ~LeavesShuffle)
  /\ prevRet' = Int8(Current)
  /\ moves' = IF moves = 0 THEN 1 ELSE 2
  /\ heard' = HeardNow
  /\ broken' = FALSE
  /\ IF Current + 1 < fileCnt \/ mode \in {INFINITE_PLAY_ENTIRE, SHUFFLE_PLAY}
     THEN Decide(After(Current), ret, TRUE)
     ELSE Decide(Current, RET_PLAY_STOP, FALSE)

(* A track that ended in one of the modes of one item. *)
SameAgain ==
  /\ ret = RET_PLAY_NORM
  /\ \/ mode = ONE_PLAY_EXIT /\ Decide(idEntry, RET_PLAY_STOP, FALSE)
     \/ mode = INFINITE_ONE_PLAY /\ Decide(idEntry, ret, TRUE)
  /\ UNCHANGED <<mode_changed, prevRet, moves, heard, broken>>

(* Mutant: the list is left at its top. *)
GoBackPastTop ==
  /\ ret = RET_PLAY_PREV
  /\ prevRet' = RET_PLAY_PREV
  /\ moves' = 2 /\ heard' = <<>>
  /\ Decide(IF idEntry - 1 < 0 THEN fileCnt - 1 ELSE idEntry - 1, ret, TRUE)
  /\ UNCHANGED <<mode_changed, broken>>

GoBack ==
  /\ ret = RET_PLAY_PREV
  /\ prevRet' = RET_PLAY_PREV
  /\ moves' = 2 /\ heard' = <<>>
  /\ Decide(IF idEntry - 1 <= 0 THEN fileCnt - 1 ELSE idEntry - 1, ret, TRUE)
  /\ UNCHANGED <<mode_changed, broken>>

(* A broken movie ends the loop, one item back the way it came. *)
StepOff ==
  /\ ret = RET_PLAY_INVALID
  /\ broken' = TRUE
  /\ Decide(IF prevRet = RET_PLAY_PREV THEN idEntry + 1 ELSE idEntry - 1,
            RET_PLAY_STOP, FALSE)
  /\ UNCHANGED <<mode_changed, prevRet, moves, heard>>

Stop ==
  /\ ret = RET_PLAY_STOP
  /\ Decide(idEntry, ret, waitExitKey)
  /\ UNCHANGED <<mode_changed, prevRet, moves, heard, broken>>

LoopRound ==
  /\ main = "returned"
  /\ GoOn \/ SameAgain \/ GoBack \/ StepOff \/ Stop
  /\ UNCHANGED <<list, mode, initial_mode, play_continuous, flag_make_rand,
                 rand_table, track, steady, plain>>

-----------------------------------------------------------------------------
(* The console.  'e' puts waitExitKey to 0, any other key to another value; *)
(* where it is 0 the keys move the cursor and open items.  An item that     *)
(* opens another list is left out here (see Browser).                      *)
ExitKey ==
  /\ Running /\ waitExitKey
  /\ waitExitKey' = FALSE
  /\ UNCHANGED <<list, main, idEntry, ret, prevRet, mode, shuffleVars, track,
                 observers>>

OpenOver(id) ==
  /\ Running /\ ~waitExitKey
  /\ waitExitKey' = TRUE /\ idEntry' = id
  /\ steady' = FALSE /\ plain' = FALSE /\ heard' = <<>>
  /\ UNCHANGED <<list, main, ret, prevRet, mode, shuffleVars, track, moves,
                 broken>>

SomePlayerReturns ==
  \E r \in {RET_PLAY_NORM, RET_PLAY_STOP, RET_PLAY_NEXT, RET_PLAY_PREV,
           RET_PLAY_INVALID} : PlayerReturns(r)

Next ==
  \/ \E l \in Lists : OpenDirectory(l)
  \/ \E id \in Items : Start(id) \/ OpenOver(id)
  \/ PlayMusic \/ LoopIcon \/ LoopRound \/ ExitKey
  \/ SomePlayerReturns

Spec == Init /\ [][Next]_vars

(* The main program runs whenever no handler does, a file has an end, and  *)
(* a user who pauses a player goes on with it or leaves it.                *)
FairSpec ==
  /\ Spec
  /\ WF_vars(PlayMusic) /\ WF_vars(SomePlayerReturns) /\ WF_vars(LoopRound)

-----------------------------------------------------------------------------
(* Properties *)

TypeOK ==
  /\ list \in Lists
  /\ main \in {"idle", "call", "player", "returned", "listed"}
  /\ idEntry \in 0 .. TABLE_SIZE - 1
  /\ ret \in {RET_PLAY_NORM, RET_PLAY_STOP, RET_PLAY_NEXT, RET_PLAY_PREV,
             RET_PLAY_INVALID}
  /\ prevRet \in -128 .. 127
  /\ {mode, initial_mode} \subseteq Modes
  /\ {waitExitKey, play_continuous, mode_changed, flag_make_rand, steady, plain,
      broken} \subseteq BOOLEAN
  /\ rand_table \in [0 .. TABLE_SIZE - 1 -> 0 .. TABLE_SIZE - 1]
  /\ track \in 0 .. TABLE_SIZE - 1
  /\ moves \in 0 .. 2
  /\ heard \in Seq(0 .. TABLE_SIZE - 1)

(* Whatever modes, icons and keys move the loop, the item it is at and the *)
(* item it plays are items of the list; and so is the one that the list    *)
(* comes back to, except after a broken movie: then it is at most one step *)
(* off the list, or, in the shuffle mode, what the table holds one step    *)
(* off (the loop of main.c, PlayMusic).                                    *)
EntryOnList ==
  /\ Running => idEntry \in Items
  /\ main \in {"player", "returned"} => track \in Items
  /\ main = "listed" =>
       \/ idEntry \in Items
       \/ broken /\ idEntry \in 0 .. fileCnt
       \/ broken /\ flag_make_rand /\ mode = SHUFFLE_PLAY

(* In the shuffle mode no item is heard again before all the others were;  *)
(* the item the user chose is only kept from coming next (make_shuffle_    *)
(* table, PlayMusic, the loop's wrap to item 1).                           *)
ShufflePass ==
  steady /\ main = "player" /\ fileCnt > 2 =>
    \A i \in 1 .. Len(heard) : track # heard[i]

(* The list comes back with the item highlighted that was played last: in  *)
(* a loop that never shuffled, and no table of this list is left that the  *)
(* loop icon could bring in; and in one that shuffled all the time and     *)
(* went on at least once (before that the choice itself is taken for an    *)
(* index of the table).                                                    *)
RightTrack ==
  main = "listed" /\ ~broken =>
    /\ plain /\ ~(flag_make_rand /\ mode = SHUFFLE_PLAY) => idEntry = track
    /\ steady /\ mode = SHUFFLE_PLAY /\ moves > 0 => idEntry = track

(* The loop ends by itself, unless the user keeps putting it into a mode   *)
(* that repeats, going back, or opening items over it (main.c).            *)
EndsByItself ==
  \/ []<>~Running
  \/ []<>(mode \notin {ONE_PLAY_EXIT, PLAY_ENTIRE})
  \/ []<><<PlayerReturns(RET_PLAY_PREV) \/ \E id \in Items : OpenOver(id)>>_vars
=============================================================================
