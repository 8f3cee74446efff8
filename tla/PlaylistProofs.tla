--------------------------- MODULE PlaylistProofs ---------------------------
(***************************************************************************)
(* Proofs about Playlist, for every set of lists and every table size.     *)
(*                                                                         *)
(* LoopInv carries EntryOnList: the only way to an item off the list is    *)
(* through the shuffle table, so the invariant says that a table exists    *)
(* whenever the loop would use one, and that it gives items of the list.   *)
(* TrackInv carries RightTrack: how the item that is played follows from   *)
(* the item the loop is at.                                                *)
(***************************************************************************)
EXTENDS Playlist, TLAPS

(* A table that exists was made for this list, and the loop relies on one   *)
(* only if it exists.                                                      *)
TableInv ==
  /\ rand_table \in [0 .. TABLE_SIZE - 1 -> 0 .. TABLE_SIZE - 1]
  /\ flag_make_rand => \A i \in Items : rand_table[i] \in Items
  /\ Running /\ mode_changed => flag_make_rand

LoopInv ==
  /\ list \in Lists
  /\ mode \in Modes
  /\ TableInv
  /\ EntryOnList

(* The size of a list, in terms of which the steps reason. *)
LEMMA ListSize ==
  ASSUME NEW l \in Lists
  PROVE  /\ Len(l) \in Nat /\ TABLE_SIZE \in Nat
         /\ Len(l) >= 1 /\ Len(l) + 1 < TABLE_SIZE
BY ListAssumption

(* The next item of the list, wrapping at its end, is on it. *)
LEMMA AfterOnList ==
  ASSUME list \in Lists, NEW id \in Items
  PROVE  After(id) \in Items
BY ListSize DEF After, Items, fileCnt

(* LoopInv holds in the initial states. *)
LEMMA LoopInit == Init => LoopInv
BY ListSize DEF Init, LoopInv, TableInv, EntryOnList, Running, Modes, PLAY_ENTIRE

(* What each action leaves alone. *)
LoopVars == <<list, mode, rand_table, flag_make_rand, mode_changed>>

(* LoopInv is kept by every step of Playlist. *)
LEMMA LoopStep == LoopInv /\ [Next]_vars => LoopInv'
<1> SUFFICES ASSUME LoopInv, [Next]_vars PROVE LoopInv'
  OBVIOUS
<1> USE DEF LoopInv
<1>a. /\ Len(list) \in Nat /\ TABLE_SIZE \in Nat
      /\ Len(list) >= 1 /\ Len(list) + 1 < TABLE_SIZE
  BY ListSize
<1>1. ASSUME NEW l \in Lists, OpenDirectory(l) PROVE LoopInv'
  BY <1>1 DEF OpenDirectory, TableInv, EntryOnList, Running, Items, fileCnt
<1>2. ASSUME NEW id \in Items, Start(id) PROVE LoopInv'
  BY <1>2 DEF Start, TableInv, EntryOnList, Running, Items, fileCnt
<1>3. CASE PlayMusic
  <2>1. list' = list /\ mode' = mode /\ idEntry' = idEntry /\ Items' = Items
        /\ idEntry \in Items /\ main = "call" /\ Running
    BY <1>3 DEF PlayMusic, EntryOnList, Running, Items, fileCnt
  <2>2. TableInv'
    <3>1. CASE UNCHANGED <<rand_table, flag_make_rand, mode_changed>>
      BY <1>3, <2>1, <3>1 DEF PlayMusic, TableInv, Running
    <3>2. CASE UNCHANGED <<rand_table, flag_make_rand>> /\ mode_changed
      BY <1>3, <2>1, <3>2 DEF PlayMusic, TableInv, Running
    <3>3. CASE make_shuffle_table
      <4>1. PICK p \in [Items -> Items] :
              rand_table' = [i \in DOMAIN rand_table |->
                               IF i \in Items THEN p[i] ELSE rand_table[i]]
        BY <3>3 DEF make_shuffle_table
      <4>2. Items \subseteq 0 .. TABLE_SIZE - 1
        BY <1>a DEF Items, fileCnt
      <4>3. DOMAIN rand_table = 0 .. TABLE_SIZE - 1
        BY DEF TableInv
      <4>4. \A i \in Items : rand_table'[i] = p[i]
        BY <4>1, <4>2, <4>3
      <4>5. rand_table' \in [0 .. TABLE_SIZE - 1 -> 0 .. TABLE_SIZE - 1]
        BY <4>1, <4>2, <4>3 DEF TableInv
      <4> QED
        BY <2>1, <3>3, <4>4, <4>5 DEF TableInv, make_shuffle_table
    <3> QED
      BY <1>3, <3>1, <3>2, <3>3 DEF PlayMusic, PickTrack, NewTable
  <2>3. track' \in Items
    <3>1. CASE mode = SHUFFLE_PLAY
      <4>1. flag_make_rand'
        BY <1>3, <2>1, <3>1
           DEF PlayMusic, PickTrack, NewTable, make_shuffle_table, TableInv
      <4>2. rand_table'[idEntry] \in Items
        BY <2>1, <2>2, <4>1 DEF TableInv
      <4> QED
        BY <1>3, <2>1, <3>1, <4>2 DEF PlayMusic, PickTrack
    <3>2. CASE mode # SHUFFLE_PLAY
      BY <1>3, <2>1, <3>2 DEF PlayMusic, PickTrack
    <3> QED
      BY <3>1, <3>2
  <2> QED
    BY <1>3, <2>1, <2>2, <2>3 DEF PlayMusic, EntryOnList, Running
<1>4. CASE LoopIcon
  BY <1>4 DEF LoopIcon, shuffleVars, observers, TableInv, EntryOnList, Running,
              Items, fileCnt, Modes
<1>5. ASSUME NEW r, PlayerReturns(r) PROVE LoopInv'
  BY <1>5 DEF PlayerReturns, shuffleVars, observers, TableInv, EntryOnList,
              Running, Items, fileCnt
<1>6. CASE ExitKey
  BY <1>6 DEF ExitKey, shuffleVars, observers, TableInv, EntryOnList, Running,
              Items, fileCnt
<1>7. ASSUME NEW id \in Items, OpenOver(id) PROVE LoopInv'
  BY <1>7 DEF OpenOver, shuffleVars, TableInv, EntryOnList, Running, Items,
              fileCnt
<1>8. CASE LoopRound
  <2>1. /\ list' = list /\ mode' = mode /\ Items' = Items /\ track' = track
        /\ rand_table' = rand_table /\ flag_make_rand' = flag_make_rand
        /\ main = "returned" /\ idEntry \in Items /\ track \in Items
        /\ fileCnt' = fileCnt
    BY <1>8 DEF LoopRound, EntryOnList, Running, Items, fileCnt
  <2>10. mode_changed' => mode_changed
    BY <1>8 DEF LoopRound, GoOn, GoBack, SameAgain, StepOff, Stop
  <2>2. TableInv'
    BY <2>1, <2>10 DEF TableInv, Running
  <2>3. ASSUME NEW id \in Items, NEW r, NEW wait, Decide(id, r, wait)
        PROVE  EntryOnList'
    BY <2>1, <2>3 DEF Decide, EntryOnList, Running, TableInv
  <2>4. Current \in Items
    BY <2>1 DEF Current, LeavesShuffle, TableInv
  <2>5. ASSUME GoOn PROVE EntryOnList'
    BY <2>1, <2>3, <2>4, <2>5, AfterOnList DEF GoOn
  <2>6. ASSUME SameAgain PROVE EntryOnList'
    BY <2>1, <2>3, <2>6 DEF SameAgain
  <2>7. ASSUME GoBack PROVE EntryOnList'
    <3>1. (IF idEntry - 1 <= 0 THEN fileCnt - 1 ELSE idEntry - 1) \in Items
      BY <1>a, <2>1 DEF Items, fileCnt
    <3> QED
      BY <2>3, <2>7, <3>1 DEF GoBack
  <2>8. ASSUME StepOff PROVE EntryOnList'
    <3>1. /\ main' = "listed" /\ broken'
          /\ \/ idEntry' \in 0 .. fileCnt
             \/ flag_make_rand /\ mode = SHUFFLE_PLAY
      BY <1>a, <2>1, <2>8
         DEF StepOff, Decide, Items, fileCnt, RET_PLAY_STOP
    <3> QED
      BY <2>1, <3>1 DEF EntryOnList, Running
  <2>9. ASSUME Stop PROVE EntryOnList'
    BY <2>1, <2>3, <2>9 DEF Stop
  <2> QED
    BY <1>8, <2>1, <2>2, <2>5, <2>6, <2>7, <2>8, <2>9 DEF LoopRound
<1>9. CASE UNCHANGED vars
  BY <1>9 DEF vars, shuffleVars, observers, TableInv, EntryOnList, Running,
              Items, fileCnt
<1> QED
  BY <1>1, <1>2, <1>3, <1>4, <1>5, <1>6, <1>7, <1>8, <1>9
     DEF Next, SomePlayerReturns

(* The loop never leaves the list, and comes back to an item of it, or one *)
(* step off it after a broken movie: EntryOnList, for every list that fits *)
(* the table (the loop of main.c, PlayMusic).                              *)
THEOREM LoopStaysOnList == Spec => []EntryOnList
<1>1. LoopInv => EntryOnList
  BY DEF LoopInv
<1> QED
  BY <1>1, LoopInit, LoopStep, PTL DEF Spec

-----------------------------------------------------------------------------
(* How the item that is played follows from the item the loop is at. *)
TrackInv ==
  /\ moves \in 0 .. 2
  /\ Running /\ mode_changed => flag_make_rand /\ ~plain
  /\ Running /\ moves > 0 => play_continuous
  /\ main \in {"player", "returned"} =>
       /\ play_continuous
       /\ plain => track = idEntry
       /\ steady /\ moves > 0 => flag_make_rand /\ track = rand_table[idEntry]

(* TrackInv and RightTrack hold in the initial states. *)
LEMMA TrackInit == Init => TrackInv /\ RightTrack
BY DEF Init, TrackInv, RightTrack, Running

(* They are kept by every step of Playlist. *)
LEMMA TrackStep == TrackInv /\ RightTrack /\ [Next]_vars => TrackInv' /\ RightTrack'
<1> SUFFICES ASSUME TrackInv, RightTrack, [Next]_vars
             PROVE  TrackInv' /\ RightTrack'
  OBVIOUS
<1>1. ASSUME NEW l \in Lists, OpenDirectory(l) PROVE TrackInv' /\ RightTrack'
  BY <1>1 DEF OpenDirectory, observers, TrackInv, RightTrack, Running
<1>2. ASSUME NEW id \in Items, Start(id) PROVE TrackInv' /\ RightTrack'
  BY <1>2 DEF Start, TrackInv, RightTrack, Running
<1>3. CASE PlayMusic
  <2>1. main = "call" /\ main' \in {"player", "returned"} /\ moves' = moves
        /\ idEntry' = idEntry /\ play_continuous'
    BY <1>3 DEF PlayMusic, PickTrack
  <2>2. CASE mode = SHUFFLE_PLAY
    <3>1. ~plain'
      BY <1>3, <2>2 DEF PlayMusic, PickTrack
    <3>2. ASSUME steady', moves > 0
          PROVE  track' = rand_table'[idEntry]
      BY <1>3, <2>1, <2>2, <3>2 DEF PlayMusic, PickTrack, TrackInv, Running
    <3>3. flag_make_rand'
      BY <1>3, <2>1, <2>2
         DEF PlayMusic, PickTrack, NewTable, make_shuffle_table, TrackInv, Running
    <3> QED
      BY <2>1, <3>1, <3>2, <3>3 DEF TrackInv, RightTrack, Running
  <2>3. CASE mode # SHUFFLE_PLAY
    <3>1. ~steady' /\ track' = idEntry /\ mode_changed' = mode_changed
          /\ (plain' => plain) /\ flag_make_rand' = flag_make_rand
      BY <1>3, <2>3 DEF PlayMusic, PickTrack
    <3> QED
      BY <2>1, <3>1 DEF TrackInv, RightTrack, Running
  <2> QED
    BY <2>2, <2>3
<1>4. CASE LoopIcon
  BY <1>4 DEF LoopIcon, shuffleVars, observers, TrackInv, RightTrack, Running
<1>5. ASSUME NEW r, PlayerReturns(r) PROVE TrackInv' /\ RightTrack'
  BY <1>5 DEF PlayerReturns, shuffleVars, observers, TrackInv, RightTrack, Running
<1>6. CASE ExitKey
  BY <1>6 DEF ExitKey, shuffleVars, observers, TrackInv, RightTrack, Running
<1>7. ASSUME NEW id \in Items, OpenOver(id) PROVE TrackInv' /\ RightTrack'
  BY <1>7 DEF OpenOver, shuffleVars, TrackInv, RightTrack, Running
<1>8. CASE LoopRound
  <2>1. /\ main = "returned" /\ main' \in {"call", "listed"}
        /\ UNCHANGED <<list, mode, play_continuous, flag_make_rand, rand_table,
                       track, steady, plain>>
    BY <1>8 DEF LoopRound, GoOn, GoBack, SameAgain, StepOff, Stop, Decide
  <2>2. mode_changed' => mode_changed
    BY <1>8 DEF LoopRound, GoOn, GoBack, SameAgain, StepOff, Stop
  <2>11. moves' \in 0 .. 2
    <3>1. moves' \in {moves, 1, 2}
      BY <1>8 DEF LoopRound, GoOn, GoBack, SameAgain, StepOff, Stop
    <3> QED
      BY <3>1 DEF TrackInv
  <2>12. main' = "call" /\ moves' > 0 => play_continuous
    BY <2>1 DEF TrackInv
  <2>3. TrackInv'
    BY <2>1, <2>2, <2>11, <2>12 DEF TrackInv, Running
  <2>4. ASSUME NEW r, NEW wait, Decide(idEntry, r, wait), moves' = moves
        PROVE  RightTrack'
    BY <2>1, <2>4 DEF Decide, RightTrack, TrackInv
  <2>5. ASSUME main' = "call" PROVE RightTrack'
    BY <2>5 DEF RightTrack
  <2>6. ASSUME GoOn PROVE RightTrack'
    <3>1. CASE Current + 1 < fileCnt \/ mode \in {INFINITE_PLAY_ENTIRE, SHUFFLE_PLAY}
      BY <2>5, <2>6, <3>1
         DEF GoOn, Decide, RET_PLAY_NORM, RET_PLAY_NEXT, RET_PLAY_STOP
    <3>2. CASE ~(Current + 1 < fileCnt \/ mode \in {INFINITE_PLAY_ENTIRE, SHUFFLE_PLAY})
      <4>1. Decide(Current, RET_PLAY_STOP, FALSE) /\ mode # SHUFFLE_PLAY
        BY <2>6, <3>2 DEF GoOn
      <4>2. idEntry' = Current
        BY <4>1 DEF Decide
      <4>3. plain => Current = track
        BY <2>1 DEF Current, LeavesShuffle, TrackInv, Running
      <4> QED
        BY <2>1, <4>1, <4>2, <4>3 DEF RightTrack
    <3> QED
      BY <3>1, <3>2
  <2>7. ASSUME SameAgain PROVE RightTrack'
    BY <2>4, <2>7 DEF SameAgain
  <2>8. ASSUME GoBack PROVE RightTrack'
    BY <2>5, <2>8 DEF GoBack, Decide, RET_PLAY_PREV, RET_PLAY_STOP
  <2>9. ASSUME StepOff PROVE RightTrack'
    BY <2>9 DEF StepOff, RightTrack
  <2>10. ASSUME Stop PROVE RightTrack'
    BY <2>4, <2>10 DEF Stop
  <2> QED
    BY <1>8, <2>3, <2>6, <2>7, <2>8, <2>9, <2>10 DEF LoopRound
<1>9. CASE UNCHANGED vars
  BY <1>9 DEF vars, shuffleVars, observers, TrackInv, RightTrack, Running
<1> QED
  BY <1>1, <1>2, <1>3, <1>4, <1>5, <1>6, <1>7, <1>8, <1>9
     DEF Next, SomePlayerReturns

(* RightTrack for every list and table: the list comes back with the item   *)
(* highlighted that was played last (main.c after the loop).               *)
THEOREM LastTrackIsHighlighted == Spec => []RightTrack
BY TrackInit, TrackStep, PTL DEF Spec

-----------------------------------------------------------------------------
(* Items of the list count down from id, k of them, wrapping at item 1. *)
Before(id, k) == IF id - k >= 1 THEN id - k ELSE id - k + fileCnt - 1

(* The loop follows the table. *)
Following ==
  Running /\ steady /\ (main = "call" => mode = SHUFFLE_PLAY) /\ fileCnt > 2

AtFirst ==
  /\ heard = <<>>
  /\ main = "call" => ~mode_changed /\ ~play_continuous
  /\ main # "call" => /\ mode_changed /\ track = idEntry
                      /\ rand_table[After(idEntry)] # idEntry

AtSecond ==
  /\ mode_changed
  /\ Len(heard) = 1 /\ rand_table[idEntry] # heard[1]

AtLater ==
  /\ mode_changed
  /\ Len(heard) <= fileCnt - 2
  /\ \A k \in 1 .. Len(heard) :
       heard[Len(heard) + 1 - k] = rand_table[Before(idEntry, k)]

(* The items heard are those the table holds before the one the loop is at; *)
(* while the item that came first is the only one, only that is known.     *)
PassInv ==
  /\ flag_make_rand =>
       \A i, j \in Items : rand_table[i] = rand_table[j] => i = j
  /\ heard \in Seq(Int)
  /\ steady /\ main = "returned" /\ waitExitKey => ret = RET_PLAY_NEXT
  /\ Following => /\ moves = 0 => AtFirst
                  /\ moves = 1 => AtSecond
                  /\ moves = 2 => AtLater

(* An item of a full table is not among the fileCnt - 2 before it. *)
LEMMA BeforeDiffers ==
  ASSUME list \in Lists, NEW id \in Items, NEW k \in 1 .. fileCnt - 2
  PROVE  Before(id, k) \in Items /\ Before(id, k) # id
BY ListSize DEF Before, Items, fileCnt

(* Going on by one item moves the items before by one. *)
LEMMA BeforeShifts ==
  ASSUME list \in Lists, NEW id \in Items, NEW k \in 1 .. fileCnt - 2
  PROVE  Before(After(id), k) = IF k = 1 THEN id ELSE Before(id, k - 1)
BY ListSize DEF Before, After, Items, fileCnt

(* What PassInv is for. *)
LEMMA PassHolds == LoopInv /\ TrackInv /\ PassInv => ShufflePass
<1> SUFFICES ASSUME LoopInv, TrackInv, PassInv, steady, main = "player", fileCnt > 2,
                    NEW i \in 1 .. Len(heard)
             PROVE  track # heard[i]
  BY DEF ShufflePass
<1>1. Following /\ idEntry \in Items /\ list \in Lists /\ Len(heard) \in Nat
      /\ fileCnt \in Nat
  BY ListSize DEF Following, Running, LoopInv, EntryOnList, PassInv, fileCnt
<1>2. CASE moves = 0
  <2>1. heard = <<>>
    BY <1>1, <1>2 DEF PassInv, AtFirst
  <2>2. Len(heard) = 0
    BY <2>1
  <2>3. i \in 1 .. 0
    BY <2>2
  <2> QED
    BY <2>3
<1>3. CASE moves = 1
  <2>1. Len(heard) = 1 /\ rand_table[idEntry] # heard[1]
    BY <1>1, <1>3 DEF PassInv, AtSecond
  <2>2. track = rand_table[idEntry]
    BY <1>3 DEF TrackInv
  <2>3. i \in 1 .. 1
    BY <2>1
  <2> QED
    BY <2>1, <2>2, <2>3
<1>4. CASE moves = 2
  <2> DEFINE k == Len(heard) + 1 - i
  <2>1. AtLater
    BY <1>1, <1>4 DEF PassInv
  <2>2. k \in 1 .. Len(heard) /\ k \in 1 .. fileCnt - 2 /\ i = Len(heard) + 1 - k
    BY <1>1, <2>1 DEF AtLater
  <2>3. heard[i] = rand_table[Before(idEntry, k)]
    BY <2>1, <2>2 DEF AtLater
  <2>4. Before(idEntry, k) \in Items /\ Before(idEntry, k) # idEntry
    BY <1>1, <2>2, BeforeDiffers
  <2>5. flag_make_rand /\ track = rand_table[idEntry]
    BY <1>4 DEF TrackInv
  <2> QED
    BY <1>1, <2>3, <2>4, <2>5 DEF PassInv
<1> QED
  BY <1>2, <1>3, <1>4 DEF TrackInv

(* PassInv holds in the initial states. *)
LEMMA PassInit == Init => PassInv
BY DEF Init, PassInv, Following, Running

(* It is kept by the item that is picked. *)
LEMMA PassPick == LoopInv /\ TrackInv /\ PassInv /\ PlayMusic => PassInv'
<1> SUFFICES ASSUME LoopInv, TrackInv, PassInv, PlayMusic PROVE PassInv'
  OBVIOUS
<1>1. /\ main = "call" /\ main' \in {"player", "returned"} /\ Running /\ Running'
      /\ UNCHANGED <<list, idEntry, mode, moves, heard>> /\ Items' = Items
      /\ fileCnt' = fileCnt /\ idEntry \in Items
      /\ (steady' => steady /\ mode = SHUFFLE_PLAY)
  BY DEF PlayMusic, PickTrack, Running, Items, fileCnt, LoopInv, EntryOnList
<1>2. main' = "returned" => ret' = RET_PLAY_NEXT
  BY DEF PlayMusic
<1>3. CASE UNCHANGED <<rand_table, flag_make_rand>> /\ ~(steady' /\ ~mode_changed)
  <2>1. ASSUME Following' PROVE Following /\ mode_changed /\ mode_changed'
    BY <1>1, <1>3, <2>1 DEF Following, PlayMusic, PickTrack
  <2>2. ASSUME Following'
        PROVE  moves # 0 /\ (moves = 1 => AtSecond') /\ (moves = 2 => AtLater')
    BY <1>1, <1>3, <2>1, <2>2
       DEF PassInv, AtFirst, AtSecond, AtLater, Before, fileCnt
  <2> QED
    BY <1>1, <1>2, <1>3, <2>2 DEF PassInv
<1>4. CASE NewTable /\ mode = SHUFFLE_PLAY /\ ~mode_changed
  <2>1. PICK p \in [Items -> Items] :
          /\ \A i, j \in Items : p[i] = p[j] => i = j
          /\ rand_table' = [i \in DOMAIN rand_table |->
                              IF i \in Items THEN p[i] ELSE rand_table[i]]
    BY <1>4 DEF NewTable, make_shuffle_table
  <2>2. Items \subseteq DOMAIN rand_table
    BY ListSize DEF LoopInv, TableInv, Items, fileCnt
  <2>3. \A i, j \in Items : rand_table'[i] = rand_table'[j] => i = j
    BY <2>1, <2>2
  <2>4. ASSUME Following' PROVE moves = 0 /\ AtFirst'
    <3>1. Following
      BY <1>1, <2>4 DEF Following
    <3>2. moves = 0 /\ AtFirst
      BY <1>4, <3>1 DEF PassInv, AtSecond, AtLater, TrackInv
    <3>3. track' = idEntry /\ mode_changed'
      BY <1>1, <1>4, <3>2 DEF PlayMusic, PickTrack, AtFirst
    <3>4. rand_table'[After(idEntry)] # idEntry
      BY <1>4, <2>4, <1>1 DEF NewTable, Following
    <3>5. After(idEntry)' = After(idEntry)
      BY <1>1 DEF After
    <3> QED
      BY <1>1, <3>2, <3>3, <3>4, <3>5 DEF AtFirst
  <2> QED
    BY <1>1, <1>2, <2>3, <2>4 DEF PassInv
<1> QED
  BY <1>1, <1>3, <1>4 DEF PlayMusic, PickTrack

(* HeardNow is a sequence of numbers, and in the shuffle mode after the     *)
(* second item it is the track and before it what was heard, at most       *)
(* fileCnt - 2 of them.                                                    *)
LEMMA HeardNowIs ==
  ASSUME LoopInv, heard \in Seq(Int), track \in Items
  PROVE  /\ HeardNow \in Seq(Int)
         /\ fileCnt > 2 /\ mode = SHUFFLE_PLAY /\ moves < 2 => HeardNow = <<track>>
         /\ fileCnt > 2 /\ mode = SHUFFLE_PLAY /\ ~(moves < 2)
               /\ Len(heard) <= fileCnt - 2 =>
              /\ Len(HeardNow) <= fileCnt - 2
              /\ Len(HeardNow) <= Len(heard) + 1
              /\ HeardNow[Len(HeardNow)] = track
              /\ \A k \in 2 .. Len(HeardNow) :
                   HeardNow[Len(HeardNow) + 1 - k] = heard[Len(heard) + 2 - k]
<1>1. track \in Int /\ fileCnt \in Nat /\ Len(heard) \in Nat
  BY ListSize DEF LoopInv, Items, fileCnt
<1>2. Append(heard, track) \in Seq(Int) /\ Len(Append(heard, track)) = Len(heard) + 1
  BY <1>1
<1>3. Tail(Append(heard, track)) \in Seq(Int)
  BY <1>2
<1>4. HeardNow \in Seq(Int)
  BY <1>1, <1>2, <1>3 DEF HeardNow
<1>5. ASSUME fileCnt > 2, mode = SHUFFLE_PLAY, ~(moves < 2),
             Len(heard) <= fileCnt - 2
      PROVE  /\ Len(HeardNow) <= fileCnt - 2
             /\ Len(HeardNow) <= Len(heard) + 1
             /\ HeardNow[Len(HeardNow)] = track
             /\ \A k \in 2 .. Len(HeardNow) :
                  HeardNow[Len(HeardNow) + 1 - k] = heard[Len(heard) + 2 - k]
  <2>1. CASE Len(heard) < fileCnt - 2
    <3>1. HeardNow = Append(heard, track)
      BY <1>1, <1>5, <2>1 DEF HeardNow
    <3> QED
      BY <1>1, <1>2, <1>5, <2>1, <3>1
  <2>2. CASE ~(Len(heard) < fileCnt - 2)
    <3>1. HeardNow = Tail(Append(heard, track))
      BY <1>1, <1>5, <2>2 DEF HeardNow
    <3>2. Len(HeardNow) = Len(heard)
      BY <1>2, <3>1
    <3>3. \A i \in 1 .. Len(heard) : HeardNow[i] = Append(heard, track)[i + 1]
      BY <1>1, <1>2, <3>1
    <3>4. Append(heard, track)[Len(heard) + 1] = track
      BY <1>1
    <3>5. \A i \in 1 .. Len(heard) : Append(heard, track)[i] = heard[i]
      BY <1>1
    <3>6. Len(heard) = fileCnt - 2 /\ Len(heard) >= 1
      BY <1>1, <1>5, <2>2
    <3>7. HeardNow[Len(HeardNow)] = track
      BY <1>1, <3>2, <3>3, <3>4, <3>6
    <3>8. ASSUME NEW k \in 2 .. Len(HeardNow)
          PROVE  HeardNow[Len(HeardNow) + 1 - k] = heard[Len(heard) + 2 - k]
      <4> DEFINE m == Len(heard) + 1 - k
      <4>1. k \in 2 .. Len(heard)
        BY <3>2
      <4>2. m \in 1 .. Len(heard) /\ m + 1 \in 1 .. Len(heard)
            /\ m + 1 = Len(heard) + 2 - k
        BY <1>1, <4>1
      <4>3. HeardNow[m] = heard[m + 1]
        BY <3>3, <3>5, <4>2
      <4> QED
        BY <3>2, <4>2, <4>3
    <3> QED
      BY <1>1, <3>2, <3>6, <3>7, <3>8
  <2> QED
    BY <2>1, <2>2
<1>6. fileCnt > 2 /\ mode = SHUFFLE_PLAY /\ moves < 2 => HeardNow = <<track>>
  BY <1>1 DEF HeardNow
<1> QED
  BY <1>4, <1>5, <1>6

(* PassInv is kept by a round of the loop. *)
LEMMA PassRound ==
  LoopInv /\ TrackInv /\ PassInv /\ LoopRound => PassInv'
<1> SUFFICES ASSUME LoopInv, TrackInv, PassInv, LoopRound PROVE PassInv'
  OBVIOUS
<1>1. /\ main = "returned" /\ main' \in {"call", "listed"} /\ list \in Lists
      /\ UNCHANGED <<list, mode, play_continuous, flag_make_rand, rand_table,
                     track, steady>>
      /\ Items' = Items /\ fileCnt' = fileCnt
      /\ idEntry \in Items /\ track \in Items
  BY DEF LoopRound, GoOn, GoBack, SameAgain, StepOff, Stop, Decide, LoopInv,
         EntryOnList, Running, Items, fileCnt
<1>2. fileCnt \in Nat /\ Items \subseteq Int
  BY <1>1, ListSize DEF fileCnt, Items
<1>3. heard' \in Seq(Int)
  <2>1. heard' \in {heard, HeardNow, <<>>}
    BY DEF LoopRound, GoOn, GoBack, SameAgain, StepOff, Stop
  <2>2. heard \in Seq(Int) /\ <<>> \in Seq(Int)
    BY DEF PassInv
  <2>3. HeardNow \in Seq(Int)
    BY <1>1, <2>2, HeardNowIs
  <2> QED
    BY <2>1, <2>2, <2>3
<1>4. SUFFICES ASSUME Following'
               PROVE  /\ moves' = 0 => AtFirst'
                      /\ moves' = 1 => AtSecond'
                      /\ moves' = 2 => AtLater'
  BY <1>1, <1>3 DEF PassInv
<1>5. Following /\ main' = "call" /\ mode = SHUFFLE_PLAY /\ fileCnt > 2 /\ steady
  BY <1>1, <1>4 DEF Following, Running
<1>6. CASE GoOn
  <2>1. /\ heard' = HeardNow /\ moves' = IF moves = 0 THEN 1 ELSE 2
        /\ (mode_changed => mode_changed')
        /\ idEntry' = After(idEntry)
    BY <1>5, <1>6 DEF GoOn, Decide, LeavesShuffle, Current
  <2>2. CASE moves = 0
    <3>1. AtFirst
      BY <1>5, <2>2 DEF PassInv
    <3>2. heard' = <<track>>
      BY <1>1, <1>5, <2>1, <2>2, HeardNowIs DEF PassInv
    <3>3. mode_changed /\ track = idEntry /\ rand_table[After(idEntry)] # idEntry
      BY <1>1, <3>1 DEF AtFirst
    <3>4. AtSecond'
      BY <1>1, <2>1, <3>2, <3>3 DEF AtSecond
    <3> QED
      BY <2>1, <2>2, <3>4
  <2>3. CASE moves = 1
    <3>1. mode_changed /\ heard' = <<track>> /\ track = rand_table[idEntry]
      BY <1>1, <1>5, <2>1, <2>3, HeardNowIs DEF PassInv, AtSecond, TrackInv
    <3>2. Before(After(idEntry), 1) = idEntry
      BY <1>1, <1>2, <1>5, BeforeShifts
    <3>3. Before(idEntry, 1)' = idEntry
      BY <1>1, <2>1, <3>2 DEF Before
    <3>4. Len(heard') = 1 /\ heard'[1] = track
      BY <3>1
    <3>5. AtLater'
      <4>1. mode_changed' /\ Len(heard)' <= fileCnt' - 2
        BY <1>1, <1>2, <1>5, <2>1, <3>1, <3>4
      <4>2. ASSUME NEW k \in 1 .. Len(heard')
            PROVE  heard'[Len(heard') + 1 - k] = rand_table'[Before(idEntry, k)']
        BY <1>1, <3>1, <3>3, <3>4
      <4> QED
        BY <4>1, <4>2 DEF AtLater
    <3> QED
      BY <2>1, <2>3, <3>5
  <2>4. CASE moves = 2
    <3>1. AtLater /\ track = rand_table[idEntry]
      BY <1>1, <1>5, <2>4 DEF PassInv, TrackInv
    <3>2. /\ Len(heard') <= fileCnt - 2
          /\ Len(heard') <= Len(heard) + 1
          /\ heard'[Len(heard')] = track
          /\ \A k \in 2 .. Len(heard') :
               heard'[Len(heard') + 1 - k] = heard[Len(heard) + 2 - k]
      BY <1>1, <1>5, <2>1, <2>4, <3>1, HeardNowIs DEF PassInv, AtLater
    <3>3. Len(heard) \in Nat /\ Len(heard') \in Nat
      BY <1>3 DEF PassInv
    <3>4. ASSUME NEW k \in 1 .. Len(heard')
          PROVE  heard'[Len(heard') + 1 - k] = rand_table[Before(After(idEntry), k)]
      <4>1. k \in 1 .. fileCnt - 2
        BY <1>2, <3>2, <3>3
      <4>2. Before(After(idEntry), k) = IF k = 1 THEN idEntry ELSE Before(idEntry, k - 1)
        BY <1>1, <4>1, BeforeShifts
      <4>3. CASE k = 1
        BY <3>1, <3>2, <3>3, <4>2, <4>3
      <4>4. CASE k # 1
        <5>1. k - 1 \in 1 .. Len(heard) /\ k \in 2 .. Len(heard')
              /\ Len(heard) + 1 - (k - 1) = Len(heard) + 2 - k
          BY <3>2, <3>3, <4>4
        <5>2. heard[Len(heard) + 1 - (k - 1)] = rand_table[Before(idEntry, k - 1)]
          BY <3>1, <5>1 DEF AtLater
        <5> QED
          BY <3>2, <4>2, <4>4, <5>1, <5>2
      <4> QED
        BY <4>3, <4>4
    <3>5. \A k \in Int : Before(idEntry, k)' = Before(After(idEntry), k)
      BY <1>1, <2>1 DEF Before
    <3>6. AtLater'
      BY <1>1, <2>1, <3>1, <3>2, <3>3, <3>4, <3>5 DEF AtLater
    <3> QED
      BY <2>1, <2>4, <3>6
  <2> QED
    BY <2>2, <2>3, <2>4 DEF TrackInv
<1>7. CASE GoBack
  <2>1. moves' = 2 /\ heard' = <<>> /\ mode_changed' = mode_changed
    BY <1>7 DEF GoBack
  <2>2. mode_changed
    BY <1>1, <1>5 DEF PassInv, AtFirst, AtSecond, AtLater, TrackInv
  <2>3. Len(heard') = 0
    BY <2>1
  <2>4. AtLater'
    BY <1>1, <1>2, <1>5, <2>1, <2>2, <2>3 DEF AtLater
  <2> QED
    BY <2>1, <2>4
<1>8. CASE SameAgain
  BY <1>5, <1>8 DEF SameAgain, Decide, ONE_PLAY_EXIT, INFINITE_ONE_PLAY, SHUFFLE_PLAY
<1>9. CASE StepOff
  BY <1>5, <1>9 DEF StepOff, Decide
<1>10. CASE Stop
  BY <1>1, <1>5, <1>10
     DEF Stop, Decide, PassInv, RET_PLAY_STOP, RET_PLAY_NEXT
<1> QED
  BY <1>6, <1>7, <1>8, <1>9, <1>10 DEF LoopRound

(* PassInv is kept by every step of Playlist. *)
LEMMA PassStep == LoopInv /\ TrackInv /\ PassInv /\ [Next]_vars => PassInv'
<1> SUFFICES ASSUME LoopInv, TrackInv, PassInv, [Next]_vars PROVE PassInv'
  OBVIOUS
<1> USE DEF PassInv, Following, AtFirst, AtSecond, AtLater, Running, Before, After,
            Items, fileCnt
<1>1. ASSUME NEW l \in Lists, OpenDirectory(l) PROVE PassInv'
  BY <1>1 DEF OpenDirectory, observers
<1>2. ASSUME NEW id \in Items, Start(id) PROVE PassInv'
  BY <1>2 DEF Start
<1>3. CASE PlayMusic
  BY <1>3, PassPick
<1>4. CASE LoopIcon
  BY <1>4 DEF LoopIcon, shuffleVars, observers
<1>5. ASSUME NEW r, PlayerReturns(r) PROVE PassInv'
  BY <1>5 DEF PlayerReturns, shuffleVars, observers
<1>6. CASE ExitKey
  BY <1>6 DEF ExitKey, shuffleVars, observers
<1>7. ASSUME NEW id \in Items, OpenOver(id) PROVE PassInv'
  BY <1>7 DEF OpenOver, shuffleVars
<1>8. CASE LoopRound
  BY <1>8, PassRound
<1>9. CASE UNCHANGED vars
  BY <1>9 DEF vars, shuffleVars, observers
<1> QED
  BY <1>1, <1>2, <1>3, <1>4, <1>5, <1>6, <1>7, <1>8, <1>9
     DEF Next, SomePlayerReturns

(* ShufflePass for every list and table: in the shuffle mode no item is     *)
(* heard again before all the others were (make_shuffle_table, PlayMusic,  *)
(* the loop of main.c).                                                    *)
THEOREM EachItemOncePerPass == Spec => []ShufflePass
<1>1. Init => LoopInv /\ TrackInv /\ RightTrack /\ PassInv
  BY LoopInit, TrackInit, PassInit
<1>2. LoopInv /\ TrackInv /\ RightTrack /\ PassInv /\ [Next]_vars
        => (LoopInv /\ TrackInv /\ RightTrack /\ PassInv)'
  BY LoopStep, TrackStep, PassStep
<1> QED
  BY <1>1, <1>2, PassHolds, PTL DEF Spec
-----------------------------------------------------------------------------
(* Types.  LoopInv gives the list, the table and the items of a running      *)
(* loop; what is left is where idEntry is when no loop runs.               *)
RangeInv ==
  /\ main \in {"idle", "call", "player", "returned", "listed"}
  /\ idEntry \in 0 .. TABLE_SIZE - 1 /\ track \in 0 .. TABLE_SIZE - 1
  /\ ret \in {RET_PLAY_NORM, RET_PLAY_STOP, RET_PLAY_NEXT, RET_PLAY_PREV, RET_PLAY_INVALID}
  /\ prevRet \in -128 .. 127
  /\ mode \in Modes /\ initial_mode \in Modes
  /\ moves \in 0 .. 2 /\ heard \in Seq(0 .. TABLE_SIZE - 1)

FlagInv ==
  /\ waitExitKey \in BOOLEAN /\ play_continuous \in BOOLEAN /\ mode_changed \in BOOLEAN
  /\ flag_make_rand \in BOOLEAN /\ steady \in BOOLEAN /\ plain \in BOOLEAN
  /\ broken \in BOOLEAN

(* The numbers of a signed byte. *)
LEMMA Int8Range == \A n \in Int : Int8(n) \in -128 .. 127
BY DEF Int8

(* Counters and items stay in their ranges. *)
LEMMA RangeStep == LoopInv /\ RangeInv /\ [Next]_vars => RangeInv'
<1> SUFFICES ASSUME LoopInv, RangeInv, [Next]_vars PROVE RangeInv'
  OBVIOUS
<1>a. /\ Len(list) \in Nat /\ TABLE_SIZE \in Nat
      /\ Len(list) >= 1 /\ Len(list) + 1 < TABLE_SIZE
  BY ListSize DEF LoopInv
<1>d. rand_table \in [0 .. TABLE_SIZE - 1 -> 0 .. TABLE_SIZE - 1]
  BY DEF LoopInv, TableInv
<1>b. /\ Items \subseteq 0 .. TABLE_SIZE - 1
      /\ fileCnt \in Nat /\ fileCnt >= 2 /\ fileCnt < TABLE_SIZE
      /\ \A id \in Items : id \in Nat /\ id >= 1 /\ id < fileCnt
  <2>1. fileCnt \in Nat /\ fileCnt >= 2 /\ fileCnt < TABLE_SIZE
    BY <1>a DEF fileCnt
  <2>2. QED
    BY <1>a, <2>1 DEF Items
<1>c. LoopInv'
  BY LoopStep
<1> USE DEF RangeInv
<1>1. ASSUME NEW l \in Lists, OpenDirectory(l) PROVE RangeInv'
  BY <1>1 DEF OpenDirectory, observers
<1>2. ASSUME NEW id \in Items, Start(id) PROVE RangeInv'
  BY <1>b, <1>2 DEF Start
<1>3. CASE PlayMusic
  <2>1. track' \in 0 .. TABLE_SIZE - 1
    <3>1. main' \in {"player", "returned"} /\ list' = list
      BY <1>3 DEF PlayMusic
    <3>2. track' \in Items
      BY <3>1, <1>c DEF LoopInv, EntryOnList, Items, fileCnt
    <3>3. QED
      BY <3>2, <1>b
  <2>2. QED
    BY <1>3, <2>1 DEF PlayMusic, PickTrack
<1>4. CASE LoopIcon
  BY <1>4 DEF LoopIcon, shuffleVars, observers, Modes
<1>5. CASE SomePlayerReturns
  BY <1>5 DEF SomePlayerReturns, PlayerReturns, shuffleVars, observers
<1>6. CASE ExitKey
  BY <1>6 DEF ExitKey, shuffleVars, observers
<1>7. ASSUME NEW id \in Items, OpenOver(id) PROVE RangeInv'
  BY <1>b, <1>7 DEF OpenOver, shuffleVars
<1>8. CASE LoopRound
  <2>1. idEntry \in Items /\ track \in Items /\ UNCHANGED <<mode, initial_mode, track>>
    BY <1>8 DEF LoopRound, LoopInv, EntryOnList, Running
  <2>2. ASSUME NEW id \in 0 .. fileCnt, NEW r \in {RET_PLAY_NORM, RET_PLAY_STOP, RET_PLAY_NEXT, RET_PLAY_PREV, RET_PLAY_INVALID},
               NEW wait, Decide(id, r, wait)
        PROVE  /\ idEntry' \in 0 .. TABLE_SIZE - 1 /\ main' \in {"call", "listed"}
               /\ ret' = r
    <3>0. id \in 0 .. TABLE_SIZE - 1
      <4>1. fileCnt \in Nat /\ fileCnt < TABLE_SIZE
        BY <1>b
      <4>2. QED
        BY <1>a, <4>1
    <3>1. id \in 0 .. TABLE_SIZE - 1 /\ rand_table[id] \in 0 .. TABLE_SIZE - 1
      BY <1>d, <3>0
    <3>2. QED
      BY <2>2, <3>1 DEF Decide
  <2>3. Current \in Items /\ After(Current) \in Items
    BY <2>1, AfterOnList DEF Current, LeavesShuffle, LoopInv, TableInv
  <2>4. CASE GoOn
    <3>1. Int8(Current) \in -128 .. 127
      BY <1>b, <2>3, Int8Range
    <3>2. HeardNow \in Seq(0 .. TABLE_SIZE - 1)
      <4>1. Append(heard, track) \in Seq(0 .. TABLE_SIZE - 1) /\ <<track>> \in Seq(0 .. TABLE_SIZE - 1)
        OBVIOUS
      <4>2. Tail(Append(heard, track)) \in Seq(0 .. TABLE_SIZE - 1)
        <5>1. Append(heard, track) # <<>>
          OBVIOUS
        <5>2. QED
          BY <4>1, <5>1
      <4>3. HeardNow \in {<<>>, <<track>>, Append(heard, track), Tail(Append(heard, track))}
        BY DEF HeardNow
      <4>4. <<>> \in Seq(0 .. TABLE_SIZE - 1)
        OBVIOUS
      <4>5. QED
        BY <4>1, <4>2, <4>3, <4>4
    <3>3. idEntry' \in 0 .. TABLE_SIZE - 1 /\ main' \in {"call", "listed"}
          /\ ret' \in {RET_PLAY_NORM, RET_PLAY_STOP, RET_PLAY_NEXT, RET_PLAY_PREV, RET_PLAY_INVALID}
      <4>0. \A id \in Items : id \in 0 .. fileCnt
        BY <1>b
      <4>1. Current \in 0 .. fileCnt /\ After(Current) \in 0 .. fileCnt
        BY <2>3, <4>0
      <4>2. QED
        BY <2>2, <2>4, <4>1 DEF GoOn
    <3>4. QED
      BY <2>1, <2>4, <3>1, <3>2, <3>3 DEF GoOn
  <2>5. CASE SameAgain
    <3>1. idEntry \in 0 .. fileCnt
      BY <1>a, <1>b, <2>1
    <3>2. idEntry' \in 0 .. TABLE_SIZE - 1 /\ main' \in {"call", "listed"}
          /\ ret' \in {RET_PLAY_NORM, RET_PLAY_STOP, RET_PLAY_NEXT, RET_PLAY_PREV, RET_PLAY_INVALID}
      BY <2>2, <2>5, <3>1 DEF SameAgain
    <3>3. QED
      BY <2>1, <2>5, <3>2 DEF SameAgain
  <2>6. CASE GoBack
    <3>1. (IF idEntry - 1 <= 0 THEN fileCnt - 1 ELSE idEntry - 1) \in 0 .. fileCnt
      BY <1>a, <1>b, <2>1
    <3>2. idEntry' \in 0 .. TABLE_SIZE - 1 /\ main' \in {"call", "listed"}
          /\ ret' \in {RET_PLAY_NORM, RET_PLAY_STOP, RET_PLAY_NEXT, RET_PLAY_PREV, RET_PLAY_INVALID}
      BY <2>2, <2>6, <3>1 DEF GoBack
    <3>3. heard' \in Seq(0 .. TABLE_SIZE - 1) /\ prevRet' \in -128 .. 127 /\ moves' \in 0 .. 2
      BY <2>6 DEF GoBack, RET_PLAY_PREV
    <3>4. QED
      BY <2>1, <3>2, <3>3
  <2>7. CASE StepOff
    <3>1. idEntry + 1 \in 0 .. fileCnt /\ idEntry - 1 \in 0 .. fileCnt
      BY <1>a, <1>b, <2>1
    <3>2. idEntry' \in 0 .. TABLE_SIZE - 1 /\ main' \in {"call", "listed"}
          /\ ret' \in {RET_PLAY_NORM, RET_PLAY_STOP, RET_PLAY_NEXT, RET_PLAY_PREV, RET_PLAY_INVALID}
      BY <2>2, <2>7, <3>1 DEF StepOff
    <3>3. QED
      BY <2>1, <2>7, <3>2 DEF StepOff
  <2>8. CASE Stop
    <3>1. idEntry \in 0 .. fileCnt
      BY <1>a, <1>b, <2>1
    <3>2. idEntry' \in 0 .. TABLE_SIZE - 1 /\ main' \in {"call", "listed"}
          /\ ret' \in {RET_PLAY_NORM, RET_PLAY_STOP, RET_PLAY_NEXT, RET_PLAY_PREV, RET_PLAY_INVALID}
      BY <2>2, <2>8, <3>1 DEF Stop
    <3>3. QED
      BY <2>1, <2>8, <3>2 DEF Stop
  <2> QED
    BY <1>8, <2>4, <2>5, <2>6, <2>7, <2>8 DEF LoopRound
<1>9. CASE UNCHANGED vars
  BY <1>9 DEF vars, shuffleVars, observers
<1> QED
  BY <1>1, <1>2, <1>3, <1>4, <1>5, <1>6, <1>7, <1>8, <1>9 DEF Next

LEMMA FlagStep == FlagInv /\ [Next]_vars => FlagInv'
<1> SUFFICES ASSUME FlagInv, [Next]_vars PROVE FlagInv'
  OBVIOUS
<1> USE DEF FlagInv
<1>1. ASSUME NEW l \in Lists, OpenDirectory(l) PROVE FlagInv'
  BY <1>1, Zenon DEF OpenDirectory, observers
<1>2. ASSUME NEW id \in Items, Start(id) PROVE FlagInv'
  BY <1>2, Zenon DEF Start
<1>3. CASE PlayMusic
  <2>1. steady' \in BOOLEAN /\ plain' \in BOOLEAN /\ play_continuous' \in BOOLEAN
    BY <1>3, Zenon DEF PlayMusic, PickTrack
  <2>2. mode_changed' \in BOOLEAN /\ flag_make_rand' \in BOOLEAN
    BY <1>3, Zenon DEF PlayMusic, PickTrack, NewTable, make_shuffle_table
  <2>3. waitExitKey' \in BOOLEAN /\ UNCHANGED broken
    BY <1>3, Zenon DEF PlayMusic
  <2>4. QED
    BY <2>1, <2>2, <2>3, Zenon
<1>4. CASE LoopIcon
  BY <1>4, Zenon DEF LoopIcon, shuffleVars, observers
<1>5. CASE SomePlayerReturns
  BY <1>5, Zenon DEF SomePlayerReturns, PlayerReturns, shuffleVars, observers
<1>6. CASE ExitKey
  BY <1>6, Zenon DEF ExitKey, shuffleVars, observers
<1>7. ASSUME NEW id \in Items, OpenOver(id) PROVE FlagInv'
  BY <1>7, Zenon DEF OpenOver, shuffleVars
<1>8. CASE LoopRound
  <2>1. ASSUME NEW id, NEW r, NEW wait \in BOOLEAN, Decide(id, r, wait)
        PROVE  waitExitKey' \in BOOLEAN
    BY <2>1, Zenon DEF Decide
  <2>2. waitExitKey' \in BOOLEAN
    BY <1>8, <2>1, Zenon DEF LoopRound, GoOn, SameAgain, GoBack, StepOff, Stop
  <2>3. mode_changed' \in BOOLEAN /\ broken' \in BOOLEAN
    BY <1>8, Zenon DEF LoopRound, GoOn, SameAgain, GoBack, StepOff, Stop
  <2>4. QED
    BY <1>8, <2>2, <2>3, Zenon DEF LoopRound
<1>9. CASE UNCHANGED vars
  BY <1>9, Zenon DEF vars, shuffleVars, observers
<1> QED
  BY <1>1, <1>2, <1>3, <1>4, <1>5, <1>6, <1>7, <1>8, <1>9 DEF Next

(* Every index of the loop stays within the table, whatever list is next.   *)
THEOREM PlaylistTypes == Spec => []TypeOK
<1>1. Init => RangeInv
  BY ListSize DEF Init, RangeInv, Modes, PLAY_ENTIRE, RET_PLAY_NORM
<1>2. Init => FlagInv
  BY Zenon DEF Init, FlagInv
<1>3. LoopInv /\ RangeInv /\ FlagInv => TypeOK
  <2>1. FlagInv => {waitExitKey, play_continuous, mode_changed, flag_make_rand, steady,
                    plain, broken} \subseteq BOOLEAN
    BY Zenon DEF FlagInv
  <2>2. QED
    BY <2>1 DEF LoopInv, TableInv, RangeInv, TypeOK
<1> QED
  BY <1>1, <1>2, <1>3, LoopInit, LoopStep, RangeStep, FlagStep, PTL DEF Spec
=============================================================================
