-------------------------- MODULE MovieSyncProofs ---------------------------
(***************************************************************************)
(* Proofs about MovieSync, for every table of chunks the assumption        *)
(* admits, every length of the movie and every behaviour of the pen.       *)
(*                                                                         *)
(* The counters alone say little: a seek leaves them two apart from where  *)
(* they will be, the place in the sound is wrong until the next chunk, and *)
(* the row of the table is found for the chunk before.  IInv says how far  *)
(* each is off in each state of the main program.  VideoInv says the same  *)
(* of the frames, whose counts are sums over the table: the recursive     *)
(* functions that add them up are shown to agree first.                    *)
(***************************************************************************)
EXTENDS MovieSync, WellFoundedInduction, SequenceTheorems, TLAPS

Row == [first : Nat, per : Nat]

Loop == {"chunk", "decode", "poll", "pen"}

-----------------------------------------------------------------------------
(* The rows of a table *)

LEMMA LeastNat ==
  ASSUME NEW T \in SUBSET Nat, T # {}
  PROVE  \E n \in T : \A m \in T : n <= m
<1>1. IsWellFoundedOn(OpToRel(<, Nat), Nat)
  BY NatLessThanWellFounded
<1>2. PICK n \in T : \A m \in T : ~(<<m, n>> \in OpToRel(<, Nat))
  BY <1>1, WFMin
<1>3. \A m \in T : ~(m < n)
  BY <1>2 DEF OpToRel
<1> QED BY <1>3

(* A chunk has a row: its own, or the one before when it begins one. *)
LEMMA RunOfChunk ==
  ASSUME NEW t \in Seq(Row), t # <<>>, t[1].first = 1,
         NEW p \in 1 .. Behind - 1
  PROVE  /\ RunOf(t, p) \in 1 .. Len(t)
         /\ First(t, RunOf(t, p)) <= p /\ p <= First(t, RunOf(t, p) + 1)
         /\ \A l \in 1 .. RunOf(t, p) - 1 : First(t, l + 1) < p
<1>1. Len(t) \in Nat \ {0} /\ Behind \in Nat
  BY EmptySeq, LenProperties, MovieAssumption
<1>2. \A k \in 1 .. Len(t) : First(t, k) \in Nat
  <2>1. \A k \in 1 .. Len(t) : t[k] \in Row
    BY <1>1, ElementOfSeq
  <2> QED BY <1>1, <2>1 DEF First, Row
<1> DEFINE T == {k \in 1 .. Len(t) : p <= First(t, k + 1)}
<1>3. Len(t) \in T /\ T \in SUBSET Nat
  BY <1>1 DEF First
<1>4. PICK n \in T : \A m \in T : n <= m
  BY <1>3, LeastNat
<1>5. \A l \in 1 .. n - 1 : First(t, l + 1) < p
  <2> SUFFICES ASSUME NEW l \in 1 .. n - 1 PROVE First(t, l + 1) < p
    OBVIOUS
  <2>0. n \in 1 .. Len(t)
    BY <1>4
  <2>1. l \in 1 .. Len(t) /\ l + 1 \in 1 .. Len(t) /\ l \notin T
    <3>1. l \in 1 .. Len(t) /\ l + 1 \in 1 .. Len(t) /\ ~(n <= l)
      BY <1>1, <2>0
    <3> QED BY <1>4, <3>1
  <2>2. ~(p <= First(t, l + 1)) /\ First(t, l + 1) \in Nat
    BY <1>2, <2>1
  <2> QED BY <2>2
<1>6. First(t, n) <= p
  <2>1. CASE n = 1
    BY <1>1, <2>1 DEF First
  <2>2. CASE n # 1
    <3>1. n - 1 \in 1 .. n - 1 /\ (n - 1) + 1 = n /\ n \in 1 .. Len(t)
      BY <1>1, <2>2
    <3>2. First(t, n) < p /\ First(t, n) \in Nat
      BY <1>2, <1>5, <3>1
    <3> QED BY <3>2
  <2> QED BY <2>1, <2>2
<1> DEFINE Found(k) == /\ First(t, k) <= p /\ p <= First(t, k + 1)
                       /\ \A l \in 1 .. k - 1 : First(t, l + 1) < p
<1>7. n \in 1 .. Len(t) /\ Found(n)
  BY <1>4, <1>5, <1>6
<1>8. RunOf(t, p) = CHOOSE k \in 1 .. Len(t) : Found(k)
  BY DEF RunOf
<1> HIDE DEF Found, T
<1>9. RunOf(t, p) \in 1 .. Len(t) /\ Found(RunOf(t, p))
  BY <1>7, <1>8
<1> QED BY <1>9 DEF Found

LEMMA Tables ==
  /\ SoundRuns \in Seq(Row) /\ SoundRuns # <<>> /\ SoundRuns[1].first = 1
  /\ VideoRuns \in Seq(Row) /\ VideoRuns # <<>> /\ VideoRuns[1].first = 1
  /\ Len(SoundRuns) \in Nat \ {0} /\ Len(VideoRuns) \in Nat \ {0}
  /\ {VIDEO, SOUND, Behind, LATE} \subseteq Nat
  /\ 2 < VIDEO /\ 2 < SOUND /\ VIDEO < Behind /\ SOUND < Behind
  /\ Pointed \subseteq 0 .. VIDEO - 1
<1>1. SoundRuns \in Seq(Row) /\ VideoRuns \in Seq(Row)
  BY MovieAssumption DEF Row
<1>2. /\ SoundRuns # <<>> /\ SoundRuns[1].first = 1
      /\ VideoRuns # <<>> /\ VideoRuns[1].first = 1
  BY MovieAssumption DEF IsTable
<1>3. Len(SoundRuns) \in Nat \ {0} /\ Len(VideoRuns) \in Nat \ {0}
  BY <1>1, <1>2, EmptySeq, LenProperties
<1> QED BY <1>1, <1>2, <1>3, MovieAssumption

LEMMA NotLast ==
  ASSUME NEW m \in Nat, NEW k \in 1 .. m, k # m
  PROVE  k \in 1 .. m - 1 /\ k + 1 \in 1 .. m
OBVIOUS

LEMMA TableRow ==
  ASSUME NEW t \in Seq(Row), NEW n \in Nat, IsTable(t, n), n < Behind
  PROVE  /\ \A k \in 1 .. Len(t) :
             /\ t[k].first \in 1 .. n /\ t[k].per \in Nat \ {0}
             /\ First(t, k) = t[k].first
             /\ First(t, k) \in Nat
             /\ First(t, k + 1) \in Nat
             /\ First(t, k) < First(t, k + 1)
         /\ First(t, Len(t) + 1) = Behind
<1>1. DOMAIN t = 1 .. Len(t) /\ Len(t) \in Nat
  BY Tables, LenProperties
<1>2. \A k \in 1 .. Len(t) :
        t[k].first \in 1 .. n /\ t[k].per \in Nat \ {0}
  BY <1>1 DEF IsTable
<1>3. \A k \in 1 .. Len(t) - 1 : t[k].first < t[k + 1].first
  BY DEF IsTable
<1>4. \A k \in 1 .. Len(t) :
        /\ First(t, k) = t[k].first
        /\ First(t, k) \in Nat /\ First(t, k + 1) \in Nat
  <2>1. \A k \in 1 .. Len(t) : First(t, k) = t[k].first /\ First(t, k) \in Nat
    BY <1>1, <1>2 DEF First
  <2>2. \A k \in 1 .. Len(t) : k + 1 \in 1 .. Len(t) \/ ~(k + 1 <= Len(t))
    BY <1>1
  <2>3. Behind \in Nat
    BY Tables
  <2>4. \A k \in 1 .. Len(t) : First(t, k + 1) \in Nat
    BY <2>1, <2>2, <2>3 DEF First
  <2> QED BY <2>1, <2>4
<1>5. First(t, Len(t) + 1) = Behind
  BY <1>1 DEF First
<1>6. \A k \in 1 .. Len(t) : First(t, k) < First(t, k + 1)
  <2> SUFFICES ASSUME NEW k \in 1 .. Len(t)
               PROVE  First(t, k) < First(t, k + 1)
    OBVIOUS
  <2>1. CASE k = Len(t)
    <3>1. First(t, k) \in 1 .. n
      BY <1>2, <1>4
    <3>2. n \in Nat /\ Behind \in Nat /\ n < Behind
      BY Tables
    <3> QED BY <2>1, <1>5, <3>1, <3>2
  <2>2. CASE k # Len(t)
    <3>1. k \in 1 .. Len(t) - 1 /\ k + 1 \in 1 .. Len(t)
      BY <1>1, <2>2, NotLast
    <3> QED BY <1>3, <1>4, <3>1
  <2> QED BY <2>1, <2>2
<1> QED BY <1>2, <1>4, <1>5, <1>6

LEMMA SoundRow ==
  /\ \A k \in 1 .. Len(SoundRuns) :
       /\ SoundRuns[k].first \in 1 .. SOUND /\ SoundRuns[k].per \in Nat \ {0}
       /\ First(SoundRuns, k) = SoundRuns[k].first
       /\ First(SoundRuns, k) \in Nat
       /\ First(SoundRuns, k + 1) \in Nat
       /\ First(SoundRuns, k) < First(SoundRuns, k + 1)
  /\ First(SoundRuns, Len(SoundRuns) + 1) = Behind
BY TableRow, Tables, MovieAssumption

LEMMA VideoRow ==
  /\ \A k \in 1 .. Len(VideoRuns) :
       /\ VideoRuns[k].first \in 1 .. VIDEO /\ VideoRuns[k].per \in Nat \ {0}
       /\ First(VideoRuns, k) = VideoRuns[k].first
       /\ First(VideoRuns, k) \in Nat
       /\ First(VideoRuns, k + 1) \in Nat
       /\ First(VideoRuns, k) < First(VideoRuns, k + 1)
  /\ First(VideoRuns, Len(VideoRuns) + 1) = Behind
BY TableRow, Tables, MovieAssumption

-----------------------------------------------------------------------------
(* Seeks *)

TouchInv ==
  /\ slipped \in BOOLEAN /\ late \in BOOLEAN /\ soundEndFlag \in BOOLEAN
  /\ main \in Loop \union Pauses \union Stops \union {"reset"}
  /\ DOMAIN touch = {"id", "done", "ret"}
  /\ slipped => main \notin Pauses
  /\ main \in Pauses /\ (touch.ret = 1 \/ touch.id = "seek" \/ main = "took")
       => sought.video # 0
  /\ main \in Pauses => sought.sound = sought.video

(* The next frame is the first of the chunk pointed at, the next sound that *)
(* chunk's.                                                                *)
SoughtInv ==
  /\ DOMAIN video = {"run", "samples", "j", "i", "stco", "stsz", "total",
                     "count", "at"}
  /\ sought = [video |-> sought.video, sound |-> sought.sound]
  /\ sought.video \in Nat /\ sought.sound \in Nat
  /\ video.count \in Int /\ video.stco \in Int
  /\ sought.video # 0 =>
       /\ main \notin {"poll", "reset", "pen"}
       /\ main \in {"chunk"} \union Pauses => video.stco = sought.video - 1
       /\ main = "decode" => video.at = sought.video /\ video.i = 0
  /\ sought.sound # 0 =>
       /\ main \in Loop \union Pauses => sound.stco = sought.sound - 1
       /\ main = "reset" => sound.at = sought.sound

(* Row, chunk and place of the sound. *)
RowInv ==
  /\ sound \in [run : 1 .. Len(SoundRuns), samples : Nat, reads : 0 .. SOUND,
                stco : Int, count : Int, at : Int, off : Int]
  /\ sound_reads \in Int
  /\ sound.samples = 0 =>
       /\ sound.run + 1 \in 1 .. Len(SoundRuns)
       /\ main \in Loop \union Pauses =>
            First(SoundRuns, sound.run + 1) <= sound.count + 2
       /\ main = "reset" => First(SoundRuns, sound.run + 1) <= sound.count + 1
  /\ sound.samples \notin {0, Many} =>
       /\ sound.samples =
            First(SoundRuns, sound.run + 1) - First(SoundRuns, sound.run)
       /\ main \in Loop \union Pauses =>
            First(SoundRuns, sound.run) + sound.reads <= sound.count + 1
       /\ main = "reset" =>
            First(SoundRuns, sound.run) + sound.reads <= sound.count
  /\ main \in Pauses /\ sought.video # 0 =>
       /\ sound.samples \in {0, Many}
       /\ sound.samples = 0 => First(SoundRuns, sound.run + 1) <= sound.count

PlaceInv ==
  /\ main = "reset" =>
       /\ sound.count < SOUND /\ ~soundEndFlag
       /\ ChunkOver
       /\ late \/ sound.off = 0
       /\ ~slipped => sound.at = sound.stco /\ sound.stco = sound.count + 1
  /\ main \in Loop /\ ~slipped =>
       \/ sound.stco = sound.count + 1
       \/ soundEndFlag /\ sound.count >= SOUND
  /\ main \in Loop /\ ~slipped /\ ~soundEndFlag /\ ~ChunkOver =>
       sound.at = sound.stco /\ (late \/ sound.off = sound_reads)
  /\ main \in Pauses /\ sought.video = 0 =>
       /\ \/ sound.stco = sound.count + 1
          \/ soundEndFlag /\ sound.count >= SOUND
       /\ ~soundEndFlag /\ ~ChunkOver =>
            sound.at = sound.stco /\ (late \/ sound.off = sound_reads)
  /\ main \in Pauses /\ sought.video # 0 => sound.stco = sound.count - 1

IInv == TouchInv /\ SoughtInv /\ RowInv /\ PlaceInv

-----------------------------------------------------------------------------
(* The steps of the sound *)

LEMMA PerOfSound ==
  RowInv => Per(SoundRuns, sound.run) \in Nat \ {0}
BY SoundRow DEF RowInv, Per

(* Where a seek to chunk p sets the sound. *)
LEMMA SoundAtPlace ==
  ASSUME RowInv, NEW p \in 1 .. Behind - 1
  PROVE  /\ SoundAt(p) \in
              [run : 1 .. Len(SoundRuns), samples : Nat, reads : 0 .. SOUND,
               stco : Int, count : Int, at : Int, off : Int]
         /\ SoundAt(p).samples \in {0, Many}
         /\ SoundAt(p).samples = 0 =>
              /\ SoundAt(p).run + 1 \in 1 .. Len(SoundRuns)
              /\ First(SoundRuns, SoundAt(p).run + 1) = p
         /\ SoundAt(p).stco = p - 1 /\ SoundAt(p).count = p
<1> DEFINE k == RunOf(SoundRuns, p)
           n == IF First(SoundRuns, k + 1) = p THEN 0 ELSE Many
<1>1. k \in 1 .. Len(SoundRuns)
  BY RunOfChunk, Tables
<1>2. n \in {0, Many} /\ n \in Nat /\ Many # 0
  BY Tables DEF Many
<1>3. n = 0 => k + 1 \in 1 .. Len(SoundRuns) /\ First(SoundRuns, k + 1) = p
  <2> SUFFICES ASSUME n = 0
               PROVE  k + 1 \in 1 .. Len(SoundRuns) /\ First(SoundRuns, k + 1) = p
    OBVIOUS
  <2>1. First(SoundRuns, k + 1) = p
    BY <1>2
  <2>2. k # Len(SoundRuns)
    BY <2>1, SoundRow, Tables
  <2> QED BY <1>1, <2>1, <2>2, Tables
<1>4. SoundAt(p) = [sound EXCEPT !.run = k, !.samples = n, !.stco = p - 1,
                                 !.count = p]
  BY DEF SoundAt
<1> HIDE DEF k, n
<1>5. SoundAt(p) = [run |-> k, samples |-> n, reads |-> sound.reads,
                    stco |-> p - 1, count |-> p, at |-> sound.at,
                    off |-> sound.off]
  BY <1>4 DEF RowInv
<1>6. p \in Int /\ p - 1 \in Int
  BY Tables
<1> QED BY <1>1, <1>2, <1>3, <1>5, <1>6 DEF RowInv

(* A step of the main program that leaves the sound alone. *)
LEMMA SameSound ==
  ASSUME RowInv, PlaceInv, main \in Loop, main' \in Loop \union Stops,
         UNCHANGED <<sound, sound_reads, soundEndFlag, late, slipped>>
  PROVE  RowInv' /\ PlaceInv'
<1>1. main' \notin Pauses /\ main' # "reset" /\ main \notin Pauses /\ main # "reset"
  BY DEF Loop, Stops, Pauses
<1>2. ChunkOver' = ChunkOver
  BY DEF ChunkOver, Per
<1>3. RowInv'
  BY <1>1 DEF RowInv, First, Many
<1>4. PlaceInv'
  BY <1>1, <1>2 DEF PlaceInv
<1> QED BY <1>3, <1>4

(* A step in the pause that does not move the movie. *)
LEMMA SamePause ==
  ASSUME RowInv, PlaceInv, main \in Pauses, main' \in Pauses,
         UNCHANGED <<sound, sound_reads, soundEndFlag, late, sought>>
  PROVE  RowInv' /\ PlaceInv'
<1>1. main' \notin Loop /\ main' # "reset" /\ main \notin Loop /\ main # "reset"
  BY DEF Loop, Pauses
<1>2. ChunkOver' = ChunkOver
  BY DEF ChunkOver, Per
<1>3. RowInv'
  BY <1>1 DEF RowInv, First, Many
<1>4. PlaceInv'
  BY <1>1, <1>2 DEF PlaceInv
<1> QED BY <1>3, <1>4

(* After a seek the sound looks as if its chunk were over. *)
LEMMA GoOnSound ==
  ASSUME RowInv, NEW v, NEW s \in
              [run : 1 .. Len(SoundRuns), samples : Nat, reads : 0 .. SOUND,
               stco : Int, count : Int, at : Int, off : Int],
         GoOn(v, s), s.samples \in {0, Many},
         s.samples = 0 => /\ s.run + 1 \in 1 .. Len(SoundRuns)
                          /\ First(SoundRuns, s.run + 1) <= s.count,
         s.stco = s.count - 1
  PROVE  RowInv' /\ PlaceInv' /\ sound'.stco = s.stco
<1>1. /\ sound' = [s EXCEPT !.count = s.count - 2]
      /\ sound_reads' = Per(SoundRuns, s.run)
      /\ main' = "chunk"
  BY DEF GoOn
<1>2. /\ sound' \in
           [run : 1 .. Len(SoundRuns), samples : Nat, reads : 0 .. SOUND,
            stco : Int, count : Int, at : Int, off : Int]
      /\ sound'.run = s.run /\ sound'.samples = s.samples
      /\ sound'.stco = s.stco /\ sound'.count = s.count - 2
  BY <1>1
<1>3. sound_reads' \in Int /\ ChunkOver'
  <2>1. Per(SoundRuns, s.run) \in Nat
    BY SoundRow DEF Per
  <2>2. Per(SoundRuns, sound.run)' = Per(SoundRuns, s.run)
    BY <1>2 DEF Per
  <2> QED BY <1>1, <2>1, <2>2 DEF ChunkOver
<1>4. main' \in Loop /\ main' \notin Pauses /\ main' # "reset"
  BY <1>1 DEF Loop, Pauses
<1>5. RowInv'
  <2>1. s.samples \in {0, Many}' /\ s.count \in Int
    BY DEF Many
  <2>2. s.samples = 0 =>
          First(SoundRuns, s.run + 1) <= (s.count - 2) + 2
    <3>1. First(SoundRuns, s.run + 1) \in Nat
      BY SoundRow
    <3> QED BY <2>1, <3>1
  <2> QED BY <1>2, <1>3, <1>4, <2>1, <2>2 DEF RowInv, First
<1>6. sound'.stco = sound'.count + 1
  BY <1>2
<1>7. PlaceInv'
  BY <1>3, <1>4, <1>6 DEF PlaceInv
<1> QED BY <1>2, <1>5, <1>7

LEMMA SeekSoundInv ==
  ASSUME IInv, SeekSound
  PROVE  IInv'
<1>1. /\ main = "poll" /\ ChunkOver /\ UNCHANGED <<video, touch, slipped>>
      /\ sought.video = 0
  BY DEF SeekSound, IInv, SoughtInv
<1>2. CASE sound.count + 1 < SOUND
  <2>1. /\ sound' = [sound EXCEPT !.count = sound.count + 1,
                                  !.stco = sound.stco + 1,
                                  !.at = sound.stco + 1, !.off = 0]
        /\ soundEndFlag' = FALSE /\ late' = FALSE /\ main' = "reset"
        /\ UNCHANGED <<sound_reads, sought>>
    BY <1>2 DEF SeekSound
  <2>2. /\ sound' \in
             [run : 1 .. Len(SoundRuns), samples : Nat, reads : 0 .. SOUND,
              stco : Int, count : Int, at : Int, off : Int]
        /\ sound'.run = sound.run /\ sound'.samples = sound.samples
        /\ sound'.reads = sound.reads /\ sound'.count = sound.count + 1
        /\ sound'.stco = sound.stco + 1 /\ sound'.at = sound.stco + 1
        /\ sound'.off = 0
    <3>1. sound' = [run |-> sound.run, samples |-> sound.samples,
                    reads |-> sound.reads, stco |-> sound.stco + 1,
                    count |-> sound.count + 1, at |-> sound.stco + 1,
                    off |-> 0]
      BY <2>1 DEF IInv, RowInv
    <3> QED BY <3>1 DEF IInv, RowInv
  <2>3. /\ sound.count \in Int /\ sound.stco \in Int /\ SOUND \in Nat
        /\ sound.run \in 1 .. Len(SoundRuns)
    BY Tables DEF IInv, RowInv
  <2>4. main' \notin Loop /\ main' \notin Pauses /\ main \in Loop
    BY <1>1, <2>1 DEF Loop, Pauses
  <2>5. TouchInv'
    BY <1>1, <2>1, <2>4 DEF IInv, TouchInv
  <2>6. SoughtInv'
    BY <1>1, <2>1, <2>2, <2>3, <2>4 DEF IInv, SoughtInv
  <2>7. RowInv'
    <3>1. /\ First(SoundRuns, sound.run) \in Int
          /\ First(SoundRuns, sound.run + 1) \in Int
          /\ sound.reads \in Int
      BY <2>3, SoundRow DEF IInv, RowInv
    <3>2. sound_reads' \in Int
      BY <2>1 DEF IInv, RowInv
    <3>3. /\ sound'.samples = sound.samples /\ sound'.reads = sound.reads
          /\ sound'.run = sound.run /\ sound'.count = sound.count + 1
          /\ sound.count \in Int
      BY <2>2, <2>3
    <3>4. /\ sound.samples = 0 =>
               /\ sound.run + 1 \in 1 .. Len(SoundRuns)
               /\ First(SoundRuns, sound.run + 1) <= sound.count + 2
          /\ sound.samples \notin {0, Many} =>
               /\ sound.samples = First(SoundRuns, sound.run + 1)
                                  - First(SoundRuns, sound.run)
               /\ First(SoundRuns, sound.run) + sound.reads <= sound.count + 1
      BY <2>4 DEF IInv, RowInv
    <3>5. /\ First(SoundRuns, sound.run + 1) <= sound.count + 2
               => First(SoundRuns, sound.run + 1) <= (sound.count + 1) + 1
          /\ First(SoundRuns, sound.run) + sound.reads <= sound.count + 1
               => First(SoundRuns, sound.run) + sound.reads <= sound.count + 1
      BY <3>1, <3>3
    <3>6. sound'.samples = 0 =>
            /\ sound'.run + 1 \in 1 .. Len(SoundRuns)
            /\ First(SoundRuns, sound'.run + 1) <= sound'.count + 1
      BY <3>3, <3>4, <3>5
    <3>7. sound'.samples \notin {0, Many} =>
            /\ sound'.samples = First(SoundRuns, sound'.run + 1)
                                - First(SoundRuns, sound'.run)
            /\ First(SoundRuns, sound'.run) + sound'.reads <= sound'.count
      BY <3>3, <3>4, <3>5
    <3> QED BY <2>1, <2>2, <2>4, <3>2, <3>6, <3>7 DEF RowInv, First, Many
  <2>8. PlaceInv'
    <3>1. ChunkOver'
      BY <1>1, <2>1, <2>2 DEF ChunkOver, Per
    <3>2. ~slipped' => sound'.stco = sound'.count + 1
      BY <1>1, <1>2, <2>2, <2>3, <2>4 DEF IInv, PlaceInv
    <3> QED BY <1>2, <2>1, <2>2, <2>3, <2>4, <3>1, <3>2 DEF PlaceInv
  <2> QED BY <2>5, <2>6, <2>7, <2>8 DEF IInv
<1>3. CASE ~(sound.count + 1 < SOUND)
  <2>1. /\ sound' = [sound EXCEPT !.count = sound.count + 1]
        /\ soundEndFlag' = TRUE /\ sound_reads' = 0 /\ main' = "pen"
        /\ sought' = [sought EXCEPT !.sound = 0] /\ UNCHANGED late
    BY <1>3 DEF SeekSound
  <2>2. /\ sound' \in
             [run : 1 .. Len(SoundRuns), samples : Nat, reads : 0 .. SOUND,
              stco : Int, count : Int, at : Int, off : Int]
        /\ sound'.run = sound.run /\ sound'.samples = sound.samples
        /\ sound'.reads = sound.reads /\ sound'.count = sound.count + 1
        /\ sound'.stco = sound.stco
    BY <2>1 DEF IInv, RowInv
  <2>3. /\ sound.count \in Int /\ SOUND \in Nat
        /\ sound.run \in 1 .. Len(SoundRuns)
    BY Tables DEF IInv, RowInv
  <2>4. main' \in Loop /\ main' \notin Pauses /\ main' # "reset" /\ main \in Loop
    BY <1>1, <2>1 DEF Loop, Pauses
  <2>5. TouchInv'
    BY <1>1, <2>1, <2>4 DEF IInv, TouchInv
  <2>6. SoughtInv'
    <3>1. /\ sought'.sound = 0 /\ sought'.video = 0
          /\ sought' = [video |-> sought'.video, sound |-> sought'.sound]
      BY <1>1, <2>1 DEF IInv, SoughtInv
    <3> QED BY <1>1, <3>1 DEF IInv, SoughtInv
  <2>7. RowInv'
    <3>1. /\ First(SoundRuns, sound.run) \in Int
          /\ First(SoundRuns, sound.run + 1) \in Int
          /\ sound.reads \in Int
      BY <2>3, SoundRow DEF IInv, RowInv
    <3>2. sound_reads' \in Int
      BY <2>1 DEF IInv, RowInv
    <3>3. /\ sound'.samples = sound.samples /\ sound'.reads = sound.reads
          /\ sound'.run = sound.run /\ sound'.count = sound.count + 1
          /\ sound.count \in Int
      BY <2>2, <2>3
    <3>4. /\ sound.samples = 0 =>
               /\ sound.run + 1 \in 1 .. Len(SoundRuns)
               /\ First(SoundRuns, sound.run + 1) <= sound.count + 2
          /\ sound.samples \notin {0, Many} =>
               /\ sound.samples = First(SoundRuns, sound.run + 1)
                                  - First(SoundRuns, sound.run)
               /\ First(SoundRuns, sound.run) + sound.reads <= sound.count + 1
      BY <2>4 DEF IInv, RowInv
    <3>5. /\ First(SoundRuns, sound.run + 1) <= sound.count + 2
               => First(SoundRuns, sound.run + 1) <= (sound.count + 1) + 2
          /\ First(SoundRuns, sound.run) + sound.reads <= sound.count + 1
               => First(SoundRuns, sound.run) + sound.reads <= (sound.count + 1) + 1
      BY <3>1, <3>3
    <3>6. sound'.samples = 0 =>
            /\ sound'.run + 1 \in 1 .. Len(SoundRuns)
            /\ First(SoundRuns, sound'.run + 1) <= sound'.count + 2
      BY <3>3, <3>4, <3>5
    <3>7. sound'.samples \notin {0, Many} =>
            /\ sound'.samples = First(SoundRuns, sound'.run + 1)
                                - First(SoundRuns, sound'.run)
            /\ First(SoundRuns, sound'.run) + sound'.reads <= sound'.count + 1
      BY <3>3, <3>4, <3>5
    <3> QED BY <2>1, <2>2, <2>4, <3>2, <3>6, <3>7 DEF RowInv, First, Many
  <2>8. PlaceInv'
    BY <1>3, <2>1, <2>2, <2>3, <2>4 DEF PlaceInv
  <2> QED BY <2>5, <2>6, <2>7, <2>8 DEF IInv
<1> QED BY <1>2, <1>3

LEMMA ResetReadsInv ==
  ASSUME IInv, ResetReads
  PROVE  IInv'
<1>1. /\ main = "reset" /\ main' = "pen" /\ sound_reads' = 0
      /\ sought' = [sought EXCEPT !.sound = 0]
      /\ UNCHANGED <<video, soundEndFlag, touch, slipped, late>>
      /\ sought.video = 0
  BY DEF ResetReads, IInv, SoughtInv
<1>2. main' \in Loop /\ main' \notin Pauses /\ main' # "reset" /\ main \notin Pauses
  BY <1>1 DEF Loop, Pauses
<1>3. /\ sound.run \in 1 .. Len(SoundRuns) /\ sound.samples \in Nat
      /\ sound.reads \in 0 .. SOUND /\ sound.count \in Int
      /\ SOUND \in Nat /\ Behind \in Nat /\ SOUND < Behind
      /\ Len(SoundRuns) \in Nat \ {0}
      /\ First(SoundRuns, sound.run) \in 1 .. SOUND
      /\ First(SoundRuns, sound.run + 1) \in Nat
      /\ sound.count < SOUND
  BY <1>1, Tables, SoundRow DEF IInv, RowInv, PlaceInv
<1>4. TouchInv'
  BY <1>1, <1>2 DEF IInv, TouchInv
<1>5. SoughtInv'
  <2>1. /\ sought'.sound = 0 /\ sought'.video = 0
        /\ sought' = [video |-> sought'.video, sound |-> sought'.sound]
    BY <1>1 DEF IInv, SoughtInv
  <2> QED BY <1>1, <2>1 DEF IInv, SoughtInv
<1>6. /\ RowInv'
      /\ sound'.stco = sound.stco /\ sound'.count = sound.count
      /\ sound'.at = sound.at /\ sound'.off = sound.off
  <2>1. CASE sound.reads + 1 > sound.samples
    <3> DEFINE k == sound.run + 1
               n == First(SoundRuns, k + 1) - First(SoundRuns, k)
    <3>1. sound' = [sound EXCEPT !.reads = 0, !.run = k, !.samples = n]
      BY <2>1 DEF ResetReads
    <3>2. sound.samples # Many
      BY <1>3, <2>1 DEF Many
    <3>3. k \in 1 .. Len(SoundRuns) /\ First(SoundRuns, k) <= sound.count + 1
      <4>1. CASE sound.samples = 0
        BY <1>1, <4>1 DEF IInv, RowInv
      <4>2. CASE sound.samples # 0
        <5>1. /\ sound.samples =
                   First(SoundRuns, k) - First(SoundRuns, sound.run)
              /\ First(SoundRuns, sound.run) + sound.reads <= sound.count
          BY <1>1, <3>2, <4>2 DEF IInv, RowInv
        <5>2. First(SoundRuns, k) <= sound.count
          BY <1>3, <2>1, <5>1
        <5>3. sound.run # Len(SoundRuns)
          BY <1>3, <5>2, SoundRow
        <5> QED BY <1>3, <5>2, <5>3
      <4> QED BY <4>1, <4>2
    <3>4. /\ n \in Nat \ {0} /\ First(SoundRuns, k) \in Nat
          /\ 0 \in 0 .. SOUND
      <4>1. /\ First(SoundRuns, k) \in Nat /\ First(SoundRuns, k + 1) \in Nat
            /\ First(SoundRuns, k) < First(SoundRuns, k + 1)
        BY <3>3, SoundRow
      <4>2. n \in Nat \ {0}
        BY <4>1
      <4> QED BY <1>3, <4>1, <4>2
    <3> HIDE DEF k, n
    <3>5. sound' = [run |-> k, samples |-> n, reads |-> 0, stco |-> sound.stco,
                    count |-> sound.count, at |-> sound.at, off |-> sound.off]
      BY <3>1 DEF IInv, RowInv
    <3>6. /\ sound' \in
               [run : 1 .. Len(SoundRuns), samples : Nat, reads : 0 .. SOUND,
                stco : Int, count : Int, at : Int, off : Int]
          /\ sound'.run = k /\ sound'.samples = n /\ sound'.reads = 0
          /\ sound'.count = sound.count
      BY <3>3, <3>4, <3>5 DEF IInv, RowInv
    <3>7. /\ sound'.samples = First(SoundRuns, sound'.run + 1)
                               - First(SoundRuns, sound'.run)
          /\ First(SoundRuns, sound'.run) + sound'.reads <= sound'.count + 1
      BY <1>3, <3>3, <3>4, <3>6 DEF k, n
    <3>8. sound'.samples # 0
      BY <3>4, <3>6
    <3>9. RowInv'
      BY <1>1, <1>2, <3>6, <3>7, <3>8 DEF RowInv, First, Many
    <3> QED BY <3>5, <3>9
  <2>2. CASE ~(sound.reads + 1 > sound.samples) /\ sound.samples = Many
    <3>1. sound' = sound
      BY <2>2 DEF ResetReads
    <3>2. Many # 0 /\ Many' = Many
      BY Tables DEF Many
    <3> QED BY <1>1, <1>2, <2>2, <3>1, <3>2 DEF IInv, RowInv
  <2>3. CASE ~(sound.reads + 1 > sound.samples) /\ sound.samples # Many
    <3>1. sound' = [sound EXCEPT !.reads = sound.reads + 1]
      BY <2>3 DEF ResetReads
    <3>2. /\ sound.samples # 0
          /\ sound.samples =
               First(SoundRuns, sound.run + 1) - First(SoundRuns, sound.run)
          /\ First(SoundRuns, sound.run) + sound.reads <= sound.count
      BY <1>1, <1>3, <2>3 DEF IInv, RowInv
    <3>3. sound.reads + 1 \in 0 .. SOUND
      BY <1>3, <3>2
    <3>4. sound' = [run |-> sound.run, samples |-> sound.samples,
                    reads |-> sound.reads + 1, stco |-> sound.stco,
                    count |-> sound.count, at |-> sound.at, off |-> sound.off]
      BY <3>1 DEF IInv, RowInv
    <3>5. sound' \in
             [run : 1 .. Len(SoundRuns), samples : Nat, reads : 0 .. SOUND,
              stco : Int, count : Int, at : Int, off : Int]
      BY <3>3, <3>4 DEF IInv, RowInv
    <3>6. First(SoundRuns, sound.run) + (sound.reads + 1) <= sound.count + 1
      BY <1>3, <3>2
    <3>7. RowInv'
      BY <1>1, <1>2, <3>2, <3>4, <3>5, <3>6 DEF RowInv, First, Many
    <3> QED BY <3>4, <3>7
  <2> QED BY <2>1, <2>2, <2>3
<1>7. PlaceInv'
  BY <1>1, <1>2, <1>6 DEF IInv, PlaceInv
<1> QED BY <1>4, <1>5, <1>6, <1>7 DEF IInv

-----------------------------------------------------------------------------
(* The steps of the frames, and those that only look *)

LEMMA InitInv == Init => IInv
<1> SUFFICES ASSUME Init PROVE IInv
  OBVIOUS
<1> USE DEF Init
<1>1. main = "chunk" /\ main \in Loop /\ main \notin Pauses /\ main # "reset"
  BY DEF Loop, Pauses
<1>2. TouchInv
  BY <1>1 DEF TouchInv, Untouched
<1>3. SoughtInv
  BY <1>1 DEF SoughtInv
<1>4. RowInv
  <2>1. /\ 1 \in 1 .. Len(SoundRuns) /\ Many \in Nat /\ Many # 0
        /\ 1 \in 0 .. SOUND
    BY Tables DEF Many
  <2> QED BY <1>1, <2>1 DEF RowInv
<1>5. PlaceInv
  BY <1>1 DEF PlaceInv
<1> QED BY <1>2, <1>3, <1>4, <1>5 DEF IInv

LEMMA FramesInv ==
  ASSUME IInv, StartChunk \/ NextRun \/ DecodeFrame \/ NextFrame
  PROVE  IInv'
<1>1. /\ main \in Loop /\ main' \in Loop \union {"end"}
      /\ UNCHANGED <<sound, sound_reads, soundEndFlag, late, slipped, touch>>
  BY DEF StartChunk, NextRun, DecodeFrame, NextFrame, Loop, dac
<1>2. RowInv' /\ PlaceInv'
  BY <1>1, SameSound DEF IInv, Stops
<1>3. main' \notin Pauses /\ main' # "reset" /\ main' \in Loop \union Stops
  BY <1>1 DEF Loop, Pauses, Stops
<1>4. TouchInv'
  BY <1>1, <1>3 DEF IInv, TouchInv
<1>5. CASE StartChunk
  <2>1. /\ main = "chunk" /\ main' = "decode" /\ UNCHANGED sought
        /\ video' = [video EXCEPT !.stco = video.stco + 1, !.at = video.stco + 1,
                       !.i = 0, !.stsz = video.stsz + Per(VideoRuns, video.run)]
    BY <1>5 DEF StartChunk
  <2>2. /\ DOMAIN video' = DOMAIN video /\ video'.i = 0
        /\ video'.stco = video.stco + 1 /\ video'.at = video.stco + 1
        /\ video'.count = video.count
    BY <2>1 DEF IInv, SoughtInv
  <2>3. SoughtInv'
    BY <1>1, <1>3, <2>1, <2>2 DEF IInv, SoughtInv
  <2> QED BY <1>2, <1>4, <2>3 DEF IInv
<1>6. CASE NextRun
  <2>1. /\ UNCHANGED <<main, sought>>
        /\ DOMAIN video' = DOMAIN video
        /\ video'.stco = video.stco /\ video'.count = video.count
    BY <1>6 DEF NextRun, IInv, SoughtInv
  <2>2. main = "chunk"
    BY <1>6 DEF NextRun
  <2>3. SoughtInv'
    BY <1>1, <2>1, <2>2 DEF IInv, SoughtInv
  <2> QED BY <1>2, <1>4, <2>3 DEF IInv
<1>7. CASE DecodeFrame
  <2>1. /\ main' = "poll" /\ sought'.video = 0 /\ sought'.sound = sought.sound
        /\ sought' = [video |-> sought'.video, sound |-> sought'.sound]
        /\ DOMAIN video' = DOMAIN video
        /\ video'.stco = video.stco /\ video'.count = video.count
    BY <1>7 DEF DecodeFrame, IInv, SoughtInv
  <2>2. SoughtInv'
    BY <1>1, <1>3, <2>1 DEF IInv, SoughtInv
  <2> QED BY <1>2, <1>4, <2>2 DEF IInv
<1>8. CASE NextFrame
  <2>1. /\ main = "poll" /\ UNCHANGED sought
        /\ DOMAIN video' = DOMAIN video /\ video'.stco = video.stco
        /\ video'.count \in {video.count, video.count + 1}
    BY <1>8 DEF NextFrame, IInv, SoughtInv
  <2>2. SoughtInv'
    BY <1>1, <1>3, <2>1 DEF IInv, SoughtInv
  <2> QED BY <1>2, <1>4, <2>2 DEF IInv
<1> QED BY <1>5, <1>6, <1>7, <1>8

LEMMA LookInv ==
  ASSUME IInv, UnmatchedAtEnd \/ SoundGoesOn \/ PenIsUp
  PROVE  IInv'
<1>1. /\ main \in {"poll", "pen"} /\ main' \in {"poll", "pen", "end"}
      /\ UNCHANGED <<sound, sound_reads, soundEndFlag, late, slipped, touch,
                     video, sought>>
  BY DEF UnmatchedAtEnd, SoundGoesOn, PenIsUp, dac
<1>2. RowInv' /\ PlaceInv'
  BY <1>1, SameSound DEF IInv, Stops, Loop
<1>3. main \in Loop /\ main' \notin Pauses /\ main' # "reset" /\ main' \in Loop \union Stops
  BY <1>1 DEF Loop, Pauses, Stops
<1>4. TouchInv'
  BY <1>1, <1>3 DEF IInv, TouchInv
<1>5. SoughtInv'
  BY <1>1, <1>3 DEF IInv, SoughtInv
<1> QED BY <1>2, <1>4, <1>5 DEF IInv

-----------------------------------------------------------------------------
(* Seeks: the correction of a mismatch, and the pause *)

LEMMA ResynchInv ==
  ASSUME IInv, Resynch
  PROVE  IInv'
<1> DEFINE p == IF sound.count > video.count THEN video.count ELSE sound.count
<1>1. /\ main = "poll" /\ main \in Loop /\ main \notin Pauses /\ ~NearEnd
      /\ UNCHANGED <<soundEndFlag, late, touch>>
      /\ sought.video = 0
  BY DEF Resynch, Loop, Pauses, IInv, SoughtInv
<1>2. p \in 0 .. Behind - 1
  <2>1. sound.count \in Int /\ video.count \in Int
    BY DEF IInv, SoughtInv, RowInv
  <2> QED BY <1>1, <2>1, Tables DEF NearEnd, AtLeast
<1>3. CASE p = 0
  <2>1. main' = "lost" /\ UNCHANGED <<video, sound, sound_reads, sought, slipped>>
    BY <1>3 DEF Resynch
  <2>2. main' \notin Pauses /\ main' # "reset" /\ main' \in Stops
    BY <2>1 DEF Pauses, Stops
  <2>3. RowInv' /\ PlaceInv'
    BY <1>1, <2>1, <2>2, SameSound DEF IInv
  <2>4. TouchInv'
    BY <1>1, <2>1, <2>2 DEF IInv, TouchInv
  <2>5. SoughtInv'
    BY <1>1, <2>1, <2>2 DEF IInv, SoughtInv, Loop
  <2> QED BY <2>3, <2>4, <2>5 DEF IInv
<1>4. CASE p # 0
  <2>1. /\ GoOn(VideoAt(p), SoundAt(p))
        /\ sought' = [video |-> p, sound |-> p]
    BY <1>4 DEF Resynch
  <2>2. p \in 1 .. Behind - 1 /\ p \in Nat /\ Behind \in Nat
    BY <1>2, <1>4, Tables
  <2> HIDE DEF p
  <2>3. /\ SoundAt(p) \in
              [run : 1 .. Len(SoundRuns), samples : Nat, reads : 0 .. SOUND,
               stco : Int, count : Int, at : Int, off : Int]
        /\ SoundAt(p).samples \in {0, Many}
        /\ SoundAt(p).samples = 0 =>
             /\ SoundAt(p).run + 1 \in 1 .. Len(SoundRuns)
             /\ First(SoundRuns, SoundAt(p).run + 1) <= SoundAt(p).count
        /\ SoundAt(p).stco = p - 1 /\ SoundAt(p).stco = SoundAt(p).count - 1
    BY <2>2, SoundAtPlace DEF IInv
  <2>4. RowInv' /\ PlaceInv' /\ sound'.stco = p - 1
    <3>1. RowInv
      BY DEF IInv
    <3> HIDE DEF IInv
    <3> QED BY <2>1, <2>3, <3>1, GoOnSound
  <2>5. main' = "chunk" /\ slipped' = FALSE
    BY <2>1 DEF GoOn
  <2>6. /\ DOMAIN VideoAt(p) = DOMAIN video
        /\ VideoAt(p).stco = p - 1 /\ VideoAt(p).count = p + 1
    BY DEF VideoAt, IInv, SoughtInv
  <2>7. /\ DOMAIN video' = DOMAIN video
        /\ video'.stco = p - 1 /\ video'.count = (p + 1) - 2
    BY <2>1, <2>6 DEF GoOn, IInv, SoughtInv
  <2>8. main' \in Loop /\ main' \notin Pauses
    BY <2>5 DEF Loop, Pauses
  <2>9. TouchInv'
    BY <1>1, <2>5, <2>8 DEF IInv, TouchInv
  <2>10. SoughtInv'
    BY <2>1, <2>2, <2>4, <2>5, <2>7, <2>8 DEF IInv, SoughtInv
  <2> QED BY <2>4, <2>9, <2>10 DEF IInv
<1> QED BY <1>3, <1>4

LEMMA PauseInv ==
  ASSUME IInv, Pause
  PROVE  IInv'
<1>1. /\ main = "pen" /\ main' = "paused" /\ ~slipped /\ touch' = Untouched
      /\ sought' = [video |-> 0, sound |-> 0]
      /\ UNCHANGED <<video, sound, sound_reads, soundEndFlag, slipped, late>>
  BY DEF Pause
<1>2. /\ main \in Loop /\ main \notin Pauses /\ main # "reset"
      /\ main' \notin Loop /\ main' \in Pauses /\ main' # "reset"
  BY <1>1 DEF Loop, Pauses
<1>3. ChunkOver' = ChunkOver
  BY <1>1 DEF ChunkOver, Per
<1>4. TouchInv'
  BY <1>1, <1>2 DEF IInv, TouchInv, Untouched
<1>5. SoughtInv'
  BY <1>1, <1>2 DEF IInv, SoughtInv
<1>6. RowInv'
  BY <1>1, <1>2 DEF IInv, RowInv, First, Many
<1>7. PlaceInv'
  BY <1>1, <1>2, <1>3 DEF IInv, PlaceInv
<1> QED BY <1>4, <1>5, <1>6, <1>7 DEF IInv

LEMMA TouchesInv ==
  ASSUME IInv, TouchIcon \/ SeePointed \/ TakePointed
  PROVE  IInv'
<1>1. /\ main \in Pauses /\ main' \in Pauses
      /\ UNCHANGED <<video, sound, sound_reads, soundEndFlag, late, slipped,
                     sought>>
  BY DEF TouchIcon, SeePointed, TakePointed, Pauses, dac
<1>2. RowInv' /\ PlaceInv'
  BY <1>1, SamePause DEF IInv
<1>3. /\ main' \notin Loop /\ main' # "reset" /\ main # "reset"
      /\ main' \notin {"chunk", "decode", "poll", "pen"}
  BY <1>1 DEF Loop, Pauses
<1>4. SoughtInv'
  BY <1>1, <1>3 DEF IInv, SoughtInv
<1>5. TouchInv'
  <2>1. CASE TouchIcon
    <3>1. PICK id \in {"play", "stop"} :
            touch' = [touch EXCEPT !.id = id, !.done = TRUE]
      BY <2>1 DEF TouchIcon
    <3>2. UNCHANGED main
      BY <2>1 DEF TouchIcon
    <3> QED BY <1>1, <3>1, <3>2 DEF IInv, TouchInv
  <2>2. CASE SeePointed
    BY <1>1, <2>2 DEF SeePointed, IInv, TouchInv, Pauses
  <2>3. CASE TakePointed
    BY <1>1, <2>3 DEF TakePointed, IInv, TouchInv, Pauses
  <2> QED BY <2>1, <2>2, <2>3
<1> QED BY <1>2, <1>4, <1>5 DEF IInv

LEMMA TouchSeekInv ==
  ASSUME IInv, TouchSeek
  PROVE  IInv'
<1>1. /\ main \in Pauses /\ main \notin Loop /\ main # "reset"
      /\ UNCHANGED <<sound_reads, soundEndFlag, late, slipped>>
  BY DEF TouchSeek, Pauses, Loop
<1>2. PICK p \in Pointed :
        IF p = 0
        THEN main' = "lost" /\ UNCHANGED <<video, sound, touch, sought>>
        ELSE /\ video' = VideoAt(p) /\ sound' = SoundAt(p)
             /\ touch' = [touch EXCEPT !.id = "seek"]
             /\ sought' = [video |-> p, sound |-> p]
             /\ UNCHANGED main
  BY DEF TouchSeek
<1>3. CASE p = 0
  <2>1. main' = "lost" /\ UNCHANGED <<video, sound, touch, sought>>
    BY <1>2, <1>3
  <2>2. main' \notin Pauses /\ main' # "reset" /\ main' \notin Loop /\ main' \in Stops
    BY <2>1 DEF Pauses, Stops, Loop
  <2>3. TouchInv'
    BY <1>1, <2>1, <2>2 DEF IInv, TouchInv
  <2>4. SoughtInv'
    BY <1>1, <2>1, <2>2 DEF IInv, SoughtInv
  <2>5. RowInv'
    BY <1>1, <2>1, <2>2 DEF IInv, RowInv, First, Many
  <2>6. PlaceInv'
    BY <2>2 DEF PlaceInv
  <2> QED BY <2>3, <2>4, <2>5, <2>6 DEF IInv
<1>4. CASE p # 0
  <2>1. /\ video' = VideoAt(p) /\ sound' = SoundAt(p)
        /\ touch' = [touch EXCEPT !.id = "seek"]
        /\ sought' = [video |-> p, sound |-> p]
        /\ UNCHANGED main
    BY <1>2, <1>4
  <2>2. p \in 1 .. Behind - 1 /\ p \in Nat \ {0}
    <3>1. p \in 0 .. VIDEO - 1 /\ VIDEO \in Nat /\ Behind \in Nat /\ VIDEO < Behind
      BY Tables
    <3> QED BY <1>4, <3>1
  <2>3. /\ SoundAt(p) \in
              [run : 1 .. Len(SoundRuns), samples : Nat, reads : 0 .. SOUND,
               stco : Int, count : Int, at : Int, off : Int]
        /\ SoundAt(p).samples \in {0, Many}
        /\ SoundAt(p).samples = 0 =>
             /\ SoundAt(p).run + 1 \in 1 .. Len(SoundRuns)
             /\ First(SoundRuns, SoundAt(p).run + 1) <= SoundAt(p).count
        /\ SoundAt(p).stco = p - 1 /\ SoundAt(p).stco = SoundAt(p).count - 1
    BY <2>2, SoundAtPlace DEF IInv
  <2>4. /\ DOMAIN video' = DOMAIN video
        /\ video'.stco = p - 1 /\ video'.count = p + 1
    BY <2>1 DEF VideoAt, IInv, SoughtInv
  <2>5. TouchInv'
    BY <1>1, <2>1, <2>2 DEF IInv, TouchInv
  <2>6. SoughtInv'
    BY <1>1, <2>1, <2>2, <2>3, <2>4 DEF IInv, SoughtInv, Pauses
  <2>7. RowInv'
    <3>1. sound_reads' \in Int /\ main' = main /\ sound'.samples \in {0, Many}
      BY <1>1, <2>1, <2>3 DEF IInv, RowInv
    <3>2. main' \notin Loop /\ main' # "reset"
      BY <1>1, <3>1
    <3>3. sound'.samples = 0 =>
            /\ sound'.run + 1 \in 1 .. Len(SoundRuns)
            /\ First(SoundRuns, sound'.run + 1) <= sound'.count
            /\ First(SoundRuns, sound'.run + 1) <= sound'.count + 2
      <4>1. /\ First(SoundRuns, SoundAt(p).run + 1) \in Nat
            /\ SoundAt(p).count \in Int
        BY <2>3, SoundRow
      <4> QED BY <2>1, <2>3, <4>1
    <3> QED BY <2>1, <2>3, <3>1, <3>2, <3>3 DEF RowInv, First, Many
  <2>8. PlaceInv'
    BY <1>1, <2>1, <2>2, <2>3 DEF PlaceInv
  <2> QED BY <2>5, <2>6, <2>7, <2>8 DEF IInv
<1> QED BY <1>3, <1>4

LEMMA LeaveInv ==
  ASSUME IInv, Leave
  PROVE  IInv'
<1>1. /\ main = "paused" /\ main \in Pauses /\ main \notin Loop /\ main # "reset"
      /\ touch' = Untouched /\ UNCHANGED <<soundEndFlag, late>>
  BY DEF Leave, Pauses, Loop
<1>2. CASE touch.id = "stop"
  <2>1. /\ main' = "end"
        /\ UNCHANGED <<video, sound, sound_reads, slipped, sought>>
    BY <1>2 DEF Leave
  <2>2. main' \notin Pauses /\ main' # "reset" /\ main' \notin Loop /\ main' \in Stops
    BY <2>1 DEF Pauses, Stops, Loop
  <2>3. TouchInv'
    BY <1>1, <2>1, <2>2 DEF IInv, TouchInv, Untouched
  <2>4. SoughtInv'
    BY <1>1, <2>1, <2>2 DEF IInv, SoughtInv
  <2>5. RowInv'
    BY <1>1, <2>1, <2>2 DEF IInv, RowInv, First, Many
  <2>6. PlaceInv'
    BY <2>2 DEF PlaceInv
  <2> QED BY <2>3, <2>4, <2>5, <2>6 DEF IInv
<1>3. CASE touch.id # "stop" /\ touch.ret = 1
  <2>1. GoOn(video, sound) /\ UNCHANGED sought
    BY <1>3 DEF Leave
  <2>2. sought.video # 0 /\ sought.sound = sought.video /\ sought.video \in Nat
    BY <1>1, <1>3 DEF IInv, TouchInv, SoughtInv
  <2>3. /\ sound \in
             [run : 1 .. Len(SoundRuns), samples : Nat, reads : 0 .. SOUND,
              stco : Int, count : Int, at : Int, off : Int]
        /\ sound.samples \in {0, Many}
        /\ sound.samples = 0 =>
             /\ sound.run + 1 \in 1 .. Len(SoundRuns)
             /\ First(SoundRuns, sound.run + 1) <= sound.count
        /\ sound.stco = sound.count - 1
    BY <1>1, <2>2 DEF IInv, RowInv, PlaceInv
  <2>4. RowInv' /\ PlaceInv' /\ sound'.stco = sound.stco
    <3>1. RowInv
      BY DEF IInv
    <3> HIDE DEF IInv
    <3> QED BY <2>1, <2>3, <3>1, GoOnSound
  <2>5. main' = "chunk" /\ slipped' = FALSE
    BY <2>1 DEF GoOn
  <2>6. /\ DOMAIN video' = DOMAIN video
        /\ video'.stco = video.stco /\ video'.count = video.count - 2
    BY <2>1 DEF GoOn, IInv, SoughtInv
  <2>7. main' \in Loop /\ main' \notin Pauses
    BY <2>5 DEF Loop, Pauses
  <2>8. TouchInv'
    BY <1>1, <2>5, <2>7 DEF IInv, TouchInv, Untouched
  <2>9. SoughtInv'
    BY <1>1, <2>1, <2>4, <2>5, <2>6, <2>7 DEF IInv, SoughtInv
  <2> QED BY <2>4, <2>8, <2>9 DEF IInv
<1>4. CASE touch.id # "stop" /\ touch.ret # 1
  <2>1. /\ main' = "poll" /\ slipped' = (slipped \/ sought.video # 0)
        /\ sought' = [video |-> 0, sound |-> 0]
        /\ UNCHANGED <<video, sound, sound_reads>>
    BY <1>4 DEF Leave
  <2>2. /\ main' \in Loop /\ main' \notin Pauses /\ main' # "reset"
        /\ slipped' \in BOOLEAN
    BY <2>1 DEF Loop, Pauses, IInv, TouchInv
  <2>3. ChunkOver' = ChunkOver
    BY <2>1 DEF ChunkOver, Per
  <2>4. TouchInv'
    BY <1>1, <2>1, <2>2 DEF IInv, TouchInv, Untouched
  <2>5. SoughtInv'
    BY <1>1, <2>1, <2>2 DEF IInv, SoughtInv
  <2>6. RowInv'
    BY <1>1, <2>1, <2>2 DEF IInv, RowInv, First, Many
  <2>7. PlaceInv'
    BY <1>1, <2>1, <2>2, <2>3 DEF IInv, PlaceInv
  <2> QED BY <2>4, <2>5, <2>6, <2>7 DEF IInv
<1> QED BY <1>2, <1>3, <1>4

-----------------------------------------------------------------------------
(* The handler reads on: both the place in the chunk and the count of it    *)
(* grow, or it is late already.                                            *)
LEMMA HandlerInv ==
  ASSUME IInv, DAC_Buffer_Process
  PROVE  IInv'
<1>1. /\ sound' = [sound EXCEPT !.off = sound.off + 1]
      /\ sound_reads' = sound_reads + 1
      /\ late' = (late \/ ChunkOver)
      /\ UNCHANGED <<main, video, soundEndFlag, touch, sought, slipped>>
  BY DEF DAC_Buffer_Process
<1>2. /\ sound' \in
           [run : 1 .. Len(SoundRuns), samples : Nat, reads : 0 .. SOUND,
            stco : Int, count : Int, at : Int, off : Int]
      /\ sound'.run = sound.run /\ sound'.samples = sound.samples
      /\ sound'.reads = sound.reads /\ sound'.stco = sound.stco
      /\ sound'.count = sound.count /\ sound'.at = sound.at
      /\ sound'.off = sound.off + 1 /\ sound.off \in Int /\ sound_reads \in Int
  BY <1>1 DEF IInv, RowInv
<1>3. Per(SoundRuns, sound.run) \in Nat /\ Per(SoundRuns, sound.run)' = Per(SoundRuns, sound.run)
  BY <1>2, PerOfSound DEF IInv, Per
<1>4. ChunkOver => ChunkOver' /\ late'
  <2>1. ChunkOver' = (sound_reads + 1 >= Per(SoundRuns, sound.run))
    BY <1>1, <1>3 DEF ChunkOver
  <2>2. sound_reads >= Per(SoundRuns, sound.run)
          => sound_reads + 1 >= Per(SoundRuns, sound.run)
    BY <1>2, <1>3
  <2> QED BY <1>1, <2>1, <2>2 DEF ChunkOver
<1>5. late' \in BOOLEAN /\ (late => late')
  BY <1>1 DEF IInv, TouchInv, ChunkOver
<1>6. TouchInv'
  BY <1>1, <1>5 DEF IInv, TouchInv
<1>7. SoughtInv'
  BY <1>1, <1>2 DEF IInv, SoughtInv
<1>8. RowInv'
  BY <1>1, <1>2 DEF IInv, RowInv, First, Many
<1>9. PlaceInv'
  <2>1. main = "reset" => ChunkOver' /\ (late' \/ sound'.off = 0)
    BY <1>4 DEF IInv, PlaceInv
  <2>2. ~ChunkOver' => ~ChunkOver
    BY <1>4
  <2>3. (late \/ sound.off = sound_reads) => (late' \/ sound'.off = sound_reads')
    BY <1>1, <1>2, <1>5
  <2> QED BY <1>1, <1>2, <2>1, <2>2, <2>3 DEF IInv, PlaceInv
<1> QED BY <1>6, <1>7, <1>8, <1>9 DEF IInv

LEMMA SameInv ==
  ASSUME IInv, ExitKey \/ Terminated \/ UNCHANGED vars
  PROVE  IInv'
<1>1. UNCHANGED <<main, video, sound, sound_reads, soundEndFlag, touch, sought,
                  slipped, late>>
  BY DEF ExitKey, Terminated, vars, dac
<1>2. ChunkOver' = ChunkOver
  BY <1>1 DEF ChunkOver, Per
<1>3. TouchInv' /\ SoughtInv'
  BY <1>1 DEF IInv, TouchInv, SoughtInv
<1>4. RowInv'
  BY <1>1 DEF IInv, RowInv, First, Many
<1>5. PlaceInv'
  BY <1>1, <1>2 DEF IInv, PlaceInv
<1> QED BY <1>3, <1>4, <1>5 DEF IInv

(* The invariant holds in every state. *)
THEOREM InductiveInvariant == Spec => []IInv
<1>1. Init => IInv
  BY InitInv
<1>2. IInv /\ [Next]_vars => IInv'
  <2> SUFFICES ASSUME IInv, [Next]_vars PROVE IInv'
    OBVIOUS
  <2>1. CASE StartChunk \/ NextRun \/ DecodeFrame \/ NextFrame
    BY <2>1, FramesInv
  <2>2. CASE UnmatchedAtEnd \/ SoundGoesOn \/ PenIsUp
    BY <2>2, LookInv
  <2>3. CASE Resynch
    BY <2>3, ResynchInv
  <2>4. CASE SeekSound
    BY <2>4, SeekSoundInv
  <2>5. CASE ResetReads
    BY <2>5, ResetReadsInv
  <2>6. CASE Pause
    BY <2>6, PauseInv
  <2>7. CASE TouchIcon \/ SeePointed \/ TakePointed
    BY <2>7, TouchesInv
  <2>8. CASE TouchSeek
    BY <2>8, TouchSeekInv
  <2>9. CASE Leave
    BY <2>9, LeaveInv
  <2>10. CASE DAC_Buffer_Process
    BY <2>10, HandlerInv
  <2>11. CASE ExitKey \/ Terminated \/ UNCHANGED vars
    BY <2>11, SameInv
  <2> QED BY <2>1, <2>2, <2>3, <2>4, <2>5, <2>6, <2>7, <2>8, <2>9, <2>10,
             <2>11 DEF Next, Program, User
<1> QED BY <1>1, <1>2, PTL DEF Spec

(* After a seek or a correction the next frame is the first of the chunk    *)
(* pointed at and the next sound is that chunk's (mjpegTouch,              *)
(* PlayMotionJpeg).                                                        *)
THEOREM SeeksLand == Spec => []BothLand
<1>1. IInv => BothLand
  BY DEF IInv, SoughtInv, BothLand
<1> QED BY <1>1, InductiveInvariant, PTL

(* While its chunk is not over the sound is read from the chunk that        *)
(* soundStcoCount names, as far as sound_reads says (PlayMotionJpeg,       *)
(* DAC_Buffer_Process).                                                    *)
THEOREM SoundIsInPlace == Spec => []SoundInPlace
<1>1. IInv => SoundInPlace
  <2> SUFFICES ASSUME IInv, main \in Loop, ~soundEndFlag, ~ChunkOver, ~slipped
               PROVE  sound.at = sound.count + 1 /\ (late \/ sound.off = sound_reads)
    BY DEF SoundInPlace, Loop
  <2> QED BY DEF IInv, PlaceInv
<1> QED BY <1>1, InductiveInvariant, PTL

-----------------------------------------------------------------------------
(* Sums, as the recursive functions of MovieSync add them up *)

(* f adds up the first of n numbers. *)
Adds(f, h, n) == \A k \in 1 .. n : f[k] = IF k = 1 THEN 0 ELSE f[k - 1] + h[k]

LEMMA Sums ==
  ASSUME NEW N \in Nat, NEW h \in [1 .. N -> Int]
  PROVE  \E g \in [1 .. N -> Int] : Adds(g, h, N)
<1> DEFINE Sum(g, n) == g \in [1 .. n -> Int] /\ Adds(g, h, n)
           T == {n \in 0 .. N : ~ \E g : Sum(g, n)}
<1> HIDE DEF Sum
<1>1. CASE T = {}
  <2>1. N \in 0 .. N
    OBVIOUS
  <2>2. \E g : Sum(g, N)
    BY <1>1, <2>1
  <2> QED BY <2>2 DEF Sum
<1>2. CASE T # {}
  <2>0. T \in SUBSET Nat
    OBVIOUS
  <2>1. PICK n \in T : \A m \in T : n <= m
    <3> HIDE DEF T
    <3> QED BY <1>2, <2>0, LeastNat
  <2>2. n # 0
    <3>1. Sum([k \in 1 .. 0 |-> 0], 0)
      BY DEF Sum, Adds
    <3> QED BY <3>1
  <2>3. PICK g : Sum(g, n - 1)
    <3>0. n \in 0 .. N
      OBVIOUS
    <3>1. n - 1 \in 0 .. N /\ ~(n <= n - 1)
      BY <2>2, <3>0
    <3>2. n - 1 \notin T
      <4> HIDE DEF T
      <4> QED BY <2>1, <3>1
    <3> QED BY <3>1, <3>2
  <2> DEFINE e == [k \in 1 .. n |-> IF k = 1 THEN 0 ELSE g[k - 1] + h[k]]
  <2>4. \A k \in 1 .. n : k # 1 => k - 1 \in 1 .. n - 1 /\ k - 1 \in 1 .. n
    BY <2>1
  <2>5. e \in [1 .. n -> Int]
    BY <2>1, <2>3, <2>4 DEF Sum, Adds
  <2>6. \A k \in 1 .. n - 1 : k \in 1 .. n /\ e[k] = g[k]
    BY <2>1, <2>3 DEF Sum, Adds
  <2>7. \A k \in 1 .. n : e[k] = IF k = 1 THEN 0 ELSE e[k - 1] + h[k]
    BY <2>4, <2>6
  <2>8. Sum(e, n)
    BY <2>5, <2>7 DEF Sum, Adds
  <2> QED BY <2>1, <2>8
<1> QED BY <1>1, <1>2

LEMMA SumsAgree ==
  ASSUME NEW N \in Nat, NEW f, NEW g, NEW h,
         Adds(f, h, N), Adds(g, h, N)
  PROVE  \A k \in 1 .. N : f[k] = g[k]
<1> DEFINE T == {k \in 1 .. N : f[k] # g[k]}
<1>1. CASE T # {}
  <2>0. T \in SUBSET Nat
    OBVIOUS
  <2>1. PICK k \in T : \A m \in T : k <= m
    <3> HIDE DEF T
    <3> QED BY <1>1, <2>0, LeastNat
  <2>2. k # 1
    BY DEF Adds
  <2>3. k - 1 \in 1 .. N /\ k - 1 \notin T
    BY <2>1, <2>2
  <2> QED BY <2>1, <2>2, <2>3 DEF Adds
<1> QED BY <1>1

(* What the recursive function of that sum is. *)
LEMMA SumIs ==
  ASSUME NEW N \in Nat, NEW h \in [1 .. N -> Int], NEW s,
         s = CHOOSE g : g = [k \in 1 .. N |-> IF k = 1 THEN 0 ELSE g[k - 1] + h[k]]
  PROVE  s \in [1 .. N -> Int] /\ Adds(s, h, N)
<1>1. PICK g \in [1 .. N -> Int] : Adds(g, h, N)
  BY Sums
<1>2. g = [k \in 1 .. N |-> IF k = 1 THEN 0 ELSE g[k - 1] + h[k]]
  <2>1. g = [k \in 1 .. N |-> g[k]]
    OBVIOUS
  <2> QED BY <1>1, <2>1 DEF Adds
<1>3. s = [k \in 1 .. N |-> IF k = 1 THEN 0 ELSE s[k - 1] + h[k]]
  BY <1>2
<1>4. Adds(s, h, N)
  BY <1>3 DEF Adds
<1>5. \A k \in 1 .. N : s[k] = g[k]
  BY <1>1, <1>4, SumsAgree
<1>6. s = [k \in 1 .. N |-> s[k]]
  BY <1>3
<1>7. s \in [1 .. N -> Int]
  BY <1>1, <1>5, <1>6
<1> QED BY <1>4, <1>7

-----------------------------------------------------------------------------
(* The samples before a chunk *)

(* A later run begins behind an earlier one. *)
LEMMA Increasing ==
  \A k, l \in 1 .. Len(VideoRuns) :
    k < l => First(VideoRuns, k + 1) <= First(VideoRuns, l)
<1> SUFFICES ASSUME NEW k \in 1 .. Len(VideoRuns)
             PROVE  \A l \in 1 .. Len(VideoRuns) :
                      k < l => First(VideoRuns, k + 1) <= First(VideoRuns, l)
  OBVIOUS
<1> DEFINE T == {l \in 1 .. Len(VideoRuns) :
                   k < l /\ ~(First(VideoRuns, k + 1) <= First(VideoRuns, l))}
<1>1. CASE T # {}
  <2>1. T \in SUBSET Nat
    BY Tables
  <2>2. PICK l \in T : \A m \in T : l <= m
    <3> HIDE DEF T
    <3> QED BY <1>1, <2>1, LeastNat
  <2>3. /\ l \in 1 .. Len(VideoRuns) /\ k < l
        /\ ~(First(VideoRuns, k + 1) <= First(VideoRuns, l))
    OBVIOUS
  <2>4. First(VideoRuns, k + 1) \in Nat /\ First(VideoRuns, l) \in Nat
    BY <2>3, VideoRow
  <2>5. l - 1 \in 1 .. Len(VideoRuns) /\ k < l - 1 /\ (l - 1) + 1 = l /\ ~(l <= l - 1)
    BY <2>3, <2>4, Tables
  <2>6. l - 1 \notin T
    <3> HIDE DEF T
    <3> QED BY <2>2, <2>5
  <2>7. First(VideoRuns, k + 1) <= First(VideoRuns, l - 1)
    BY <2>5, <2>6
  <2>8. /\ First(VideoRuns, l - 1) < First(VideoRuns, l)
        /\ First(VideoRuns, l - 1) \in Nat
    BY <2>5, VideoRow
  <2> QED BY <2>3, <2>4, <2>7, <2>8
<1> QED BY <1>1

LEMMA PerOfRow ==
  ASSUME NEW k \in 1 .. Len(VideoRuns), NEW c \in Nat,
         First(VideoRuns, k) <= c, c < First(VideoRuns, k + 1)
  PROVE  PerOf(VideoRuns, c) = Per(VideoRuns, k)
<1> DEFINE Has(l) == First(VideoRuns, l) <= c /\ c < First(VideoRuns, l + 1)
<1>1. DOMAIN VideoRuns = 1 .. Len(VideoRuns)
  BY Tables, LenProperties
<1>2. ASSUME NEW l \in 1 .. Len(VideoRuns), Has(l)
      PROVE  l = k
  <2>1. /\ First(VideoRuns, k) \in Nat /\ First(VideoRuns, k + 1) \in Nat
        /\ First(VideoRuns, l) \in Nat /\ First(VideoRuns, l + 1) \in Nat
    BY VideoRow
  <2>2. ~(k < l)
    BY <1>2, <2>1, Increasing
  <2>3. ~(l < k)
    BY <1>2, <2>1, Increasing
  <2> QED BY <2>2, <2>3, Tables
<1>3. Has(k)
  OBVIOUS
<1>4. PerOf(VideoRuns, c) = VideoRuns[CHOOSE l \in 1 .. Len(VideoRuns) : Has(l)].per
  BY <1>1 DEF PerOf
<1> HIDE DEF Has
<1>5. (CHOOSE l \in 1 .. Len(VideoRuns) : Has(l)) = k
  BY <1>2, <1>3
<1> QED BY <1>4, <1>5 DEF Per

LEMMA InRow ==
  ASSUME NEW c \in 1 .. Behind - 1
  PROVE  \E k \in 1 .. Len(VideoRuns) :
           First(VideoRuns, k) <= c /\ c < First(VideoRuns, k + 1)
<1> DEFINE k == RunOf(VideoRuns, c)
<1>1. /\ k \in 1 .. Len(VideoRuns)
      /\ First(VideoRuns, k) <= c /\ c <= First(VideoRuns, k + 1)
  BY RunOfChunk, Tables
<1> HIDE DEF k
<1>2. First(VideoRuns, k + 1) \in Nat /\ c \in Nat
  BY <1>1, VideoRow, Tables
<1>3. CASE c = First(VideoRuns, k + 1)
  <2>1. k # Len(VideoRuns)
    BY <1>3, VideoRow, Tables
  <2>2. k + 1 \in 1 .. Len(VideoRuns)
    BY <1>1, <2>1, Tables
  <2>3. First(VideoRuns, k + 1) < First(VideoRuns, (k + 1) + 1)
    BY <2>2, VideoRow
  <2> QED BY <1>2, <1>3, <2>2, <2>3
<1> QED BY <1>1, <1>2, <1>3

LEMMA PerOfNat ==
  \A c \in 1 .. Behind - 1 : PerOf(VideoRuns, c) \in Nat \ {0}
<1> SUFFICES ASSUME NEW c \in 1 .. Behind - 1
             PROVE  PerOf(VideoRuns, c) \in Nat \ {0}
  OBVIOUS
<1>1. PICK k \in 1 .. Len(VideoRuns) :
        First(VideoRuns, k) <= c /\ c < First(VideoRuns, k + 1)
  BY InRow
<1>2. c \in Nat
  BY Tables
<1>3. PerOf(VideoRuns, c) = Per(VideoRuns, k)
  BY <1>1, <1>2, PerOfRow
<1> QED BY <1>3, VideoRow DEF Per

(* The sums of the table, as far as there are chunks. *)
LEMMA SamplesSum ==
  ASSUME NEW c \in 1 .. Behind
  PROVE  \E s \in [1 .. c -> Int] :
           /\ SamplesBefore(VideoRuns, c) = s[c]
           /\ \A d \in 1 .. c :
                s[d] = IF d = 1 THEN 0 ELSE s[d - 1] + PerOf(VideoRuns, d - 1)
<1> DEFINE h == [d \in 1 .. c |-> IF d = 1 THEN 0 ELSE PerOf(VideoRuns, d - 1)]
           s == CHOOSE g : g = [d \in 1 .. c |->
                   IF d = 1 THEN 0 ELSE g[d - 1] + PerOf(VideoRuns, d - 1)]
<1>0. c \in Nat
  BY Tables
<1>1. \A d \in 1 .. c : d # 1 => PerOf(VideoRuns, d - 1) \in Int
  <2>1. \A d \in 1 .. c : d # 1 => d - 1 \in 1 .. Behind - 1
    BY Tables
  <2> QED BY <2>1, PerOfNat
<1>2. h \in [1 .. c -> Int]
  BY <1>1
<1>3. SamplesBefore(VideoRuns, c) = s[c]
  BY DEF SamplesBefore
<1>4. \A g : [d \in 1 .. c |-> IF d = 1 THEN 0 ELSE g[d - 1] + PerOf(VideoRuns, d - 1)]
           = [d \in 1 .. c |-> IF d = 1 THEN 0 ELSE g[d - 1] + h[d]]
  OBVIOUS
<1>5. s = CHOOSE g : g = [d \in 1 .. c |-> IF d = 1 THEN 0 ELSE g[d - 1] + h[d]]
  BY <1>4
<1>6. \A d \in 1 .. c : d # 1 => h[d] = PerOf(VideoRuns, d - 1)
  OBVIOUS
<1> HIDE DEF h, s
<1>7. s \in [1 .. c -> Int] /\ Adds(s, h, c)
  BY <1>0, <1>2, <1>5, SumIs
<1>8. \A d \in 1 .. c : s[d] = IF d = 1 THEN 0 ELSE s[d - 1] + PerOf(VideoRuns, d - 1)
  BY <1>6, <1>7 DEF Adds
<1> QED BY <1>3, <1>7, <1>8

LEMMA SamplesNext ==
  /\ SamplesBefore(VideoRuns, 1) = 0
  /\ \A c \in 1 .. Behind : SamplesBefore(VideoRuns, c) \in Int
  /\ \A c \in 1 .. Behind - 1 :
       SamplesBefore(VideoRuns, c + 1) =
         SamplesBefore(VideoRuns, c) + PerOf(VideoRuns, c)
<1>1. 1 \in 1 .. Behind
  BY Tables
<1>2. SamplesBefore(VideoRuns, 1) = 0
  BY <1>1, SamplesSum
<1>3. \A c \in 1 .. Behind : SamplesBefore(VideoRuns, c) \in Int
  <2> SUFFICES ASSUME NEW c \in 1 .. Behind
               PROVE  SamplesBefore(VideoRuns, c) \in Int
    OBVIOUS
  <2>1. c \in 1 .. c
    BY Tables
  <2> QED BY <2>1, SamplesSum
<1>4. ASSUME NEW c \in 1 .. Behind - 1
      PROVE  SamplesBefore(VideoRuns, c + 1) =
               SamplesBefore(VideoRuns, c) + PerOf(VideoRuns, c)
  <2>1. /\ c \in 1 .. Behind /\ c + 1 \in 1 .. Behind /\ c \in Nat
        /\ c \in 1 .. c + 1 /\ c + 1 \in 1 .. c + 1 /\ (c + 1) - 1 = c /\ c + 1 # 1
        /\ c \in 1 .. c
    BY Tables
  <2>2. PICK s \in [1 .. c -> Int] :
           /\ SamplesBefore(VideoRuns, c) = s[c]
           /\ \A d \in 1 .. c :
                s[d] = IF d = 1 THEN 0 ELSE s[d - 1] + PerOf(VideoRuns, d - 1)
    BY <2>1, SamplesSum
  <2>3. PICK r \in [1 .. c + 1 -> Int] :
           /\ SamplesBefore(VideoRuns, c + 1) = r[c + 1]
           /\ \A d \in 1 .. c + 1 :
                r[d] = IF d = 1 THEN 0 ELSE r[d - 1] + PerOf(VideoRuns, d - 1)
    BY <2>1, SamplesSum
  <2> DEFINE h == [d \in 1 .. c |-> PerOf(VideoRuns, d - 1)]
  <2>4. \A d \in 1 .. c : d \in 1 .. c + 1
    BY <2>1
  <2>5. Adds(s, h, c) /\ Adds(r, h, c)
    BY <2>2, <2>3, <2>4 DEF Adds
  <2> HIDE DEF h
  <2>6. s[c] = r[c]
    BY <2>1, <2>5, SumsAgree
  <2>7. r[c + 1] = r[c] + PerOf(VideoRuns, c)
    BY <2>1, <2>3
  <2> QED BY <2>2, <2>3, <2>6, <2>7
<1> QED BY <1>2, <1>3, <1>4

LEMMA WalkSum ==
  /\ Walk(VideoRuns)[1] = 0
  /\ \A k \in 1 .. Len(VideoRuns) :
       /\ Walk(VideoRuns)[k] \in Int
       /\ k # 1 => Walk(VideoRuns)[k] =
                     Walk(VideoRuns)[k - 1]
                     + (First(VideoRuns, k) - First(VideoRuns, k - 1))
                       * Per(VideoRuns, k - 1)
<1> DEFINE N == Len(VideoRuns)
           t == VideoRuns
           h == [k \in 1 .. N |-> IF k = 1 THEN 0
                   ELSE (t[k].first - t[k - 1].first) * t[k - 1].per]
           s == Walk(t)
<1>1. N \in Nat \ {0}
  BY Tables
<1>2. \A k \in 1 .. N : t[k].first \in Int /\ t[k].per \in Int
  BY VideoRow
<1>3. h \in [1 .. N -> Int]
  <2> HIDE DEF t, N
  <2>1. \A k \in 1 .. N : k # 1 => k - 1 \in 1 .. N
    BY <1>1
  <2>2. \A k \in 1 .. N : k # 1 =>
          (t[k].first - t[k - 1].first) * t[k - 1].per \in Int
    BY <1>2, <2>1
  <2> QED BY <2>2
<1>4. s = CHOOSE g : g = [k \in 1 .. N |-> IF k = 1 THEN 0
              ELSE g[k - 1] + (t[k].first - t[k - 1].first) * t[k - 1].per]
  BY DEF Walk
<1> HIDE DEF t, N, s
<1>5. \A g : [k \in 1 .. N |-> IF k = 1 THEN 0
                 ELSE g[k - 1] + (t[k].first - t[k - 1].first) * t[k - 1].per]
           = [k \in 1 .. N |-> IF k = 1 THEN 0 ELSE g[k - 1] + h[k]]
  OBVIOUS
<1>6. s = CHOOSE g : g = [k \in 1 .. N |-> IF k = 1 THEN 0 ELSE g[k - 1] + h[k]]
  BY <1>4, <1>5
<1>7. \A k \in 1 .. N : k # 1 => h[k] = (t[k].first - t[k - 1].first) * t[k - 1].per
  OBVIOUS
<1> HIDE DEF h
<1>8. s \in [1 .. N -> Int] /\ Adds(s, h, N)
  BY <1>1, <1>3, <1>6, SumIs
<1>9. \A k \in 1 .. N : k # 1 => k - 1 \in 1 .. N
  BY <1>1
<1>10. \A k \in 1 .. N : First(t, k) = t[k].first /\ Per(t, k) = t[k].per
  BY VideoRow DEF t, N, Per
<1>11. 1 \in 1 .. N
  BY <1>1
<1>12. \A k \in 1 .. N : k # 1 =>
          s[k] = s[k - 1] + (First(t, k) - First(t, k - 1)) * Per(t, k - 1)
  BY <1>7, <1>8, <1>9, <1>10 DEF Adds
<1> QED BY <1>8, <1>11, <1>12 DEF Adds, s, t, N

LEMMA NotFirst ==
  ASSUME NEW m \in Nat, NEW k \in 1 .. m, k # 1
  PROVE  k - 1 \in 1 .. m /\ (k - 1) + 1 = k /\ ~(k <= k - 1)
OBVIOUS

LEMMA NextMultiple ==
  ASSUME NEW m \in Int, NEW n \in Int
  PROVE  m * n = (m - 1) * n + n
OBVIOUS

LEMMA Divided ==
  ASSUME NEW m \in Nat, NEW n \in Nat \ {0}
  PROVE  m * n \in Nat /\ (m * n) \div n = m
OBVIOUS

(* In a run the sums grow by what its chunks have. *)
LEMMA SamplesInRun ==
  ASSUME NEW k \in 1 .. Len(VideoRuns)
  PROVE  \A m \in Nat : First(VideoRuns, k) + m <= First(VideoRuns, k + 1) =>
           SamplesBefore(VideoRuns, First(VideoRuns, k) + m) =
             SamplesBefore(VideoRuns, First(VideoRuns, k)) + m * Per(VideoRuns, k)
<1> DEFINE f == First(VideoRuns, k)
           g == First(VideoRuns, k + 1)
           b(c) == SamplesBefore(VideoRuns, c)
           n == Per(VideoRuns, k)
           T == {m \in Nat : f + m <= g /\ ~(b(f + m) = b(f) + m * n)}
<1>1. f \in Nat \ {0} /\ g \in Nat /\ g <= Behind /\ n \in Nat
  <2>1. f \in Nat \ {0} /\ g \in Nat /\ n \in Nat
    BY VideoRow DEF Per
  <2>2. g <= Behind
    <3>1. CASE k = Len(VideoRuns)
      BY <3>1, VideoRow, Tables
    <3>2. CASE k # Len(VideoRuns)
      <4>1. k + 1 \in 1 .. Len(VideoRuns)
        BY <3>2, NotLast, Tables
      <4>2. g \in 1 .. VIDEO
        BY <4>1, VideoRow
      <4> QED BY <4>2, Tables
    <3> QED BY <3>1, <3>2
  <2> QED BY <2>1, <2>2
<1>2. Behind \in Nat /\ b(f) \in Int
  <2>1. f \in 1 .. Behind
    BY <1>1, VideoRow, Tables
  <2> QED BY <2>1, SamplesNext, Tables
<1> HIDE DEF f, g, b, n
<1>3. ASSUME T # {} PROVE FALSE
  <2>1. T \in SUBSET Nat
    OBVIOUS
  <2>2. PICK m \in T : \A l \in T : m <= l
    <3> HIDE DEF T
    <3> QED BY <1>3, <2>1, LeastNat
  <2>3. m \in Nat /\ f + m <= g /\ ~(b(f + m) = b(f) + m * n)
    OBVIOUS
  <2>4. m # 0
    <3>1. m = 0 => f + m = f /\ b(f) + m * n = b(f)
      BY <1>1, <1>2
    <3> QED BY <2>3, <3>1
  <2>5. /\ m - 1 \in Nat /\ ~(m <= m - 1) /\ f + (m - 1) <= g
        /\ f + (m - 1) \in 1 .. Behind - 1 /\ f + (m - 1) \in Nat
        /\ (f + (m - 1)) + 1 = f + m
        /\ f <= f + (m - 1) /\ f + (m - 1) < g
    BY <1>1, <1>2, <2>3, <2>4
  <2>6. m - 1 \notin T
    <3> HIDE DEF T
    <3> QED BY <2>2, <2>5
  <2>7. b(f + (m - 1)) = b(f) + (m - 1) * n
    BY <2>5, <2>6
  <2>8. b(f + m) = b(f + (m - 1)) + PerOf(VideoRuns, f + (m - 1))
    BY <2>5, SamplesNext DEF b
  <2>9. PerOf(VideoRuns, f + (m - 1)) = n
    BY <2>5, PerOfRow DEF f, g, n
  <2>10. m * n = (m - 1) * n + n /\ (m - 1) * n \in Int
    BY <1>1, <2>3, NextMultiple
  <2> QED BY <1>1, <1>2, <2>3, <2>7, <2>8, <2>9, <2>10
<1>4. \A m \in Nat : f + m <= g => b(f + m) = b(f) + m * n
  <2> SUFFICES ASSUME NEW m \in Nat, f + m <= g
               PROVE  b(f + m) = b(f) + m * n
    OBVIOUS
  <2>1. m \notin T
    <3> HIDE DEF T
    <3> QED BY <1>3
  <2> QED BY <2>1
<1> QED BY <1>4 DEF f, g, b, n

(* What mjpegTouch adds up on its way to a row is right. *)
LEMMA WalkIsSamples ==
  \A k \in 1 .. Len(VideoRuns) :
    Walk(VideoRuns)[k] = SamplesBefore(VideoRuns, First(VideoRuns, k))
<1> DEFINE b(c) == SamplesBefore(VideoRuns, c)
           w == Walk(VideoRuns)
           f(k) == First(VideoRuns, k)
           n(k) == Per(VideoRuns, k)
           T == {k \in 1 .. Len(VideoRuns) : ~(w[k] = b(f(k)))}
<1> HIDE DEF b, w, f, n
<1>1. ASSUME T # {} PROVE FALSE
  <2>1. T \in SUBSET Nat
    BY Tables
  <2>2. PICK k \in T : \A l \in T : k <= l
    <3> HIDE DEF T
    <3> QED BY <1>1, <2>1, LeastNat
  <2>3. k \in 1 .. Len(VideoRuns) /\ ~(w[k] = b(f(k)))
    OBVIOUS
  <2>4. k # 1
    <3>1. f(1) = 1
      BY Tables, VideoRow DEF f
    <3> QED BY <2>3, <3>1, WalkSum, SamplesNext DEF w, b
  <2>5. k - 1 \in 1 .. Len(VideoRuns) /\ (k - 1) + 1 = k /\ ~(k <= k - 1)
    BY <2>3, <2>4, NotFirst, Tables
  <2>6. k - 1 \notin T
    <3> HIDE DEF T
    <3> QED BY <2>2, <2>5
  <2>7. w[k - 1] = b(f(k - 1))
    BY <2>5, <2>6
  <2>8. w[k] = w[k - 1] + (f(k) - f(k - 1)) * n(k - 1)
    BY <2>3, <2>4, WalkSum DEF w, f, n
  <2> DEFINE m == f(k) - f(k - 1)
  <2>9. m \in Nat /\ f(k - 1) + m = f(k) /\ f(k) \in Nat
    <3>1. f(k - 1) \in Nat /\ f(k) \in Nat /\ f(k - 1) < f((k - 1) + 1)
      BY <2>3, <2>5, VideoRow DEF f
    <3> QED BY <2>5, <3>1
  <2> HIDE DEF m
  <2>10. b(f(k - 1) + m) = b(f(k - 1)) + m * n(k - 1)
    <3>1. f(k - 1) + m <= f((k - 1) + 1)
      BY <2>5, <2>9
    <3> QED BY <2>5, <2>9, <3>1, SamplesInRun DEF b, f, n
  <2> QED BY <2>3, <2>7, <2>8, <2>9, <2>10 DEF m
<1>2. \A k \in 1 .. Len(VideoRuns) : w[k] = b(f(k))
  <2> SUFFICES ASSUME NEW k \in 1 .. Len(VideoRuns)
               PROVE  w[k] = b(f(k))
    OBVIOUS
  <2>1. k \notin T
    <3> HIDE DEF T
    <3> QED BY <1>1
  <2> QED BY <2>1
<1> QED BY <1>2 DEF b, w, f

LEMMA TotalIsSamples ==
  ASSUME NEW p \in 1 .. Behind - 1
  PROVE  TotalBefore(p) = SamplesBefore(VideoRuns, p)
<1> DEFINE k == RunOf(VideoRuns, p)
           m == p - First(VideoRuns, k)
<1>1. /\ k \in 1 .. Len(VideoRuns)
      /\ First(VideoRuns, k) <= p /\ p <= First(VideoRuns, k + 1)
  BY RunOfChunk, Tables
<1>2. TotalBefore(p) = Walk(VideoRuns)[k] + m * Per(VideoRuns, k)
  BY DEF TotalBefore
<1> HIDE DEF k
<1>3. First(VideoRuns, k) \in Nat /\ p \in Nat
  BY <1>1, VideoRow, Tables
<1>4. m \in Nat /\ First(VideoRuns, k) + m = p
  BY <1>1, <1>3
<1> HIDE DEF m
<1>5. SamplesBefore(VideoRuns, p) =
        SamplesBefore(VideoRuns, First(VideoRuns, k)) + m * Per(VideoRuns, k)
  BY <1>1, <1>4, SamplesInRun
<1> QED BY <1>1, <1>2, <1>5, WalkIsSamples

-----------------------------------------------------------------------------
(* The frames: where they are in each state of the main program *)

Fields == {"run", "samples", "j", "i", "stco", "stsz", "total", "count", "at"}
Before(c) == SamplesBefore(VideoRuns, c)

(* The next chunk c of v is in its row, and the row is left after the       *)
(* chunks that are left.                                                   *)
RowOf(v, c) ==
  /\ v.run \in 1 .. Len(VideoRuns) /\ v.samples \in Nat /\ v.j \in Nat
  /\ c \in 1 .. VIDEO /\ v.count = c - 1
  /\ First(VideoRuns, v.run) <= c
  /\ v.j <= v.samples /\ First(VideoRuns, v.run + 1) = c + (v.samples - v.j)

(* Before a chunk; in it, where d of the frame i is counted already; and    *)
(* where a seek to chunk p has put v.                                      *)
ToBegin(v) ==
  LET c == v.count + 1
  IN RowOf(v, c) /\ v.stco = c - 1 /\ v.stsz = Before(c) /\ v.total = Before(c)

Within(v, d) ==
  LET c == v.count + 1
  IN /\ RowOf(v, c) /\ v.j < v.samples /\ v.stco = c /\ v.at = c
     /\ v.i \in Nat /\ v.i < Per(VideoRuns, v.run)
     /\ v.stsz = Before(c) + Per(VideoRuns, v.run)
     /\ v.total = Before(c) + v.i + d

SetTo(v, p) ==
  /\ p \in 1 .. VIDEO /\ v.run \in 1 .. Len(VideoRuns)
  /\ First(VideoRuns, v.run) <= p /\ p <= First(VideoRuns, v.run + 1)
  /\ v.samples = (First(VideoRuns, v.run + 1) - p) * Per(VideoRuns, v.run)
  /\ v.stco = p - 1 /\ v.count = p + 1
  /\ v.stsz = Before(p) /\ v.total = Before(p)

VideoInv ==
  /\ main = "chunk" /\ ~slipped => ToBegin(video)
  /\ main = "decode" /\ ~slipped => Within(video, 0)
  /\ main \in {"poll", "pen", "reset"} /\ ~slipped => Within(video, 1)
  /\ main \in Pauses =>
       IF sought.video = 0 THEN Within(video, 1) ELSE SetTo(video, sought.video)

LEMMA VideoPer ==
  \A k \in 1 .. Len(VideoRuns) : Per(VideoRuns, k) \in Nat \ {0}
BY VideoRow DEF Per

LEMMA SetToPlace ==
  ASSUME NEW p \in 1 .. VIDEO, DOMAIN video = Fields
  PROVE  SetTo(VideoAt(p), p) /\ DOMAIN VideoAt(p) = Fields
<1> DEFINE k == RunOf(VideoRuns, p)
<1>1. p \in 1 .. Behind - 1
  BY Tables
<1>2. /\ k \in 1 .. Len(VideoRuns)
      /\ First(VideoRuns, k) <= p /\ p <= First(VideoRuns, k + 1)
  BY <1>1, RunOfChunk, Tables
<1>3. TotalBefore(p) = Before(p)
  BY <1>1, TotalIsSamples DEF Before
<1>4. VideoAt(p) =
        [video EXCEPT !.run = k,
           !.samples = (First(VideoRuns, k + 1) - p) * Per(VideoRuns, k),
           !.stco = p - 1, !.stsz = TotalBefore(p), !.total = TotalBefore(p),
           !.count = p + 1, !.at = p]
  BY DEF VideoAt
<1> HIDE DEF k
<1>5. /\ DOMAIN VideoAt(p) = Fields /\ VideoAt(p).run = k
      /\ VideoAt(p).samples = (First(VideoRuns, k + 1) - p) * Per(VideoRuns, k)
      /\ VideoAt(p).stco = p - 1 /\ VideoAt(p).count = p + 1
      /\ VideoAt(p).stsz = TotalBefore(p) /\ VideoAt(p).total = TotalBefore(p)
  BY <1>4 DEF Fields
<1> QED BY <1>2, <1>3, <1>5 DEF SetTo

LEMMA GoOnFrames ==
  ASSUME NEW v, NEW s, NEW p, SetTo(v, p), DOMAIN v = Fields, GoOn(v, s)
  PROVE  ToBegin(video')
<1> DEFINE k == v.run
           m == First(VideoRuns, k + 1) - p
<1>1. /\ p \in 1 .. VIDEO /\ k \in 1 .. Len(VideoRuns)
      /\ First(VideoRuns, k) <= p /\ p <= First(VideoRuns, k + 1)
      /\ v.samples = m * Per(VideoRuns, k)
      /\ v.stco = p - 1 /\ v.count = p + 1
      /\ v.stsz = Before(p) /\ v.total = Before(p)
  BY DEF SetTo
<1>2. /\ VIDEO \in Nat /\ First(VideoRuns, k) \in Nat
      /\ First(VideoRuns, k + 1) \in Nat /\ Per(VideoRuns, k) \in Nat \ {0}
  BY <1>1, Tables, VideoRow, VideoPer
<1>3. m \in Nat /\ First(VideoRuns, k + 1) = p + (m - 0) /\ 0 <= m
  BY <1>1, <1>2
<1>4. video' = [v EXCEPT !.samples = v.samples \div Per(VideoRuns, k), !.j = 0,
                         !.count = v.count - 2]
  BY DEF GoOn
<1> HIDE DEF m
<1>5. v.samples \div Per(VideoRuns, k) = m
  BY <1>1, <1>2, <1>3, Divided
<1>6. /\ video'.run = k /\ video'.samples = m /\ video'.j = 0
      /\ video'.count = v.count - 2 /\ video'.stco = v.stco
      /\ video'.stsz = v.stsz /\ video'.total = v.total
  BY <1>4, <1>5 DEF Fields
<1> HIDE DEF k
<1>7. video'.count = p - 1 /\ video'.count + 1 = p
  BY <1>1, <1>2, <1>6
<1> QED BY <1>1, <1>2, <1>3, <1>6, <1>7 DEF ToBegin, RowOf

LEMMA StartChunkPlace ==
  ASSUME DOMAIN video = Fields, ToBegin(video), StartChunk
  PROVE  Within(video', 0)
<1> DEFINE c == video.count + 1
           k == video.run
<1>1. /\ RowOf(video, c) /\ video.stco = c - 1
      /\ video.stsz = Before(c) /\ video.total = Before(c)
      /\ video.j < video.samples
  BY DEF ToBegin, StartChunk
<1>2. video' = [video EXCEPT !.stco = video.stco + 1, !.at = video.stco + 1,
                  !.i = 0, !.stsz = video.stsz + Per(VideoRuns, k)]
  BY DEF StartChunk
<1>3. /\ video'.run = k /\ video'.samples = video.samples /\ video'.j = video.j
      /\ video'.count = video.count /\ video'.i = 0
      /\ video'.stco = video.stco + 1 /\ video'.at = video.stco + 1
      /\ video'.stsz = video.stsz + Per(VideoRuns, k)
      /\ video'.total = video.total
  BY <1>2 DEF Fields
<1>4. /\ k \in 1 .. Len(VideoRuns) /\ c \in 1 .. VIDEO /\ VIDEO \in Nat
      /\ Per(VideoRuns, k) \in Nat \ {0}
  BY <1>1, VideoPer, Tables DEF RowOf
<1>5. Before(c) \in Int
  <2>1. c \in 1 .. Behind
    BY <1>4, Tables
  <2> QED BY <2>1, SamplesNext DEF Before
<1>6. RowOf(video', c)
  BY <1>1, <1>3 DEF RowOf
<1>7. video'.count + 1 = c
  BY <1>3
<1> HIDE DEF c, k
<1>8. /\ video'.stco = c /\ video'.at = c /\ 0 < Per(VideoRuns, k)
      /\ video'.total = Before(c) + video'.i + 0
  BY <1>1, <1>3, <1>4, <1>5
<1>9. /\ video'.j < video'.samples /\ video'.i \in Nat
      /\ video'.i < Per(VideoRuns, video'.run)
      /\ video'.stsz = Before(c) + Per(VideoRuns, video'.run)
  BY <1>1, <1>3, <1>8
<1> QED BY <1>6, <1>7, <1>8, <1>9 DEF Within

LEMMA NextRunPlace ==
  ASSUME DOMAIN video = Fields, ToBegin(video), NextRun
  PROVE  ToBegin(video')
<1> DEFINE c == video.count + 1
           k == video.run
           n == First(VideoRuns, (k + 1) + 1) - First(VideoRuns, k + 1)
<1>1. /\ RowOf(video, c) /\ video.stco = c - 1
      /\ video.stsz = Before(c) /\ video.total = Before(c)
      /\ video.j >= video.samples
  BY DEF ToBegin, NextRun
<1>2. video' = [video EXCEPT !.run = k + 1, !.j = 0, !.samples = n]
  BY DEF NextRun
<1> HIDE DEF n
<1>3. /\ video'.run = k + 1 /\ video'.samples = n /\ video'.j = 0
      /\ video'.count = video.count /\ video'.stco = video.stco
      /\ video'.stsz = video.stsz /\ video'.total = video.total
  BY <1>2 DEF Fields
<1>4. /\ k \in 1 .. Len(VideoRuns) /\ c \in 1 .. VIDEO /\ VIDEO \in Nat
      /\ First(VideoRuns, k + 1) = c /\ video.count = c - 1
  <2>1. /\ k \in 1 .. Len(VideoRuns) /\ c \in 1 .. VIDEO /\ VIDEO \in Nat
        /\ video.count = c - 1
    BY <1>1, Tables DEF RowOf
  <2>2. /\ First(VideoRuns, k + 1) = c + (video.samples - video.j)
        /\ video.j \in Nat /\ video.samples \in Nat /\ video.j <= video.samples
    BY <1>1 DEF RowOf
  <2>3. video.samples - video.j = 0
    BY <1>1, <2>2
  <2> HIDE DEF c, k
  <2>4. c + 0 = c
    BY <2>1
  <2> QED BY <2>1, <2>2, <2>3, <2>4
<1>5. k + 1 \in 1 .. Len(VideoRuns)
  <2>1. k # Len(VideoRuns)
    BY <1>4, VideoRow, Tables
  <2> QED BY <1>4, <2>1, NotLast, Tables
<1>6. /\ n \in Nat /\ First(VideoRuns, (k + 1) + 1) = c + (n - 0) /\ 0 <= n
  <2>1. /\ First(VideoRuns, (k + 1) + 1) \in Nat
        /\ First(VideoRuns, k + 1) < First(VideoRuns, (k + 1) + 1)
    BY <1>5, VideoRow
  <2> QED BY <1>4, <2>1 DEF n
<1>7. First(VideoRuns, k + 1) <= c
  BY <1>4
<1>8. video'.count + 1 = c
  BY <1>3
<1> HIDE DEF c, k
<1>9. RowOf(video', c)
  BY <1>3, <1>4, <1>5, <1>6, <1>7 DEF RowOf
<1> QED BY <1>1, <1>3, <1>8, <1>9 DEF ToBegin

LEMMA DecodePlace ==
  ASSUME DOMAIN video = Fields, Within(video, 0), DecodeFrame
  PROVE  Within(video', 1)
<1> DEFINE c == video.count + 1
<1>1. /\ video' = [video EXCEPT !.total = video.total + 1]
  BY DEF DecodeFrame
<1>2. /\ video'.run = video.run /\ video'.samples = video.samples
      /\ video'.j = video.j /\ video'.i = video.i /\ video'.stco = video.stco
      /\ video'.at = video.at /\ video'.count = video.count
      /\ video'.stsz = video.stsz /\ video'.total = video.total + 1
  BY <1>1 DEF Fields
<1>3. /\ RowOf(video, c) /\ video.total = Before(c) + video.i + 0 /\ video.i \in Nat
  BY DEF Within
<1>4. Before(c) \in Int
  <2>1. c \in 1 .. Behind
    BY <1>3, Tables DEF RowOf
  <2> QED BY <2>1, SamplesNext DEF Before
<1>5. RowOf(video', c) /\ video'.count + 1 = c
  BY <1>2, <1>3 DEF RowOf
<1>6. video'.total = Before(c) + video'.i + 1
  BY <1>2, <1>3, <1>4
<1> QED BY <1>2, <1>5, <1>6 DEF Within

LEMMA NextFramePlace ==
  ASSUME DOMAIN video = Fields, Within(video, 1), NextFrame
  PROVE  /\ main' = "decode" => Within(video', 0)
         /\ main' = "chunk" => ToBegin(video')
         /\ main' \in {"decode", "chunk", "end"}
<1> DEFINE c == video.count + 1
           k == video.run
<1>1. /\ RowOf(video, c) /\ video.j < video.samples /\ video.stco = c
      /\ video.at = c /\ video.i \in Nat /\ video.i < Per(VideoRuns, k)
      /\ video.stsz = Before(c) + Per(VideoRuns, k)
      /\ video.total = Before(c) + video.i + 1
  BY DEF Within
<1>2. /\ k \in 1 .. Len(VideoRuns) /\ c \in 1 .. VIDEO /\ VIDEO \in Nat
      /\ Per(VideoRuns, k) \in Nat /\ VIDEO < Behind /\ Behind \in Nat
      /\ video.count = c - 1 /\ video.j \in Nat /\ video.samples \in Nat
      /\ First(VideoRuns, k) <= c
      /\ First(VideoRuns, k + 1) = c + (video.samples - video.j)
      /\ First(VideoRuns, k) \in Nat
  BY <1>1, VideoPer, VideoRow, Tables DEF RowOf
<1>3. /\ Before(c) \in Int /\ Before(c + 1) = Before(c) + Per(VideoRuns, k)
  <2>1. c \in 1 .. Behind /\ c \in 1 .. Behind - 1 /\ c \in Nat
    BY <1>2
  <2>2. c < First(VideoRuns, k + 1)
    BY <1>1, <1>2
  <2>3. PerOf(VideoRuns, c) = Per(VideoRuns, k)
    BY <1>2, <2>1, <2>2, PerOfRow
  <2> HIDE DEF c, k
  <2> QED BY <2>1, <2>3, SamplesNext DEF Before
<1>4. CASE ~waitExitKey
  BY <1>4 DEF NextFrame
<1>5. CASE waitExitKey /\ video.i + 1 < Per(VideoRuns, k)
  <2>1. video' = [video EXCEPT !.i = video.i + 1] /\ main' = "decode"
    BY <1>5 DEF NextFrame
  <2>2. /\ video'.run = video.run /\ video'.samples = video.samples
        /\ video'.j = video.j /\ video'.i = video.i + 1 /\ video'.stco = video.stco
        /\ video'.at = video.at /\ video'.count = video.count
        /\ video'.stsz = video.stsz /\ video'.total = video.total
    BY <2>1 DEF Fields
  <2>3. RowOf(video', c) /\ video'.count + 1 = c
    BY <1>1, <2>2 DEF RowOf
  <2>4. video'.total = Before(c) + video'.i + 0 /\ video'.i \in Nat
    BY <1>1, <1>3, <2>2
  <2>5. Within(video', 0)
    BY <1>1, <1>5, <2>2, <2>3, <2>4 DEF Within
  <2> QED BY <2>1, <2>5
<1>6. CASE waitExitKey /\ ~(video.i + 1 < Per(VideoRuns, k))
  <2>1. /\ video' = [video EXCEPT !.j = video.j + 1, !.count = video.count + 1]
        /\ main' = IF video.count + 1 >= VIDEO THEN "end" ELSE "chunk"
    BY <1>6 DEF NextFrame
  <2>2. /\ video'.run = k /\ video'.samples = video.samples
        /\ video'.j = video.j + 1 /\ video'.stco = video.stco
        /\ video'.count = c
        /\ video'.stsz = video.stsz /\ video'.total = video.total
    BY <2>1 DEF Fields
  <2>3. CASE c >= VIDEO
    BY <2>1, <2>3
  <2>4. CASE ~(c >= VIDEO)
    <3> HIDE DEF c, k
    <3>1. /\ c + 1 \in 1 .. VIDEO /\ video'.count = (c + 1) - 1
          /\ First(VideoRuns, k) <= c + 1
          /\ video.j + 1 \in Nat /\ video.j + 1 <= video.samples
          /\ First(VideoRuns, k + 1) = (c + 1) + (video.samples - (video.j + 1))
      <4>1. /\ c \in 1 .. VIDEO /\ VIDEO \in Nat /\ ~(c >= VIDEO)
            /\ video.j \in Nat /\ video.samples \in Nat /\ video.j < video.samples
            /\ First(VideoRuns, k) <= c /\ First(VideoRuns, k) \in Nat
        BY <1>1, <1>2, <2>4
      <4>2. /\ c + 1 \in 1 .. VIDEO /\ (c + 1) - 1 = c
            /\ First(VideoRuns, k) <= c + 1
        BY <4>1
      <4>3. /\ video.j + 1 \in Nat /\ video.j + 1 <= video.samples
            /\ c + (video.samples - video.j) =
                 (c + 1) + (video.samples - (video.j + 1))
        BY <4>1
      <4> QED BY <1>2, <2>2, <4>2, <4>3
    <3>2. RowOf(video', c + 1)
      BY <1>2, <2>2, <3>1 DEF RowOf
    <3>3. video.i + 1 = Per(VideoRuns, k)
      BY <1>1, <1>2, <1>6
    <3>4. /\ video'.stco = (c + 1) - 1 /\ video'.stsz = Before(c + 1)
          /\ video'.total = Before(c + 1)
      BY <1>1, <1>2, <1>3, <2>2, <3>3
    <3>5. ToBegin(video')
      BY <2>2, <3>2, <3>4 DEF ToBegin
    <3> QED BY <2>1, <2>4, <3>5 DEF c
  <2> QED BY <2>3, <2>4
<1> QED BY <1>4, <1>5, <1>6

LEMMA VideoSame ==
  ASSUME VideoInv, UNCHANGED <<video, sought, slipped>>,
         \/ UNCHANGED main
         \/ main \in {"poll", "pen", "reset"} /\ main' \in {"poll", "pen", "reset"}
         \/ main \in Pauses /\ main' \in Pauses
         \/ main' \in Stops
  PROVE  VideoInv'
<1>1. CASE UNCHANGED main
  BY <1>1 DEF VideoInv
<1>2. CASE main \in {"poll", "pen", "reset"} /\ main' \in {"poll", "pen", "reset"}
  <2>1. main' \notin Pauses /\ main' # "chunk" /\ main' # "decode"
    BY <1>2 DEF Pauses
  <2> QED BY <1>2, <2>1 DEF VideoInv
<1>3. CASE main \in Pauses /\ main' \in Pauses
  <2>1. main' \notin {"chunk", "decode", "poll", "pen", "reset"}
    BY <1>3 DEF Pauses
  <2> QED BY <1>3, <2>1 DEF VideoInv
<1>4. CASE main' \in Stops
  <2>1. main' \notin Pauses /\ main' \notin {"chunk", "decode", "poll", "pen", "reset"}
    BY <1>4 DEF Pauses, Stops
  <2> QED BY <2>1 DEF VideoInv
<1> QED BY <1>1, <1>2, <1>3, <1>4

LEMMA VideoStep ==
  ASSUME IInv, VideoInv, [Next]_vars
  PROVE  VideoInv'
<1>1. DOMAIN video = Fields
  BY DEF IInv, SoughtInv, Fields
<1>2. CASE StartChunk
  <2>1. main = "chunk" /\ main' = "decode" /\ UNCHANGED slipped
    BY <1>2 DEF StartChunk
  <2>2. ~slipped' => Within(video', 0)
    BY <1>1, <1>2, <2>1, StartChunkPlace DEF VideoInv
  <2> QED BY <2>1, <2>2 DEF VideoInv, Pauses
<1>3. CASE NextRun
  <2>1. main = "chunk" /\ main' = "chunk" /\ UNCHANGED slipped
    BY <1>3 DEF NextRun
  <2>2. ~slipped' => ToBegin(video')
    BY <1>1, <1>3, <2>1, NextRunPlace DEF VideoInv
  <2> QED BY <2>1, <2>2 DEF VideoInv, Pauses
<1>4. CASE DecodeFrame
  <2>1. main = "decode" /\ main' = "poll" /\ UNCHANGED slipped
    BY <1>4 DEF DecodeFrame
  <2>2. ~slipped' => Within(video', 1)
    BY <1>1, <1>4, <2>1, DecodePlace DEF VideoInv
  <2> QED BY <2>1, <2>2 DEF VideoInv, Pauses
<1>5. CASE NextFrame
  <2>1. main = "poll" /\ UNCHANGED slipped /\ main' \in {"poll", "decode", "chunk", "end"}
    BY <1>5 DEF NextFrame
  <2>2. ~slipped' => /\ main' = "decode" => Within(video', 0)
                     /\ main' = "chunk" => ToBegin(video')
                     /\ main' \in {"decode", "chunk", "end"}
    BY <1>1, <1>5, <2>1, NextFramePlace DEF VideoInv
  <2> QED BY <2>1, <2>2 DEF VideoInv, Pauses
<1>6. CASE UnmatchedAtEnd
  <2>1. main' \in Stops /\ UNCHANGED <<video, sought, slipped>>
    BY <1>6 DEF UnmatchedAtEnd, Stops
  <2> QED BY <2>1, VideoSame
<1>7. CASE SeekSound \/ ResetReads \/ SoundGoesOn \/ PenIsUp
  <2>1. main \in {"poll", "pen", "reset"} /\ main' \in {"poll", "pen", "reset"}
    BY <1>7 DEF SeekSound, ResetReads, SoundGoesOn, PenIsUp
  <2>2. UNCHANGED <<video, slipped>> /\ sought'.video = sought.video
    BY <1>7 DEF SeekSound, ResetReads, SoundGoesOn, PenIsUp, IInv, SoughtInv
  <2>3. main' \notin Pauses
    BY <2>1 DEF Pauses
  <2> QED BY <2>1, <2>2, <2>3 DEF VideoInv
<1>8. CASE Resynch
  <2> DEFINE p == IF sound.count > video.count THEN video.count ELSE sound.count
  <2>1. ~NearEnd
    BY <1>8 DEF Resynch
  <2>2. p \in 0 .. VIDEO
    <3>1. sound.count \in Int /\ video.count \in Int
      BY DEF IInv, SoughtInv, RowInv
    <3> QED BY <2>1, <3>1, Tables DEF NearEnd, AtLeast
  <2>3. CASE p = 0
    <3>1. main' = "lost"
      BY <1>8, <2>3 DEF Resynch
    <3> QED BY <3>1 DEF VideoInv, Pauses
  <2>4. CASE p # 0
    <3>1. GoOn(VideoAt(p), SoundAt(p))
      BY <1>8, <2>4 DEF Resynch
    <3>2. p \in 1 .. VIDEO
      BY <2>2, <2>4, Tables
    <3> HIDE DEF p
    <3>3. SetTo(VideoAt(p), p) /\ DOMAIN VideoAt(p) = Fields
      BY <1>1, <3>2, SetToPlace
    <3>4. ToBegin(video')
      BY <3>1, <3>3, GoOnFrames
    <3>5. main' = "chunk"
      BY <3>1 DEF GoOn
    <3> QED BY <3>4, <3>5 DEF VideoInv, Pauses
  <2> QED BY <2>3, <2>4
<1>9. CASE Pause
  <2>1. /\ main = "pen" /\ main' = "paused" /\ ~slipped /\ sought'.video = 0
        /\ UNCHANGED video
    BY <1>9 DEF Pause
  <2> QED BY <2>1 DEF VideoInv
<1>10. CASE TouchIcon \/ SeePointed \/ TakePointed
  <2>1. main \in Pauses /\ main' \in Pauses /\ UNCHANGED <<video, sought, slipped>>
    BY <1>10 DEF TouchIcon, SeePointed, TakePointed, Pauses
  <2> QED BY <2>1, VideoSame
<1>11. CASE TouchSeek
  <2>1. main \in Pauses
    BY <1>11 DEF TouchSeek
  <2>2. PICK p \in Pointed :
          IF p = 0 THEN main' = "lost"
          ELSE video' = VideoAt(p) /\ sought' = [video |-> p, sound |-> p]
               /\ UNCHANGED main
    BY <1>11 DEF TouchSeek
  <2>3. CASE p = 0
    BY <2>2, <2>3 DEF VideoInv, Pauses
  <2>4. CASE p # 0
    <3>1. p \in 1 .. VIDEO
      <4>1. p \in 0 .. VIDEO - 1 /\ VIDEO \in Nat
        BY Tables
      <4> QED BY <2>4, <4>1
    <3>2. SetTo(video', p) /\ sought'.video = p /\ main' \in Pauses
      BY <1>1, <2>1, <2>2, <2>4, <3>1, SetToPlace
    <3>3. main' \notin {"chunk", "decode", "poll", "pen", "reset"}
      BY <3>2 DEF Pauses
    <3> QED BY <2>4, <3>2, <3>3 DEF VideoInv
  <2> QED BY <2>3, <2>4
<1>12. CASE Leave
  <2>1. main = "paused" /\ main \in Pauses
    BY <1>12 DEF Leave, Pauses
  <2>2. CASE touch.id = "stop"
    <3>1. main' = "end"
      BY <1>12, <2>2 DEF Leave
    <3> QED BY <3>1 DEF VideoInv, Pauses
  <2>3. CASE touch.id # "stop" /\ touch.ret = 1
    <3>1. GoOn(video, sound)
      BY <1>12, <2>3 DEF Leave
    <3>2. SetTo(video, sought.video)
      BY <2>1, <2>3 DEF IInv, TouchInv, VideoInv
    <3>3. ToBegin(video')
      BY <1>1, <3>1, <3>2, GoOnFrames
    <3>4. main' = "chunk"
      BY <3>1 DEF GoOn
    <3> QED BY <3>3, <3>4 DEF VideoInv, Pauses
  <2>4. CASE touch.id # "stop" /\ touch.ret # 1
    <3>1. /\ main' = "poll" /\ slipped' = (slipped \/ sought.video # 0)
          /\ UNCHANGED video
      BY <1>12, <2>4 DEF Leave
    <3>2. ~slipped' => Within(video', 1)
      BY <2>1, <3>1 DEF VideoInv
    <3> QED BY <3>1, <3>2 DEF VideoInv, Pauses
  <2> QED BY <2>2, <2>3, <2>4
<1>13. CASE DAC_Buffer_Process \/ ExitKey \/ Terminated \/ UNCHANGED vars
  <2>1. UNCHANGED <<main, video, sought, slipped>>
    BY <1>13 DEF DAC_Buffer_Process, ExitKey, Terminated, vars
  <2> QED BY <2>1, VideoSame
<1> QED BY <1>2, <1>3, <1>4, <1>5, <1>6, <1>7, <1>8, <1>9, <1>10, <1>11, <1>12,
           <1>13 DEF Next, Program, User

LEMMA VideoInit == Init => VideoInv
<1> SUFFICES ASSUME Init PROVE VideoInv
  OBVIOUS
<1>1. /\ main = "chunk"
      /\ video = [run |-> 1, samples |-> First(VideoRuns, 2) - 1, j |-> 0,
                  i |-> 0, stco |-> 0, stsz |-> 0, total |-> 0, count |-> 0,
                  at |-> 0]
  BY DEF Init
<1>2. /\ 1 \in 1 .. Len(VideoRuns) /\ First(VideoRuns, 1) = 1
      /\ First(VideoRuns, 1 + 1) \in Nat
      /\ First(VideoRuns, 1) < First(VideoRuns, 1 + 1)
  BY VideoRow, Tables
<1>3. Before(1) = 0
  BY SamplesNext DEF Before
<1>4. 1 \in 1 .. VIDEO
  BY Tables
<1>5. /\ video.run = 1 /\ video.samples = First(VideoRuns, 1 + 1) - 1
      /\ video.j = 0 /\ video.count = 0 /\ video.stco = 0 /\ video.stsz = 0
      /\ video.total = 0
  BY <1>1
<1>6. RowOf(video, 1)
  BY <1>2, <1>4, <1>5 DEF RowOf
<1>7. ToBegin(video)
  BY <1>3, <1>5, <1>6 DEF ToBegin
<1> QED BY <1>1, <1>7 DEF VideoInv, Pauses

(* Every frame is decoded from its own chunk with its own size, through     *)
(* rows, seeks and corrections (PlayMotionJpeg, mjpegTouch).               *)
THEOREM VideoIsInPlace == Spec => []VideoInPlace
<1>1. IInv /\ VideoInv /\ [Next]_vars => VideoInv'
  BY VideoStep
<1>2. VideoInv => VideoInPlace
  <2> SUFFICES ASSUME main = "decode", ~slipped, Within(video, 0)
               PROVE  VideoInPlace
    BY DEF VideoInv, VideoInPlace
  <2> DEFINE c == video.count + 1
             k == video.run
  <2>1. /\ RowOf(video, c) /\ video.j < video.samples /\ video.at = c
        /\ video.i \in Nat /\ video.i < Per(VideoRuns, k)
        /\ video.stsz = Before(c) + Per(VideoRuns, k)
        /\ video.total = Before(c) + video.i + 0
    BY DEF Within
  <2>2. /\ k \in 1 .. Len(VideoRuns) /\ c \in 1 .. VIDEO /\ VIDEO \in Nat
        /\ video.j \in Nat /\ video.samples \in Nat
        /\ First(VideoRuns, k) <= c
        /\ First(VideoRuns, k + 1) = c + (video.samples - video.j)
    BY <2>1, Tables DEF RowOf
  <2>3. c \in Nat /\ c < First(VideoRuns, k + 1) /\ c \in 1 .. Behind
    BY <2>1, <2>2, Tables
  <2> HIDE DEF c, k
  <2>4. PerOf(VideoRuns, c) = Per(VideoRuns, k)
    BY <2>2, <2>3, PerOfRow
  <2>5. Before(c) \in Int
    BY <2>3, SamplesNext DEF Before
  <2>6. video.total = Before(c) + video.i
    BY <2>1, <2>5
  <2> QED BY <2>1, <2>4, <2>6 DEF VideoInPlace, Before, c
<1> QED BY <1>1, <1>2, VideoInit, InductiveInvariant, PTL DEF Spec
=============================================================================
