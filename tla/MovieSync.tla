----------------------------- MODULE MovieSync ------------------------------
(***************************************************************************)
(* PlayMotionJpeg of mjpeg.c: the frames of a movie, decoded by the main    *)
(* program, and its sound, read by the handler of DMA1 stream 1 half a     *)
(* buffer at a time.  Both are stored in chunks.  Two counters, of video   *)
(* and of sound chunks, keep them together: when they are more than one    *)
(* apart, both go back to the same chunk.  In the pause the pen's handler, *)
(* mjpegTouch, moves them to the chunk the user points at.                 *)
(*                                                                         *)
(* Sound is counted in halves of the buffer.  A table of chunks (stsc) has *)
(* a row for each run of chunks of the same size.  Time is not modelled:   *)
(* the timer of the frames and the handler of the sound come at any time.  *)
(* A chunk 0 is not in the tables; what the program makes of the bytes     *)
(* around them is not modelled (main is "lost").                           *)
(***************************************************************************)
EXTENDS Integers, Sequences

CONSTANTS
  VideoRuns, SoundRuns,   (* rows [first, per]: the first chunk of a run,     *)
                          (* the frames or halves of each of its chunks      *)
  VIDEO, SOUND,           (* video_stco.numEntry, sound_stco.numEntry        *)
  Behind,                 (* what is read behind the last row                *)
  Pointed,                (* the chunks a position of the pen stands for     *)
  LATE                    (* bound: halves read when the chunk is over       *)

IsTable(t, chunks) ==
  /\ t # <<>> /\ t[1].first = 1
  /\ \A k \in DOMAIN t : t[k].first \in 1 .. chunks /\ t[k].per \in Nat \ {0}
  /\ \A k \in 1 .. Len(t) - 1 : t[k].first < t[k + 1].first

ASSUME MovieAssumption ==
  /\ {VIDEO, SOUND, Behind, LATE} \subseteq Nat
  /\ 2 < VIDEO /\ 2 < SOUND /\ VIDEO < Behind /\ SOUND < Behind
  /\ VideoRuns \in Seq([first : Nat, per : Nat]) /\ IsTable(VideoRuns, VIDEO)
  /\ SoundRuns \in Seq([first : Nat, per : Nat]) /\ IsTable(SoundRuns, SOUND)
  /\ Pointed \subseteq 0 .. VIDEO - 1

VARIABLES
  main,            (* where PlayMotionJpeg is                                *)
  video,           (* the row of stsc, the chunks left of it (samples, j),   *)
                   (* the frame (i), entries of stco and stsz gone by,       *)
                   (* totalSamples, videoStcoCount, fp_frame's chunk         *)
  sound,           (* the same of the sound, stco_reads, soundStcoCount, the *)
                   (* chunk fp_sound is in and how far                       *)
  sound_reads,     (* dac_intr.sound_reads                                   *)
  soundEndFlag,
  dma,             (* stream 1: "off", "masked", or "on" with its interrupt   *)
  waitExitKey,
  touch,           (* mjpeg_touch.id and done, ret of mjpegPause             *)
  (* Observers: *)
  sought,          (* where frames and sound were sent, until they are there *)
  slipped,         (* mjpegPause returned 0 after the pen had moved them     *)
  late             (* half a buffer was read when the chunk was over         *)

dac == <<sound, sound_reads, soundEndFlag, dma>>
vars == <<main, video, dac, waitExitKey, touch, sought, slipped, late>>

(* "chunk": at the head of the loop over chunks; "decode": a frame is to be *)
(* decoded; "poll", "reset", "pen": in the loop that waits for the frame's *)
(* time to be over; "paused", "took": in the loop of mjpegPause.           *)
Polls == {"poll", "reset", "pen"}
Pauses == {"paused", "took"}
Stops == {"end", "lost"}

First(t, k) == IF k <= Len(t) THEN t[k].first ELSE Behind
Per(t, k) == t[k].per

(* A row's samples taken for chunks are more chunks than a movie has. *)
Many == Behind + 1

Masked == IF dma = "off" THEN dma ELSE "masked"

Untouched == [id |-> "none", done |-> FALSE, ret |-> 0]

Init ==
  /\ main = "chunk"
  /\ video = [run |-> 1, samples |-> First(VideoRuns, 2) - 1, j |-> 0, i |-> 0,
              stco |-> 0, stsz |-> 0, total |-> 0, count |-> 0, at |-> 0]
  /\ sound = [run |-> 1, samples |-> Many, reads |-> 1, stco |-> 1,
              count |-> 0, at |-> 1, off |-> 0]
  /\ sound_reads = 0 /\ soundEndFlag = FALSE /\ dma = "on"
  /\ waitExitKey = TRUE
  /\ touch = Untouched
  /\ sought = [video |-> 0, sound |-> 0] /\ slipped = FALSE /\ late = FALSE

-----------------------------------------------------------------------------
(* mjpegTouch walks the rows to the chunk pointed at; the samples before it *)
(* add up on the way.                                                      *)
Walk(t) ==
  LET total[k \in 1 .. Len(t)] ==
        IF k = 1 THEN 0
        ELSE total[k - 1] + (t[k].first - t[k - 1].first) * t[k - 1].per
  IN total

RunOf(t, p) == CHOOSE k \in 1 .. Len(t) :
  /\ First(t, k) <= p /\ p <= First(t, k + 1)
  /\ \A l \in 1 .. k - 1 : First(t, l + 1) < p

(* Mutant: the chunks of the run before p are forgotten. *)
TotalToRun(p) == Walk(VideoRuns)[RunOf(VideoRuns, p)]

TotalBefore(p) ==
  LET k == RunOf(VideoRuns, p)
  IN Walk(VideoRuns)[k] + (p - First(VideoRuns, k)) * Per(VideoRuns, k)

VideoAt(p) ==
  LET k == RunOf(VideoRuns, p)
  IN [video EXCEPT !.run = k,
        !.samples = (First(VideoRuns, k + 1) - p) * Per(VideoRuns, k),
        !.stco = p - 1, !.stsz = TotalBefore(p), !.total = TotalBefore(p),
        !.count = p + 1, !.at = p]

(* Mutant: the sound goes on with the chunk after. *)
SoundPast(p) ==
  LET k == RunOf(SoundRuns, p)
  IN [sound EXCEPT !.run = k,
        !.samples = IF First(SoundRuns, k + 1) = p THEN 0 ELSE Many,
        !.stco = p, !.count = p]

SoundAt(p) ==
  LET k == RunOf(SoundRuns, p)
  IN [sound EXCEPT !.run = k,
        !.samples = IF First(SoundRuns, k + 1) = p THEN 0 ELSE Many,
        !.stco = p - 1, !.count = p]

(* Mutant: the frames stay one chunk ahead. *)
GoOnAhead(v, s) ==
  /\ video' = [v EXCEPT !.samples = @ \div Per(VideoRuns, v.run), !.j = 0,
                        !.count = @ - 2, !.stco = @ + 1]
  /\ sound' = [s EXCEPT !.count = @ - 2]
  /\ sound_reads' = Per(SoundRuns, s.run)
  /\ main' = "chunk" /\ slipped' = FALSE

(* After a seek the loop over chunks begins again.  The sound is made to    *)
(* look as if its chunk were over, and both counters are put back by two.  *)
GoOn(v, s) ==
  /\ video' = [v EXCEPT !.samples = @ \div Per(VideoRuns, v.run), !.j = 0,
                        !.count = @ - 2]
  /\ sound' = [s EXCEPT !.count = @ - 2]
  /\ sound_reads' = Per(SoundRuns, s.run)
  /\ main' = "chunk" /\ slipped' = FALSE

-----------------------------------------------------------------------------
(* The frames *)

StartChunk ==
  /\ main = "chunk" /\ video.j < video.samples
  /\ video' = [video EXCEPT !.stco = @ + 1, !.at = video.stco + 1, !.i = 0,
                            !.stsz = @ + Per(VideoRuns, video.run)]
  /\ main' = "decode"
  /\ UNCHANGED <<dac, waitExitKey, touch, sought, slipped, late>>

NextRun ==
  /\ main = "chunk" /\ video.j >= video.samples
  /\ LET k == video.run + 1
     IN video' = [video EXCEPT !.run = k, !.j = 0,
                    !.samples = First(VideoRuns, k + 1) - First(VideoRuns, k)]
  /\ UNCHANGED <<main, dac, waitExitKey, touch, sought, slipped, late>>

DecodeFrame ==
  /\ main = "decode"
  /\ video' = [video EXCEPT !.total = @ + 1]
  /\ main' = "poll"
  /\ sought' = [sought EXCEPT !.video = 0]
  /\ dma' = IF dma = "off" THEN dma ELSE "on"
  /\ UNCHANGED <<sound, sound_reads, soundEndFlag, waitExitKey, touch, slipped, late>>

(* Mutant: after the last frame the program waits for one more. *)
NextFrameOn ==
  /\ main = "poll"
  /\ IF ~waitExitKey THEN main' = "end" /\ UNCHANGED video
     ELSE IF video.i + 1 < Per(VideoRuns, video.run)
     THEN video' = [video EXCEPT !.i = @ + 1] /\ main' = "decode"
     ELSE IF video.count + 1 >= VIDEO THEN UNCHANGED <<video, main>>
     ELSE video' = [video EXCEPT !.j = @ + 1, !.count = @ + 1] /\ main' = "chunk"
  /\ dma' = Masked
  /\ UNCHANGED <<sound, sound_reads, soundEndFlag, waitExitKey, touch, sought, slipped, late>>

(* The frame's time is over, perhaps since before the waiting began. *)
NextFrame ==
  /\ main = "poll"
  /\ IF ~waitExitKey THEN main' = "end" /\ UNCHANGED video
     ELSE IF video.i + 1 < Per(VideoRuns, video.run)
     THEN video' = [video EXCEPT !.i = @ + 1] /\ main' = "decode"
     ELSE /\ video' = [video EXCEPT !.j = @ + 1, !.count = @ + 1]
          /\ main' = IF video.count + 1 >= VIDEO THEN "end" ELSE "chunk"
  /\ dma' = Masked
  /\ UNCHANGED <<sound, sound_reads, soundEndFlag, waitExitKey, touch, sought, slipped, late>>

-----------------------------------------------------------------------------
(* The sound *)

ChunkOver == sound_reads >= Per(SoundRuns, sound.run)

(* The handler reads half a buffer more.  It is kept out while a frame is   *)
(* fetched and decoded, but not at the beginning and after the pause.      *)
DAC_Buffer_Process ==
  /\ dma = "on" /\ main \notin Stops
  /\ sound_reads < Per(SoundRuns, sound.run) + LATE
  /\ sound.off < Per(SoundRuns, sound.run) + 2 * LATE
  /\ sound' = [sound EXCEPT !.off = @ + 1]
  /\ sound_reads' = sound_reads + 1
  /\ late' = (late \/ ChunkOver)
  /\ UNCHANGED <<main, video, soundEndFlag, dma, waitExitKey, touch, sought, slipped>>

(* A counter that was put back below 0 is a huge number. *)
AtLeast(count, n) == count < 0 \/ count >= n

Unmatched ==
  /\ ~soundEndFlag
  /\ sound.count - video.count > 1 \/ video.count - sound.count > 1

NearEnd == AtLeast(sound.count, SOUND - 2) \/ AtLeast(video.count, VIDEO - 2)

UnmatchedAtEnd ==
  /\ main = "poll" /\ Unmatched /\ NearEnd
  /\ main' = "end"
  /\ UNCHANGED <<video, dac, waitExitKey, touch, sought, slipped, late>>

(* Back to the chunk before the one that the slower of the two is in. *)
Resynch ==
  /\ main = "poll" /\ Unmatched /\ ~NearEnd
  /\ LET p == IF sound.count > video.count THEN video.count ELSE sound.count
     IN IF p = 0
        THEN /\ main' = "lost"
             /\ UNCHANGED <<video, sound, sound_reads, sought, slipped>>
        ELSE /\ GoOn(VideoAt(p), SoundAt(p))
             /\ sought' = [video |-> p, sound |-> p]
  /\ dma' = Masked
  /\ UNCHANGED <<soundEndFlag, waitExitKey, touch, late>>

(* fp_sound is moved to the next chunk.  The handler is not kept out. *)
SeekSound ==
  /\ main = "poll" /\ ~Unmatched /\ ChunkOver
  /\ IF sound.count + 1 < SOUND
     THEN /\ sound' = [sound EXCEPT !.count = @ + 1, !.stco = @ + 1,
                                    !.at = sound.stco + 1, !.off = 0]
          /\ soundEndFlag' = FALSE /\ late' = FALSE
          /\ main' = "reset"
          /\ UNCHANGED <<sound_reads, dma, sought>>
     ELSE /\ sound' = [sound EXCEPT !.count = @ + 1]
          /\ soundEndFlag' = TRUE /\ sound_reads' = 0 /\ dma' = "off"
          /\ sought' = [sought EXCEPT !.sound = 0]
          /\ main' = "pen"
          /\ UNCHANGED late
  /\ UNCHANGED <<video, waitExitKey, touch, slipped>>

(* Then sound_reads begins again.  stco_reads never comes to Many, and a    *)
(* number of chunks takes the place of Many only when it begins again.     *)
ResetReads ==
  /\ main = "reset"
  /\ sound_reads' = 0
  /\ sound' =
       IF sound.reads + 1 > sound.samples
       THEN LET k == sound.run + 1
            IN [sound EXCEPT !.reads = 0, !.run = k,
                  !.samples = First(SoundRuns, k + 1) - First(SoundRuns, k)]
       ELSE IF sound.samples = Many THEN sound ELSE [sound EXCEPT !.reads = @ + 1]
  /\ sought' = [sought EXCEPT !.sound = 0]
  /\ main' = "pen"
  /\ UNCHANGED <<video, soundEndFlag, dma, waitExitKey, touch, slipped, late>>

SoundGoesOn ==
  /\ main = "poll" /\ ~Unmatched /\ ~ChunkOver
  /\ main' = "pen"
  /\ UNCHANGED <<video, dac, waitExitKey, touch, sought, slipped, late>>

PenIsUp ==
  /\ main = "pen"
  /\ main' = "poll"
  /\ UNCHANGED <<video, dac, waitExitKey, touch, sought, slipped, late>>

-----------------------------------------------------------------------------
(* The pause *)

(* Bound: not again after the sound has been found over twice, or after a   *)
(* pause that left the counters wrong.                                     *)
Pause ==
  /\ main = "pen" /\ sound.count <= SOUND /\ ~slipped
  /\ main' = "paused"
  /\ dma' = "off"
  /\ touch' = Untouched
  /\ sought' = [video |-> 0, sound |-> 0]
  /\ UNCHANGED <<video, sound, sound_reads, soundEndFlag, waitExitKey, slipped, late>>

(* mjpegTouch: an icon, play or one that stops (close, next, previous) ... *)
TouchIcon ==
  /\ main \in Pauses
  /\ \E id \in {"play", "stop"} : touch' = [touch EXCEPT !.id = id, !.done = TRUE]
  /\ UNCHANGED <<main, video, dac, waitExitKey, sought, slipped, late>>

(* ... or a place in the movie. *)
TouchSeek ==
  /\ main \in Pauses
  /\ \E p \in Pointed :
       IF p = 0
       THEN main' = "lost" /\ UNCHANGED <<video, sound, touch, sought>>
       ELSE /\ video' = VideoAt(p) /\ sound' = SoundAt(p)
            /\ touch' = [touch EXCEPT !.id = "seek"]
            /\ sought' = [video |-> p, sound |-> p]
            /\ UNCHANGED main
  /\ UNCHANGED <<sound_reads, soundEndFlag, dma, waitExitKey, slipped, late>>

(* The loop of mjpegPause notices that the pen has moved the movie ... *)
SeePointed ==
  /\ main = "paused" /\ ~touch.done /\ touch.id = "seek"
  /\ main' = "took"
  /\ UNCHANGED <<video, dac, waitExitKey, touch, sought, slipped, late>>

(* ... and forgets what has been touched since. *)
TakePointed ==
  /\ main = "took"
  /\ touch' = [touch EXCEPT !.id = "none", !.ret = 1]
  /\ main' = "paused"
  /\ UNCHANGED <<video, dac, waitExitKey, sought, slipped, late>>

(* What is left in mjpeg_touch nobody reads before the next pause. *)
Leave ==
  /\ main = "paused" /\ touch.done
  /\ dma' = "on"
  /\ \/ /\ touch.id = "stop"
        /\ main' = "end"
        /\ UNCHANGED <<video, sound, sound_reads, slipped, sought>>
     \/ /\ touch.id # "stop" /\ touch.ret = 1
        /\ GoOn(video, sound)
        /\ UNCHANGED sought
     \/ /\ touch.id # "stop" /\ touch.ret # 1
        /\ main' = "poll"
        /\ slipped' = (slipped \/ sought.video # 0)
        /\ sought' = [video |-> 0, sound |-> 0]
        /\ UNCHANGED <<video, sound, sound_reads>>
  /\ touch' = Untouched
  /\ UNCHANGED <<soundEndFlag, waitExitKey, late>>

(* The key 'e' of the console. *)
ExitKey ==
  /\ main \notin Stops /\ waitExitKey
  /\ waitExitKey' = FALSE
  /\ UNCHANGED <<main, video, dac, touch, sought, slipped, late>>

Terminated == main \in Stops /\ UNCHANGED vars

-----------------------------------------------------------------------------
Program ==
  \/ StartChunk \/ NextRun \/ DecodeFrame \/ NextFrame
  \/ UnmatchedAtEnd \/ Resynch \/ SeekSound \/ ResetReads \/ SoundGoesOn
  \/ PenIsUp \/ SeePointed \/ TakePointed \/ Leave

User == Pause \/ TouchIcon \/ TouchSeek \/ ExitKey

Next == Program \/ DAC_Buffer_Process \/ User \/ Terminated

Spec == Init /\ [][Next]_vars

(* The main program runs when no handler does; the timer of the frames is a *)
(* clock, and what it has set the loop finds at the next look.             *)
FairSpec == Spec /\ WF_vars(Program) /\ SF_vars(NextFrame)

-----------------------------------------------------------------------------
(* Properties *)

(* How many samples of a chunk, and before it, the table has. *)
PerOf(t, c) == t[CHOOSE k \in DOMAIN t : First(t, k) <= c /\ c < First(t, k + 1)].per
SamplesBefore(t, c) ==
  LET n[d \in 1 .. c] == IF d = 1 THEN 0 ELSE n[d - 1] + PerOf(t, d - 1) IN n[c]

(* Every frame is decoded from the chunk that videoStcoCount names, with    *)
(* the size of that very frame, and the count of samples is right, through *)
(* all rows, seeks and corrections (PlayMotionJpeg, mjpegTouch).  Not after *)
(* a pause that returned 0 though the pen had moved the movie.             *)
VideoInPlace ==
  main = "decode" /\ ~slipped =>
    LET c == video.count + 1
    IN /\ video.at = c
       /\ video.i < PerOf(VideoRuns, c)
       /\ video.total = SamplesBefore(VideoRuns, c) + video.i
       /\ video.stsz = SamplesBefore(VideoRuns, c) + PerOf(VideoRuns, c)

(* The sound is read from the chunk that soundStcoCount names, as far as    *)
(* sound_reads says, unless the main program was so late that the handler  *)
(* read on when the chunk was over (PlayMotionJpeg, DAC_Buffer_Process).   *)
SoundInPlace ==
  main \in {"chunk", "decode", "poll", "pen"} /\ ~soundEndFlag /\ ~ChunkOver /\ ~slipped =>
    /\ sound.at = sound.count + 1
    /\ late \/ sound.off = sound_reads

(* After a seek, the user's or the correction of a mismatch, the next frame *)
(* is the first one of the chunk pointed at, and the next sound is that of *)
(* the same chunk (mjpegTouch, PlayMotionJpeg).                            *)
BothLand ==
  /\ main = "decode" /\ sought.video # 0 => video.at = sought.video /\ video.i = 0
  /\ main = "reset" /\ sought.sound # 0 => sound.at = sought.sound

(* The walk to a chunk 0 is not modelled and may not end: a place within    *)
(* the first chunk is pointed at (mjpegTouch), or frames and sound do not  *)
(* match while one of them is still in it (Resynch).                       *)
Lost == main = "lost"

(* A movie comes to its end, unless the user has his hand in it, or frames  *)
(* and sound are for ever brought together again, or the program walks to  *)
(* a chunk 0, for which it needs no user (PlayMotionJpeg).                 *)
EndsByItself ==
  \/ []<><<User>>_vars
  \/ <>[](main \in Pauses)
  \/ []<><<Resynch>>_vars
  \/ <>Lost
  \/ <>(main = "end")
=============================================================================
