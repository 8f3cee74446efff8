---------------------------- MODULE MCMovieSync -----------------------------
(* Six chunks: of frames two of one and four of two, of sound four of one   *)
(* half of the buffer and two of two halves.  The panel is 320 positions   *)
(* wide; those below 8 stand for chunk 2.                                  *)
EXTENDS MovieSync

MCVideoRuns == <<[first |-> 1, per |-> 1], [first |-> 3, per |-> 2]>>
MCSoundRuns == <<[first |-> 1, per |-> 1], [first |-> 5, per |-> 2]>>
MCPointed == {2} \union {(VIDEO * posX) \div 320 : posX \in 8 .. 319}
=============================================================================
