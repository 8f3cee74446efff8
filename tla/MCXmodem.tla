------------------------------ MODULE MCXmodem ------------------------------
(* Three buffers of two blocks, two of which have the CRC 0; seqno wraps    *)
(* after four blocks; the third NAK gives a buffer up, and so does the      *)
(* third byte that is none of the protocol's.                              *)
EXTENDS Xmodem

MCZeroCrc == {1, 4}
=============================================================================
