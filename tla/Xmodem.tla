------------------------------- MODULE Xmodem -------------------------------
(***************************************************************************)
(* xput of xmodem.c sends the screen over the serial line: a session, then *)
(* buffers of blocks, each block again until the receiver has it, then the *)
(* end of the file.  The receiver and the line are not part of this        *)
(* program: the receiver does what the protocol says, the line loses and   *)
(* garbles.                                                                *)
(*                                                                         *)
(* xput runs in the handler of the serial line, of priority 0.  The        *)
(* handler of TIM2, which counts timeout, has priority 2: it does not run  *)
(* before xput is over.  So usart_polling_timeout waits for a byte, and no *)
(* wait ends with -1.  For the same reason the interrupts that are put on  *)
(* when a session ends early do nothing until xput returns.                *)
(***************************************************************************)
EXTENDS Integers, Sequences

CONSTANTS
  BUFFERS,             (* of the picture: 151                                *)
  BLOCKS,              (* of a buffer: 8                                     *)
  SEQS,                (* seqno has one byte: 256                            *)
  WAIT_NACK_RETRY, WAIT_ACK_RETRY, REQ_NACK_RETRY,
  ZeroCrc              (* the blocks of the picture whose CRC is 0           *)

ASSUME XmodemAssumption ==
  /\ {BUFFERS, BLOCKS, WAIT_NACK_RETRY, WAIT_ACK_RETRY, REQ_NACK_RETRY}
       \subseteq Nat \ {0}
  /\ SEQS \in Nat \ {0, 1, 2}
  /\ ZeroCrc \subseteq 1 .. BUFFERS * BLOCKS

VARIABLES
  pc,                  (* where xput is; "returned": it does not run         *)
  buffer, n,           (* the buffer and the block of it                     *)
  seqno, retry, Crcflg,
  rx,                  (* the data register of the USART: a byte or "none"   *)
  line,                (* what is on the line to the receiver                *)
  rcv,                 (* "calls", "takes", "ended" or "gone"                *)
  wants,               (* the receiver asks for "sum" or "crc"               *)
  got,                 (* the blocks it has taken                            *)
  (* Observers: *)
  given,               (* xput has given up a buffer: "no", "CAN", "retries" *)
  crossed,             (* the receiver was impatient without need            *)
  clean                (* nothing was lost, garbled, cancelled or crossed    *)

sender == <<pc, buffer, n, seqno, retry, Crcflg, given>>
receiver == <<rcv, wants, got>>
vars == <<sender, rx, line, receiver, crossed, clean>>

Picture == 1 .. BUFFERS * BLOCKS
Left == buffer * BLOCKS + n          (* blocks that xput is done with        *)

Nothing == [kind |-> "none"]
Bytes == {"ACK", "NAK", "C", "CAN", "other"}

Init ==
  /\ pc = "returned" /\ buffer = 0 /\ n = 0 /\ seqno = 0 /\ retry = 0
  /\ Crcflg = FALSE /\ given = "no"
  /\ rx = "none" /\ line = Nothing
  /\ rcv = "gone" /\ wants \in {"sum", "crc"} /\ got = <<>>
  /\ crossed = FALSE /\ clean = TRUE

-----------------------------------------------------------------------------
(* xmodem_start_session *)

(* The user presses 'p' and starts the receiver. *)
xput ==
  /\ pc = "returned"
  /\ pc' = "waitNack" /\ buffer' = 0 /\ n' = 0 /\ seqno' = 1 /\ retry' = 0
  /\ given' = "no"
  /\ rx' = "none" /\ line' = Nothing
  /\ rcv' = "calls" /\ wants' \in {"sum", "crc"} /\ got' = <<>>
  /\ crossed' = FALSE /\ clean' = TRUE
  /\ UNCHANGED Crcflg

(* A byte is read from the data register. *)
Reads(b) == rx = b /\ rx' = "none"

Called ==
  /\ \/ Reads("NAK") /\ Crcflg' = FALSE
     \/ Reads("C") /\ Crcflg' = TRUE
  /\ pc' = "send" /\ retry' = 0

NotCalled ==
  /\ \/ Reads("CAN") /\ pc' = "returned" /\ UNCHANGED retry
     \/ \E b \in {"ACK", "other"} :
          /\ Reads(b)
          /\ retry' = retry + 1
          /\ pc' = IF retry + 1 <= WAIT_NACK_RETRY THEN pc ELSE "returned"
  /\ UNCHANGED Crcflg

xmodem_start_session ==
  /\ pc = "waitNack"
  /\ Called \/ NotCalled
  /\ UNCHANGED <<buffer, n, seqno, given, line, receiver, crossed, clean>>

-----------------------------------------------------------------------------
(* xmodem_transmit *)

(* A block leaves when the one before is through. *)
SendBlock ==
  /\ pc = "send" /\ line.kind = "none"
  /\ line' = [kind |-> "block", seq |-> seqno, id |-> Left + 1,
              crc |-> Crcflg]
  /\ pc' = "waitAck"
  /\ UNCHANGED <<buffer, n, seqno, retry, Crcflg, given, rx, receiver,
                 crossed, clean>>

(* The end of a buffer.  xput does not ask whether all of it was sent.     *)
NextBuffer ==
  /\ buffer' = buffer + 1 /\ n' = 0
  /\ pc' = IF buffer + 1 < BUFFERS THEN "send" ELSE "eot"

(* Mutant: the sequence number stays. *)
NextBlockSameSeq ==
  /\ UNCHANGED seqno /\ retry' = 0
  /\ IF n + 1 < BLOCKS THEN n' = n + 1 /\ pc' = "send" /\ UNCHANGED buffer
     ELSE NextBuffer

NextBlock ==
  /\ seqno' = (seqno + 1) % SEQS /\ retry' = 0
  /\ IF n + 1 < BLOCKS THEN n' = n + 1 /\ pc' = "send" /\ UNCHANGED buffer
     ELSE NextBuffer

GiveUp(why) ==
  /\ given' = why
  /\ retry' = 0
  /\ NextBuffer
  /\ UNCHANGED seqno

(* Mutant: the block is sent again for ever. *)
ResendForever ==
  /\ pc' = "send"
  /\ UNCHANGED <<buffer, n, seqno, retry, given>>

(* Mutant: the loop over the blocks is continued. *)
ResendNext ==
  /\ retry + 1 < REQ_NACK_RETRY /\ n + 1 < BLOCKS
  /\ retry' = retry + 1 /\ n' = n + 1 /\ pc' = "send"
  /\ UNCHANGED <<buffer, seqno, given>>

Resend ==
  \/ /\ retry + 1 < REQ_NACK_RETRY
     /\ retry' = retry + 1 /\ pc' = "send"
     /\ UNCHANGED <<buffer, n, seqno, given>>
  \/ /\ retry + 1 >= REQ_NACK_RETRY
     /\ GiveUp("retries")

(* Mutant: it waits on for ever. *)
WaitOnForever ==
  /\ retry' = retry + 1
  /\ UNCHANGED <<pc, buffer, n, seqno, given>>

(* Another byte: the wait goes on, or a CAN is sent. *)
WaitOn ==
  /\ retry' = retry + 1
  /\ pc' = IF retry + 1 <= WAIT_ACK_RETRY THEN pc ELSE "cancel"
  /\ UNCHANGED <<buffer, n, seqno, given>>

WAIT_ACK ==
  /\ pc = "waitAck"
  /\ \/ Reads("ACK") /\ NextBlock /\ UNCHANGED given
     \/ Reads("NAK") /\ Resend
     \/ Reads("CAN") /\ GiveUp("CAN")
     \/ \E b \in {"C", "other"} : Reads(b) /\ WaitOn
  /\ UNCHANGED <<Crcflg, line, receiver, crossed, clean>>

CAN_END ==
  /\ pc = "cancel" /\ line.kind = "none"
  /\ line' = [kind |-> "CAN"]
  /\ GiveUp("retries")
  /\ UNCHANGED <<Crcflg, rx, receiver, crossed, clean>>

-----------------------------------------------------------------------------
(* xmodem_end_session *)

SendEOT ==
  /\ pc = "eot" /\ line.kind = "none"
  /\ line' = [kind |-> "EOT"]
  /\ pc' = "waitEot"
  /\ UNCHANGED <<buffer, n, seqno, retry, Crcflg, given, rx, receiver,
                 crossed, clean>>

xmodem_end_session ==
  /\ pc = "waitEot"
  /\ \E b \in Bytes :
       /\ Reads(b)
       /\ pc' = IF b = "ACK" THEN "returned" ELSE pc
  /\ UNCHANGED <<buffer, n, seqno, retry, Crcflg, given, line, receiver,
                 crossed, clean>>

-----------------------------------------------------------------------------
(* The receiver *)

Listens == pc # "returned" /\ rcv \in {"calls", "takes"}

(* A byte that finds another one in the data register is lost. *)
Answers(b) == rx' = IF rx = "none" THEN b ELSE rx

(* The sum is always right, the CRC where it is 0. *)
Good == line.kind = "block" /\ (wants = "crc" => line.crc /\ line.id \in ZeroCrc)
                            /\ (wants = "sum" => ~line.crc)

TakeBlock ==
  /\ rcv' = "takes"
  /\ got' = Append(got, line.id)
  /\ Answers("ACK")

(* The block it has taken last comes again, or one it did not expect.      *)
OtherBlock ==
  \/ /\ line.seq = Len(got) % SEQS
     /\ Answers("ACK") /\ UNCHANGED <<rcv, got>>
  \/ /\ line.seq # Len(got) % SEQS
     /\ Answers("CAN") /\ rcv' = "gone" /\ UNCHANGED got

ReceiveBlock ==
  /\ Listens /\ line.kind \in {"block", "garbled"}
  /\ CASE Good /\ line.seq = (Len(got) + 1) % SEQS -> TakeBlock
       [] Good /\ line.seq # (Len(got) + 1) % SEQS -> OtherBlock
       [] OTHER -> Answers("NAK") /\ UNCHANGED <<rcv, got>>
  /\ line' = Nothing
  /\ clean' = (clean /\ rcv' # "gone")
  /\ UNCHANGED <<sender, wants, crossed>>

ReceiveEnd ==
  /\ rcv \in {"calls", "takes", "ended"} /\ line.kind \in {"EOT", "CAN"}
  /\ rcv' = IF line.kind = "EOT" THEN "ended" ELSE "gone"
  /\ IF line.kind = "EOT" THEN Answers("ACK") ELSE UNCHANGED rx
  /\ line' = Nothing
  /\ UNCHANGED <<sender, wants, got, crossed, clean>>

(* Nobody takes it. *)
Unheard ==
  /\ \/ rcv = "gone" /\ line.kind # "none"
     \/ rcv = "ended" /\ line.kind \in {"block", "garbled"}
  /\ line' = Nothing
  /\ UNCHANGED <<sender, rx, receiver, crossed, clean>>

Waits == pc \in {"waitNack", "waitAck", "waitEot"} /\ rx = "none"

(* Nothing has come for a while: it asks again. *)
Impatient ==
  /\ Listens /\ line.kind = "none"
  /\ Answers(IF rcv = "calls" /\ wants = "crc" THEN "C" ELSE "NAK")
  /\ crossed' = (crossed \/ ~Waits) /\ clean' = (clean /\ Waits)
  /\ UNCHANGED <<sender, line, receiver>>

Cancels ==
  /\ Listens
  /\ Answers("CAN") /\ rcv' = "gone" /\ clean' = FALSE
  /\ UNCHANGED <<sender, line, wants, got, crossed>>

(* The terminal is the console again. *)
Types ==
  /\ pc # "returned" /\ rcv \in {"gone", "ended"} /\ rx = "none"
  /\ rx' = "other"
  /\ UNCHANGED <<sender, line, receiver, crossed, clean>>

(* The line *)

Garble ==
  /\ \/ /\ line.kind = "block" /\ line' \in {[kind |-> "garbled"], Nothing}
        /\ UNCHANGED rx
     \/ line.kind \in {"EOT", "CAN"} /\ line' = Nothing /\ UNCHANGED rx
     \/ rx # "none" /\ rx' \in {"other", "none"} /\ UNCHANGED line
  /\ clean' = FALSE
  /\ UNCHANGED <<sender, receiver, crossed>>

-----------------------------------------------------------------------------
Sender ==
  \/ xmodem_start_session \/ SendBlock \/ WAIT_ACK \/ CAN_END \/ SendEOT
  \/ xmodem_end_session
Receiver == ReceiveBlock \/ ReceiveEnd \/ Unheard

Next == xput \/ Sender \/ Receiver \/ Impatient \/ Cancels \/ Types \/ Garble

Spec == Init /\ [][Next]_vars

(* xput runs as long as it has something to do.  A receiver that is there  *)
(* takes what comes, and asks again if nothing does.                       *)
FairSpec == Spec /\ WF_vars(Sender) /\ WF_vars(Receiver) /\ WF_vars(Impatient)

-----------------------------------------------------------------------------
(* Properties *)

TypeOK ==
  /\ pc \in {"returned", "waitNack", "send", "waitAck", "cancel", "eot", "waitEot"}
  /\ buffer \in 0 .. BUFFERS /\ n \in 0 .. BLOCKS - 1
  /\ seqno \in 0 .. SEQS - 1
  /\ retry \in 0 .. WAIT_ACK_RETRY + WAIT_NACK_RETRY + REQ_NACK_RETRY
  /\ Crcflg \in BOOLEAN /\ crossed \in BOOLEAN /\ clean \in BOOLEAN
  /\ rx \in Bytes \union {"none"}
  /\ line.kind \in {"none", "block", "garbled", "EOT", "CAN"}
  /\ line.kind = "block" => line.id \in Picture /\ line.seq \in 0 .. SEQS - 1
  /\ rcv \in {"calls", "takes", "ended", "gone"}
  /\ wants \in {"sum", "crc"}
  /\ got \in Seq(Picture)
  /\ given \in {"no", "CAN", "retries"}

(* Whatever is lost, garbled, sent twice or asked for twice: as long as no  *)
(* buffer is given up, what the receiver has are the first blocks of the   *)
(* picture, each once (xmodem_transmit).                                   *)
InOrder == given = "no" => got = [i \in 1 .. Len(got) |-> i]

(* xput does not leave a block before the receiver has it, unless the       *)
(* receiver asked again while an answer or a block was under way: the ACK  *)
(* of a block that came twice is then taken for the next one's.            *)
NoneSkipped ==
  given = "no" /\ ~crossed /\ pc # "returned" /\ pc # "waitNack" => Len(got) >= Left

(* On a good line, with a patient receiver, every session comes to its end, *)
(* with the check the receiver asks for, right or wrong (xput).            *)
EndsWhenClean == pc = "waitNack" ~> (pc = "returned" \/ ~clean)
=============================================================================
