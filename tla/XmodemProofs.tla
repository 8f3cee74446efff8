---------------------------- MODULE XmodemProofs ----------------------------
(***************************************************************************)
(* Proofs about Xmodem, for every size of the picture, every number of     *)
(* sequence numbers and every limit of the retries.                        *)
(*                                                                         *)
(* As long as no buffer is given up the sender is at most one block ahead  *)
(* of the receiver or one behind, so that three sequence numbers tell the  *)
(* blocks apart: OrderInv.  A patient receiver keeps the two in step: of a *)
(* block, its answer and the sender's next move only one exists: StepInv.  *)
(***************************************************************************)
EXTENDS Xmodem, TLAPS

(* Quotient and remainder. *)
LEMMA DivMod ==
  ASSUME NEW s \in Nat, s > 2, NEW a \in Nat
  PROVE /\ a = s * (a \div s) + (a % s)
        /\ a \div s \in Nat /\ a % s \in 0 .. s - 1
OBVIOUS

(* A multiple that is not 0 is not smaller. *)
LEMMA Mono ==
  ASSUME NEW s \in Nat, s > 2, NEW d \in Int, d >= 1
  PROVE s * d >= s
OBVIOUS

(* There is one remainder. *)
LEMMA Uniq ==
  ASSUME NEW s \in Nat, s > 2, NEW q \in Int, NEW p \in Int, NEW r \in 0 .. s - 1, NEW t \in 0 .. s - 1,
         s * q + r = s * p + t
  PROVE r = t
<1>1. s * (q - p) = t - r
  OBVIOUS
<1>2. s * (p - q) = r - t
  OBVIOUS
<1>3. CASE q - p >= 1
  <2>1. s * (q - p) >= s
    BY <1>3, Mono
  <2>2. QED
    BY <2>1, <1>1
<1>4. CASE p - q >= 1
  <2>1. s * (p - q) >= s
    BY <1>4, Mono
  <2>2. QED
    BY <2>1, <1>2
<1>5. CASE p = q
  BY <1>5, <1>1
<1>6. QED
  BY <1>3, <1>4, <1>5

(* Numbers with the same remainder are the same if they are close. *)
LEMMA ModSame ==
  ASSUME NEW s \in Nat, s > 2, NEW a \in Nat, NEW b \in Nat, a % s = b % s,
         a - b < s, b - a < s
  PROVE a = b
<1>1. PICK q \in Nat, m \in 0 .. s - 1 : a = s * q + m /\ m = a % s
  BY DivMod
<1>2. PICK p \in Nat : b = s * p + m
  <2>1. b = s * (b \div s) + (b % s) /\ b \div s \in Nat
    BY DivMod
  <2>2. QED
    BY <2>1, <1>1
<1>3. s * (q - p) = a - b /\ s * (p - q) = b - a
  BY <1>1, <1>2
<1>4. CASE q - p >= 1
  <2>1. s * (q - p) >= s
    BY <1>4, Mono
  <2>2. QED
    BY <2>1, <1>3
<1>5. CASE p - q >= 1
  <2>1. s * (p - q) >= s
    BY <1>5, Mono
  <2>2. QED
    BY <2>1, <1>3
<1>6. CASE p = q
  BY <1>6, <1>1, <1>2
<1>7. QED
  BY <1>4, <1>5, <1>6

(* A counter that wraps. *)
LEMMA ModNext ==
  ASSUME NEW s \in Nat, s > 2, NEW a \in Nat
  PROVE ((a % s) + 1) % s = (a + 1) % s
<1>1. PICK q \in Nat, z \in 0 .. s - 1 : a = s * q + z /\ z = a % s
  BY DivMod
<1>2. PICK p \in Nat, w \in 0 .. s - 1 : z + 1 = s * p + w /\ w = (z + 1) % s
  <2>1. z + 1 \in Nat
    OBVIOUS
  <2>2. QED
    BY <2>1, DivMod
<1>3. PICK u \in Nat, v \in 0 .. s - 1 : a + 1 = s * u + v /\ v = (a + 1) % s
  <2>1. a + 1 \in Nat
    OBVIOUS
  <2>2. QED
    BY <2>1, DivMod
<1>4. s * u + v = s * (q + p) + w /\ q + p \in Nat
  BY <1>1, <1>2, <1>3
<1>5. \A i, j \in Int : s * i + v = s * j + w => v = w
  BY Uniq
<1>6. v = w
  BY <1>4, <1>5
<1>7. QED
  BY <1>1, <1>2, <1>3, <1>6

-----------------------------------------------------------------------------
Taken == Len(got)
BlockOnLine == line.kind = "block"
Sending == pc \in {"send", "waitAck", "cancel", "eot", "waitEot"}

CountInv ==
  /\ buffer \in Nat /\ n \in 0 .. BLOCKS - 1 /\ seqno \in Nat
  /\ got \in Seq(Nat)
  /\ pc \in {"returned", "waitNack"} \/ Sending
  /\ pc = "waitNack" => got = <<>> /\ Left = 0 /\ line.kind = "none" /\ rx # "ACK"
                        /\ given = "no" /\ seqno = 1
  /\ BlockOnLine => line.id \in Nat
  /\ line.kind = "EOT" \/ rcv = "ended" => pc \in {"waitEot", "returned"}

OrderInv ==
  /\ InOrder
  /\ given = "no" /\ Sending =>
       /\ seqno = (Left + 1) % SEQS
       /\ Left - 1 <= Taken /\ Taken <= Left + 1
       /\ rx = "ACK" /\ pc # "waitEot" => Left <= Taken
       /\ BlockOnLine =>
            /\ line.seq = line.id % SEQS
            /\ line.id = Left + 1 \/ (line.id = Left /\ Taken <= Left /\ pc # "waitAck")

StepInv ==
  given = "no" /\ ~crossed /\ pc # "returned" =>
    /\ Taken >= Left
    /\ rx = "ACK" => pc = "waitEot" \/ (pc = "waitAck" /\ Taken = Left + 1)
    /\ rcv # "gone" /\ line.kind \in {"block", "garbled"} =>
         pc = "waitAck" /\ rx = "none" /\ (BlockOnLine => line.id = Left + 1)
    /\ rcv # "gone" /\ pc \in {"send", "eot"} => rx = "none"

-----------------------------------------------------------------------------
(* The blocks that are done, from one to the next. *)
LEMMA LeftNat ==
  ASSUME CountInv
  PROVE  Left \in Nat
<1>1. buffer \in Nat /\ n \in Nat /\ BLOCKS \in Nat
  BY XmodemAssumption DEF CountInv
<1>2. buffer * BLOCKS \in Nat
  BY <1>1
<1>3. QED
  BY <1>1, <1>2 DEF Left

LEMMA NextLeft ==
  ASSUME CountInv, NextBlock
  PROVE  /\ Left' = Left + 1 /\ seqno' = (seqno + 1) % SEQS
         /\ buffer' \in Nat /\ n' \in 0 .. BLOCKS - 1 /\ seqno' \in Nat
         /\ pc' \in {"send", "eot"}
<1>1. buffer \in Nat /\ n \in 0 .. BLOCKS - 1 /\ seqno \in Nat
      /\ BLOCKS \in Nat /\ BLOCKS > 0 /\ SEQS \in Nat /\ SEQS > 2
  BY XmodemAssumption DEF CountInv
<1>2. seqno' = (seqno + 1) % SEQS /\ seqno' \in Nat
  <2>1. seqno + 1 \in Nat
    BY <1>1
  <2>2. QED
    BY <1>1, <2>1, DivMod DEF NextBlock
<1>3. CASE n + 1 < BLOCKS
  BY <1>1, <1>2, <1>3 DEF NextBlock, Left
<1>4. CASE ~(n + 1 < BLOCKS)
  <2>1. n = BLOCKS - 1 /\ buffer' = buffer + 1 /\ n' = 0 /\ pc' \in {"send", "eot"}
    BY <1>1, <1>4 DEF NextBlock, NextBuffer
  <2>2. (buffer + 1) * BLOCKS = buffer * BLOCKS + BLOCKS
    BY <1>1
  <2>3. QED
    BY <1>1, <1>2, <2>1, <2>2 DEF Left
<1>5. QED
  BY <1>3, <1>4

(* What the receiver does with a block. *)
LEMMA Received ==
  ASSUME ReceiveBlock
  PROVE  /\ UNCHANGED <<sender, crossed>> /\ line'.kind = "none"
         /\ pc # "returned" /\ rcv \in {"calls", "takes"}
         /\ \/ /\ BlockOnLine /\ line.seq = (Taken + 1) % SEQS
               /\ rcv' = "takes" /\ got' = Append(got, line.id) /\ Answers("ACK")
            \/ /\ BlockOnLine /\ line.seq = Taken % SEQS
               /\ Answers("ACK") /\ UNCHANGED <<rcv, got>>
            \/ /\ Answers("CAN") /\ rcv' = "gone" /\ UNCHANGED got
            \/ /\ Answers("NAK") /\ UNCHANGED <<rcv, got>>
<1>1. CASE Good /\ line.seq = (Len(got) + 1) % SEQS
  BY <1>1 DEF ReceiveBlock, TakeBlock, Good, BlockOnLine, Taken, Listens, Nothing
<1>2. CASE Good /\ line.seq # (Len(got) + 1) % SEQS
  BY <1>2 DEF ReceiveBlock, OtherBlock, Good, BlockOnLine, Taken, Listens, Nothing
<1>3. CASE ~Good
  BY <1>3 DEF ReceiveBlock, Listens, Nothing
<1>4. QED
  BY <1>1, <1>2, <1>3

(* Which block it is. *)
LEMMA Which ==
  ASSUME CountInv, OrderInv, given = "no", Sending, BlockOnLine
  PROVE  /\ line.seq = (Taken + 1) % SEQS => line.id = Taken + 1
         /\ line.seq = Taken % SEQS => line.id = Taken
<1>1. /\ Taken \in Nat /\ Left \in Nat /\ line.id \in Nat
      /\ SEQS \in Nat /\ SEQS > 2
  BY XmodemAssumption, LeftNat DEF CountInv, Taken, BlockOnLine
<1>2. /\ line.seq = line.id % SEQS
      /\ Left - 1 <= Taken /\ Taken <= Left + 1
      /\ line.id = Left + 1 \/ (line.id = Left /\ Taken <= Left)
  BY DEF OrderInv
<1>3. /\ line.id - (Taken + 1) < SEQS /\ (Taken + 1) - line.id < SEQS
      /\ line.id - Taken < SEQS /\ Taken - line.id < SEQS
      /\ Taken + 1 \in Nat
  BY <1>1, <1>2
<1>4. QED
  BY <1>1, <1>2, <1>3, ModSame

(* Counters and places are kept by every step. *)
LEMMA CountStep ==
  ASSUME CountInv, [Next]_vars
  PROVE  CountInv'
<1>a. BUFFERS \in Nat /\ BLOCKS \in Nat /\ BLOCKS > 0 /\ SEQS \in Nat /\ SEQS > 2
      /\ Left \in Nat
  BY XmodemAssumption, LeftNat
<1>1. CASE xput
  BY <1>a, <1>1 DEF xput, sender, receiver, Nothing, CountInv, Left, Sending, BlockOnLine
<1>2. CASE xmodem_start_session
  BY <1>a, <1>2 DEF xmodem_start_session, Called, NotCalled, Reads, sender, receiver, Nothing, CountInv, Left, Sending, BlockOnLine
<1>3. CASE SendBlock
  BY <1>a, <1>3 DEF SendBlock, sender, receiver, Nothing, CountInv, Left, Sending, BlockOnLine
<1>4. CASE WAIT_ACK
  <2>1. CASE Reads("ACK") /\ NextBlock /\ UNCHANGED given
    BY <1>a, <1>4, <2>1, NextLeft DEF WAIT_ACK, Reads, receiver, CountInv, Left, Sending, BlockOnLine
  <2>2. CASE Reads("NAK") /\ Resend
    BY <1>a, <1>4, <2>2 DEF WAIT_ACK, Reads, Resend, GiveUp, NextBuffer, receiver, CountInv, Left, Sending, BlockOnLine
  <2>3. CASE Reads("CAN") /\ GiveUp("CAN")
    BY <1>a, <1>4, <2>3 DEF WAIT_ACK, Reads, GiveUp, NextBuffer, receiver, CountInv, Left, Sending, BlockOnLine
  <2>4. CASE \E b \in {"C", "other"} : Reads(b) /\ WaitOn
    BY <1>a, <1>4, <2>4 DEF WAIT_ACK, Reads, WaitOn, receiver, CountInv, Left, Sending, BlockOnLine
  <2>5. QED
    BY <1>4, <2>1, <2>2, <2>3, <2>4 DEF WAIT_ACK
<1>5. CASE CAN_END
  BY <1>a, <1>5 DEF CAN_END, GiveUp, NextBuffer, sender, receiver, Nothing, CountInv, Left, Sending, BlockOnLine
<1>6. CASE SendEOT
  BY <1>a, <1>6 DEF SendEOT, sender, receiver, Nothing, CountInv, Left, Sending, BlockOnLine
<1>7. CASE xmodem_end_session
  BY <1>a, <1>7 DEF xmodem_end_session, Reads, sender, receiver, Nothing, CountInv, Left, Sending, BlockOnLine
<1>8. CASE ReceiveBlock
  <2>1. (UNCHANGED sender) /\ line'.kind = "none" /\ pc # "returned" /\ rcv # "ended" /\ rcv' # "ended"
    BY <1>8, Received
  <2>2. line.kind # "none"
    BY <1>8 DEF ReceiveBlock
  <2>3. got' \in Seq(Nat)
    BY <1>8, Received DEF CountInv
  <2>4. QED
    BY <1>a, <2>1, <2>2, <2>3 DEF sender, CountInv, Left, Sending, BlockOnLine
<1>9. CASE ReceiveEnd
  BY <1>a, <1>9 DEF ReceiveEnd, Answers, sender, receiver, Nothing, CountInv, Left, Sending, BlockOnLine
<1>10. CASE Unheard
  BY <1>a, <1>10 DEF Unheard, sender, receiver, Nothing, CountInv, Left, Sending, BlockOnLine
<1>11. CASE Impatient
  BY <1>a, <1>11 DEF Impatient, Answers, Waits, sender, receiver, Nothing, CountInv, Left, Sending, BlockOnLine
<1>12. CASE Cancels
  BY <1>a, <1>12 DEF Cancels, Answers, sender, receiver, Nothing, CountInv, Left, Sending, BlockOnLine
<1>13. CASE Types
  BY <1>a, <1>13 DEF Types, sender, receiver, Nothing, CountInv, Left, Sending, BlockOnLine
<1>14. CASE Garble
  BY <1>a, <1>14 DEF Garble, sender, receiver, Nothing, CountInv, Left, Sending, BlockOnLine
<1>15. CASE UNCHANGED vars
  BY <1>15 DEF vars, sender, receiver, Nothing, CountInv, Left, Sending, BlockOnLine
<1>16. QED
  BY <1>1, <1>2, <1>3, <1>4, <1>5, <1>6, <1>7, <1>8, <1>9, <1>10, <1>11, <1>12, <1>13, <1>14, <1>15
  DEF Next, Sender, Receiver

(* The order of the blocks is kept by every step. *)
LEMMA OrderStep ==
  ASSUME CountInv, OrderInv, [Next]_vars
  PROVE  OrderInv'
<1>a. BUFFERS \in Nat /\ BLOCKS \in Nat /\ BLOCKS > 0 /\ SEQS \in Nat /\ SEQS > 2
      /\ Left \in Nat
  BY XmodemAssumption, LeftNat
<1>1. CASE xput
  BY <1>a, <1>1 DEF xput, sender, receiver, Nothing, CountInv, OrderInv, InOrder, Taken, Left, Sending, BlockOnLine
<1>2. CASE xmodem_start_session
  BY <1>a, <1>2 DEF xmodem_start_session, Called, NotCalled, Reads, sender, receiver, Nothing, CountInv, OrderInv, InOrder, Taken, Left, Sending, BlockOnLine
<1>3. CASE SendBlock
  BY <1>a, <1>3 DEF SendBlock, sender, receiver, Nothing, CountInv, OrderInv, InOrder, Taken, Left, Sending, BlockOnLine
<1>4. CASE WAIT_ACK
  <2>1. CASE Reads("ACK") /\ NextBlock /\ UNCHANGED given
    <3>1. /\ Left' = Left + 1 /\ seqno' = (seqno + 1) % SEQS /\ pc' \in {"send", "eot"}
          /\ pc = "waitAck" /\ rx = "ACK" /\ rx' = "none"
          /\ UNCHANGED <<line, got, given>>
      BY <1>4, <2>1, NextLeft DEF WAIT_ACK, Reads, receiver
    <3>2. SUFFICES ASSUME given = "no"
                   PROVE  OrderInv'
      BY <3>1, <3>2 DEF OrderInv, InOrder
    <3>3. /\ seqno = (Left + 1) % SEQS /\ Left <= Taken /\ Taken <= Left + 1
          /\ Taken \in Nat /\ InOrder
      BY <3>1, <3>2 DEF OrderInv, Sending, CountInv, Taken
    <3>4. seqno' = (Left' + 1) % SEQS
      <4>1. Left + 1 \in Nat
        BY <1>a
      <4>2. QED
        BY <1>a, <4>1, <3>1, <3>3, ModNext
    <3>5. BlockOnLine => line.seq = line.id % SEQS /\ line.id = Left' /\ Taken <= Left'
      BY <1>a, <3>1, <3>2, <3>3 DEF OrderInv, Sending
    <3>6. QED
      BY <1>a, <3>1, <3>3, <3>4, <3>5 DEF OrderInv, InOrder, Sending, BlockOnLine, Taken
  <2>2. CASE Reads("NAK") /\ Resend
    BY <1>a, <1>4, <2>2 DEF WAIT_ACK, Reads, Resend, GiveUp, NextBuffer, receiver, CountInv, OrderInv, InOrder, Taken, Left, Sending, BlockOnLine
  <2>3. CASE Reads("CAN") /\ GiveUp("CAN")
    BY <1>a, <1>4, <2>3 DEF WAIT_ACK, Reads, GiveUp, NextBuffer, receiver, CountInv, OrderInv, InOrder, Taken, Left, Sending, BlockOnLine
  <2>4. CASE \E b \in {"C", "other"} : Reads(b) /\ WaitOn
    BY <1>a, <1>4, <2>4 DEF WAIT_ACK, Reads, WaitOn, receiver, CountInv, OrderInv, InOrder, Taken, Left, Sending, BlockOnLine
  <2>5. QED
    BY <1>4, <2>1, <2>2, <2>3, <2>4 DEF WAIT_ACK
<1>5. CASE CAN_END
  BY <1>a, <1>5 DEF CAN_END, GiveUp, NextBuffer, sender, receiver, Nothing, CountInv, OrderInv, InOrder, Taken, Left, Sending, BlockOnLine
<1>6. CASE SendEOT
  BY <1>a, <1>6 DEF SendEOT, sender, receiver, Nothing, CountInv, OrderInv, InOrder, Taken, Left, Sending, BlockOnLine
<1>7. CASE xmodem_end_session
  BY <1>a, <1>7 DEF xmodem_end_session, Reads, sender, receiver, Nothing, CountInv, OrderInv, InOrder, Taken, Left, Sending, BlockOnLine
<1>8. CASE ReceiveBlock
  <2>1. (UNCHANGED sender) /\ line'.kind = "none" /\ pc # "returned" /\ line.kind # "none"
    BY <1>8, Received DEF ReceiveBlock
  <2>2. Left' = Left /\ (Sending' <=> Sending) /\ Sending
    BY <2>1 DEF sender, Left, Sending, CountInv
  <2>3. SUFFICES ASSUME given = "no"
                 PROVE  OrderInv'
    BY <2>1, <2>3 DEF OrderInv, InOrder, sender
  <2>4. Taken \in Nat /\ got \in Seq(Nat) /\ got = [i \in 1 .. Taken |-> i]
    BY <2>3 DEF CountInv, OrderInv, InOrder, Taken
  <2>5. CASE /\ BlockOnLine /\ line.seq = (Taken + 1) % SEQS
             /\ got' = Append(got, line.id) /\ Answers("ACK")
    <3>1. line.id = Taken + 1
      BY <2>2, <2>3, <2>5, Which
    <3>2. got' = Append(got, Taken + 1) /\ Taken' = Taken + 1
      BY <2>4, <2>5, <3>1 DEF Taken
    <3>3. got' = [i \in 1 .. Taken' |-> i]
      BY <2>4, <3>2
    <3>4. QED
      BY <1>a, <2>1, <2>2, <2>3, <2>4, <2>5, <3>1, <3>2, <3>3
      DEF OrderInv, InOrder, sender, BlockOnLine, Taken
  <2>6. CASE BlockOnLine /\ line.seq = Taken % SEQS /\ Answers("ACK") /\ UNCHANGED got
    <3>1. line.id = Taken
      BY <2>2, <2>3, <2>6, Which
    <3>2. Taken' = Taken /\ got' = [i \in 1 .. Taken' |-> i]
      BY <2>4, <2>6 DEF Taken
    <3>3. Left <= Taken
      BY <1>a, <2>2, <2>3, <2>6, <3>1 DEF OrderInv
    <3>4. QED
      BY <1>a, <2>1, <2>2, <2>3, <2>6, <3>2, <3>3
      DEF OrderInv, InOrder, sender, BlockOnLine, Taken
  <2>7. CASE (Answers("CAN") \/ Answers("NAK")) /\ UNCHANGED got
    BY <1>a, <2>1, <2>2, <2>3, <2>7 DEF OrderInv, InOrder, sender, BlockOnLine, Taken, Answers
  <2>8. QED
    BY <1>8, Received, <2>5, <2>6, <2>7
<1>9. CASE ReceiveEnd
  BY <1>a, <1>9 DEF ReceiveEnd, Answers, sender, receiver, Nothing, CountInv, OrderInv, InOrder, Taken, Left, Sending, BlockOnLine
<1>10. CASE Unheard
  BY <1>a, <1>10 DEF Unheard, sender, receiver, Nothing, CountInv, OrderInv, InOrder, Taken, Left, Sending, BlockOnLine
<1>11. CASE Impatient
  BY <1>a, <1>11 DEF Impatient, Answers, Waits, sender, receiver, Nothing, CountInv, OrderInv, InOrder, Taken, Left, Sending, BlockOnLine
<1>12. CASE Cancels
  BY <1>a, <1>12 DEF Cancels, Answers, sender, receiver, Nothing, CountInv, OrderInv, InOrder, Taken, Left, Sending, BlockOnLine
<1>13. CASE Types
  BY <1>a, <1>13 DEF Types, sender, receiver, Nothing, CountInv, OrderInv, InOrder, Taken, Left, Sending, BlockOnLine
<1>14. CASE Garble
  BY <1>a, <1>14 DEF Garble, sender, receiver, Nothing, CountInv, OrderInv, InOrder, Taken, Left, Sending, BlockOnLine
<1>15. CASE UNCHANGED vars
  BY <1>15 DEF vars, sender, receiver, Nothing, CountInv, OrderInv, InOrder, Taken, Left, Sending, BlockOnLine
<1>16. QED
  BY <1>1, <1>2, <1>3, <1>4, <1>5, <1>6, <1>7, <1>8, <1>9, <1>10, <1>11, <1>12, <1>13, <1>14, <1>15
  DEF Next, Sender, Receiver

(* A patient receiver and the sender stay in step. *)
LEMMA StepStep ==
  ASSUME CountInv, OrderInv, StepInv, [Next]_vars
  PROVE  StepInv'
<1>a. BUFFERS \in Nat /\ BLOCKS \in Nat /\ BLOCKS > 0 /\ SEQS \in Nat /\ SEQS > 2
      /\ Left \in Nat
  BY XmodemAssumption, LeftNat
<1>1. CASE xput
  BY <1>a, <1>1 DEF xput, sender, receiver, Nothing, CountInv, OrderInv, StepInv, Taken, Left, Sending, BlockOnLine
<1>2. CASE xmodem_start_session
  BY <1>a, <1>2 DEF xmodem_start_session, Called, NotCalled, Reads, sender, receiver, Nothing, CountInv, OrderInv, StepInv, Taken, Left, Sending, BlockOnLine
<1>3. CASE SendBlock
  BY <1>a, <1>3 DEF SendBlock, sender, receiver, Nothing, CountInv, OrderInv, StepInv, Taken, Left, Sending, BlockOnLine
<1>4. CASE WAIT_ACK
  <2>1. CASE Reads("ACK") /\ NextBlock /\ UNCHANGED given
    BY <1>a, <1>4, <2>1, NextLeft DEF WAIT_ACK, Reads, receiver, CountInv, OrderInv, StepInv, Taken, Sending, BlockOnLine
  <2>2. CASE Reads("NAK") /\ Resend
    BY <1>a, <1>4, <2>2 DEF WAIT_ACK, Reads, Resend, GiveUp, NextBuffer, receiver, CountInv, OrderInv, StepInv, Taken, Left, Sending, BlockOnLine
  <2>3. CASE Reads("CAN") /\ GiveUp("CAN")
    BY <1>a, <1>4, <2>3 DEF WAIT_ACK, Reads, GiveUp, NextBuffer, receiver, CountInv, OrderInv, StepInv, Taken, Left, Sending, BlockOnLine
  <2>4. CASE \E b \in {"C", "other"} : Reads(b) /\ WaitOn
    BY <1>a, <1>4, <2>4 DEF WAIT_ACK, Reads, WaitOn, receiver, CountInv, OrderInv, StepInv, Taken, Left, Sending, BlockOnLine
  <2>5. QED
    BY <1>4, <2>1, <2>2, <2>3, <2>4 DEF WAIT_ACK
<1>5. CASE CAN_END
  BY <1>a, <1>5 DEF CAN_END, GiveUp, NextBuffer, sender, receiver, Nothing, CountInv, OrderInv, StepInv, Taken, Left, Sending, BlockOnLine
<1>6. CASE SendEOT
  BY <1>a, <1>6 DEF SendEOT, sender, receiver, Nothing, CountInv, OrderInv, StepInv, Taken, Left, Sending, BlockOnLine
<1>7. CASE xmodem_end_session
  BY <1>a, <1>7 DEF xmodem_end_session, Reads, sender, receiver, Nothing, CountInv, OrderInv, StepInv, Taken, Left, Sending, BlockOnLine
<1>8. CASE ReceiveBlock
  <2>1. /\ (UNCHANGED <<sender, crossed>>) /\ line'.kind = "none" /\ pc # "returned"
        /\ line.kind \in {"block", "garbled"} /\ rcv # "gone"
    BY <1>8, Received DEF ReceiveBlock
  <2>2. Left' = Left /\ Sending
    BY <2>1 DEF sender, Left, Sending, CountInv
  <2>3. SUFFICES ASSUME given = "no", ~crossed
                 PROVE  StepInv'
    BY <2>1, <2>3 DEF StepInv, sender
  <2>4. /\ pc = "waitAck" /\ rx = "none" /\ Taken >= Left
        /\ (BlockOnLine => line.id = Left + 1)
    BY <2>1, <2>3 DEF StepInv
  <2>5. Taken \in Nat /\ got \in Seq(Nat)
    BY DEF CountInv, Taken
  <2>6. CASE /\ BlockOnLine /\ line.seq = (Taken + 1) % SEQS
             /\ got' = Append(got, line.id) /\ Answers("ACK")
    <3>1. line.id = Taken + 1
      BY <2>2, <2>3, <2>6, Which
    <3>2. Taken' = Taken + 1
      BY <2>5, <2>6, <3>1 DEF Taken
    <3>3. QED
      BY <1>a, <2>1, <2>2, <2>3, <2>4, <2>5, <2>6, <3>1, <3>2 DEF StepInv, sender
  <2>7. CASE BlockOnLine /\ line.seq = Taken % SEQS /\ Answers("ACK") /\ UNCHANGED got
    <3>1. line.id = Taken
      BY <2>2, <2>3, <2>7, Which
    <3>2. QED
      BY <1>a, <2>1, <2>2, <2>3, <2>4, <2>5, <2>7, <3>1 DEF StepInv, sender, Taken
  <2>8. CASE (Answers("CAN") \/ Answers("NAK")) /\ UNCHANGED got
    BY <1>a, <2>1, <2>2, <2>3, <2>4, <2>8 DEF StepInv, sender, Taken, Answers
  <2>9. QED
    BY <1>8, Received, <2>6, <2>7, <2>8
<1>9. CASE ReceiveEnd
  BY <1>a, <1>9 DEF ReceiveEnd, Answers, sender, receiver, Nothing, CountInv, OrderInv, StepInv, Taken, Left, Sending, BlockOnLine
<1>10. CASE Unheard
  BY <1>a, <1>10 DEF Unheard, sender, receiver, Nothing, CountInv, OrderInv, StepInv, Taken, Left, Sending, BlockOnLine
<1>11. CASE Impatient
  BY <1>a, <1>11 DEF Impatient, Answers, Waits, sender, receiver, Nothing, CountInv, OrderInv, StepInv, Taken, Left, Sending, BlockOnLine
<1>12. CASE Cancels
  BY <1>a, <1>12 DEF Cancels, Answers, sender, receiver, Nothing, CountInv, OrderInv, StepInv, Taken, Left, Sending, BlockOnLine
<1>13. CASE Types
  BY <1>a, <1>13 DEF Types, sender, receiver, Nothing, CountInv, OrderInv, StepInv, Taken, Left, Sending, BlockOnLine
<1>14. CASE Garble
  BY <1>a, <1>14 DEF Garble, sender, receiver, Nothing, CountInv, OrderInv, StepInv, Taken, Left, Sending, BlockOnLine
<1>15. CASE UNCHANGED vars
  BY <1>15 DEF vars, sender, receiver, Nothing, CountInv, OrderInv, StepInv, Taken, Left, Sending, BlockOnLine
<1>16. QED
  BY <1>1, <1>2, <1>3, <1>4, <1>5, <1>6, <1>7, <1>8, <1>9, <1>10, <1>11, <1>12, <1>13, <1>14, <1>15
  DEF Next, Sender, Receiver

-----------------------------------------------------------------------------
LEMMA Initially ==
  ASSUME Init
  PROVE  CountInv /\ OrderInv /\ StepInv
<1>1. BLOCKS \in Nat /\ BLOCKS > 0
  BY XmodemAssumption
<1>2. QED
  BY <1>1 DEF Init, CountInv, OrderInv, StepInv, InOrder, Taken, Left, Sending, BlockOnLine, Nothing

(* The sender, the line and the receiver agree on the block in hand, in every *)
(* state of xput's sessions.                                               *)
THEOREM SenderAndReceiverAgree == Spec => [](CountInv /\ OrderInv /\ StepInv)
<1>1. Init => CountInv /\ OrderInv /\ StepInv
  BY Initially
<1>2. CountInv /\ OrderInv /\ StepInv /\ [Next]_vars => (CountInv /\ OrderInv /\ StepInv)'
  BY CountStep, OrderStep, StepStep
<1>3. QED
  BY <1>1, <1>2, PTL DEF Spec

(* Whatever the line does: as long as xmodem_transmit gives nothing up, the  *)
(* receiver has the first blocks of the picture, in order and each once.   *)
THEOREM PictureInOrder == Spec => []InOrder
<1>1. OrderInv => InOrder
  BY DEF OrderInv
<1>2. QED
  BY <1>1, SenderAndReceiverAgree, PTL

(* And with a receiver that does not ask before its time, xmodem_transmit    *)
(* leaves no block that the receiver does not have.                        *)
THEOREM NoBlockSkipped == Spec => []NoneSkipped
<1>1. StepInv => NoneSkipped
  BY DEF StepInv, NoneSkipped, Taken
<1>2. QED
  BY <1>1, SenderAndReceiverAgree, PTL
-----------------------------------------------------------------------------
(* Types.  The sum of the limits bounds retry because each wait counts from *)
(* 0: WaitNack's, the block's, and that for its answer.                     *)
RetryInv ==
  /\ pc = "waitNack" => retry <= WAIT_NACK_RETRY
  /\ pc \in {"send", "waitAck"} => retry <= WAIT_ACK_RETRY \/ retry < REQ_NACK_RETRY
  /\ pc \in {"waitNack", "send", "waitAck", "cancel"} => buffer < BUFFERS

(* The block that is sent next is one of the picture. *)
LEMMA InPicture ==
  ASSUME buffer \in Nat, buffer < BUFFERS, n \in 0 .. BLOCKS - 1
  PROVE  Left + 1 \in Picture
<1>1. BUFFERS \in Nat /\ BLOCKS \in Nat /\ BLOCKS > 0
  BY XmodemAssumption
<1>2. (buffer + 1) * BLOCKS = buffer * BLOCKS + BLOCKS /\ buffer * BLOCKS \in Nat
  BY <1>1
<1> DEFINE d == BUFFERS - (buffer + 1)
<1>3. d \in Nat /\ BUFFERS = (buffer + 1) + d
  BY <1>1
<1> HIDE DEF d
<1>4. BUFFERS * BLOCKS = (buffer + 1) * BLOCKS + d * BLOCKS /\ d * BLOCKS \in Nat
  BY <1>1, <1>3
<1>5. QED
  BY <1>1, <1>2, <1>4 DEF Left, Picture

LEMMA TypeStep ==
  ASSUME TypeOK, RetryInv, [Next]_vars
  PROVE  TypeOK' /\ RetryInv'
<1>a. /\ BUFFERS \in Nat \ {0} /\ BLOCKS \in Nat \ {0} /\ SEQS \in Nat /\ SEQS > 2
      /\ WAIT_NACK_RETRY \in Nat \ {0} /\ WAIT_ACK_RETRY \in Nat \ {0}
      /\ REQ_NACK_RETRY \in Nat \ {0}
  BY XmodemAssumption
<1> USE <1>a DEF TypeOK, RetryInv, Bytes
<1>1. CASE xput
  <2>1. Crcflg' \in BOOLEAN /\ crossed' \in BOOLEAN /\ clean' \in BOOLEAN
    BY <1>1 DEF xput
  <2>2. QED
    BY <1>1, <2>1 DEF xput, Nothing
<1>2. CASE xmodem_start_session
  <2>1. CASE Called
    <3>1. Crcflg' \in BOOLEAN /\ crossed' \in BOOLEAN /\ clean' \in BOOLEAN
      BY <1>2, <2>1 DEF xmodem_start_session, Called
    <3>2. QED
      BY <1>2, <2>1, <3>1 DEF xmodem_start_session, Called, Reads, receiver
  <2>2. CASE NotCalled
    BY <1>2, <2>2 DEF xmodem_start_session, NotCalled, Reads, receiver
  <2>3. QED
    BY <1>2, <2>1, <2>2 DEF xmodem_start_session
<1>3. CASE SendBlock
  <2>1. Left + 1 \in Picture
    BY <1>3, InPicture DEF SendBlock
  <2>2. QED
    BY <1>3, <2>1 DEF SendBlock, receiver
<1>4. CASE WAIT_ACK
  <2>1. CASE Reads("ACK") /\ NextBlock /\ UNCHANGED given
    <3>1. (seqno + 1) % SEQS \in 0 .. SEQS - 1
      <4>1. seqno + 1 \in Nat
        OBVIOUS
      <4>2. QED
        BY <4>1, DivMod
    <3>2. QED
      BY <1>4, <2>1, <3>1 DEF WAIT_ACK, NextBlock, NextBuffer, Reads, receiver
  <2>2. CASE Reads("NAK") /\ Resend
    BY <1>4, <2>2 DEF WAIT_ACK, Resend, GiveUp, NextBuffer, Reads, receiver
  <2>3. CASE Reads("CAN") /\ GiveUp("CAN")
    BY <1>4, <2>3 DEF WAIT_ACK, GiveUp, NextBuffer, Reads, receiver
  <2>4. CASE \E b \in {"C", "other"} : Reads(b) /\ WaitOn
    BY <1>4, <2>4 DEF WAIT_ACK, WaitOn, Reads, receiver
  <2>5. QED
    BY <1>4, <2>1, <2>2, <2>3, <2>4 DEF WAIT_ACK
<1>5. CASE CAN_END
  BY <1>5 DEF CAN_END, GiveUp, NextBuffer, receiver
<1>6. CASE SendEOT
  BY <1>6 DEF SendEOT, receiver
<1>7. CASE xmodem_end_session
  BY <1>7 DEF xmodem_end_session, Reads, receiver
<1>8. CASE ReceiveBlock
  <2>1. /\ UNCHANGED <<sender, wants, crossed>> /\ line'.kind = "none"
        /\ rcv' \in {"calls", "takes", "gone"} /\ rx' \in Bytes \union {"none"}
        /\ got' = got \/ (line.kind = "block" /\ got' = Append(got, line.id))
        /\ clean' = (clean /\ rcv' # "gone")
    BY <1>8, Received DEF ReceiveBlock, Answers, BlockOnLine
  <2>2. got' \in Seq(Picture)
    BY <2>1
  <2>3. clean' \in BOOLEAN
    BY <2>1
  <2>4. QED
    BY <2>1, <2>2, <2>3 DEF sender
<1>9. CASE ReceiveEnd
  BY <1>9 DEF ReceiveEnd, Answers, sender, Nothing
<1>10. CASE Unheard
  BY <1>10 DEF Unheard, sender, receiver, Nothing
<1>11. CASE Impatient
  BY <1>11 DEF Impatient, Answers, Waits, sender, receiver
<1>12. CASE Cancels
  <2>1. Crcflg' \in BOOLEAN /\ crossed' \in BOOLEAN /\ clean' \in BOOLEAN
    BY <1>12 DEF Cancels, sender
  <2>2. QED
    BY <1>12, <2>1 DEF Cancels, Answers, sender
<1>13. CASE Types
  BY <1>13 DEF Types, sender, receiver
<1>14. CASE Garble
  <2>1. Crcflg' \in BOOLEAN /\ crossed' \in BOOLEAN /\ clean' \in BOOLEAN
    BY <1>14 DEF Garble, sender
  <2>2. QED
    BY <1>14, <2>1 DEF Garble, sender, receiver, Nothing
<1>15. CASE UNCHANGED vars
  BY <1>15 DEF vars, sender, receiver
<1>16. QED
  BY <1>1, <1>2, <1>3, <1>4, <1>5, <1>6, <1>7, <1>8, <1>9, <1>10, <1>11, <1>12, <1>13, <1>14, <1>15
  DEF Next, Sender, Receiver

(* Blocks on the line are of the picture, counters within their limits, and  *)
(* no state of xput has a byte, a block or a retry it does not know.       *)
THEOREM XmodemTypes == Spec => []TypeOK
<1>1. Init => TypeOK /\ RetryInv
  <2>1. Init => Crcflg \in BOOLEAN /\ crossed \in BOOLEAN /\ clean \in BOOLEAN
    BY DEF Init
  <2>2. QED
    BY <2>1, XmodemAssumption DEF Init, TypeOK, RetryInv, Nothing, Bytes
<1>2. TypeOK /\ RetryInv /\ [Next]_vars => TypeOK' /\ RetryInv'
  BY TypeStep
<1>3. QED
  BY <1>1, <1>2, PTL DEF Spec
=============================================================================
