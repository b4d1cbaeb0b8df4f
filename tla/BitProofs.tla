------------------------------ MODULE BitProofs ------------------------------
(***************************************************************************)
(* Packets numbered with one bit, as both Stop-and-Wait transfers send     *)
(* them, and channels of them.                                             *)
(***************************************************************************)
EXTENDS NetworkProofs, PacketsProofs

\* A channel of packets numbered with one bit is one of packets.
LEMMA BitChannel ==
    ASSUME NEW ch \in Seq(BitPacket)
    PROVE  ch \in Seq(Packet) /\ Range(ch) \subseteq BitPacket
<1>1. \A k \in 1 .. Len(ch) : ch[k] \in BitPacket
  OBVIOUS
<1> QED
  BY <1>1 DEF Range, BitPacket

\* What both ends compose has a bit for a number.
LEMMA Composed ==
    ASSUME NEW s \in {0, 1}
    PROVE  /\ AckPkt(s, 0) \in BitPacket /\ FinPkt(s, 0) \in BitPacket
           /\ \A d \in Nat, last \in BOOLEAN :
                  DataPkt(s, 0, d, last) \in BitPacket
                  /\ FirstChunkPkt(s, 0, d, last) \in BitPacket
BY DEF AckPkt, FinPkt, DataPkt, FirstChunkPkt, BitPacket, Packet

\* A channel after a reception or a loss: packets are gone, none is new,
\* and the order of the others is the same.
Drains(ch, rest) ==
    /\ rest \in Seq(BitPacket)
    /\ Range(rest) \subseteq Range(ch)
    /\ \A T : Follows(ch, T) => Follows(rest, T)

\* A reception drains a channel.
LEMMA ReceiptDrains ==
    ASSUME NEW ch \in Seq(BitPacket), NEW i \in Deliverable(ch),
           NEW rest \in AfterReceipt(ch, i)
    PROVE  Drains(ch, rest) /\ ch[i] \in Range(ch) /\ ch[i] \in BitPacket
BY ReceiptContents, FollowsReceipt DEF Drains

\* So does a loss.
LEMMA LossDrains ==
    ASSUME NEW ch \in Seq(BitPacket), NEW rest \in AfterLoss(ch)
    PROVE  Drains(ch, rest)
BY LossContents, FollowsLoss DEF Drains

\* And a step that leaves it alone.
LEMMA KeptDrains ==
    ASSUME NEW ch \in Seq(BitPacket)
    PROVE  Drains(ch, ch)
BY DEF Drains

-----------------------------------------------------------------------------
(* A channel of packets of one kind, whatever the network does to it.      *)

\* What is sent keeps the kind.
LEMMA KindSent ==
    ASSUME NEW S, NEW ch \in Seq(S), NEW p \in S
    PROVE  Send(ch, p) \in Seq(S)
BY SendContents

\* Two packets sent one after the other do.
LEMMA KindSentTwice ==
    ASSUME NEW S, NEW ch \in Seq(S), NEW p \in S, NEW q \in S
    PROVE  Send(Send(ch, p), q) \in Seq(S)
<1>1. Send(ch, p) \in Seq(S)
  BY KindSent
<1> QED
  BY <1>1, KindSent

\* What is received is of the kind, and so is what is left.
LEMMA KindReceived ==
    ASSUME NEW S, NEW ch \in Seq(S), NEW i \in Deliverable(ch),
           NEW rest \in AfterReceipt(ch, i)
    PROVE  rest \in Seq(S) /\ ch[i] \in S
BY ReceiptContents

\* What a loss leaves is, too.
LEMMA KindLost ==
    ASSUME NEW S, NEW ch \in Seq(S), NEW rest \in AfterLoss(ch)
    PROVE  rest \in Seq(S)
BY LossContents
===============================================================================
