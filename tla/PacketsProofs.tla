---------------------------- MODULE PacketsProofs ----------------------------
(***************************************************************************)
(* The types of the packets and of their fields.                           *)
(***************************************************************************)
EXTENDS Packets, TLAPS

\* The constructors build packets.
LEMMA PacketTypes ==
    /\ \A s, a \in Nat : AckPkt(s, a) \in Packet /\ FinPkt(s, a) \in Packet
    /\ NoPacket \in Packet
BY DEF AckPkt, FinPkt, NoPacket, Packet

\* A packet with data is one too, and so is the one that answers a name.
LEMMA DataPacketTypes ==
    ASSUME NEW s \in Nat, NEW a \in Nat, NEW d \in Nat, NEW last \in BOOLEAN
    PROVE  /\ DataPkt(s, a, d, last) \in Packet
           /\ FirstChunkPkt(s, a, d, last) =
                  [ack |-> TRUE, fin |-> last, seq |-> s, an |-> a, data |-> d]
           /\ FirstChunkPkt(s, a, d, last) \in Packet
BY DEF DataPkt, FirstChunkPkt, Packet

\* Acknowledgements carry no payload, and a packet of no chunk neither.
LEMMA EmptyPackets ==
    ASSUME NEW s \in Nat, NEW a \in Nat
    PROVE  /\ AckPkt(s, a) \in EmptyPacket /\ FinPkt(s, a) \in EmptyPacket
           /\ \A last \in BOOLEAN : DataPkt(s, a, 0, last) \in EmptyPacket
BY DEF AckPkt, FinPkt, DataPkt, EmptyPacket, Packet

\* The fields of a packet have their types.
LEMMA PacketFields ==
    ASSUME NEW p \in Packet
    PROVE  /\ p.ack \in BOOLEAN /\ p.fin \in BOOLEAN
           /\ p.seq \in Nat /\ p.an \in Nat /\ p.data \in Nat
BY DEF Packet
===============================================================================
