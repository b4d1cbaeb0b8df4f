------------------------------- MODULE Packets -------------------------------
(***************************************************************************)
(* The packets of the two protocols (lib/common/packet/packet.py), with    *)
(* the fields the endpoints decide on.  The port and the length are left   *)
(* out; data is 0 for an empty payload, the number of the chunk for a      *)
(* piece of the file, and the number of chunks for a file size.            *)
(***************************************************************************)
EXTENDS Naturals

Packet ==
    [ack : BOOLEAN, fin : BOOLEAN, seq : Nat, an : Nat, data : Nat]

\* A data packet: sequence number, piggybacked ack number, payload.
DataPkt(s, a, d, last) ==
    [ack |-> FALSE, fin |-> last, seq |-> s, an |-> a, data |-> d]

\* A download's first chunk also confirms the file name (is_first_chunk).
FirstChunkPkt(s, a, d, last) ==
    [ack |-> TRUE, fin |-> last, seq |-> s, an |-> a, data |-> d]

\* send_ack and send_fin of the four protocol classes: no payload.
AckPkt(s, a) == [ack |-> TRUE, fin |-> FALSE, seq |-> s, an |-> a, data |-> 0]
FinPkt(s, a) == [ack |-> FALSE, fin |-> TRUE, seq |-> s, an |-> a, data |-> 0]

\* SocketSaw.last_raw_packet = None: no such packet is ever sent.
NoPacket == [ack |-> FALSE, fin |-> FALSE, seq |-> 0, an |-> 0, data |-> 0]

-----------------------------------------------------------------------------
(* How the invariants of Stop-and-Wait speak of its packets.               *)

\* A packet without payload.
EmptyPacket == {p \in Packet : p.data = 0}

\* A packet whose number is one bit.
BitPacket == {p \in Packet : p.seq \in {0, 1}}
===============================================================================
