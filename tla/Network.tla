------------------------------- MODULE Network -------------------------------
(***************************************************************************)
(* The datagram service under both protocols: one UDP channel per          *)
(* direction, a sequence of the packets that are in flight or in the       *)
(* receiver's socket buffer.  External to the repository: what is modelled *)
(* is what SocketSaw and SocketGbn assume of sendto and recvfrom.          *)
(***************************************************************************)
EXTENDS Naturals, Sequences, SequencesExt

CONSTANTS
    Capacity,   \* packets a channel holds; what is sent beyond it is dropped
    NetFaults   \* what this network does to a packet

ASSUME NetworkAssumption ==
    /\ Capacity \in Nat \ {0}
    /\ NetFaults \subseteq {"loss", "duplication", "reordering"}

\* sendto: the datagram enters the channel unless its buffer is full.
Send(ch, p) == IF Len(ch) < Capacity THEN Append(ch, p) ELSE ch

\* The positions recvfrom may take its datagram from.
Deliverable(ch) ==
    {i \in DOMAIN ch : i = 1 \/ "reordering" \in NetFaults}

\* What the channel may hold once the datagram at i has been received.
AfterReceipt(ch, i) ==
    {RemoveAt(ch, i)} \cup (IF "duplication" \in NetFaults THEN {ch} ELSE {})

\* What the channel may hold once the network has lost a datagram.
AfterLoss(ch) ==
    {RemoveAt(ch, i) : i \in {j \in DOMAIN ch : "loss" \in NetFaults}}

-----------------------------------------------------------------------------
(* How the invariants speak of a channel that keeps the order.             *)

\* Behind a packet of T come only packets of T.
Follows(ch, T) == \A i, j \in DOMAIN ch : i < j /\ ch[i] \in T => ch[j] \in T
===============================================================================
