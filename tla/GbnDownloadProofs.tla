-------------------------- MODULE GbnDownloadProofs --------------------------
(***************************************************************************)
(* What holds of every download under Go-Back-N, whatever the number of    *)
(* chunks, the window, the capacity of the channels and the faults of the  *)
(* network: the client's file is a prefix of the server's, all of it when  *)
(* it is kept, and the sender's window never passes it.                    *)
(***************************************************************************)
EXTENDS GbnDownloadInvariant, NetworkProofs, PacketsProofs

\* What a step of the client that receives starts from.
LEMMA ClientReceipt ==
    ASSUME TypeOK, NEW i \in Deliverable(s2c), ClientReceives(i)
    PROVE  /\ s2c[i] \in Packet /\ s2c[i] \in ToClient
           /\ s2c' \in Seq(Packet) /\ Range(s2c') \subseteq Range(s2c)
           /\ UNCHANGED server
<1>1. s2c' \in AfterReceipt(s2c, i) /\ UNCHANGED server
  BY DEF ClientReceives, ClientName_Answer, ClientFirst_Receives,
         ClientLoop_Receives, ClientFinalizes_Answer
<1>2. s2c \in Seq(Packet)
  BY DEF TypeOK
<1> QED
  BY <1>1, <1>2, ReceiptContents DEF ToClient

\* What a step of the server that receives starts from.
LEMMA ServerReceipt ==
    ASSUME TypeOK, NEW i \in Deliverable(c2s), ServerReceivesAt(i)
    PROVE  /\ c2s[i] \in Packet /\ c2s[i] \in ToServer
           /\ c2s' \in Seq(Packet) /\ Range(c2s') \subseteq Range(c2s)
           /\ UNCHANGED <<client, exists>>
<1>1. c2s' \in AfterReceipt(c2s, i) /\ UNCHANGED <<client, exists>>
  BY DEF ServerReceivesAt, ServerFilename_Receives, ServerChunk_Ack,
         ServerAwait_Ack, ServerCloses_Answer, ServerRefuses_Answer,
         Relisten, Complete
<1>2. c2s \in Seq(Packet)
  BY DEF TypeOK
<1> QED
  BY <1>1, <1>2, ReceiptContents DEF ToServer

\* The finalization sends two packets with its number.
LEMMA FinalizeSends ==
    ASSUME TypeOK, NEW s \in Nat, Finalize(s)
    PROVE  /\ cpc' = "finalizing" /\ cseq' = s + 1
           /\ clast' = FinPkt(s, s) /\ clast' \in Packet
           /\ c2s' \in Seq(Packet)
           /\ ToServer' \subseteq ToServer \cup {AckPkt(s, s), FinPkt(s, s)}
<1>1. AckPkt(s, s) \in Packet /\ FinPkt(s, s) \in Packet
  BY PacketTypes
<1>2. /\ Send(c2s, AckPkt(s, s)) \in Seq(Packet)
      /\ Range(Send(c2s, AckPkt(s, s))) \subseteq Range(c2s) \cup {AckPkt(s, s)}
  BY <1>1, SendContents DEF TypeOK
<1>3. /\ Send(Send(c2s, AckPkt(s, s)), FinPkt(s, s)) \in Seq(Packet)
      /\ Range(Send(Send(c2s, AckPkt(s, s)), FinPkt(s, s)))
             \subseteq Range(c2s) \cup {AckPkt(s, s), FinPkt(s, s)}
  BY <1>1, <1>2, SendContents
<1> QED
  BY <1>1, <1>3 DEF Finalize, ToServer

\* The client sends its last packet again, and nothing else changes.
LEMMA RelistenSends ==
    ASSUME TypeOK, ClientRelistens
    PROVE  c2s' \in Seq(Packet) /\ ToServer' \subseteq ToServer
<1>1. /\ c2s' \in Seq(Packet)
      /\ Range(c2s') \subseteq Range(c2s) \cup {clast}
  BY SendContents DEF TypeOK, ClientRelistens
<1> QED
  BY <1>1 DEF ClientRelistens, ToServer

\* An ACK of the client's.
LEMMA AckSends ==
    ASSUME TypeOK, NEW n \in Nat, c2s' = Send(c2s, AckPkt(n, n)),
           clast' \in {clast, AckPkt(n, n)}
    PROVE  /\ c2s' \in Seq(Packet) /\ clast' \in Packet
           /\ ToServer' \subseteq ToServer \cup {AckPkt(n, n)}
<1>1. AckPkt(n, n) \in Packet
  BY PacketTypes
<1>2. /\ c2s' \in Seq(Packet)
      /\ Range(c2s') \subseteq Range(c2s) \cup {AckPkt(n, n)}
  BY <1>1, SendContents DEF TypeOK
<1> QED
  BY <1>1, <1>2 DEF TypeOK, ToServer

\* What the server sends again was sent before.
LEMMA ServerRelistenSends ==
    ASSUME TypeOK, Relisten
    PROVE  /\ s2c' \in Seq(Packet) /\ ToClient' \subseteq ToClient
<1>1. /\ s2c' \in Seq(Packet)
      /\ Range(s2c') \subseteq Range(s2c) \cup {slast}
  BY SendContents DEF TypeOK, Relisten, Resend
<1> QED
  BY <1>1 DEF Relisten, ToClient

\* A packet of the server's.
LEMMA ServerSendsOne ==
    ASSUME TypeOK, NEW p \in Packet, s2c' = Send(s2c, p),
           slast' \in {slast, p}
    PROVE  /\ s2c' \in Seq(Packet) /\ slast' \in Packet
           /\ ToClient' \subseteq ToClient \cup {p}
<1>1. /\ s2c' \in Seq(Packet)
      /\ Range(s2c') \subseteq Range(s2c) \cup {p}
  BY SendContents DEF TypeOK
<1> QED
  BY <1>1 DEF TypeOK, ToClient

-----------------------------------------------------------------------------
(* Types *)

\* A client's step keeps the types.
LEMMA ClientTypeStep ==
    ASSUME TypeOK, NEW i \in Deliverable(s2c), ClientReceives(i)
    PROVE  TypeOK'
<1>1. /\ s2c[i] \in Packet /\ s2c' \in Seq(Packet)
      /\ UNCHANGED <<spc, base, next, sack, exists, slast, finBack>>
  BY ClientReceipt DEF server
<1>2. s2c[i].seq \in Nat /\ s2c[i].data \in Nat
  BY <1>1, PacketFields
<1>3. Stored(s2c[i].data) \in Seq(Nat)
  BY <1>2 DEF Stored, TypeOK
<1>4. cseq \in Nat /\ cseq + 1 \in Nat
  BY DEF TypeOK
<1>5. ASSUME NEW n \in Nat, Finalize(n), data' \in Seq(Nat),
             disk' \in {"partial", "saved", "absent"}
      PROVE  TypeOK'
  BY <1>1, <1>5, FinalizeSends DEF TypeOK
<1>6. ASSUME ClientRelistens
      PROVE  TypeOK'
  BY <1>1, <1>6, RelistenSends DEF TypeOK, ClientRelistens
<1>7. ASSUME NEW n \in Nat, c2s' = Send(c2s, AckPkt(n, n)),
             clast' \in {clast, AckPkt(n, n)}, disk' = disk,
             cpc' \in ClientReceiving, cseq' \in Nat, data' \in Seq(Nat)
      PROVE  TypeOK'
  BY <1>1, <1>7, AckSends DEF TypeOK
<1>8. CASE ClientName_Answer(i)
  <2>1. CASE Abort
    BY <1>4, <1>5, <2>1 DEF Abort, TypeOK
  <2>2. CASE StoreLast(s2c[i], cseq)
    BY <1>3, <1>4, <1>5, <2>2 DEF StoreLast
  <2>3. CASE /\ data' = Stored(s2c[i].data) /\ clast' = AckPkt(cseq, cseq)
             /\ c2s' = Send(c2s, clast') /\ cpc' = "first"
             /\ UNCHANGED <<cseq, disk>>
    BY <1>3, <1>4, <1>7, <2>3 DEF ClientReceiving
  <2> QED
    BY <1>6, <1>8, <2>1, <2>2, <2>3 DEF ClientName_Answer
<1>9. CASE ClientFirst_Receives(i)
  <2>1. CASE StoreLast(s2c[i], s2c[i].seq)
    BY <1>2, <1>3, <1>5, <2>1 DEF StoreLast
  <2>2. CASE cpc' = "loop" /\ cseq' = s2c[i].seq
             /\ UNCHANGED <<data, disk, clast, c2s>>
    BY <1>1, <1>2, <2>2 DEF TypeOK, ClientReceiving
  <2>3. CASE /\ c2s' = IF s2c[i].seq = cseq /\ ~s2c[i].fin
                       THEN Send(Send(c2s, AckPkt(cseq, cseq)), clast)
                       ELSE Send(c2s, clast)
             /\ UNCHANGED <<cpc, cseq, data, disk, clast>>
    <3>1. clast \in Packet /\ AckPkt(cseq, cseq) \in Packet
      BY <1>4, PacketTypes DEF TypeOK
    <3>2. Send(c2s, AckPkt(cseq, cseq)) \in Seq(Packet)
      BY <3>1, SendContents DEF TypeOK
    <3>3. Send(Send(c2s, AckPkt(cseq, cseq)), clast) \in Seq(Packet)
      BY <3>1, <3>2, SendContents
    <3>4. Send(c2s, clast) \in Seq(Packet)
      BY <3>1, SendContents DEF TypeOK
    <3> QED
      BY <1>1, <2>3, <3>3, <3>4 DEF TypeOK
  <2> QED
    BY <1>9, <2>1, <2>2, <2>3 DEF ClientFirst_Receives
<1>10. CASE ClientLoop_Receives(i)
  <2>1. CASE StoreLast(s2c[i], cseq)
    BY <1>3, <1>4, <1>5, <2>1 DEF StoreLast
  <2>2. CASE /\ data' = Stored(s2c[i].data) /\ cseq' = cseq + 1
             /\ c2s' = Send(c2s, AckPkt(cseq, cseq))
             /\ UNCHANGED <<cpc, disk, clast>>
    BY <1>3, <1>4, <1>7, <1>10, <2>2 DEF ClientLoop_Receives, ClientReceiving
  <2>3. CASE /\ c2s' = Send(c2s, OutOfOrderAck(s2c[i]))
             /\ UNCHANGED <<cpc, cseq, data, disk, clast>>
    BY <1>4, <1>7, <1>10, <2>3
    DEF ClientLoop_Receives, OutOfOrderAck, ClientReceiving, TypeOK
  <2> QED
    BY <1>10, <2>1, <2>2, <2>3 DEF ClientLoop_Receives
<1>11. CASE ClientFinalizes_Answer(i)
  <2>1. CASE cpc' = "closed" /\ disk' = CleanedUp
             /\ UNCHANGED <<cseq, data, clast, c2s>>
    BY <1>1, <2>1 DEF TypeOK, CleanedUp, ClientEnds
  <2> QED
    BY <1>6, <1>11, <2>1 DEF ClientFinalizes_Answer
<1> QED
  BY <1>8, <1>9, <1>10, <1>11 DEF ClientReceives

\* A step of the server that receives keeps the types.
LEMMA ServerTypeStep ==
    ASSUME TypeOK, NEW i \in Deliverable(c2s), ServerReceivesAt(i)
    PROVE  TypeOK'
<1>1. /\ c2s[i] \in Packet /\ c2s' \in Seq(Packet)
      /\ UNCHANGED <<cpc, cseq, data, disk, clast, exists>>
  BY ServerReceipt DEF client
<1>2. c2s[i].seq \in Nat /\ c2s[i].an \in Nat
  BY <1>1, PacketFields
<1>3. ASSUME Relisten
      PROVE  TypeOK'
  BY <1>1, <1>3, ServerRelistenSends DEF TypeOK, Relisten
<1>4. Window \in Nat \ {0} /\ NChunks \in Nat
  BY GbnDownloadAssumption
<1>5. base \in Nat /\ next \in Nat /\ sack \in Nat /\ next + Offset \in Nat
  BY <1>4 DEF TypeOK, Offset
<1>6. ASSUME NEW n \in Nat, NEW m \in Nat, s2c' = Send(s2c, AckPkt(n, m))
      PROVE  s2c' \in Seq(Packet)
  BY <1>6, PacketTypes, SendContents DEF TypeOK
<1>7. CASE ServerFilename_Receives(i)
  <2>1. CASE Refuse /\ UNCHANGED <<base, exists, finBack>>
    <3>1. FinPkt(2, 2) \in Packet /\ FinPkt(3, 3) \in Packet
      BY PacketTypes
    <3>2. Send(s2c, FinPkt(2, 2)) \in Seq(Packet)
      BY <3>1, SendContents DEF TypeOK
    <3>3. Send(Send(s2c, FinPkt(2, 2)), FinPkt(3, 3)) \in Seq(Packet)
      BY <3>1, <3>2, SendContents
    <3>4. sack' = 3 /\ slast' = FinPkt(3, 3) /\ s2c' \in Seq(Packet)
          /\ spc' = "refusing" /\ next' = next
      BY <2>1, <3>3 DEF Refuse, FilenameSeq
    <3> QED
      BY <1>1, <2>1, <3>1, <3>4 DEF TypeOK, ServerWaits
  <2>2. CASE SendFirst /\ UNCHANGED <<base, exists, finBack>>
    <3>1. slast' \in Packet
      BY <2>2, DataPacketTypes DEF SendFirst, FilenameSeq
    <3>2. s2c' \in Seq(Packet)
      BY <2>2, <3>1, SendContents DEF SendFirst, TypeOK
    <3>3. /\ sack' = 2 /\ next' = 1 /\ spc' \in {"closing", "chunk"}
          /\ next' \in 0 .. base + Window
      BY <1>4, <1>5, <2>2 DEF SendFirst, FilenameSeq
    <3> QED
      BY <1>1, <2>2, <3>1, <3>2, <3>3 DEF TypeOK, ServerWaits
  <2> QED
    BY <1>3, <1>7, <2>1, <2>2 DEF ServerFilename_Receives
<1>8. CASE ServerChunk_Ack(i)
  <2>1. CASE /\ spc' \in {"closing", "send"}
             /\ base' = 1 /\ next' = 1 /\ sack' = sack + 1
             /\ slast' = NoPacket /\ UNCHANGED <<exists, finBack, s2c>>
    <3>1. next' \in 0 .. base' + Window
      BY <1>4, <2>1
    <3> QED
      BY <1>1, <1>5, <2>1, <3>1, PacketTypes
      DEF TypeOK, ServerWaits, ServerSends
  <2> QED
    BY <1>3, <1>8, <2>1 DEF ServerChunk_Ack
<1>9. CASE ServerAwait_Ack(i)
  <2>1. finBack' \in BOOLEAN
    BY <1>1, <1>9, PacketFields DEF ServerAwait_Ack, TypeOK
  <2>2. /\ base' \in Nat /\ sack' \in Nat
        /\ next' \in 0 .. base' + Window
    <3>1. CASE UNCHANGED <<base, sack>> /\ next' \in {base, next}
      BY <1>4, <3>1 DEF TypeOK
    <3>2. CASE /\ Advances(c2s[i]) /\ base' = base + (c2s[i].an - sack)
               /\ sack' = c2s[i].an /\ next' = next
      <4>1. c2s[i].an - sack \in Nat
        BY <1>2, <1>5, <3>2 DEF Advances
      <4>2. next \in 0 .. base + Window
        BY DEF TypeOK
      <4> QED
        BY <1>2, <1>4, <1>5, <3>2, <4>1, <4>2
    <3> QED
      BY <1>9, <3>1, <3>2 DEF ServerAwait_Ack, ResetWindow
  <2>3. spc' \in {"failed", "send", "closing", "done"}
    BY <1>9
    DEF ServerAwait_Ack, LeaveLoop, Complete, NextIteration, ResetWindow
  <2>4. slast' \in {slast, NoPacket}
    BY <1>9 DEF ServerAwait_Ack, NextIteration, ResetWindow
  <2>5. s2c' \in Seq(Packet)
    <3>1. CASE s2c' = s2c
      BY <3>1 DEF TypeOK
    <3>2. CASE Complete
      BY <1>5, <1>6, <2>2, <3>2 DEF Complete
    <3> QED
      BY <1>9, <3>1, <3>2
      DEF ServerAwait_Ack, LeaveLoop, NextIteration, ResetWindow
  <2> QED
    BY <1>1, <2>1, <2>2, <2>3, <2>4, <2>5, PacketTypes
    DEF TypeOK, ServerWaits, ServerSends, ServerEnds
<1>10. CASE ServerCloses_Answer(i)
  <2>1. CASE Complete /\ UNCHANGED <<base, next, sack, exists, slast, finBack>>
    <3>1. s2c' \in Seq(Packet)
      BY <1>5, <1>6, <2>1 DEF Complete
    <3> QED
      BY <1>1, <2>1, <3>1 DEF Complete, TypeOK, ServerEnds
  <2> QED
    BY <1>3, <1>10, <2>1 DEF ServerCloses_Answer
<1>11. CASE ServerRefuses_Answer(i)
  <2>1. CASE /\ spc' = "refused"
             /\ s2c' = Send(s2c, AckPkt(c2s[i].seq + 1, c2s[i].seq + 1))
             /\ UNCHANGED <<base, next, sack, exists, slast, finBack>>
    <3>1. s2c' \in Seq(Packet)
      BY <1>2, <1>6, <2>1
    <3> QED
      BY <1>1, <2>1, <3>1 DEF TypeOK, ServerEnds
  <2> QED
    BY <1>3, <1>11, <2>1 DEF ServerRefuses_Answer
<1> QED
  BY <1>7, <1>8, <1>9, <1>10, <1>11 DEF ServerReceivesAt

\* Every step keeps the types.
LEMMA TypeStep == TypeOK /\ [Next]_vars => TypeOK'
<1> SUFFICES ASSUME TypeOK, [Next]_vars
             PROVE  TypeOK'
  OBVIOUS
<1>1. Window \in Nat \ {0} /\ NChunks \in Nat
  BY GbnDownloadAssumption
<1>2. CASE \E i \in Deliverable(s2c) : ClientReceives(i)
  BY <1>2, ClientTypeStep
<1>3. CASE \E i \in Deliverable(c2s) : ServerReceivesAt(i)
  BY <1>3, ServerTypeStep
<1>4. CASE ServerSendsChunk
  <2>1. IsLast(next) \in BOOLEAN /\ next + Offset \in Nat /\ next + 1 \in Nat
        /\ sack \in Nat
    BY <1>1 DEF IsLast, TypeOK, Offset
  <2>2. slast' \in Packet /\ s2c' \in Seq(Packet)
    BY <1>4, <2>1, DataPacketTypes, ServerSendsOne DEF ServerSendsChunk
  <2>3. next' \in 0 .. base + Window
    BY <1>1, <1>4 DEF ServerSendsChunk, InWindow, TypeOK
  <2> QED
    BY <1>4, <2>2, <2>3 DEF ServerSendsChunk, TypeOK, client
<1>5. CASE ServerWindowSent
  <2>1. s2c' \in Seq(Packet)
    <3>1. next + Offset \in Nat /\ sack' \in Nat
      BY <1>5 DEF ServerWindowSent, TypeOK, Offset
    <3>2. AckPkt(next + Offset, sack') \in Packet
      BY <3>1, PacketTypes
    <3>3. CASE s2c' = s2c
      BY <3>3 DEF TypeOK
    <3>4. CASE s2c' = Send(s2c, AckPkt(next + Offset, sack'))
      BY <3>2, <3>4, SendContents DEF TypeOK
    <3> QED
      BY <1>5, <3>3, <3>4 DEF ServerWindowSent, LeaveLoop, Complete
  <2>2. spc' \in {"await", "closing", "done"}
    BY <1>5 DEF ServerWindowSent, LeaveLoop, Complete
  <2> QED
    BY <1>5, <2>1, <2>2
    DEF ServerWindowSent, TypeOK, client, ServerWaits, ServerSends, ServerEnds
<1>6. CASE ServerAwait_Timeout
  BY <1>1, <1>6, PacketTypes
  DEF ServerAwait_Timeout, ResetWindow, NextIteration, TypeOK, client,
      ServerSends
<1>7. CASE ClientRetransmits
  BY <1>7, RelistenSends
  DEF ClientRetransmits, ClientRelistens, TypeOK, server
<1>8. CASE ClientGivesUp
  <2>1. UNCHANGED <<spc, base, next, sack, exists, slast, finBack, s2c>>
    BY <1>8 DEF ClientGivesUp, server
  <2>2. CASE Abort
    BY <2>1, <2>2, FinalizeSends DEF Abort, TypeOK
  <2>3. CASE /\ cpc' = "closed" /\ disk' = CleanedUp
             /\ UNCHANGED <<cseq, data, clast, c2s>>
    BY <2>1, <2>3 DEF TypeOK, CleanedUp, ClientEnds
  <2>4. CASE cpc' = "crashed" /\ UNCHANGED <<cseq, data, disk, clast, c2s>>
    BY <2>1, <2>4 DEF TypeOK, ClientEnds
  <2> QED
    BY <1>8, <2>2, <2>3, <2>4 DEF ClientGivesUp
<1>9. CASE ClientStops
  BY <1>9 DEF ClientStops, TypeOK, CleanedUp, ClientEnds, server
<1>10. CASE ServerRetransmits
  BY <1>10, ServerRelistenSends
  DEF ServerRetransmits, Relisten, TypeOK, client
<1>11. CASE ServerGivesUp
  BY <1>11 DEF ServerGivesUp, TypeOK, client, ServerEnds
<1>12. CASE ServerStops
  BY <1>12 DEF ServerStops, TypeOK, client, ServerEnds
<1>13. CASE Lose
  BY <1>13, LossContents DEF Lose, TypeOK, client, server
<1>14. CASE UNCHANGED vars
  BY <1>14 DEF TypeOK, vars, client, server
<1> QED
  BY <1>2, <1>3, <1>4, <1>5, <1>6, <1>7, <1>8, <1>9, <1>10, <1>11, <1>12,
     <1>13, <1>14
  DEF Next, Finished

\* The initial values have their types.
LEMMA InitTypes ==
    ASSUME Init
    PROVE  TypeOK
<1>1. AckPkt(1, 1) \in Packet /\ DataPkt(FilenameSeq, FilenameSeq, 0, FALSE) \in Packet
  BY PacketTypes, DataPacketTypes DEF FilenameSeq
<1>2. clast \in Packet /\ slast \in Packet
  BY <1>1, Zenon DEF Init
<1>3. c2s \in Seq(Packet) /\ s2c \in Seq(Packet)
  <2>1. c2s = <<clast>> /\ s2c \in {<<>>, <<AckPkt(1, 1)>>}
    BY DEF Init
  <2>2. ASSUME NEW p \in Packet PROVE <<p>> \in Seq(Packet)
    OBVIOUS
  <2>3. <<clast>> \in Seq(Packet) /\ <<AckPkt(1, 1)>> \in Seq(Packet)
    BY <1>1, <1>2, <2>2, Zenon
  <2>4. <<>> \in Seq(Packet)
    OBVIOUS
  <2> QED
    BY <2>1, <2>3, <2>4, Zenon
<1>4. /\ cpc = "filename" /\ cseq = FilenameSeq /\ data = <<>>
      /\ disk = "partial" /\ spc = "filename" /\ base = 0 /\ next = 0
      /\ sack = 1 /\ exists \in BOOLEAN /\ finBack = FALSE
  BY Zenon DEF Init
<1>5. cseq \in Nat /\ base \in Nat /\ next \in 0 .. base + Window /\ sack \in Nat
  BY <1>4, GbnDownloadAssumption DEF FilenameSeq
<1>6. /\ cpc \in ClientReceiving \cup {"finalizing"} \cup ClientEnds
      /\ disk \in {"partial", "saved", "absent"}
      /\ spc \in ServerWaits \cup ServerSends \cup ServerEnds
  BY <1>4 DEF ClientReceiving, ServerWaits
<1>7. exists \in BOOLEAN /\ finBack \in BOOLEAN
  BY <1>4, Zenon
<1>8. data \in Seq(Nat)
  BY <1>4
<1> QED
  BY <1>2, <1>3, <1>5, <1>6, <1>7, <1>8, Zenon DEF TypeOK

\* Every variable keeps its type: the window's numbers stay naturals, what
\* was sent stays within the window, both channels hold packets only.
THEOREM TypeCorrect == Spec => []TypeOK
BY InitTypes, TypeStep, PTL DEF Spec

-----------------------------------------------------------------------------
(* The inductive invariant *)

\* What is on its way is packets.
LEMMA PacketsOnTheirWay ==
    ASSUME TypeOK
    PROVE  ToServer \subseteq Packet /\ ToClient \subseteq Packet
BY DEF TypeOK, ToServer, ToClient, Range

\* What a step of the client must show: its own numbers, its file, and that
\* it answers no more than it stored.
LEMMA ClientKeeps ==
    ASSUME GInv, TypeOK', UNCHANGED server, ToClient' \subseteq ToClient,
           StoredInv', ClientInv',
           ~exists => data' = <<>> /\ cpc' \notin {"first", "loop"},
           Len(data) <= Len(data)', Detached => Detached',
           \A p \in ToServer' \ ToServer : AnswerFits(p)'
    PROVE  GInv'
<1>1. UNCHANGED <<spc, base, next, sack, exists, slast, finBack>>
  BY DEF server
<1>2. /\ Len(data) \in Nat /\ Len(data)' \in Nat
      /\ data # <<>> => data' # <<>>
  <2>1. data \in Seq(Nat) /\ data' \in Seq(Nat)
    BY DEF GInv, TypeOK
  <2>2. Len(data) \in Nat /\ Len(data') \in Nat
    BY <2>1
  <2>3. data # <<>> => Len(data) > 0
    BY <2>1
  <2>4. data' = <<>> => Len(data') = 0
    OBVIOUS
  <2> QED
    BY <2>2, <2>3, <2>4
<1>3. RefusedInv' /\ ChunkInv' /\ EmptyInv'
  <2>1. RefusedInv'
    BY <1>1 DEF GInv, RefusedInv, Refusal
  <2>2. ChunkInv'
    BY <1>1 DEF GInv, ChunkInv, ChunkFits
  <2>3. EmptyInv'
    BY <1>1 DEF GInv, EmptyInv, EmptyFits
  <2> QED
    BY <2>1, <2>2, <2>3
<1>4. AnswerInv'
  <2> SUFFICES ASSUME NEW p \in ToServer'
               PROVE  AnswerFits(p)'
    BY DEF AnswerInv
  <2>1. CASE p \in ToServer
    <3>1. AnswerFits(p) /\ p.an \in Nat
      BY <2>1, PacketsOnTheirWay, PacketFields DEF GInv, AnswerInv
    <3> QED
      BY <1>2, <3>1 DEF AnswerFits, Offset
  <2> QED
    BY <2>1
<1>5. SenderInv'
  BY <1>1, <1>2 DEF GInv, SenderInv, InWindow
<1> QED
  BY <1>3, <1>4, <1>5 DEF GInv

\* What a step of the server must show: its own numbers, that its window
\* stays behind the client's file, and the packets it adds.
LEMMA ServerKeeps ==
    ASSUME GInv, TypeOK', UNCHANGED <<client, exists>>,
           ToServer' \subseteq ToServer,
           base <= base', base' <= Len(data) \/ NChunks = 0,
           ~exists => base' = 0
                      /\ spc' \in {"filename", "refusing", "refused", "failed"},
           spc = "done" => spc' = "done",
           SenderInv',
           \A p \in ToClient' \ ToClient :
               /\ ~exists => Refusal(p)
               /\ p.data # 0 => ChunkFits(p)'
               /\ exists /\ p.data = 0 => EmptyFits(p)'
    PROVE  GInv'
<1>1. UNCHANGED <<cpc, cseq, data, disk, clast>>
  BY DEF client
<1>2. /\ base \in Nat /\ base' \in Nat /\ Len(data) \in Nat
      /\ Window \in Nat /\ NChunks \in Nat
  BY GbnDownloadAssumption DEF GInv, TypeOK
<1>3. RefusedInv'
  BY <1>1 DEF GInv, RefusedInv, Refusal
<1>4. ChunkInv'
  <2> SUFFICES ASSUME NEW p \in ToClient', p.data # 0
               PROVE  ChunkFits(p)'
    BY DEF ChunkInv
  <2>1. CASE p \in ToClient
    <3>1. ChunkFits(p) /\ p.data \in Nat
      BY <2>1, PacketsOnTheirWay, PacketFields DEF GInv, ChunkInv
    <3> QED
      BY <1>2, <3>1 DEF ChunkFits
  <2> QED
    BY <2>1
<1>5. EmptyInv'
  <2> SUFFICES ASSUME exists, NEW p \in ToClient', p.data = 0
               PROVE  EmptyFits(p)'
    BY DEF EmptyInv
  <2>1. CASE p \in ToClient
    <3>1. EmptyFits(p)
      BY <2>1 DEF GInv, EmptyInv
    <3> QED
      BY <3>1 DEF EmptyFits
  <2> QED
    BY <2>1
<1>6. StoredInv' /\ ClientInv'
  <2>1. StoredInv /\ ClientInv
    BY DEF GInv
  <2>2. StoredInv'
    BY <1>1, <1>2, <2>1 DEF StoredInv
  <2>3. ClientInv'
    BY <1>1, <2>1 DEF ClientInv, LastSeq
  <2> QED
    BY <2>2, <2>3
<1>7. AnswerInv'
  BY <1>1 DEF GInv, AnswerInv, AnswerFits, Detached
<1> QED
  BY <1>3, <1>4, <1>5, <1>6, <1>7 DEF GInv

\* Storing the chunk after the last one stored extends the prefix.
LEMMA ChunkStores ==
    ASSUME GInv, NEW p \in ToClient, p.data = Len(data) + 1,
           data' = Stored(p.data), base' = base
    PROVE  /\ StoredInv' /\ Len(data)' = Len(data) + 1
           /\ data' = Append(data, Len(data) + 1)
           /\ Len(data) + 1 <= NChunks
           /\ p.fin <=> Len(data) + 1 = NChunks
           /\ exists
<1>1. data \in Seq(Nat) /\ base \in Nat /\ Len(data) \in Nat
      /\ NChunks \in Nat /\ Window \in Nat
  BY GbnDownloadAssumption DEF GInv, TypeOK
<1>2. p.data # 0 /\ ChunkFits(p)
  BY <1>1 DEF GInv, ChunkInv
<1>3. exists
  BY <1>2 DEF GInv, RefusedInv, Refusal
<1>4. data' = Append(data, Len(data) + 1) /\ Len(data)' = Len(data) + 1
  BY <1>1, <1>2 DEF Stored
<1>5. data' = [k \in 1 .. Len(data) + 1 |-> k]
  <2>1. data = [k \in 1 .. Len(data) |-> k]
    BY DEF GInv, StoredInv
  <2>2. DOMAIN data' = 1 .. Len(data) + 1
    BY <1>1, <1>4
  <2>3. ASSUME NEW k \in 1 .. Len(data) + 1
        PROVE  data'[k] = k
    BY <1>1, <1>4, <2>1, <2>3
  <2>4. data' \in Seq(Nat)
    BY <1>1, <1>4
  <2> QED
    BY <2>2, <2>3, <2>4
<1>6. /\ base <= Len(data) \/ NChunks = 0
      /\ Len(data) <= base + Window
  BY DEF GInv, StoredInv
<1>7. /\ Len(data) + 1 <= NChunks /\ Len(data) + 1 <= base + Window
      /\ p.fin <=> Len(data) + 1 = NChunks
  BY <1>1, <1>2 DEF ChunkFits
<1>8. StoredInv'
  <2>1. data' = [k \in 1 .. Len(data') |-> k]
    BY <1>4, <1>5
  <2>2. /\ Len(data') <= NChunks /\ Len(data') <= base' + Window
        /\ base' <= Len(data') \/ NChunks = 0
    BY <1>1, <1>4, <1>6, <1>7
  <2> QED
    BY <2>1, <2>2 DEF StoredInv
<1> QED
  BY <1>3, <1>4, <1>7, <1>8

\* What the client stores of a packet it takes for the first chunk.
LEMMA FirstChunkFits ==
    ASSUME GInv, cpc = "filename", NEW p \in ToClient, IsFirstChunk(p)
    PROVE  /\ exists /\ cseq = FilenameSeq /\ data = <<>>
           /\ p.data = 1 \/ (p.data = 0 /\ NChunks = 0 /\ ~p.fin)
<1>1. cseq = FilenameSeq /\ data = <<>>
  BY DEF GInv, ClientInv
<1>2. exists
  BY <1>1 DEF GInv, RefusedInv, Refusal, IsFirstChunk
<1>3. CASE p.data # 0
  BY <1>1, <1>2, <1>3 DEF GInv, ChunkInv, ChunkFits, IsFirstChunk
<1>4. CASE p.data = 0
  BY <1>1, <1>2, <1>4
  DEF GInv, EmptyInv, EmptyFits, IsFirstChunk, FilenameSeq
<1> QED
  BY <1>1, <1>2, <1>3, <1>4

\* What the client stores of the packet it expects.
LEMMA ExpectedFits ==
    ASSUME GInv, cpc \in {"first", "loop"}, NEW p \in ToClient,
           p.seq = IF cpc = "first" THEN cseq + 1 ELSE cseq
    PROVE  /\ exists
           /\ \/ p.data = Len(data) + 1 /\ p.seq = Len(data) + Offset
              \/ p.data = 0 /\ ~p.fin /\ spc = "done" /\ p.seq >= LastSeq
           /\ cpc = "first" => p.seq = FilenameSeq + 1
           /\ p.seq \in Nat /\ p.seq > FilenameSeq
<1>1. exists
  BY DEF GInv, RefusedInv
<1>2. p \in Packet
  BY PacketsOnTheirWay DEF GInv
<1>3. p.seq \in Nat /\ p.data \in Nat /\ cseq \in Nat /\ Len(data) \in Nat
      /\ NChunks \in Nat
  BY <1>2, PacketFields, GbnDownloadAssumption DEF GInv, TypeOK
<1>4. /\ p.seq > FilenameSeq
      /\ cpc = "first" => p.seq = FilenameSeq + 1
  BY <1>3 DEF GInv, ClientInv, FilenameSeq
<1>5. CASE p.data = 0
  <2>1. EmptyFits(p)
    BY <1>1, <1>5 DEF GInv, EmptyInv
  <2> QED
    BY <1>1, <1>3, <1>4, <1>5, <2>1 DEF EmptyFits, FilenameSeq
<1>6. CASE p.data # 0
  <2>1. p.seq = p.data + 1 /\ p.data <= NChunks
    BY <1>6 DEF GInv, ChunkInv, ChunkFits
  <2>2. p.seq = Len(data) + Offset
    <3>1. CASE cpc = "first"
      <4>1. NChunks # 0 /\ p.seq = 3
        BY <1>3, <1>4, <1>6, <2>1, <3>1 DEF FilenameSeq
      <4>2. Len(data) = 1
        BY <3>1, <4>1 DEF GInv, ClientInv
      <4> QED
        BY <4>1, <4>2 DEF Offset
    <3>2. CASE cpc = "loop"
      <4>1. p.seq = cseq
        BY <3>2
      <4>2. p.seq <= LastSeq
        BY <1>3, <2>1 DEF LastSeq
      <4>3. cseq = Len(data) + Offset \/ cseq > LastSeq
        BY <3>2 DEF GInv, ClientInv
      <4> QED
        BY <1>3, <4>1, <4>2, <4>3 DEF LastSeq
    <3> QED
      BY <3>1, <3>2
  <2> QED
    BY <1>1, <1>3, <1>4, <2>1, <2>2 DEF Offset
<1> QED
  BY <1>5, <1>6

\* Two packets with one number, ACK and FIN, answer what is stored.
LEMMA AnswersFit ==
    ASSUME GInv, TypeOK', NEW n \in Nat,
           n <= Len(data)' + Offset \/ Detached',
           n = FilenameSeq => data' # <<>> \/ NChunks = 0
    PROVE  AnswerFits(AckPkt(n, n))' /\ AnswerFits(FinPkt(n, n))'
BY DEF AnswerFits, AckPkt, FinPkt

\* Giving up, before anything was stored.
LEMMA AbortStep ==
    ASSUME GInv, TypeOK', cpc = "filename", Abort, UNCHANGED server,
           ToClient' \subseteq ToClient
    PROVE  GInv'
<1>1. TypeOK /\ cseq = FilenameSeq /\ data = <<>> /\ UNCHANGED <<data, disk>>
  BY DEF GInv, ClientInv, Abort
<1>2. 3 \in Nat /\ Finalize(3)
  BY <1>1 DEF Abort, FilenameSeq
<1>3. /\ cpc' = "finalizing" /\ cseq' = 4
      /\ ToServer' \subseteq ToServer \cup {AckPkt(3, 3), FinPkt(3, 3)}
  BY <1>1, <1>2, FinalizeSends
<1>4. Detached'
  BY <1>1, <1>3 DEF Detached, ClientReceiving
<1>5. AnswerFits(AckPkt(3, 3))' /\ AnswerFits(FinPkt(3, 3))'
  BY <1>2, <1>4, AnswersFit DEF FilenameSeq
<1>6. StoredInv'
  BY <1>1 DEF GInv, StoredInv, server
<1>7. ClientInv'
  BY <1>1, <1>3 DEF GInv, ClientInv, ClientReceiving
<1>8. Len(data) <= Len(data)'
  BY <1>1
<1> QED
  BY <1>1, <1>3, <1>4, <1>5, <1>6, <1>7, <1>8, ClientKeeps

\* Storing the last chunk.
LEMMA StoreLastStep ==
    ASSUME GInv, TypeOK', UNCHANGED server, ToClient' \subseteq ToClient,
           cpc \in ClientReceiving,
           NEW p \in ToClient, p.data = Len(data) + 1, p.fin,
           NEW n \in Nat, n <= Len(data) + Offset, StoreLast(p, n)
    PROVE  GInv'
<1>1. TypeOK /\ Len(data) \in Nat
  BY DEF GInv, TypeOK
<1>2. /\ StoredInv' /\ Len(data)' = Len(data) + 1 /\ exists
      /\ Len(data)' = NChunks
  BY ChunkStores DEF StoreLast, server
<1>3. /\ cpc' = "finalizing" /\ disk' = "saved"
      /\ ToServer' \subseteq ToServer \cup {AckPkt(n, n), FinPkt(n, n)}
  BY <1>1, FinalizeSends DEF StoreLast
<1>4. data' # <<>>
  BY <1>1, <1>2 DEF TypeOK
<1>5. n <= Len(data)' + Offset
  BY <1>1, <1>2 DEF Offset
<1>6. AnswerFits(AckPkt(n, n))' /\ AnswerFits(FinPkt(n, n))'
  BY <1>4, <1>5, AnswersFit
<1>7. ClientInv'
  BY <1>2, <1>3 DEF ClientInv, ClientReceiving
<1>8. Detached => Detached'
  BY DEF Detached, server
<1>9. Len(data) <= Len(data)'
  BY <1>1, <1>2
<1> QED
  BY <1>2, <1>3, <1>6, <1>7, <1>8, <1>9, ClientKeeps

\* A step of the client that only sends again.
LEMMA ClientRelistensStep ==
    ASSUME GInv, TypeOK', UNCHANGED server, ToClient' \subseteq ToClient,
           ToServer' \subseteq ToServer, UNCHANGED <<cpc, cseq, data, disk>>
    PROVE  GInv'
<1>1. StoredInv' /\ ClientInv' /\ (Detached => Detached')
  BY DEF GInv, StoredInv, ClientInv, Detached, server
<1>2. /\ ~exists => data' = <<>> /\ cpc' \notin {"first", "loop"}
      /\ Len(data) <= Len(data)'
  BY DEF GInv, RefusedInv, TypeOK
<1> QED
  BY <1>1, <1>2, ClientKeeps

\* The client's answers to what it receives keep the invariant.
LEMMA ClientReceivesStep ==
    ASSUME GInv, NEW i \in Deliverable(s2c), ClientReceives(i)
    PROVE  GInv'
<1> DEFINE p == s2c[i]
<1>1. TypeOK /\ TypeOK'
  BY ClientTypeStep DEF GInv
<1>2. /\ p \in Packet /\ p \in ToClient /\ UNCHANGED server
      /\ ToClient' \subseteq ToClient
  BY <1>1, ClientReceipt DEF server, ToClient
<1>3. p.seq \in Nat /\ p.data \in Nat /\ cseq \in Nat /\ Len(data) \in Nat
  BY <1>1, <1>2, PacketFields DEF TypeOK
<1>4. p = s2c[i]
  OBVIOUS
<1> HIDE DEF p
<1>5. ASSUME ClientRelistens
      PROVE  GInv'
  BY <1>1, <1>2, <1>5, RelistenSends, ClientRelistensStep DEF ClientRelistens
<1>6. CASE ClientName_Answer(i)
  <2>1. cpc = "filename" /\ cseq = FilenameSeq /\ data = <<>>
    BY <1>6 DEF ClientName_Answer, GInv, ClientInv
  <2>2. CASE Abort
    BY <1>1, <1>2, <2>1, <2>2, AbortStep
  <2>3. CASE IsFirstChunk(p) /\ p.fin /\ StoreLast(p, cseq)
    <3>1. p.data = Len(data) + 1
      BY <1>2, <2>1, <2>3, FirstChunkFits
    <3> QED
      BY <1>1, <1>2, <1>3, <2>1, <2>3, <3>1, StoreLastStep
      DEF ClientReceiving, FilenameSeq, Offset
  <2>4. CASE /\ IsFirstChunk(p) /\ ~p.fin
             /\ data' = Stored(p.data) /\ clast' = AckPkt(cseq, cseq)
             /\ c2s' = Send(c2s, clast') /\ cpc' = "first"
             /\ UNCHANGED <<cseq, disk>>
    <3>1. exists /\ (p.data = 1 \/ (p.data = 0 /\ NChunks = 0))
      BY <1>2, <2>1, <2>4, FirstChunkFits
    <3>2. /\ StoredInv' /\ Len(data) <= Len(data)'
          /\ Len(data)' = 1 \/ (NChunks = 0 /\ data' = <<>>)
      <4>1. CASE p.data = 1
        BY <1>2, <1>3, <2>1, <2>4, <4>1, ChunkStores DEF server
      <4>2. CASE p.data = 0
        <5>1. data' = data /\ Len(data)' = Len(data)
          BY <2>4, <4>2 DEF Stored
        <5> QED
          BY <1>2, <2>1, <3>1, <4>2, <5>1 DEF GInv, StoredInv, server
      <4> QED
        BY <3>1, <4>1, <4>2
    <3>3. ToServer' \subseteq ToServer \cup {AckPkt(2, 2)}
      BY <1>1, <2>1, <2>4, AckSends DEF FilenameSeq
    <3>4. data' # <<>> \/ NChunks = 0
      BY <3>2
    <3>5. AnswerFits(AckPkt(2, 2))'
      BY <1>1, <1>3, <3>2, <3>4, AnswersFit DEF FilenameSeq, Offset
    <3>6. ClientInv'
      BY <2>1, <2>4, <3>2 DEF GInv, ClientInv, ClientReceiving
    <3>7. Detached => Detached'
      BY <1>2, <2>1 DEF Detached, ClientReceiving, server
    <3> QED
      BY <1>1, <1>2, <3>1, <3>2, <3>3, <3>5, <3>6, <3>7, ClientKeeps
  <2> QED
    BY <1>4, <1>5, <1>6, <2>2, <2>3, <2>4 DEF ClientName_Answer
<1>7. CASE ClientFirst_Receives(i)
  <2>1. /\ cpc = "first" /\ cseq = FilenameSeq /\ exists
        /\ Len(data) = 1 \/ NChunks = 0
    BY <1>7 DEF ClientFirst_Receives, GInv, ClientInv, RefusedInv
  <2>2. CASE EndsFirst(p) /\ p.fin /\ StoreLast(p, p.seq)
    <3>1. p.data = Len(data) + 1 /\ p.seq = Len(data) + Offset
      BY <1>2, <2>1, <2>2, ExpectedFits DEF EndsFirst
    <3> QED
      BY <1>1, <1>2, <1>3, <2>1, <2>2, <3>1, StoreLastStep
      DEF ClientReceiving, Offset
  <2>3. CASE EndsFirst(p) /\ cpc' = "loop" /\ cseq' = p.seq
             /\ UNCHANGED <<data, disk, clast, c2s>>
    <3>1. /\ p.seq > FilenameSeq /\ p.seq = FilenameSeq + 1
          /\ \/ p.seq = Len(data) + Offset
             \/ p.seq >= LastSeq /\ spc = "done"
      BY <1>2, <2>1, <2>3, ExpectedFits DEF EndsFirst
    <3>2. p.seq = Len(data) + Offset \/ (p.seq > LastSeq /\ spc = "done")
      <4>1. CASE NChunks = 0
        BY <3>1, <4>1 DEF LastSeq, FilenameSeq
      <4>2. CASE Len(data) = 1
        BY <3>1, <4>2 DEF Offset, FilenameSeq
      <4> QED
        BY <2>1, <4>1, <4>2
    <3>3. ClientInv'
      BY <1>2, <2>1, <2>3, <3>1, <3>2
      DEF GInv, ClientInv, ClientReceiving, server
    <3>4. StoredInv' /\ (Detached => Detached') /\ Len(data) <= Len(data)'
      BY <1>2, <1>3, <2>1, <2>3
      DEF GInv, StoredInv, server, Detached, ClientReceiving
    <3>5. ToServer' = ToServer
      BY <2>3 DEF ToServer
    <3> QED
      BY <1>1, <1>2, <2>1, <3>3, <3>4, <3>5, ClientKeeps
  <2>4. CASE /\ c2s' = IF p.seq = cseq /\ ~p.fin
                       THEN Send(Send(c2s, AckPkt(cseq, cseq)), clast)
                       ELSE Send(c2s, clast)
             /\ UNCHANGED <<cpc, cseq, data, disk, clast>>
    <3>1. AckPkt(2, 2) \in Packet /\ clast \in Packet /\ c2s \in Seq(Packet)
      BY <1>1, PacketTypes DEF TypeOK
    <3>2. /\ Send(c2s, AckPkt(2, 2)) \in Seq(Packet)
          /\ Range(Send(c2s, AckPkt(2, 2))) \subseteq Range(c2s) \cup {AckPkt(2, 2)}
      BY <3>1, SendContents
    <3>8. Range(Send(c2s, clast)) \subseteq Range(c2s) \cup {clast}
      BY <3>1, SendContents
    <3>3. Range(Send(Send(c2s, AckPkt(2, 2)), clast))
              \subseteq Range(c2s) \cup {AckPkt(2, 2), clast}
      BY <3>1, <3>2, SendContents
    <3>4. ToServer' \subseteq ToServer \cup {AckPkt(2, 2)}
      BY <2>1, <2>4, <3>3, <3>8 DEF ToServer, FilenameSeq
    <3>5. data' # <<>> \/ NChunks = 0
      BY <2>1, <2>4
    <3>6. AnswerFits(AckPkt(2, 2))'
      BY <1>1, <1>3, <2>4, <3>5, AnswersFit DEF Offset, FilenameSeq
    <3>7. StoredInv' /\ ClientInv' /\ (Detached => Detached')
          /\ Len(data) <= Len(data)'
      BY <1>2, <1>3, <2>4 DEF GInv, StoredInv, ClientInv, Detached, server
    <3> QED
      BY <1>1, <1>2, <2>1, <3>4, <3>6, <3>7, ClientKeeps
  <2> QED
    BY <1>4, <1>7, <2>2, <2>3, <2>4 DEF ClientFirst_Receives
<1>8. CASE ClientLoop_Receives(i)
  <2>1. /\ cpc = "loop" /\ exists /\ cseq > FilenameSeq
        /\ cseq = Len(data) + Offset \/ (cseq > LastSeq /\ spc = "done")
    BY <1>8 DEF ClientLoop_Receives, GInv, ClientInv, RefusedInv
  <2>2. CASE IsExpected(p) /\ p.fin /\ StoreLast(p, cseq)
    <3>1. p.data = Len(data) + 1 /\ p.seq = Len(data) + Offset
      BY <1>2, <2>1, <2>2, ExpectedFits DEF IsExpected
    <3> QED
      BY <1>1, <1>2, <1>3, <2>1, <2>2, <3>1, StoreLastStep
      DEF ClientReceiving, Offset, IsExpected
  <2>3. CASE /\ IsExpected(p) /\ ~p.fin
             /\ data' = Stored(p.data) /\ cseq' = cseq + 1
             /\ c2s' = Send(c2s, AckPkt(cseq, cseq))
             /\ UNCHANGED <<cpc, disk, clast>>
    <3>1. /\ p.seq = cseq
          /\ \/ p.data = Len(data) + 1 /\ p.seq = Len(data) + Offset
             \/ p.data = 0 /\ spc = "done" /\ p.seq >= LastSeq
      BY <1>2, <2>1, <2>3, ExpectedFits DEF IsExpected
    <3>2. ToServer' \subseteq ToServer \cup {AckPkt(cseq, cseq)}
      BY <1>1, <1>3, <2>3, AckSends
    <3>3. Detached => Detached'
      BY <1>2, <2>1 DEF Detached, ClientReceiving, server
    <3>6. PICK n \in Nat : n = cseq
      BY <1>3
    <3>4. CASE p.data = Len(data) + 1 /\ cseq = Len(data) + Offset
      <4>1. /\ StoredInv' /\ Len(data)' = Len(data) + 1
        BY <1>2, <2>3, <3>4, ChunkStores DEF server
      <4>2. ClientInv'
        <5>1. /\ cpc' = "loop" /\ disk' = "partial"
              /\ cseq' = Len(data)' + Offset /\ cseq' > FilenameSeq
          BY <1>3, <2>1, <2>3, <3>4, <4>1
          DEF GInv, ClientInv, ClientReceiving, Offset, FilenameSeq
        <5> QED
          BY <5>1 DEF ClientInv, ClientReceiving
      <4>3. n <= Len(data)' + Offset /\ n # FilenameSeq
            /\ Len(data) <= Len(data)'
        BY <1>3, <2>1, <3>4, <3>6, <4>1 DEF Offset, FilenameSeq
      <4>4. AnswerFits(AckPkt(n, n))'
        BY <1>1, <4>3, AnswersFit
      <4> QED
        BY <1>1, <1>2, <2>1, <3>2, <3>6, <3>3, <4>1, <4>2, <4>3, <4>4, ClientKeeps
    <3>5. CASE p.data = 0 /\ spc = "done" /\ cseq >= LastSeq
      <4>1. data' = data
        BY <2>3, <3>5 DEF Stored
      <4>2. StoredInv' /\ Len(data) <= Len(data)'
        BY <1>2, <1>3, <4>1 DEF GInv, StoredInv, server
      <4>3. cseq' > LastSeq /\ cseq' > FilenameSeq
        BY <1>3, <2>1, <2>3, <3>5, GbnDownloadAssumption DEF LastSeq, FilenameSeq
      <4>4. ClientInv'
        BY <1>2, <2>1, <2>3, <3>5, <4>1, <4>3
        DEF GInv, ClientInv, ClientReceiving, LastSeq, server
      <4>5. Detached'
        BY <1>2, <3>5 DEF Detached, server
      <4>6. n # FilenameSeq
        BY <1>3, <2>1, <3>6 DEF FilenameSeq
      <4>7. AnswerFits(AckPkt(n, n))'
        BY <1>1, <4>5, <4>6, AnswersFit
      <4> QED
        BY <1>1, <1>2, <2>1, <2>3, <3>2, <3>6, <3>3, <4>2, <4>4, <4>7, ClientKeeps
    <3> QED
      BY <3>1, <3>4, <3>5
  <2>4. CASE /\ c2s' = Send(c2s, OutOfOrderAck(p))
             /\ UNCHANGED <<cpc, cseq, data, disk, clast>>
    <3>1. ToServer' \subseteq ToServer \cup {AckPkt(cseq, cseq)}
      BY <1>1, <1>3, <2>4, AckSends DEF OutOfOrderAck
    <3>2. StoredInv' /\ ClientInv' /\ (Detached => Detached')
          /\ Len(data) <= Len(data)'
      BY <1>2, <1>3, <2>4 DEF GInv, StoredInv, ClientInv, Detached, server
    <3>6. PICK n \in Nat : n = cseq
      BY <1>3
    <3>3. n <= Len(data)' + Offset \/ Detached'
      BY <1>2, <1>3, <2>1, <2>4, <3>6 DEF Detached, server, Offset
    <3>4. n # FilenameSeq
      BY <1>3, <2>1, <3>6 DEF FilenameSeq
    <3>5. AnswerFits(AckPkt(n, n))'
      BY <1>1, <3>3, <3>4, AnswersFit
    <3> QED
      BY <1>1, <1>2, <2>1, <2>4, <3>1, <3>6, <3>2, <3>5, ClientKeeps
  <2> QED
    BY <1>4, <1>8, <2>2, <2>3, <2>4 DEF ClientLoop_Receives
<1>9. CASE ClientFinalizes_Answer(i)
  <2>1. CASE cpc = "finalizing" /\ cpc' = "closed" /\ disk' = CleanedUp
             /\ UNCHANGED <<cseq, data, clast, c2s>>
    <3>1. StoredInv' /\ ClientInv' /\ Len(data) <= Len(data)'
      BY <1>2, <1>3, <2>1
      DEF GInv, StoredInv, ClientInv, CleanedUp, ClientReceiving, server
    <3>2. Detached => Detached'
      BY <1>2, <2>1 DEF Detached, ClientReceiving, server
    <3>3. ToServer' = ToServer
      BY <2>1 DEF ToServer
    <3>4. ~exists => data' = <<>>
      BY <2>1 DEF GInv, RefusedInv
    <3> QED
      BY <1>1, <1>2, <2>1, <3>1, <3>2, <3>3, <3>4, ClientKeeps
  <2> QED
    BY <1>5, <1>9, <2>1 DEF ClientFinalizes_Answer
<1> QED
  BY <1>6, <1>7, <1>8, <1>9 DEF ClientReceives

\* The client's own steps keep the invariant.
LEMMA ClientOwnStep ==
    ASSUME GInv, ClientRetransmits \/ ClientGivesUp \/ ClientStops
    PROVE  GInv'
<1>1. TypeOK /\ TypeOK'
  BY TypeStep DEF GInv, Next
<1>2. UNCHANGED server /\ ToClient' \subseteq ToClient
  BY DEF ClientRetransmits, ClientGivesUp, ClientStops, ToClient, server
<1>3. CASE ClientRetransmits
  BY <1>1, <1>2, <1>3, RelistenSends, ClientRelistensStep
  DEF ClientRetransmits, ClientRelistens
<1>4. CASE cpc = "filename" /\ Abort
  BY <1>1, <1>2, <1>4, AbortStep
<1>5. CASE /\ \/ cpc' \in {"closed", "stopped"} /\ disk' = CleanedUp
              \/ cpc' = "crashed" /\ disk' = disk
           /\ UNCHANGED <<cseq, data, clast, c2s>>
  <2>1. StoredInv' /\ Len(data) <= Len(data)'
    BY <1>1, <1>2, <1>5 DEF GInv, StoredInv, TypeOK, server
  <2>2. ClientInv'
    BY <1>5 DEF GInv, ClientInv, CleanedUp, ClientReceiving
  <2>3. Detached => Detached'
    BY <1>2, <1>5 DEF Detached, ClientReceiving, server
  <2>4. ~exists => data' = <<>> /\ cpc' \notin {"first", "loop"}
    BY <1>5 DEF GInv, RefusedInv
  <2>5. ToServer' = ToServer
    BY <1>5 DEF ToServer
  <2> QED
    BY <1>1, <1>2, <2>1, <2>2, <2>3, <2>4, <2>5, ClientKeeps
<1> QED
  BY <1>3, <1>4, <1>5 DEF ClientGivesUp, ClientStops

\* A step of the server that sends nothing, or only sends again.
LEMMA ServerRelistensStep ==
    ASSUME GInv, TypeOK', UNCHANGED <<client, exists>>,
           ToServer' \subseteq ToServer, ToClient' \subseteq ToClient,
           UNCHANGED <<spc, base, next, sack, slast>>
    PROVE  GInv'
<1>1. SenderInv' /\ base <= base' /\ (base' <= Len(data) \/ NChunks = 0)
  BY DEF GInv, SenderInv, InWindow, TypeOK, StoredInv, client
<1>2. ~exists => base' = 0
                 /\ spc' \in {"filename", "refusing", "refused", "failed"}
  BY DEF GInv, RefusedInv
<1> QED
  BY <1>1, <1>2, ServerKeeps

\* A server that leaves.
LEMMA ServerLeavesStep ==
    ASSUME GInv, ServerGivesUp \/ ServerStops
    PROVE  GInv'
<1>1. TypeOK /\ TypeOK'
  BY TypeStep DEF GInv, Next
<1>2. UNCHANGED <<client, base, next, sack, exists, slast, c2s, s2c>>
      /\ spc' \in {"refused", "failed"} /\ spc # "done"
  BY DEF ServerGivesUp, ServerStops, Limited, ServerWaits, ServerEnds
<1>3. ToServer' = ToServer /\ ToClient' = ToClient
  BY <1>2 DEF ToServer, ToClient, client
<1>4. SenderInv'
  BY <1>2 DEF SenderInv, ServerSends
<1>5. base <= base' /\ (base' <= Len(data) \/ NChunks = 0)
      /\ (~exists => base' = 0)
  BY <1>1, <1>2 DEF GInv, StoredInv, RefusedInv, TypeOK
<1> QED
  BY <1>1, <1>2, <1>3, <1>4, <1>5, ServerKeeps

\* A loss, and a step that changes nothing.
LEMMA NetworkStep ==
    ASSUME GInv, Lose \/ UNCHANGED vars
    PROVE  GInv'
<1>1. TypeOK /\ TypeOK'
  BY TypeStep DEF GInv, Next
<1>2. UNCHANGED <<client, server>>
  BY DEF Lose, vars
<1>3. Range(c2s') \subseteq Range(c2s) /\ Range(s2c') \subseteq Range(s2c)
  BY <1>1, LossContents DEF Lose, TypeOK, vars
<1>4. ToServer' \subseteq ToServer /\ ToClient' \subseteq ToClient
  BY <1>2, <1>3 DEF ToServer, ToClient, client, server
<1> QED
  BY <1>1, <1>2, <1>4, ServerRelistensStep DEF server

\* "File transfer complete" is sent with a number beyond all chunks'.
LEMMA CompleteStep ==
    ASSUME GInv, TypeOK', Complete, UNCHANGED <<client, exists, next, slast>>,
           ToServer' \subseteq ToServer,
           exists, next > 0, next + 1 >= NChunks,
           base <= base', base' <= Len(data) \/ NChunks = 0,
           base' + 1 >= NChunks \/ NChunks <= 1
    PROVE  GInv'
<1>1. TypeOK /\ next \in Nat /\ NChunks \in Nat /\ sack' \in Nat
  BY GbnDownloadAssumption DEF GInv, TypeOK
<1>2. PICK m \in Nat : m = sack'
  BY <1>1
<1>3. PICK n \in Nat : n = next + Offset
  BY <1>1 DEF Offset
<1>4. spc' = "done" /\ ToClient' \subseteq ToClient \cup {AckPkt(n, m)}
  BY <1>1, <1>2, <1>3, PacketTypes, ServerSendsOne DEF Complete
<1>5. n > FilenameSeq /\ n >= LastSeq
  BY <1>1, <1>3 DEF Offset, FilenameSeq, LastSeq
<1>6. AckPkt(n, m).data = 0 /\ EmptyFits(AckPkt(n, m))'
  BY <1>4, <1>5 DEF EmptyFits, AckPkt
<1>7. SenderInv'
  BY <1>4 DEF SenderInv, ServerSends
<1> QED
  BY <1>4, <1>6, <1>7, ServerKeeps

\* A missing file: two FINs, with no data.
LEMMA RefuseStep ==
    ASSUME GInv, TypeOK', spc = "filename", ~exists, Refuse,
           UNCHANGED <<client, base, exists, finBack>>,
           ToServer' \subseteq ToServer
    PROVE  GInv'
<1>1. TypeOK /\ base = 0
  BY DEF GInv, SenderInv
<1>2. FinPkt(2, 2) \in Packet /\ FinPkt(3, 3) \in Packet
  BY PacketTypes
<1>3. /\ Send(s2c, FinPkt(2, 2)) \in Seq(Packet)
      /\ Range(Send(s2c, FinPkt(2, 2))) \subseteq Range(s2c) \cup {FinPkt(2, 2)}
  BY <1>1, <1>2, SendContents DEF TypeOK
<1>4. Range(Send(Send(s2c, FinPkt(2, 2)), FinPkt(3, 3)))
          \subseteq Range(s2c) \cup {FinPkt(2, 2), FinPkt(3, 3)}
  BY <1>2, <1>3, SendContents
<1>5. /\ spc' = "refusing" /\ slast' = FinPkt(3, 3)
      /\ s2c' = Send(Send(s2c, FinPkt(2, 2)), FinPkt(3, 3))
  BY DEF Refuse, FilenameSeq
<1>6. ToClient' \subseteq ToClient \cup {FinPkt(2, 2), FinPkt(3, 3)}
  BY <1>4, <1>5 DEF ToClient
<1>7. Refusal(FinPkt(2, 2)) /\ Refusal(FinPkt(3, 3))
  BY DEF Refusal, FinPkt
<1>8. FinPkt(3, 3).seq = 3 /\ FinPkt(2, 2).data = 0 /\ FinPkt(3, 3).data = 0
  BY DEF FinPkt
<1>9. SenderInv'
  BY <1>5, <1>8 DEF SenderInv, ServerSends, FilenameSeq
<1>10. base <= base' /\ base' <= Len(data)
  BY <1>1 DEF TypeOK
<1> QED
  BY <1>1, <1>5, <1>6, <1>7, <1>8, <1>9, <1>10, ServerKeeps

\* The first chunk answers the name.
LEMMA SendFirstStep ==
    ASSUME GInv, TypeOK', spc = "filename", exists, SendFirst,
           UNCHANGED <<client, base, exists, finBack>>,
           ToServer' \subseteq ToServer
    PROVE  GInv'
<1>1. TypeOK /\ base = 0 /\ NChunks \in Nat /\ Window \in Nat \ {0}
  BY GbnDownloadAssumption DEF GInv, SenderInv
<1>2. PICK d \in Nat, last \in BOOLEAN :
          d = (IF NChunks = 0 THEN 0 ELSE 1) /\ (last <=> NChunks = 1)
  <2>1. (IF NChunks = 0 THEN 0 ELSE 1) \in Nat /\ (NChunks = 1) \in BOOLEAN
    OBVIOUS
  <2> QED
    BY <2>1
<1>3. /\ FirstChunkPkt(2, 2, d, last) \in Packet
      /\ FirstChunkPkt(2, 2, d, last) =
             [ack |-> TRUE, fin |-> last, seq |-> 2, an |-> 2, data |-> d]
  BY DataPacketTypes
<1>4. /\ slast' = FirstChunkPkt(2, 2, d, last)
      /\ s2c' = Send(s2c, slast') /\ sack' = 2 /\ next' = 1
      /\ spc' = IF NChunks = 1 THEN "closing" ELSE "chunk"
  <2>1. last = (NChunks = 1)
    BY <1>2
  <2> QED
    BY <1>2, <2>1 DEF SendFirst, FilenameSeq
<1>5. ToClient' \subseteq ToClient \cup {FirstChunkPkt(2, 2, d, last)}
  BY <1>1, <1>3, <1>4, ServerSendsOne
<1>6. CASE d = 0
  <2>1. EmptyFits(FirstChunkPkt(2, 2, d, last))'
    BY <1>1, <1>2, <1>3, <1>6 DEF EmptyFits, FilenameSeq
  <2>2. FirstChunkPkt(2, 2, d, last).data = 0
    BY <1>3, <1>6
  <2>3. SenderInv'
    BY <1>1, <1>2, <1>4, <1>6 DEF SenderInv, ServerSends, FilenameSeq
  <2> QED
    BY <1>1, <1>4, <1>5, <2>1, <2>2, <2>3, ServerKeeps DEF TypeOK
<1>7. CASE d = 1
  <2>1. ChunkFits(FirstChunkPkt(2, 2, d, last))'
    BY <1>1, <1>2, <1>3, <1>7 DEF ChunkFits
  <2>2. FirstChunkPkt(2, 2, d, last).data # 0
    BY <1>3, <1>7
  <2>3. SenderInv'
    BY <1>1, <1>2, <1>4, <1>7 DEF SenderInv, ServerSends, FilenameSeq
  <2> QED
    BY <1>1, <1>4, <1>5, <2>1, <2>2, <2>3, ServerKeeps DEF TypeOK
<1> QED
  BY <1>2, <1>6, <1>7

\* An ACK that advances the window names stored chunks only.
LEMMA AdvanceIsStored ==
    ASSUME GInv, spc = "await", NEW p \in ToServer, Advances(p)
    PROVE  /\ p.an \in Nat /\ sack = base + Offset
           /\ base <= base + (p.an - sack)
           /\ base + (p.an - sack) <= Len(data)
           /\ p.an = base + (p.an - sack) + Offset
           /\ Len(data) <= next
           /\ data # <<>> /\ NChunks > 0 /\ base > 0 /\ exists
<1>1. p \in Packet
  BY PacketsOnTheirWay DEF GInv
<1>2. /\ p.an \in Nat /\ base \in Nat /\ next \in Nat /\ sack \in Nat
      /\ Len(data) \in Nat /\ NChunks \in Nat /\ Window \in Nat
  BY <1>1, PacketFields, GbnDownloadAssumption DEF GInv, TypeOK
<1>3. /\ sack = base + Offset /\ data # <<>> /\ NChunks > 0 /\ base > 0
      /\ ~InWindow(next) /\ exists
  BY DEF GInv, SenderInv, ServerSends, RefusedInv
<1>4. p.an <= Len(data) + Offset
  BY <1>3 DEF GInv, AnswerInv, AnswerFits, Detached
<1>5. Len(data) <= NChunks /\ Len(data) <= base + Window
  BY DEF GInv, StoredInv
<1>6. Len(data) <= next
  BY <1>2, <1>3, <1>5 DEF InWindow
<1> QED
  BY <1>2, <1>3, <1>4, <1>6 DEF Advances, Offset

\* The server's answers to what it receives keep the invariant.
LEMMA ServerReceivesStep ==
    ASSUME GInv, NEW i \in Deliverable(c2s), ServerReceivesAt(i)
    PROVE  GInv'
<1> DEFINE p == c2s[i]
<1>1. TypeOK /\ TypeOK'
  BY ServerTypeStep DEF GInv
<1>2. /\ p \in Packet /\ p \in ToServer /\ UNCHANGED <<client, exists>>
      /\ ToServer' \subseteq ToServer
  BY <1>1, ServerReceipt DEF client, ToServer
<1>3. /\ p.seq \in Nat /\ p.an \in Nat /\ base \in Nat /\ next \in Nat
      /\ sack \in Nat /\ Len(data) \in Nat /\ NChunks \in Nat
      /\ Window \in Nat \ {0}
  BY <1>1, <1>2, PacketFields, GbnDownloadAssumption DEF TypeOK
<1>4. p = c2s[i]
  OBVIOUS
<1> HIDE DEF p
<1>5. ASSUME Relisten
      PROVE  GInv'
  BY <1>1, <1>2, <1>5, ServerRelistenSends, ServerRelistensStep DEF Relisten
<1>6. CASE ServerFilename_Receives(i)
  BY <1>1, <1>2, <1>5, <1>6, RefuseStep, SendFirstStep
  DEF ServerFilename_Receives
<1>7. CASE ServerChunk_Ack(i)
  <2>1. CASE /\ ConfirmsFirst(p)
             /\ spc' = IF NChunks = 0 THEN "closing" ELSE "send"
             /\ base' = 1 /\ next' = 1 /\ sack' = sack + 1
             /\ slast' = NoPacket /\ UNCHANGED <<exists, finBack, s2c>>
    <3>1. spc = "chunk" /\ base = 0 /\ sack = FilenameSeq /\ exists
      BY <1>7 DEF ServerChunk_Ack, GInv, SenderInv, RefusedInv
    <3>2. data # <<>> \/ NChunks = 0
      BY <1>2, <2>1 DEF GInv, AnswerInv, AnswerFits, ConfirmsFirst
    <3>3. base <= base' /\ (base' <= Len(data) \/ NChunks = 0)
      BY <1>1, <2>1, <3>1, <3>2 DEF TypeOK
    <3>4. ToClient' \subseteq ToClient \cup {NoPacket}
      BY <2>1 DEF ToClient
    <3>5. NoPacket.data = 0 /\ EmptyFits(NoPacket)'
      BY DEF NoPacket, EmptyFits, FilenameSeq
    <3>6. SenderInv'
      BY <1>2, <1>3, <2>1, <3>1, <3>2
      DEF SenderInv, ServerSends, FilenameSeq, Offset, client
    <3> QED
      BY <1>1, <1>2, <2>1, <3>1, <3>3, <3>4, <3>5, <3>6, ServerKeeps
  <2> QED
    BY <1>4, <1>5, <1>7, <2>1 DEF ServerChunk_Ack
<1>8. CASE ServerAwait_Ack(i)
  <2>1. /\ spc = "await" /\ exists /\ data # <<>> /\ NChunks > 0
        /\ base > 0 /\ base <= next /\ sack = base + Offset
        /\ base <= Len(data)
    BY <1>3, <1>8 DEF ServerAwait_Ack, GInv, SenderInv, ServerSends,
                      RefusedInv, StoredInv
  <2>2. CASE spc' = "failed" /\ UNCHANGED <<base, next, sack, slast, finBack, s2c>>
    <3>1. SenderInv' /\ ToClient' = ToClient
      BY <2>2 DEF SenderInv, ServerSends, ToClient
    <3> QED
      BY <1>1, <1>2, <1>3, <2>1, <2>2, <3>1, ServerKeeps
  <2>3. CASE /\ Advances(p) /\ base' = base + (p.an - sack)
             /\ sack' = p.an /\ next' = next
             /\ IF AllButLast(base') THEN LeaveLoop /\ slast' = slast
                                     ELSE NextIteration
    <3>1. /\ base <= base' /\ base' <= Len(data) /\ base' <= next
          /\ base' > 0 /\ sack' = base' + Offset /\ next > 0
      <4>1. /\ p.an \in Nat /\ sack = base + Offset
            /\ base <= base + (p.an - sack)
            /\ base + (p.an - sack) <= Len(data)
            /\ p.an = base + (p.an - sack) + Offset
            /\ Len(data) <= next
        BY <1>2, <2>1, <2>3, AdvanceIsStored
      <4> QED
        BY <1>3, <2>1, <2>3, <4>1
    <3>2. base' \in Nat
      BY <1>1 DEF TypeOK
    <3>3. CASE AllButLast(base') /\ LeaveLoop /\ slast' = slast
      <4>1. next + 1 >= NChunks /\ base' + 1 >= NChunks
        <5>1. base' + 1 = NChunks
          BY <3>3, Zenon DEF AllButLast
        <5>2. base' <= next /\ next \in Nat
          BY <1>3, <3>1
        <5>3. next + 1 >= NChunks
          BY <3>2, <5>1, <5>2
        <5>4. base' + 1 >= NChunks
          BY <3>2, <5>1
        <5> QED
          BY <5>3, <5>4
      <4>2. CASE Complete
        <5>1. /\ base' <= Len(data) \/ NChunks = 0
              /\ base' + 1 >= NChunks \/ NChunks <= 1
              /\ UNCHANGED <<client, exists, next, slast>>
          BY <1>2, <2>3, <3>1, <3>3, <4>1
        <5> QED
          BY <1>1, <1>2, <2>1, <3>1, <4>1, <4>2, <5>1, CompleteStep
      <4>3. CASE spc' = "closing" /\ s2c' = s2c
        <5>1. ToClient' = ToClient
          BY <3>3, <4>3 DEF ToClient
        <5>2. SenderInv'
          BY <2>3, <3>1, <4>1, <4>3 DEF SenderInv, ServerSends
        <5> QED
          BY <1>1, <1>2, <2>1, <3>1, <4>3, <5>1, <5>2, ServerKeeps
      <4> QED
        BY <3>3, <4>2, <4>3 DEF LeaveLoop
    <3>4. CASE NextIteration
      <4>1. ToClient' \subseteq ToClient \cup {NoPacket}
        BY <3>4 DEF ToClient, NextIteration
      <4>2. NoPacket.data = 0 /\ EmptyFits(NoPacket)'
        BY DEF NoPacket, EmptyFits, FilenameSeq
      <4>3. SenderInv'
        BY <1>2, <2>1, <2>3, <3>1, <3>4
        DEF SenderInv, ServerSends, NextIteration, client
      <4> QED
        BY <1>1, <1>2, <2>1, <3>1, <3>4, <4>1, <4>2, <4>3, ServerKeeps
        DEF NextIteration
    <3> QED
      BY <2>3, <3>3, <3>4
  <2>4. CASE NextIteration /\ UNCHANGED <<base, sack>> /\ next' \in {base, next}
    <3>1. ToClient' \subseteq ToClient \cup {NoPacket}
      BY <2>4 DEF ToClient, NextIteration
    <3>2. NoPacket.data = 0 /\ EmptyFits(NoPacket)'
      BY DEF NoPacket, EmptyFits, FilenameSeq
    <3>3. SenderInv'
      BY <1>2, <1>3, <2>1, <2>4
      DEF SenderInv, ServerSends, NextIteration, client
    <3> QED
      BY <1>1, <1>2, <1>3, <2>1, <2>4, <3>1, <3>2, <3>3, ServerKeeps
      DEF NextIteration
  <2> QED
    BY <1>4, <1>8, <2>2, <2>3, <2>4 DEF ServerAwait_Ack, ResetWindow
<1>9. CASE ServerCloses_Answer(i)
  <2>1. CASE Complete /\ UNCHANGED <<base, next, sack, exists, slast, finBack>>
    <3>1. spc = "closing"
      BY <1>9 DEF ServerCloses_Answer
    <3>2. /\ exists /\ next > 0 /\ next + 1 >= NChunks
          /\ base + 1 >= NChunks \/ NChunks <= 1
          /\ base <= Len(data) \/ NChunks = 0
      BY <3>1 DEF GInv, SenderInv, RefusedInv, StoredInv
    <3>3. base <= base' /\ (base' <= Len(data) \/ NChunks = 0)
          /\ (base' + 1 >= NChunks \/ NChunks <= 1)
      BY <1>3, <2>1, <3>2
    <3> QED
      BY <1>1, <1>2, <2>1, <3>2, <3>3, CompleteStep
  <2> QED
    BY <1>5, <1>9, <2>1 DEF ServerCloses_Answer
<1>10. CASE ServerRefuses_Answer(i)
  <2>1. CASE /\ p.seq = slast.seq /\ spc' = "refused"
             /\ s2c' = Send(s2c, AckPkt(p.seq + 1, p.seq + 1))
             /\ UNCHANGED <<base, next, sack, exists, slast, finBack>>
    <3>1. ~exists /\ p.seq = 3
      BY <1>10, <2>1
      DEF ServerRefuses_Answer, GInv, SenderInv, FilenameSeq
    <3>2. ToClient' \subseteq ToClient \cup {AckPkt(4, 4)}
      BY <1>1, <2>1, <3>1, PacketTypes, ServerSendsOne
    <3>3. Refusal(AckPkt(4, 4)) /\ AckPkt(4, 4).data = 0
      BY DEF Refusal, AckPkt, FilenameSeq
    <3>4. SenderInv'
      BY <2>1 DEF SenderInv, ServerSends
    <3>5. base' = 0 /\ base <= base' /\ base' <= Len(data) /\ spc # "done"
      BY <1>3, <1>10, <2>1, <3>1
      DEF GInv, RefusedInv, ServerRefuses_Answer
    <3> QED
      BY <1>1, <1>2, <2>1, <3>1, <3>2, <3>3, <3>4, <3>5, ServerKeeps
  <2> QED
    BY <1>4, <1>5, <1>10, <2>1 DEF ServerRefuses_Answer
<1> QED
  BY <1>6, <1>7, <1>8, <1>9, <1>10 DEF ServerReceivesAt

\* The sender's own steps keep the invariant: it sends chunks of the window,
\* and starts the window again.
LEMMA SenderStep ==
    ASSUME GInv, ServerSendsChunk \/ ServerWindowSent \/ ServerAwait_Timeout
    PROVE  GInv'
<1>1. TypeOK /\ TypeOK'
  BY TypeStep DEF GInv, Next
<1>2. /\ spc \in ServerSends /\ UNCHANGED <<client, c2s, base, sack, exists>>
      /\ ToServer' \subseteq ToServer
  BY DEF ServerSendsChunk, ServerWindowSent, ServerAwait_Timeout,
         ResetWindow, NextIteration, ServerSends, ToServer, client
<1>3. /\ base \in Nat /\ next \in Nat /\ sack \in Nat /\ NChunks \in Nat
      /\ Window \in Nat \ {0} /\ Len(data) \in Nat
  BY <1>1, GbnDownloadAssumption DEF TypeOK
<1>4. /\ exists /\ NChunks > 0 /\ data # <<>> /\ base > 0 /\ base <= next
      /\ sack = base + Offset /\ base <= Len(data)
  BY <1>2, <1>3 DEF GInv, SenderInv, RefusedInv, StoredInv, ServerSends
<1>5. base <= base' /\ base' <= Len(data) /\ spc # "done" /\ data' = data
  BY <1>2, <1>3, <1>4 DEF ServerSends, client
<1>6. CASE ServerSendsChunk
  <2>1. PICK n \in Nat : n = next
    BY <1>3
  <2>2. PICK last \in BOOLEAN : last = IsLast(next)
    BY DEF IsLast
  <2>3. PICK a \in Nat : a = sack
    BY <1>3
  <2>4. /\ DataPkt(n + Offset, a, n + 1, last) \in Packet
        /\ DataPkt(n + Offset, a, n + 1, last) =
               [ack |-> FALSE, fin |-> last, seq |-> n + 2, an |-> a,
                data |-> n + 1]
    BY <2>1, DataPacketTypes DEF Offset, DataPkt
  <2>5. /\ slast' = DataPkt(n + Offset, a, n + 1, last)
        /\ s2c' = Send(s2c, slast') /\ spc' = "send" /\ next' = next + 1
    BY <1>6, <2>1, <2>2, <2>3 DEF ServerSendsChunk
  <2>6. ToClient' \subseteq ToClient \cup {DataPkt(n + Offset, a, n + 1, last)}
    BY <1>1, <2>4, <2>5, ServerSendsOne
  <2>7. n < NChunks /\ n < base + Window /\ (last <=> n + 1 = NChunks)
    <3>1. n < NChunks /\ n < base + Window
      BY <1>3, <1>6, <2>1 DEF ServerSendsChunk, InWindow
    <3>2. IsLast(next) <=> n + 1 = NChunks
      BY <1>3, <2>1 DEF IsLast
    <3>3. last <=> IsLast(next)
      BY <2>2, Zenon
    <3> QED
      BY <3>1, <3>2, <3>3
  <2>8. ChunkFits(DataPkt(n + Offset, a, n + 1, last))'
    <3>1. n + 1 <= NChunks /\ n + 1 <= base' + Window
      BY <1>2, <1>3, <2>7
    <3> QED
      BY <2>4, <2>7, <3>1 DEF ChunkFits
  <2>9. DataPkt(n + Offset, a, n + 1, last).data # 0
    BY <2>4
  <2>10. SenderInv'
    BY <1>2, <1>3, <1>4, <2>5, <1>5 DEF SenderInv, ServerSends
  <2> QED
    BY <1>1, <1>2, <1>4, <1>5, <2>6, <2>8, <2>9, <2>10, ServerKeeps
<1>7. CASE ServerWindowSent
  <2>1. spc = "send" /\ ~InWindow(next) /\ UNCHANGED <<next, slast, finBack>>
    BY <1>7 DEF ServerWindowSent
  <2>2. CASE AllButLast(base) /\ LeaveLoop
    <3>1. next + 1 >= NChunks /\ base + 1 >= NChunks /\ next > 0
      BY <1>3, <1>4, <2>2 DEF AllButLast
    <3>2. CASE Complete
      <4>1. base' + 1 >= NChunks
        BY <1>2, <3>1
      <4> QED
        BY <1>1, <1>2, <1>4, <1>5, <2>1, <3>1, <3>2, <4>1, CompleteStep
    <3>3. CASE spc' = "closing" /\ s2c' = s2c
      <4>1. ToClient' = ToClient
        BY <2>1, <3>3 DEF ToClient
      <4>2. SenderInv'
        BY <1>2, <2>1, <3>1, <3>3 DEF SenderInv, ServerSends
      <4> QED
        BY <1>1, <1>2, <1>4, <1>5, <3>3, <4>1, <4>2, ServerKeeps
    <3> QED
      BY <2>2, <3>2, <3>3 DEF LeaveLoop
  <2>3. CASE spc' = "await" /\ s2c' = s2c
    <3>1. ToClient' = ToClient
      BY <2>1, <2>3 DEF ToClient
    <3>2. SenderInv'
      BY <1>2, <1>4, <1>5, <2>1, <2>3 DEF SenderInv, ServerSends, InWindow
    <3> QED
      BY <1>1, <1>2, <1>4, <1>5, <2>3, <3>1, <3>2, ServerKeeps
  <2> QED
    BY <1>7, <2>2, <2>3 DEF ServerWindowSent
<1>8. CASE ServerAwait_Timeout
  <2>1. spc' = "send" /\ slast' = NoPacket /\ s2c' = s2c /\ next' = base
    BY <1>8 DEF ServerAwait_Timeout, ResetWindow, NextIteration
  <2>2. ToClient' \subseteq ToClient \cup {NoPacket}
    BY <2>1 DEF ToClient
  <2>3. NoPacket.data = 0 /\ EmptyFits(NoPacket)'
    BY DEF NoPacket, EmptyFits, FilenameSeq
  <2>4. SenderInv'
    BY <1>2, <1>3, <1>4, <1>5, <2>1 DEF SenderInv, ServerSends
  <2> QED
    BY <1>1, <1>2, <1>4, <1>5, <2>2, <2>3, <2>4, ServerKeeps
<1> QED
  BY <1>6, <1>7, <1>8

\* The server's retransmissions keep the invariant.
LEMMA ServerRetransmitsStep ==
    ASSUME GInv, ServerRetransmits
    PROVE  GInv'
<1>1. TypeOK /\ TypeOK'
  BY TypeStep DEF GInv, Next
<1>2. Relisten /\ UNCHANGED <<client, c2s>>
  BY DEF ServerRetransmits
<1>3. ToServer' = ToServer /\ ToClient' \subseteq ToClient
  BY <1>1, <1>2, ServerRelistenSends DEF ToServer, client
<1> QED
  BY <1>1, <1>2, <1>3, ServerRelistensStep DEF Relisten

\* The invariant holds when the client has just sent the file's name.
LEMMA InitInv == Init => GInv
<1> SUFFICES ASSUME Init
             PROVE  GInv
  OBVIOUS
<1>1. TypeOK
  BY InitTypes
<1>2. /\ cpc = "filename" /\ cseq = 2 /\ data = <<>> /\ disk = "partial"
      /\ spc = "filename" /\ base = 0 /\ next = 0 /\ sack = 1
      /\ clast = DataPkt(2, 2, 0, FALSE) /\ slast = AckPkt(1, 1)
      /\ c2s = <<clast>> /\ s2c \in {<<>>, <<AckPkt(1, 1)>>}
  BY Zenon DEF Init, FilenameSeq
<1>3. ToServer = {DataPkt(2, 2, 0, FALSE)} /\ ToClient = {AckPkt(1, 1)}
  <2>1. \A x : Range(<<x>>) = {x}
    BY DEF Range
  <2>2. Range(<<>>) = {}
    BY DEF Range
  <2> QED
    BY <1>2, <2>1, <2>2 DEF ToServer, ToClient
<1>4. \A p \in ToServer : ~p.ack /\ p.an = 2
  BY <1>3 DEF DataPkt
<1>5. \A p \in ToClient : p.data = 0 /\ p.an = 1 /\ p.seq = 1 /\ ~p.fin
  BY <1>3 DEF AckPkt
<1>6. RefusedInv
  BY <1>2, <1>5 DEF RefusedInv, Refusal, FilenameSeq
<1>7. ChunkInv /\ EmptyInv
  BY <1>5 DEF ChunkInv, EmptyInv, EmptyFits, FilenameSeq
<1>8. StoredInv /\ ClientInv
  BY <1>2, GbnDownloadAssumption
  DEF StoredInv, ClientInv, FilenameSeq, ClientReceiving
<1>9. AnswerInv /\ SenderInv
  BY <1>2, <1>4
  DEF AnswerInv, AnswerFits, SenderInv, ServerSends, Offset, FilenameSeq
<1> QED
  BY <1>1, <1>6, <1>7, <1>8, <1>9 DEF GInv

\* The inductive invariant holds in every state of every download.
THEOREM Invariance == Spec => []GInv
<1>1. ASSUME GInv, [Next]_vars
      PROVE  GInv'
  <2>1. CASE \E i \in Deliverable(s2c) : ClientReceives(i)
    BY <1>1, <2>1, ClientReceivesStep
  <2>2. CASE \E i \in Deliverable(c2s) : ServerReceivesAt(i)
    BY <1>1, <2>2, ServerReceivesStep
  <2>3. CASE ServerSendsChunk \/ ServerWindowSent \/ ServerAwait_Timeout
    BY <1>1, <2>3, SenderStep
  <2>4. CASE ClientRetransmits \/ ClientGivesUp \/ ClientStops
    BY <1>1, <2>4, ClientOwnStep
  <2>5. CASE ServerRetransmits
    BY <1>1, <2>5, ServerRetransmitsStep
  <2>6. CASE ServerGivesUp \/ ServerStops
    BY <1>1, <2>6, ServerLeavesStep
  <2>7. CASE Lose \/ UNCHANGED vars
    BY <1>1, <2>7, NetworkStep
  <2> QED
    BY <1>1, <2>1, <2>2, <2>3, <2>4, <2>5, <2>6, <2>7 DEF Next, Finished
<1> QED
  BY <1>1, InitInv, PTL DEF Spec

-----------------------------------------------------------------------------
(* What follows *)

\* The client's file is a prefix of the server's, for every file, window
\* and channel, under loss, duplication and reordering.
THEOREM PrefixReceived == Spec => []ReceivedIsPrefix
<1>1. GInv => ReceivedIsPrefix
  BY DEF GInv, StoredInv, ReceivedIsPrefix
<1> QED
  BY <1>1, Invariance, PTL

\* The sender's window never slides past a chunk that is not stored.
THEOREM WindowBehindFile == Spec => []BaseIsStored
<1>1. GInv => BaseIsStored
  BY DEF GInv, StoredInv, BaseIsStored
<1> QED
  BY <1>1, Invariance, PTL

\* A server that takes the transfer for complete has had all its chunks but
\* at most the last one stored.
THEOREM DoneUpToTheLast == Spec => []DoneMissesOne
<1>1. GInv => DoneMissesOne
  <2> SUFFICES ASSUME GInv, spc = "done"
               PROVE  Len(data) + 1 >= NChunks
    BY DEF DoneMissesOne
  <2>1. /\ base \in Nat /\ Len(data) \in Nat /\ NChunks \in Nat
        /\ base <= Len(data) \/ NChunks = 0
        /\ base + 1 >= NChunks \/ NChunks <= 1
    BY GbnDownloadAssumption DEF GInv, TypeOK, StoredInv, SenderInv
  <2> QED
    BY <2>1
<1> QED
  BY <1>1, Invariance, PTL

\* A client that ends by itself leaves the whole file or none.
THEOREM WholeFileOrNone == Spec => []LeavesNoPart
<1>1. GInv => LeavesNoPart
  BY DEF GInv, ClientInv, TypeOK, LeavesNoPart
<1> QED
  BY <1>1, Invariance, PTL

\* A client that has its name sent again receives it, and nothing else has
\* been sent to the server.
LEMMA NameIsResent ==
    ASSUME GInv, NameInv, cpc' = "filename",
           \/ \E i \in Deliverable(s2c) : ClientReceives(i)
           \/ ClientRetransmits \/ ClientGivesUp \/ ClientStops
    PROVE  /\ cpc = "filename" /\ UNCHANGED server
           /\ ToServer' \subseteq ToServer /\ ToClient' \subseteq ToClient
<1>1. TypeOK /\ clast \in Packet
  BY DEF GInv, TypeOK
<1>2. cpc = "filename" /\ c2s' = Send(c2s, clast) /\ clast' = clast
  BY DEF ClientReceives, ClientName_Answer, ClientFirst_Receives,
         ClientLoop_Receives, ClientFinalizes_Answer, ClientRetransmits,
         ClientGivesUp, ClientStops, ClientRelistens, Abort, StoreLast, Finalize
<1>3. UNCHANGED server
      /\ (s2c' = s2c \/ \E i \in Deliverable(s2c) : s2c' \in AfterReceipt(s2c, i))
  BY DEF ClientReceives, ClientName_Answer, ClientFirst_Receives,
         ClientLoop_Receives, ClientFinalizes_Answer, ClientRetransmits,
         ClientGivesUp, ClientStops
<1>4. Range(c2s') \subseteq Range(c2s) \cup {clast}
  BY <1>1, <1>2, SendContents DEF TypeOK
<1>5. Range(s2c') \subseteq Range(s2c)
  BY <1>1, <1>3, ReceiptContents DEF TypeOK
<1> QED
  BY <1>2, <1>3, <1>4, <1>5 DEF ToServer, ToClient, server

\* What the server sends to a client that awaits the answer to its name has
\* ACK when the file exists.
LEMMA ServerAnswersName ==
    ASSUME GInv, NameInv, cpc = "filename", exists,
           \/ \E i \in Deliverable(c2s) : ServerReceivesAt(i)
           \/ ServerSendsChunk \/ ServerWindowSent \/ ServerAwait_Timeout
           \/ ServerRetransmits \/ ServerGivesUp \/ ServerStops
    PROVE  /\ spc' \in {"filename", "chunk", "closing", "failed"}
           /\ \A p \in ToClient' : p.ack
<1>1. TypeOK /\ slast \in Packet
  BY DEF GInv, TypeOK
<1>2. /\ spc \in {"filename", "chunk", "closing", "failed"}
      /\ \A p \in ToClient : p.ack
      /\ \A p \in ToServer : ~p.ack /\ ~p.fin
  BY DEF NameInv
<1>3. slast.ack /\ slast # NoPacket
  BY <1>2 DEF ToClient, NoPacket
<1>4. CASE Relisten
  <2>1. s2c' = Send(s2c, slast) /\ UNCHANGED <<spc, slast>>
    BY <1>3, <1>4 DEF Relisten, Resend
  <2>2. ToClient' \subseteq ToClient \cup {slast}
    BY <1>1, <2>1, ServerSendsOne
  <2> QED
    BY <1>2, <1>3, <2>1, <2>2
<1>5. ASSUME NEW i \in Deliverable(c2s), ServerReceivesAt(i)
      PROVE  /\ spc' \in {"filename", "chunk", "closing", "failed"}
             /\ \A p \in ToClient' : p.ack
  <2>1. ~c2s[i].ack /\ ~c2s[i].fin
    BY <1>2 DEF Deliverable, ToServer, Range
  <2>2. CASE SendFirst
    <3> DEFINE d == IF NChunks = 0 THEN 0 ELSE 1
               q == FirstChunkPkt(FilenameSeq, FilenameSeq, d, NChunks = 1)
    <3>1. q \in Packet /\ q.ack
      BY DEF FirstChunkPkt, Packet, FilenameSeq
    <3>2. s2c' = Send(s2c, q) /\ slast' = q /\ spc' \in {"closing", "chunk"}
      BY <2>2 DEF SendFirst
    <3> HIDE DEF q
    <3>3. ToClient' \subseteq ToClient \cup {q}
      BY <1>1, <3>1, <3>2, ServerSendsOne
    <3> QED
      BY <1>2, <3>1, <3>2, <3>3
  <2>3. SendFirst \/ Relisten
    BY <1>2, <1>5, <2>1
    DEF ServerReceivesAt, ServerFilename_Receives, ServerChunk_Ack,
        ServerAwait_Ack, ServerCloses_Answer, ServerRefuses_Answer,
        ConfirmsFirst, ConfirmsLast
  <2> QED
    BY <1>4, <2>2, <2>3
<1>6. ~ServerSendsChunk /\ ~ServerWindowSent /\ ~ServerAwait_Timeout
  BY <1>2 DEF ServerSendsChunk, ServerWindowSent, ServerAwait_Timeout
<1>7. CASE ServerRetransmits
  BY <1>4, <1>7 DEF ServerRetransmits
<1>8. CASE ServerGivesUp \/ ServerStops
  <2>1. spc' = "failed" /\ UNCHANGED <<s2c, slast>>
    BY <1>2, <1>8 DEF ServerGivesUp, ServerStops
  <2> QED
    BY <1>2, <2>1 DEF ToClient
<1> QED
  BY <1>5, <1>6, <1>7, <1>8

\* No client takes a file that exists for missing, or a missing one for
\* found (inform_name_to_download against receive_file_info_for_download),
\* over every network.
THEOREM NameAnsweredRight == Spec => []AnswerIsRight
<1>1. Init => NameInv
  <2> SUFFICES ASSUME Init
               PROVE  NameInv
    OBVIOUS
  <2>1. /\ clast = DataPkt(2, 2, 0, FALSE) /\ c2s = <<clast>> /\ slast = AckPkt(1, 1)
        /\ s2c \in {<<>>, <<AckPkt(1, 1)>>} /\ spc = "filename"
    BY Zenon DEF Init, FilenameSeq
  <2>2. ToServer = {DataPkt(2, 2, 0, FALSE)} /\ ToClient \subseteq {AckPkt(1, 1)}
    <3>1. \A x : Range(<<x>>) = {x}
      BY DEF Range
    <3>2. Range(<<>>) = {}
      BY DEF Range
    <3> QED
      BY <2>1, <3>1, <3>2 DEF ToServer, ToClient
  <2> QED
    BY <2>1, <2>2 DEF NameInv, DataPkt, AckPkt
<1>2. ASSUME GInv, NameInv, [Next]_vars
      PROVE  NameInv'
  <2> SUFFICES ASSUME cpc' = "filename"
               PROVE  /\ \A p \in ToServer' : ~p.ack /\ ~p.fin
                      /\ exists' =>
                            /\ spc' \in {"filename", "chunk", "closing", "failed"}
                            /\ \A p \in ToClient' : p.ack
    BY DEF NameInv
  <2>1. CASE \/ \E i \in Deliverable(s2c) : ClientReceives(i)
             \/ ClientRetransmits \/ ClientGivesUp \/ ClientStops
    <3>1. /\ cpc = "filename" /\ UNCHANGED server
          /\ ToServer' \subseteq ToServer /\ ToClient' \subseteq ToClient
      BY <1>2, <2>1, NameIsResent
    <3> QED
      BY <1>2, <3>1 DEF NameInv, server
  <2>2. CASE \/ \E i \in Deliverable(c2s) : ServerReceivesAt(i)
             \/ ServerSendsChunk \/ ServerWindowSent \/ ServerAwait_Timeout
             \/ ServerRetransmits \/ ServerGivesUp \/ ServerStops
    <3>1. UNCHANGED <<client, exists>>
      BY <2>2 DEF ServerReceivesAt, ServerFilename_Receives, ServerChunk_Ack,
          ServerAwait_Ack, ServerCloses_Answer, ServerRefuses_Answer, Relisten,
          ServerSendsChunk, ServerWindowSent, ServerAwait_Timeout,
          ServerRetransmits, ServerGivesUp, ServerStops
    <3>2. c2s' = c2s \/ \E i \in Deliverable(c2s) : c2s' \in AfterReceipt(c2s, i)
      BY <2>2 DEF ServerReceivesAt, ServerFilename_Receives, ServerChunk_Ack,
          ServerAwait_Ack, ServerCloses_Answer, ServerRefuses_Answer,
          ServerSendsChunk, ServerWindowSent, ServerAwait_Timeout,
          ServerRetransmits, ServerGivesUp, ServerStops
    <3>3. ToServer' \subseteq ToServer
      <4>1. Range(c2s') \subseteq Range(c2s)
        BY <1>2, <3>2, ReceiptContents DEF GInv, TypeOK
      <4> QED
        BY <3>1, <4>1 DEF ToServer, client
    <3>4. exists => /\ spc' \in {"filename", "chunk", "closing", "failed"}
                    /\ \A p \in ToClient' : p.ack
      BY <1>2, <2>2, <3>1, ServerAnswersName DEF client
    <3> QED
      BY <1>2, <3>1, <3>3, <3>4 DEF NameInv, client
  <2>3. CASE Lose \/ UNCHANGED vars
    <3>1. UNCHANGED <<client, server>>
      BY <2>3 DEF Lose, vars
    <3>2. Range(c2s') \subseteq Range(c2s) /\ Range(s2c') \subseteq Range(s2c)
      BY <1>2, <2>3, LossContents DEF Lose, vars, GInv, TypeOK
    <3>3. ToServer' \subseteq ToServer /\ ToClient' \subseteq ToClient
      BY <3>1, <3>2 DEF ToServer, ToClient, client, server
    <3> QED
      BY <1>2, <3>1, <3>3 DEF NameInv, client, server
  <2> QED
    BY <1>2, <2>1, <2>2, <2>3 DEF Next, Finished
<1>3. GInv /\ NameInv => AnswerIsRight
  <2> SUFFICES ASSUME GInv, NameInv, cpc = "filename", NEW p \in Range(s2c)
               PROVE  (NoSuchFile(p) => ~exists) /\ (IsFirstChunk(p) => exists)
    BY DEF AnswerIsRight
  <2>1. p \in ToClient /\ cseq = FilenameSeq
    BY DEF ToClient, GInv, ClientInv
  <2>2. exists => p.ack /\ (p.data = 0 => ~p.fin)
    BY <2>1 DEF NameInv, GInv, EmptyInv, EmptyFits
  <2>3. ~exists => (p.ack => p.an # FilenameSeq)
    BY <2>1 DEF GInv, RefusedInv, Refusal
  <2> QED
    BY <2>1, <2>2, <2>3 DEF NoSuchFile, IsFirstChunk
<1> QED
  BY <1>1, <1>2, <1>3, Invariance, PTL DEF Spec

\* What the client takes its download for, in the cases a step can make.
LEMMA OutcomeCases ==
    ASSUME ClientInv
    PROVE  /\ cpc \in ClientReceiving => outcome = "open"
           /\ disk = "saved" => outcome = "complete"
           /\ disk # "saved" /\ cpc \notin ClientReceiving => outcome = "failed"
BY DEF outcome, ClientInv

\* A step of the client that stores a chunk, or none, is one of the abstract
\* transfer's.
LEMMA ClientTransferStep ==
    ASSUME GInv, GInv', NEW i \in Deliverable(s2c), ClientReceives(i)
    PROVE  [Transfer!Next]_<<data, outcome>>
<1> DEFINE p == s2c[i]
<1>1. /\ p \in ToClient /\ UNCHANGED server
      /\ data \in Seq(Nat) /\ Len(data) \in Nat /\ NChunks \in Nat
  BY ClientReceipt, GbnDownloadAssumption DEF GInv, TypeOK
<1>2. ClientInv /\ ClientInv'
  BY DEF GInv
<1>3. p = s2c[i]
  OBVIOUS
<1> HIDE DEF p
<1>4. CASE data' = data /\ cpc' = cpc /\ disk' = disk
  BY <1>4 DEF outcome
<1>5. CASE data' = data /\ {cpc, cpc'} \subseteq ClientReceiving
  <2>1. outcome = "open"
    BY <1>2, <1>5, OutcomeCases
  <2>2. outcome' = "open"
    BY <1>2, <1>5 DEF outcome, ClientInv
  <2> QED
    BY <1>5, <2>1, <2>2
<1>6. CASE data' = data /\ cpc = "filename" /\ cpc' = "finalizing" /\ disk' = disk
  <2>1. outcome = "open" /\ disk # "saved"
    BY <1>2, <1>6, OutcomeCases DEF ClientInv, ClientReceiving
  <2>2. outcome' = "failed"
    BY <1>6, <2>1 DEF outcome, ClientReceiving
  <2> QED
    BY <1>6, <2>1, <2>2 DEF Transfer!Next, Transfer!Fail
<1>7. CASE /\ cpc \in ClientReceiving /\ p.data = Len(data) + 1
           /\ data' = Stored(p.data)
           /\ \/ p.fin /\ disk' = "saved"
              \/ ~p.fin /\ disk' = disk /\ cpc' \in ClientReceiving
  <2>1. /\ data' = Append(data, Len(data) + 1)
        /\ Len(data) + 1 <= NChunks /\ (p.fin <=> Len(data) + 1 = NChunks)
    BY <1>1, <1>7, ChunkStores DEF server
  <2>2. outcome = "open"
    BY <1>2, <1>7, OutcomeCases
  <2>3. CASE p.fin
    <3>1. outcome' = "complete"
      BY <1>7, <2>3 DEF outcome
    <3> QED
      BY <2>1, <2>2, <2>3, <3>1 DEF Transfer!Next, Transfer!AddLastChunk
  <2>4. CASE ~p.fin
    <3>1. outcome' = "open"
      BY <1>2, <1>7, <2>4 DEF outcome, ClientInv
    <3>2. Len(data) + 1 < NChunks
      BY <1>1, <2>1, <2>4
    <3> QED
      BY <2>1, <2>2, <3>1, <3>2 DEF Transfer!Next, Transfer!AddChunk
  <2> QED
    BY <2>3, <2>4
<1>8. CASE ClientName_Answer(i)
  <2>1. cpc = "filename"
    BY <1>8 DEF ClientName_Answer
  <2>2. CASE Abort
    BY <1>6, <2>1, <2>2 DEF Abort, Finalize
  <2>3. CASE IsFirstChunk(p) /\ p.fin /\ StoreLast(p, cseq)
    <3>1. p.data = Len(data) + 1
      BY <1>1, <2>1, <2>3, FirstChunkFits
    <3> QED
      BY <1>7, <2>1, <2>3, <3>1 DEF StoreLast, ClientReceiving
  <2>4. CASE /\ IsFirstChunk(p) /\ ~p.fin /\ data' = Stored(p.data)
             /\ cpc' = "first" /\ disk' = disk
    <3>1. p.data = Len(data) + 1 \/ p.data = 0
      BY <1>1, <2>1, <2>4, FirstChunkFits
    <3>2. CASE p.data = 0
      BY <1>5, <2>1, <2>4, <3>2 DEF Stored, ClientReceiving
    <3> QED
      BY <1>7, <2>1, <2>4, <3>1, <3>2 DEF ClientReceiving
  <2>5. CASE ClientRelistens
    BY <1>4, <2>5 DEF ClientRelistens
  <2> QED
    BY <1>3, <1>8, <2>2, <2>3, <2>4, <2>5 DEF ClientName_Answer
<1>9. CASE ClientFirst_Receives(i)
  <2>1. cpc = "first"
    BY <1>9 DEF ClientFirst_Receives
  <2>2. CASE EndsFirst(p) /\ p.fin /\ StoreLast(p, p.seq)
    <3>1. p.data = Len(data) + 1
      BY <1>1, <2>1, <2>2, ExpectedFits DEF EndsFirst
    <3> QED
      BY <1>7, <2>1, <2>2, <3>1 DEF StoreLast, ClientReceiving
  <2>3. CASE data' = data /\ disk' = disk /\ cpc' \in {"first", "loop"}
    BY <1>5, <2>1, <2>3 DEF ClientReceiving
  <2> QED
    BY <1>3, <1>9, <2>1, <2>2, <2>3 DEF ClientFirst_Receives
<1>10. CASE ClientLoop_Receives(i)
  <2>1. cpc = "loop"
    BY <1>10 DEF ClientLoop_Receives
  <2>2. CASE IsExpected(p) /\ p.fin /\ StoreLast(p, cseq)
    <3>1. p.data = Len(data) + 1
      BY <1>1, <2>1, <2>2, ExpectedFits DEF IsExpected
    <3> QED
      BY <1>7, <2>1, <2>2, <3>1 DEF StoreLast, ClientReceiving
  <2>3. CASE IsExpected(p) /\ ~p.fin /\ data' = Stored(p.data)
             /\ UNCHANGED <<cpc, disk>>
    <3>1. p.data = Len(data) + 1 \/ p.data = 0
      BY <1>1, <2>1, <2>3, ExpectedFits DEF IsExpected
    <3>2. CASE p.data = 0
      BY <1>4, <2>3, <3>2 DEF Stored
    <3> QED
      BY <1>7, <2>1, <2>3, <3>1, <3>2 DEF ClientReceiving
  <2>4. CASE UNCHANGED <<cpc, data, disk>>
    BY <1>4, <2>4
  <2> QED
    BY <1>3, <1>10, <2>2, <2>3, <2>4 DEF ClientLoop_Receives
<1>11. CASE ClientFinalizes_Answer(i)
  <2>1. data' = data /\ cpc = "finalizing" /\ cpc' \in {"finalizing", "closed"}
        /\ (disk' = "saved" <=> disk = "saved")
    BY <1>11 DEF ClientFinalizes_Answer, CleanedUp, ClientRelistens
  <2>2. outcome' = outcome
    BY <2>1 DEF outcome, ClientReceiving
  <2> QED
    BY <2>1, <2>2
<1> QED
  BY <1>8, <1>9, <1>10, <1>11 DEF ClientReceives

\* The client's side implements the abstract transfer: a chunk at a time, in
\* order, complete with the last one, and final once it ended.
THEOREM TransferImplemented == Spec => ImplementsTransfer
<1>1. Init => Transfer!Init
  BY DEF Init, Transfer!Init, outcome, ClientReceiving
<1>2. ASSUME GInv, GInv', [Next]_vars
      PROVE  [Transfer!Next]_<<data, outcome>>
  <2>1. CASE UNCHANGED <<cpc, data, disk>>
    BY <2>1 DEF outcome
  <2>2. CASE \E i \in Deliverable(s2c) : ClientReceives(i)
    BY <1>2, <2>2, ClientTransferStep
  <2>3. CASE ClientGivesUp \/ ClientStops
    <3>1. /\ data' = data /\ cpc' \notin ClientReceiving
          /\ disk' = "saved" <=> disk = "saved"
      BY <2>3 DEF ClientGivesUp, ClientStops, Abort, Finalize, CleanedUp,
                  ClientReceiving
    <3>2. CASE cpc \in ClientReceiving
      <4>1. outcome = "open" /\ disk # "saved"
        BY <1>2, <3>2, OutcomeCases DEF GInv, ClientInv
      <4>2. outcome' = "failed"
        BY <3>1, <4>1 DEF outcome
      <4> QED
        BY <3>1, <4>1, <4>2 DEF Transfer!Next, Transfer!Fail
    <3>3. CASE cpc \notin ClientReceiving
      <4>1. outcome' = outcome
        BY <3>1, <3>3 DEF outcome
      <4> QED
        BY <3>1, <4>1
    <3> QED
      BY <3>2, <3>3
  <2>4. CASE UNCHANGED client
    BY <2>1, <2>4 DEF client
  <2> QED
    BY <1>2, <2>1, <2>2, <2>3, <2>4
    DEF Next, vars, ServerReceivesAt, ServerFilename_Receives,
        ServerChunk_Ack, ServerAwait_Ack, ServerCloses_Answer,
        ServerRefuses_Answer, ServerSendsChunk, ServerWindowSent,
        ServerAwait_Timeout, ClientRetransmits, ClientRelistens,
        ServerRetransmits, ServerGivesUp, ServerStops, Lose, Finished
<1> QED
  BY <1>1, <1>2, Invariance, PTL DEF ImplementsTransfer, Spec, Transfer!Spec
===============================================================================
