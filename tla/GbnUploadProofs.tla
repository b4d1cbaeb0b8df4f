--------------------------- MODULE GbnUploadProofs ---------------------------
(***************************************************************************)
(* What holds of every upload under Go-Back-N, whatever the number of      *)
(* chunks, the window, the capacity of the channels and the faults of the  *)
(* network: the server's file is a prefix of the client's, and the         *)
(* sender's window never passes it.                                        *)
(***************************************************************************)
EXTENDS GbnUploadInvariant, NetworkProofs, PacketsProofs

\* A client's step keeps the types.
LEMMA ClientTypeStep ==
    ASSUME TypeOK, NEW i \in Deliverable(s2c), ClientReceives(i)
    PROVE  TypeOK'
<1>1. s2c[i] \in Packet /\ s2c' \in Seq(Packet)
  <2>1. s2c' \in AfterReceipt(s2c, i)
    BY DEF ClientReceives, ClientInforms_Answer, ClientAwait_Ack,
           ClientCloses_Answer, ClientFinalizes_Answer
  <2> QED
    BY <2>1, ReceiptContents DEF TypeOK
<1>2. \A p \in Packet : Send(c2s, p) \in Seq(Packet)
  BY SendContents DEF TypeOK
<1>3. \A p, q \in Packet : Send(Send(c2s, p), q) \in Seq(Packet)
  BY <1>2, SendContents
<1>4. Resend(c2s, clast) \in Seq(Packet)
  BY <1>2 DEF Resend, TypeOK
<1>5. CASE ClientInforms_Answer(i)
  <2>1. UNCHANGED <<base, next, finBack, spc, sseq, size, data, disk, slast>>
    BY <1>5 DEF ClientInforms_Answer, server
  <2>2. CASE Finalize(cack + 1, cack + 1)
    <3>1. cack + 1 \in Nat
      BY DEF TypeOK
    <3>2. AckPkt(cack + 1, cack + 1) \in Packet /\ FinPkt(cack + 1, cack + 1) \in Packet
      BY <3>1, PacketTypes
    <3>3. Send(Send(c2s, AckPkt(cack + 1, cack + 1)), FinPkt(cack + 1, cack + 1))
              \in Seq(Packet)
      BY <1>3, <3>2
    <3> QED
      BY <1>1, <2>1, <2>2, <3>1, <3>2, <3>3 DEF Finalize, TypeOK, ClientWaits
  <2>3. CASE cack' = cack + 1 /\ cpc = "filename" /\ cpc' = "filesize"
             /\ clast' = DataPkt(FilesizeSeq, cack', NChunks, FALSE)
             /\ c2s' = Send(c2s, clast')
    <3>1. cack' \in Nat /\ clast' \in Packet
      BY <2>3, GbnUploadAssumption DEF TypeOK, FilesizeSeq, DataPkt, Packet
    <3> QED
      BY <1>1, <1>2, <2>1, <2>3, <3>1 DEF TypeOK, ClientWaits
  <2>4. CASE /\ cack' = cack + 1 /\ cpc' \in {"send", "closing"}
             /\ clast' = NoPacket /\ c2s' = c2s
    BY <1>1, <2>1, <2>4, PacketTypes DEF TypeOK, ClientWaits
  <2>5. CASE c2s' = Resend(c2s, clast) /\ UNCHANGED <<cpc, clast, cack>>
    BY <1>1, <1>4, <2>1, <2>5 DEF TypeOK
  <2> QED
    BY <1>5, <2>2, <2>3, <2>4, <2>5 DEF ClientInforms_Answer
<1>6. CASE ClientAwait_Ack(i)
  <2>1. UNCHANGED <<spc, sseq, size, data, disk, slast>>
    BY <1>6 DEF ClientAwait_Ack, server
  <2>2. finBack' \in BOOLEAN /\ next' \in Nat
    BY <1>1, <1>6, PacketFields
    DEF ClientAwait_Ack, IterationEnds, ResetWindow, NextIteration, TypeOK
  <2>3. base' \in Nat /\ cack' \in Nat
    <3>1. s2c[i].an \in Nat
      BY <1>1, PacketFields
    <3> QED
      BY <1>6, <3>1 DEF ClientAwait_Ack, Advances, TypeOK
  <2>4. AckPkt(next + Offset - 1 + 1, cack') \in Packet
    <3>1. next + Offset - 1 + 1 \in Nat
      BY DEF TypeOK, Offset
    <3> QED
      BY <2>3, <3>1, PacketTypes
  <2>5. c2s' \in Seq(Packet)
    BY <1>2, <1>6, <2>4 DEF ClientAwait_Ack, IterationEnds, Complete, TypeOK
  <2>6. /\ cpc' \in {"completed", "send"}
        /\ clast' \in {clast, NoPacket}
    BY <1>6
    DEF ClientAwait_Ack, IterationEnds, Complete, NextIteration, ResetWindow
  <2> QED
    BY <1>1, <2>1, <2>2, <2>3, <2>5, <2>6, PacketTypes DEF TypeOK, ClientEnds
<1>7. CASE ClientCloses_Answer(i)
  <2>1. UNCHANGED <<base, next, cack, clast, finBack, spc, sseq, size, data,
                    disk, slast>>
    BY <1>7 DEF ClientCloses_Answer, server
  <2>2. next + Offset - 1 + 1 \in Nat /\ cack \in Nat
    BY DEF TypeOK, Offset
  <2>3. AckPkt(next + Offset - 1 + 1, cack) \in Packet
    BY <2>2, PacketTypes
  <2>4. c2s' \in Seq(Packet) /\ cpc' \in {"completed", "closing"}
    BY <1>2, <1>4, <1>7, <2>3 DEF ClientCloses_Answer, Complete
  <2> QED
    BY <1>1, <2>1, <2>4 DEF TypeOK, ClientWaits, ClientEnds
<1>8. CASE ClientFinalizes_Answer(i)
  BY <1>1, <1>4, <1>8
  DEF ClientFinalizes_Answer, TypeOK, server, ClientWaits, ClientEnds
<1> QED
  BY <1>5, <1>6, <1>7, <1>8 DEF ClientReceives

\* A step of the server that receives keeps the types.
LEMMA ServerTypeStep ==
    ASSUME TypeOK, NEW i \in Deliverable(c2s), ServerReceivesAt(i)
    PROVE  TypeOK'
<1>1. c2s[i] \in Packet /\ c2s' \in Seq(Packet)
  <2>1. c2s' \in AfterReceipt(c2s, i)
    BY DEF ServerReceivesAt, ServerFilename_Receives, ServerFilesize_Receives,
           ServerFirst_Receives, ServerLoop_Receives, ServerCloses_Answer,
           ServerRejects_Answer
  <2> QED
    BY <2>1, ReceiptContents DEF TypeOK
<1>2. c2s[i].seq \in Nat /\ c2s[i].data \in Nat
  BY <1>1, PacketFields
<1>3. UNCHANGED <<cpc, base, next, cack, clast, finBack>>
  BY DEF client, ServerReceivesAt, ServerFilename_Receives,
         ServerFilesize_Receives, ServerFirst_Receives, ServerLoop_Receives,
         ServerCloses_Answer, ServerRejects_Answer
<1>4. \A p \in Packet : Send(s2c, p) \in Seq(Packet)
  BY SendContents DEF TypeOK
<1>5. \A p, q \in Packet : Send(Send(s2c, p), q) \in Seq(Packet)
  BY <1>4, SendContents
<1>6. \A n \in Nat : AckPkt(n, n) \in Packet /\ FinPkt(n, n) \in Packet
  BY PacketTypes
<1>7. CASE Relisten
  BY <1>1, <1>3, <1>4, <1>7 DEF Relisten, TypeOK
<1>8. Reject => spc' = "rejecting" /\ slast' \in Packet /\ s2c' \in Seq(Packet)
  <2>1. FinPkt(sseq + 1, sseq + 1) \in Packet
    BY <1>6 DEF TypeOK
  <2> QED
    BY <1>4, <2>1 DEF Reject
<1>9. ASSUME NEW n \in Nat, StartClosing(n)
      PROVE  /\ spc' = "closing" /\ disk' = "saved"
             /\ slast' \in Packet /\ s2c' \in Seq(Packet)
  <2>1. Send(Send(s2c, AckPkt(n, n)), FinPkt(n, n)) \in Seq(Packet)
    BY <1>5, <1>6
  <2> QED
    BY <1>6, <1>9, <2>1 DEF StartClosing
<1>10. Stored(c2s[i].data) \in Seq(Nat)
  BY <1>2 DEF Stored, TypeOK
<1>11. Send(s2c, AckPkt(sseq, sseq)) \in Seq(Packet) /\ AckPkt(sseq, sseq) \in Packet
  BY <1>4, <1>6 DEF TypeOK
<1>12. CASE ServerFilename_Receives(i)
  BY <1>1, <1>3, <1>7, <1>8, <1>11, <1>12
  DEF ServerFilename_Receives, TypeOK, FilesizeSeq, ServerWaits
<1>13. CASE ServerFilesize_Receives(i)
  BY <1>1, <1>2, <1>3, <1>7, <1>8, <1>11, <1>13
  DEF ServerFilesize_Receives, TypeOK, ServerReceives, ServerWaits
<1>14. CASE ServerFirst_Receives(i)
  <2>1. size' = size
    BY <1>14 DEF ServerFirst_Receives
  <2>2. CASE sseq' = c2s[i].seq /\ StartClosing(c2s[i].seq)
             /\ data' = Stored(c2s[i].data)
    BY <1>1, <1>2, <1>3, <1>9, <1>10, <2>1, <2>2 DEF TypeOK, ServerWaits
  <2>3. CASE sseq' = c2s[i].seq /\ spc' = "loop"
             /\ UNCHANGED <<data, disk, slast, s2c>>
    BY <1>1, <1>2, <1>3, <2>1, <2>3 DEF TypeOK, ServerReceives
  <2>4. CASE /\ s2c' \in {Send(Send(s2c, AckPkt(sseq, sseq)), slast), Send(s2c, slast)}
             /\ UNCHANGED <<spc, sseq, data, disk, slast>>
    <3>1. s2c' \in Seq(Packet)
      BY <1>4, <1>5, <1>11, <2>4 DEF TypeOK
    <3> QED
      BY <1>1, <1>3, <2>1, <2>4, <3>1 DEF TypeOK
  <2> QED
    BY <1>14, <2>2, <2>3, <2>4 DEF ServerFirst_Receives
<1>15. CASE ServerLoop_Receives(i)
  <2>1. size' = size
    BY <1>15 DEF ServerLoop_Receives
  <2>2. CASE StartClosing(sseq) /\ sseq' = sseq /\ data' = Stored(c2s[i].data)
    <3>1. sseq \in Nat
      BY DEF TypeOK
    <3> QED
      BY <1>1, <1>3, <1>9, <1>10, <2>1, <2>2, <3>1 DEF TypeOK, ServerWaits
  <2>3. CASE /\ data' = Stored(c2s[i].data) /\ sseq' = sseq + 1
             /\ s2c' = Send(s2c, AckPkt(sseq, sseq))
             /\ UNCHANGED <<spc, disk, slast>>
    BY <1>1, <1>3, <1>10, <1>11, <2>1, <2>3 DEF TypeOK
  <2>4. CASE /\ s2c' = Send(s2c, OutOfOrderAck(c2s[i]))
             /\ UNCHANGED <<spc, sseq, data, disk, slast>>
    BY <1>1, <1>3, <1>11, <2>1, <2>4 DEF TypeOK, OutOfOrderAck
  <2> QED
    BY <1>15, <2>2, <2>3, <2>4 DEF ServerLoop_Receives
<1>16. CASE ServerCloses_Answer(i)
  BY <1>1, <1>3, <1>7, <1>16 DEF ServerCloses_Answer, TypeOK, ServerEnds
<1>17. CASE ServerRejects_Answer(i)
  <2>1. Send(s2c, AckPkt(c2s[i].seq + 1, c2s[i].seq + 1)) \in Seq(Packet)
    BY <1>2, <1>4, <1>6
  <2> QED
    BY <1>1, <1>3, <1>7, <1>17, <2>1 DEF ServerRejects_Answer, TypeOK, ServerEnds
<1> QED
  BY <1>12, <1>13, <1>14, <1>15, <1>16, <1>17 DEF ServerReceivesAt

\* Every step keeps the types.
LEMMA TypeStep == TypeOK /\ [Next]_vars => TypeOK'
<1> SUFFICES ASSUME TypeOK, [Next]_vars
             PROVE  TypeOK'
  OBVIOUS
<1>1. \A p \in Packet : Send(c2s, p) \in Seq(Packet) /\ Send(s2c, p) \in Seq(Packet)
  BY SendContents DEF TypeOK
<1>2. CASE \E i \in Deliverable(s2c) : ClientReceives(i)
  BY <1>2, ClientTypeStep
<1>3. CASE \E i \in Deliverable(c2s) : ServerReceivesAt(i)
  BY <1>3, ServerTypeStep
<1>4. CASE ClientSends
  <2>1. DataPkt(next + Offset, cack, next + 1, IsLast(next)) \in Packet
    BY DEF TypeOK, Offset, DataPkt, IsLast, Packet
  <2> QED
    BY <1>1, <1>4, <2>1 DEF ClientSends, TypeOK, server
<1>5. CASE ClientWindowSent
  <2>1. UNCHANGED <<base, next, cack, clast, finBack, spc, sseq, size, data,
                    disk, slast, s2c>>
    BY <1>5 DEF ClientWindowSent, server
  <2>2. AckPkt(next + Offset - 1 + 1, cack) \in Packet
    <3>1. next + Offset - 1 + 1 \in Nat /\ cack \in Nat
      BY DEF TypeOK, Offset
    <3> QED
      BY <3>1, PacketTypes
  <2>3. /\ c2s' \in {c2s, Send(c2s, AckPkt(next + Offset - 1 + 1, cack))}
        /\ cpc' \in {"completed", "closing", "await"}
    BY <1>5 DEF ClientWindowSent, Complete
  <2>4. c2s' \in Seq(Packet)
    BY <1>1, <2>2, <2>3 DEF TypeOK
  <2> QED
    BY <2>1, <2>3, <2>4 DEF TypeOK, ClientWaits, ClientEnds
<1>6. CASE ClientAwait_Timeout
  BY <1>6, PacketTypes
  DEF ClientAwait_Timeout, ResetWindow, NextIteration, TypeOK, server
<1>7. CASE ClientRetransmits
  BY <1>1, <1>7 DEF ClientRetransmits, TypeOK, client, server
<1>8. CASE ClientGivesUp
  <2>1. UNCHANGED <<base, next, finBack, spc, sseq, size, data, disk, slast, s2c>>
    BY <1>8 DEF ClientGivesUp, server
  <2>2. CASE Finalize(ClientSeq + 1, cack + 1)
    <3>1. ClientSeq + 1 \in Nat /\ cack + 1 \in Nat
      BY DEF TypeOK, ClientSeq, Offset
    <3>2. /\ AckPkt(ClientSeq + 1, cack + 1) \in Packet
          /\ FinPkt(ClientSeq + 1, cack + 1) \in Packet
      BY <3>1, PacketTypes
    <3>3. Send(Send(c2s, AckPkt(ClientSeq + 1, cack + 1)), FinPkt(ClientSeq + 1, cack + 1))
              \in Seq(Packet)
      BY <1>1, <3>2, SendContents
    <3> QED
      BY <2>1, <2>2, <3>1, <3>2, <3>3 DEF Finalize, TypeOK, ClientWaits
  <2>3. CASE cpc' = "closed" /\ UNCHANGED <<cack, clast, c2s>>
    BY <2>1, <2>3 DEF TypeOK, ClientEnds
  <2> QED
    BY <1>8, <2>2, <2>3 DEF ClientGivesUp
<1>9. CASE ClientStops
  BY <1>9 DEF ClientStops, TypeOK, server, ClientEnds
<1>10. CASE ServerRetransmits
  BY <1>1, <1>10 DEF ServerRetransmits, Relisten, TypeOK, client
<1>11. CASE ServerGivesUp
  BY <1>11 DEF ServerGivesUp, IncompleteRemoved, TypeOK, client, ServerEnds
<1>12. CASE Lose
  BY <1>12, LossContents DEF Lose, TypeOK, client, server
<1>13. CASE UNCHANGED vars
  BY <1>13 DEF TypeOK, vars, client, server
<1> QED
  BY <1>2, <1>3, <1>4, <1>5, <1>6, <1>7, <1>8, <1>9, <1>10, <1>11, <1>12, <1>13
  DEF Next, Finished

\* The initial values have their types.
LEMMA InitTypes ==
    ASSUME Init
    PROVE  TypeOK
<1>1. AckPkt(1, 1) \in Packet /\ DataPkt(FilenameSeq, FilenameSeq, 0, FALSE) \in Packet
  BY DEF AckPkt, DataPkt, Packet, FilenameSeq
<1>2. clast \in Packet /\ slast \in Packet
  <2>1. clast \in Packet
    BY <1>1, Zenon DEF Init
  <2>2. slast \in Packet
    BY <1>1, Zenon DEF Init
  <2> QED
    BY <2>1, <2>2
<1>3. c2s \in Seq(Packet) /\ s2c \in Seq(Packet)
  <2>1. c2s = <<clast>> /\ s2c \in {<<>>, <<AckPkt(1, 1)>>}
    BY DEF Init
  <2>2. ASSUME NEW p \in Packet PROVE <<p>> \in Seq(Packet)
    OBVIOUS
  <2>3. <<clast>> \in Seq(Packet) /\ <<AckPkt(1, 1)>> \in Seq(Packet)
    BY <1>1, <1>2, <2>2, Zenon
  <2>4. <<>> \in Seq(Packet)
    OBVIOUS
  <2> QED
    BY <2>1, <2>3, <2>4, Zenon
<1>4. /\ cpc = "filename" /\ base = 0 /\ next = 0 /\ cack = 2 /\ finBack \in BOOLEAN
      /\ spc = "filename" /\ sseq = 2 /\ size = 0 /\ data = <<>>
      /\ disk \in {"absent", "foreign"}
  BY Zenon DEF Init, FilenameSeq
<1> QED
  BY <1>2, <1>3, <1>4 DEF TypeOK, ClientWaits, ClientInforms, ServerWaits

\* Every variable keeps its type: the window's numbers stay naturals, and
\* both channels hold packets only.
THEOREM TypeCorrect == Spec => []TypeOK
BY InitTypes, TypeStep, PTL DEF Spec

-----------------------------------------------------------------------------
(* The inductive invariant *)

\* What is on its way is packets.
LEMMA PacketsOnTheirWay ==
    ASSUME TypeOK
    PROVE  ToServer \subseteq Packet /\ ToClient \subseteq Packet
BY DEF TypeOK, ToServer, ToClient, Range

\* What a step of the client must show: its own numbers, the packets it
\* adds, and that its window stays behind the server's file.
LEMMA ClientKeeps ==
    ASSUME IInv, TypeOK',
           UNCHANGED server, ToClient' \subseteq ToClient,
           PhaseInv', InformInv',
           base <= base', base' <= Len(data),
           Abandoned => Abandoned',
           cpc' \in ClientTransfers =>
               \/ cpc \in ClientTransfers
               \/ spc \notin {"filename", "filesize", "rejecting", "rejected"},
           \A p \in ToServer' \ ToServer :
               /\ IsChunk(p) => /\ p.seq = p.data + FilesizeSeq
                                /\ p.data <= NChunks /\ p.data <= base + Window
                                /\ p.fin <=> p.seq = LastSeq
               /\ IsLate(p) /\ p.data = 0 => p.seq > LastSeq \/ Abandoned'
    PROVE  IInv'
<1>1. TypeOK
  BY DEF IInv
<1>2. ToServer' \subseteq Packet /\ base \in Nat /\ base' \in Nat /\ Len(data) \in Nat
  <2>1. Range(c2s') \subseteq Packet /\ clast' \in Packet
    BY DEF TypeOK, Range
  <2> QED
    BY <1>1, <2>1 DEF TypeOK, ToServer
<1>3. ChunkInv'
  <2> SUFFICES ASSUME NEW p \in ToServer', IsChunk(p)
               PROVE  /\ p.seq = p.data + FilesizeSeq
                      /\ p.data <= NChunks /\ p.data <= base' + Window
                      /\ p.fin <=> p.seq = LastSeq
    BY DEF ChunkInv
  <2>1. /\ p.seq = p.data + FilesizeSeq
        /\ p.data <= NChunks /\ p.data <= base + Window
        /\ p.fin <=> p.seq = LastSeq
    BY DEF IInv, ChunkInv
  <2>2. p.data \in Nat
    BY <1>2, PacketFields
  <2> QED
    BY <1>2, <2>1, <2>2, GbnUploadAssumption
<1>4. EmptyInv'
  BY DEF IInv, EmptyInv
<1>5. UNCHANGED <<spc, sseq, data, slast>>
  BY DEF server
<1>6. StoredInv'
  BY <1>2, <1>5, GbnUploadAssumption DEF IInv, StoredInv
<1>7. ServerInv' /\ WholeInv'
  BY <1>5 DEF IInv, ServerInv, WholeInv
<1>8. AnswerInv'
  BY <1>5 DEF IInv, AnswerInv
<1>9. AdmittedInv'
  BY <1>5 DEF IInv, AdmittedInv
<1> QED
  BY <1>3, <1>4, <1>6, <1>7, <1>8, <1>9 DEF IInv

\* What a step of the server must show: its own numbers, and the answers
\* it adds.
LEMMA ServerKeeps ==
    ASSUME IInv, TypeOK',
           UNCHANGED client, ToServer' \subseteq ToServer,
           StoredInv', ServerInv', WholeInv',
           Len(data) <= Len(data)',
           Abandoned => Abandoned',
           \A s \in {"closing", "done", "rejecting", "rejected"} :
               spc = s => spc' \in {"closing", "done", "rejecting", "rejected"},
           cpc \in ClientInforms =>
               data' = data /\ spc' \notin {"loop", "closing", "done"},
           spc' \in {"filename", "filesize", "rejecting", "rejected"} =>
               /\ spc \in {"filename", "filesize", "rejecting", "rejected"}
               /\ \A p \in ToClient' \ ToClient : p.ack => p.an # FilesizeSeq,
           \A p \in ToClient' \ ToClient :
               /\ p.ack <=> ~p.fin
               /\ p.an <= Len(data)' + Offset \/ Abandoned'
               /\ p.fin => spc' \in {"closing", "done", "rejecting", "rejected"}
    PROVE  IInv'
<1>1. UNCHANGED <<cpc, base, next, cack>>
  BY DEF client
<1>2. PhaseInv'
  BY <1>1 DEF IInv, PhaseInv, InWindow
<1>3. InformInv'
  BY <1>1 DEF IInv, InformInv
<1>4. ChunkInv'
  BY <1>1 DEF IInv, ChunkInv
<1>5. EmptyInv'
  BY DEF IInv, EmptyInv
<1>6. AnswerInv'
  <2> SUFFICES ASSUME NEW p \in ToClient', p \in ToClient
               PROVE  /\ p.ack <=> ~p.fin
                      /\ p.an <= Len(data)' + Offset \/ Abandoned'
                      /\ p.fin => spc' \in {"closing", "done", "rejecting", "rejected"}
    BY DEF AnswerInv
  <2>1. /\ p.ack <=> ~p.fin
        /\ p.an <= Len(data) + Offset \/ Abandoned
        /\ p.fin => spc \in {"closing", "done", "rejecting", "rejected"}
    BY DEF IInv, AnswerInv
  <2>2. p.an \in Nat
    BY PacketsOnTheirWay, PacketFields DEF IInv
  <2>3. Len(data) \in Nat /\ Len(data)' \in Nat
    BY DEF IInv, TypeOK
  <2>4. p.an <= Len(data)' + Offset \/ Abandoned'
    BY <2>1, <2>2, <2>3 DEF Offset
  <2> QED
    BY <2>1, <2>4
<1>7. AdmittedInv'
  BY <1>1 DEF IInv, AdmittedInv
<1> QED
  BY <1>2, <1>3, <1>4, <1>5, <1>6, <1>7 DEF IInv

\* sendto adds the packet it is given to what may reach the server.
LEMMA ClientSendsOne ==
    ASSUME TypeOK, NEW p \in Packet,
           c2s' = Send(c2s, p), clast' \in {clast, p}
    PROVE  ToServer' \ ToServer \subseteq {p}
<1>1. Range(c2s') \subseteq Range(c2s) \cup {p}
  BY SendContents DEF TypeOK
<1> QED
  BY <1>1 DEF ToServer

\* A finalization adds its two empty packets.
LEMMA FinalizeSends ==
    ASSUME TypeOK, NEW s \in Nat, NEW a \in Nat, Finalize(s, a)
    PROVE  ToServer' \ ToServer \subseteq {AckPkt(s, a), FinPkt(s, a)}
<1>1. AckPkt(s, a) \in Packet /\ FinPkt(s, a) \in Packet
  BY PacketTypes
<1>2. /\ Send(c2s, AckPkt(s, a)) \in Seq(Packet)
      /\ Range(Send(c2s, AckPkt(s, a))) \subseteq Range(c2s) \cup {AckPkt(s, a)}
  BY <1>1, SendContents DEF TypeOK
<1>3. Range(c2s') \subseteq Range(c2s) \cup {AckPkt(s, a), FinPkt(s, a)}
  BY <1>1, <1>2, SendContents DEF Finalize
<1> QED
  BY <1>3 DEF ToServer, Finalize

\* A client that finalizes leaves the invariant true when the numbers of
\* its packets are beyond the last chunk, or no chunk will be stored.
LEMMA FinalizeStep ==
    ASSUME IInv, TypeOK', NEW s \in Nat, NEW a \in Nat, Finalize(s, a),
           UNCHANGED <<base, next, finBack, server>>, ToClient' \subseteq ToClient,
           cpc \in ClientInforms \cup {"closing"},
           s > LastSeq \/ Abandoned'
    PROVE  IInv'
<1>1. cpc' = "finalizing"
  BY DEF Finalize
<1>2. PhaseInv' /\ InformInv'
  BY <1>1 DEF IInv, PhaseInv, InformInv, ClientInforms, ClientTransfers
<1>3. base <= base' /\ base' <= Len(data)
  BY DEF IInv, TypeOK, StoredInv
<1>4. Abandoned => Abandoned'
  BY DEF Abandoned, server, ClientInforms
<1>5. ASSUME NEW p \in ToServer' \ ToServer
      PROVE  ~IsChunk(p) /\ (IsLate(p) /\ p.data = 0 => p.seq > LastSeq \/ Abandoned')
  <2>1. p \in {AckPkt(s, a), FinPkt(s, a)}
    BY FinalizeSends DEF IInv
  <2>2. p.seq = s /\ p.data = 0
    BY <2>1 DEF AckPkt, FinPkt
  <2> QED
    BY <2>2 DEF IsChunk
<1> QED
  BY <1>1, <1>2, <1>3, <1>4, <1>5, ClientKeeps DEF ClientTransfers

\* A client that completes with the number of the last chunk does, too.
LEMMA CompleteStep ==
    ASSUME IInv, TypeOK', NEW a \in Nat, Complete(next + Offset - 1, a),
           next = NChunks, UNCHANGED <<next, clast, server>>,
           ToClient' \subseteq ToClient,
           cpc \in {"send", "await", "closing"}, cack' = base' + Offset,
           base <= base', base' <= Len(data)
    PROVE  IInv'
<1>1. cpc' = "completed"
  BY DEF Complete
<1>2. PhaseInv' /\ InformInv'
  BY <1>1 DEF IInv, PhaseInv, InformInv, ClientInforms
<1>3. Abandoned => Abandoned'
  BY DEF Abandoned, server
<1>4. next \in Nat
  BY DEF IInv, TypeOK
<1>5. next + Offset - 1 + 1 \in Nat /\ next + Offset - 1 + 1 > LastSeq
  BY <1>4 DEF Offset, LastSeq
<1>6. ASSUME NEW p \in ToServer' \ ToServer
      PROVE  ~IsChunk(p) /\ p.seq > LastSeq
  <2>1. AckPkt(next + Offset - 1 + 1, a) \in Packet
    BY <1>5, PacketTypes
  <2>2. p = AckPkt(next + Offset - 1 + 1, a)
    BY <2>1, ClientSendsOne DEF Complete, IInv
  <2> QED
    BY <1>5, <2>2 DEF AckPkt, IsChunk
<1> QED
  BY <1>1, <1>2, <1>3, <1>6, ClientKeeps DEF ClientTransfers

\* An ACK of at most one number beyond n chunks moves the base to at most n.
LEMMA WindowSlides ==
    ASSUME NEW b \in Nat, NEW c \in Nat, NEW a \in Nat, NEW n \in Nat, NEW d,
           c = b + Offset, a >= c, d = b + (a - c), a <= n + Offset
    PROVE  b <= d /\ d <= n /\ a = d + Offset
BY DEF Offset

\* A step of the client that receives keeps the invariant.
LEMMA ClientReceivesStep ==
    ASSUME IInv, NEW i \in Deliverable(s2c), ClientReceives(i)
    PROVE  IInv'
<1> DEFINE p == s2c[i]
<1>1. TypeOK /\ TypeOK'
  BY ClientTypeStep DEF IInv
<1>2. UNCHANGED server
  BY DEF ClientReceives, ClientInforms_Answer, ClientAwait_Ack,
         ClientCloses_Answer, ClientFinalizes_Answer
<1>3. s2c' \in AfterReceipt(s2c, i)
  BY DEF ClientReceives, ClientInforms_Answer, ClientAwait_Ack,
         ClientCloses_Answer, ClientFinalizes_Answer
<1>4. Range(s2c') \subseteq Range(s2c) /\ p \in Range(s2c) /\ p \in Packet
  BY <1>1, <1>3, ReceiptContents DEF TypeOK
<1>5. p \in ToClient /\ ToClient' \subseteq ToClient
  BY <1>2, <1>4 DEF ToClient, server
<1>6. p.an \in Nat /\ p.ack \in BOOLEAN /\ p.fin \in BOOLEAN /\ p.seq \in Nat
  BY <1>4, PacketFields
<1>7. /\ base \in Nat /\ next \in Nat /\ cack \in Nat /\ Len(data) \in Nat
      /\ clast \in Packet
  BY <1>1 DEF TypeOK
<1>8. base <= Len(data) /\ Len(data) <= NChunks /\ Len(data) <= base + Window
  BY DEF IInv, StoredInv
<1>9. c2s' = Resend(c2s, clast) /\ clast' = clast => ToServer' \subseteq ToServer
  BY <1>1, <1>7, ClientSendsOne DEF Resend, ToServer
<1>10. /\ p.ack <=> ~p.fin
       /\ p.an <= Len(data) + Offset \/ Abandoned
       /\ p.fin => spc \in {"closing", "done", "rejecting", "rejected"}
  BY <1>5 DEF IInv, AnswerInv
<1> HIDE DEF p
<1>11. CASE ClientInforms_Answer(i)
  <2>1. cpc \in ClientInforms /\ UNCHANGED <<base, next, finBack, server>>
    BY <1>11 DEF ClientInforms_Answer
  <2>2. base = 0 /\ next = 0 /\ cack \in {FilenameSeq, FilesizeSeq}
        /\ spc \notin {"loop", "closing", "done"} /\ data = <<>>
        /\ \A q \in ToServer : ~IsLate(q)
    BY <2>1 DEF IInv, PhaseInv, InformInv, ClientInforms
  <2>3. CASE Refuses(p) /\ Finalize(cack + 1, cack + 1)
    <3>1. Abandoned'
      BY <1>2, <1>6, <1>10, <2>2, <2>3 DEF Refuses, Abandoned, server
    <3>2. cack + 1 \in Nat
      BY <1>7
    <3> QED
      BY <1>1, <1>5, <2>1, <2>3, <3>1, <3>2, FinalizeStep
  <2>4. CASE /\ cpc = "filename" /\ cpc' = "filesize" /\ cack' = cack + 1
             /\ clast' = DataPkt(FilesizeSeq, cack', NChunks, FALSE)
             /\ c2s' = Send(c2s, clast')
    <3>1. cack' = FilesizeSeq
      BY <2>4 DEF IInv, PhaseInv, FilenameSeq, FilesizeSeq
    <3>2. clast' \in Packet
      BY <1>1 DEF TypeOK
    <3>3. ToServer' \ ToServer \subseteq {clast'}
      BY <1>1, <2>4, <3>2, ClientSendsOne
    <3>4. clast'.seq = FilesizeSeq
      BY <2>4 DEF DataPkt
    <3>5. \A q \in ToServer' \ ToServer : ~IsLate(q)
      BY <3>3, <3>4 DEF IsLate, Offset, FilesizeSeq
    <3>6. PhaseInv'
      BY <2>1, <2>2, <2>4, <3>1, GbnUploadAssumption
      DEF PhaseInv, ClientInforms, ClientTransfers
    <3>7. InformInv'
      BY <1>2, <2>2, <3>5 DEF InformInv, server
    <3>8. Abandoned => Abandoned'
      BY <1>2, <2>4 DEF Abandoned, server
    <3>9. base <= base' /\ base' <= Len(data)
      BY <1>7, <1>8, <2>1
    <3> QED
      BY <1>1, <1>2, <1>5, <2>4, <3>5, <3>6, <3>7, <3>8, <3>9, ClientKeeps
      DEF IsChunk, ClientTransfers
  <2>5. CASE /\ Confirms(p) /\ cpc = "filesize" /\ cack' = cack + 1
             /\ cpc' = IF NChunks > 0 THEN "send" ELSE "closing"
             /\ clast' = NoPacket /\ c2s' = c2s
    <3>1. cack = FilesizeSeq
      BY <2>5 DEF IInv, PhaseInv
    <3>2. spc \notin {"filename", "filesize", "rejecting", "rejected"}
      BY <1>5, <2>5, <3>1 DEF Confirms, IInv, AdmittedInv
    <3>3. \A q \in ToServer' \ ToServer : ~IsLate(q)
      BY <2>5 DEF ToServer, NoPacket, IsLate, Offset
    <3>4. PhaseInv'
      BY <2>1, <2>2, <2>5, <3>1, GbnUploadAssumption
      DEF PhaseInv, ClientInforms, ClientTransfers, FilesizeSeq, Offset
    <3>5. InformInv'
      BY <2>5 DEF InformInv, ClientInforms
    <3>6. Abandoned => Abandoned'
      BY <1>2, <2>5 DEF Abandoned, server
    <3>7. base <= base' /\ base' <= Len(data)
      BY <1>7, <1>8, <2>1
    <3> QED
      BY <1>1, <1>2, <1>5, <3>2, <3>3, <3>4, <3>5, <3>6, <3>7, ClientKeeps
      DEF IsChunk
  <2>6. CASE c2s' = Resend(c2s, clast) /\ UNCHANGED <<cpc, clast, cack>>
    <3>1. ToServer' \subseteq ToServer
      BY <1>9, <2>6
    <3>2. PhaseInv' /\ InformInv'
      BY <2>1, <2>6, <3>1 DEF IInv, PhaseInv, InformInv, InWindow, server
    <3>3. Abandoned => Abandoned'
      BY <1>2, <2>6, <3>1 DEF Abandoned, server
    <3>4. base <= base' /\ base' <= Len(data)
      BY <1>7, <1>8, <2>1
    <3> QED
      BY <1>1, <1>2, <1>5, <2>6, <3>1, <3>2, <3>3, <3>4, ClientKeeps
  <2> QED
    BY <1>11, <2>3, <2>4, <2>5, <2>6 DEF ClientInforms_Answer, p
<1>12. CASE ClientAwait_Ack(i)
  <2>1. cpc = "await" /\ cack = base + Offset /\ NChunks > 0 /\ next <= NChunks
        /\ ~InWindow(next)
    BY <1>12 DEF ClientAwait_Ack, IInv, PhaseInv, ClientTransfers
  <2>2. spc \notin {"filename", "filesize", "rejecting", "rejected"} /\ ~Abandoned
    BY <2>1 DEF IInv, AdmittedInv, ClientTransfers, Abandoned
  <2>3. p.an <= Len(data) + Offset
    BY <1>10, <2>2
  <2>4. base <= base' /\ base' <= Len(data) /\ cack' = base' + Offset
    <3>1. base \in Nat /\ cack \in Nat /\ Len(data) \in Nat /\ p.an \in Nat
      BY <1>6, <1>7
    <3>2. CASE p.an >= cack /\ base' = base + (p.an - cack) /\ cack' = p.an
      BY <2>1, <2>3, <3>1, <3>2, WindowSlides
    <3>3. CASE UNCHANGED <<base, cack>>
      BY <1>8, <2>1, <3>1, <3>3
    <3> QED
      BY <1>12, <3>2, <3>3 DEF ClientAwait_Ack, Advances, p
  <2>5. CASE /\ p.fin /\ ~p.ack /\ next' = next /\ clast' = clast
             /\ Complete(next + Offset - 1, cack')
    <3>2. Len(data) = NChunks
      BY <1>10, <2>2, <2>5 DEF IInv, WholeInv
    <3>3. next = NChunks
      BY <1>7, <1>8, <2>1, <3>2, GbnUploadAssumption DEF InWindow
    <3>4. cack' \in Nat
      BY <1>1 DEF TypeOK
    <3> QED
      BY <1>1, <1>2, <1>5, <2>1, <2>5, <2>4, <3>3, <3>4, CompleteStep
  <2>6. CASE /\ NextIteration /\ c2s' = c2s
             /\ next' \in {next, base}
    <3>2. next' <= NChunks
      BY <1>7, <1>8, <2>1, <2>6, GbnUploadAssumption
    <3>3. PhaseInv' /\ InformInv'
      BY <2>1, <2>6, <2>4, <3>2
      DEF NextIteration, PhaseInv, InformInv, ClientInforms
    <3>4. \A q \in ToServer' \ ToServer : ~IsLate(q)
      BY <2>6 DEF NextIteration, ToServer, NoPacket, IsLate, Offset
    <3> QED
      BY <1>1, <1>2, <1>5, <2>1, <2>2, <2>4, <3>3, <3>4, ClientKeeps
      DEF IsChunk, ClientTransfers
  <2> QED
    BY <1>12, <2>5, <2>6 DEF ClientAwait_Ack, IterationEnds, ResetWindow, p
<1>13. CASE ClientCloses_Answer(i)
  <2>1. cpc = "closing" /\ next = NChunks /\ cack = base + Offset
        /\ UNCHANGED <<base, next, cack, clast, finBack, server>>
    BY <1>13 DEF ClientCloses_Answer, IInv, PhaseInv, ClientTransfers
  <2>2. base <= base' /\ base' <= Len(data)
    BY <1>7, <1>8, <2>1
  <2>3. CASE Complete(next + Offset - 1, cack)
    BY <1>1, <1>5, <1>7, <2>1, <2>2, <2>3, CompleteStep
  <2>4. CASE c2s' = Resend(c2s, clast) /\ cpc' = cpc
    <3>1. ToServer' \subseteq ToServer
      BY <1>9, <2>1, <2>4
    <3>2. PhaseInv' /\ InformInv'
      BY <2>1, <2>4 DEF IInv, PhaseInv, InformInv, ClientInforms
    <3>3. Abandoned => Abandoned'
      BY <1>2, <2>1 DEF Abandoned, server
    <3> QED
      BY <1>1, <1>2, <1>5, <2>2, <2>4, <3>1, <3>2, <3>3, ClientKeeps
  <2> QED
    BY <1>13, <2>3, <2>4 DEF ClientCloses_Answer
<1>14. CASE ClientFinalizes_Answer(i)
  <2>1. cpc = "finalizing" /\ cpc' \in {"finalizing", "closed"}
        /\ UNCHANGED <<base, next, cack, clast, finBack, server>>
    BY <1>14 DEF ClientFinalizes_Answer
  <2>2. ToServer' \subseteq ToServer
    BY <1>9, <1>14 DEF ClientFinalizes_Answer, ToServer
  <2>3. PhaseInv' /\ InformInv'
    BY <2>1 DEF IInv, PhaseInv, InformInv, ClientInforms, ClientTransfers
  <2>4. Abandoned => Abandoned'
    BY <2>1, <2>2 DEF Abandoned, server
  <2>5. base <= base' /\ base' <= Len(data)
    BY <1>7, <1>8, <2>1
  <2> QED
    BY <1>1, <1>2, <1>5, <2>1, <2>2, <2>3, <2>4, <2>5, ClientKeeps
    DEF ClientTransfers
<1> QED
  BY <1>11, <1>12, <1>13, <1>14 DEF ClientReceives

\* A step that the client takes on its own keeps the invariant.
LEMMA ClientOwnStep ==
    ASSUME IInv,
           \/ ClientSends \/ ClientWindowSent \/ ClientAwait_Timeout
           \/ ClientRetransmits \/ ClientGivesUp \/ ClientStops
    PROVE  IInv'
<1>1. TypeOK /\ TypeOK'
  BY TypeStep DEF IInv, Next
<1>2. UNCHANGED <<base, server, s2c>>
  BY DEF ClientSends, ClientWindowSent, ClientAwait_Timeout,
         ClientRetransmits, ClientGivesUp, ClientStops, client
<1>3. ToClient' \subseteq ToClient
  BY <1>2 DEF ToClient, server
<1>4. /\ base \in Nat /\ next \in Nat /\ cack \in Nat /\ Len(data) \in Nat
      /\ clast \in Packet
  BY <1>1 DEF TypeOK
<1>5. base <= Len(data) /\ Len(data) <= NChunks /\ Len(data) <= base + Window
  BY DEF IInv, StoredInv
<1>6. base <= base' /\ base' <= Len(data)
  BY <1>2, <1>4, <1>5
<1>7. CASE ClientSends
  <2> DEFINE p == DataPkt(next + Offset, cack, next + 1, IsLast(next))
  <2>1. /\ cpc = "send" /\ InWindow(next) /\ next' = next + 1
        /\ c2s' = Send(c2s, p) /\ clast' = p /\ UNCHANGED <<cpc, cack>>
    BY <1>7 DEF ClientSends
  <2>2. p \in Packet
    BY <1>1, <2>1 DEF TypeOK
  <2>3. ToServer' \ ToServer \subseteq {p}
    BY <1>1, <2>1, <2>2, ClientSendsOne
  <2>4. p.seq = next + Offset /\ p.data = next + 1 /\ (p.fin <=> next = NChunks - 1)
    BY DEF DataPkt, IsLast
  <2>5. /\ p.seq = p.data + FilesizeSeq
        /\ p.data <= NChunks /\ p.data <= base + Window /\ p.data # 0
    BY <1>4, <2>1, <2>4, GbnUploadAssumption DEF InWindow, Offset, FilesizeSeq
  <2>6. p.fin <=> p.seq = LastSeq
    BY <1>4, <2>4, GbnUploadAssumption DEF Offset, LastSeq
  <2>7. PhaseInv' /\ InformInv'
    BY <1>2, <1>4, <2>1, GbnUploadAssumption
    DEF IInv, PhaseInv, InformInv, ClientInforms, ClientTransfers, InWindow
  <2>8. Abandoned => Abandoned'
    BY <1>2, <2>1 DEF Abandoned, server
  <2> HIDE DEF p
  <2> QED
    BY <1>1, <1>2, <1>3, <1>6, <2>1, <2>3, <2>5, <2>6, <2>7, <2>8, ClientKeeps
    DEF ClientTransfers
<1>8. CASE ClientWindowSent
  <2>1. /\ cpc = "send" /\ ~InWindow(next)
        /\ UNCHANGED <<next, cack, clast>>
    BY <1>8 DEF ClientWindowSent
  <2>2. next <= NChunks /\ cack = base + Offset
    BY <2>1 DEF IInv, PhaseInv, ClientTransfers
  <2>3. CASE base + 1 = NChunks /\ Complete(next + Offset - 1, cack)
    <3>1. next = NChunks
      BY <1>4, <2>1, <2>2, <2>3, GbnUploadAssumption DEF InWindow
    <3>2. cack' = base' + Offset
      BY <1>2, <2>1, <2>2
    <3> QED
      BY <1>1, <1>2, <1>3, <1>4, <1>6, <2>1, <2>3, <3>1, <3>2, CompleteStep
  <2>4. CASE /\ cpc' = IF base + 1 = NChunks THEN "closing" ELSE "await"
             /\ c2s' = c2s
    <3>1. ToServer' = ToServer
      BY <2>1, <2>4 DEF ToServer
    <3>2. PhaseInv' /\ InformInv'
      BY <1>2, <1>4, <2>1, <2>4, GbnUploadAssumption
      DEF IInv, PhaseInv, InformInv, ClientInforms, ClientTransfers, InWindow
    <3>3. Abandoned => Abandoned'
      BY <1>2, <2>1 DEF Abandoned, server
    <3> QED
      BY <1>1, <1>2, <1>3, <1>6, <2>1, <2>4, <3>1, <3>2, <3>3, ClientKeeps
      DEF ClientTransfers
  <2> QED
    BY <1>8, <2>3, <2>4 DEF ClientWindowSent
<1>9. CASE ClientAwait_Timeout
  <2>1. /\ cpc = "await" /\ cpc' = "send" /\ next' = base /\ clast' = NoPacket
        /\ UNCHANGED <<cack, c2s>>
    BY <1>9 DEF ClientAwait_Timeout, ResetWindow, NextIteration
  <2>2. \A q \in ToServer' \ ToServer : ~IsLate(q)
    BY <2>1 DEF ToServer, NoPacket, IsLate, Offset
  <2>3. PhaseInv' /\ InformInv'
    BY <1>2, <1>4, <1>5, <2>1, GbnUploadAssumption
    DEF IInv, PhaseInv, InformInv, ClientInforms, ClientTransfers
  <2>4. Abandoned => Abandoned'
    BY <1>2, <2>1 DEF Abandoned, server
  <2> QED
    BY <1>1, <1>2, <1>3, <1>6, <2>1, <2>2, <2>3, <2>4, ClientKeeps
    DEF ClientTransfers, IsChunk
<1>10. CASE ClientRetransmits
  <2>1. c2s' = Send(c2s, clast) /\ UNCHANGED <<cpc, next, cack, clast>>
    BY <1>10 DEF ClientRetransmits, client
  <2>2. ToServer' \subseteq ToServer
    BY <1>1, <1>4, <2>1, ClientSendsOne DEF ToServer
  <2>3. PhaseInv' /\ InformInv'
    BY <1>2, <2>1, <2>2 DEF IInv, PhaseInv, InformInv, InWindow, server
  <2>4. Abandoned => Abandoned'
    BY <1>2, <2>1, <2>2 DEF Abandoned, server
  <2> QED
    BY <1>1, <1>2, <1>3, <1>6, <2>1, <2>2, <2>3, <2>4, ClientKeeps
<1>11. CASE ClientGivesUp
  <2>1. UNCHANGED <<next, finBack>>
        /\ \/ cpc \in ClientInforms /\ "setup" \in GivesUp
           \/ cpc \in {"closing", "finalizing"}
    BY <1>11 DEF ClientGivesUp, ClientWaits, ClientInforms
  <2>2. CASE cpc # "finalizing" /\ Finalize(ClientSeq + 1, cack + 1)
    <3>1. ClientSeq + 1 \in Nat /\ cack + 1 \in Nat
      BY <1>4 DEF ClientSeq, Offset
    <3>2. CASE cpc = "closing"
      <4>1. ClientSeq + 1 > LastSeq
        BY <1>4, <3>2, GbnUploadAssumption
        DEF IInv, PhaseInv, ClientSeq, Offset, LastSeq
      <4> QED
        BY <1>1, <1>2, <1>3, <2>1, <2>2, <3>1, <3>2, <4>1, FinalizeStep
    <3>3. CASE cpc \in ClientInforms /\ "setup" \in GivesUp
      <4>1. /\ \A q \in ToServer : ~IsLate(q)
            /\ data = <<>>
        BY <3>3 DEF IInv, InformInv
      <4>2. \A q \in ToServer' \ ToServer : ~IsChunk(q)
        BY <1>1, <2>2, <3>1, FinalizeSends DEF AckPkt, FinPkt, IsChunk
      <4>3. Abandoned'
        BY <1>2, <2>2, <3>3, <4>1, <4>2
        DEF Abandoned, Finalize, IsChunk, server
      <4> QED
        BY <1>1, <1>2, <1>3, <2>1, <2>2, <3>1, <3>3, <4>3, FinalizeStep
    <3> QED
      BY <2>1, <2>2, <3>2, <3>3
  <2>3. CASE cpc' = "closed" /\ UNCHANGED <<cack, clast, c2s>>
    <3>1. ToServer' = ToServer
      BY <2>3 DEF ToServer
    <3>2. PhaseInv' /\ InformInv'
      BY <1>2, <2>1, <2>3
      DEF IInv, PhaseInv, InformInv, ClientInforms, ClientTransfers
    <3>3. Abandoned => Abandoned'
      BY <1>2, <2>1, <2>3, <3>1 DEF Abandoned, server, ClientInforms
    <3> QED
      BY <1>1, <1>2, <1>3, <1>6, <2>3, <3>1, <3>2, <3>3, ClientKeeps
      DEF ClientTransfers
  <2> QED
    BY <1>11, <2>2, <2>3 DEF ClientGivesUp
<1>12. CASE ClientStops
  <2>1. /\ cpc \notin ClientEnds /\ cpc' = "stopped"
        /\ UNCHANGED <<next, cack, clast, c2s>>
    BY <1>12 DEF ClientStops
  <2>2. ToServer' = ToServer
    BY <2>1 DEF ToServer
  <2>3. PhaseInv' /\ InformInv'
    BY <1>2, <2>1
    DEF IInv, PhaseInv, InformInv, ClientInforms, ClientTransfers
  <2>4. Abandoned => Abandoned'
    BY <1>2, <2>1, <2>2 DEF Abandoned, server
  <2> QED
    BY <1>1, <1>2, <1>3, <1>6, <2>1, <2>2, <2>3, <2>4, ClientKeeps
    DEF ClientTransfers
<1> QED
  BY <1>7, <1>8, <1>9, <1>10, <1>11, <1>12

\* The server's answers add at most what it sends to what may reach the
\* client.
LEMMA ServerSendsOne ==
    ASSUME TypeOK, NEW p \in Packet,
           s2c' = Send(s2c, p), slast' \in {slast, p}
    PROVE  ToClient' \ ToClient \subseteq {p}
<1>1. Range(s2c') \subseteq Range(s2c) \cup {p}
  BY SendContents DEF TypeOK
<1> QED
  BY <1>1 DEF ToClient

\* So do two answers in a row.
LEMMA ServerSendsTwo ==
    ASSUME TypeOK, NEW p \in Packet, NEW q \in Packet,
           s2c' = Send(Send(s2c, p), q), slast' \in {slast, q}
    PROVE  ToClient' \ ToClient \subseteq {p, q}
<1>1. /\ Send(s2c, p) \in Seq(Packet)
      /\ Range(Send(s2c, p)) \subseteq Range(s2c) \cup {p}
  BY SendContents DEF TypeOK
<1>2. Range(s2c') \subseteq Range(s2c) \cup {p, q}
  BY <1>1, SendContents
<1> QED
  BY <1>2 DEF ToClient

\* A step of the server that stores nothing.
LEMMA ServerAnswers ==
    ASSUME IInv, TypeOK',
           UNCHANGED client, ToServer' \subseteq ToServer, data' = data,
           ServerInv', WholeInv',
           \A s \in {"closing", "done", "rejecting", "rejected"} :
               spc = s => spc' \in {"closing", "done", "rejecting", "rejected"},
           spc \in {"rejecting", "rejected"} => spc' \in {"rejecting", "rejected"},
           cpc \in ClientInforms => spc' \notin {"loop", "closing", "done"},
           spc' \in {"filename", "filesize", "rejecting", "rejected"} =>
               /\ spc \in {"filename", "filesize", "rejecting", "rejected"}
               /\ \A p \in ToClient' \ ToClient : p.ack => p.an # FilesizeSeq,
           \A p \in ToClient' \ ToClient :
               /\ p.ack <=> ~p.fin
               /\ p.an <= Len(data) + Offset \/ Abandoned'
               /\ p.fin => spc' \in {"closing", "done", "rejecting", "rejected"}
    PROVE  IInv'
<1>1. UNCHANGED <<cpc, base>>
  BY DEF client
<1>2. StoredInv'
  BY <1>1 DEF IInv, StoredInv
<1>3. Abandoned => Abandoned'
  BY <1>1 DEF Abandoned
<1>4. Len(data) <= Len(data)'
  BY DEF IInv, TypeOK
<1> QED
  BY <1>2, <1>3, <1>4, ServerKeeps

\* Storing the chunk after the last one stored extends the prefix.
LEMMA StoringExtends ==
    ASSUME TypeOK, StoredInv, base' = base,
           Len(data) + 1 <= NChunks, Len(data) + 1 <= base + Window,
           data' = Append(data, Len(data) + 1)
    PROVE  StoredInv' /\ Len(data)' = Len(data) + 1
<1>1. data \in Seq(Nat) /\ base \in Nat /\ Len(data) \in Nat
  BY DEF TypeOK
<1>2. Len(data)' = Len(data) + 1
  BY <1>1
<1>3. data' = [k \in 1 .. Len(data) + 1 |-> k]
  <2>1. data = [k \in 1 .. Len(data) |-> k]
    BY DEF StoredInv
  <2>2. DOMAIN data' = 1 .. Len(data) + 1
    BY <1>1
  <2>3. ASSUME NEW k \in 1 .. Len(data) + 1
        PROVE  data'[k] = k
    BY <1>1, <2>1, <2>3
  <2>4. data' \in Seq(Nat)
    BY <1>1
  <2> QED
    BY <2>2, <2>3, <2>4
<1> QED
  BY <1>1, <1>2, <1>3 DEF StoredInv

\* What the expected packet tells a server that receives chunks: it is the
\* next chunk, or nothing will be stored.
LEMMA ExpectedPacket ==
    ASSUME IInv, NEW p \in ToServer, p \in Packet, IsLate(p),
           spc \in {"first", "loop"},
           ~Abandoned => p.seq = Len(data) + Offset /\ p.seq <= LastSeq
    PROVE  \/ /\ p.data = 0 /\ Stored(p.data) = data /\ Abandoned
           \/ /\ ~Abandoned
              /\ p.data = Len(data) + 1 /\ p.data <= NChunks /\ p.data <= base + Window
              /\ p.fin <=> p.data = NChunks
              /\ Stored(p.data) = Append(data, Len(data) + 1)
<1>1. p.data \in Nat /\ p.seq \in Nat /\ Len(data) \in Nat
  BY PacketFields DEF IInv, TypeOK
<1>2. CASE p.data = 0
  <2>1. p.seq > LastSeq \/ Abandoned
    BY <1>2 DEF IInv, EmptyInv
  <2>2. Abandoned
    BY <1>1, <2>1, GbnUploadAssumption DEF LastSeq
  <2> QED
    BY <1>2, <2>2 DEF Stored
<1>3. CASE p.data # 0
  <2>1. /\ p.seq = p.data + FilesizeSeq
        /\ p.data <= NChunks /\ p.data <= base + Window
        /\ p.fin <=> p.seq = LastSeq
    BY <1>3 DEF IInv, ChunkInv, IsChunk
  <2>2. ~Abandoned
    BY <1>1, <1>3, <2>1, GbnUploadAssumption DEF Abandoned, IsChunk
  <2>3. p.data = Len(data) + 1
    BY <1>1, <2>1, <2>2 DEF Offset, FilesizeSeq
  <2>4. p.fin <=> p.data = NChunks
    BY <1>1, <2>1, GbnUploadAssumption DEF FilesizeSeq, LastSeq
  <2> QED
    BY <1>3, <2>1, <2>2, <2>3, <2>4 DEF Stored
<1> QED
  BY <1>2, <1>3

\* The first chunk has the number it would have if it were stored.
LEMMA FirstIsLate ==
    ASSUME IInv, NEW p \in ToServer, p \in Packet, spc = "first", IsFirst(p)
    PROVE  /\ IsLate(p) /\ p.seq = Offset /\ data = <<>>
           /\ ~Abandoned => p.seq = Len(data) + Offset /\ p.seq <= LastSeq
<1>1. p.seq = Offset /\ data = <<>>
  BY DEF IInv, ServerInv, IsFirst, FilesizeSeq, Offset
<1>2. ~Abandoned => NChunks > 0
  BY GbnUploadAssumption DEF Abandoned
<1> QED
  BY <1>1, <1>2, GbnUploadAssumption DEF IsLate, Offset, LastSeq

\* The last chunk, stored, or a finalization's packet starts the closing
\* handshake with the number of that packet.
LEMMA ClosingStep ==
    ASSUME IInv, TypeOK', UNCHANGED client, ToServer' \subseteq ToServer,
           NEW p \in ToServer, p \in Packet, IsLate(p), p.fin,
           spc \in {"first", "loop"},
           ~Abandoned => p.seq = Len(data) + Offset /\ p.seq <= LastSeq,
           StartClosing(p.seq), data' = Stored(p.data)
    PROVE  IInv'
<1>1. UNCHANGED <<cpc, base>>
  BY DEF client
<1>2. cpc \notin ClientInforms
  BY DEF IInv, InformInv
<1>3. TypeOK /\ p.seq \in Nat /\ Len(data) \in Nat
  BY PacketFields DEF IInv, TypeOK
<1>4. AckPkt(p.seq, p.seq) \in Packet /\ FinPkt(p.seq, p.seq) \in Packet
  BY <1>3, PacketTypes
<1>5. ToClient' \ ToClient \subseteq {AckPkt(p.seq, p.seq), FinPkt(p.seq, p.seq)}
  BY <1>3, <1>4, ServerSendsTwo DEF StartClosing
<1>6. spc' = "closing"
  BY DEF StartClosing
<1>7. ASSUME NEW q \in ToClient' \ ToClient
      PROVE  (q.ack <=> ~q.fin) /\ q.an = p.seq
  BY <1>5 DEF AckPkt, FinPkt
<1>8. ServerInv'
  BY <1>6 DEF ServerInv
<1>9. CASE Abandoned
  <2>1. data' = data
    BY <1>9, ExpectedPacket
  <2>2. Abandoned'
    BY <1>1, <1>9, <2>1 DEF Abandoned
  <2>3. WholeInv'
    BY <2>2 DEF WholeInv
  <2> QED
    BY <1>2, <1>6, <1>7, <1>8, <1>9, <2>1, <2>2, <2>3, ServerAnswers
<1>10. CASE ~Abandoned
  <2>1. /\ data' = Append(data, Len(data) + 1) /\ Len(data) + 1 = NChunks
        /\ Len(data) + 1 <= base + Window
    BY <1>10, ExpectedPacket
  <2>2. StoredInv' /\ Len(data)' = Len(data) + 1
    BY <1>1, <1>3, <2>1, GbnUploadAssumption, StoringExtends DEF IInv
  <2>3. WholeInv'
    BY <2>1, <2>2 DEF WholeInv
  <2>4. p.seq <= Len(data)' + Offset
    BY <1>3, <1>10, <2>2 DEF Offset
  <2>5. Len(data) <= Len(data)'
    BY <1>3, <2>2
  <2> QED
    BY <1>2, <1>6, <1>7, <1>8, <1>10, <2>2, <2>3, <2>4, <2>5, ServerKeeps
<1> QED
  BY <1>9, <1>10

\* A step of the server that receives keeps the invariant.
LEMMA ServerReceivesStep ==
    ASSUME IInv, NEW i \in Deliverable(c2s), ServerReceivesAt(i)
    PROVE  IInv'
<1> DEFINE p == c2s[i]
<1>1. TypeOK /\ TypeOK'
  BY ServerTypeStep DEF IInv
<1>2. UNCHANGED client /\ c2s' \in AfterReceipt(c2s, i)
  BY DEF ServerReceivesAt, ServerFilename_Receives, ServerFilesize_Receives,
         ServerFirst_Receives, ServerLoop_Receives, ServerCloses_Answer,
         ServerRejects_Answer
<1>3. Range(c2s') \subseteq Range(c2s) /\ p \in Range(c2s) /\ p \in Packet
  BY <1>1, <1>2, ReceiptContents DEF TypeOK
<1>4. p \in ToServer /\ ToServer' \subseteq ToServer
  BY <1>2, <1>3 DEF ToServer, client
<1>5. /\ p.seq \in Nat /\ p.data \in Nat /\ sseq \in Nat /\ Len(data) \in Nat
      /\ slast \in Packet
  BY <1>1, <1>3, PacketFields DEF TypeOK
<1>6. UNCHANGED <<cpc, base>>
  BY <1>2 DEF client
<1>7. AckPkt(sseq, sseq) \in Packet /\ FinPkt(sseq + 1, sseq + 1) \in Packet
  BY <1>5, PacketTypes
<1>8. s2c' = Send(s2c, slast) /\ slast' = slast => ToClient' \subseteq ToClient
  BY <1>1, <1>5, ServerSendsOne DEF ToClient
<1> HIDE DEF p
<1>9. CASE Relisten
  <2>1. UNCHANGED <<spc, sseq, data, slast>> /\ ToClient' \subseteq ToClient
    BY <1>8, <1>9 DEF Relisten
  <2>2. Abandoned => Abandoned'
    BY <1>4, <1>6, <2>1 DEF Abandoned
  <2>3. ServerInv' /\ WholeInv'
    BY <2>1, <2>2 DEF IInv, ServerInv, WholeInv
  <2>4. cpc \in ClientInforms => spc \notin {"loop", "closing", "done"}
    BY DEF IInv, InformInv
  <2> QED
    BY <1>1, <1>2, <1>4, <2>1, <2>3, <2>4, ServerAnswers
<1>10. CASE Reject /\ spc \in {"filename", "filesize"} /\ data' = data
  <2>1. /\ spc' = "rejecting" /\ s2c' = Send(s2c, FinPkt(sseq + 1, sseq + 1))
        /\ slast' = FinPkt(sseq + 1, sseq + 1)
    BY <1>10 DEF Reject
  <2>2. ToClient' \ ToClient \subseteq {FinPkt(sseq + 1, sseq + 1)}
    BY <1>1, <1>7, <2>1, ServerSendsOne
  <2>3. sseq \in {FilenameSeq, FilesizeSeq}
    BY <1>10 DEF IInv, ServerInv
  <2>4. FinPkt(sseq + 1, sseq + 1).seq >= FilesizeSeq
    BY <2>3 DEF FinPkt, FilenameSeq, FilesizeSeq
  <2>5. ServerInv' /\ WholeInv' /\ Abandoned'
    BY <2>1, <2>4 DEF ServerInv, WholeInv, Abandoned
  <2>6. ASSUME NEW q \in ToClient' \ ToClient PROVE ~q.ack /\ q.fin
    BY <2>2 DEF FinPkt
  <2> QED
    BY <1>1, <1>2, <1>4, <1>10, <2>1, <2>5, <2>6, ServerAnswers
<1>11. CASE ServerFilename_Receives(i)
  <2>1. spc = "filename"
    BY <1>11 DEF ServerFilename_Receives
  <2>2. sseq = FilenameSeq /\ data = <<>>
    BY <2>1 DEF IInv, ServerInv
  <2>3. CASE /\ spc' = "filesize" /\ sseq' = FilesizeSeq /\ data' = data
             /\ slast' = AckPkt(sseq, sseq) /\ s2c' = Send(s2c, slast')
    <3>1. ToClient' \ ToClient \subseteq {AckPkt(sseq, sseq)}
      BY <1>1, <1>7, <2>3, ServerSendsOne
    <3>2. ASSUME NEW q \in ToClient' \ ToClient
          PROVE  q.ack /\ ~q.fin /\ q.an = FilenameSeq
      BY <2>2, <3>1 DEF AckPkt
    <3>3. ServerInv' /\ WholeInv'
      BY <2>2, <2>3 DEF ServerInv, WholeInv
    <3> QED
      BY <1>1, <1>2, <1>4, <1>5, <2>1, <2>3, <3>2, <3>3, ServerAnswers
      DEF FilenameSeq, FilesizeSeq, Offset
  <2> QED
    BY <1>9, <1>10, <1>11, <2>1, <2>3 DEF ServerFilename_Receives
<1>12. CASE ServerFilesize_Receives(i)
  <2>1. spc = "filesize"
    BY <1>12 DEF ServerFilesize_Receives
  <2>2. sseq = FilesizeSeq /\ data = <<>>
    BY <2>1 DEF IInv, ServerInv
  <2>3. CASE /\ spc' = "first" /\ sseq' = sseq /\ data' = data
             /\ slast' = AckPkt(sseq, sseq) /\ s2c' = Send(s2c, slast')
    <3>1. ToClient' \ ToClient \subseteq {AckPkt(sseq, sseq)}
      BY <1>1, <1>7, <2>3, ServerSendsOne
    <3>2. ASSUME NEW q \in ToClient' \ ToClient
          PROVE  q.ack /\ ~q.fin /\ q.an = FilesizeSeq
      BY <2>2, <3>1 DEF AckPkt
    <3>3. ServerInv' /\ WholeInv'
      BY <2>2, <2>3 DEF ServerInv, WholeInv
    <3> QED
      BY <1>1, <1>2, <1>4, <1>5, <2>1, <2>3, <3>2, <3>3, ServerAnswers
      DEF FilesizeSeq, Offset
  <2> QED
    BY <1>9, <1>10, <1>12, <2>1, <2>3 DEF ServerFilesize_Receives
<1>13. CASE ServerFirst_Receives(i)
  <2>1. spc = "first"
    BY <1>13 DEF ServerFirst_Receives
  <2>2. sseq = FilesizeSeq /\ data = <<>>
    BY <2>1 DEF IInv, ServerInv
  <2>3. CASE IsFirst(p) /\ p.fin /\ StartClosing(p.seq) /\ data' = Stored(p.data)
    BY <1>1, <1>2, <1>3, <1>4, <2>1, <2>3, FirstIsLate, ClosingStep
  <2>4. CASE /\ IsFirst(p) /\ sseq' = p.seq /\ spc' = "loop"
             /\ UNCHANGED <<data, slast, s2c>>
    <3>1. /\ IsLate(p) /\ p.seq = Offset
          /\ ~Abandoned => p.seq = Len(data) + Offset /\ p.seq <= LastSeq
      BY <1>3, <1>4, <2>1, <2>4, FirstIsLate
    <3>2. cpc \notin ClientInforms
      BY <1>4, <3>1 DEF IInv, InformInv
    <3>3. Abandoned => Abandoned'
      BY <1>4, <1>6, <2>1, <2>4 DEF Abandoned
    <3>4. ServerInv' /\ WholeInv'
      BY <2>4, <3>1, <3>3 DEF ServerInv, WholeInv, Offset
    <3>5. ToClient' = ToClient
      BY <2>4 DEF ToClient
    <3> QED
      BY <1>1, <1>2, <1>4, <2>1, <2>4, <3>2, <3>4, <3>5, ServerAnswers
  <2>5. CASE /\ s2c' \in {Send(Send(s2c, AckPkt(sseq, sseq)), slast), Send(s2c, slast)}
             /\ UNCHANGED <<spc, sseq, data, slast>>
    <3>1. ToClient' \ ToClient \subseteq {AckPkt(sseq, sseq)}
      <4>1. CASE s2c' = Send(s2c, slast)
        BY <1>8, <2>5, <4>1
      <4>2. CASE s2c' = Send(Send(s2c, AckPkt(sseq, sseq)), slast)
        BY <1>1, <1>5, <1>7, <2>5, <4>2, ServerSendsTwo DEF ToClient
      <4> QED
        BY <2>5, <4>1, <4>2
    <3>2. ASSUME NEW q \in ToClient' \ ToClient
          PROVE  q.ack /\ ~q.fin /\ q.an = FilesizeSeq
      BY <2>2, <3>1 DEF AckPkt
    <3>3. ServerInv' /\ WholeInv'
      BY <2>1, <2>2, <2>5 DEF ServerInv, WholeInv
    <3> QED
      BY <1>1, <1>2, <1>4, <1>5, <2>1, <2>5, <3>2, <3>3, ServerAnswers
      DEF FilesizeSeq, Offset
  <2> QED
    BY <1>13, <2>3, <2>4, <2>5 DEF ServerFirst_Receives, p
<1>14. CASE ServerLoop_Receives(i)
  <2>1. spc = "loop" /\ cpc \notin ClientInforms
    BY <1>14 DEF ServerLoop_Receives, IInv, InformInv
  <2>2. sseq >= Offset /\ (~Abandoned => sseq = Len(data) + Offset /\ sseq <= LastSeq)
    BY <2>1 DEF IInv, ServerInv
  <2>3. IsExpected(p) => p.seq = sseq /\ IsLate(p)
    BY <2>2 DEF IsExpected, IsLate
  <2>4. CASE IsExpected(p) /\ p.fin /\ data' = Stored(p.data) /\ StartClosing(sseq)
    BY <1>1, <1>2, <1>3, <1>4, <2>1, <2>2, <2>3, <2>4, ClosingStep
  <2>5. CASE /\ IsExpected(p) /\ ~p.fin /\ data' = Stored(p.data)
             /\ sseq' = sseq + 1 /\ s2c' = Send(s2c, AckPkt(sseq, sseq))
             /\ UNCHANGED <<spc, slast>>
    <3>1. ToClient' \ ToClient \subseteq {AckPkt(sseq, sseq)}
      BY <1>1, <1>7, <2>5, ServerSendsOne
    <3>2. ASSUME NEW q \in ToClient' \ ToClient
          PROVE  q.ack /\ ~q.fin /\ q.an = sseq
      BY <3>1 DEF AckPkt
    <3>3. CASE Abandoned
      <4>1. data' = data
        BY <1>3, <1>4, <2>1, <2>2, <2>3, <2>5, <3>3, ExpectedPacket
      <4>2. Abandoned'
        BY <1>4, <1>6, <2>5, <3>3, <4>1 DEF Abandoned
      <4>3. ServerInv' /\ WholeInv'
        BY <1>5, <2>1, <2>2, <2>5, <4>2 DEF ServerInv, WholeInv, Offset
      <4> QED
        BY <1>1, <1>2, <1>4, <2>1, <2>5, <3>2, <4>1, <4>2, <4>3, ServerAnswers
    <3>4. CASE ~Abandoned
      <4>1. /\ data' = Append(data, Len(data) + 1) /\ Len(data) + 1 # NChunks
            /\ Len(data) + 1 <= NChunks /\ Len(data) + 1 <= base + Window
        BY <1>3, <1>4, <2>1, <2>2, <2>3, <2>5, <3>4, ExpectedPacket
      <4>2. StoredInv' /\ Len(data)' = Len(data) + 1
        BY <1>1, <1>6, <4>1, StoringExtends DEF IInv
      <4>3. ServerInv' /\ WholeInv'
        BY <1>5, <2>1, <2>2, <2>5, <3>4, <4>1, <4>2, GbnUploadAssumption
        DEF ServerInv, WholeInv, Offset, LastSeq
      <4>4. Len(data) <= Len(data)' /\ sseq <= Len(data)' + Offset
        BY <1>5, <2>2, <3>4, <4>2 DEF Offset
      <4> QED
        BY <1>1, <1>2, <1>4, <2>1, <2>5, <3>2, <3>4, <4>2, <4>3, <4>4, ServerKeeps
    <3> QED
      BY <3>3, <3>4
  <2>6. CASE /\ s2c' = Send(s2c, OutOfOrderAck(p))
             /\ UNCHANGED <<spc, sseq, data, slast>>
    <3>1. ToClient' \ ToClient \subseteq {AckPkt(sseq, sseq)}
      BY <1>1, <1>7, <2>6, ServerSendsOne DEF OutOfOrderAck
    <3>2. ASSUME NEW q \in ToClient' \ ToClient
          PROVE  q.ack /\ ~q.fin /\ q.an = sseq
      BY <3>1 DEF AckPkt
    <3>3. Abandoned => Abandoned'
      BY <1>4, <1>6, <2>6 DEF Abandoned
    <3>4. ServerInv' /\ WholeInv'
      BY <2>1, <2>2, <2>6, <3>3 DEF ServerInv, WholeInv
    <3>5. sseq <= Len(data) + Offset \/ Abandoned'
      BY <1>5, <2>2, <3>3 DEF Offset
    <3> QED
      BY <1>1, <1>2, <1>4, <2>1, <2>6, <3>2, <3>4, <3>5, ServerAnswers
  <2> QED
    BY <1>14, <2>4, <2>5, <2>6 DEF ServerLoop_Receives, p
<1>15. CASE ServerCloses_Answer(i)
  <2>1. CASE spc = "closing" /\ spc' = "done" /\ UNCHANGED <<sseq, data, slast, s2c>>
    <3>1. ToClient' = ToClient
      BY <2>1 DEF ToClient
    <3>2. Abandoned => Abandoned'
      BY <1>4, <1>6, <2>1 DEF Abandoned
    <3>3. ServerInv' /\ WholeInv'
      BY <2>1, <3>2 DEF IInv, ServerInv, WholeInv
    <3>4. cpc \notin ClientInforms
      BY <2>1 DEF IInv, InformInv
    <3> QED
      BY <1>1, <1>2, <1>4, <2>1, <3>1, <3>3, <3>4, ServerAnswers
  <2> QED
    BY <1>9, <1>15, <2>1 DEF ServerCloses_Answer
<1>16. CASE ServerRejects_Answer(i)
  <2>1. CASE /\ spc = "rejecting" /\ spc' = "rejected" /\ p.seq = slast.seq
             /\ s2c' = Send(s2c, AckPkt(p.seq + 1, p.seq + 1))
             /\ UNCHANGED <<sseq, data, slast>>
    <3>1. AckPkt(p.seq + 1, p.seq + 1) \in Packet
      BY <1>5, PacketTypes
    <3>2. ToClient' \ ToClient \subseteq {AckPkt(p.seq + 1, p.seq + 1)}
      BY <1>1, <2>1, <3>1, ServerSendsOne
    <3>3. p.seq >= FilesizeSeq
      BY <2>1 DEF IInv, ServerInv
    <3>4. ASSUME NEW q \in ToClient' \ ToClient
          PROVE  q.ack /\ ~q.fin /\ q.an # FilesizeSeq
      BY <1>5, <3>2, <3>3 DEF AckPkt, FilesizeSeq
    <3>5. ServerInv' /\ WholeInv' /\ Abandoned'
      BY <2>1 DEF ServerInv, WholeInv, Abandoned
    <3> QED
      BY <1>1, <1>2, <1>4, <2>1, <3>4, <3>5, ServerAnswers
  <2> QED
    BY <1>9, <1>16, <2>1 DEF ServerRejects_Answer, p
<1> QED
  BY <1>11, <1>12, <1>13, <1>14, <1>15, <1>16 DEF ServerReceivesAt

\* A retransmission or a timeout of the server keeps the invariant.
LEMMA ServerOwnStep ==
    ASSUME IInv, ServerRetransmits \/ ServerGivesUp
    PROVE  IInv'
<1>1. TypeOK /\ TypeOK'
  BY TypeStep DEF IInv, Next
<1>2. UNCHANGED <<client, c2s, data, sseq, slast>>
  BY DEF ServerRetransmits, ServerGivesUp, Relisten
<1>3. ToServer' = ToServer /\ UNCHANGED cpc
  BY <1>2 DEF ToServer, client
<1>4. ToClient' \subseteq ToClient
  <2>1. slast \in Packet
    BY <1>1 DEF TypeOK
  <2>2. CASE ServerRetransmits
    BY <1>1, <1>2, <2>1, <2>2, ServerSendsOne
    DEF ServerRetransmits, Relisten, ToClient
  <2>3. CASE ServerGivesUp
    BY <1>2, <2>3 DEF ServerGivesUp, ToClient
  <2> QED
    BY <2>2, <2>3
<1>5. \/ spc' = spc
      \/ spc \in {"filename", "filesize", "first", "loop"} /\ spc' = "failed"
      \/ spc = "closing" /\ spc' = "done"
      \/ spc = "rejecting" /\ spc' = "rejected"
  BY DEF ServerRetransmits, ServerGivesUp, Relisten, ServerReceives
<1>6. Abandoned => Abandoned'
  BY <1>2, <1>3, <1>5 DEF Abandoned
<1>7. ServerInv' /\ WholeInv'
  BY <1>2, <1>5, <1>6 DEF IInv, ServerInv, WholeInv
<1>8. cpc \in ClientInforms => spc' \notin {"loop", "closing", "done"}
  BY <1>5 DEF IInv, InformInv
<1> QED
  BY <1>1, <1>2, <1>3, <1>4, <1>5, <1>7, <1>8, ServerAnswers

\* A loss keeps the invariant: it adds nothing to what is on its way.
LEMMA LoseStep ==
    ASSUME IInv, Lose
    PROVE  IInv'
<1>1. TypeOK /\ TypeOK'
  BY TypeStep DEF IInv, Next
<1>2. UNCHANGED <<client, server>>
  BY DEF Lose
<1>3. UNCHANGED <<clast, slast, spc, sseq, data, cpc>>
  BY <1>2 DEF client, server
<1>4. Range(c2s') \subseteq Range(c2s) /\ Range(s2c') \subseteq Range(s2c)
  BY <1>1, LossContents DEF Lose, TypeOK
<1>5. ToServer' \subseteq ToServer /\ ToClient' \subseteq ToClient
  BY <1>3, <1>4 DEF ToServer, ToClient
<1>6. Abandoned => Abandoned'
  BY <1>3, <1>5 DEF Abandoned
<1>7. ServerInv' /\ WholeInv'
  BY <1>3, <1>6 DEF IInv, ServerInv, WholeInv
<1>8. cpc \in ClientInforms => spc' \notin {"loop", "closing", "done"}
  BY <1>3 DEF IInv, InformInv
<1> QED
  BY <1>1, <1>2, <1>3, <1>5, <1>7, <1>8, ServerAnswers

\* A step that changes nothing keeps the invariant.
LEMMA StutteringStep ==
    ASSUME IInv, UNCHANGED vars
    PROVE  IInv'
<1>1. UNCHANGED <<client, server, c2s, s2c>>
  BY DEF vars
<1>2. UNCHANGED <<cpc, base, next, cack, clast, finBack, spc, sseq, size, data, disk, slast>>
  BY <1>1 DEF client, server
<1>3. TypeOK'
  BY TypeStep DEF IInv
<1>4. ToServer' = ToServer /\ ToClient' = ToClient
  BY <1>1, <1>2 DEF ToServer, ToClient
<1>5. Abandoned => Abandoned'
  BY <1>2, <1>4 DEF Abandoned
<1>6. ServerInv' /\ WholeInv'
  BY <1>2, <1>5 DEF IInv, ServerInv, WholeInv
<1>7. cpc \in ClientInforms => spc' \notin {"loop", "closing", "done"}
  BY <1>2 DEF IInv, InformInv
<1> QED
  BY <1>1, <1>2, <1>3, <1>4, <1>6, <1>7, ServerAnswers

\* The invariant holds when the client has just sent the file's name.
LEMMA InitInv == Init => IInv
<1> SUFFICES ASSUME Init
             PROVE  IInv
  OBVIOUS
<1>1. TypeOK
  BY InitTypes
<1>2. /\ cpc = "filename" /\ base = 0 /\ next = 0 /\ cack = 2
      /\ spc = "filename" /\ sseq = 2 /\ data = <<>>
      /\ clast = DataPkt(2, 2, 0, FALSE) /\ slast = AckPkt(1, 1)
      /\ c2s = <<clast>> /\ s2c \in {<<>>, <<AckPkt(1, 1)>>}
  BY Zenon DEF Init, FilenameSeq
<1>3. ToServer = {DataPkt(2, 2, 0, FALSE)} /\ ToClient = {AckPkt(1, 1)}
  <2>1. \A x : Range(<<x>>) = {x}
    BY DEF Range
  <2>2. Range(<<>>) = {}
    BY DEF Range
  <2> QED
    BY <1>2, <2>1, <2>2 DEF ToServer, ToClient
<1>4. \A p \in ToServer : ~IsLate(p)
  BY <1>3 DEF DataPkt, IsLate, Offset
<1>5. \A p \in ToClient : p.ack /\ ~p.fin /\ p.an = 1
  BY <1>3 DEF AckPkt
<1>6. PhaseInv /\ InformInv
  BY <1>2, <1>4, GbnUploadAssumption
  DEF PhaseInv, InformInv, ClientInforms, ClientTransfers, FilenameSeq
<1>7. ChunkInv /\ EmptyInv
  BY <1>4 DEF ChunkInv, EmptyInv, IsChunk
<1>8. StoredInv /\ ServerInv
  BY <1>2, GbnUploadAssumption DEF StoredInv, ServerInv, FilenameSeq
<1>9. AnswerInv /\ WholeInv /\ AdmittedInv
  BY <1>2, <1>5
  DEF AnswerInv, WholeInv, AdmittedInv, Offset, ClientTransfers, FilesizeSeq
<1> QED
  BY <1>1, <1>6, <1>7, <1>8, <1>9 DEF IInv

\* The inductive invariant holds in every state of every upload.
THEOREM Invariance == Spec => []IInv
<1>1. ASSUME IInv, [Next]_vars
      PROVE  IInv'
  <2>1. CASE \E i \in Deliverable(s2c) : ClientReceives(i)
    BY <1>1, <2>1, ClientReceivesStep
  <2>2. CASE \E i \in Deliverable(c2s) : ServerReceivesAt(i)
    BY <1>1, <2>2, ServerReceivesStep
  <2>3. CASE \/ ClientSends \/ ClientWindowSent \/ ClientAwait_Timeout
             \/ ClientRetransmits \/ ClientGivesUp \/ ClientStops
    BY <1>1, <2>3, ClientOwnStep
  <2>4. CASE ServerRetransmits \/ ServerGivesUp
    BY <1>1, <2>4, ServerOwnStep
  <2>5. CASE Lose
    BY <1>1, <2>5, LoseStep
  <2>6. CASE UNCHANGED vars
    BY <1>1, <2>6, StutteringStep
  <2> QED
    BY <1>1, <2>1, <2>2, <2>3, <2>4, <2>5, <2>6 DEF Next, Finished
<1> QED
  BY <1>1, InitInv, PTL DEF Spec

-----------------------------------------------------------------------------
(* What follows *)

\* The server's file is a prefix of the client's, for every file, window
\* and channel, under loss, duplication and reordering.
THEOREM PrefixReceived == Spec => []ReceivedIsPrefix
<1>1. IInv => ReceivedIsPrefix
  BY DEF IInv, StoredInv, ReceivedIsPrefix
<1> QED
  BY <1>1, Invariance, PTL

\* The sender's window never slides past a chunk that is not stored.
THEOREM WindowBehindFile == Spec => []BaseIsStored
<1>1. IInv => BaseIsStored
  BY DEF IInv, StoredInv, BaseIsStored
<1> QED
  BY <1>1, Invariance, PTL

\* The server closes an upload as complete only with the whole file, or with
\* an empty one of a client that left before it sent a chunk.
THEOREM CompleteWhole == Spec => []CompleteIsWhole
<1>1. IInv => CompleteIsWhole
  <2> SUFFICES ASSUME IInv, spc \in {"closing", "done"}
               PROVE  Len(data) = NChunks \/ ClientLeft
    BY DEF CompleteIsWhole
  <2>1. Len(data) = NChunks \/ NChunks = 0 \/ ClientLeft
    BY DEF IInv, WholeInv, Abandoned, ClientLeft
  <2>2. Len(data) \in Nat /\ Len(data) <= NChunks
    BY DEF IInv, TypeOK, StoredInv
  <2> QED
    BY <2>1, <2>2
<1> QED
  BY <1>1, Invariance, PTL

\* The server's connection implements the abstract transfer, a chunk at a
\* time, in order, complete with the last one, but for the early end of an
\* upload whose client left.
THEOREM TransferImplemented == Spec => ImplementsTransfer
<1>1. Init => Transfer!Init
  BY DEF Init, Transfer!Init, outcome
<1>2. ASSUME IInv, [Next]_vars
      PROVE  [Transfer!Next \/ EarlyEnd]_<<data, outcome>>
  <2>1. CASE UNCHANGED server
    BY <2>1 DEF server, outcome
  <2>2. CASE ServerRetransmits \/ ServerGivesUp
    <3>1. data' = data
      BY <2>2 DEF ServerRetransmits, ServerGivesUp, Relisten
    <3>2. \/ spc' = spc
          \/ spc \in {"filename", "filesize", "first", "loop"} /\ spc' = "failed"
          \/ spc = "closing" /\ spc' = "done"
          \/ spc = "rejecting" /\ spc' = "rejected"
      BY <2>2 DEF ServerRetransmits, ServerGivesUp, Relisten, ServerReceives
    <3>3. outcome' = outcome \/ (outcome = "open" /\ outcome' = "failed")
      <4>1. CASE spc' = spc
        BY <4>1 DEF outcome
      <4>2. CASE spc' # spc
        BY <3>2, <4>2 DEF outcome
      <4> QED
        BY <4>1, <4>2
    <3> QED
      BY <3>1, <3>3 DEF Transfer!Next, Transfer!Fail
  <2>3. ASSUME NEW i \in Deliverable(c2s), ServerReceivesAt(i)
        PROVE  [Transfer!Next \/ EarlyEnd]_<<data, outcome>>
    <3> DEFINE p == c2s[i]
    <3>1. p \in Packet /\ p \in ToServer
      BY <1>2, PacketsOnTheirWay DEF IInv, TypeOK, Deliverable, ToServer, Range
    <3>2. p.data \in Nat /\ p.seq \in Nat /\ sseq \in Nat /\ Len(data) \in Nat
      BY <1>2, <3>1, PacketFields DEF IInv, TypeOK
    <3> HIDE DEF p
    <3>3. CASE /\ data' = data
               /\ \/ spc' = spc
                  \/ {spc, spc'} \subseteq {"filename", "filesize", "first", "loop"}
                  \/ {spc, spc'} \subseteq {"closing", "done"}
                  \/ {spc, spc'} \subseteq {"rejecting", "rejected"}
      BY <3>3 DEF outcome
    <3>4. CASE data' = data /\ spc \in {"filename", "filesize"} /\ spc' = "rejecting"
      BY <3>4 DEF outcome, Transfer!Next, Transfer!Fail
    <3>5. CASE /\ spc \in {"first", "loop"} /\ data' = Stored(p.data)
               /\ \/ spc = "first" /\ IsFirst(p)
                  \/ spc = "loop" /\ IsExpected(p)
               /\ \/ p.fin /\ spc' = "closing"
                  \/ ~p.fin /\ spc' = "loop"
      <4> SUFFICES ASSUME ~Abandoned
                   PROVE  [Transfer!Next \/ EarlyEnd]_<<data, outcome>>
        <5> SUFFICES ASSUME Abandoned
                     PROVE  [Transfer!Next \/ EarlyEnd]_<<data, outcome>>
          OBVIOUS
        <5>1. ~IsChunk(p) /\ (NChunks = 0 \/ ClientLeft)
          <6>1. CASE NChunks = 0
            BY <1>2, <3>1, <3>2, <6>1 DEF IInv, ChunkInv, IsChunk
          <6>2. CASE NChunks # 0
            BY <3>1, <3>5, <6>2 DEF Abandoned, ClientLeft
          <6> QED
            BY <6>1, <6>2
        <5>2. IsLate(p)
          BY <1>2, <3>2, <3>5
          DEF IInv, ServerInv, IsFirst, IsExpected, IsLate, Offset, FilesizeSeq
        <5>3. data' = data
          BY <3>5, <5>1, <5>2 DEF IsChunk, Stored
        <5>4. outcome = "open" /\ outcome' = IF p.fin THEN "complete" ELSE "open"
          BY <3>5 DEF outcome
        <5> QED
          BY <5>1, <5>3, <5>4 DEF Transfer!Next, Transfer!CompleteEmpty, EarlyEnd
      <4>1. ~Abandoned
        OBVIOUS
      <4>2. IsLate(p) /\ p.seq = Len(data) + Offset /\ p.seq <= LastSeq
        <5>1. CASE spc = "first" /\ IsFirst(p)
          BY <1>2, <3>1, <4>1, <5>1, FirstIsLate
        <5>2. CASE spc = "loop" /\ IsExpected(p)
          BY <1>2, <3>2, <4>1, <5>2
          DEF IInv, ServerInv, IsExpected, IsLate, Offset
        <5> QED
          BY <3>5, <5>1, <5>2
      <4>3. /\ p.data = Len(data) + 1 /\ p.data <= NChunks
            /\ p.fin <=> p.data = NChunks
            /\ data' = Append(data, Len(data) + 1)
        BY <1>2, <3>1, <3>5, <4>1, <4>2, ExpectedPacket
      <4>4. outcome = "open" /\ outcome' = IF p.fin THEN "complete" ELSE "open"
        BY <3>5 DEF outcome
      <4>5. CASE p.fin
        BY <4>3, <4>4, <4>5 DEF Transfer!Next, Transfer!AddLastChunk
      <4>6. CASE ~p.fin
        BY <3>2, <4>3, <4>4, <4>6, GbnUploadAssumption
        DEF Transfer!Next, Transfer!AddChunk
      <4> QED
        BY <4>5, <4>6
    <3>6. CASE ServerFilename_Receives(i) \/ ServerFilesize_Receives(i)
      <4>1. data' = data /\ spc \in {"filename", "filesize"}
            /\ spc' \in {"filename", "filesize", "first", "rejecting"}
        BY <3>6 DEF ServerFilename_Receives, ServerFilesize_Receives, Reject, Relisten
      <4> QED
        BY <3>3, <3>4, <4>1
    <3>7. CASE ServerFirst_Receives(i)
      <4>1. CASE IsFirst(p) /\ p.fin /\ StartClosing(p.seq) /\ data' = Stored(p.data)
        BY <3>5, <3>7, <4>1 DEF ServerFirst_Receives, StartClosing
      <4>2. CASE ~(IsFirst(p) /\ p.fin)
        <5>1. data' = data /\ spc = "first" /\ spc' \in {"first", "loop"}
          BY <3>7, <4>2 DEF ServerFirst_Receives, p
        <5> QED
          BY <3>3, <5>1
      <4> QED
        BY <3>7, <4>1, <4>2 DEF ServerFirst_Receives, p
    <3>8. CASE ServerLoop_Receives(i)
      <4>1. spc = "loop"
        BY <3>8 DEF ServerLoop_Receives
      <4>2. CASE IsExpected(p)
        <5>1. data' = Stored(p.data)
              /\ \/ p.fin /\ spc' = "closing"
                 \/ ~p.fin /\ spc' = "loop"
          BY <3>8, <4>1, <4>2 DEF ServerLoop_Receives, StartClosing, p
        <5> QED
          BY <3>5, <4>1, <4>2, <5>1
      <4>3. CASE ~IsExpected(p)
        <5>1. data' = data /\ spc' = spc
          BY <3>8, <4>3 DEF ServerLoop_Receives, p
        <5> QED
          BY <3>3, <5>1
      <4> QED
        BY <4>2, <4>3
    <3>9. CASE ServerCloses_Answer(i) \/ ServerRejects_Answer(i)
      <4>1. data' = data /\ (\/ spc' = spc
                             \/ spc = "closing" /\ spc' = "done"
                             \/ spc = "rejecting" /\ spc' = "rejected")
        BY <3>9 DEF ServerCloses_Answer, ServerRejects_Answer, Relisten
      <4> QED
        BY <3>3, <4>1
    <3> QED
      BY <2>3, <3>6, <3>7, <3>8, <3>9 DEF ServerReceivesAt
  <2> QED
    BY <1>2, <2>1, <2>2, <2>3
    DEF Next, vars, ClientReceives, ClientInforms_Answer, ClientAwait_Ack,
        ClientCloses_Answer, ClientFinalizes_Answer, ClientSends,
        ClientWindowSent, ClientAwait_Timeout, ClientRetransmits,
        ClientGivesUp, ClientStops, Lose, Finished
<1> QED
  BY <1>1, <1>2, Invariance, PTL DEF ImplementsTransfer, Spec

\* The server's file never shrinks.
LEMMA DataGrows ==
    ASSUME IInv, [Next]_vars
    PROVE  Len(data') \in Nat /\ Len(data) \in Nat /\ Len(data') >= Len(data)
<1>1. data \in Seq(Nat)
  BY DEF IInv, TypeOK
<1>2. ASSUME NEW d \in Nat
      PROVE  Len(Stored(d)) \in Nat /\ Len(Stored(d)) >= Len(data)
  BY <1>1 DEF Stored
<1>3. \A i \in Deliverable(c2s) : c2s[i].data \in Nat
  BY PacketFields DEF IInv, TypeOK, Deliverable
<1>4. data' = data \/ \E i \in Deliverable(c2s) : data' = Stored(c2s[i].data)
  <2>1. ASSUME NEW i \in Deliverable(c2s), ServerReceivesAt(i)
        PROVE  data' = data \/ data' = Stored(c2s[i].data)
    BY <2>1 DEF ServerReceivesAt, ServerFilename_Receives, ServerFilesize_Receives,
        ServerFirst_Receives, ServerLoop_Receives, ServerCloses_Answer,
        ServerRejects_Answer, Relisten
  <2>2. CASE ServerRetransmits \/ ServerGivesUp
    BY <2>2 DEF ServerRetransmits, ServerGivesUp, Relisten
  <2>3. CASE UNCHANGED server
    BY <2>3 DEF server
  <2> QED
    BY <2>1, <2>2, <2>3
    DEF Next, vars, ClientReceives, ClientInforms_Answer, ClientAwait_Ack,
        ClientCloses_Answer, ClientFinalizes_Answer, ClientSends,
        ClientWindowSent, ClientAwait_Timeout, ClientRetransmits,
        ClientGivesUp, ClientStops, Lose, Finished
<1>5. Len(data) \in Nat
  BY <1>1
<1>6. CASE data' = data
  BY <1>5, <1>6
<1>7. ASSUME NEW i \in Deliverable(c2s), data' = Stored(c2s[i].data)
      PROVE  Len(data') \in Nat /\ Len(data') >= Len(data)
  BY <1>2, <1>3, <1>7, Zenon
<1> QED
  BY <1>4, <1>5, <1>6, <1>7

\* The closing phase begins with one chunk left to be acknowledged.
ClosingInv == cpc \in {"closing", "completed"} => Len(data) + 1 >= NChunks

\* A step into the closing phase, or to its end.
LEMMA ClosingStarts ==
    ASSUME IInv, ClosingInv, [Next]_vars
    PROVE  ClosingInv'
<1>0. /\ Len(data') \in Nat /\ Len(data) \in Nat /\ Len(data') >= Len(data)
      /\ NChunks \in Nat
  BY DataGrows, GbnUploadAssumption
<1>1. CASE cpc' = cpc
  BY <1>0, <1>1 DEF ClosingInv
<1>2. CASE ClientWindowSent
  <2>1. base \in Nat /\ base <= Len(data)
    BY DEF IInv, TypeOK, StoredInv
  <2>2. cpc' \in {"closing", "completed"} => base + 1 = NChunks
    BY <1>2 DEF ClientWindowSent
  <2> QED
    BY <1>0, <2>1, <2>2 DEF ClosingInv
<1>3. ASSUME NEW i \in Deliverable(s2c), ClientReceives(i)
      PROVE  ClosingInv'
  <2>1. CASE ClientInforms_Answer(i)
    <3>1. cpc' \in {"closing", "completed"} => ~(NChunks > 0)
      BY <2>1 DEF ClientInforms_Answer, ClientInforms, Finalize
    <3> QED
      BY <1>0, <3>1 DEF ClosingInv
  <2>2. CASE ClientAwait_Ack(i)
    <3>1. cpc = "await" /\ (cpc' \in {"closing", "completed"} => s2c[i].fin)
      BY <2>2 DEF ClientAwait_Ack, IterationEnds, NextIteration, ResetWindow
    <3>2. s2c[i] \in ToClient
      BY DEF Deliverable, ToClient, Range
    <3>3. s2c[i].fin => spc \in {"closing", "done"}
      BY <3>1, <3>2 DEF IInv, AnswerInv, AdmittedInv, ClientTransfers
    <3>4. spc \in {"closing", "done"} => Len(data) = NChunks
      BY <3>1 DEF IInv, WholeInv, Abandoned, PhaseInv
    <3> QED
      BY <1>0, <3>1, <3>3, <3>4 DEF ClosingInv
  <2>3. CASE ClientCloses_Answer(i)
    BY <1>0, <2>3 DEF ClientCloses_Answer, ClosingInv
  <2>4. CASE ClientFinalizes_Answer(i)
    BY <2>4 DEF ClientFinalizes_Answer, ClosingInv
  <2> QED
    BY <1>3, <2>1, <2>2, <2>3, <2>4 DEF ClientReceives
<1>4. CASE ClientSends \/ ClientAwait_Timeout \/ ClientGivesUp \/ ClientStops
  <2>1. cpc' = cpc \/ cpc' \notin {"closing", "completed"}
    BY <1>4 DEF ClientSends, ClientAwait_Timeout, ClientGivesUp, ClientStops,
                ResetWindow, NextIteration, Finalize
  <2> QED
    BY <1>1, <2>1 DEF ClosingInv
<1>5. CASE ClientRetransmits \/ Lose \/ Finished
  BY <1>1, <1>5 DEF ClientRetransmits, Lose, Finished, client, vars
<1>6. ASSUME NEW i \in Deliverable(c2s), ServerReceivesAt(i)
      PROVE  cpc' = cpc
  BY <1>6 DEF ServerReceivesAt, ServerFilename_Receives, ServerFilesize_Receives,
      ServerFirst_Receives, ServerLoop_Receives, ServerCloses_Answer,
      ServerRejects_Answer, client
<1>7. CASE ServerRetransmits \/ ServerGivesUp \/ UNCHANGED vars
  BY <1>1, <1>7 DEF ServerRetransmits, ServerGivesUp, client, vars
<1> QED
  BY <1>1, <1>2, <1>3, <1>4, <1>5, <1>6, <1>7 DEF Next

\* An upload that the client reports as completed misses at most the last
\* chunk, for every file, window and network: what initiate_close_connection
\* takes for granted (abstract_client.py:205, go_back_n_sender_client.py).
THEOREM CompletedMissesLast == Spec => []CompletedMissesOne
<1>1. Init => ClosingInv
  BY DEF Init, ClosingInv
<1>2. IInv /\ ClosingInv /\ [Next]_vars => ClosingInv'
  BY ClosingStarts
<1>3. ClosingInv => CompletedMissesOne
  BY DEF ClosingInv, CompletedMissesOne
<1> QED
  BY <1>1, <1>2, <1>3, Invariance, PTL DEF Spec

-----------------------------------------------------------------------------
(* What a failed upload leaves: the clean-up compares the file with the    *)
(* size the client announced, so it needs that size to be the right one.   *)

\* The packet with the number of the file's size carries that size, or is
\* the empty one of a client that leaves.
Announced == {q \in Packet : q.seq = FilesizeSeq => q.data \in {0, NChunks}}

SizeInv ==
    /\ c2s \in Seq(Announced) /\ clast \in Announced
    /\ size \in {0, NChunks}
    /\ spc \in {"filename", "filesize"} => size = 0
    /\ FailedIsRemoved

\* Everything a client composes announces the size of its file, or nothing.
LEMMA AnnouncedPackets ==
    /\ \A s, a \in Nat : AckPkt(s, a) \in Announced /\ FinPkt(s, a) \in Announced
    /\ NoPacket \in Announced
    /\ \A a \in Nat : DataPkt(FilesizeSeq, a, NChunks, FALSE) \in Announced
    /\ \A n, a \in Nat, last \in BOOLEAN :
           DataPkt(n + Offset, a, n + 1, last) \in Announced
<1>1. NChunks \in Nat /\ FilesizeSeq = 3 /\ Offset = 4
  BY GbnUploadAssumption DEF FilesizeSeq, Offset
<1>2. ASSUME NEW s \in Nat, NEW a \in Nat
      PROVE  AckPkt(s, a) \in Announced /\ FinPkt(s, a) \in Announced
  BY PacketTypes DEF AckPkt, FinPkt, Announced
<1>3. NoPacket \in Announced
  BY PacketTypes DEF NoPacket, Announced
<1>4. ASSUME NEW a \in Nat
      PROVE  DataPkt(FilesizeSeq, a, NChunks, FALSE) \in Announced
  BY <1>1 DEF DataPkt, Packet, Announced
<1>5. ASSUME NEW n \in Nat, NEW a \in Nat, NEW last \in BOOLEAN
      PROVE  DataPkt(n + Offset, a, n + 1, last) \in Announced
  BY <1>1 DEF DataPkt, Packet, Announced
<1> QED
  BY <1>2, <1>3, <1>4, <1>5

\* A finalization keeps what may reach the server announced.
LEMMA FinalizeAnnounces ==
    ASSUME c2s \in Seq(Announced), NEW s \in Nat, NEW a \in Nat, Finalize(s, a)
    PROVE  c2s' \in Seq(Announced) /\ clast' \in Announced
<1>1. AckPkt(s, a) \in Announced /\ FinPkt(s, a) \in Announced
  BY AnnouncedPackets
<1>2. Send(c2s, AckPkt(s, a)) \in Seq(Announced)
  BY <1>1, SendContents
<1> QED
  BY <1>1, <1>2, SendContents DEF Finalize

\* So does each step of the client.
LEMMA ClientAnnounces ==
    ASSUME TypeOK, SizeInv,
           \/ \E i \in Deliverable(s2c) : ClientReceives(i)
           \/ ClientSends \/ ClientWindowSent \/ ClientAwait_Timeout
           \/ ClientRetransmits \/ ClientGivesUp \/ ClientStops
    PROVE  c2s' \in Seq(Announced) /\ clast' \in Announced
<1>1. c2s \in Seq(Announced) /\ clast \in Announced
  BY DEF SizeInv
<1>2. cack \in Nat /\ cack + 1 \in Nat /\ next \in Nat /\ NChunks \in Nat
  BY GbnUploadAssumption DEF TypeOK
<1>3. c2s' \in {c2s, Send(c2s, clast)} /\ clast' \in {clast, NoPacket}
          => c2s' \in Seq(Announced) /\ clast' \in Announced
  <2>1. Send(c2s, clast) \in Seq(Announced)
    BY <1>1, SendContents
  <2>2. NoPacket \in Announced
    BY AnnouncedPackets
  <2> QED
    BY <1>1, <2>1, <2>2
<1>4. \A s, a \in Nat : Finalize(s, a) => c2s' \in Seq(Announced) /\ clast' \in Announced
  BY <1>1, FinalizeAnnounces
<1>5. ASSUME NEW q \in Announced, c2s' = Send(c2s, q), clast' \in {clast, q}
      PROVE  c2s' \in Seq(Announced) /\ clast' \in Announced
  <2>1. Send(c2s, q) \in Seq(Announced)
    BY <1>1, SendContents
  <2> QED
    BY <1>1, <1>5, <2>1
<1>6. ASSUME NEW i \in Deliverable(s2c), ClientReceives(i)
      PROVE  c2s' \in Seq(Announced) /\ clast' \in Announced
  <2>1. CASE ClientInforms_Answer(i)
    <3>1. CASE Finalize(cack + 1, cack + 1)
      BY <1>2, <1>4, <3>1
    <3>2. CASE /\ cack' = cack + 1 /\ clast' = DataPkt(FilesizeSeq, cack', NChunks, FALSE)
               /\ c2s' = Send(c2s, clast')
      <4>1. DataPkt(FilesizeSeq, cack + 1, NChunks, FALSE) \in Announced
        BY <1>2, AnnouncedPackets
      <4> QED
        BY <1>5, <3>2, <4>1
    <3>3. CASE c2s' \in {c2s, Send(c2s, clast)} /\ clast' \in {clast, NoPacket}
      BY <1>3, <3>3
    <3> QED
      BY <2>1, <3>1, <3>2, <3>3 DEF ClientInforms_Answer, Resend
  <2>2. ASSUME NEW s \in Nat, NEW a \in Nat, Complete(s, a), clast' = clast
        PROVE  c2s' \in Seq(Announced) /\ clast' \in Announced
    <3>1. AckPkt(s + 1, a) \in Announced
      BY AnnouncedPackets
    <3> QED
      BY <1>5, <2>2, <3>1 DEF Complete
  <2>3. next + Offset - 1 \in Nat
    BY <1>2 DEF Offset
  <2>4. CASE ClientAwait_Ack(i)
    <3>1. s2c[i] \in Packet
      BY ReceiptContents DEF TypeOK, Deliverable, AfterReceipt
    <3>2. s2c[i].an \in Nat
      BY <3>1, PacketFields
    <3>3. ASSUME NEW a \in Nat, cack' = a, clast' = clast,
                 Complete(next + Offset - 1, cack')
          PROVE  c2s' \in Seq(Announced) /\ clast' \in Announced
      BY <2>2, <2>3, <3>3
    <3>4. CASE c2s' = c2s /\ clast' \in {clast, NoPacket}
      BY <1>3, <3>4
    <3> QED
      BY <1>2, <2>4, <3>2, <3>3, <3>4
      DEF ClientAwait_Ack, IterationEnds, NextIteration, ResetWindow
  <2>5. CASE ClientCloses_Answer(i)
    BY <1>2, <1>3, <2>2, <2>3, <2>5 DEF ClientCloses_Answer, Resend
  <2>6. CASE ClientFinalizes_Answer(i)
    BY <1>3, <2>6 DEF ClientFinalizes_Answer, Resend
  <2> QED
    BY <1>6, <2>1, <2>4, <2>5, <2>6 DEF ClientReceives
<1>7. CASE ClientSends
  <2>1. DataPkt(next + Offset, cack, next + 1, IsLast(next)) \in Announced
    <3>1. IsLast(next) \in BOOLEAN
      BY DEF IsLast
    <3> QED
      BY <1>2, <3>1, AnnouncedPackets
  <2> QED
    BY <1>5, <1>7, <2>1 DEF ClientSends
<1>8. CASE ClientWindowSent
  <2>1. AckPkt(next + Offset - 1 + 1, cack) \in Announced
    <3>1. next + Offset - 1 + 1 \in Nat
      BY <1>2 DEF Offset
    <3> QED
      BY <1>2, <3>1, AnnouncedPackets
  <2> QED
    BY <1>3, <1>5, <1>8, <2>1 DEF ClientWindowSent, Complete
<1>9. CASE ClientAwait_Timeout \/ ClientRetransmits \/ ClientStops
  BY <1>3, <1>9 DEF ClientAwait_Timeout, ClientRetransmits, ClientStops,
                    ResetWindow, NextIteration, client
<1>10. CASE ClientGivesUp
  <2>1. ClientSeq + 1 \in Nat
    BY <1>2 DEF ClientSeq, Offset
  <2>2. CASE Finalize(ClientSeq + 1, cack + 1)
    BY <1>2, <1>4, <2>1, <2>2
  <2>3. CASE UNCHANGED <<cack, clast, c2s>>
    BY <1>1, <2>3
  <2> QED
    BY <1>10, <2>2, <2>3 DEF ClientGivesUp
<1> QED
  BY <1>6, <1>7, <1>8, <1>9, <1>10

\* The size is the one announced, and a reception ends no upload as failed.
LEMMA ServerKeepsSize ==
    ASSUME IInv, SizeInv, NEW i \in Deliverable(c2s), ServerReceivesAt(i)
    PROVE  SizeInv'
<1>1. /\ c2s \in Seq(Announced) /\ clast \in Announced /\ size \in {0, NChunks}
      /\ spc \in {"filename", "filesize"} => size = 0
  BY DEF SizeInv
<1>2. UNCHANGED client /\ c2s' \in AfterReceipt(c2s, i)
  BY DEF ServerReceivesAt, ServerFilename_Receives, ServerFilesize_Receives,
         ServerFirst_Receives, ServerLoop_Receives, ServerCloses_Answer,
         ServerRejects_Answer
<1>3. c2s' \in Seq(Announced) /\ c2s[i] \in Announced
  BY <1>1, <1>2, ReceiptContents
<1>4. clast' = clast
  BY <1>2 DEF client
<1>5. spc' # "failed"
  BY DEF ServerReceivesAt, ServerFilename_Receives, ServerFilesize_Receives,
         ServerFirst_Receives, ServerLoop_Receives, ServerCloses_Answer,
         ServerRejects_Answer, Reject, Relisten, StartClosing
<1>6. \/ size' = size /\ (spc' \in {"filename", "filesize"} =>
                              spc \in {"filename", "filesize"})
      \/ /\ size' = c2s[i].data /\ c2s[i].seq = sseq /\ spc = "filesize"
         /\ spc' \in {"rejecting", "first"}
  BY DEF ServerReceivesAt, ServerFilename_Receives, ServerFilesize_Receives,
         ServerFirst_Receives, ServerLoop_Receives, ServerCloses_Answer,
         ServerRejects_Answer, Reject, Relisten, StartClosing
<1>7. size' \in {0, NChunks} /\ (spc' \in {"filename", "filesize"} => size' = 0)
  <2>1. spc = "filesize" => sseq = FilesizeSeq
    BY DEF IInv, ServerInv
  <2>2. c2s[i].seq = FilesizeSeq => c2s[i].data \in {0, NChunks}
    BY <1>3 DEF Announced
  <2> QED
    BY <1>1, <1>6, <2>1, <2>2
<1> QED
  BY <1>1, <1>3, <1>4, <1>5, <1>7 DEF SizeInv, FailedIsRemoved

\* An upload that fails once its size is known has a file of another size,
\* which the clean-up removes.
LEMMA FailureCleansUp ==
    ASSUME IInv, SizeInv, ServerGivesUp
    PROVE  SizeInv'
<1>1. UNCHANGED <<c2s, clast, size, data>> /\ spc' \notin {"filename", "filesize"}
  BY DEF ServerGivesUp, client
<1>2. ASSUME spc' = "failed", size > 0
      PROVE  disk' = "absent"
  <2>1. spc \in {"first", "loop"} /\ IncompleteRemoved
    <3>1. spc \notin {"filename", "filesize"}
      BY <1>2 DEF SizeInv
    <3> QED
      BY <1>2, <3>1 DEF ServerGivesUp, ServerReceives
  <2>2. size = NChunks /\ NChunks # 0
    BY <1>2 DEF SizeInv
  <2>3. CASE data = <<>>
    BY <2>1, <2>2, <2>3 DEF IncompleteRemoved
  <2>4. CASE data # <<>>
    <3>1. spc = "loop"
      BY <2>1, <2>4 DEF IInv, ServerInv
    <3>2. ~Abandoned
      BY <2>2, <2>4, <3>1 DEF Abandoned
    <3>3. sseq = Len(data) + Offset /\ sseq <= LastSeq
      BY <3>1, <3>2 DEF IInv, ServerInv
    <3>4. Len(data) \in Nat
      BY DEF IInv, TypeOK
    <3>5. Len(data) < NChunks
      BY <3>3, <3>4, GbnUploadAssumption DEF Offset, LastSeq
    <3> QED
      BY <2>1, <2>2, <3>4, <3>5, GbnUploadAssumption DEF IncompleteRemoved
  <2> QED
    BY <2>3, <2>4
<1> QED
  BY <1>1, <1>2 DEF SizeInv, FailedIsRemoved

\* No failed upload leaves a truncated file in the storage directory
\* (remove_file_if_corrupted_or_incomplete), once its size is known.
THEOREM FailedRemoved == Spec => []FailedIsRemoved
<1>1. Init => SizeInv
  <2> SUFFICES ASSUME Init
               PROVE  SizeInv
    OBVIOUS
  <2>1. clast = DataPkt(2, 2, 0, FALSE) /\ c2s = <<clast>> /\ size = 0 /\ spc = "filename"
    BY Zenon DEF Init, FilenameSeq
  <2>2. DataPkt(2, 2, 0, FALSE) \in Announced
    BY DEF DataPkt, Packet, Announced, FilesizeSeq
  <2>3. clast \in Announced /\ c2s \in Seq(Announced)
    <3>1. clast \in Announced /\ c2s = <<clast>>
      BY <2>1, <2>2, Zenon
    <3>2. \A q \in Announced : <<q>> \in Seq(Announced)
      OBVIOUS
    <3> QED
      BY <3>1, <3>2, Zenon
  <2>4. size = 0 /\ spc = "filename"
    BY <2>1
  <2>5. FailedIsRemoved
    BY <2>4 DEF FailedIsRemoved
  <2> QED
    BY <2>3, <2>4, <2>5 DEF SizeInv
<1>2. ASSUME IInv, SizeInv, [Next]_vars
      PROVE  SizeInv'
  <2>0. TypeOK
    BY <1>2 DEF IInv
  <2>1. CASE \/ \E i \in Deliverable(s2c) : ClientReceives(i)
             \/ ClientSends \/ ClientWindowSent \/ ClientAwait_Timeout
             \/ ClientRetransmits \/ ClientGivesUp \/ ClientStops
    <3>1. UNCHANGED server
      BY <2>1 DEF ClientReceives, ClientInforms_Answer, ClientAwait_Ack,
                  ClientCloses_Answer, ClientFinalizes_Answer, ClientSends,
                  ClientWindowSent, ClientAwait_Timeout, ClientRetransmits,
                  ClientGivesUp, ClientStops
    <3>2. c2s' \in Seq(Announced) /\ clast' \in Announced
      BY <1>2, <2>0, <2>1, ClientAnnounces
    <3> QED
      BY <1>2, <3>1, <3>2 DEF SizeInv, FailedIsRemoved, server
  <2>2. CASE \E i \in Deliverable(c2s) : ServerReceivesAt(i)
    BY <1>2, <2>2, ServerKeepsSize
  <2>3. CASE ServerRetransmits
    BY <1>2, <2>3 DEF ServerRetransmits, Relisten, SizeInv, FailedIsRemoved, client
  <2>4. CASE ServerGivesUp
    BY <1>2, <2>4, FailureCleansUp
  <2>5. CASE Lose
    <3>1. UNCHANGED <<clast, size, spc, disk>>
      BY <2>5 DEF Lose, client, server
    <3>2. c2s' \in Seq(Announced)
      BY <1>2, <2>5, LossContents DEF Lose, SizeInv
    <3> QED
      BY <1>2, <3>1, <3>2 DEF SizeInv, FailedIsRemoved
  <2>6. CASE UNCHANGED vars
    BY <1>2, <2>6 DEF vars, client, server, SizeInv, FailedIsRemoved
  <2> QED
    BY <1>2, <2>1, <2>2, <2>3, <2>4, <2>5, <2>6 DEF Next, Finished
<1>3. SizeInv => FailedIsRemoved
  BY DEF SizeInv
<1> QED
  BY <1>1, <1>2, <1>3, Invariance, PTL DEF Spec
-----------------------------------------------------------------------------
(* Whom a client sends its chunks to: while it goes on, no packet of its   *)
(* own and no answer can leave the server with another size.               *)

\* Everything a client that goes on adds to its packets carries the size or
\* another number, and it sends chunks only once the size is confirmed.
LEMMA ClientCarries ==
    ASSUME IInv, HeldInv, Going',
           \/ \E i \in Deliverable(s2c) : ClientReceives(i)
           \/ ClientSends \/ ClientWindowSent \/ ClientAwait_Timeout
           \/ ClientRetransmits \/ ClientGivesUp \/ ClientStops
    PROVE  /\ Going
           /\ \A q \in ToServer' \ ToServer : CarriesSize(q)
           /\ cpc' \in ClientInforms \/ cpc \in ClientTransfers
              \/ \E q \in ToClient : q.ack /\ q.an = FilesizeSeq
<1>1. TypeOK /\ cack \in Nat /\ next \in Nat /\ clast \in Packet /\ NChunks \in Nat
  BY GbnUploadAssumption DEF IInv, TypeOK
<1>2. c2s' \in {c2s, Send(c2s, clast)} /\ clast' \in {clast, NoPacket}
          => \A q \in ToServer' \ ToServer : CarriesSize(q)
  <2>1. CASE c2s' = c2s /\ clast' \in {clast, NoPacket}
    BY <2>1 DEF ToServer, NoPacket, CarriesSize, FilesizeSeq
  <2>2. CASE c2s' = Send(c2s, clast) /\ clast' \in {clast, NoPacket}
    <3>1. Range(c2s') \subseteq Range(c2s) \cup {clast}
      BY <1>1, <2>2, SendContents DEF TypeOK
    <3> QED
      BY <2>2, <3>1 DEF ToServer, NoPacket, CarriesSize, FilesizeSeq
  <2> QED
    BY <2>1, <2>2
<1>3. ASSUME NEW q \in Packet, CarriesSize(q),
             c2s' = Send(c2s, q), clast' \in {clast, q}
      PROVE  \A r \in ToServer' \ ToServer : CarriesSize(r)
  BY <1>1, <1>3, ClientSendsOne
<1>4. ASSUME NEW a \in Nat, Complete(next + Offset - 1, a), clast' = clast
      PROVE  \A q \in ToServer' \ ToServer : CarriesSize(q)
  <2>1. next + Offset - 1 + 1 \in Nat /\ next + Offset - 1 + 1 # FilesizeSeq
    BY <1>1 DEF Offset, FilesizeSeq
  <2>2. AckPkt(next + Offset - 1 + 1, a) \in Packet
    BY <2>1, PacketTypes
  <2>3. CarriesSize(AckPkt(next + Offset - 1 + 1, a))
    BY <2>1 DEF AckPkt, CarriesSize
  <2> QED
    BY <1>3, <1>4, <2>2, <2>3 DEF Complete
<1>5. ASSUME NEW i \in Deliverable(s2c), ClientInforms_Answer(i)
      PROVE  /\ Going
             /\ \A q \in ToServer' \ ToServer : CarriesSize(q)
             /\ cpc' \in ClientInforms
                \/ \E q \in ToClient : q.ack /\ q.an = FilesizeSeq
  <2>1. cpc \in ClientInforms
    BY <1>5 DEF ClientInforms_Answer
  <2>2. ~Finalize(cack + 1, cack + 1)
    BY DEF Going, ClientInforms, ClientTransfers, Finalize
  <2>3. CASE /\ cpc' = "filesize" /\ cack' = cack + 1
             /\ clast' = DataPkt(FilesizeSeq, cack', NChunks, FALSE)
             /\ c2s' = Send(c2s, clast')
    <3>1. clast' \in Packet
      BY <1>1, <2>3 DEF DataPkt, Packet, FilesizeSeq
    <3>2. CarriesSize(clast')
      BY <2>3 DEF DataPkt, CarriesSize
    <3> QED
      BY <1>3, <2>1, <2>3, <3>1, <3>2 DEF Going, ClientInforms
  <2>4. CASE Confirms(s2c[i]) /\ cpc = "filesize" /\ clast' = NoPacket /\ c2s' = c2s
    <3>1. s2c[i] \in ToClient
      BY DEF Deliverable, ToClient, Range
    <3>2. s2c[i].ack /\ s2c[i].an = FilesizeSeq
      BY <2>4 DEF Confirms, IInv, PhaseInv
    <3> QED
      BY <1>2, <2>1, <2>4, <3>1, <3>2 DEF Going
  <2>5. CASE c2s' = Resend(c2s, clast) /\ UNCHANGED <<cpc, clast>>
    BY <1>2, <2>1, <2>5 DEF Resend, Going
  <2> QED
    BY <1>5, <2>2, <2>3, <2>4, <2>5 DEF ClientInforms_Answer
<1>6. ASSUME NEW i \in Deliverable(s2c), ClientAwait_Ack(i)
      PROVE  cpc \in ClientTransfers /\ \A q \in ToServer' \ ToServer : CarriesSize(q)
  <2>1. cpc \in ClientTransfers
    BY <1>6 DEF ClientAwait_Ack, ClientTransfers
  <2>2. s2c[i].an \in Nat
    BY <1>1, PacketFields DEF TypeOK, Deliverable
  <2>3. CASE c2s' = c2s /\ clast' \in {clast, NoPacket}
    BY <1>2, <2>1, <2>3
  <2>4. ASSUME NEW a \in Nat, cack' = a, clast' = clast,
               Complete(next + Offset - 1, cack')
        PROVE  \A q \in ToServer' \ ToServer : CarriesSize(q)
    BY <1>4, <2>4
  <2> QED
    BY <1>1, <1>6, <2>1, <2>2, <2>3, <2>4
    DEF ClientAwait_Ack, IterationEnds, NextIteration, ResetWindow
<1>7. ASSUME NEW i \in Deliverable(s2c), ClientCloses_Answer(i)
      PROVE  cpc \in ClientTransfers /\ \A q \in ToServer' \ ToServer : CarriesSize(q)
  BY <1>1, <1>2, <1>4, <1>7 DEF ClientCloses_Answer, ClientTransfers, Resend
<1>8. ~\E i \in Deliverable(s2c) : ClientFinalizes_Answer(i)
  BY DEF ClientFinalizes_Answer, Going, ClientInforms, ClientTransfers
<1>9. CASE ClientSends
  <2> DEFINE q == DataPkt(next + Offset, cack, next + 1, IsLast(next))
  <2>1. q \in Packet
    BY <1>1 DEF Offset, DataPkt, IsLast, Packet
  <2>2. CarriesSize(q)
    BY <1>1 DEF Offset, FilesizeSeq, DataPkt, CarriesSize
  <2>3. cpc = "send" /\ c2s' = Send(c2s, q) /\ clast' = q
    BY <1>9 DEF ClientSends
  <2> HIDE DEF q
  <2> QED
    BY <1>3, <2>1, <2>2, <2>3 DEF Going, ClientTransfers
<1>10. CASE ClientWindowSent
  <2>1. cpc \in ClientTransfers /\ clast' = clast
    BY <1>10 DEF ClientWindowSent, ClientTransfers
  <2>2. Complete(next + Offset - 1, cack) \/ c2s' = c2s
    BY <1>10 DEF ClientWindowSent
  <2> QED
    BY <1>1, <1>2, <1>4, <2>1, <2>2 DEF Going
<1>11. CASE ClientAwait_Timeout
  <2>1. cpc \in ClientTransfers /\ c2s' = c2s /\ clast' = NoPacket
    BY <1>11 DEF ClientAwait_Timeout, ResetWindow, NextIteration, ClientTransfers
  <2> QED
    BY <1>2, <2>1 DEF Going
<1>12. CASE ClientRetransmits
  <2>1. c2s' = Send(c2s, clast) /\ UNCHANGED <<cpc, clast>>
    BY <1>12 DEF ClientRetransmits, client
  <2> QED
    BY <1>2, <2>1 DEF Going
<1>13. ~ClientGivesUp /\ ~ClientStops
  BY DEF ClientGivesUp, ClientStops, Finalize, Going, ClientInforms, ClientTransfers
<1> QED
  BY <1>5, <1>6, <1>7, <1>8, <1>9, <1>10, <1>11, <1>12, <1>13 DEF ClientReceives, Going

\* A step of the server keeps the size once it is taken; until then none of
\* its answers confirms the size.
LEMMA ServerHolds ==
    ASSUME IInv, HeldInv, Going, UNCHANGED client,
           \/ \E i \in Deliverable(c2s) : ServerReceivesAt(i)
           \/ ServerRetransmits \/ ServerGivesUp
    PROVE  size' = NChunks \/ NotSized'
<1>1. /\ TypeOK /\ sseq \in Nat /\ slast \in Packet
      /\ size = NChunks \/ NotSized
  BY DEF IInv, TypeOK, HeldInv
<1>2. UNCHANGED cpc
  BY DEF client
<1>3. s2c' \in {s2c, Send(s2c, slast)} /\ slast' = slast => ToClient' \subseteq ToClient
  <2>1. Range(Send(s2c, slast)) \subseteq Range(s2c) \cup {slast}
    BY <1>1, SendContents DEF TypeOK
  <2> QED
    BY <2>1 DEF ToClient
<1>4. ASSUME NEW q \in Packet, s2c' = Send(s2c, q), slast' \in {slast, q}
      PROVE  ToClient' \subseteq ToClient \cup {q}
  BY <1>1, <1>4, ServerSendsOne
<1>5. ASSUME NEW i \in Deliverable(c2s), ServerFilename_Receives(i)
      PROVE  size' = NChunks \/ NotSized'
  <2>1. spc = "filename" /\ sseq = FilenameSeq /\ size' = size
    BY <1>5 DEF ServerFilename_Receives, Relisten, IInv, ServerInv
  <2>2. CASE Reject
    <3>1. FinPkt(sseq + 1, sseq + 1) \in Packet /\ ~FinPkt(sseq + 1, sseq + 1).ack
      BY <1>1, PacketTypes DEF FinPkt
    <3> QED
      BY <1>1, <1>2, <1>4, <2>1, <2>2, <3>1 DEF Reject, NotSized
  <2>3. CASE spc' = "filesize" /\ slast' = AckPkt(sseq, sseq) /\ s2c' = Send(s2c, slast')
    <3>1. AckPkt(sseq, sseq) \in Packet /\ AckPkt(sseq, sseq).an # FilesizeSeq
      BY <1>1, <2>1, PacketTypes DEF AckPkt, FilenameSeq, FilesizeSeq
    <3> QED
      BY <1>1, <1>2, <1>4, <2>1, <2>3, <3>1 DEF NotSized
  <2>4. CASE Relisten
    BY <1>1, <1>2, <1>3, <2>1, <2>4 DEF Relisten, NotSized
  <2> QED
    BY <1>5, <2>2, <2>3, <2>4 DEF ServerFilename_Receives
<1>6. ASSUME NEW i \in Deliverable(c2s), ServerFilesize_Receives(i)
      PROVE  size' = NChunks \/ NotSized'
  <2>1. spc = "filesize" /\ sseq = FilesizeSeq
    BY <1>6 DEF ServerFilesize_Receives, IInv, ServerInv
  <2>2. CASE c2s[i].seq = sseq /\ size' = c2s[i].data
    <3>1. c2s[i] \in ToServer
      BY DEF Deliverable, ToServer, Range
    <3> QED
      BY <2>1, <2>2, <3>1 DEF HeldInv, CarriesSize
  <2>3. CASE Relisten
    BY <1>1, <1>2, <1>3, <2>1, <2>3 DEF Relisten, NotSized
  <2> QED
    BY <1>6, <2>2, <2>3 DEF ServerFilesize_Receives
<1>7. ASSUME NEW i \in Deliverable(c2s),
             ServerFirst_Receives(i) \/ ServerLoop_Receives(i) \/ ServerCloses_Answer(i)
      PROVE  size' = NChunks
  <2>1. size' = size /\ spc \in {"first", "loop", "closing"}
    BY <1>7
    DEF ServerFirst_Receives, ServerLoop_Receives, ServerCloses_Answer, Relisten
  <2> QED
    BY <1>1, <2>1 DEF NotSized
<1>8. ASSUME NEW i \in Deliverable(c2s), ServerRejects_Answer(i)
      PROVE  size' = NChunks \/ NotSized'
  <2>1. spc = "rejecting" /\ size' = size /\ slast.seq >= FilesizeSeq
    BY <1>8 DEF ServerRejects_Answer, Relisten, IInv, ServerInv
  <2>2. CASE /\ spc' = "rejected" /\ c2s[i].seq = slast.seq /\ slast' = slast
             /\ s2c' = Send(s2c, AckPkt(c2s[i].seq + 1, c2s[i].seq + 1))
    <3>1. slast.seq \in Nat
      BY <1>1, PacketFields
    <3>2. /\ AckPkt(slast.seq + 1, slast.seq + 1) \in Packet
          /\ AckPkt(slast.seq + 1, slast.seq + 1).an # FilesizeSeq
      BY <2>1, <3>1, PacketTypes DEF AckPkt, FilesizeSeq
    <3> QED
      BY <1>1, <1>2, <1>4, <2>1, <2>2, <3>2 DEF NotSized
  <2>3. CASE Relisten
    BY <1>1, <1>2, <1>3, <2>1, <2>3 DEF Relisten, NotSized
  <2> QED
    BY <1>8, <2>2, <2>3 DEF ServerRejects_Answer
<1>9. CASE ServerRetransmits
  BY <1>1, <1>2, <1>3, <1>9 DEF ServerRetransmits, Relisten, NotSized
<1>10. CASE ServerGivesUp
  <2>1. UNCHANGED <<size, slast, s2c>>
        /\ (spc \in {"filename", "filesize", "rejecting"} =>
                spc' \in {"failed", "rejected"})
    BY <1>10 DEF ServerGivesUp, ServerReceives
  <2>2. ToClient' = ToClient /\ spc \notin {"rejected", "failed"}
    BY <1>10, <2>1
    DEF ToClient, ServerGivesUp, Limited, ServerWaits, ServerReceives
  <2> QED
    BY <1>1, <1>2, <2>1, <2>2 DEF NotSized
<1> QED
  BY <1>5, <1>6, <1>7, <1>8, <1>9, <1>10 DEF ServerReceivesAt

\* A client sends chunks, and reports success, only with a server that
\* admitted it and holds the size of its file (inform_size_and_name against
\* receive_file_info_for_upload), over every network.
THEOREM AdmittedWithSize == Spec => []AdmittedWithItsSize
<1>1. Init => HeldInv
  <2> SUFFICES ASSUME Init
               PROVE  HeldInv
    OBVIOUS
  <2>1. /\ clast = DataPkt(2, 2, 0, FALSE) /\ c2s = <<clast>> /\ slast = AckPkt(1, 1)
        /\ s2c \in {<<>>, <<AckPkt(1, 1)>>} /\ spc = "filename" /\ cpc = "filename"
    BY Zenon DEF Init, FilenameSeq
  <2>2. ToServer = {DataPkt(2, 2, 0, FALSE)} /\ ToClient \subseteq {AckPkt(1, 1)}
    <3>1. \A x : Range(<<x>>) = {x}
      BY DEF Range
    <3>2. Range(<<>>) = {}
      BY DEF Range
    <3> QED
      BY <2>1, <3>1, <3>2 DEF ToServer, ToClient
  <2> QED
    BY <2>1, <2>2
    DEF HeldInv, NotSized, CarriesSize, ClientInforms, DataPkt, AckPkt, FilesizeSeq
<1>2. ASSUME IInv, HeldInv, [Next]_vars
      PROVE  HeldInv'
  <2>1. CASE \/ \E i \in Deliverable(s2c) : ClientReceives(i)
             \/ ClientSends \/ ClientWindowSent \/ ClientAwait_Timeout
             \/ ClientRetransmits \/ ClientGivesUp \/ ClientStops
    <3> SUFFICES ASSUME Going'
                 PROVE  /\ \A q \in ToServer' : CarriesSize(q)
                        /\ size' = NChunks \/ NotSized'
      BY DEF HeldInv, CarriesSize
    <3>1. /\ Going
          /\ \A q \in ToServer' \ ToServer : CarriesSize(q)
          /\ cpc' \in ClientInforms \/ cpc \in ClientTransfers
             \/ \E q \in ToClient : q.ack /\ q.an = FilesizeSeq
      BY <1>2, <2>1, ClientCarries
    <3>2. UNCHANGED server
      BY <2>1 DEF ClientReceives, ClientInforms_Answer, ClientAwait_Ack,
                  ClientCloses_Answer, ClientFinalizes_Answer, ClientSends,
                  ClientWindowSent, ClientAwait_Timeout, ClientRetransmits,
                  ClientGivesUp, ClientStops
    <3>3. ToClient' \subseteq ToClient
      <4>1. s2c' = s2c \/ \E i \in Deliverable(s2c) : s2c' \in AfterReceipt(s2c, i)
        BY <2>1 DEF ClientReceives, ClientInforms_Answer, ClientAwait_Ack,
                    ClientCloses_Answer, ClientFinalizes_Answer, ClientSends,
                    ClientWindowSent, ClientAwait_Timeout, ClientRetransmits,
                    ClientGivesUp, ClientStops, client
      <4>2. Range(s2c') \subseteq Range(s2c)
        BY <1>2, <4>1, ReceiptContents DEF IInv, TypeOK
      <4> QED
        BY <3>2, <4>2 DEF ToClient, server
    <3>4. size = NChunks \/ NotSized
      BY <1>2, <3>1 DEF HeldInv
    <3>5. NotSized => cpc' \in ClientInforms
      BY <3>1 DEF NotSized, ClientInforms, ClientTransfers
    <3> QED
      BY <1>2, <3>1, <3>2, <3>3, <3>4, <3>5 DEF HeldInv, NotSized, server
  <2>2. CASE \/ \E i \in Deliverable(c2s) : ServerReceivesAt(i)
             \/ ServerRetransmits \/ ServerGivesUp
    <3>1. UNCHANGED client
      BY <2>2 DEF ServerReceivesAt, ServerFilename_Receives, ServerFilesize_Receives,
          ServerFirst_Receives, ServerLoop_Receives, ServerCloses_Answer,
          ServerRejects_Answer, ServerRetransmits, ServerGivesUp
    <3>2. c2s' = c2s \/ \E i \in Deliverable(c2s) : c2s' \in AfterReceipt(c2s, i)
      BY <2>2 DEF ServerReceivesAt, ServerFilename_Receives, ServerFilesize_Receives,
          ServerFirst_Receives, ServerLoop_Receives, ServerCloses_Answer,
          ServerRejects_Answer, ServerRetransmits, ServerGivesUp
    <3>3. ToServer' \subseteq ToServer
      <4>1. Range(c2s') \subseteq Range(c2s)
        BY <1>2, <3>2, ReceiptContents DEF IInv, TypeOK
      <4> QED
        BY <3>1, <4>1 DEF ToServer, client
    <3>4. Going => size' = NChunks \/ NotSized'
      BY <1>2, <2>2, <3>1, ServerHolds
    <3> QED
      BY <1>2, <3>1, <3>3, <3>4 DEF HeldInv, Going, CarriesSize, client
  <2>3. CASE Lose \/ UNCHANGED vars
    <3>1. UNCHANGED <<client, server>>
      BY <2>3 DEF Lose, vars
    <3>2. Range(c2s') \subseteq Range(c2s) /\ Range(s2c') \subseteq Range(s2c)
      BY <1>2, <2>3, LossContents DEF Lose, vars, IInv, TypeOK
    <3>3. ToServer' \subseteq ToServer /\ ToClient' \subseteq ToClient
      BY <3>1, <3>2 DEF ToServer, ToClient, client, server
    <3> QED
      BY <1>2, <3>1, <3>3 DEF HeldInv, Going, CarriesSize, NotSized, client, server
  <2> QED
    BY <1>2, <2>1, <2>2, <2>3 DEF Next, Finished
<1>3. IInv /\ HeldInv => AdmittedWithItsSize
  BY DEF IInv, AdmittedInv, HeldInv, AdmittedWithItsSize, Going, NotSized,
         ClientInforms, ClientTransfers
<1> QED
  BY <1>1, <1>2, <1>3, Invariance, PTL DEF Spec
===============================================================================
