-------------------------- MODULE SawDownloadProofs --------------------------
(***************************************************************************)
(* What holds of a Stop-and-Wait download for every file, channel and      *)
(* limit, on a path that loses and repeats packets but keeps their order.  *)
(***************************************************************************)
EXTENDS SawDownloadInvariant, BitProofs

\* The other bit.
LEMMA Steps ==
    ASSUME NEW n \in {0, 1}
    PROVE  Step(n) \in {0, 1} /\ Step(n) # n /\ Step(Step(n)) = n
BY DEF Step

\* A chunk's packet: its fields.
LEMMA ChunkFields ==
    ASSUME NEW n \in {0, 1}, NEW k \in Nat
    PROVE  /\ ChunkPkt(n, k) \in BitPacket
           /\ ChunkPkt(n, k).seq = n /\ ChunkPkt(n, k).data = k
           /\ ChunkPkt(n, k).fin <=> k = NChunks
<1> DEFINE last == k = NChunks
<1>1. last \in BOOLEAN
  OBVIOUS
<1>2. last <=> k = NChunks
  OBVIOUS
<1>3. ChunkPkt(n, k) \in {FirstChunkPkt(n, 0, k, last), DataPkt(n, 0, k, last)}
  BY DEF ChunkPkt
<1> HIDE DEF last
<1>4. /\ FirstChunkPkt(n, 0, k, last) \in BitPacket /\ DataPkt(n, 0, k, last) \in BitPacket
  BY <1>1, Composed
<1>5. \A p \in {FirstChunkPkt(n, 0, k, last), DataPkt(n, 0, k, last)} :
          p.seq = n /\ p.data = k /\ p.fin = last
  BY DEF FirstChunkPkt, DataPkt
<1>6. ChunkPkt(n, k) \in BitPacket
  BY <1>3, <1>4
<1>7. ChunkPkt(n, k).seq = n /\ ChunkPkt(n, k).data = k /\ ChunkPkt(n, k).fin = last
  BY <1>3, <1>5
<1> QED
  BY <1>2, <1>6, <1>7

\* The two packets of a finalization with number n may confirm n alone.
LEMMA FinalizationPackets ==
    ASSUME NEW n \in {0, 1}
    PROVE  /\ AckPkt(n, 0) \in BitPacket /\ FinPkt(n, 0) \in BitPacket
           /\ AckPkt(n, 0) \in Confirming(n) /\ FinPkt(n, 0) \in Confirming(n)
           /\ AckPkt(n, 0).seq = n /\ FinPkt(n, 0).seq = n
<1>1. AckPkt(n, 0) \in BitPacket /\ FinPkt(n, 0) \in BitPacket
  BY Composed
<1>2. /\ AckPkt(n, 0).seq = n /\ FinPkt(n, 0).seq = n
      /\ AckPkt(n, 0).ack /\ FinPkt(n, 0).fin
  BY DEF AckPkt, FinPkt
<1> QED
  BY <1>1, <1>2 DEF Confirming, BitPacket

-----------------------------------------------------------------------------
(* The steps of the client                                                 *)

\* A client that sends its packet again, or nothing.
LEMMA ClientRepeats ==
    ASSUME Ordinary, DInv, UNCHANGED <<client, server>>,
           c2s' = c2s \/ c2s' = Send(c2s, clast), Drains(s2c, s2c')
    PROVE  DInv'
<1>1. /\ UNCHANGED <<cpc, cseq, data, disk, clast, spc, sseq, sent, exists, slast>>
      /\ TypeOK /\ BitInv /\ ClientInv /\ RefusedInv /\ ServerInv /\ StoredInv
      /\ ChannelInv
  BY DEF DInv, client, server
<1>2. /\ c2s' \in Seq(BitPacket) /\ s2c' \in Seq(BitPacket)
      /\ Range(c2s') \subseteq Range(c2s) \cup {clast}
      /\ Range(s2c') \subseteq Range(s2c)
  <2>1. c2s \in Seq(BitPacket) /\ clast \in BitPacket
    BY <1>1 DEF BitInv
  <2>2. /\ Send(c2s, clast) \in Seq(BitPacket)
        /\ Range(Send(c2s, clast)) \subseteq Range(c2s) \cup {clast}
    BY <2>1, SendContents
  <2>3. c2s' = c2s \/ c2s' = Send(c2s, clast)
    OBVIOUS
  <2> QED
    BY <2>1, <2>2, <2>3 DEF Drains
<1>3. BitInv' /\ TypeOK'
  BY <1>1, <1>2, BitChannel DEF BitInv, TypeOK
<1>4. ToServer' \subseteq ToServer /\ ToClient' \subseteq ToClient
  BY <1>1, <1>2 DEF ToServer, ToClient
<1>5. ClientInv' /\ RefusedInv' /\ ServerInv' /\ StoredInv' /\ ReceivedIsPrefix'
  BY <1>1, <1>4 DEF DInv, ClientInv, RefusedInv, ServerInv, StoredInv,
                    ReceivedIsPrefix, Got, ChunkPkt
<1>6. ChannelInv'
  <2> SUFFICES ASSUME exists, spc # "done"
               PROVE  ChannelInv'
    BY <1>1 DEF ChannelInv
  <2>1. ~Got => ToServer' \cap Confirming(sseq) = {}
    BY <1>1, <1>4 DEF ChannelInv
  <2>2. Got => Follows(c2s', Confirming(sseq)) /\ clast \in Confirming(sseq)
    BY <1>1, FollowsSend DEF ChannelInv, BitInv
  <2>3. cpc \in ClientReceiving =>
            /\ \A p \in Range(s2c') : p.fin => p = slast
            /\ ~Got => /\ Follows(s2c', {slast})
                       /\ \A p \in Range(s2c') : p.seq = cseq => p = slast
            /\ Got  => Range(s2c') \subseteq {slast}
    BY <1>1, <1>2 DEF ChannelInv, Drains
  <2> QED
    BY <1>1, <2>1, <2>2, <2>3 DEF ChannelInv, Got
<1> QED
  BY <1>3, <1>5, <1>6 DEF DInv

\* What a client that sends the two packets of its finalization, or nothing,
\* and receives no more leaves to the server: it confirms nothing new.
LEMMA ClientLeaves ==
    ASSUME Ordinary, DInv, cpc \in ClientReceiving, cpc' = "finalizing",
           UNCHANGED <<server, cseq, data, disk>>,
           clast' = FinPkt(Step(cseq), 0),
           c2s' = Send(Send(c2s, AckPkt(Step(cseq), 0)), clast'),
           Drains(s2c, s2c')
    PROVE  DInv'
<1>1. /\ UNCHANGED <<cseq, data, disk, spc, sseq, sent, exists, slast>>
      /\ TypeOK /\ BitInv /\ ClientInv /\ RefusedInv /\ ServerInv /\ StoredInv
      /\ ChannelInv /\ cseq \in {0, 1} /\ sseq \in {0, 1}
  BY DEF DInv, server, TypeOK
<1> DEFINE a == AckPkt(Step(cseq), 0)
           f == FinPkt(Step(cseq), 0)
<1>2. /\ a \in BitPacket /\ f \in BitPacket
      /\ a.seq # cseq /\ f.seq # cseq
      /\ Got => a \in Confirming(sseq) /\ f \in Confirming(sseq)
  <2>1. Step(cseq) \in {0, 1} /\ Step(cseq) # cseq
    BY <1>1, Steps
  <2>2. Got => Step(cseq) = sseq
    BY <1>1, <2>1 DEF Got
  <2> QED
    BY <2>1, <2>2, FinalizationPackets
<1>3. clast' = f /\ c2s' = Send(Send(c2s, a), f)
  OBVIOUS
<1> HIDE DEF a, f
<1>4. /\ Send(c2s, a) \in Seq(BitPacket)
      /\ c2s' \in Seq(BitPacket) /\ Range(c2s') \subseteq Range(c2s) \cup {a, f}
  <2>1. Send(c2s, a) \in Seq(BitPacket) /\ Range(Send(c2s, a)) \subseteq Range(c2s) \cup {a}
    BY <1>1, <1>2, SendContents DEF BitInv
  <2>2. /\ Send(Send(c2s, a), f) \in Seq(BitPacket)
        /\ Range(Send(Send(c2s, a), f)) \subseteq Range(Send(c2s, a)) \cup {f}
    BY <1>2, <2>1, SendContents
  <2> QED
    BY <1>3, <2>1, <2>2
<1>5. s2c' \in Seq(BitPacket) /\ Range(s2c') \subseteq Range(s2c)
  BY DEF Drains
<1>6. BitInv' /\ TypeOK'
  <2>1. c2s' \in Seq(Packet) /\ s2c' \in Seq(Packet) /\ clast' \in Packet
    BY <1>2, <1>3, <1>4, <1>5, BitChannel DEF BitPacket
  <2> QED
    BY <1>1, <1>2, <1>3, <1>4, <1>5, <2>1 DEF BitInv, TypeOK, ClientWaits
<1>7. ClientInv' /\ RefusedInv' /\ ServerInv' /\ StoredInv' /\ ReceivedIsPrefix'
  BY <1>1, <1>5 DEF DInv, ClientInv, RefusedInv, ServerInv, StoredInv,
                    ReceivedIsPrefix, Got, ChunkPkt, ClientReceiving, ToClient
<1>8. ChannelInv'
  <2> SUFFICES ASSUME exists, spc # "done"
               PROVE  ChannelInv'
    BY <1>1 DEF ChannelInv
  <2>1. ASSUME ~Got
        PROVE  ToServer' \cap Confirming(sseq) = {}
    <3>1. sseq = cseq /\ Range(c2s) \cap Confirming(sseq) = {}
      BY <1>1, <2>1 DEF ChannelInv, Got, ToServer
    <3>2. a \notin Confirming(sseq) /\ f \notin Confirming(sseq)
      BY <1>2, <3>1 DEF Confirming
    <3> QED
      BY <1>3, <1>4, <3>1, <3>2 DEF ToServer
  <2>2. ASSUME Got
        PROVE  Follows(c2s', Confirming(sseq)) /\ clast' \in Confirming(sseq)
    <3>1. Follows(Send(c2s, a), Confirming(sseq))
      BY <1>1, <1>2, <2>2, FollowsSend DEF ChannelInv, BitInv
    <3>2. Follows(Send(Send(c2s, a), f), Confirming(sseq))
      BY <1>2, <1>4, <2>2, <3>1, FollowsSend
    <3> QED
      BY <1>2, <1>3, <2>2, <3>2
  <2> QED
    BY <1>1, <2>1, <2>2 DEF ChannelInv, Got, ClientReceiving
<1> QED
  BY <1>6, <1>7, <1>8 DEF DInv

\* A client that ends, its file cleaned up unless an exception escapes.
LEMMA ClientEnded ==
    ASSUME Ordinary, DInv, cpc' \in ClientEnds,
           UNCHANGED <<server, cseq, data, clast, c2s>>,
           disk' = CleanedUp \/ (cpc' = "crashed" /\ disk' = disk),
           Drains(s2c, s2c')
    PROVE  DInv'
<1>1. /\ UNCHANGED <<cseq, data, clast, spc, sseq, sent, exists, slast>>
      /\ TypeOK /\ BitInv /\ ClientInv /\ RefusedInv /\ ServerInv /\ StoredInv
      /\ ChannelInv
  BY DEF DInv, server
<1>2. s2c' \in Seq(BitPacket) /\ Range(s2c') \subseteq Range(s2c)
  BY DEF Drains
<1>3. cpc' \notin ClientReceiving /\ cpc' # "filename"
  BY DEF ClientEnds, ClientReceiving
<1>4. /\ disk' = "saved" <=> disk = "saved"
      /\ cpc' \in {"closed", "stopped"} => disk' # "partial"
      /\ disk' \in {"partial", "saved", "absent"}
  BY <1>1 DEF CleanedUp, TypeOK
<1>5. BitInv' /\ TypeOK'
  BY <1>1, <1>2, <1>4, BitChannel DEF BitInv, TypeOK
<1>6. ClientInv' /\ RefusedInv' /\ ServerInv' /\ StoredInv' /\ ReceivedIsPrefix'
  BY <1>1, <1>2, <1>3, <1>4
  DEF DInv, ClientInv, RefusedInv, ServerInv, StoredInv, ReceivedIsPrefix, Got,
      ChunkPkt, ClientReceiving, ToClient
<1>7. ChannelInv'
  BY <1>1, <1>3 DEF ChannelInv, Got, ToServer
<1> QED
  BY <1>5, <1>6, <1>7 DEF DInv

\* The packet a client stores is the server's last chunk, the one after its
\* file, and nothing else is left behind it.
LEMMA TheChunk ==
    ASSUME Ordinary, DInv, NEW i \in Deliverable(s2c),
           \/ cpc = "filename" /\ IsFirstChunk(s2c[i])
           \/ cpc = "chunk" /\ IsExpected(s2c[i])
    PROVE  /\ exists /\ spc # "done" /\ ~Got /\ sent > 0
           /\ Range(s2c) \subseteq {slast}
           /\ s2c[i].data = Len(data) + 1 /\ Len(data) + 1 = sent
           /\ s2c[i].fin <=> sent = NChunks
<1>1. /\ TypeOK /\ ClientInv /\ RefusedInv /\ ServerInv /\ StoredInv /\ ChannelInv
      /\ s2c \in Seq(BitPacket) /\ s2c[i] \in Range(s2c)
      /\ sent \in Nat /\ NChunks \in Nat /\ sseq \in {0, 1} /\ Len(data) \in Nat
  BY SawDownloadAssumption DEF DInv, BitInv, TypeOK, Deliverable, Range
<1>2. cpc \in ClientReceiving /\ disk = "partial"
  BY <1>1 DEF ClientReceiving, ClientInv
<1>3. exists
  <2> SUFFICES ASSUME ~exists
               PROVE  FALSE
    OBVIOUS
  <2>0. /\ cpc # "chunk"
        /\ \A p \in ToClient :
               /\ p.data = 0
               /\ cpc = "filename" /\ p.ack => p.seq # FilenameSeq
    BY <1>1 DEF RefusedInv
  <2>1. cpc = "filename" /\ IsFirstChunk(s2c[i])
    BY <2>0
  <2>2. s2c[i].data = 0 /\ (s2c[i].ack => s2c[i].seq # FilenameSeq)
    BY <1>1, <2>0, <2>1 DEF ToClient
  <2>3. cseq = FilenameSeq
    BY <1>1, <2>1 DEF ClientInv
  <2> QED
    BY <2>1, <2>2, <2>3 DEF IsFirstChunk
<1>4. spc # "done"
  BY <1>1, <1>2, <1>3 DEF ServerInv
<1>5. sent = 0 => data = <<>> /\ cseq = FilenameSeq /\ sseq = FilenameSeq /\ ~Got
                  /\ slast.seq # FilenameSeq /\ ~slast.fin
  BY <1>1, <1>3, <1>4 DEF StoredInv, ServerInv, Got
<1>6. sent # 0 => slast.seq = sseq /\ slast.data = sent /\ (slast.fin <=> sent = NChunks)
  BY <1>1, <1>3, <1>4, ChunkFields DEF ServerInv
<1>7. ~Got /\ s2c[i] = slast
  <2>1. CASE cpc = "filename"
    <3>1. data = <<>> /\ cseq = FilenameSeq
      BY <1>1, <2>1 DEF ClientInv
    <3>2. Got => sent = 0
      BY <1>1, <1>3, <1>4, <3>1 DEF StoredInv
    <3>3. ~Got
      BY <1>5, <3>2
    <3>4. s2c[i].fin \/ s2c[i].seq = cseq
      BY <2>1 DEF IsFirstChunk
    <3> QED
      BY <1>1, <1>2, <1>3, <1>4, <3>3, <3>4 DEF ChannelInv
  <2>2. CASE cpc = "chunk"
    <3>1. s2c[i].seq = cseq
      BY <2>2 DEF IsExpected
    <3>2. ASSUME Got
          PROVE  FALSE
      <4>1. s2c[i] = slast /\ sent # 0
        BY <1>1, <1>2, <1>3, <1>4, <1>5, <3>2 DEF ChannelInv
      <4> QED
        BY <1>6, <3>1, <3>2, <4>1 DEF Got
    <3> QED
      BY <1>1, <1>2, <1>3, <1>4, <3>1, <3>2 DEF ChannelInv
  <2> QED
    BY <2>1, <2>2
<1>8. sent # 0
  <2> SUFFICES ASSUME sent = 0
               PROVE  FALSE
    OBVIOUS
  <2>1. ~slast.fin /\ slast.seq # cseq
    BY <1>5
  <2> QED
    BY <1>7, <2>1 DEF IsFirstChunk, IsExpected
<1>9. Range(s2c) \subseteq {slast}
  <2>1. Follows(s2c, {slast})
    BY <1>1, <1>2, <1>3, <1>4, <1>7 DEF ChannelInv
  <2> QED
    BY <1>1, <1>7, <2>1, FollowsHead DEF Ordinary
<1>10. Len(data) + 1 = sent
  BY <1>1, <1>3, <1>4, <1>7, <1>8 DEF StoredInv
<1> QED
  BY <1>1, <1>3, <1>4, <1>6, <1>7, <1>8, <1>9, <1>10

\* A client that stores a chunk: it acknowledges it, or is complete.
LEMMA ClientStores ==
    ASSUME Ordinary, DInv, UNCHANGED server,
           NEW i \in Deliverable(s2c), s2c' \in AfterReceipt(s2c, i),
           \/ cpc = "filename" /\ IsFirstChunk(s2c[i])
           \/ cpc = "chunk" /\ IsExpected(s2c[i]),
           StoreChunk(s2c[i])
    PROVE  DInv'
<1>1. /\ UNCHANGED <<spc, sseq, sent, exists, slast>>
      /\ TypeOK /\ BitInv /\ ClientInv /\ RefusedInv /\ ServerInv /\ StoredInv
      /\ ChannelInv /\ cseq \in {0, 1} /\ sseq \in {0, 1} /\ ReceivedIsPrefix
      /\ data \in Seq(Nat) /\ Len(data) \in Nat /\ sent \in Nat
  BY DEF DInv, server, TypeOK
<1>2. /\ exists /\ spc # "done" /\ ~Got /\ sent > 0
      /\ Range(s2c) \subseteq {slast}
      /\ s2c[i].data = Len(data) + 1 /\ Len(data) + 1 = sent
      /\ s2c[i].fin <=> sent = NChunks
  BY TheChunk
<1>3. /\ s2c' \in Seq(BitPacket) /\ Range(s2c') \subseteq Range(s2c)
  BY <1>1, ReceiptContents DEF BitInv
<1>4. cpc \in ClientReceiving /\ disk = "partial"
  BY <1>1 DEF ClientReceiving, ClientInv
<1> DEFINE a == AckPkt(cseq, 0)
           f == FinPkt(cseq, 0)
<1>5. /\ a \in BitPacket /\ f \in BitPacket
      /\ a \in Confirming(cseq) /\ f \in Confirming(cseq) /\ sseq = cseq
  BY <1>1, <1>2, FinalizationPackets DEF Got
<1>6. data' = Append(data, Len(data) + 1)
  BY <1>1, <1>2 DEF StoreChunk
<1>7. /\ cseq' = Step(cseq)
      /\ \/ /\ sent # NChunks /\ cpc' = "chunk" /\ disk' = disk
            /\ clast' = a /\ c2s' = Send(c2s, a)
         \/ /\ sent = NChunks /\ cpc' = "finalizing" /\ disk' = "saved"
            /\ clast' = f /\ c2s' = Send(Send(c2s, a), f)
  BY <1>2 DEF StoreChunk, Finalize
<1> HIDE DEF a, f
<1>8. cseq' \in {0, 1} /\ cseq' # cseq
  BY <1>1, <1>7, Steps
<1>9. /\ Send(c2s, a) \in Seq(BitPacket)
      /\ Send(Send(c2s, a), f) \in Seq(BitPacket)
  <2>1. Send(c2s, a) \in Seq(BitPacket)
    BY <1>1, <1>5, SendContents DEF BitInv
  <2> QED
    BY <1>5, <2>1, SendContents
<1>10. c2s' \in Seq(BitPacket) /\ clast' \in BitPacket /\ clast' \in Confirming(sseq)
  BY <1>5, <1>7, <1>9
<1>11. data' \in Seq(Nat) /\ Len(data') = sent /\ ReceivedIsPrefix'
  <2>1. Append(data, Len(data) + 1) \in Seq(Nat) /\ Len(data') = Len(data) + 1
    BY <1>1, <1>6
  <2>2. ASSUME NEW k \in 1 .. Len(data')
        PROVE  data'[k] = k
    <3>1. CASE k \in 1 .. Len(data)
      <4>1. data[k] = k
        BY <1>1, <3>1 DEF ReceivedIsPrefix
      <4> QED
        BY <1>1, <1>6, <3>1, <4>1
    <3>2. CASE k = Len(data) + 1
      BY <1>1, <1>6, <3>2
    <3> QED
      BY <1>1, <2>1, <3>1, <3>2
  <2>3. data' = [k \in 1 .. Len(data') |-> data'[k]]
    BY <1>1, <1>6, <2>1
  <2> QED
    BY <1>2, <1>6, <2>1, <2>2, <2>3 DEF ReceivedIsPrefix
<1>12. BitInv' /\ TypeOK'
  <2>1. c2s' \in Seq(Packet) /\ s2c' \in Seq(Packet) /\ clast' \in Packet
    BY <1>3, <1>10, BitChannel DEF BitPacket
  <2>2. cpc' \in ClientWaits \cup ClientEnds /\ disk' \in {"partial", "saved", "absent"}
    BY <1>4, <1>7 DEF ClientWaits
  <2> QED
    BY <1>1, <1>3, <1>8, <1>10, <1>11, <2>1, <2>2 DEF BitInv, TypeOK
<1>13. ClientInv'
  BY <1>4, <1>7, <1>11 DEF ClientInv, ClientReceiving
<1>14. RefusedInv' /\ ServerInv' /\ StoredInv'
  BY <1>1, <1>2, <1>5, <1>8, <1>11
  DEF RefusedInv, ServerInv, StoredInv, Got, ChunkPkt
<1>15. ChannelInv'
  <2>1. Got'
    BY <1>1, <1>5, <1>8 DEF Got
  <2>2. Follows(c2s, Confirming(sseq))
    <3>1. Range(c2s) \cap Confirming(sseq) = {}
      BY <1>1, <1>2 DEF ChannelInv, ToServer
    <3> QED
      BY <3>1, FollowsTrivially
  <2>3. Follows(Send(c2s, a), Confirming(sseq))
    BY <1>1, <1>5, <2>2, FollowsSend DEF BitInv
  <2>4. Follows(Send(Send(c2s, a), f), Confirming(sseq))
    BY <1>5, <1>9, <2>3, FollowsSend
  <2>5. Follows(c2s', Confirming(sseq))
    BY <1>7, <2>3, <2>4
  <2>6. Range(s2c') \subseteq {slast}
    BY <1>2, <1>3
  <2> QED
    BY <1>1, <1>10, <2>1, <2>5, <2>6 DEF ChannelInv
<1> QED
  BY <1>11, <1>12, <1>13, <1>14, <1>15 DEF DInv

\* What the client does with a packet.
LEMMA ClientReceipt ==
    ASSUME Ordinary, DInv, NEW i \in Deliverable(s2c), ClientReceives(i)
    PROVE  DInv'
<1>1. s2c \in Seq(BitPacket) /\ cseq \in {0, 1}
  BY DEF DInv, BitInv, TypeOK
<1>2. s2c' \in AfterReceipt(s2c, i) /\ UNCHANGED server
  BY DEF ClientReceives, ClientName_Answer, ClientChunk_Receives, ClientFinalizes_Answer
<1>3. Drains(s2c, s2c') /\ Step(Step(cseq)) = cseq
  BY <1>1, <1>2, ReceiptDrains, Steps
<1>4. ASSUME ClientRelistens
      PROVE  DInv'
  <2>1. UNCHANGED client /\ c2s' = Send(c2s, clast)
    BY <1>4 DEF ClientRelistens, client
  <2> QED
    BY <1>2, <1>3, <2>1, ClientRepeats
<1>5. CASE ClientName_Answer(i)
  <2>1. CASE Abort
    <3>1. cpc \in ClientReceiving
      BY <1>5 DEF ClientName_Answer, ClientReceiving
    <3> QED
      BY <1>2, <1>3, <2>1, <3>1, ClientLeaves DEF Abort, Finalize
  <2>2. CASE IsFirstChunk(s2c[i]) /\ StoreChunk(s2c[i])
    BY <1>2, <1>5, <2>2, ClientStores DEF ClientName_Answer
  <2> QED
    BY <1>4, <1>5, <2>1, <2>2 DEF ClientName_Answer
<1>6. CASE ClientChunk_Receives(i)
  <2>1. CASE IsExpected(s2c[i]) /\ StoreChunk(s2c[i])
    BY <1>2, <1>6, <2>1, ClientStores DEF ClientChunk_Receives
  <2> QED
    BY <1>4, <1>6, <2>1 DEF ClientChunk_Receives
<1>7. CASE ClientFinalizes_Answer(i)
  <2>1. CASE cpc' = "closed" /\ disk' = CleanedUp /\ UNCHANGED <<cseq, data, clast, c2s>>
    BY <1>2, <1>3, <2>1, ClientEnded DEF ClientEnds
  <2> QED
    BY <1>4, <1>7, <2>1 DEF ClientFinalizes_Answer
<1> QED
  BY <1>5, <1>6, <1>7 DEF ClientReceives

\* What it does by itself.
LEMMA ClientAlone ==
    ASSUME Ordinary, DInv, ClientRetransmits \/ ClientGivesUp \/ ClientStops
    PROVE  DInv'
<1>1. UNCHANGED server /\ s2c' = s2c
  BY DEF ClientRetransmits, ClientGivesUp, ClientStops, server
<1>2. Drains(s2c, s2c') /\ Step(Step(cseq)) = cseq
  BY <1>1, KeptDrains, Steps DEF DInv, BitInv, TypeOK
<1>3. CASE ClientRetransmits
  BY <1>1, <1>2, <1>3, ClientRepeats DEF ClientRetransmits, ClientRelistens, client
<1>4. CASE cpc \in ClientReceiving /\ Abort
  BY <1>1, <1>2, <1>4, ClientLeaves DEF Abort, Finalize
<1>5. CASE /\ cpc' \in {"closed", "stopped"} /\ disk' = CleanedUp
           /\ UNCHANGED <<cseq, data, clast, c2s>>
  BY <1>1, <1>2, <1>5, ClientEnded DEF ClientEnds
<1>6. CASE cpc' = "crashed" /\ UNCHANGED <<cseq, data, disk, clast, c2s>>
  BY <1>1, <1>2, <1>6, ClientEnded DEF ClientEnds
<1> QED
  BY <1>3, <1>4, <1>5, <1>6 DEF ClientGivesUp, ClientStops

-----------------------------------------------------------------------------
(* The steps of the server                                                 *)

\* A server that sends its packet again, or nothing.
LEMMA ServerRepeats ==
    ASSUME Ordinary, DInv, UNCHANGED <<client, server>>,
           s2c' = s2c \/ s2c' = Send(s2c, slast), Drains(c2s, c2s')
    PROVE  DInv'
<1>1. /\ UNCHANGED <<cpc, cseq, data, disk, clast, spc, sseq, sent, exists, slast>>
      /\ TypeOK /\ BitInv /\ ClientInv /\ RefusedInv /\ ServerInv /\ StoredInv
      /\ ChannelInv
  BY DEF DInv, client, server
<1>2. /\ c2s' \in Seq(BitPacket) /\ s2c' \in Seq(BitPacket)
      /\ Range(c2s') \subseteq Range(c2s)
      /\ Range(s2c') \subseteq Range(s2c) \cup {slast}
  <2>1. s2c \in Seq(BitPacket) /\ slast \in BitPacket
    BY <1>1 DEF BitInv
  <2>2. /\ Send(s2c, slast) \in Seq(BitPacket)
        /\ Range(Send(s2c, slast)) \subseteq Range(s2c) \cup {slast}
    BY <2>1, SendContents
  <2> QED
    BY <2>1, <2>2 DEF Drains
<1>3. BitInv' /\ TypeOK'
  BY <1>1, <1>2, BitChannel DEF BitInv, TypeOK
<1>4. ToServer' \subseteq ToServer /\ ToClient' \subseteq ToClient
  BY <1>1, <1>2 DEF ToServer, ToClient
<1>5. ClientInv' /\ RefusedInv' /\ ServerInv' /\ StoredInv' /\ ReceivedIsPrefix'
  BY <1>1, <1>4 DEF DInv, ClientInv, RefusedInv, ServerInv, StoredInv,
                    ReceivedIsPrefix, Got, ChunkPkt
<1>6. ChannelInv'
  <2> SUFFICES ASSUME exists, spc # "done"
               PROVE  ChannelInv'
    BY <1>1 DEF ChannelInv
  <2>1. ~Got => ToServer' \cap Confirming(sseq) = {}
    BY <1>1, <1>4 DEF ChannelInv
  <2>2. Got => Follows(c2s', Confirming(sseq)) /\ clast \in Confirming(sseq)
    BY <1>1 DEF ChannelInv, Drains
  <2>3. ASSUME cpc \in ClientReceiving
        PROVE  /\ \A p \in Range(s2c') : p.fin => p = slast
               /\ ~Got => \A p \in Range(s2c') : p.seq = cseq => p = slast
               /\ Got  => Range(s2c') \subseteq {slast}
    BY <1>1, <1>2, <2>3 DEF ChannelInv
  <2>4. ASSUME cpc \in ClientReceiving, ~Got
        PROVE  Follows(s2c', {slast})
    <3>1. Follows(s2c, {slast}) /\ slast \in {slast}
      BY <1>1, <2>4 DEF ChannelInv
    <3>2. Follows(Send(s2c, slast), {slast})
      BY <1>1, <3>1, FollowsSend DEF BitInv
    <3> QED
      BY <3>1, <3>2
  <2> QED
    BY <1>1, <2>1, <2>2, <2>3, <2>4 DEF ChannelInv, Got
<1> QED
  BY <1>3, <1>5, <1>6 DEF DInv

\* What a server knows that sends its next chunk: the client has stored the
\* one before, and nothing on the way to it can be taken for the next.
LEMMA NextIsDue ==
    ASSUME Ordinary, DInv, NEW i \in Deliverable(c2s),
           NEW n, \/ spc = "filename" /\ exists /\ n = sseq
                  \/ spc = "chunk" /\ Confirms(c2s[i]) /\ n = Step(sseq)
    PROVE  /\ exists /\ n = cseq /\ n \in {0, 1}
           /\ Len(data) = sent /\ sent + 1 \in 1 .. NChunks
           /\ Range(c2s) \cap Confirming(n) = {} /\ clast \notin Confirming(n)
           /\ cpc \in ClientReceiving =>
                  \A p \in Range(s2c) : p.seq # n /\ ~p.fin
<1>1. /\ TypeOK /\ RefusedInv /\ ServerInv /\ StoredInv /\ ChannelInv
      /\ c2s \in Seq(BitPacket) /\ c2s[i] \in Range(c2s) /\ c2s[i] \in BitPacket
      /\ sent \in 0 .. NChunks /\ NChunks \in Nat /\ NChunks > 0
      /\ cseq \in {0, 1} /\ sseq \in {0, 1}
  BY SawDownloadAssumption, ReceiptContents
  DEF DInv, BitInv, TypeOK, Deliverable, Range, Ordinary
<1>2. exists /\ spc # "done"
  BY <1>1 DEF RefusedInv
<1>3. CASE spc = "filename" /\ n = sseq
  <2>1. sent = 0 /\ slast.seq # FilenameSeq /\ ~slast.fin
    BY <1>1, <1>2, <1>3 DEF ServerInv
  <2>2. data = <<>> /\ cseq = FilenameSeq /\ sseq = FilenameSeq /\ ~Got
    BY <1>1, <1>2, <2>1 DEF StoredInv, Got
  <2>3. ToServer \cap Confirming(sseq) = {}
    BY <1>1, <1>2, <2>2 DEF ChannelInv
  <2>4. ASSUME cpc \in ClientReceiving, NEW p \in Range(s2c)
        PROVE  p.seq # n /\ ~p.fin
    <3>1. p.fin \/ p.seq = cseq => p = slast
      BY <1>1, <1>2, <2>2, <2>4 DEF ChannelInv
    <3> QED
      BY <1>3, <2>1, <2>2, <3>1
  <2>5. Len(data) = 0
    BY <2>2
  <2> QED
    BY <1>1, <1>2, <1>3, <2>1, <2>2, <2>3, <2>4, <2>5 DEF ToServer
<1>4. CASE spc = "chunk" /\ Confirms(c2s[i]) /\ n = Step(sseq)
  <2>1. c2s[i] \in Confirming(sseq)
    BY <1>1, <1>4 DEF Confirms, Confirming, BitPacket
  <2>2. Got
    BY <1>1, <1>2, <2>1 DEF ChannelInv, ToServer
  <2>3. n = cseq /\ n # sseq
    BY <1>1, <1>4, <2>2, Steps DEF Got
  <2>4. Range(c2s) \subseteq Confirming(sseq) /\ clast \in Confirming(sseq)
    <3>1. Follows(c2s, Confirming(sseq)) /\ clast \in Confirming(sseq)
      BY <1>1, <1>2, <2>2 DEF ChannelInv
    <3> QED
      BY <1>1, <2>1, <3>1, FollowsHead DEF Ordinary
  <2>5. sent > 0 /\ sent # NChunks /\ slast = ChunkPkt(sseq, sent)
    BY <1>1, <1>2, <1>4 DEF ServerInv
  <2>6. slast.seq = sseq /\ ~slast.fin
    BY <1>1, <2>5, ChunkFields
  <2>7. Len(data) = sent
    BY <1>1, <1>2, <2>2, <2>5 DEF StoredInv
  <2>8. cpc \in ClientReceiving => \A p \in Range(s2c) : p.seq # n /\ ~p.fin
    BY <1>1, <1>2, <2>2, <2>3, <2>6 DEF ChannelInv
  <2> QED
    BY <1>1, <1>2, <2>3, <2>4, <2>5, <2>7, <2>8 DEF Confirming
<1> QED
  BY <1>3, <1>4

\* A server that sends its next chunk.
LEMMA ServerSends ==
    ASSUME Ordinary, DInv, UNCHANGED <<client, exists>>,
           NEW i \in Deliverable(c2s), c2s' \in AfterReceipt(c2s, i),
           NEW n, \/ spc = "filename" /\ exists /\ n = sseq
                  \/ spc = "chunk" /\ Confirms(c2s[i]) /\ n = Step(sseq),
           SendChunk(n)
    PROVE  DInv'
<1>1. /\ UNCHANGED <<cpc, cseq, data, disk, clast, exists>>
      /\ TypeOK /\ BitInv /\ ClientInv /\ RefusedInv /\ ServerInv /\ StoredInv
      /\ ChannelInv /\ sent \in 0 .. NChunks /\ NChunks \in Nat
  BY SawDownloadAssumption DEF DInv, client, TypeOK
<1>2. /\ exists /\ n = cseq /\ n \in {0, 1}
      /\ Len(data) = sent /\ sent + 1 \in 1 .. NChunks
      /\ Range(c2s) \cap Confirming(n) = {} /\ clast \notin Confirming(n)
      /\ cpc \in ClientReceiving =>
             \A p \in Range(s2c) : p.seq # n /\ ~p.fin
  BY NextIsDue
<1>3. /\ c2s' \in Seq(BitPacket) /\ Range(c2s') \subseteq Range(c2s)
  BY <1>1, ReceiptContents DEF BitInv
<1>4. /\ sent' = sent + 1 /\ sseq' = n /\ s2c' = Send(s2c, slast')
      /\ spc' = IF sent' = NChunks THEN "closing" ELSE "chunk"
  BY DEF SendChunk
<1>5. slast' = ChunkPkt(n, sent')
  <2>1. sent = 0 <=> sent' = 1
    BY <1>1, <1>4
  <2>2. CASE sent = 0
    <3>1. slast' = FirstChunkPkt(n, 0, sent', sent' = NChunks)
      BY <2>2, Zenon DEF SendChunk
    <3> QED
      BY <2>1, <2>2, <3>1, Zenon DEF ChunkPkt
  <2>3. CASE sent # 0
    <3>1. slast' = DataPkt(n, 0, sent', sent' = NChunks)
      BY <2>3, Zenon DEF SendChunk
    <3> QED
      BY <2>1, <2>3, <3>1, Zenon DEF ChunkPkt
  <2> QED
    BY <2>2, <2>3
<1>6. /\ slast' \in BitPacket /\ slast'.seq = n
      /\ sent' \in 0 .. NChunks /\ sent' # 0 /\ Len(data) = sent' - 1
  <2>1. sent' \in Nat /\ sent' \in 0 .. NChunks /\ sent' # 0 /\ Len(data) = sent' - 1
    BY <1>1, <1>2, <1>4
  <2>2. ChunkPkt(n, sent') \in BitPacket /\ ChunkPkt(n, sent').seq = n
    BY <1>2, <2>1, ChunkFields
  <2> QED
    BY <1>5, <2>1, <2>2
<1>7. s2c' \in Seq(BitPacket) /\ Range(s2c') \subseteq Range(s2c) \cup {slast'}
  BY <1>1, <1>4, <1>6, SendContents DEF BitInv
<1>8. BitInv' /\ TypeOK'
  <2>1. c2s' \in Seq(Packet) /\ s2c' \in Seq(Packet) /\ slast' \in Packet
    BY <1>3, <1>6, <1>7, BitChannel DEF BitPacket
  <2>2. spc' \in ServerWaits
    BY <1>4 DEF ServerWaits
  <2> QED
    BY <1>1, <1>2, <1>3, <1>4, <1>6, <1>7, <2>1, <2>2 DEF BitInv, TypeOK
<1>9. ToServer' \subseteq ToServer /\ ToServer' \cap Confirming(n) = {}
  BY <1>1, <1>2, <1>3 DEF ToServer
<1>10. ClientInv' /\ RefusedInv' /\ ReceivedIsPrefix'
  BY <1>1, <1>2, <1>9 DEF DInv, ClientInv, RefusedInv, ReceivedIsPrefix
<1>11. ServerInv'
  <2>1. spc' \in {"chunk", "closing"} /\ (spc' = "closing" <=> sent' = NChunks)
    BY <1>4
  <2>2. slast' = ChunkPkt(sseq', sent')
    BY <1>4, <1>5, Zenon
  <2>3. ChunkPkt(sseq, sent)' = ChunkPkt(sseq', sent')
    BY DEF ChunkPkt
  <2> HIDE DEF ChunkPkt
  <2>4. sent' > 0
    BY <1>6
  <2> QED
    BY <1>6, <2>1, <2>2, <2>3, <2>4 DEF ServerInv
<1>12. StoredInv' /\ ~Got'
  BY <1>1, <1>2, <1>4, <1>6 DEF StoredInv, Got
<1>13. ChannelInv'
  <2>1. ASSUME cpc \in ClientReceiving
        PROVE  /\ \A p \in Range(s2c') : p.fin \/ p.seq = cseq => p = slast'
               /\ Follows(s2c', {slast'})
    <3>1. \A p \in Range(s2c') : p.fin \/ p.seq = cseq => p = slast'
      BY <1>2, <1>7, <2>1
    <3>2. Range(s2c) \cap {slast'} = {} /\ slast' \in {slast'}
      BY <1>2, <1>6, <2>1
    <3>3. Follows(s2c, {slast'})
      BY <3>2, FollowsTrivially
    <3>4. Follows(Send(s2c, slast'), {slast'})
      BY <1>1, <1>6, <3>2, <3>3, FollowsSend DEF BitInv
    <3> QED
      BY <1>4, <3>1, <3>4
  <2> QED
    BY <1>1, <1>4, <1>9, <1>12, <2>1 DEF ChannelInv
<1> QED
  BY <1>8, <1>10, <1>11, <1>12, <1>13 DEF DInv

\* A server that has its last chunk confirmed: the client has the file.
LEMMA ServerDone ==
    ASSUME Ordinary, DInv, UNCHANGED <<client, exists>>, spc = "closing",
           NEW i \in Deliverable(c2s), c2s' \in AfterReceipt(c2s, i),
           EndsWait(c2s[i]), spc' = "done", AnswerEnd
    PROVE  DInv'
<1>1. /\ UNCHANGED <<cpc, cseq, data, disk, clast, exists>>
      /\ TypeOK /\ BitInv /\ ClientInv /\ RefusedInv /\ ServerInv /\ StoredInv
      /\ ChannelInv /\ sseq \in {0, 1}
  BY DEF DInv, client, TypeOK
<1>2. /\ c2s' \in Seq(BitPacket) /\ Range(c2s') \subseteq Range(c2s)
      /\ c2s[i] \in Range(c2s) /\ c2s[i] \in BitPacket
  BY <1>1, ReceiptContents DEF BitInv
<1>3. exists
  BY <1>1 DEF RefusedInv
<1>4. disk = "saved"
  <2>1. c2s[i] \in Confirming(sseq)
    BY <1>2 DEF EndsWait, Confirming, BitPacket
  <2>2. Got
    BY <1>1, <1>2, <1>3, <2>1 DEF ChannelInv, ToServer
  <2>3. sent = NChunks /\ sent # 0
    BY <1>1, <1>3 DEF ServerInv, Ordinary
  <2>4. Len(data) = NChunks
    BY <1>1, <1>3, <2>2, <2>3 DEF StoredInv
  <2> QED
    BY <1>1, <2>4 DEF ClientInv
<1>5. /\ sent' = sent /\ sseq' \in {0, 1} /\ slast' \in BitPacket
      /\ s2c' \in Seq(BitPacket)
  <2>1. Step(sseq) \in {0, 1}
    BY <1>1, Steps
  <2>2. AckPkt(sseq', 0) \in BitPacket
    BY <2>1, Composed DEF AnswerEnd
  <2> QED
    BY <1>1, <2>1, <2>2, SendContents DEF AnswerEnd, BitInv
<1>6. BitInv' /\ TypeOK'
  <2>1. c2s' \in Seq(Packet) /\ s2c' \in Seq(Packet) /\ slast' \in Packet
    BY <1>2, <1>5, BitChannel DEF BitPacket
  <2> QED
    BY <1>1, <1>2, <1>5, <2>1 DEF BitInv, TypeOK, ServerEnds
<1>7. ToServer' \subseteq ToServer
  BY <1>1, <1>2 DEF ToServer
<1>8. /\ ClientInv' /\ RefusedInv' /\ ServerInv' /\ StoredInv' /\ ChannelInv'
      /\ ReceivedIsPrefix'
  BY <1>1, <1>3, <1>4, <1>7
  DEF DInv, ClientInv, RefusedInv, ServerInv, StoredInv, ChannelInv, ReceivedIsPrefix
<1> QED
  BY <1>6, <1>8 DEF DInv

\* A server without the file: what it sends is empty, and none of it is an
\* ACK as long as the client awaits the first chunk.
LEMMA ServerRefuses ==
    ASSUME Ordinary, DInv, ~exists, UNCHANGED <<client, exists>>,
           sent' = sent, sseq' \in {0, 1}, slast' \in BitPacket,
           s2c' \in Seq(BitPacket), spc' \in {"refusing", "refused"},
           \A p \in ToClient' :
               p \in ToClient \/ (p.data = 0 /\ (p.ack => cpc # "filename")),
           Drains(c2s, c2s')
    PROVE  DInv'
<1>1. /\ UNCHANGED <<cpc, cseq, data, disk, clast, exists>>
      /\ TypeOK /\ BitInv /\ ClientInv /\ RefusedInv
  BY DEF DInv, client
<1>2. c2s' \in Seq(BitPacket) /\ Range(c2s') \subseteq Range(c2s)
  BY DEF Drains
<1>3. BitInv' /\ TypeOK'
  <2>1. c2s' \in Seq(Packet) /\ s2c' \in Seq(Packet) /\ slast' \in Packet
    BY <1>2, BitChannel DEF BitPacket
  <2> QED
    BY <1>1, <1>2, <2>1 DEF BitInv, TypeOK, ServerWaits, ServerEnds
<1>4. ToServer' \subseteq ToServer
  BY <1>1, <1>2 DEF ToServer
<1>5. ClientInv' /\ ReceivedIsPrefix'
  BY <1>1, <1>4 DEF DInv, ClientInv, ReceivedIsPrefix
<1>6. RefusedInv'
  BY <1>1 DEF RefusedInv
<1>7. ServerInv' /\ StoredInv' /\ ChannelInv'
  BY <1>1 DEF ServerInv, StoredInv, ChannelInv
<1> QED
  BY <1>3, <1>5, <1>6, <1>7 DEF DInv

\* What the server does with a packet.
LEMMA ServerReceipt ==
    ASSUME Ordinary, DInv, NEW i \in Deliverable(c2s), ServerReceivesAt(i)
    PROVE  DInv'
<1>1. /\ c2s \in Seq(BitPacket) /\ s2c \in Seq(BitPacket) /\ sseq \in {0, 1}
      /\ ClientInv /\ RefusedInv /\ ServerInv
  BY DEF DInv, BitInv, TypeOK
<1>2. c2s' \in AfterReceipt(c2s, i) /\ UNCHANGED <<client, exists>>
  BY DEF ServerReceivesAt, ServerFilename_Receives, ServerChunk_Ack,
         ServerCloses_Answer, ServerRefuses_Answer
<1>3. Drains(c2s, c2s') /\ c2s[i] \in Range(c2s)
  BY <1>1, <1>2, ReceiptDrains
<1>4. Step(sseq) \in {0, 1}
  BY <1>1, Steps
<1>5. ASSUME Relisten
      PROVE  DInv'
  <2>1. UNCHANGED server /\ s2c' = Send(s2c, slast)
    BY <1>5 DEF Relisten, server
  <2> QED
    BY <1>2, <1>3, <2>1, ServerRepeats
<1>6. CASE ServerFilename_Receives(i)
  <2>1. CASE ~exists /\ Refuse
    <3> DEFINE f == FinPkt(sseq, 0)
               g == FinPkt(Step(sseq), 0)
    <3>1. f \in BitPacket /\ g \in BitPacket /\ f.data = 0 /\ g.data = 0 /\ ~f.ack /\ ~g.ack
      <4>1. f \in BitPacket /\ g \in BitPacket
        BY <1>1, <1>4, Composed
      <4> QED
        BY <4>1 DEF FinPkt
    <3>2. /\ spc' = "refusing" /\ sseq' = Step(sseq) /\ slast' = g
          /\ s2c' = Send(Send(s2c, f), g) /\ sent' = sent
      BY <2>1 DEF Refuse
    <3> HIDE DEF f, g
    <3>3. Send(s2c, f) \in Seq(BitPacket) /\ Range(Send(s2c, f)) \subseteq Range(s2c) \cup {f}
      BY <1>1, <3>1, SendContents
    <3>4. /\ Send(Send(s2c, f), g) \in Seq(BitPacket)
          /\ Range(Send(Send(s2c, f), g)) \subseteq Range(Send(s2c, f)) \cup {g}
      BY <3>1, <3>3, SendContents
    <3>5. \A p \in ToClient' : p \in ToClient \/ p \in {f, g}
      BY <3>2, <3>3, <3>4 DEF ToClient
    <3> QED
      BY <1>2, <1>3, <1>4, <2>1, <3>1, <3>2, <3>4, <3>5, ServerRefuses
  <2>2. CASE exists /\ SendChunk(sseq)
    BY <1>2, <1>6, <2>2, ServerSends DEF ServerFilename_Receives
  <2>3. NChunks # 0
    BY DEF Ordinary
  <2> QED
    BY <1>5, <1>6, <2>1, <2>2, <2>3 DEF ServerFilename_Receives
<1>7. CASE ServerChunk_Ack(i)
  <2>1. CASE Confirms(c2s[i]) /\ SendChunk(Step(sseq))
    BY <1>2, <1>7, <2>1, ServerSends DEF ServerChunk_Ack
  <2> QED
    BY <1>5, <1>7, <2>1 DEF ServerChunk_Ack
<1>8. CASE ServerCloses_Answer(i)
  <2>1. CASE EndsWait(c2s[i]) /\ spc' = "done" /\ AnswerEnd
    BY <1>2, <1>8, <2>1, ServerDone DEF ServerCloses_Answer
  <2> QED
    BY <1>5, <1>8, <2>1 DEF ServerCloses_Answer
<1>9. CASE ServerRefuses_Answer(i)
  <2>1. CASE EndsWait(c2s[i]) /\ spc' = "refused" /\ AnswerEnd
    <3>1. ~exists /\ spc = "refusing"
      BY <1>1, <1>9 DEF ServerInv, ServerRefuses_Answer
    <3>2. cpc # "filename"
      BY <1>1, <1>3, <2>1 DEF ClientInv, ToServer, EndsWait
    <3> DEFINE a == AckPkt(Step(sseq), 0)
    <3>3. a \in BitPacket /\ a.data = 0
      <4>1. a \in BitPacket
        BY <1>4, Composed
      <4> QED
        BY <4>1 DEF AckPkt
    <3>4. sseq' = Step(sseq) /\ slast' = a /\ s2c' = Send(s2c, a) /\ sent' = sent
      BY <2>1 DEF AnswerEnd
    <3> HIDE DEF a
    <3>5. Send(s2c, a) \in Seq(BitPacket) /\ Range(Send(s2c, a)) \subseteq Range(s2c) \cup {a}
      BY <1>1, <3>3, SendContents
    <3>6. \A p \in ToClient' : p \in ToClient \/ p = a
      BY <3>4, <3>5 DEF ToClient
    <3> QED
      BY <1>2, <1>3, <1>4, <2>1, <3>1, <3>2, <3>3, <3>4, <3>5, <3>6, ServerRefuses
  <2> QED
    BY <1>5, <1>9, <2>1 DEF ServerRefuses_Answer
<1> QED
  BY <1>6, <1>7, <1>8, <1>9 DEF ServerReceivesAt

\* A server that gives up, or is stopped, sends nothing more.
LEMMA ServerLeaves ==
    ASSUME Ordinary, DInv, ServerGivesUp
    PROVE  DInv'
<1>1. /\ UNCHANGED <<cpc, cseq, data, disk, clast, sseq, sent, exists, slast, c2s, s2c>>
      /\ TypeOK /\ BitInv /\ ClientInv /\ RefusedInv /\ ServerInv /\ StoredInv
      /\ ChannelInv
  BY DEF DInv, ServerGivesUp, client
<1>2. /\ spc # "done" /\ spc' \in {"refused", "failed"}
      /\ spc' = "refused" => spc = "refusing"
  BY DEF ServerGivesUp, ServerWaits
<1>3. BitInv' /\ TypeOK'
  BY <1>1, <1>2 DEF BitInv, TypeOK, ServerEnds
<1>4. ClientInv' /\ RefusedInv' /\ ReceivedIsPrefix'
  BY <1>1, <1>2 DEF DInv, ClientInv, RefusedInv, ReceivedIsPrefix, ToServer, ToClient
<1>5. ServerInv' /\ StoredInv' /\ ChannelInv'
  BY <1>1, <1>2 DEF ServerInv, StoredInv, ChannelInv, Got, ToServer, ChunkPkt
<1> QED
  BY <1>3, <1>4, <1>5 DEF DInv

\* The server's timer, a packet lost, or nothing.
LEMMA OtherSteps ==
    ASSUME Ordinary, DInv, ServerRetransmits \/ Lose \/ Finished \/ UNCHANGED vars
    PROVE  DInv'
<1>1. c2s \in Seq(BitPacket) /\ s2c \in Seq(BitPacket)
  BY DEF DInv, BitInv
<1>2. CASE c2s' \in AfterLoss(c2s) /\ s2c' = s2c /\ UNCHANGED <<client, server>>
  BY <1>1, <1>2, LossDrains, ServerRepeats
<1>3. CASE s2c' \in AfterLoss(s2c) /\ c2s' = c2s /\ UNCHANGED <<client, server>>
  BY <1>1, <1>3, LossDrains, ClientRepeats
<1>4. CASE UNCHANGED vars
  BY <1>1, <1>4, KeptDrains, ServerRepeats DEF vars
<1>5. CASE ServerRetransmits
  BY <1>1, <1>5, KeptDrains, ServerRepeats DEF ServerRetransmits, Relisten, server
<1> QED
  BY <1>2, <1>3, <1>4, <1>5 DEF Lose, Finished

-----------------------------------------------------------------------------
(* The theorems                                                            *)

\* Every step keeps the invariant.
LEMMA InvariantStep ==
    ASSUME Ordinary, DInv, [Next]_vars
    PROVE  DInv'
BY ClientReceipt, ClientAlone, ServerReceipt, ServerLeaves, OtherSteps DEF Next

\* A download starts in it.
LEMMA InvariantInit ==
    ASSUME Ordinary, Init
    PROVE  DInv
<1>1. /\ NChunks \in Nat /\ NChunks # 0 /\ 0 \in {0, 1} /\ 1 \in {0, 1} /\ 0 \in Nat
      /\ FALSE \in BOOLEAN
  BY SawDownloadAssumption DEF Ordinary
<1> DEFINE d == DataPkt(0, 0, 0, FALSE)
           a == AckPkt(1, 0)
<1>2. d \in BitPacket /\ a \in BitPacket
  BY <1>1, Composed
<1>3. /\ ~d.ack /\ ~d.fin /\ a.seq = 1 /\ a.data = 0 /\ ~a.fin
  BY DEF DataPkt, AckPkt
<1>4. \A q \in BitPacket : <<q>> \in Seq(BitPacket) /\ Range(<<q>>) = {q}
  BY DEF Range
<1>5. <<>> \in Seq(BitPacket) /\ Range(<<>>) = {}
  BY DEF Range
<1>6. /\ cpc = "filename" /\ cseq = 0 /\ data = <<>> /\ disk = "partial" /\ clast = d
      /\ spc = "filename" /\ sseq = 0 /\ sent = 0 /\ exists \in BOOLEAN
      /\ slast = a /\ c2s = <<d>> /\ s2c \in {<<>>, <<a>>}
  BY DEF Init, FilenameSeq
<1> HIDE DEF d, a
<1>7. /\ c2s \in Seq(BitPacket) /\ s2c \in Seq(BitPacket)
      /\ Range(c2s) = {d} /\ Range(s2c) \subseteq {a}
  <2>1. c2s \in Seq(BitPacket) /\ Range(c2s) = {d}
    BY <1>2, <1>4, <1>6, Zenon
  <2>2. CASE s2c = <<>>
    BY <1>5, <2>1, <2>2
  <2>3. CASE s2c = <<a>>
    BY <1>2, <1>4, <2>1, <2>3, Zenon
  <2> QED
    BY <1>6, <2>2, <2>3, Zenon
<1>8. BitInv
  BY <1>2, <1>6, <1>7 DEF BitInv
<1>9. TypeOK
  <2>1. c2s \in Seq(Packet) /\ s2c \in Seq(Packet) /\ clast \in Packet /\ slast \in Packet
    BY <1>2, <1>6, <1>7, BitChannel DEF BitPacket
  <2>2. data \in Seq(Nat) /\ sent \in 0 .. NChunks
    BY <1>1, <1>6
  <2> QED
    BY <1>6, <2>1, <2>2 DEF TypeOK, ClientWaits, ServerWaits
<1>10. /\ Len(data) # NChunks
       /\ \A p \in ToServer : p = d
       /\ \A p \in ToClient : p = a
  BY <1>1, <1>6, <1>7 DEF ToServer, ToClient
<1>11. ClientInv /\ ReceivedIsPrefix
  BY <1>3, <1>6, <1>10 DEF ClientInv, ReceivedIsPrefix, FilenameSeq
<1>12. RefusedInv /\ ServerInv /\ StoredInv
  BY <1>3, <1>6, <1>10 DEF RefusedInv, ServerInv, StoredInv, FilenameSeq
<1>13. ChannelInv
  <2>1. ToServer \cap Confirming(sseq) = {} /\ ~Got
    BY <1>3, <1>6, <1>10 DEF Confirming, Got
  <2>2. Range(s2c) \subseteq {slast}
    BY <1>6, <1>7
  <2>3. Follows(s2c, {slast}) /\ \A p \in Range(s2c) : p = slast
    BY <2>2, FollowsTrivially
  <2> QED
    BY <2>1, <2>3 DEF ChannelInv
<1> QED
  BY <1>8, <1>9, <1>11, <1>12, <1>13 DEF DInv

-----------------------------------------------------------------------------
(* Types, on any network and of any file.                                  *)

\* A step of the client keeps the types.
LEMMA ClientCounts ==
    ASSUME CountInv, UNCHANGED server,
           \/ \E i \in Deliverable(s2c) : ClientReceives(i)
           \/ ClientRetransmits \/ ClientGivesUp \/ ClientStops
    PROVE  CountInv'
<1>0. /\ cpc \in ClientWaits \cup ClientEnds /\ cseq \in {0, 1} /\ data \in Seq(Nat)
      /\ disk \in {"partial", "saved", "absent"} /\ clast \in Packet
      /\ c2s \in Seq(Packet) /\ s2c \in Seq(Packet)
  BY DEF CountInv, TypeOK
<1>1. Step(cseq) \in {0, 1} /\ Step(Step(cseq)) \in {0, 1}
  BY <1>0, Steps
<1>2. s2c' \in Seq(Packet)
  <2>1. ASSUME NEW i \in Deliverable(s2c), s2c' \in AfterReceipt(s2c, i)
        PROVE  s2c' \in Seq(Packet)
    BY <1>0, <2>1, KindReceived
  <2> QED
    BY <1>0, <2>1 DEF ClientReceives, ClientName_Answer, ClientChunk_Receives,
        ClientFinalizes_Answer, ClientRetransmits, ClientGivesUp, ClientStops
<1>3. \A s \in {0, 1} : AckPkt(s, 0) \in Packet /\ FinPkt(s, 0) \in Packet
  BY PacketTypes
<1>4. ASSUME /\ cpc' \in ClientWaits \cup ClientEnds /\ cseq' \in {0, 1}
             /\ data' \in Seq(Nat) /\ disk' \in {"partial", "saved", "absent"}
             /\ clast' \in Packet /\ c2s' \in Seq(Packet)
      PROVE  CountInv'
  BY <1>2, <1>4 DEF CountInv, TypeOK, server
<1>5. CleanedUp \in {"partial", "saved", "absent"}
  BY DEF CleanedUp
<1>6. CASE ClientRelistens
  <2>1. c2s' \in Seq(Packet)
    BY <1>0, <1>6, KindSent DEF ClientRelistens
  <2> QED
    BY <1>0, <1>4, <1>6, <2>1 DEF ClientRelistens
<1>7. CASE cpc' \in ClientEnds /\ disk' \in {disk, CleanedUp}
           /\ UNCHANGED <<cseq, data, clast, c2s>>
  BY <1>0, <1>4, <1>5, <1>7
<1>8. ASSUME NEW s \in {0, 1}, Finalize(s)
      PROVE  /\ cpc' \in ClientWaits /\ cseq' \in {0, 1} /\ clast' \in Packet
             /\ c2s' \in Seq(Packet)
  <2>1. AckPkt(s, 0) \in Packet /\ clast' \in Packet
    BY <1>3, <1>8 DEF Finalize
  <2>2. c2s' \in Seq(Packet)
    BY <1>0, <1>8, <2>1, KindSentTwice DEF Finalize
  <2> QED
    BY <1>8, <2>1, <2>2, Steps DEF Finalize, ClientWaits
<1>9. CASE Abort
  BY <1>0, <1>1, <1>4, <1>8, <1>9 DEF Abort
<1>10. ASSUME NEW i \in Deliverable(s2c), StoreChunk(s2c[i])
       PROVE  CountInv'
  <2>1. s2c[i].data \in Nat
    BY <1>0, PacketFields DEF Deliverable
  <2>2. data' \in Seq(Nat)
    BY <1>0, <1>10, <2>1 DEF StoreChunk
  <2>3. CASE s2c[i].fin
    BY <1>0, <1>4, <1>8, <1>10, <2>2, <2>3 DEF StoreChunk
  <2>4. CASE ~s2c[i].fin
    <3>1. clast' \in Packet
      BY <1>0, <1>3, <1>10, <2>4 DEF StoreChunk
    <3>2. c2s' \in Seq(Packet)
      BY <1>0, <1>10, <2>4, <3>1, KindSent DEF StoreChunk
    <3> QED
      BY <1>0, <1>1, <1>4, <1>10, <2>2, <2>4, <3>1, <3>2 DEF StoreChunk, ClientWaits
  <2> QED
    BY <2>3, <2>4
<1>11. CASE \E i \in Deliverable(s2c) : ClientReceives(i)
  BY <1>6, <1>7, <1>9, <1>10, <1>11
  DEF ClientReceives, ClientName_Answer, ClientChunk_Receives, ClientFinalizes_Answer,
      ClientEnds
<1>12. CASE ClientRetransmits \/ ClientGivesUp \/ ClientStops
  BY <1>6, <1>7, <1>9, <1>12 DEF ClientRetransmits, ClientGivesUp, ClientStops, ClientEnds
<1> QED
  BY <1>11, <1>12

\* A step of the server's connection does, and it counts its chunks.
LEMMA ServerCounts ==
    ASSUME CountInv, UNCHANGED client,
           \/ \E i \in Deliverable(c2s) : ServerReceivesAt(i)
           \/ ServerRetransmits \/ ServerGivesUp
    PROVE  CountInv'
<1>0. /\ spc \in ServerWaits \cup ServerEnds /\ sseq \in {0, 1} /\ sent \in 0 .. NChunks
      /\ exists \in BOOLEAN /\ slast \in Packet
      /\ c2s \in Seq(Packet) /\ s2c \in Seq(Packet) /\ NChunks \in Nat
      /\ spc = "filename" => sent = 0
      /\ spc = "chunk" => sent < NChunks
  BY SawDownloadAssumption DEF CountInv, TypeOK
<1>1. Step(sseq) \in {0, 1} /\ Step(Step(sseq)) \in {0, 1}
  BY <1>0, Steps
<1>2. c2s' \in Seq(Packet)
  <2>1. ASSUME NEW i \in Deliverable(c2s), c2s' \in AfterReceipt(c2s, i)
        PROVE  c2s' \in Seq(Packet)
    BY <1>0, <2>1, KindReceived
  <2> QED
    BY <1>0, <2>1 DEF ServerReceivesAt, ServerFilename_Receives, ServerChunk_Ack,
        ServerCloses_Answer, ServerRefuses_Answer, ServerRetransmits, ServerGivesUp
<1>3. \A s \in {0, 1} : AckPkt(s, 0) \in Packet /\ FinPkt(s, 0) \in Packet
  BY PacketTypes
<1>4. ASSUME /\ spc' \in ServerWaits \cup ServerEnds /\ sseq' \in {0, 1}
             /\ sent' \in 0 .. NChunks /\ exists' = exists
             /\ slast' \in Packet /\ s2c' \in Seq(Packet)
             /\ spc' = "filename" => sent' = 0
             /\ spc' = "chunk" => sent' < NChunks
      PROVE  CountInv'
  <2>1. TypeOK'
    BY <1>0, <1>2, <1>4 DEF CountInv, TypeOK, client
  <2> QED
    BY <1>4, <2>1 DEF CountInv
<1>5. CASE Relisten
  <2>1. s2c' \in Seq(Packet)
    BY <1>0, <1>5, KindSent DEF Relisten
  <2> QED
    BY <1>0, <1>4, <1>5, <2>1 DEF Relisten
<1>6. ASSUME NEW n \in {0, 1}, SendChunk(n), sent < NChunks, exists' = exists
      PROVE  CountInv'
  <2>1. sent' = sent + 1 /\ sent' \in 0 .. NChunks /\ sent' \in Nat /\ sseq' = n /\ 0 \in Nat
    BY <1>0, <1>6 DEF SendChunk
  <2>2. slast' \in Packet
    <3>1. (sent' = NChunks) \in BOOLEAN
      OBVIOUS
    <3>2. /\ DataPkt(n, 0, sent', sent' = NChunks) \in Packet
          /\ FirstChunkPkt(n, 0, sent', sent' = NChunks) \in Packet
      BY <1>6, <2>1, <3>1, DataPacketTypes
    <3> QED
      BY <1>6, <3>2, Zenon DEF SendChunk
  <2>3. s2c' \in Seq(Packet)
    BY <1>0, <1>6, <2>2, KindSent DEF SendChunk
  <2>4. IF sent' = NChunks THEN spc' = "closing" ELSE spc' = "chunk" /\ sent' < NChunks
    BY <1>0, <1>6, <2>1 DEF SendChunk
  <2> QED
    BY <1>4, <1>6, <2>1, <2>2, <2>3, <2>4 DEF ServerWaits
<1>7. CASE Refuse /\ exists' = exists
  <2>1. FinPkt(sseq, 0) \in Packet /\ slast' \in Packet
    BY <1>0, <1>1, <1>3, <1>7 DEF Refuse
  <2>2. s2c' \in Seq(Packet)
    BY <1>0, <1>7, <2>1, KindSentTwice DEF Refuse
  <2>3. spc' = "refusing" /\ sseq' \in {0, 1} /\ sent' = sent
    BY <1>1, <1>7 DEF Refuse
  <2> QED
    BY <1>0, <1>4, <1>7, <2>1, <2>2, <2>3 DEF ServerWaits
<1>8. CASE AnswerEnd /\ spc' \in {"done", "refused"} /\ exists' = exists
  <2>1. sseq' \in {0, 1} /\ slast' \in Packet /\ sent' = sent
    BY <1>1, <1>3, <1>8 DEF AnswerEnd
  <2>2. s2c' \in Seq(Packet)
    BY <1>0, <1>8, <2>1, KindSent DEF AnswerEnd
  <2> QED
    BY <1>0, <1>4, <1>8, <2>1, <2>2 DEF ServerEnds
<1>9. CASE spc' \in {"closing", "refused", "failed"}
           /\ UNCHANGED <<sseq, sent, exists, slast, s2c>>
  BY <1>0, <1>4, <1>9 DEF ServerWaits, ServerEnds
<1>10. CASE \E i \in Deliverable(c2s) : ServerReceivesAt(i)
  <2>0. PICK i \in Deliverable(c2s) : ServerReceivesAt(i)
    BY <1>10
  <2>1. CASE ServerFilename_Receives(i)
    <3>1. CASE NChunks > 0 /\ SendChunk(sseq)
      BY <1>0, <1>6, <2>1, <3>1 DEF ServerFilename_Receives
    <3> QED
      BY <1>5, <1>7, <1>9, <2>1, <3>1 DEF ServerFilename_Receives
  <2>2. CASE ServerChunk_Ack(i)
    <3>1. CASE SendChunk(Step(sseq))
      BY <1>0, <1>1, <1>6, <2>2, <3>1 DEF ServerChunk_Ack
    <3> QED
      BY <1>5, <2>2, <3>1 DEF ServerChunk_Ack
  <2>3. CASE ServerCloses_Answer(i) \/ ServerRefuses_Answer(i)
    BY <1>5, <1>8, <2>3 DEF ServerCloses_Answer, ServerRefuses_Answer
  <2> QED
    BY <2>0, <2>1, <2>2, <2>3 DEF ServerReceivesAt
<1>11. CASE ServerRetransmits
  BY <1>5, <1>11 DEF ServerRetransmits
<1>12. CASE ServerGivesUp
  BY <1>9, <1>12 DEF ServerGivesUp
<1> QED
  BY <1>10, <1>11, <1>12

\* Which end a step is of.
LEMMA StepOfOneEnd ==
    ASSUME [Next]_vars
    PROVE  \/ /\ UNCHANGED server
              /\ \/ \E i \in Deliverable(s2c) : ClientReceives(i)
                 \/ ClientRetransmits \/ ClientGivesUp \/ ClientStops
           \/ /\ UNCHANGED client
              /\ \/ \E i \in Deliverable(c2s) : ServerReceivesAt(i)
                 \/ ServerRetransmits \/ ServerGivesUp
           \/ Lose
           \/ UNCHANGED vars
<1>1. ASSUME NEW i \in Deliverable(s2c), ClientReceives(i)
      PROVE  UNCHANGED server
  BY <1>1 DEF ClientReceives, ClientName_Answer, ClientChunk_Receives,
              ClientFinalizes_Answer
<1>2. ASSUME NEW i \in Deliverable(c2s), ServerReceivesAt(i)
      PROVE  UNCHANGED client
  BY <1>2 DEF ServerReceivesAt, ServerFilename_Receives, ServerChunk_Ack,
              ServerCloses_Answer, ServerRefuses_Answer
<1>3. ClientRetransmits \/ ClientGivesUp \/ ClientStops => UNCHANGED server
  BY DEF ClientRetransmits, ClientGivesUp, ClientStops
<1>4. ServerRetransmits \/ ServerGivesUp => UNCHANGED client
  BY DEF ServerRetransmits, ServerGivesUp
<1> QED
  BY <1>1, <1>2, <1>3, <1>4, Zenon DEF Next, Finished

\* Lost packets.
LEMMA LossCounts ==
    ASSUME CountInv, Lose
    PROVE  CountInv'
<1>1. c2s \in Seq(Packet) /\ s2c \in Seq(Packet)
  BY DEF CountInv, TypeOK
<1>2. c2s' \in Seq(Packet) /\ s2c' \in Seq(Packet)
  BY <1>1, KindLost DEF Lose
<1> QED
  BY <1>2 DEF CountInv, TypeOK, Lose, client, server

\* The first packets.
LEMMA FirstPackets ==
    ASSUME Init
    PROVE  /\ clast = DataPkt(0, 0, 0, FALSE) /\ slast = AckPkt(1, 0)
           /\ c2s = <<clast>> /\ s2c \in {<<>>, <<slast>>}
           /\ \A S : clast \in S => c2s \in Seq(S)
           /\ \A S : slast \in S => s2c \in Seq(S)
<1>1. /\ clast = DataPkt(0, 0, 0, FALSE) /\ slast = AckPkt(1, 0)
      /\ c2s = <<clast>> /\ s2c \in {<<>>, <<slast>>}
  BY Zenon DEF Init, FilenameSeq
<1>2. \A S : \A p \in S : <<p>> \in Seq(S)
  OBVIOUS
<1>3. \A S : <<>> \in Seq(S)
  OBVIOUS
<1> QED
  BY <1>1, <1>2, <1>3, Zenon

\* The types hold on any network, of any file.
LEMMA CountsHold == Spec => []CountInv
<1>1. Init => CountInv
  <2> SUFFICES ASSUME Init
               PROVE  CountInv
    OBVIOUS
  <2>1. clast \in Packet /\ slast \in Packet /\ NChunks \in Nat
    <3>1. DataPkt(0, 0, 0, FALSE) \in Packet /\ AckPkt(1, 0) \in Packet
      BY DEF DataPkt, AckPkt, Packet
    <3> QED
      BY <3>1, FirstPackets, SawDownloadAssumption, Zenon
  <2>2. c2s \in Seq(Packet) /\ s2c \in Seq(Packet)
    BY <2>1, FirstPackets, Zenon
  <2>3. /\ cpc = "filename" /\ spc = "filename" /\ cseq = 0 /\ sseq = 0 /\ sent = 0
        /\ data = <<>> /\ disk = "partial" /\ exists \in BOOLEAN
    BY DEF Init, FilenameSeq
  <2>4. TypeOK
    BY <2>1, <2>2, <2>3 DEF TypeOK, ClientWaits, ServerWaits
  <2> QED
    BY <2>3, <2>4 DEF CountInv
<1>2. CountInv /\ [Next]_vars => CountInv'
  <2> SUFFICES ASSUME CountInv, [Next]_vars
               PROVE  CountInv'
    OBVIOUS
  <2>1. CASE UNCHANGED vars
    BY <2>1 DEF CountInv, TypeOK, vars, client, server
  <2> QED
    BY <2>1, StepOfOneEnd, ClientCounts, ServerCounts, LossCounts
<1> QED
  BY <1>1, <1>2, PTL DEF Spec

-----------------------------------------------------------------------------
(* The empty file, on any network.                                         *)

\* No chunk is sent and none is stored.
LEMMA EmptyStep ==
    ASSUME NChunks = 0, EmptyInv, CountInv', [Next]_vars
    PROVE  EmptyInv'
<1>0. /\ data = <<>> /\ s2c \in Seq(EmptyPacket) /\ slast \in EmptyPacket
      /\ sseq \in {0, 1} /\ spc # "chunk"
      /\ cpc \in ClientReceiving => disk = "partial"
      /\ cpc \in {"closed", "stopped"} => disk # "partial"
  BY DEF EmptyInv, CountInv, TypeOK
<1>1. \A s \in {0, 1} : AckPkt(s, 0) \in EmptyPacket /\ FinPkt(s, 0) \in EmptyPacket
  BY EmptyPackets
<1>2. Step(sseq) \in {0, 1}
  BY <1>0, Steps
<1>3. CASE /\ UNCHANGED server
           /\ \/ \E i \in Deliverable(s2c) : ClientReceives(i)
              \/ ClientRetransmits \/ ClientGivesUp \/ ClientStops
  <2>1. ASSUME s2c' \in Seq(EmptyPacket), data' = data,
               cpc' \in ClientReceiving => disk' = "partial",
               cpc' \in {"closed", "stopped"} => disk' # "partial"
        PROVE  EmptyInv'
    BY <1>0, <1>3, <2>1 DEF EmptyInv, server
  <2>2. CleanedUp # "partial"
    BY DEF CleanedUp
  <2>3. ASSUME NEW i \in Deliverable(s2c), ClientReceives(i)
        PROVE  EmptyInv'
    <3>1. s2c' \in AfterReceipt(s2c, i)
      BY <2>3 DEF ClientReceives, ClientName_Answer, ClientChunk_Receives,
                  ClientFinalizes_Answer
    <3>2. s2c' \in Seq(EmptyPacket) /\ s2c[i].data = 0
      BY <1>0, <3>1, KindReceived DEF EmptyPacket
    <3>3. CASE ClientRelistens
      BY <1>0, <2>1, <3>2, <3>3 DEF ClientRelistens
    <3>4. CASE Abort
      BY <2>1, <3>2, <3>4 DEF Abort, Finalize, ClientReceiving
    <3>5. CASE StoreChunk(s2c[i]) /\ cpc \in ClientReceiving
      BY <1>0, <2>1, <3>2, <3>5 DEF StoreChunk, Finalize, ClientReceiving
    <3>6. CASE cpc' = "closed" /\ disk' = CleanedUp /\ UNCHANGED data
      BY <2>1, <2>2, <3>2, <3>6 DEF ClientReceiving
    <3> QED
      BY <2>3, <3>3, <3>4, <3>5, <3>6
      DEF ClientReceives, ClientName_Answer, ClientChunk_Receives,
          ClientFinalizes_Answer, ClientReceiving
  <2>4. CASE ClientRetransmits
    BY <1>0, <2>1, <2>4 DEF ClientRetransmits, ClientRelistens
  <2>5. CASE ClientGivesUp \/ ClientStops
    BY <1>0, <2>1, <2>2, <2>5
    DEF ClientGivesUp, ClientStops, Abort, Finalize, ClientReceiving
  <2> QED
    BY <1>3, <2>3, <2>4, <2>5
<1>4. CASE /\ UNCHANGED client
           /\ \/ \E i \in Deliverable(c2s) : ServerReceivesAt(i)
              \/ ServerRetransmits \/ ServerGivesUp
  <2> DEFINE Kept == s2c' \in Seq(EmptyPacket) /\ slast' \in EmptyPacket
  <2>1. UNCHANGED <<s2c, slast>> => Kept
    BY <1>0
  <2>2. Relisten => Kept
    BY <1>0, KindSent DEF Relisten
  <2>3. ASSUME Refuse
        PROVE  Kept
    <3>1. FinPkt(sseq, 0) \in EmptyPacket /\ slast' \in EmptyPacket
      BY <1>0, <1>1, <1>2, <2>3 DEF Refuse
    <3> QED
      BY <1>0, <2>3, <3>1, KindSentTwice DEF Refuse
  <2>4. ASSUME AnswerEnd
        PROVE  Kept
    <3>1. slast' \in EmptyPacket
      BY <1>1, <1>2, <2>4 DEF AnswerEnd
    <3> QED
      BY <1>0, <2>4, <3>1, KindSent DEF AnswerEnd
  <2> HIDE DEF Kept
  <2>5. ASSUME NEW i \in Deliverable(c2s), ServerReceivesAt(i)
        PROVE  Kept
    <3>1. ~(NChunks > 0)
      OBVIOUS
    <3> QED
      BY <1>0, <2>1, <2>2, <2>3, <2>4, <2>5, <3>1, Zenon
      DEF ServerReceivesAt, ServerFilename_Receives, ServerChunk_Ack,
          ServerCloses_Answer, ServerRefuses_Answer
  <2>6. ServerRetransmits \/ ServerGivesUp => Kept
    BY <2>1, <2>2 DEF ServerRetransmits, ServerGivesUp
  <2>7. Kept
    BY <1>4, <2>5, <2>6
  <2> QED
    BY <1>0, <1>4, <2>7 DEF EmptyInv, client, Kept
<1>5. CASE Lose
  <2>1. s2c' \in Seq(EmptyPacket)
    BY <1>0, <1>5, KindLost DEF Lose
  <2> QED
    BY <1>0, <1>5, <2>1 DEF EmptyInv, Lose, client, server
<1>6. CASE UNCHANGED vars
  BY <1>0, <1>6 DEF EmptyInv, vars, client, server
<1> QED
  BY <1>3, <1>4, <1>5, <1>6, StepOfOneEnd

\* Nothing is stored of an empty file, whatever the network does.
LEMMA EmptyStaysEmpty == ASSUME NChunks = 0 PROVE Spec => []EmptyInv
<1>1. Init => (CountInv => EmptyInv)
  <2> SUFFICES ASSUME Init, CountInv
               PROVE  EmptyInv
    OBVIOUS
  <2>1. slast \in EmptyPacket
    BY FirstPackets, EmptyPackets
  <2>2. s2c \in Seq(EmptyPacket)
    BY <2>1, FirstPackets, Zenon
  <2> QED
    BY <2>1, <2>2 DEF Init, EmptyInv
<1>2. CountInv /\ CountInv' /\ EmptyInv /\ [Next]_vars => EmptyInv'
  BY EmptyStep
<1> QED
  BY <1>1, <1>2, CountsHold, PTL DEF Spec

-----------------------------------------------------------------------------
(* The theorems                                                            *)

\* A file has a chunk or none.
LEMMA OrdinaryOrEmpty ==
    ASSUME "reordering" \notin NetFaults
    PROVE  Ordinary \/ NChunks = 0
BY SawDownloadAssumption DEF Ordinary

\* The inductive invariant holds in every state of every download of a file
\* that is not empty, on a path that keeps the order.
THEOREM Invariance == ASSUME Ordinary PROVE Spec => []DInv
BY InvariantInit, InvariantStep, PTL DEF Spec

\* Every variable keeps its type, whatever the network does; the numbers stay
\* bits.
THEOREM TypeCorrect == Spec => []TypeOK
<1>1. CountInv => TypeOK
  BY DEF CountInv
<1> QED
  BY <1>1, CountsHold, PTL

\* The client's file is a prefix of the server's, whatever is lost, repeated
\* or sent again too early, and whoever leaves.
THEOREM PrefixReceived ==
    ASSUME "reordering" \notin NetFaults
    PROVE  Spec => []ReceivedIsPrefix
<1>1. DInv => ReceivedIsPrefix
  BY DEF DInv
<1>2. EmptyInv => ReceivedIsPrefix
  BY DEF EmptyInv, ReceivedIsPrefix
<1>3. CASE Ordinary
  BY <1>1, <1>3, Invariance, PTL
<1>4. CASE NChunks = 0
  BY <1>2, <1>4, EmptyStaysEmpty, PTL
<1> QED
  BY <1>3, <1>4, OrdinaryOrEmpty

\* The server never runs ahead of the client's file.
THEOREM ServerOneAhead ==
    ASSUME "reordering" \notin NetFaults
    PROVE  Spec => []OneAhead
<1>1. DInv => OneAhead
  <2> SUFFICES ASSUME DInv, spc \in {"chunk", "closing"}
               PROVE  Len(data) \in {sent - 1, sent}
    BY DEF OneAhead
  <2>1. exists
    BY DEF DInv, RefusedInv
  <2>2. sent > 0 /\ sent \in Nat
    BY <2>1 DEF DInv, ServerInv, TypeOK
  <2> QED
    BY <2>1, <2>2 DEF DInv, StoredInv
<1>2. NChunks = 0 /\ EmptyInv => OneAhead
  BY DEF EmptyInv, CountInv, TypeOK, OneAhead
<1>3. CASE Ordinary
  BY <1>1, <1>3, Invariance, PTL
<1>4. CASE NChunks = 0
  BY <1>2, <1>4, EmptyStaysEmpty, PTL
<1> QED
  BY <1>3, <1>4, OrdinaryOrEmpty

\* A download the server reports as complete is received, whole and kept.
THEOREM DoneReceived == ASSUME Ordinary PROVE Spec => []DoneIsReceived
<1>1. DInv => DoneIsReceived
  <2> SUFFICES ASSUME DInv, spc = "done"
               PROVE  data = [k \in 1 .. NChunks |-> k] /\ disk = "saved"
    BY DEF DoneIsReceived
  <2>1. exists
    BY DEF DInv, RefusedInv
  <2>2. disk = "saved" /\ Len(data) = NChunks
    BY <2>1 DEF DInv, ServerInv, ClientInv
  <2> QED
    BY <2>2 DEF DInv, ReceivedIsPrefix
<1> QED
  BY <1>1, Invariance, PTL

\* A client that ends by itself leaves the whole file or none.
THEOREM WholeFileOrNone ==
    ASSUME "reordering" \notin NetFaults
    PROVE  Spec => []LeavesNoPart
<1>1. DInv => LeavesNoPart
  BY DEF DInv, ClientInv, TypeOK, LeavesNoPart
<1>2. NChunks = 0 /\ EmptyInv => LeavesNoPart
  BY DEF EmptyInv, CountInv, TypeOK, LeavesNoPart
<1>3. CASE Ordinary
  BY <1>1, <1>3, Invariance, PTL
<1>4. CASE NChunks = 0
  BY <1>2, <1>4, EmptyStaysEmpty, PTL
<1> QED
  BY <1>3, <1>4, OrdinaryOrEmpty

\* A step of the download of a file with chunks.
LEMMA TransferStep ==
    ASSUME Ordinary, DInv, [Next]_vars
    PROVE  [Transfer!Next]_<<data, outcome>>
<1>1. CASE UNCHANGED <<cpc, data, disk>>
  BY <1>1 DEF outcome
<1>2. cpc \in ClientReceiving => disk = "partial" /\ outcome = "open"
  BY DEF DInv, ClientInv, outcome
<1>3. ASSUME data' = data, cpc' \notin ClientReceiving,
             disk' = "saved" <=> disk = "saved"
      PROVE  [Transfer!Next]_<<data, outcome>>
  <2>1. CASE cpc \in ClientReceiving
    <3>1. outcome = "open" /\ outcome' = "failed"
      BY <1>2, <1>3, <2>1 DEF outcome
    <3> QED
      BY <1>3, <3>1 DEF Transfer!Next, Transfer!Fail
  <2>2. CASE cpc \notin ClientReceiving
    BY <1>3, <2>2 DEF outcome
  <2> QED
    BY <2>1, <2>2
<1>4. ASSUME NEW i \in Deliverable(s2c), StoreChunk(s2c[i]),
             \/ cpc = "filename" /\ IsFirstChunk(s2c[i])
             \/ cpc = "chunk" /\ IsExpected(s2c[i])
      PROVE  Transfer!Next
  <2>1. /\ s2c[i].data = Len(data) + 1 /\ Len(data) + 1 = sent
        /\ s2c[i].fin <=> sent = NChunks
    BY <1>4, TheChunk
  <2>2. /\ Len(data) \in Nat /\ sent \in 0 .. NChunks /\ NChunks \in Nat
        /\ cpc \in ClientReceiving
    BY <1>4, SawDownloadAssumption DEF DInv, TypeOK, ClientReceiving
  <2>3. data' = Append(data, Len(data) + 1) /\ outcome = "open"
    BY <1>2, <1>4, <2>1, <2>2 DEF StoreChunk
  <2>4. CASE s2c[i].fin
    <3>1. outcome' = "complete" /\ Len(data) + 1 = NChunks
      BY <1>4, <2>1, <2>4 DEF StoreChunk, outcome
    <3> QED
      BY <2>3, <3>1 DEF Transfer!Next, Transfer!AddLastChunk
  <2>5. CASE ~s2c[i].fin
    <3>1. outcome' = outcome
      BY <1>2, <1>4, <2>2, <2>3, <2>5 DEF StoreChunk, outcome, ClientReceiving
    <3>2. Len(data) + 1 < NChunks
      BY <2>1, <2>2, <2>5
    <3> QED
      BY <2>3, <3>1, <3>2 DEF Transfer!Next, Transfer!AddChunk
  <2> QED
    BY <2>4, <2>5
<1>5. ASSUME NEW i \in Deliverable(s2c), ClientReceives(i)
      PROVE  [Transfer!Next]_<<data, outcome>>
  <2>1. CASE ClientRelistens
    BY <1>1, <2>1 DEF ClientRelistens
  <2>2. CASE Abort
    BY <1>3, <2>2 DEF Abort, Finalize, ClientReceiving
  <2>3. CASE cpc' = "closed" /\ disk' = CleanedUp /\ UNCHANGED data
    BY <1>3, <2>3 DEF CleanedUp, ClientReceiving
  <2> QED
    BY <1>4, <1>5, <2>1, <2>2, <2>3
    DEF ClientReceives, ClientName_Answer, ClientChunk_Receives, ClientFinalizes_Answer
<1>6. CASE ClientGivesUp \/ ClientStops
  BY <1>3, <1>6 DEF ClientGivesUp, ClientStops, Abort, Finalize, CleanedUp,
                    ClientReceiving
<1>7. CASE UNCHANGED client
  BY <1>1, <1>7 DEF client
<1> QED
  BY <1>1, <1>5, <1>6, <1>7
  DEF Next, vars, ServerReceivesAt, ServerFilename_Receives, ServerChunk_Ack,
      ServerCloses_Answer, ServerRefuses_Answer, ClientRetransmits, ClientRelistens,
      ServerRetransmits, ServerGivesUp, Lose, Finished

\* A step of the download of an empty file: its end is all there is to it.
LEMMA EmptyTransferStep ==
    ASSUME NChunks = 0, EmptyInv, EmptyInv', [Next]_vars
    PROVE  [Transfer!Next]_<<data, outcome>>
<1>1. data' = data /\ (cpc \in ClientReceiving => disk = "partial")
  BY DEF EmptyInv
<1>2. ASSUME \/ outcome' = outcome
             \/ outcome = "open" /\ outcome' \in {"failed", "complete"}
      PROVE  [Transfer!Next]_<<data, outcome>>
  BY <1>1, <1>2 DEF Transfer!Next, Transfer!Fail, Transfer!CompleteEmpty
<1>3. ASSUME cpc \in ClientReceiving
      PROVE  [Transfer!Next]_<<data, outcome>>
  <2>1. outcome = "open" /\ outcome' \in {"open", "failed", "complete"}
    BY <1>1, <1>3 DEF outcome
  <2> QED
    BY <1>2, <2>1
<1>4. ASSUME cpc \notin ClientReceiving
      PROVE  [Transfer!Next]_<<data, outcome>>
  <2> DEFINE Over == cpc' \notin ClientReceiving /\ (disk' = "saved" <=> disk = "saved")
  <2>1. Over
    <3>1. ASSUME NEW i \in Deliverable(s2c), ClientReceives(i)
          PROVE  Over
      BY <1>4, <3>1 DEF ClientReceives, ClientName_Answer, ClientChunk_Receives,
          ClientFinalizes_Answer, ClientRelistens, CleanedUp, ClientReceiving
    <3>2. ClientRetransmits \/ ClientGivesUp \/ ClientStops => Over
      BY <1>4 DEF ClientRetransmits, ClientRelistens, ClientGivesUp, ClientStops,
                  CleanedUp, ClientReceiving
    <3>3. UNCHANGED client => Over
      BY <1>4 DEF client
    <3>4. Lose \/ UNCHANGED vars => UNCHANGED client
      BY DEF Lose, vars
    <3> QED
      BY <3>1, <3>2, <3>3, <3>4, StepOfOneEnd
  <2> QED
    BY <1>2, <1>4, <2>1 DEF outcome
<1> QED
  BY <1>3, <1>4

\* The client implements the abstract transfer: chunks one at a time and in
\* order, success with the last one only, and no way back from an end.
THEOREM TransferImplemented ==
    ASSUME "reordering" \notin NetFaults
    PROVE  Spec => ImplementsTransfer
<1>1. Init => Transfer!Init
  BY DEF Init, Transfer!Init, outcome, ClientReceiving
<1>2. CASE Ordinary
  <2>1. DInv /\ [Next]_vars => [Transfer!Next]_<<data, outcome>>
    BY <1>2, TransferStep
  <2> QED
    BY <1>1, <1>2, <2>1, Invariance, PTL DEF ImplementsTransfer, Spec, Transfer!Spec
<1>3. CASE NChunks = 0
  <2>1. EmptyInv /\ EmptyInv' /\ [Next]_vars => [Transfer!Next]_<<data, outcome>>
    BY <1>3, EmptyTransferStep
  <2> QED
    BY <1>1, <1>3, <2>1, EmptyStaysEmpty, PTL DEF ImplementsTransfer, Spec, Transfer!Spec
<1> QED
  BY <1>2, <1>3, OrdinaryOrEmpty
===============================================================================
