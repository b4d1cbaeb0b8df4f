--------------------------- MODULE SawUploadProofs ---------------------------
(***************************************************************************)
(* What holds of a Stop-and-Wait upload for every file, channel and limit, *)
(* on a path that loses and repeats packets but keeps their order.         *)
(***************************************************************************)
EXTENDS SawUploadInvariant, BitProofs

\* The other bit.
LEMMA Steps ==
    ASSUME NEW n \in {0, 1}
    PROVE  Step(n) \in {0, 1} /\ Step(n) # n /\ Step(Step(n)) = n
BY DEF Step

\* The packet of an active client is its phase's.
LEMMA LastSent ==
    ASSUME Ordinary, SentInv, Active
    PROVE  /\ ~clast.ack /\ clast.seq = cseq
           /\ clast.fin => clast.data # 0 /\ cpc = "closing"
           /\ cpc = "closing" => clast.fin
           /\ cpc \in {"chunk", "closing"} => clast.data = sent
           /\ cpc \in {"filename", "filesize", "chunk", "closing"}
<1>1. CASE cpc \in {"filename", "filesize"}
  <2>1. \E d : clast = DataPkt(cseq, 0, d, FALSE)
    BY <1>1 DEF SentInv
  <2>2. ~clast.ack /\ clast.seq = cseq /\ ~clast.fin
    BY <2>1 DEF DataPkt
  <2> QED
    BY <1>1, <2>2
<1>2. CASE cpc \in {"chunk", "closing"}
  <2>1. sent > 0 /\ (cpc = "closing" <=> sent = NChunks)
        /\ clast = DataPkt(cseq, 0, sent, sent = NChunks)
    BY <1>2 DEF SentInv
  <2>2. ~clast.ack /\ clast.seq = cseq /\ clast.data = sent /\ (clast.fin <=> sent = NChunks)
    BY <2>1, Zenon DEF DataPkt
  <2> QED
    BY <1>2, <2>1, <2>2
<1> QED
  BY <1>1, <1>2 DEF Active

-----------------------------------------------------------------------------
(* The steps of the client                                                 *)

\* A client that sends its packet again, or nothing.
LEMMA ClientRepeats ==
    ASSUME Ordinary, SInv, UNCHANGED <<client, server>>,
           \/ c2s' = c2s
           \/ c2s' = Send(c2s, clast) /\ (Active \/ cpc = "finalizing"),
           Drains(s2c, s2c')
    PROVE  SInv'
<1>1. /\ UNCHANGED <<cpc, cseq, sent, clast, spc, sseq, size, data, disk, slast>>
      /\ TypeOK /\ BitInv /\ SentInv /\ PhaseInv /\ ChannelInv /\ GoneInv /\ SavedInv
  BY DEF SInv, client, server
<1>2. /\ c2s' \in Seq(BitPacket) /\ s2c' \in Seq(BitPacket)
      /\ Range(c2s') \subseteq Range(c2s) \cup {clast}
      /\ Range(s2c') \subseteq Range(s2c)
  <2>1. c2s \in Seq(BitPacket) /\ clast \in BitPacket
    BY <1>1 DEF BitInv
  <2>2. /\ Send(c2s, clast) \in Seq(BitPacket)
        /\ Range(Send(c2s, clast)) \subseteq Range(c2s) \cup {clast}
    BY <2>1, SendContents
  <2>3. c2s' = c2s \/ c2s' = Send(c2s, clast)
    OBVIOUS
  <2> QED
    BY <2>1, <2>2, <2>3 DEF Drains
<1>3. BitInv'
  BY <1>1, <1>2 DEF BitInv
<1>4. TypeOK'
  BY <1>1, <1>2, BitChannel DEF TypeOK
<1>5. SentInv' /\ PhaseInv' /\ SavedInv' /\ ReceivedIsPrefix'
  BY <1>1 DEF SInv, SentInv, PhaseInv, SavedInv, ReceivedIsPrefix, Active, Got,
              Refused, ClientGaveUp
<1>6. ChannelInv'
  <2> SUFFICES ASSUME Active
               PROVE  ChannelInv'
    BY <1>1 DEF ChannelInv, Active
  <2>1. /\ ~clast.ack /\ (clast.fin => clast.data # 0 /\ cpc = "closing")
        /\ clast.seq = cseq
    BY <1>1, LastSent
  <2>2. \A p \in Range(c2s') : ~p.ack /\ (p.fin => p.data # 0 /\ cpc = "closing")
    BY <1>1, <1>2, <2>1 DEF ChannelInv
  <2>3. ASSUME ~Got
        PROVE  /\ Follows(c2s', {clast})
               /\ \A p \in Range(c2s') : p.seq = cseq => p = clast
               /\ \A p \in ToClient' : p.seq # cseq
    <3>1. Follows(c2s', {clast})
      BY <1>1, <2>3, FollowsSend DEF ChannelInv, BitInv
    <3>2. \A p \in Range(c2s') : p.seq = cseq => p = clast
      BY <1>1, <1>2, <2>3 DEF ChannelInv
    <3>3. \A p \in ToClient' : p.seq # cseq
      BY <1>1, <1>2, <2>3 DEF ChannelInv, ToClient
    <3> QED
      BY <3>1, <3>2, <3>3
  <2>4. ASSUME Got
        PROVE  Range(c2s') \subseteq {clast} /\ Follows(s2c', Numbered(cseq))
               /\ slast.seq = cseq
    BY <1>1, <1>2, <2>4 DEF ChannelInv, Drains
  <2> QED
    BY <1>1, <2>2, <2>3, <2>4 DEF ChannelInv, Got, Refused
<1>7. GoneInv'
  <2> SUFFICES ASSUME Gone, Open
               PROVE  GoneInv'
    BY <1>1 DEF GoneInv, Gone, Open
  <2>1. CASE c2s' = c2s
    BY <1>1, <2>1 DEF GoneInv, Gone, Open, ClientGaveUp
  <2>2. CASE c2s' = Send(c2s, clast) /\ cpc = "finalizing"
    <3>1. clast \in Leaving /\ ClientGaveUp
      BY <1>1, <2>2 DEF SentInv
    <3>2. Follows(c2s', Leaving) /\ Follows(c2s', Leaving \cup Numbered(sseq))
      BY <1>1, <2>2, <3>1, FollowsSend DEF GoneInv, BitInv
    <3>3. Range(c2s') \ Leaving \subseteq Range(c2s) \ Leaving
      BY <1>2, <3>1
    <3> QED
      BY <1>1, <3>1, <3>2, <3>3 DEF GoneInv, ClientGaveUp
  <2> QED
    BY <2>1, <2>2 DEF Gone, Active
<1> QED
  BY <1>3, <1>4, <1>5, <1>6, <1>7 DEF SInv

\* A client that goes, with the two packets of its finalization or none.
LEMMA ClientLeaves ==
    ASSUME Ordinary, SInv, Active, UNCHANGED <<server, sent, cseq>>,
           \/ /\ cpc' \in {"closed", "stopped"} /\ UNCHANGED <<clast, c2s>>
           \/ /\ cpc' = "finalizing" /\ clast' = FinPkt(Step(cseq), 0)
              /\ c2s' = Send(Send(c2s, AckPkt(Step(cseq), 0)), clast'),
           Drains(s2c, s2c')
    PROVE  SInv'
<1>1. /\ UNCHANGED <<cseq, sent, spc, sseq, size, data, disk, slast>>
      /\ TypeOK /\ BitInv /\ SentInv /\ PhaseInv /\ ChannelInv /\ SavedInv
      /\ cseq \in {0, 1}
  BY DEF SInv, server, TypeOK
<1>2. ~Active' /\ Gone' /\ cpc' \in {"finalizing", "closed", "stopped"}
  BY DEF Active, Gone
<1>3. Step(cseq) \in {0, 1} /\ c2s \in Seq(BitPacket) /\ clast \in BitPacket
  BY <1>1, Steps DEF BitInv
<1> DEFINE a == AckPkt(Step(cseq), 0)
           f == FinPkt(Step(cseq), 0)
<1>4. a \in BitPacket /\ f \in BitPacket /\ a \in Leaving /\ f \in Leaving
      /\ f.fin /\ f.data = 0
  <2>1. a \in BitPacket /\ f \in BitPacket
    BY <1>3, Composed
  <2>2. /\ a.data = 0 /\ a.ack /\ f.data = 0 /\ f.fin
    BY DEF AckPkt, FinPkt
  <2> QED
    BY <2>1, <2>2 DEF BitPacket, Leaving
<1> HIDE DEF a, f
<1>5. \/ UNCHANGED <<clast, c2s>> /\ cpc' # "finalizing"
      \/ /\ clast' = f /\ c2s' = Send(Send(c2s, a), f)
  BY DEF a, f
<1>6. /\ c2s' \in Seq(BitPacket) /\ clast' \in BitPacket
      /\ Range(c2s') \subseteq Range(c2s) \cup {a, f}
  <2>1. Send(c2s, a) \in Seq(BitPacket) /\ Range(Send(c2s, a)) \subseteq Range(c2s) \cup {a}
    BY <1>3, <1>4, SendContents
  <2>2. /\ Send(Send(c2s, a), f) \in Seq(BitPacket)
        /\ Range(Send(Send(c2s, a), f)) \subseteq Range(Send(c2s, a)) \cup {f}
    BY <1>4, <2>1, SendContents
  <2> QED
    BY <1>3, <1>4, <1>5, <2>1, <2>2
<1>7. BitInv' /\ TypeOK'
  <2>1. s2c' \in Seq(BitPacket)
    BY DEF Drains
  <2>2. c2s' \in Seq(Packet) /\ s2c' \in Seq(Packet) /\ clast' \in Packet
    BY <1>6, <2>1, BitChannel DEF BitPacket
  <2> QED
    BY <1>1, <1>2, <1>6, <2>1, <2>2 DEF TypeOK, BitInv, ClientWaits, ClientEnds
<1>8. SentInv'
  BY <1>2, <1>4, <1>5 DEF SentInv, ClientGaveUp
<1>9. PhaseInv' /\ ChannelInv' /\ SavedInv' /\ ReceivedIsPrefix'
  BY <1>1, <1>2 DEF SInv, PhaseInv, ChannelInv, SavedInv, ReceivedIsPrefix
<1>10. GoneInv'
  <2> SUFFICES ASSUME Open
               PROVE  GoneInv'
    BY <1>1 DEF GoneInv, Open
  <2>1. /\ Range(c2s) \cap Leaving = {}
        /\ \A p \in Range(c2s) : p.seq = sseq => Follows(c2s, {p}) /\ p = clast
        /\ \A p, q \in Range(c2s) : p.seq = sseq /\ q.seq = sseq => p = q
        /\ Follows(c2s, Leaving)
    <3>1. Range(c2s) \cap Leaving = {}
      BY <1>1 DEF ChannelInv, Leaving
    <3>2. ~Refused
      BY DEF Open, Refused
    <3>3. \A p \in Range(c2s) : p.seq = sseq => Follows(c2s, {p}) /\ p = clast
      <4>1. CASE Got
        <5>1. clast.seq = cseq /\ sseq # cseq
          BY <1>1, <4>1, LastSent DEF Got
        <5> QED
          BY <1>1, <4>1, <5>1 DEF ChannelInv
      <4>2. CASE ~Got
        <5>1. sseq = cseq
          BY <3>2, <4>2 DEF Got
        <5> QED
          BY <1>1, <4>2, <5>1 DEF ChannelInv
      <4> QED
        BY <4>1, <4>2
    <3> QED
      BY <3>1, <3>3, FollowsTrivially
  <2>2. Follows(c2s, Leaving \cup Numbered(sseq))
    <3> SUFFICES ASSUME NEW i \in DOMAIN c2s, NEW j \in DOMAIN c2s, i < j,
                        c2s[i] \in Leaving \cup Numbered(sseq)
                 PROVE  c2s[j] \in Leaving \cup Numbered(sseq)
      BY DEF Follows
    <3>1. c2s[i] \in Range(c2s) /\ c2s[i] \notin Leaving
      BY <2>1 DEF Range
    <3>2. c2s[i] \in Numbered(sseq) /\ Follows(c2s, {c2s[i]})
      BY <2>1, <3>1 DEF Numbered
    <3> QED
      BY <3>2 DEF Follows
  <2>3. spc = "chunk" =>
            \A p \in Range(c2s) \ Leaving :
                p.seq = sseq => /\ p.data = Len(data) + 1 /\ p.data <= NChunks
                                /\ p.fin <=> p.data = NChunks
    <3> SUFFICES ASSUME spc = "chunk", NEW p \in Range(c2s), p.seq = sseq
                 PROVE  /\ p.data = Len(data) + 1 /\ p.data <= NChunks
                        /\ p.fin <=> p.data = NChunks
      OBVIOUS
    <3>1. p = clast /\ clast.seq = cseq /\ ~Got /\ ~Refused
      BY <1>1, <2>1, LastSent DEF Got, Refused
    <3>2. cpc \in {"chunk", "closing"}
      BY <1>1, <3>1, LastSent DEF PhaseInv
    <3>3. /\ clast.data = sent /\ Len(data) = sent - 1 /\ sent \in 0 .. NChunks
          /\ cpc = "closing" <=> sent = NChunks
          /\ clast.fin <=> cpc = "closing"
      BY <1>1, <3>1, <3>2, LastSent DEF PhaseInv, SentInv, TypeOK
    <3>4. NChunks \in Nat
      BY SawUploadAssumption
    <3> QED
      BY <3>1, <3>3, <3>4
  <2>4. CASE UNCHANGED <<clast, c2s>>
    BY <1>1, <2>1, <2>2, <2>3, <2>4 DEF GoneInv
  <2>5. CASE clast' = f /\ c2s' = Send(Send(c2s, a), f)
    <3>1. Send(c2s, a) \in Seq(BitPacket)
      BY <1>3, <1>4, SendContents
    <3>2. Follows(Send(c2s, a), Leaving)
      BY <1>3, <1>4, <2>1, FollowsSend
    <3>3. Follows(Send(c2s, a), Leaving \cup Numbered(sseq))
      BY <1>3, <1>4, <2>2, FollowsSend
    <3>4. Follows(c2s', Leaving) /\ Follows(c2s', Leaving \cup Numbered(sseq))
      BY <1>4, <2>5, <3>1, <3>2, <3>3, FollowsSend
    <3>5. Range(c2s') \ Leaving \subseteq Range(c2s) \ Leaving
      BY <1>4, <1>6
    <3>6. ClientGaveUp'
      BY <1>4, <2>5 DEF ClientGaveUp
    <3> QED
      BY <1>1, <2>3, <3>4, <3>5, <3>6 DEF GoneInv
  <2> QED
    BY <1>5, <2>4, <2>5
<1> QED
  BY <1>7, <1>8, <1>9, <1>10 DEF SInv

\* A client whose packet was confirmed sends the next one.
LEMMA ClientAdvances ==
    ASSUME Ordinary, SInv, Active, UNCHANGED server,
           NEW i \in Deliverable(s2c), s2c' \in AfterReceipt(s2c, i),
           s2c[i].seq = cseq, cseq' = Step(cseq), c2s' = Send(c2s, clast'),
           \/ /\ cpc = "filename" /\ cpc' = "filesize" /\ sent' = sent
              /\ clast' = DataPkt(cseq', 0, NChunks, FALSE)
           \/ /\ cpc \in {"filesize", "chunk"} /\ sent' = sent + 1
              /\ clast' = DataPkt(cseq', 0, sent', sent' = NChunks)
              /\ cpc' = IF sent' = NChunks THEN "closing" ELSE "chunk"
    PROVE  SInv'
<1>1. /\ UNCHANGED <<spc, sseq, size, data, disk, slast>>
      /\ TypeOK /\ BitInv /\ SentInv /\ PhaseInv /\ ChannelInv /\ SavedInv
      /\ cseq \in {0, 1} /\ sseq \in {0, 1} /\ sent \in 0 .. NChunks
      /\ NChunks \in Nat /\ NChunks > 0
  BY SawUploadAssumption DEF SInv, server, TypeOK, Ordinary
<1>2. cseq' \in {0, 1} /\ cseq' # cseq
  BY <1>1, Steps
<1>3. /\ s2c' \in Seq(BitPacket) /\ Range(s2c') \subseteq Range(s2c)
      /\ s2c[i] \in Range(s2c) /\ s2c[i] \in BitPacket
  BY <1>1, ReceiptContents DEF BitInv
<1>4. Got /\ ~Refused /\ sseq = cseq'
  <2>1. s2c[i] \in ToClient
    BY <1>3 DEF ToClient
  <2>2. Got
    BY <1>1, <2>1 DEF ChannelInv
  <2> QED
    BY <1>1, <1>2, <2>2 DEF Got
<1>5. ~Got' /\ ~Refused'
  BY <1>1, <1>4 DEF Got, Refused
<1>6. /\ Range(c2s) \subseteq {clast} /\ clast.seq = cseq
      /\ Range(s2c) \subseteq Numbered(cseq) /\ slast.seq = cseq
  <2>1. Range(c2s) \subseteq {clast} /\ Follows(s2c, Numbered(cseq)) /\ slast.seq = cseq
    BY <1>1, <1>4 DEF ChannelInv
  <2>2. s2c[i] \in Numbered(cseq)
    BY <1>3 DEF Numbered, BitPacket
  <2> QED
    BY <1>1, <2>1, <2>2, LastSent, FollowsHead DEF BitInv, Ordinary
<1>7. /\ sent' \in 0 .. NChunks
      /\ cpc = "filename" => data = <<>>
      /\ cpc' \in {"chunk", "closing"} =>
             /\ sent' > 0 /\ (cpc' = "closing" <=> sent' = NChunks)
             /\ Len(data) = sent' - 1 /\ spc \in {"chunk", "failed"}
             /\ clast' = DataPkt(cseq', 0, sent', sent' = NChunks)
      /\ cpc' = "filesize" =>
             /\ sent' = 0 /\ data = <<>> /\ spc \in {"filesize", "failed"}
             /\ clast' = DataPkt(cseq', 0, NChunks, FALSE)
      /\ cpc' \in {"filesize", "chunk", "closing"}
  <2>1. CASE cpc = "filename"
    BY <1>1, <1>4, <2>1 DEF SentInv, PhaseInv, ClientInforms
  <2>2. CASE cpc = "filesize"
    <3>1. sent = 0 /\ data = <<>> /\ spc \in {"chunk", "failed"}
      BY <1>1, <1>4, <2>2 DEF SentInv, PhaseInv, ClientInforms
    <3> QED
      BY <1>1, <2>2, <3>1
  <2>3. CASE cpc = "chunk"
    <3>1. sent > 0 /\ sent # NChunks /\ Len(data) = sent /\ spc \in {"chunk", "failed"}
      BY <1>1, <1>4, <2>3 DEF SentInv, PhaseInv
    <3>2. /\ sent' = sent + 1
          /\ cpc' = IF sent' = NChunks THEN "closing" ELSE "chunk"
      BY <2>3
    <3>3. clast' = DataPkt(cseq', 0, sent', sent' = NChunks)
      BY <2>3, Zenon
    <3>4. sent' \in 0 .. NChunks /\ sent' > 0 /\ Len(data) = sent' - 1
      BY <1>1, <3>1, <3>2
    <3>5. (cpc' = "closing" <=> sent' = NChunks) /\ cpc' \in {"chunk", "closing"}
      BY <3>2
    <3>6. cpc # "filename" /\ cpc' # "filesize"
      BY <2>3, <3>5
    <3> QED
      BY <3>1, <3>3, <3>4, <3>5, <3>6, Zenon
  <2> QED
    BY <2>1, <2>2, <2>3
<1>8. Active' /\ ~Gone' /\ cpc' # "completed" /\ cpc' # "finalizing" /\ cpc' # "filename"
  BY <1>7 DEF Active, Gone
<1>9. /\ clast' \in BitPacket /\ ~clast'.ack /\ clast'.seq = cseq'
      /\ clast'.fin => clast'.data # 0 /\ cpc' = "closing"
  <2>1. PICK d \in Nat, last \in BOOLEAN :
            clast' = DataPkt(cseq', 0, d, last) /\ (last => d # 0 /\ cpc' = "closing")
    <3>1. CASE cpc' = "filesize"
      <4>1. clast' = DataPkt(cseq', 0, NChunks, FALSE) /\ NChunks \in Nat
        BY <1>1, <1>7, <3>1, Zenon
      <4> QED
        BY <4>1, Zenon
    <3>2. CASE cpc' \in {"chunk", "closing"}
      <4>1. sent' \in Nat /\ sent' # 0
        <5>1. sent' \in 0 .. NChunks /\ sent' > 0
          BY <1>7, <3>2, Zenon
        <5> QED
          BY <1>1, <5>1
      <4>2. clast' = DataPkt(cseq', 0, sent', sent' = NChunks)
        BY <1>7, <3>2
      <4>3. sent' = NChunks => cpc' = "closing"
        BY <1>7, <3>2
      <4>4. (sent' = NChunks) \in BOOLEAN
        OBVIOUS
      <4> QED
        BY <4>1, <4>2, <4>3, <4>4, Zenon
    <3> QED
      BY <1>7, <3>1, <3>2
  <2>2. clast' \in BitPacket
    BY <1>2, <2>1, Composed
  <2> QED
    BY <2>1, <2>2 DEF DataPkt
<1>10. c2s' \in Seq(BitPacket) /\ Range(c2s') \subseteq {clast, clast'}
  <2>1. /\ Send(c2s, clast') \in Seq(BitPacket)
        /\ Range(Send(c2s, clast')) \subseteq Range(c2s) \cup {clast'}
    BY <1>1, <1>9, SendContents DEF BitInv
  <2> QED
    BY <1>6, <2>1
<1>11. BitInv' /\ TypeOK'
  <2>1. c2s' \in Seq(Packet) /\ s2c' \in Seq(Packet) /\ clast' \in Packet
    BY <1>3, <1>9, <1>10, BitChannel DEF BitPacket
  <2> QED
    BY <1>1, <1>2, <1>3, <1>7, <1>9, <1>10, <2>1 DEF TypeOK, BitInv, ClientWaits
<1>12. SentInv'
  BY <1>7, <1>8 DEF SentInv
<1>13. PhaseInv'
  BY <1>1, <1>5, <1>7, <1>8 DEF PhaseInv, ClientInforms
<1>14. ChannelInv'
  <2>1. Follows(c2s', {clast'})
    <3>1. clast' \in {clast'} /\ Range(c2s) \cap {clast'} = {}
      BY <1>2, <1>6, <1>9
    <3>2. Follows(c2s, {clast'})
      BY <3>1, FollowsTrivially
    <3> QED
      BY <1>1, <1>9, <3>1, <3>2, FollowsSend DEF BitInv
  <2>2. \A p \in Range(c2s') : ~p.ack /\ (p.fin => p.data # 0 /\ cpc' = "closing")
    <3>1. ~clast.ack /\ ~clast.fin
      BY <1>1, LastSent
    <3> QED
      BY <1>9, <1>10, <3>1
  <2>3. \A p \in Range(c2s') : p.seq = cseq' => p = clast'
    BY <1>2, <1>6, <1>10
  <2>4. \A p \in ToClient' : p.seq # cseq'
    BY <1>1, <1>2, <1>3, <1>6 DEF ToClient, Numbered
  <2> QED
    BY <1>5, <2>1, <2>2, <2>3, <2>4 DEF ChannelInv
<1>15. GoneInv' /\ SavedInv' /\ ReceivedIsPrefix'
  BY <1>1, <1>8 DEF SInv, GoneInv, SavedInv, ReceivedIsPrefix
<1> QED
  BY <1>11, <1>12, <1>13, <1>14, <1>15 DEF SInv

\* The client has the last chunk confirmed and completes.
LEMMA ClientCompletes ==
    ASSUME Ordinary, SInv, cpc = "closing", UNCHANGED <<server, sent>>,
           NEW i \in Deliverable(s2c), s2c' \in AfterReceipt(s2c, i),
           s2c[i].seq = cseq, cpc' = "completed", cseq' = Step(cseq),
           clast' = AckPkt(cseq', 0), c2s' = Send(c2s, clast')
    PROVE  SInv'
<1>1. /\ UNCHANGED <<spc, sseq, size, data, disk, slast>>
      /\ TypeOK /\ BitInv /\ SentInv /\ PhaseInv /\ ChannelInv /\ SavedInv
      /\ cseq \in {0, 1} /\ Active
  BY DEF SInv, server, TypeOK, Active
<1>2. cseq' \in {0, 1} /\ clast' \in BitPacket
  BY <1>1, Steps, Composed
<1>3. /\ s2c' \in Seq(BitPacket) /\ s2c[i] \in Range(s2c)
      /\ Send(c2s, clast') \in Seq(BitPacket)
  BY <1>1, <1>2, ReceiptContents, SendContents DEF BitInv
<1>4. Got
  BY <1>1, <1>3 DEF ChannelInv, ToClient
<1>5. spc \in {"closing", "done"} /\ Len(data) = sent /\ sent = NChunks
  BY <1>1, <1>4 DEF PhaseInv, SentInv
<1>6. BitInv' /\ TypeOK'
  <2>1. c2s' \in Seq(Packet) /\ s2c' \in Seq(Packet) /\ clast' \in Packet
    BY <1>2, <1>3, BitChannel DEF BitPacket
  <2> QED
    BY <1>1, <1>2, <1>3, <2>1 DEF TypeOK, BitInv, ClientEnds
<1>7. ~Active' /\ ~Gone'
  BY DEF Active, Gone
<1>8. /\ SentInv' /\ PhaseInv' /\ ChannelInv' /\ GoneInv' /\ SavedInv'
      /\ ReceivedIsPrefix'
  BY <1>1, <1>5, <1>7 DEF SInv, SentInv, PhaseInv, ChannelInv, GoneInv, SavedInv,
                          ReceivedIsPrefix
<1> QED
  BY <1>6, <1>8 DEF SInv

\* The client's finalization ends: nothing is sent.
LEMMA ClientEndsFinalization ==
    ASSUME Ordinary, SInv, cpc = "finalizing", cpc' \in {"closed", "stopped"},
           UNCHANGED <<server, sent, cseq, clast, c2s>>, Drains(s2c, s2c')
    PROVE  SInv'
<1>1. /\ UNCHANGED <<spc, sseq, size, data, disk, slast>>
      /\ TypeOK /\ BitInv /\ SentInv /\ PhaseInv /\ ChannelInv /\ GoneInv /\ SavedInv
  BY DEF SInv, server
<1>2. ~Active' /\ Gone'
  BY DEF Active, Gone
<1>3. s2c' \in Seq(BitPacket) /\ s2c' \in Seq(Packet)
  BY BitChannel DEF Drains
<1>4. BitInv' /\ TypeOK'
  BY <1>1, <1>3 DEF TypeOK, BitInv, ClientEnds
<1>5. /\ SentInv' /\ PhaseInv' /\ ChannelInv' /\ SavedInv'
      /\ ReceivedIsPrefix'
  BY <1>1, <1>2 DEF SInv, SentInv, PhaseInv, ChannelInv, SavedInv,
                    ReceivedIsPrefix
<1>6. GoneInv'
  BY <1>1 DEF GoneInv, Gone, Open, ClientGaveUp
<1> QED
  BY <1>4, <1>5, <1>6 DEF SInv

\* What the client does with a packet.
LEMMA ClientReceipt ==
    ASSUME Ordinary, SInv, NEW i \in Deliverable(s2c), ClientReceives(i)
    PROVE  SInv'
<1>1. /\ SentInv /\ cseq \in {0, 1} /\ sent \in 0 .. NChunks /\ s2c \in Seq(BitPacket)
      /\ NChunks \in Nat /\ NChunks > 0
  BY SawUploadAssumption DEF SInv, TypeOK, BitInv, Ordinary
<1>2. s2c' \in AfterReceipt(s2c, i) /\ UNCHANGED server
  BY DEF ClientReceives, ClientInforms_Answer, ClientChunk_Ack, ClientCloses_Answer,
         ClientFinalizes_Answer
<1>3. Drains(s2c, s2c')
  BY <1>1, <1>2, ReceiptDrains
<1>4. Step(Step(cseq)) = cseq
  BY <1>1, Steps
<1>5. ASSUME ClientRelistens, Active \/ cpc = "finalizing"
      PROVE  SInv'
  <2>1. UNCHANGED client /\ c2s' = Send(c2s, clast)
    BY <1>5 DEF ClientRelistens, client
  <2> QED
    BY <1>2, <1>3, <1>5, <2>1, ClientRepeats
<1>6. ASSUME Finalize(Step(cseq)), Active
      PROVE  SInv'
  BY <1>2, <1>3, <1>4, <1>6, ClientLeaves DEF Finalize
<1>7. ASSUME SendChunk, Confirms(s2c[i]), cpc \in {"filesize", "chunk"}
      PROVE  SInv'
  <2>1. Active /\ s2c[i].seq = cseq
    BY <1>7 DEF Active, Confirms
  <2>2. /\ sent' = sent + 1 /\ cseq' = Step(cseq) /\ c2s' = Send(c2s, clast')
        /\ cpc' = IF sent' = NChunks THEN "closing" ELSE "chunk"
    BY <1>7 DEF SendChunk
  <2>3. clast' = DataPkt(cseq', 0, sent', sent' = NChunks)
    BY <1>7, Zenon DEF SendChunk
  <2> QED
    BY <1>2, <1>7, <2>1, <2>2, <2>3, ClientAdvances, Zenon
<1>8. CASE ClientInforms_Answer(i)
  <2>1. Active /\ cpc \in {"filename", "filesize"}
    BY <1>8 DEF ClientInforms_Answer, ClientInforms, Active
  <2>2. CASE Finalize(Step(cseq))
    BY <1>6, <2>1, <2>2
  <2>3. CASE ClientRelistens
    BY <1>5, <2>1, <2>3
  <2>4. CASE /\ Confirms(s2c[i]) /\ cpc = "filename"
             /\ cpc' = "filesize" /\ cseq' = FilesizeSeq /\ sent' = sent
             /\ clast' = DataPkt(FilesizeSeq, 0, NChunks, FALSE)
             /\ c2s' = Send(c2s, clast')
    <3>1. cseq' = Step(cseq) /\ s2c[i].seq = cseq
      BY <1>1, <2>4 DEF SentInv, Step, FilesizeSeq, FilenameSeq, Confirms
    <3>2. clast' = DataPkt(cseq', 0, NChunks, FALSE)
      BY <2>4
    <3> QED
      BY <1>2, <2>1, <2>4, <3>1, <3>2, ClientAdvances
  <2>5. CASE Confirms(s2c[i]) /\ cpc = "filesize" /\ SendChunk
    BY <1>7, <2>5
  <2> QED
    BY <1>1, <1>8, <2>2, <2>3, <2>4, <2>5 DEF ClientInforms_Answer
<1>9. CASE ClientChunk_Ack(i)
  BY <1>5, <1>7, <1>9 DEF ClientChunk_Ack, Active
<1>10. CASE ClientCloses_Answer(i)
  <2>1. cpc = "closing" /\ Active
    BY <1>10 DEF ClientCloses_Answer, Active
  <2>2. CASE ClientRelistens
    BY <1>5, <2>1, <2>2
  <2>3. CASE /\ Closes(s2c[i])
             /\ cpc' = "completed" /\ cseq' = Step(cseq)
             /\ clast' = AckPkt(cseq', 0)
             /\ c2s' = Send(c2s, clast')
             /\ sent' = sent
    BY <1>2, <2>1, <2>3, ClientCompletes DEF Closes
  <2> QED
    BY <1>10, <2>2, <2>3 DEF ClientCloses_Answer
<1>11. CASE ClientFinalizes_Answer(i)
  BY <1>2, <1>3, <1>5, <1>11, ClientEndsFinalization DEF ClientFinalizes_Answer
<1> QED
  BY <1>8, <1>9, <1>10, <1>11 DEF ClientReceives

\* What it does by itself.
LEMMA ClientAlone ==
    ASSUME Ordinary, SInv, ClientRetransmits \/ ClientGivesUp \/ ClientStops
    PROVE  SInv'
<1>1. /\ UNCHANGED server /\ s2c' = s2c
  BY DEF ClientRetransmits, ClientGivesUp, ClientStops, server
<1>2. Drains(s2c, s2c') /\ Step(Step(cseq)) = cseq
  BY <1>1, KeptDrains, Steps DEF SInv, BitInv, TypeOK
<1>3. CASE ClientRetransmits
  <2>1. (Active \/ cpc = "finalizing") /\ UNCHANGED client /\ c2s' = Send(c2s, clast)
    BY <1>3 DEF ClientRetransmits, ClientRelistens, ClientWaits, Active, client
  <2> QED
    BY <1>1, <1>2, <2>1, ClientRepeats
<1>4. CASE /\ cpc \in ClientWaits /\ cpc' \in {"closed", "stopped"}
           /\ UNCHANGED <<cseq, sent, clast, c2s>>
  <2>1. CASE Active
    BY <1>1, <1>2, <1>4, <2>1, ClientLeaves
  <2>2. CASE cpc = "finalizing"
    BY <1>1, <1>2, <1>4, <2>2, ClientEndsFinalization
  <2> QED
    BY <1>4, <2>1, <2>2 DEF ClientWaits, Active
<1>5. CASE ClientGivesUp
  <2>1. CASE cpc # "finalizing" /\ Finalize(Step(cseq))
    <3>1. Active
      BY <1>5, <2>1 DEF ClientGivesUp, ClientWaits, Active
    <3> QED
      BY <1>1, <1>2, <2>1, <3>1, ClientLeaves DEF Finalize
  <2> QED
    BY <1>4, <1>5, <2>1 DEF ClientGivesUp
<1>6. CASE ClientStops
  <2>1. cpc \in ClientWaits
    BY <1>6 DEF ClientStops, SInv, TypeOK
  <2> QED
    BY <1>4, <1>6, <2>1 DEF ClientStops
<1> QED
  BY <1>3, <1>5, <1>6

-----------------------------------------------------------------------------
(* The steps of the server                                                 *)

\* A server that sends its packet again, or nothing.
LEMMA ServerRepeats ==
    ASSUME Ordinary, SInv, UNCHANGED <<client, server>>,
           s2c' = s2c \/ s2c' = Send(s2c, slast), Drains(c2s, c2s')
    PROVE  SInv'
<1>1. /\ UNCHANGED <<cpc, cseq, sent, clast, spc, sseq, size, data, disk, slast>>
      /\ TypeOK /\ BitInv /\ SentInv /\ PhaseInv /\ ChannelInv /\ GoneInv /\ SavedInv
  BY DEF SInv, client, server
<1>2. /\ c2s' \in Seq(BitPacket) /\ s2c' \in Seq(BitPacket)
      /\ Range(c2s') \subseteq Range(c2s)
      /\ Range(s2c') \subseteq Range(s2c) \cup {slast}
  <2>1. s2c \in Seq(BitPacket) /\ slast \in BitPacket
    BY <1>1 DEF BitInv
  <2>2. /\ Send(s2c, slast) \in Seq(BitPacket)
        /\ Range(Send(s2c, slast)) \subseteq Range(s2c) \cup {slast}
    BY <2>1, SendContents
  <2> QED
    BY <2>1, <2>2 DEF Drains
<1>3. BitInv' /\ TypeOK'
  BY <1>1, <1>2, BitChannel DEF BitInv, TypeOK
<1>4. SentInv' /\ PhaseInv' /\ SavedInv' /\ ReceivedIsPrefix'
  BY <1>1 DEF SInv, SentInv, PhaseInv, SavedInv, ReceivedIsPrefix, Active, Got,
              Refused, ClientGaveUp
<1>5. ChannelInv'
  <2> SUFFICES ASSUME Active
               PROVE  ChannelInv'
    BY <1>1 DEF ChannelInv, Active
  <2>1. ASSUME ~Got
        PROVE  /\ Follows(c2s', {clast})
               /\ \A p \in Range(c2s') : p.seq = cseq => p = clast
               /\ \A p \in ToClient' : p.seq # cseq
    BY <1>1, <1>2, <2>1 DEF ChannelInv, ToClient, Drains
  <2>2. ASSUME Got
        PROVE  Range(c2s') \subseteq {clast} /\ Follows(s2c', Numbered(cseq))
               /\ slast.seq = cseq
    <3>1. /\ Range(c2s) \subseteq {clast} /\ Follows(s2c, Numbered(cseq))
          /\ slast.seq = cseq /\ slast \in Numbered(cseq)
      BY <1>1, <2>2 DEF ChannelInv, Numbered, BitInv, BitPacket
    <3>2. Follows(Send(s2c, slast), Numbered(cseq))
      BY <1>1, <3>1, FollowsSend DEF BitInv
    <3> QED
      BY <1>2, <3>1, <3>2
  <2> QED
    BY <1>1, <1>2, <2>1, <2>2 DEF ChannelInv, Got, Refused
<1>6. GoneInv'
  <2> SUFFICES ASSUME Gone, Open
               PROVE  GoneInv'
    BY <1>1 DEF GoneInv, Gone, Open
  <2>1. Follows(c2s', Leaving) /\ Follows(c2s', Leaving \cup Numbered(sseq))
    BY <1>1 DEF GoneInv, Drains
  <2>2. Range(c2s') \ Leaving \subseteq Range(c2s) \ Leaving
        /\ (Range(c2s) \cap Leaving = {} => Range(c2s') \cap Leaving = {})
    BY <1>2
  <2> QED
    BY <1>1, <2>1, <2>2 DEF GoneInv, ClientGaveUp
<1> QED
  BY <1>3, <1>4, <1>5, <1>6 DEF SInv

\* A server that ends, without another packet.
LEMMA ServerEndsQuietly ==
    ASSUME Ordinary, SInv, UNCHANGED <<client, sseq, size, data, slast, s2c>>,
           \/ Open /\ spc' = "failed" /\ disk' \in {"absent", disk}
           \/ spc = "closing" /\ spc' = "done" /\ disk' = disk
           \/ spc = "rejecting" /\ spc' = "rejected" /\ disk' = disk,
           Drains(c2s, c2s')
    PROVE  SInv'
<1>1. /\ UNCHANGED <<cpc, cseq, sent, clast>>
      /\ TypeOK /\ BitInv /\ SentInv /\ PhaseInv /\ ChannelInv /\ GoneInv /\ SavedInv
  BY DEF SInv, client
<1>2. c2s' \in Seq(BitPacket) /\ Range(c2s') \subseteq Range(c2s)
  BY DEF Drains
<1>3. BitInv' /\ TypeOK'
  <2>1. disk' \in {"absent", "foreign", "open", "saved"}
    BY <1>1 DEF TypeOK
  <2>2. spc' \in ServerWaits \cup ServerEnds
    BY DEF ServerEnds
  <2> QED
    BY <1>1, <1>2, <2>1, <2>2, BitChannel DEF BitInv, TypeOK
<1>4. ~Open' /\ (Refused' <=> Refused) /\ (Got' <=> Got)
  BY <1>1 DEF Open, Refused, Got
<1>5. SentInv' /\ SavedInv' /\ ReceivedIsPrefix' /\ GoneInv'
  BY <1>1, <1>4 DEF SInv, SentInv, SavedInv, ReceivedIsPrefix, GoneInv, ClientGaveUp, Open
<1>6. PhaseInv'
  BY <1>1, <1>4 DEF PhaseInv, Active, Open, Refused
<1>7. ChannelInv'
  <2> SUFFICES ASSUME Active
               PROVE  ChannelInv'
    BY <1>1 DEF ChannelInv, Active
  <2>1. ASSUME ~Got
        PROVE  /\ Follows(c2s', {clast})
               /\ \A p \in Range(c2s') : p.seq = cseq => p = clast
               /\ \A p \in ToClient' : p.seq # cseq
    BY <1>1, <1>2, <2>1 DEF ChannelInv, ToClient, Drains
  <2>2. ASSUME Got
        PROVE  Range(c2s') \subseteq {clast} /\ Follows(s2c', Numbered(cseq))
               /\ slast.seq = cseq
    BY <1>1, <1>2, <2>2 DEF ChannelInv
  <2> QED
    BY <1>1, <1>2, <1>4, <2>1, <2>2 DEF ChannelInv
<1> QED
  BY <1>3, <1>5, <1>6, <1>7 DEF SInv

\* The expected packet of an active client is its last one, and nothing
\* else is left behind it.
LEMMA ExpectedOfActive ==
    ASSUME Ordinary, SInv, Active, Open,
           NEW i \in Deliverable(c2s), c2s[i].seq = sseq
    PROVE  /\ ~Got /\ ~Refused /\ sseq = cseq
           /\ c2s[i] = clast /\ Range(c2s) \subseteq {clast}
<1>1. /\ SentInv /\ ChannelInv /\ c2s \in Seq(BitPacket)
      /\ c2s[i] \in Range(c2s)
  BY DEF SInv, BitInv, Deliverable, Range
<1>2. ~Refused
  BY DEF Open, Refused
<1>3. ~Got
  <2> SUFFICES ASSUME Got
               PROVE  FALSE
    OBVIOUS
  <2>1. c2s[i] = clast /\ clast.seq = cseq /\ sseq # cseq
    BY <1>1, LastSent DEF ChannelInv, Got
  <2> QED
    BY <2>1
<1>4. sseq = cseq
  BY <1>2, <1>3 DEF Got
<1>5. c2s[i] = clast /\ Follows(c2s, {clast})
  BY <1>1, <1>3, <1>4 DEF ChannelInv
<1>6. Range(c2s) \subseteq {clast}
  BY <1>1, <1>5, FollowsHead DEF Ordinary
<1> QED
  BY <1>2, <1>3, <1>4, <1>5, <1>6

\* The expected packet of a client that has gone is a chunk or says that it
\* goes, and only such packets, or copies of the chunk, are behind it.
LEMMA ExpectedOfGone ==
    ASSUME Ordinary, SInv, Gone, Open,
           NEW i \in Deliverable(c2s), c2s[i].seq = sseq
    PROVE  /\ Range(c2s) \subseteq Leaving \cup Numbered(sseq)
           /\ spc = "chunk" =>
                  \/ c2s[i].data = 0 /\ c2s[i] \in Leaving
                  \/ /\ c2s[i].data = Len(data) + 1 /\ c2s[i].data <= NChunks
                     /\ c2s[i].fin <=> c2s[i].data = NChunks
<1>1. /\ GoneInv /\ c2s \in Seq(BitPacket)
      /\ c2s[i] \in Range(c2s) /\ c2s[i] \in BitPacket
  BY ReceiptContents DEF SInv, BitInv, Deliverable, Range
<1>2. c2s[i] \in Leaving \cup Numbered(sseq)
  BY <1>1 DEF Numbered, BitPacket
<1>3. Range(c2s) \subseteq Leaving \cup Numbered(sseq)
  BY <1>1, <1>2, FollowsHead DEF GoneInv, Ordinary
<1>4. ASSUME spc = "chunk", c2s[i] \notin Leaving
      PROVE  /\ c2s[i].data = Len(data) + 1 /\ c2s[i].data <= NChunks
             /\ c2s[i].fin <=> c2s[i].data = NChunks
  <2>1. c2s[i] \in Range(c2s) \ Leaving
    BY <1>1, <1>4
  <2> QED
    BY <1>1, <1>4, <2>1 DEF GoneInv
<1>5. c2s[i] \in Leaving => c2s[i].data = 0
  BY DEF Leaving
<1> QED
  BY <1>3, <1>4, <1>5

\* A server that takes the expected packet, and stores its chunk.
LEMMA ServerAdvances ==
    ASSUME Ordinary, SInv, UNCHANGED client,
           NEW i \in Deliverable(c2s), c2s' \in AfterReceipt(c2s, i),
           c2s[i].seq = sseq, sseq' = Step(sseq), size' \in Nat,
           \/ /\ slast' = AckPkt(sseq, 0) /\ s2c' = Send(s2c, slast')
           \/ /\ slast' = FinPkt(sseq, 0)
              /\ s2c' = Send(Send(s2c, AckPkt(sseq, 0)), slast'),
           \/ spc = "filename" /\ spc' = "filesize" /\ disk' = "open" /\ data' = data
           \/ spc = "filesize" /\ spc' = "chunk" /\ disk' = disk /\ data' = data
           \/ /\ spc = "chunk" /\ data' = Stored(c2s[i].data)
              /\ \/ ~c2s[i].fin /\ spc' = "chunk" /\ disk' = disk
                 \/ c2s[i].fin /\ spc' = "closing" /\ disk' = "saved"
    PROVE  SInv'
<1>1. /\ UNCHANGED <<cpc, cseq, sent, clast>>
      /\ TypeOK /\ BitInv /\ SentInv /\ PhaseInv /\ ChannelInv /\ GoneInv /\ SavedInv
      /\ cseq \in {0, 1} /\ sseq \in {0, 1} /\ data \in Seq(Nat)
      /\ ReceivedIsPrefix /\ NChunks \in Nat /\ Open
      /\ spc' \in {"filesize", "chunk", "closing"}
  BY SawUploadAssumption DEF SInv, client, TypeOK, Open
<1>2. sseq' \in {0, 1} /\ sseq' # sseq
  BY <1>1, Steps
<1>3. /\ Drains(c2s, c2s') /\ c2s[i] \in Range(c2s) /\ c2s[i] \in BitPacket
      /\ c2s' \in Seq(BitPacket) /\ Range(c2s') \subseteq Range(c2s)
  BY <1>1, ReceiptDrains DEF BitInv, Drains
<1>4. /\ slast' \in BitPacket /\ slast'.seq = sseq
      /\ s2c' \in Seq(BitPacket)
      /\ Follows(s2c, Numbered(sseq)) => Follows(s2c', Numbered(sseq))
  <2> DEFINE a == AckPkt(sseq, 0)
             f == FinPkt(sseq, 0)
  <2>1. /\ a \in BitPacket /\ f \in BitPacket /\ a.seq = sseq /\ f.seq = sseq
    BY <1>1, Composed DEF AckPkt, FinPkt
  <2>2. a \in Numbered(sseq) /\ f \in Numbered(sseq)
    BY <2>1 DEF Numbered, BitPacket
  <2> HIDE DEF a, f
  <2>3. /\ Send(s2c, a) \in Seq(BitPacket)
        /\ Follows(s2c, Numbered(sseq)) => Follows(Send(s2c, a), Numbered(sseq))
    BY <1>1, <2>1, <2>2, SendContents, FollowsSend DEF BitInv
  <2>4. /\ Send(Send(s2c, a), f) \in Seq(BitPacket)
        /\ Follows(s2c, Numbered(sseq)) => Follows(Send(Send(s2c, a), f), Numbered(sseq))
    BY <2>1, <2>2, <2>3, SendContents, FollowsSend
  <2>5. \/ slast' = a /\ s2c' = Send(s2c, a)
        \/ slast' = f /\ s2c' = Send(Send(s2c, a), f)
    BY DEF a, f
  <2> QED
    BY <2>1, <2>3, <2>4, <2>5
<1>5. ~Refused /\ ~Refused' /\ cpc # "completed"
  BY <1>1 DEF Refused, Open, SavedInv
<1>6. Active => /\ ~Got /\ Got' /\ sseq = cseq
                /\ c2s[i] = clast /\ Range(c2s) \subseteq {clast}
  BY <1>1, <1>2, <1>5, ExpectedOfActive DEF Got
<1>7. Active \/ Gone
  BY <1>1, <1>5 DEF Active, Gone, TypeOK, ClientWaits, ClientEnds
<1>8. data' = data \/ (spc = "chunk" /\ data' = Append(data, Len(data) + 1))
  <2>1. CASE spc = "chunk" /\ Gone
    BY <1>1, <2>1, ExpectedOfGone DEF Stored
  <2>2. CASE spc = "chunk" /\ Active
    <3>1. cpc \in {"chunk", "closing"} /\ Len(data) = sent - 1
      BY <1>1, <1>5, <1>6, <2>2, LastSent DEF PhaseInv
    <3>2. c2s[i].data = Len(data) + 1
      BY <1>1, <1>6, <2>2, <3>1, LastSent DEF TypeOK
    <3> QED
      BY <1>1, <2>2, <3>2 DEF Stored
  <2> QED
    BY <1>1, <1>7, <2>1, <2>2
<1>9. data' \in Seq(Nat) /\ ReceivedIsPrefix'
  <2>1. CASE data' = data
    BY <1>1, <2>1 DEF ReceivedIsPrefix
  <2>2. CASE data' = Append(data, Len(data) + 1)
    <3>1. Append(data, Len(data) + 1) \in Seq(Nat)
          /\ Len(data') = Len(data) + 1
      BY <1>1, <2>2
    <3>2. ASSUME NEW k \in 1 .. Len(data')
          PROVE  data'[k] = k
      <4>1. CASE k \in 1 .. Len(data)
        <5>1. data[k] = k
          BY <1>1, <4>1 DEF ReceivedIsPrefix
        <5> QED
          BY <1>1, <2>2, <4>1, <5>1
      <4>2. CASE k = Len(data) + 1
        BY <1>1, <2>2, <4>2
      <4> QED
        BY <1>1, <3>1, <4>1, <4>2
    <3> QED
      BY <2>2, <3>1, <3>2 DEF ReceivedIsPrefix
  <2> QED
    BY <1>8, <2>1, <2>2
<1>10. BitInv' /\ TypeOK'
  <2>1. c2s' \in Seq(Packet) /\ s2c' \in Seq(Packet) /\ slast' \in Packet
    BY <1>3, <1>4, BitChannel DEF BitPacket
  <2>2. disk' \in {"absent", "foreign", "open", "saved"}
        /\ spc' \in ServerWaits \cup ServerEnds
    BY <1>1 DEF TypeOK, ServerWaits
  <2> QED
    BY <1>1, <1>2, <1>3, <1>4, <1>9, <2>1, <2>2 DEF TypeOK, BitInv
<1>11. SentInv' /\ SavedInv'
  BY <1>1, <1>5 DEF SentInv, SavedInv, ClientGaveUp
<1>12. PhaseInv'
  <2> SUFFICES ASSUME Active
               PROVE  PhaseInv'
    BY <1>1 DEF PhaseInv, Active
  <2>1. CASE cpc = "filename"
    <3>1. spc = "filename" /\ data = <<>>
      BY <1>1, <1>5, <1>6, <2>1 DEF PhaseInv, Open, ClientInforms
    <3> QED
      BY <1>1, <1>5, <1>6, <2>1, <3>1 DEF PhaseInv, ClientInforms
  <2>2. CASE cpc = "filesize"
    <3>1. spc = "filesize" /\ data = <<>>
      BY <1>1, <1>5, <1>6, <2>2 DEF PhaseInv, Open, ClientInforms
    <3> QED
      BY <1>1, <1>5, <1>6, <2>2, <3>1 DEF PhaseInv, ClientInforms
  <2>3. CASE cpc \in {"chunk", "closing"}
    <3>1. spc = "chunk" /\ Len(data) = sent - 1 /\ sent > 0 /\ sent \in Nat
      BY <1>1, <1>5, <1>6, <2>3 DEF PhaseInv, Open, SentInv, TypeOK
    <3>2. clast.data = sent /\ (clast.fin <=> cpc = "closing")
      BY <1>1, <2>3, LastSent
    <3>3. Len(data') = sent
      <4>1. data' = Append(data, clast.data)
        BY <1>6, <3>1, <3>2 DEF Stored
      <4> QED
        BY <1>1, <3>1, <4>1
    <3>4. spc' = IF cpc = "closing" THEN "closing" ELSE "chunk"
      BY <1>6, <3>1, <3>2
    <3> QED
      BY <1>1, <1>5, <1>6, <2>3, <3>3, <3>4 DEF PhaseInv, ClientInforms
  <2> QED
    BY <2>1, <2>2, <2>3 DEF Active
<1>13. ChannelInv'
  <2> SUFFICES ASSUME Active
               PROVE  ChannelInv'
    BY <1>1 DEF ChannelInv, Active
  <2>1. \A p \in Range(c2s') : ~p.ack /\ (p.fin => p.data # 0 /\ cpc = "closing")
    BY <1>1, <1>3 DEF ChannelInv
  <2>2. Follows(s2c, Numbered(cseq))
    <3>1. Range(s2c) \cap Numbered(cseq) = {}
      BY <1>1, <1>6 DEF ChannelInv, ToClient, Numbered
    <3> QED
      BY <3>1, FollowsTrivially
  <2>3. Range(c2s') \subseteq {clast} /\ Follows(s2c', Numbered(cseq)) /\ slast'.seq = cseq
    BY <1>3, <1>4, <1>6, <2>2
  <2> QED
    BY <1>1, <1>6, <2>1, <2>3 DEF ChannelInv
<1>14. GoneInv'
  <2> SUFFICES ASSUME Gone
               PROVE  GoneInv'
    BY <1>1 DEF GoneInv, Gone
  <2>1. Range(c2s') \subseteq Leaving \cup Numbered(sseq)
    BY <1>1, <1>3, ExpectedOfGone
  <2>2. Follows(c2s', Leaving)
    BY <1>1, <1>3 DEF GoneInv, Drains
  <2>3. \A p \in Range(c2s') \ Leaving : p.seq # sseq'
    BY <1>2, <2>1 DEF Numbered
  <2>4. Follows(c2s', Leaving \cup Numbered(sseq'))
    <3> SUFFICES ASSUME NEW k \in DOMAIN c2s', NEW j \in DOMAIN c2s', k < j,
                        c2s'[k] \in Leaving \cup Numbered(sseq')
                 PROVE  c2s'[j] \in Leaving
      BY DEF Follows
    <3>1. c2s'[k] \in Range(c2s')
      BY DEF Range
    <3>2. c2s'[k] \in Leaving
      BY <2>3, <3>1 DEF Numbered
    <3> QED
      BY <2>2, <3>2 DEF Follows
  <2>5. ClientGaveUp' \/ Range(c2s') \cap Leaving = {}
    BY <1>1, <1>3 DEF GoneInv, ClientGaveUp
  <2> QED
    BY <2>2, <2>3, <2>4, <2>5 DEF GoneInv
<1> QED
  BY <1>9, <1>10, <1>11, <1>12, <1>13, <1>14 DEF SInv

\* A server that refuses the upload, or ends the refusal.
LEMMA ServerRefuses ==
    ASSUME Ordinary, SInv, UNCHANGED <<client, data, disk>>,
           NEW i \in Deliverable(c2s), c2s' \in AfterReceipt(c2s, i),
           c2s[i].seq = sseq, sseq' = Step(sseq), size' \in Nat,
           s2c' = Send(s2c, slast'),
           \/ /\ spc \in {"filename", "filesize"} /\ spc' = "rejecting"
              /\ slast' = FinPkt(sseq', 0)
           \/ /\ spc = "rejecting" /\ spc' = "rejected"
              /\ c2s[i].ack \/ c2s[i].fin
              /\ slast' = AckPkt(sseq', 0)
    PROVE  SInv'
<1>1. /\ UNCHANGED <<cpc, cseq, sent, clast, data, disk>>
      /\ TypeOK /\ BitInv /\ SentInv /\ PhaseInv /\ ChannelInv /\ GoneInv /\ SavedInv
      /\ cseq \in {0, 1} /\ sseq \in {0, 1}
  BY DEF SInv, client, TypeOK
<1>2. sseq' \in {0, 1} /\ sseq' # sseq
  BY <1>1, Steps
<1>3. /\ Drains(c2s, c2s') /\ c2s[i] \in Range(c2s)
      /\ c2s' \in Seq(BitPacket) /\ Range(c2s') \subseteq Range(c2s)
  BY <1>1, ReceiptDrains DEF BitInv, Drains
<1>4. slast' \in BitPacket /\ slast'.seq = sseq'
  <2>1. AckPkt(sseq', 0) \in BitPacket /\ FinPkt(sseq', 0) \in BitPacket
    BY <1>2, Composed
  <2>2. AckPkt(sseq', 0).seq = sseq' /\ FinPkt(sseq', 0).seq = sseq'
    BY DEF AckPkt, FinPkt
  <2>3. slast' \in {AckPkt(sseq', 0), FinPkt(sseq', 0)}
    OBVIOUS
  <2> QED
    BY <2>1, <2>2, <2>3, Zenon
<1>5. s2c' \in Seq(BitPacket) /\ Range(s2c') \subseteq Range(s2c) \cup {slast'}
  BY <1>1, <1>4, SendContents DEF BitInv
<1>6. Refused' /\ ~Got' /\ ~Open' /\ spc' \notin {"closing", "done"}
  BY DEF Refused, Got, Open
<1>7. cpc # "completed"
  BY <1>1 DEF SavedInv
<1>8. BitInv' /\ TypeOK'
  <2>1. c2s' \in Seq(Packet) /\ s2c' \in Seq(Packet) /\ slast' \in Packet
    BY <1>3, <1>4, <1>5, BitChannel DEF BitPacket
  <2> QED
    BY <1>1, <1>2, <1>3, <1>4, <1>5, <2>1 DEF TypeOK, BitInv, ServerWaits, ServerEnds
<1>9. SentInv' /\ SavedInv' /\ GoneInv' /\ ReceivedIsPrefix'
  BY <1>1, <1>6, <1>7 DEF SInv, SentInv, SavedInv, GoneInv, ReceivedIsPrefix, ClientGaveUp
<1>10. PhaseInv' /\ ChannelInv'
  <2> SUFFICES ASSUME Active
               PROVE  PhaseInv' /\ ChannelInv'
    BY <1>1 DEF PhaseInv, ChannelInv, Active
  <2>1. spc \in {"filename", "filesize"}
    <3> SUFFICES ASSUME spc = "rejecting", c2s[i].ack \/ c2s[i].fin
                 PROVE  FALSE
      OBVIOUS
    <3>1. cpc \in ClientInforms
      BY <1>1 DEF PhaseInv, Refused
    <3> QED
      BY <1>1, <1>3, <3>1 DEF ChannelInv, ClientInforms
  <2>2. /\ ~Got /\ sseq = cseq
        /\ c2s[i] = clast /\ Range(c2s) \subseteq {clast}
    BY <2>1, ExpectedOfActive DEF Open
  <2>3. cpc \in ClientInforms /\ data = <<>>
    BY <1>1, <2>1, <2>2 DEF PhaseInv, Refused, Active, ClientInforms
  <2>4. PhaseInv'
    BY <1>1, <1>6, <2>3 DEF PhaseInv, ClientInforms
  <2>5. Follows(c2s', {clast}) /\ \A p \in Range(c2s') : p = clast
    BY <1>3, <2>2, FollowsTrivially
  <2>6. \A p \in Range(c2s') : ~p.ack /\ (p.fin => p.data # 0 /\ cpc = "closing")
    BY <1>1, <1>3 DEF ChannelInv
  <2>7. \A p \in ToClient' : p.seq # cseq
    BY <1>1, <1>2, <1>4, <1>5, <2>2 DEF ChannelInv, ToClient
  <2> QED
    BY <1>1, <1>6, <2>4, <2>5, <2>6, <2>7 DEF ChannelInv
<1> QED
  BY <1>8, <1>9, <1>10 DEF SInv

\* What the server does with a packet.
LEMMA ServerReceipt ==
    ASSUME Ordinary, SInv, NEW i \in Deliverable(c2s), ServerReceivesAt(i)
    PROVE  SInv'
<1>1. /\ c2s \in Seq(BitPacket) /\ size \in Nat
  BY DEF SInv, TypeOK, BitInv
<1>2. c2s' \in AfterReceipt(c2s, i) /\ UNCHANGED client
  BY DEF ServerReceivesAt, ServerFilename_Receives, ServerFilesize_Receives,
         ServerChunk_Receives, ServerCloses_Answer, ServerRejects_Answer
<1>3. Drains(c2s, c2s') /\ c2s[i] \in BitPacket
  BY <1>1, <1>2, ReceiptDrains
<1>4. c2s[i].data \in Nat
  BY <1>3 DEF BitPacket, Packet
<1>5. ASSUME Relisten
      PROVE  SInv'
  <2>1. UNCHANGED server /\ s2c' = Send(s2c, slast)
    BY <1>5 DEF Relisten, server
  <2> QED
    BY <1>2, <1>3, <2>1, ServerRepeats
<1>6. CASE ServerFilename_Receives(i)
  <2>1. CASE c2s[i].seq = sseq /\ Reject /\ UNCHANGED <<size, data, disk>>
    BY <1>1, <1>2, <1>6, <2>1, ServerRefuses DEF Reject, ServerFilename_Receives
  <2>2. CASE /\ c2s[i].seq = sseq /\ disk' = "open" /\ spc' = "filesize"
             /\ Acknowledge /\ UNCHANGED <<size, data>>
    BY <1>1, <1>2, <1>6, <2>2, ServerAdvances DEF Acknowledge, ServerFilename_Receives
  <2> QED
    BY <1>5, <1>6, <2>1, <2>2 DEF ServerFilename_Receives
<1>7. CASE ServerFilesize_Receives(i)
  <2>1. CASE c2s[i].seq = sseq /\ size' = c2s[i].data /\ Reject /\ UNCHANGED <<data, disk>>
    BY <1>2, <1>4, <1>7, <2>1, ServerRefuses DEF Reject, ServerFilesize_Receives
  <2>2. CASE /\ c2s[i].seq = sseq /\ size' = c2s[i].data /\ spc' = "chunk"
             /\ Acknowledge /\ UNCHANGED <<data, disk>>
    BY <1>2, <1>4, <1>7, <2>2, ServerAdvances DEF Acknowledge, ServerFilesize_Receives
  <2> QED
    BY <1>5, <1>7, <2>1, <2>2 DEF ServerFilesize_Receives
<1>8. CASE ServerChunk_Receives(i)
  <2>1. CASE /\ IsExpected(c2s[i]) /\ ~c2s[i].fin
             /\ data' = Stored(c2s[i].data) /\ Acknowledge /\ UNCHANGED <<spc, size, disk>>
    <3>1. spc = "chunk" /\ c2s[i].seq = sseq
      BY <1>8, <2>1 DEF ServerChunk_Receives, IsExpected
    <3> QED
      BY <1>1, <1>2, <2>1, <3>1, ServerAdvances DEF Acknowledge
  <2>2. CASE /\ IsExpected(c2s[i]) /\ c2s[i].fin
             /\ data' = Stored(c2s[i].data)
             /\ spc' = "closing" /\ disk' = "saved"
             /\ slast' = FinPkt(sseq, 0)
             /\ s2c' = Send(Send(s2c, AckPkt(sseq, 0)), slast')
             /\ sseq' = Step(sseq)
             /\ UNCHANGED size
    <3>1. spc = "chunk" /\ c2s[i].seq = sseq
      BY <1>8, <2>2 DEF ServerChunk_Receives, IsExpected
    <3> QED
      BY <1>1, <1>2, <2>2, <3>1, ServerAdvances
  <2> QED
    BY <1>5, <1>8, <2>1, <2>2 DEF ServerChunk_Receives
<1>9. CASE ServerCloses_Answer(i)
  <2>1. CASE spc' = "done" /\ UNCHANGED <<sseq, size, data, disk, slast, s2c>>
    BY <1>2, <1>3, <1>9, <2>1, ServerEndsQuietly DEF ServerCloses_Answer
  <2> QED
    BY <1>5, <1>9, <2>1 DEF ServerCloses_Answer
<1>10. CASE ServerRejects_Answer(i)
  <2>1. CASE /\ c2s[i].seq = sseq /\ (c2s[i].ack \/ c2s[i].fin)
             /\ spc' = "rejected"
             /\ sseq' = Step(sseq) /\ slast' = AckPkt(sseq', 0)
             /\ s2c' = Send(s2c, slast')
             /\ UNCHANGED <<size, data, disk>>
    BY <1>1, <1>2, <1>10, <2>1, ServerRefuses DEF ServerRejects_Answer
  <2> QED
    BY <1>5, <1>10, <2>1 DEF ServerRejects_Answer
<1> QED
  BY <1>6, <1>7, <1>8, <1>9, <1>10 DEF ServerReceivesAt

\* What it does by itself.
LEMMA ServerAlone ==
    ASSUME Ordinary, SInv, ServerRetransmits \/ ServerGivesUp
    PROVE  SInv'
<1>1. Drains(c2s, c2s)
  BY KeptDrains DEF SInv, BitInv
<1>2. CASE ServerRetransmits
  BY <1>1, <1>2, ServerRepeats DEF ServerRetransmits, Relisten, server
<1>3. CASE ServerGivesUp
  <2>1. /\ UNCHANGED <<client, sseq, size, data, slast, s2c>> /\ c2s' = c2s
        /\ \/ Open /\ spc' = "failed" /\ disk' \in {"absent", disk}
           \/ spc = "closing" /\ spc' = "done" /\ disk' = disk
           \/ spc = "rejecting" /\ spc' = "rejected" /\ disk' = disk
    BY <1>3 DEF ServerGivesUp, IncompleteRemoved, Open
  <2> QED
    BY <1>1, <2>1, ServerEndsQuietly
<1> QED
  BY <1>2, <1>3

\* A packet is lost, or nothing happens.
LEMMA OtherSteps ==
    ASSUME Ordinary, SInv, Lose \/ Finished \/ UNCHANGED vars
    PROVE  SInv'
<1>1. c2s \in Seq(BitPacket) /\ s2c \in Seq(BitPacket)
  BY DEF SInv, BitInv
<1>2. CASE c2s' \in AfterLoss(c2s) /\ s2c' = s2c /\ UNCHANGED <<client, server>>
  BY <1>1, <1>2, LossDrains, ServerRepeats
<1>3. CASE s2c' \in AfterLoss(s2c) /\ c2s' = c2s /\ UNCHANGED <<client, server>>
  BY <1>1, <1>3, LossDrains, ClientRepeats
<1>4. CASE UNCHANGED vars
  BY <1>1, <1>4, KeptDrains, ServerRepeats DEF vars
<1> QED
  BY <1>2, <1>3, <1>4 DEF Lose, Finished

-----------------------------------------------------------------------------
(* All the steps                                                           *)

\* Every step keeps the invariant.
LEMMA InvariantStep ==
    ASSUME Ordinary, SInv, [Next]_vars
    PROVE  SInv'
BY ClientReceipt, ClientAlone, ServerReceipt, ServerAlone, OtherSteps DEF Next

\* An upload starts in it.
LEMMA InvariantInit ==
    ASSUME Ordinary, Init
    PROVE  SInv
<1>1. /\ NChunks \in Nat /\ 0 \in {0, 1} /\ 1 \in {0, 1} /\ 0 \in Nat
      /\ FALSE \in BOOLEAN
  BY SawUploadAssumption
<1> DEFINE d == DataPkt(0, 0, 0, FALSE)
           a == AckPkt(1, 0)
<1>2. d \in BitPacket /\ a \in BitPacket
  BY <1>1, Composed
<1>3. /\ ~d.ack /\ d.seq = 0 /\ ~d.fin /\ a.seq = 1
  BY DEF DataPkt, AckPkt
<1>4. \A q \in BitPacket : <<q>> \in Seq(BitPacket) /\ Range(<<q>>) = {q}
  BY DEF Range
<1>5. <<>> \in Seq(BitPacket) /\ Range(<<>>) = {}
  BY DEF Range
<1>6. /\ cpc = "filename" /\ cseq = 0 /\ sent = 0 /\ clast = d
      /\ spc = "filename" /\ sseq = 0 /\ size = 0 /\ data = <<>>
      /\ disk \in {"absent", "foreign"}
      /\ slast = a /\ c2s = <<d>> /\ s2c \in {<<>>, <<a>>}
  BY DEF Init, FilenameSeq
<1> HIDE DEF d, a
<1>7. /\ c2s \in Seq(BitPacket) /\ s2c \in Seq(BitPacket)
      /\ Range(c2s) = {d} /\ Range(s2c) \subseteq {a}
  <2>1. c2s \in Seq(BitPacket) /\ Range(c2s) = {d}
    BY <1>2, <1>4, <1>6, Zenon
  <2>2. CASE s2c = <<>>
    BY <1>5, <2>1, <2>2
  <2>3. CASE s2c = <<a>>
    BY <1>2, <1>4, <2>1, <2>3, Zenon
  <2> QED
    BY <1>6, <2>2, <2>3, Zenon
<1>8. BitInv
  BY <1>2, <1>6, <1>7 DEF BitInv
<1>9. TypeOK
  <2>1. c2s \in Seq(Packet) /\ s2c \in Seq(Packet) /\ clast \in Packet /\ slast \in Packet
    BY <1>2, <1>6, <1>7, BitChannel DEF BitPacket
  <2> QED
    BY <1>1, <1>6, <2>1 DEF TypeOK, ClientWaits, ServerWaits
<1>10. SentInv
  BY <1>6 DEF SentInv, FilenameSeq, d
<1>11. PhaseInv /\ GoneInv /\ SavedInv /\ ReceivedIsPrefix /\ ~Got /\ ~Refused
  BY <1>6 DEF PhaseInv, GoneInv, SavedInv, ReceivedIsPrefix, Got, Refused, Gone, ClientInforms
<1>12. ChannelInv
  <2>1. Follows(c2s, {clast})
    BY <1>6, <1>7, FollowsTrivially
  <2>2. \A p \in ToClient : p.seq # cseq
    BY <1>3, <1>6, <1>7 DEF ToClient
  <2> QED
    BY <1>3, <1>6, <1>7, <1>11, <2>1, <2>2 DEF ChannelInv
<1> QED
  BY <1>8, <1>9, <1>10, <1>11, <1>12 DEF SInv

-----------------------------------------------------------------------------
(* Types, on any network.                                                  *)

\* A client's step keeps the types of what it writes.
LEMMA ClientCounts ==
    ASSUME CountInv, UNCHANGED server,
           \/ \E i \in Deliverable(s2c) : ClientReceives(i)
           \/ ClientRetransmits \/ ClientGivesUp \/ ClientStops
    PROVE  CountInv'
<1>0. /\ cpc \in ClientWaits \cup ClientEnds /\ cseq \in {0, 1} /\ sent \in 0 .. NChunks
      /\ clast \in Packet /\ c2s \in Seq(Packet) /\ s2c \in Seq(Packet)
      /\ NChunks \in Nat
  BY SawUploadAssumption DEF CountInv, TypeOK
<1>1. Step(cseq) \in {0, 1} /\ Step(Step(cseq)) \in {0, 1} /\ FilesizeSeq \in {0, 1}
  BY <1>0 DEF Step, FilesizeSeq
<1>2. s2c' \in Seq(Packet)
  <2>1. ASSUME NEW i \in Deliverable(s2c), s2c' \in AfterReceipt(s2c, i)
        PROVE  s2c' \in Seq(Packet)
    BY <1>0, <2>1, KindReceived
  <2> QED
    BY <1>0, <2>1 DEF ClientReceives, ClientInforms_Answer, ClientChunk_Ack,
        ClientCloses_Answer, ClientFinalizes_Answer, ClientRetransmits,
        ClientGivesUp, ClientStops
<1>3. /\ \A s \in {0, 1} : AckPkt(s, 0) \in Packet /\ FinPkt(s, 0) \in Packet
      /\ \A s \in {0, 1}, d \in Nat, last \in BOOLEAN : DataPkt(s, 0, d, last) \in Packet
  BY PacketTypes, DataPacketTypes
<1>4. ASSUME /\ cpc' \in ClientWaits \cup ClientEnds /\ cseq' \in {0, 1}
             /\ sent' \in 0 .. NChunks /\ clast' \in Packet /\ c2s' \in Seq(Packet)
             /\ cpc' \in ClientInforms => sent' = 0
             /\ cpc' = "chunk" => sent' < NChunks
      PROVE  CountInv'
  BY <1>2, <1>4 DEF CountInv, TypeOK, server
<1>5. CASE c2s' \in {c2s, Send(c2s, clast)} /\ UNCHANGED <<cseq, sent, clast>>
           /\ (cpc' = cpc \/ cpc' \in {"closing", "closed", "stopped"})
  <2>1. c2s' \in Seq(Packet)
    BY <1>0, <1>5, KindSent
  <2>2. cpc' \in ClientWaits \cup ClientEnds
    BY <1>0, <1>5 DEF ClientWaits, ClientEnds
  <2>3. (cpc' \in ClientInforms => sent' = 0) /\ (cpc' = "chunk" => sent' < NChunks)
    BY <1>5 DEF CountInv, ClientInforms
  <2> QED
    BY <1>0, <1>4, <1>5, <2>1, <2>2, <2>3
<1>6. CASE Finalize(Step(cseq))
  <2>1. AckPkt(Step(cseq), 0) \in Packet /\ clast' \in Packet
    BY <1>1, <1>3, <1>6 DEF Finalize
  <2>2. c2s' \in Seq(Packet)
    BY <1>0, <1>6, <2>1, KindSentTwice DEF Finalize
  <2>3. cpc' = "finalizing" /\ cseq' \in {0, 1} /\ sent' = sent
    BY <1>1, <1>6 DEF Finalize
  <2> QED
    BY <1>0, <1>4, <2>1, <2>2, <2>3 DEF ClientWaits, ClientInforms
<1>7. CASE /\ cpc = "filename" /\ cpc' = "filesize" /\ cseq' = FilesizeSeq /\ sent' = sent
           /\ clast' = DataPkt(FilesizeSeq, 0, NChunks, FALSE) /\ c2s' = Send(c2s, clast')
  <2>1. clast' \in Packet
    BY <1>0, <1>1, <1>3, <1>7
  <2>2. c2s' \in Seq(Packet)
    BY <1>0, <1>7, <2>1, KindSent
  <2>3. sent' = 0
    BY <1>7 DEF CountInv, ClientInforms
  <2> QED
    BY <1>0, <1>1, <1>4, <1>7, <2>1, <2>2, <2>3 DEF ClientWaits
<1>8. CASE SendChunk /\ sent < NChunks
  <2>1. sent' = sent + 1 /\ sent' \in 0 .. NChunks /\ sent' \in Nat /\ cseq' \in {0, 1}
    BY <1>0, <1>1, <1>8 DEF SendChunk
  <2>2. clast' \in Packet
    <3>1. (sent' = NChunks) \in BOOLEAN
      OBVIOUS
    <3> QED
      BY <1>3, <1>8, <2>1, <3>1 DEF SendChunk
  <2>3. c2s' \in Seq(Packet)
    BY <1>0, <1>8, <2>2, KindSent DEF SendChunk
  <2>4. IF sent' = NChunks THEN cpc' = "closing" ELSE cpc' = "chunk" /\ sent' < NChunks
    BY <1>0, <1>8, <2>1 DEF SendChunk
  <2> QED
    BY <1>4, <2>1, <2>2, <2>3, <2>4 DEF ClientWaits, ClientInforms
<1>9. CASE cpc' = "completed" /\ cseq' = Step(cseq) /\ clast' = AckPkt(cseq', 0)
           /\ c2s' = Send(c2s, clast') /\ sent' = sent
  <2>1. clast' \in Packet
    BY <1>1, <1>3, <1>9
  <2>2. c2s' \in Seq(Packet)
    BY <1>0, <1>9, <2>1, KindSent
  <2> QED
    BY <1>0, <1>1, <1>4, <1>9, <2>1, <2>2 DEF ClientEnds, ClientInforms
<1>10. CASE \E i \in Deliverable(s2c) : ClientReceives(i)
  <2>0. PICK i \in Deliverable(s2c) : ClientReceives(i)
    BY <1>10
  <2>1. CASE ClientInforms_Answer(i)
    <3>1. CASE Confirms(s2c[i]) /\ cpc = "filesize"
               /\ IF NChunks > 0 THEN SendChunk
                  ELSE cpc' = "closing" /\ UNCHANGED <<cseq, sent, clast, c2s>>
      <4>1. sent = 0
        BY <3>1 DEF CountInv, ClientInforms
      <4> QED
        BY <1>0, <1>5, <1>8, <3>1, <4>1
    <3> QED
      BY <1>5, <1>6, <1>7, <2>1, <3>1 DEF ClientInforms_Answer, ClientRelistens
  <2>2. CASE ClientChunk_Ack(i)
    <3>1. sent < NChunks
      BY <2>2 DEF ClientChunk_Ack, CountInv
    <3> QED
      BY <1>5, <1>8, <2>2, <3>1 DEF ClientChunk_Ack, ClientRelistens
  <2>3. CASE ClientCloses_Answer(i)
    BY <1>5, <1>9, <2>3 DEF ClientCloses_Answer, ClientRelistens
  <2>4. CASE ClientFinalizes_Answer(i)
    BY <1>5, <2>4 DEF ClientFinalizes_Answer, ClientRelistens
  <2> QED
    BY <2>0, <2>1, <2>2, <2>3, <2>4 DEF ClientReceives
<1>11. CASE ClientRetransmits \/ ClientGivesUp \/ ClientStops
  BY <1>5, <1>6, <1>11 DEF ClientRetransmits, ClientRelistens, ClientGivesUp, ClientStops
<1> QED
  BY <1>10, <1>11

\* A step of the server's connection does.
LEMMA ServerCounts ==
    ASSUME CountInv, UNCHANGED client,
           \/ \E i \in Deliverable(c2s) : ServerReceivesAt(i)
           \/ ServerRetransmits \/ ServerGivesUp
    PROVE  CountInv'
<1>0. /\ spc \in ServerWaits \cup ServerEnds /\ sseq \in {0, 1} /\ size \in Nat
      /\ data \in Seq(Nat) /\ disk \in {"absent", "foreign", "open", "saved"}
      /\ slast \in Packet /\ c2s \in Seq(Packet) /\ s2c \in Seq(Packet)
  BY DEF CountInv, TypeOK
<1>1. Step(sseq) \in {0, 1}
  BY <1>0 DEF Step
<1>2. c2s' \in Seq(Packet)
  <2>1. ASSUME NEW i \in Deliverable(c2s), c2s' \in AfterReceipt(c2s, i)
        PROVE  c2s' \in Seq(Packet)
    BY <1>0, <2>1, KindReceived
  <2> QED
    BY <1>0, <2>1 DEF ServerReceivesAt, ServerFilename_Receives,
        ServerFilesize_Receives, ServerChunk_Receives, ServerCloses_Answer,
        ServerRejects_Answer, ServerRetransmits, ServerGivesUp
<1>3. \A s \in {0, 1} : AckPkt(s, 0) \in Packet /\ FinPkt(s, 0) \in Packet
  BY PacketTypes
<1>4. ASSUME /\ spc' \in ServerWaits \cup ServerEnds /\ sseq' \in {0, 1} /\ size' \in Nat
             /\ data' \in Seq(Nat) /\ disk' \in {"absent", "foreign", "open", "saved"}
             /\ slast' \in Packet /\ s2c' \in Seq(Packet)
      PROVE  CountInv'
  BY <1>2, <1>4 DEF CountInv, TypeOK, client
<1>5. CASE Relisten
  <2>1. s2c' \in Seq(Packet)
    BY <1>0, <1>5, KindSent DEF Relisten
  <2> QED
    BY <1>0, <1>4, <1>5, <2>1 DEF Relisten
<1>6. ASSUME Acknowledge
      PROVE  slast' \in Packet /\ s2c' \in Seq(Packet) /\ sseq' \in {0, 1}
  <2>1. slast' \in Packet
    BY <1>0, <1>3, <1>6 DEF Acknowledge
  <2> QED
    BY <1>0, <1>1, <1>6, <2>1, KindSent DEF Acknowledge
<1>7. ASSUME Reject
      PROVE  slast' \in Packet /\ s2c' \in Seq(Packet) /\ sseq' \in {0, 1}
             /\ spc' = "rejecting"
  <2>1. slast' \in Packet
    BY <1>1, <1>3, <1>7 DEF Reject
  <2> QED
    BY <1>0, <1>1, <1>7, <2>1, KindSent DEF Reject
<1>8. CASE ServerGivesUp
  <2>1. spc' \in ServerEnds /\ UNCHANGED <<sseq, size, data, slast, s2c>>
        /\ disk' \in {"absent", disk}
    BY <1>8 DEF ServerGivesUp, IncompleteRemoved, ServerEnds
  <2> QED
    BY <1>0, <1>4, <2>1
<1>9. ASSUME NEW i \in Deliverable(c2s), ServerReceivesAt(i)
      PROVE  CountInv'
  <2>0. c2s[i].data \in Nat
    BY <1>0, PacketFields DEF Deliverable
  <2>1. Stored(c2s[i].data) \in Seq(Nat)
    BY <1>0, <2>0 DEF Stored
  <2>2. CASE ServerFilename_Receives(i)
    BY <1>0, <1>4, <1>5, <1>6, <1>7, <2>2 DEF ServerFilename_Receives, ServerWaits
  <2>3. CASE ServerFilesize_Receives(i)
    BY <1>0, <1>4, <1>5, <1>6, <1>7, <2>0, <2>3 DEF ServerFilesize_Receives, ServerWaits
  <2>4. CASE ServerChunk_Receives(i)
    <3>1. CASE /\ data' = Stored(c2s[i].data) /\ Acknowledge
               /\ UNCHANGED <<spc, size, disk>>
      BY <1>0, <1>4, <1>6, <2>1, <3>1
    <3>2. CASE /\ data' = Stored(c2s[i].data) /\ spc' = "closing" /\ disk' = "saved"
               /\ slast' = FinPkt(sseq, 0)
               /\ s2c' = Send(Send(s2c, AckPkt(sseq, 0)), slast')
               /\ sseq' = Step(sseq) /\ UNCHANGED size
      <4>1. AckPkt(sseq, 0) \in Packet /\ slast' \in Packet
        BY <1>0, <1>3, <3>2
      <4>2. s2c' \in Seq(Packet)
        BY <1>0, <3>2, <4>1, KindSentTwice
      <4> QED
        BY <1>0, <1>1, <1>4, <2>1, <3>2, <4>1, <4>2 DEF ServerWaits
    <3> QED
      BY <1>5, <2>4, <3>1, <3>2 DEF ServerChunk_Receives
  <2>5. CASE ServerCloses_Answer(i)
    BY <1>0, <1>4, <1>5, <2>5 DEF ServerCloses_Answer, ServerEnds
  <2>6. CASE ServerRejects_Answer(i)
    <3>1. CASE /\ spc' = "rejected" /\ sseq' = Step(sseq) /\ slast' = AckPkt(sseq', 0)
               /\ s2c' = Send(s2c, slast') /\ UNCHANGED <<size, data, disk>>
      <4>1. slast' \in Packet
        BY <1>1, <1>3, <3>1
      <4>2. s2c' \in Seq(Packet)
        BY <1>0, <3>1, <4>1, KindSent
      <4> QED
        BY <1>0, <1>1, <1>4, <3>1, <4>1, <4>2 DEF ServerEnds
    <3> QED
      BY <1>5, <2>6, <3>1 DEF ServerRejects_Answer
  <2> QED
    BY <1>9, <2>2, <2>3, <2>4, <2>5, <2>6 DEF ServerReceivesAt
<1> QED
  BY <1>5, <1>8, <1>9 DEF ServerRetransmits

\* Which end a step is of.
LEMMA StepOfOneEnd ==
    ASSUME [Next]_vars
    PROVE  \/ /\ UNCHANGED server
              /\ \/ \E i \in Deliverable(s2c) : ClientReceives(i)
                 \/ ClientRetransmits \/ ClientGivesUp \/ ClientStops
           \/ /\ UNCHANGED client
              /\ \/ \E i \in Deliverable(c2s) : ServerReceivesAt(i)
                 \/ ServerRetransmits \/ ServerGivesUp
           \/ Lose
           \/ UNCHANGED vars
<1>1. ASSUME NEW i \in Deliverable(s2c), ClientReceives(i)
      PROVE  UNCHANGED server
  BY <1>1 DEF ClientReceives, ClientInforms_Answer, ClientChunk_Ack,
              ClientCloses_Answer, ClientFinalizes_Answer
<1>2. ASSUME NEW i \in Deliverable(c2s), ServerReceivesAt(i)
      PROVE  UNCHANGED client
  BY <1>2 DEF ServerReceivesAt, ServerFilename_Receives, ServerFilesize_Receives,
              ServerChunk_Receives, ServerCloses_Answer, ServerRejects_Answer
<1>3. ClientRetransmits \/ ClientGivesUp \/ ClientStops => UNCHANGED server
  BY DEF ClientRetransmits, ClientGivesUp, ClientStops
<1>4. ServerRetransmits \/ ServerGivesUp => UNCHANGED client
  BY DEF ServerRetransmits, ServerGivesUp
<1> QED
  BY <1>1, <1>2, <1>3, <1>4, Zenon DEF Next, Finished

\* Lost packets and steps of nobody.
LEMMA LossCounts ==
    ASSUME CountInv, Lose
    PROVE  CountInv'
<1>1. c2s \in Seq(Packet) /\ s2c \in Seq(Packet)
  BY DEF CountInv, TypeOK
<1>2. c2s' \in Seq(Packet) /\ s2c' \in Seq(Packet)
  BY <1>1, KindLost DEF Lose
<1> QED
  BY <1>2 DEF CountInv, TypeOK, Lose, client, server

\* The counts hold on any network, of any file.
LEMMA CountsHold == Spec => []CountInv
<1>1. Init => CountInv
  <2> SUFFICES ASSUME Init
               PROVE  CountInv
    OBVIOUS
  <2>1. /\ DataPkt(FilenameSeq, 0, 0, FALSE) \in Packet /\ AckPkt(1, 0) \in Packet
        /\ NChunks \in Nat
    BY SawUploadAssumption DEF DataPkt, AckPkt, Packet, FilenameSeq
  <2>2. \A p \in Packet : <<p>> \in Seq(Packet)
    OBVIOUS
  <2>3. clast \in Packet /\ slast \in Packet /\ c2s \in Seq(Packet)
    BY <2>1, <2>2, Zenon DEF Init
  <2>4. s2c \in Seq(Packet)
    <3>1. CASE s2c = <<>>
      BY <3>1
    <3>2. CASE s2c = <<AckPkt(1, 0)>>
      BY <2>1, <2>2, <3>2, Zenon
    <3> QED
      BY <3>1, <3>2 DEF Init
  <2>5. /\ cpc = "filename" /\ spc = "filename" /\ cseq = 0 /\ sseq = 0 /\ sent = 0
        /\ size = 0 /\ data = <<>> /\ disk \in {"absent", "foreign"}
    BY DEF Init, FilenameSeq
  <2>6. TypeOK
    BY <2>1, <2>3, <2>4, <2>5 DEF TypeOK, ClientWaits, ServerWaits
  <2> QED
    BY <2>5, <2>6 DEF CountInv
<1>2. CountInv /\ [Next]_vars => CountInv'
  <2> SUFFICES ASSUME CountInv, [Next]_vars
               PROVE  CountInv'
    OBVIOUS
  <2>1. CASE UNCHANGED vars
    BY <2>1 DEF CountInv, TypeOK, vars, client, server
  <2> QED
    BY <2>1, StepOfOneEnd, ClientCounts, ServerCounts, LossCounts
<1> QED
  BY <1>1, <1>2, PTL DEF Spec

-----------------------------------------------------------------------------
(* The empty file, on any network.                                         *)

\* No chunk is sent and none is stored.
LEMMA EmptyStep ==
    ASSUME NChunks = 0, EmptyInv, CountInv', [Next]_vars
    PROVE  EmptyInv'
<1>0. /\ CountInv /\ data = <<>> /\ c2s \in Seq(EmptyPacket) /\ clast \in EmptyPacket
      /\ cseq \in {0, 1} /\ cpc # "chunk"
  BY DEF EmptyInv, CountInv, TypeOK
<1>1. \A s \in {0, 1} : /\ AckPkt(s, 0) \in EmptyPacket /\ FinPkt(s, 0) \in EmptyPacket
                        /\ DataPkt(s, 0, 0, FALSE) \in EmptyPacket
  BY EmptyPackets
<1>2. Step(cseq) \in {0, 1} /\ FilesizeSeq \in {0, 1}
  BY <1>0 DEF Step, FilesizeSeq
<1>3. CASE /\ UNCHANGED server
           /\ \/ \E i \in Deliverable(s2c) : ClientReceives(i)
              \/ ClientRetransmits \/ ClientGivesUp \/ ClientStops
  <2> DEFINE Kept  == c2s' \in Seq(EmptyPacket) /\ clast' \in EmptyPacket
             Sends == /\ clast' \in {DataPkt(FilesizeSeq, 0, 0, FALSE), AckPkt(Step(cseq), 0)}
                      /\ c2s' = Send(c2s, clast')
  <2>1. ASSUME UNCHANGED clast, c2s' \in {c2s, Send(c2s, clast)}
        PROVE  Kept
    BY <1>0, <2>1, KindSent
  <2>2. ASSUME Finalize(Step(cseq))
        PROVE  Kept
    <3>1. AckPkt(Step(cseq), 0) \in EmptyPacket /\ clast' \in EmptyPacket
      BY <1>1, <1>2, <2>2 DEF Finalize
    <3> QED
      BY <1>0, <2>2, <3>1, KindSentTwice DEF Finalize
  <2>3. ASSUME Sends
        PROVE  Kept
    <3>1. clast' \in EmptyPacket
      BY <1>1, <1>2, <2>3
    <3> QED
      BY <1>0, <2>3, <3>1, KindSent
  <2> HIDE DEF Kept, Sends
  <2>4. ClientRelistens => Kept
    BY <2>1 DEF ClientRelistens
  <2>5. ASSUME NEW i \in Deliverable(s2c), ClientInforms_Answer(i)
        PROVE  Kept
    <3>1. /\ DataPkt(FilesizeSeq, 0, NChunks, FALSE) = DataPkt(FilesizeSeq, 0, 0, FALSE)
          /\ ~(NChunks > 0)
      OBVIOUS
    <3>2. \/ Finalize(Step(cseq))
          \/ Sends
          \/ UNCHANGED <<clast, c2s>>
          \/ ClientRelistens
      BY <2>5, <3>1, Zenon DEF ClientInforms_Answer, Sends
    <3> QED
      BY <2>1, <2>2, <2>3, <2>4, <3>2
  <2>6. ASSUME NEW i \in Deliverable(s2c), ClientReceives(i)
        PROVE  Kept
    <3>1. CASE ClientChunk_Ack(i)
      BY <1>0, <3>1 DEF ClientChunk_Ack
    <3>2. CASE ClientCloses_Answer(i)
      <4>1. Sends \/ ClientRelistens
        BY <3>2 DEF ClientCloses_Answer, Sends
      <4> QED
        BY <2>3, <2>4, <4>1
    <3>3. CASE ClientFinalizes_Answer(i)
      BY <2>1, <2>4, <3>3 DEF ClientFinalizes_Answer
    <3> QED
      BY <2>5, <2>6, <3>1, <3>2, <3>3 DEF ClientReceives
  <2>7. ClientRetransmits \/ ClientGivesUp \/ ClientStops => Kept
    BY <2>1, <2>2, <2>4 DEF ClientRetransmits, ClientGivesUp, ClientStops
  <2>8. Kept
    BY <1>3, <2>6, <2>7
  <2> QED
    BY <1>0, <1>3, <2>8 DEF EmptyInv, server, Kept
<1>4. CASE /\ UNCHANGED client
           /\ \/ \E i \in Deliverable(c2s) : ServerReceivesAt(i)
              \/ ServerRetransmits \/ ServerGivesUp
  <2>1. ASSUME NEW i \in Deliverable(c2s), ServerReceivesAt(i)
        PROVE  c2s' \in Seq(EmptyPacket) /\ data' = data
    <3>1. c2s' \in AfterReceipt(c2s, i)
      BY <2>1 DEF ServerReceivesAt, ServerFilename_Receives, ServerFilesize_Receives,
                  ServerChunk_Receives, ServerCloses_Answer, ServerRejects_Answer
    <3>2. c2s' \in Seq(EmptyPacket) /\ c2s[i] \in EmptyPacket
      BY <1>0, <3>1, KindReceived
    <3>3. Stored(c2s[i].data) = data
      BY <3>2 DEF EmptyPacket, Stored
    <3> QED
      BY <2>1, <3>2, <3>3 DEF ServerReceivesAt, ServerFilename_Receives,
          ServerFilesize_Receives, ServerChunk_Receives, ServerCloses_Answer,
          ServerRejects_Answer, Relisten
  <2>2. ServerRetransmits \/ ServerGivesUp => c2s' = c2s /\ data' = data
    BY DEF ServerRetransmits, ServerGivesUp, Relisten
  <2> QED
    BY <1>0, <1>4, <2>1, <2>2 DEF EmptyInv, client
<1>5. CASE Lose
  <2>1. c2s' \in Seq(EmptyPacket)
    BY <1>0, <1>5, KindLost DEF Lose
  <2> QED
    BY <1>0, <1>5, <2>1 DEF EmptyInv, Lose, client, server
<1>6. CASE UNCHANGED vars
  BY <1>0, <1>6 DEF EmptyInv, vars, client, server
<1> QED
  BY <1>3, <1>4, <1>5, <1>6, StepOfOneEnd

\* Nothing is stored of an empty file, whatever the network does.
LEMMA EmptyStaysEmpty == ASSUME NChunks = 0 PROVE Spec => []EmptyInv
<1>1. Init => (CountInv => EmptyInv)
  <2> SUFFICES ASSUME Init, CountInv
               PROVE  EmptyInv
    OBVIOUS
  <2>1. clast \in EmptyPacket
    BY EmptyPackets DEF Init, FilenameSeq
  <2>2. \A p \in EmptyPacket : <<p>> \in Seq(EmptyPacket)
    OBVIOUS
  <2>3. c2s = <<clast>> /\ data = <<>>
    BY DEF Init
  <2>4. c2s \in Seq(EmptyPacket)
    BY <2>1, <2>2, <2>3, Zenon
  <2> QED
    BY <2>1, <2>3, <2>4 DEF EmptyInv
<1>2. CountInv /\ CountInv' /\ EmptyInv /\ [Next]_vars => EmptyInv'
  BY EmptyStep
<1> QED
  BY <1>1, <1>2, CountsHold, PTL DEF Spec

-----------------------------------------------------------------------------
(* The theorems                                                            *)

\* A file has a chunk or none.
LEMMA OrdinaryOrEmpty ==
    ASSUME "reordering" \notin NetFaults
    PROVE  Ordinary \/ NChunks = 0
BY SawUploadAssumption DEF Ordinary

\* The inductive invariant holds in every state of every upload of a file
\* that is not empty, on a path that keeps the order.
THEOREM Invariance == ASSUME Ordinary PROVE Spec => []SInv
BY InvariantInit, InvariantStep, PTL DEF Spec

\* Every variable keeps its type, whatever the network does; the numbers stay
\* bits.
THEOREM TypeCorrect == Spec => []TypeOK
<1>1. CountInv => TypeOK
  BY DEF CountInv
<1> QED
  BY <1>1, CountsHold, PTL

\* The server's file is a prefix of the client's, whatever is lost, repeated
\* or sent again too early, and whoever leaves: one bit is enough.
THEOREM PrefixReceived ==
    ASSUME "reordering" \notin NetFaults
    PROVE  Spec => []ReceivedIsPrefix
<1>1. SInv => ReceivedIsPrefix
  BY DEF SInv
<1>2. EmptyInv => ReceivedIsPrefix
  BY DEF EmptyInv, ReceivedIsPrefix
<1>3. CASE Ordinary
  BY <1>1, <1>3, Invariance, PTL
<1>4. CASE NChunks = 0
  BY <1>2, <1>4, EmptyStaysEmpty, PTL
<1> QED
  BY <1>3, <1>4, OrdinaryOrEmpty

\* The client never runs ahead of the server's file.
THEOREM ClientOneAhead ==
    ASSUME "reordering" \notin NetFaults
    PROVE  Spec => []OneAhead
<1>1. SInv => OneAhead
  BY DEF SInv, PhaseInv, OneAhead, Active
<1>2. NChunks = 0 /\ EmptyInv => OneAhead
  BY DEF EmptyInv, CountInv, TypeOK, OneAhead
<1>3. CASE Ordinary
  BY <1>1, <1>3, Invariance, PTL
<1>4. CASE NChunks = 0
  BY <1>2, <1>4, EmptyStaysEmpty, PTL
<1> QED
  BY <1>3, <1>4, OrdinaryOrEmpty

\* An upload reported as completed is in the server's file, whole and kept.
THEOREM CompletedKept == ASSUME Ordinary PROVE Spec => []CompletedIsKept
<1>1. SInv => CompletedIsKept
  BY DEF SInv, SavedInv, ReceivedIsPrefix, CompletedIsKept
<1> QED
  BY <1>1, Invariance, PTL

\* The chunk the server takes is the next one, and the last exactly when it
\* carries FIN; a FIN without a chunk is from a client that gave up.
LEMMA ExpectedChunk ==
    ASSUME Ordinary, SInv, spc = "chunk",
           NEW i \in Deliverable(c2s), c2s[i].seq = sseq
    PROVE  \/ c2s[i].data = 0 /\ (c2s[i].fin => ClientGaveUp)
           \/ /\ c2s[i].data = Len(data) + 1 /\ c2s[i].data <= NChunks
              /\ c2s[i].fin <=> c2s[i].data = NChunks
<1>1. /\ Open /\ TypeOK /\ SentInv /\ PhaseInv /\ GoneInv /\ SavedInv
      /\ NChunks \in Nat
      /\ c2s[i] \in Range(c2s)
  BY SawUploadAssumption DEF SInv, Open, Deliverable, Range
<1>2. CASE Active
  <2>1. c2s[i] = clast /\ ~Got /\ ~Refused
    BY <1>1, <1>2, ExpectedOfActive
  <2>2. cpc \in {"chunk", "closing"} /\ Len(data) = sent - 1
    BY <1>1, <1>2, <2>1, LastSent DEF PhaseInv
  <2>3. /\ clast.data = sent /\ sent \in 0 .. NChunks
        /\ clast.fin <=> cpc = "closing"
        /\ cpc = "closing" <=> sent = NChunks
    BY <1>1, <1>2, <2>2, LastSent DEF SentInv, TypeOK
  <2> QED
    BY <1>1, <2>1, <2>2, <2>3
<1>3. CASE Gone
  <2>1. \/ c2s[i].data = 0 /\ c2s[i] \in Leaving
        \/ /\ c2s[i].data = Len(data) + 1 /\ c2s[i].data <= NChunks
           /\ c2s[i].fin <=> c2s[i].data = NChunks
    BY <1>1, <1>3, ExpectedOfGone
  <2>2. c2s[i] \in Leaving => ClientGaveUp
    BY <1>1, <1>3 DEF GoneInv
  <2> QED
    BY <2>1, <2>2
<1>4. Active \/ Gone
  BY <1>1 DEF Active, Gone, SavedInv, TypeOK, ClientWaits, ClientEnds
<1> QED
  BY <1>2, <1>3, <1>4

\* A step of the upload of a file with chunks.
LEMMA TransferStep ==
    ASSUME Ordinary, SInv, [Next]_vars
    PROVE  [Transfer!Next \/ EarlyEnd]_<<data, outcome>>
 <1>1. CASE UNCHANGED <<spc, data>>
  BY <1>1 DEF outcome
<1>2. ASSUME data' = data, spc' = spc \/ outcome' = outcome
             \/ (outcome = "open" /\ outcome' = "failed")
      PROVE  [Transfer!Next]_<<data, outcome>>
  BY <1>1, <1>2 DEF Transfer!Next, Transfer!Fail, outcome
<1>3. CASE ServerGivesUp
  BY <1>2, <1>3 DEF ServerGivesUp, outcome
<1>4. ASSUME NEW i \in Deliverable(c2s), ServerReceivesAt(i)
      PROVE  [Transfer!Next \/ EarlyEnd]_<<data, outcome>>
  <2>1. CASE Relisten
    BY <1>1, <2>1 DEF Relisten
  <2>2. CASE ServerFilename_Receives(i) \/ ServerFilesize_Receives(i)
             \/ ServerCloses_Answer(i) \/ ServerRejects_Answer(i)
    BY <1>2, <2>1, <2>2
    DEF ServerFilename_Receives, ServerFilesize_Receives, ServerCloses_Answer,
        ServerRejects_Answer, Reject, Relisten, outcome
  <2>3. CASE ServerChunk_Receives(i) /\ ~Relisten
    <3>1. /\ spc = "chunk" /\ c2s[i].seq = sseq /\ outcome = "open"
          /\ data' = Stored(c2s[i].data)
          /\ \/ ~c2s[i].fin /\ spc' = spc
             \/ c2s[i].fin /\ spc' = "closing"
      BY <2>3 DEF ServerChunk_Receives, IsExpected, outcome
    <3>2. CASE c2s[i].data = 0 /\ (c2s[i].fin => ClientGaveUp)
      <4>1. data' = data
        BY <3>1, <3>2 DEF Stored
      <4>2. CASE c2s[i].fin
        BY <3>1, <3>2, <4>1, <4>2 DEF EarlyEnd, outcome
      <4>3. CASE ~c2s[i].fin
        BY <1>1, <3>1, <4>1, <4>3
      <4> QED
        BY <4>2, <4>3
    <3>3. CASE /\ c2s[i].data = Len(data) + 1 /\ c2s[i].data <= NChunks
               /\ c2s[i].fin <=> c2s[i].data = NChunks
      <4>1. Len(data) \in Nat /\ NChunks \in Nat
        BY SawUploadAssumption DEF SInv, TypeOK
      <4>2. data' = Append(data, Len(data) + 1)
        BY <3>1, <3>3, <4>1 DEF Stored
      <4>3. CASE c2s[i].fin
        <5>1. outcome' = "complete" /\ Len(data) + 1 = NChunks
          BY <3>1, <3>3, <4>3 DEF outcome
        <5> QED
          BY <3>1, <4>2, <5>1 DEF Transfer!Next, Transfer!AddLastChunk
      <4>4. CASE ~c2s[i].fin
        <5>1. outcome' = outcome /\ Len(data) + 1 < NChunks
          BY <3>1, <3>3, <4>1, <4>4 DEF outcome
        <5> QED
          BY <3>1, <4>2, <5>1 DEF Transfer!Next, Transfer!AddChunk
      <4> QED
        BY <4>3, <4>4
    <3> QED
      BY <3>1, <3>2, <3>3, ExpectedChunk
  <2> QED
    BY <1>4, <2>1, <2>2, <2>3 DEF ServerReceivesAt
<1>5. CASE UNCHANGED server
  BY <1>1, <1>5 DEF server
<1> QED
  BY <1>1, <1>3, <1>4, <1>5
  DEF Next, vars, ClientReceives, ClientInforms_Answer, ClientChunk_Ack,
      ClientCloses_Answer, ClientFinalizes_Answer, ClientRetransmits,
      ClientGivesUp, ClientStops, ServerRetransmits, Relisten, Lose, Finished

\* A step of the upload of an empty file.
LEMMA EmptyTransferStep ==
    ASSUME NChunks = 0, EmptyInv, EmptyInv', [Next]_vars
    PROVE  [Transfer!Next \/ EarlyEnd]_<<data, outcome>>
<1>1. data' = data
  BY DEF EmptyInv
<1>2. ASSUME \/ outcome' = outcome
             \/ outcome = "open" /\ outcome' \in {"failed", "complete"}
      PROVE  [Transfer!Next \/ EarlyEnd]_<<data, outcome>>
  BY <1>1, <1>2 DEF Transfer!Next, Transfer!Fail, Transfer!CompleteEmpty
<1>3. spc' = spc => outcome' = outcome
  BY DEF outcome
<1>4. ServerGivesUp => outcome' = outcome \/ (outcome = "open" /\ outcome' = "failed")
  BY DEF ServerGivesUp, outcome
<1>5. ASSUME NEW i \in Deliverable(c2s), ServerReceivesAt(i)
      PROVE  \/ outcome' = outcome
             \/ outcome = "open" /\ outcome' \in {"failed", "complete"}
  BY <1>5 DEF ServerReceivesAt, ServerFilename_Receives, ServerFilesize_Receives,
      ServerChunk_Receives, ServerCloses_Answer, ServerRejects_Answer, Relisten,
      Reject, outcome
<1>6. UNCHANGED server => spc' = spc
  BY DEF server
<1>7. ServerRetransmits => spc' = spc
  BY DEF ServerRetransmits, Relisten
<1>8. Lose \/ UNCHANGED vars => spc' = spc
  BY DEF Lose, vars, server
<1> QED
  BY <1>2, <1>3, <1>4, <1>5, <1>6, <1>7, <1>8, StepOfOneEnd

\* A step of the server's connection is one of an in-order, all-or-nothing
\* transfer: chunks one at a time, success with the last one only, and no
\* way back from an end.  A client that gave up is the exception.
THEOREM TransferImplemented ==
    ASSUME "reordering" \notin NetFaults
    PROVE  Spec => ImplementsTransfer
<1>1. Init => Transfer!Init
  BY DEF Init, Transfer!Init, outcome
<1>2. CASE Ordinary
  <2>1. SInv /\ [Next]_vars => [Transfer!Next \/ EarlyEnd]_<<data, outcome>>
    BY <1>2, TransferStep
  <2> QED
    BY <1>1, <1>2, <2>1, Invariance, PTL DEF ImplementsTransfer, Spec
<1>3. CASE NChunks = 0
  <2>1. EmptyInv /\ EmptyInv' /\ [Next]_vars => [Transfer!Next \/ EarlyEnd]_<<data, outcome>>
    BY <1>3, EmptyTransferStep
  <2> QED
    BY <1>1, <1>3, <2>1, EmptyStaysEmpty, PTL DEF ImplementsTransfer, Spec
<1> QED
  BY <1>2, <1>3, OrdinaryOrEmpty
===============================================================================
