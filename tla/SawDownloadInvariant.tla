------------------------- MODULE SawDownloadInvariant -------------------------
(***************************************************************************)
(* The inductive invariant of SawDownload: why one bit is enough on a path *)
(* that keeps the order, across the first chunk that is also the           *)
(* confirmation of the name, and why nothing a client sends that gives up  *)
(* confirms the last chunk.                                                *)
(***************************************************************************)
EXTENDS SawDownload

ToServer == Range(c2s) \cup {clast}
ToClient == Range(s2c) \cup {slast}

\* What may confirm the packet numbered n.
Confirming(n) == {p \in Packet : p.seq = n /\ (p.ack \/ p.fin)}

\* The client has taken what the server sent last.
Got == cseq # sseq

\* The packet of chunk k with number n.
ChunkPkt(n, k) == IF k = 1 THEN FirstChunkPkt(n, 0, k, k = NChunks)
                           ELSE DataPkt(n, 0, k, k = NChunks)

\* Every number is one bit.
BitInv ==
    /\ clast \in BitPacket /\ slast \in BitPacket
    /\ c2s \in Seq(BitPacket) /\ s2c \in Seq(BitPacket)

\* The instances the invariant is for: a file with a chunk to send, over a
\* path that keeps the order.
Ordinary == NChunks > 0 /\ "reordering" \notin NetFaults

\* A client that awaits the first chunk has confirmed nothing; a file is
\* kept when it is whole, and removed when the client ends before.
ClientInv ==
    /\ cpc = "filename" => /\ cseq = FilenameSeq /\ data = <<>>
                           /\ \A p \in ToServer : ~p.ack /\ ~p.fin
    /\ disk = "saved" <=> Len(data) = NChunks
    /\ cpc \in ClientReceiving => disk = "partial"
    /\ cpc \in {"closed", "stopped"} => disk # "partial"

\* Without the file nothing is sent that could pass for its first chunk.
RefusedInv ==
    ~exists => /\ sent = 0 /\ data = <<>> /\ cpc # "chunk"
               /\ spc \notin {"chunk", "closing", "done"}
               /\ \A p \in ToClient :
                      /\ p.data = 0
                      /\ cpc = "filename" /\ p.ack => p.seq # FilenameSeq

\* With it, the server's packet is the chunk it sent last.
ServerInv ==
    exists =>
        /\ spc \notin {"refusing", "refused"}
        /\ spc = "filename" => sent = 0
        /\ spc \in {"chunk", "closing"} =>
               sent > 0 /\ (spc = "closing" <=> sent = NChunks)
        /\ spc = "done" => disk = "saved"
        /\ spc # "done" =>
               IF sent = 0 THEN slast.seq # FilenameSeq /\ ~slast.fin
                           ELSE slast = ChunkPkt(sseq, sent)

\* The client's file has the chunks sent, or all but the last of them.
StoredInv ==
    exists /\ spc # "done" =>
        IF sent = 0 THEN data = <<>> /\ cseq = FilenameSeq /\ sseq = FilenameSeq
                    ELSE Len(data) = IF Got THEN sent ELSE sent - 1

\* Each channel holds packets of the step before, and behind them those of
\* this one: to the client while it has not taken one, from it afterwards.
ChannelInv ==
    exists /\ spc # "done" =>
        /\ ~Got => ToServer \cap Confirming(sseq) = {}
        /\ Got  => Follows(c2s, Confirming(sseq)) /\ clast \in Confirming(sseq)
        /\ cpc \in ClientReceiving =>
               /\ \A p \in Range(s2c) : p.fin => p = slast
               /\ ~Got => /\ Follows(s2c, {slast})
                          /\ \A p \in Range(s2c) : p.seq = cseq => p = slast
               /\ Got  => Range(s2c) \subseteq {slast}

\* The inductive invariant: every part above, with the type invariant.
DInv ==
    /\ TypeOK /\ ReceivedIsPrefix
    /\ BitInv /\ ClientInv /\ RefusedInv
    /\ ServerInv /\ StoredInv /\ ChannelInv

-----------------------------------------------------------------------------
(* What needs no order of the path.                                        *)

\* The server counts no chunk beyond the file's.
CountInv ==
    /\ TypeOK
    /\ spc = "filename" => sent = 0
    /\ spc = "chunk" => sent < NChunks

\* Nothing is stored of an empty file, and an ended client keeps no part.
EmptyInv ==
    /\ CountInv
    /\ data = <<>>
    /\ s2c \in Seq(EmptyPacket) /\ slast \in EmptyPacket
    /\ cpc \in ClientReceiving => disk = "partial"
    /\ cpc \in {"closed", "stopped"} => disk # "partial"
===============================================================================
