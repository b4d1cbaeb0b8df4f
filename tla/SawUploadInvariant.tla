-------------------------- MODULE SawUploadInvariant --------------------------
(***************************************************************************)
(* The inductive invariant of SawUpload: why one bit is enough on a path   *)
(* that keeps the order, and why the packets of a client that gives up,    *)
(* which carry the expected bit, store nothing.                            *)
(***************************************************************************)
EXTENDS SawUpload

\* What handle_connection_finalization sends: no payload, ACK or FIN.
Leaving == {p \in Packet : p.data = 0 /\ (p.ack \/ p.fin)}

Numbered(n) == {p \in Packet : p.seq = n}

ToClient == Range(s2c) \cup {slast}

Active   == cpc \in {"filename", "filesize", "chunk", "closing"}
Gone     == cpc \in {"finalizing", "closed", "stopped"}
Open     == spc \in {"filename", "filesize", "chunk"}
Refused  == spc \in {"rejecting", "rejected"}

\* The server has taken what the client sent last.
Got == sseq # cseq /\ ~Refused

\* Every number is one bit.
BitInv ==
    /\ clast \in BitPacket /\ slast \in BitPacket
    /\ c2s \in Seq(BitPacket) /\ s2c \in Seq(BitPacket)

\* The instances the invariant is for: a file with a chunk to send, over a
\* path that keeps the order.
Ordinary == NChunks > 0 /\ "reordering" \notin NetFaults

\* What the client sent last is what its phase has to confirm.
SentInv ==
    /\ cpc = "filename" => /\ sent = 0 /\ cseq = FilenameSeq
                           /\ clast = DataPkt(cseq, 0, 0, FALSE)
    /\ cpc = "filesize" => sent = 0 /\ clast = DataPkt(cseq, 0, NChunks, FALSE)
    /\ cpc \in {"chunk", "closing"} =>
           /\ sent > 0 /\ (cpc = "closing" <=> sent = NChunks)
           /\ clast = DataPkt(cseq, 0, sent, sent = NChunks)
    /\ cpc = "finalizing" => clast \in Leaving /\ ClientGaveUp

\* Both ends are in the same phase, or the server is one packet ahead.
PhaseInv ==
    Active =>
        /\ Refused => cpc \in ClientInforms
        /\ cpc \in ClientInforms => data = <<>>
        /\ cpc = "filename" /\ ~Refused =>
               spc \in {IF Got THEN "filesize" ELSE "filename", "failed"}
        /\ cpc = "filesize" /\ ~Refused =>
               spc \in {IF Got THEN "chunk" ELSE "filesize", "failed"}
        /\ cpc \in {"chunk", "closing"} =>
               /\ Len(data) = IF Got THEN sent ELSE sent - 1
               /\ spc \in IF Got /\ cpc = "closing" THEN {"closing", "done"}
                                                    ELSE {"chunk", "failed"}

\* Each channel holds packets of the phase before, and behind them those of
\* this phase: to the server while it has not taken one, from it afterwards.
ChannelInv ==
    Active =>
        /\ \A p \in Range(c2s) : ~p.ack /\ (p.fin => p.data # 0 /\ cpc = "closing")
        /\ ~Got => /\ Follows(c2s, {clast})
                   /\ \A p \in Range(c2s) : p.seq = cseq => p = clast
                   /\ \A p \in ToClient : p.seq # cseq
        /\ Got  => /\ Range(c2s) \subseteq {clast}
                   /\ Follows(s2c, Numbered(cseq))
                   /\ slast.seq = cseq

\* A client that has gone leaves at most one chunk for the server to take,
\* and behind it packets without payload only.
GoneInv ==
    Gone /\ Open =>
        /\ Follows(c2s, Leaving)
        /\ Follows(c2s, Leaving \cup Numbered(sseq))
        /\ spc = "chunk" =>
               \A p \in Range(c2s) \ Leaving :
                   p.seq = sseq => /\ p.data = Len(data) + 1 /\ p.data <= NChunks
                                   /\ p.fin <=> p.data = NChunks
        /\ ClientGaveUp \/ Range(c2s) \cap Leaving = {}

\* A file is saved when the server closes, and whole if the client completed.
SavedInv ==
    /\ spc \in {"closing", "done"} => disk = "saved"
    /\ cpc = "completed" => spc \in {"closing", "done"} /\ Len(data) = NChunks

\* The inductive invariant: every part above, with the type invariant.
SInv ==
    /\ TypeOK /\ ReceivedIsPrefix
    /\ BitInv /\ SentInv
    /\ PhaseInv /\ ChannelInv
    /\ GoneInv /\ SavedInv

-----------------------------------------------------------------------------
(* What needs no order of the path.                                        *)

\* The client counts no chunk beyond the file's.
CountInv ==
    /\ TypeOK
    /\ cpc \in ClientInforms => sent = 0
    /\ cpc = "chunk" => sent < NChunks

\* Nothing is stored of an empty file.
EmptyInv ==
    /\ CountInv
    /\ data = <<>>
    /\ c2s \in Seq(EmptyPacket) /\ clast \in EmptyPacket
===============================================================================
