------------------------- MODULE GbnDownloadInvariant -------------------------
(***************************************************************************)
(* The inductive invariant of GbnDownload: why the client's file is a      *)
(* prefix of the server's although the second chunk is dropped once,       *)
(* packets out of order are acknowledged, and the server may end before    *)
(* the last chunk is stored.                                               *)
(***************************************************************************)
EXTENDS GbnDownload

\* The packets that were sent and may still be received, or sent again.
ToServer == Range(c2s) \cup {clast}
ToClient == Range(s2c) \cup {slast}

\* The client left before it stored anything, or the server is done: what
\* the client sends has no effect any more.
Detached == spc = "done" \/ (data = <<>> /\ cpc \notin ClientReceiving)

\* A refused client gets no chunk, and nothing it takes for one.
Refusal(p) == p.data = 0 /\ (p.ack => p.an # FilenameSeq)

RefusedInv ==
    ~exists =>
        /\ data = <<>> /\ base = 0
        /\ spc \in {"filename", "refusing", "refused", "failed"}
        /\ cpc \notin {"first", "loop"}
        /\ \A p \in ToClient : Refusal(p)

\* A chunk carries its number, FIN if it is the last, ACK only if it is the
\* first, and is at most one window beyond what is acknowledged.
ChunkFits(p) ==
    /\ p.seq = p.data + 1
    /\ p.data <= NChunks /\ p.data <= base + Window
    /\ p.fin <=> p.data = NChunks
    /\ p.ack => p.data = 1

ChunkInv == \A p \in ToClient : p.data # 0 => ChunkFits(p)

\* An empty packet of a server that has the file is no FIN, answers the
\* operation or the name, or is the last that the server sends.
EmptyFits(p) ==
    /\ ~p.fin
    /\ \/ p.seq < FilenameSeq
       \/ p.seq = FilenameSeq /\ (NChunks = 0 \/ ~p.ack)
       \/ p.seq > FilenameSeq /\ p.seq >= LastSeq /\ spc = "done"

EmptyInv == exists => \A p \in ToClient : p.data = 0 => EmptyFits(p)

\* The stored chunks are the first ones, in order, between the sender's
\* base and the end of its window.
StoredInv ==
    /\ data = [k \in 1 .. Len(data) |-> k]
    /\ Len(data) <= NChunks
    /\ base <= Len(data) \/ NChunks = 0
    /\ Len(data) <= base + Window

\* The number the client expects follows what it stored, until the last
\* packet of a server that is done is taken for an empty chunk.
ClientInv ==
    /\ cpc = "filename" => cseq = FilenameSeq /\ data = <<>>
    /\ cpc = "first" => /\ cseq = FilenameSeq
                        /\ Len(data) = 1 \/ NChunks = 0
    /\ cpc = "loop" =>
          /\ cseq > FilenameSeq
          /\ cseq = Len(data) + Offset \/ (cseq > LastSeq /\ spc = "done")
    /\ disk = "saved" => Len(data) = NChunks
    /\ cpc \in ClientReceiving => disk = "partial"
    /\ cpc \in {"closed", "stopped"} => disk # "partial"

\* An answer reaches at most one chunk beyond what is stored; only one of a
\* client that stored the first chunk confirms it.
AnswerFits(p) ==
    /\ p.an <= Len(data) + Offset \/ Detached
    /\ p.ack /\ p.seq = FilenameSeq => data # <<>> \/ NChunks = 0

AnswerInv == \A p \in ToServer : AnswerFits(p)

\* The sender's numbers follow its phase; it leaves its loop with all but
\* the last chunk acknowledged.
SenderInv ==
    /\ spc = "filename" => base = 0
    /\ spc = "chunk" => base = 0 /\ sack = FilenameSeq
    /\ spc = "refusing" => ~exists /\ slast.seq = FilenameSeq + 1
    /\ spc \in ServerSends =>
          /\ NChunks > 0 /\ data # <<>>
          /\ base > 0 /\ base <= next /\ sack = base + Offset
    /\ spc = "await" => ~InWindow(next)
    /\ spc \in {"closing", "done"} =>
          /\ next > 0 /\ next + 1 >= NChunks
          /\ base + 1 >= NChunks \/ NChunks <= 1

\* The inductive invariant: every part above, with the type invariant.
GInv ==
    /\ TypeOK
    /\ RefusedInv /\ ChunkInv /\ EmptyInv
    /\ StoredInv /\ ClientInv
    /\ AnswerInv /\ SenderInv

-----------------------------------------------------------------------------
(* What reaches a client that awaits the answer to its name.               *)

\* Such a client has sent its name and nothing else, so that a server with
\* the file has gone no further than the first chunk, which has ACK; only
\* together with GInv is this inductive.
NameInv ==
    cpc = "filename" =>
        /\ \A p \in ToServer : ~p.ack /\ ~p.fin
        /\ exists => /\ spc \in {"filename", "chunk", "closing", "failed"}
                     /\ \A p \in ToClient : p.ack
===============================================================================
