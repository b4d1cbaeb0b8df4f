-------------------------- MODULE GbnUploadInvariant --------------------------
(***************************************************************************)
(* The inductive invariant of GbnUpload: why the server's file is a prefix *)
(* of the client's although the first chunk is refused once, packets out   *)
(* of order are acknowledged, and the packets of a closing client look     *)
(* like chunks.                                                            *)
(***************************************************************************)
EXTENDS GbnUpload

\* The packets that were sent and may still be received, or sent again.
ToServer == Range(c2s) \cup {clast}
ToClient == Range(s2c) \cup {slast}

ClientTransfers == {"send", "await", "closing", "completed"}

\* A packet beyond the two that announce the file; one of them with a
\* payload is a chunk, one without belongs to a finalization.
IsLate(p)  == p.seq >= Offset
IsChunk(p) == IsLate(p) /\ p.data # 0

\* No chunk will ever be stored: the file is empty, the server refused it,
\* or the client gave up before it sent one.
Abandoned ==
    \/ NChunks = 0
    \/ spc \in {"rejecting", "rejected"}
    \/ /\ "setup" \in GivesUp
       /\ cpc \in {"finalizing", "closed", "stopped"}
       /\ \A p \in ToServer : ~IsChunk(p)
       /\ data = <<>>

\* The client's numbers follow its phase.
PhaseInv ==
    /\ cpc = "filename" => cack = FilenameSeq
    /\ cpc = "filesize" => cack = FilesizeSeq
    /\ cpc \in ClientInforms => base = 0 /\ next = 0
    /\ cpc \in ClientTransfers => cack = base + Offset
    /\ cpc \in {"send", "await"} => NChunks > 0
    /\ cpc = "await" => ~InWindow(next)
    /\ cpc = "closing" => next = NChunks
    /\ next <= NChunks

\* While the client informs, no packet looks like a chunk and none is
\* stored.
InformInv ==
    cpc \in ClientInforms =>
        /\ data = <<>>
        /\ \A p \in ToServer : ~IsLate(p)
        /\ spc \notin {"loop", "closing", "done"}

\* A chunk carries its number, FIN if it is the last, and is at most one
\* window beyond what is acknowledged.
ChunkInv ==
    \A p \in ToServer : IsChunk(p) =>
        /\ p.seq = p.data + FilesizeSeq
        /\ p.data <= NChunks /\ p.data <= base + Window
        /\ p.fin <=> p.seq = LastSeq

\* A finalization's packets come after the last chunk.
EmptyInv ==
    \A p \in ToServer :
        IsLate(p) /\ p.data = 0 => p.seq > LastSeq \/ Abandoned

\* The stored chunks are the first ones, in order, between the sender's
\* base and the end of its window.
StoredInv ==
    /\ data = [k \in 1 .. Len(data) |-> k]
    /\ Len(data) <= NChunks
    /\ base <= Len(data)
    /\ Len(data) <= base + Window

\* The number the server expects follows what it stored.
ServerInv ==
    /\ spc = "filename" => sseq = FilenameSeq
    /\ spc \in {"filesize", "first"} => sseq = FilesizeSeq
    /\ spc \in {"filename", "filesize", "first"} => data = <<>>
    /\ spc = "loop" => /\ sseq >= Offset
                       /\ (sseq = Len(data) + Offset /\ sseq <= LastSeq) \/ Abandoned
    /\ spc = "rejecting" => slast.seq >= FilesizeSeq

\* The server answers with an ACK or a FIN; an answer reaches at most one
\* chunk beyond what is stored, and a FIN means that the server closes.
AnswerInv ==
    \A p \in ToClient :
        /\ p.ack <=> ~p.fin
        /\ p.an <= Len(data) + Offset \/ Abandoned
        /\ p.fin => spc \in {"closing", "done", "rejecting", "rejected"}

\* The server closes with the whole file.
WholeInv == spc \in {"closing", "done"} => Len(data) = NChunks \/ Abandoned

\* A client that sends chunks was admitted.
AdmittedInv ==
    spc \in {"filename", "filesize", "rejecting", "rejected"} =>
        /\ cpc \notin ClientTransfers
        /\ \A p \in ToClient : p.ack => p.an # FilesizeSeq

\* The inductive invariant: every part above, with the type invariant.
IInv ==
    /\ TypeOK
    /\ PhaseInv /\ InformInv
    /\ ChunkInv /\ EmptyInv
    /\ StoredInv /\ ServerInv
    /\ AnswerInv /\ WholeInv /\ AdmittedInv

-----------------------------------------------------------------------------
(* Which size the server holds while its client goes on.                   *)

Going == cpc \in ClientInforms \cup ClientTransfers

\* The file size's number is on the file's size only.
CarriesSize(p) == p.seq = FilesizeSeq => p.data = NChunks

\* The server has not taken the size, and has told nobody that it has.
NotSized ==
    /\ spc \in {"filename", "filesize", "rejecting", "rejected", "failed"}
    /\ cpc \in ClientInforms
    /\ \A p \in ToClient : p.ack => p.an # FilesizeSeq

\* As long as the client goes on, what it sends can give the server no
\* other size; only together with IInv is this inductive.
HeldInv ==
    Going => /\ \A p \in ToServer : CarriesSize(p)
             /\ size = NChunks \/ NotSized
===============================================================================
