----------------------------- MODULE SawDownload -----------------------------
(***************************************************************************)
(* One download under Stop-and-Wait, from the file name to the closing     *)
(* handshake: the client's DownloadClient and the server's                 *)
(* ClientConnectionSaw, over two UDP channels.                             *)
(*                                                                         *)
(* The sequence number alternates: 0 is the file name's, and chunk k of    *)
(* the file (k = 1 .. NChunks) has (k + 1) % 2, for the first chunk is the *)
(* confirmation of the name.  The last chunk carries FIN.                  *)
(***************************************************************************)
EXTENDS Network, Packets

CONSTANTS
    NChunks,    \* chunks of the file to download
    Leaves,     \* who may leave before the end: the client or the server
                \* at its limit of 30 s or 300 attempts, or the client when
                \* its user quits ("quit")
    EarlyTimers \* whether a retransmission timer may expire while what its
                \* owner sent is still on its way

ASSUME SawDownloadAssumption ==
    /\ NChunks \in Nat
    /\ Leaves \subseteq {"client", "quit", "server"}
    /\ EarlyTimers \in BOOLEAN

VARIABLES
    cpc,        \* what the client waits for, or how it ended
    cseq,       \* the number the client expects
    data,       \* the chunks appended to its file
    disk,       \* what is at its path; "saved" is also download_completed
    clast,      \* the packet its socket retransmits
    spc,        \* what the server's connection waits for, or how it ended
    sseq,       \* the number the server waits for
    sent,       \* the chunks read from its file and sent
    exists,     \* whether the file is in the storage directory
    slast,      \* the packet its socket retransmits
    c2s, s2c    \* the two channels

client == <<cpc, cseq, data, disk, clast>>
server == <<spc, sseq, sent, exists, slast>>
vars   == <<client, server, c2s, s2c>>

FilenameSeq == 0

\* SequenceNumber.step of this protocol.
Step(n) == 1 - n

ClientReceiving == {"filename", "chunk"}
ClientWaits     == {"filename", "chunk", "finalizing"}
ClientEnds      == {"closed", "stopped", "crashed"}
ServerWaits     == {"filename", "chunk", "closing", "refusing"}
ServerEnds      == {"done", "refused", "failed"}

TypeOK ==
    /\ cpc \in ClientWaits \cup ClientEnds
    /\ cseq \in {0, 1}
    /\ data \in Seq(Nat)
    /\ disk \in {"partial", "saved", "absent"}
    /\ clast \in Packet
    /\ spc \in ServerWaits \cup ServerEnds
    /\ sseq \in {0, 1} /\ sent \in 0 .. NChunks
    /\ exists \in BOOLEAN
    /\ slast \in Packet
    /\ c2s \in Seq(Packet) /\ s2c \in Seq(Packet)

(***************************************************************************)
(* The client has created its file and sent the name after its operation   *)
(* was confirmed; copies of that confirmation may still arrive.            *)
(***************************************************************************)
Init ==
    /\ cpc = "filename" /\ cseq = FilenameSeq
    /\ data = <<>> /\ disk = "partial"
    /\ clast = DataPkt(FilenameSeq, 0, 0, FALSE)
    /\ spc = "filename" /\ sseq = FilenameSeq /\ sent = 0
    /\ exists \in BOOLEAN
    /\ slast = AckPkt(1, 0)
    /\ c2s = <<clast>>
    /\ s2c \in {<<>>, <<AckPkt(1, 0)>>}

\* The retransmission timer of the endpoint that sends to ch may expire.
TimerExpires(ch) == EarlyTimers \/ ch = <<>>

-----------------------------------------------------------------------------
(* The client *)

\* file_cleanup_after_error: only a completed download is kept.
MutCleanedUp == disk                    \* nothing removed
CleanedUp == IF disk = "saved" THEN "saved" ELSE "absent"

\* handle_connection_finalization up to its wait for the number after s.
Finalize(s) ==
    /\ cpc' = "finalizing"
    /\ clast' = FinPkt(s, 0)
    /\ c2s' = Send(Send(c2s, AckPkt(s, 0)), clast')
    /\ cseq' = Step(s)

\* perform_download's answer to a missing file or a lost connection.
Abort == Finalize(Step(cseq)) /\ UNCHANGED <<data, disk>>

\* re_listen_if_failed after a packet that is not the awaited one, or a
\* timer: the packet is sent again.
MutClientRelistens == UNCHANGED <<client, c2s>>     \* ... and only listens
ClientRelistens ==
    /\ c2s' = Send(c2s, clast)
    /\ UNCHANGED <<cpc, cseq, data, disk, clast>>

\* One chunk of receive_file_saw: all but the last are acknowledged; the
\* last completes the download, closes the file and is answered by the
\* finalization.
StoreChunk(p) ==
    /\ data' = IF p.data = 0 THEN data ELSE Append(data, p.data)
    /\ IF p.fin
       THEN Finalize(cseq) /\ disk' = "saved"
       ELSE /\ clast' = AckPkt(cseq, 0)
            /\ c2s' = Send(c2s, clast')
            /\ cpc' = "chunk" /\ cseq' = Step(cseq)
            /\ disk' = disk

\* wait_for_ack of the name's confirmation, in its order: ACK, FIN, number.
\* A FIN with a payload is the first and only chunk, whatever its number.
NoSuchFile(p)   == ~p.ack \/ (p.fin /\ p.data = 0)
MutIsFirstChunk(p) == p.ack /\ ~NoSuchFile(p)       \* the number is not compared
IsFirstChunk(p) == p.ack /\ IF p.fin THEN p.data # 0 ELSE p.seq = cseq

\* inform_name_to_download, and receive_file_saw up to the second chunk.
ClientName_Answer(i) ==
    /\ cpc = "filename"
    /\ s2c' \in AfterReceipt(s2c, i)
    /\ LET p == s2c[i] IN
       \/ NoSuchFile(p) /\ Abort
       \/ IsFirstChunk(p) /\ StoreChunk(p)
       \/ ~NoSuchFile(p) /\ ~IsFirstChunk(p) /\ ClientRelistens
    /\ UNCHANGED server

\* receive_file_chunk_saw: any packet with the expected number.
MutIsExpected(p) == TRUE
IsExpected(p) == p.seq = cseq

ClientChunk_Receives(i) ==
    /\ cpc = "chunk"
    /\ s2c' \in AfterReceipt(s2c, i)
    /\ \/ IsExpected(s2c[i]) /\ StoreChunk(s2c[i])
       \/ ~IsExpected(s2c[i]) /\ ClientRelistens
    /\ UNCHANGED server

\* wait_for_fin_or_ack of the finalization; a download that failed then
\* removes its file.
ClientFinalizes_Answer(i) ==
    /\ cpc = "finalizing"
    /\ s2c' \in AfterReceipt(s2c, i)
    /\ LET p == s2c[i] IN
       \/ /\ p.seq = cseq /\ (p.ack \/ p.fin)
          /\ cpc' = "closed" /\ disk' = CleanedUp
          /\ UNCHANGED <<cseq, data, clast, c2s>>
       \/ ~(p.seq = cseq /\ (p.ack \/ p.fin)) /\ ClientRelistens
    /\ UNCHANGED server

\* SocketSaw.recvfrom_with_retransmission: nothing for 15 ms.
ClientRetransmits ==
    /\ cpc \in ClientWaits /\ TimerExpires(c2s)
    /\ ClientRelistens
    /\ UNCHANGED <<server, s2c>>

(***************************************************************************)
(* 30 s or 300 attempts.  ConnectionLost while the client receives         *)
(* finalizes on its own; any other exception goes straight to the          *)
(* clean-up.  In the finalization ConnectionLost is caught; another        *)
(* exception is caught, with the clean-up, if the download is complete,    *)
(* and by nothing if the finalization itself answers a failure.            *)
(***************************************************************************)
ClientGivesUp ==
    /\ "client" \in Leaves
    /\ \/ cpc \in ClientReceiving /\ Abort
       \/ /\ cpc \in ClientWaits
          /\ cpc' = "closed" /\ disk' = CleanedUp
          /\ UNCHANGED <<cseq, data, clast, c2s>>
       \/ /\ cpc = "finalizing" /\ disk # "saved"
          /\ cpc' = "crashed"
          /\ UNCHANGED <<cseq, data, disk, clast, c2s>>
    /\ UNCHANGED <<server, s2c>>

\* The user quits (Client.stop): nothing can be sent any more.
ClientStops ==
    /\ "quit" \in Leaves /\ cpc \in ClientWaits
    /\ cpc' = "stopped" /\ disk' = CleanedUp
    /\ UNCHANGED <<cseq, data, clast, server, c2s, s2c>>

-----------------------------------------------------------------------------
(* The server's connection *)

Relisten ==
    /\ s2c' = Send(s2c, slast)
    /\ UNCHANGED <<spc, sseq, sent, exists, slast>>

\* transmit_file's next chunk with number n: its ACK is awaited by
\* wait_for_ack, or by closing_handshake_for_download if it is the last.
SendChunk(n) ==
    /\ sent' = sent + 1
    /\ sseq' = n
    /\ slast' = IF sent = 0 THEN FirstChunkPkt(n, 0, sent', sent' = NChunks)
                            ELSE DataPkt(n, 0, sent', sent' = NChunks)
    /\ s2c' = Send(s2c, slast')
    /\ spc' = IF sent' = NChunks THEN "closing" ELSE "chunk"

\* The FIN for a missing file, and initiate_close_connection up to its wait.
Refuse ==
    /\ spc' = "refusing"
    /\ sseq' = Step(sseq)
    /\ slast' = FinPkt(sseq', 0)
    /\ s2c' = Send(Send(s2c, FinPkt(sseq, 0)), slast')
    /\ sent' = sent

\* receive_file_info_for_download.  Nothing is sent of an empty file: the
\* closing phase starts with the name unanswered.
ServerFilename_Receives(i) ==
    /\ spc = "filename"
    /\ c2s' \in AfterReceipt(c2s, i)
    /\ \/ c2s[i].seq = sseq /\ ~exists /\ Refuse
       \/ c2s[i].seq = sseq /\ exists /\ NChunks > 0 /\ SendChunk(sseq)
       \/ /\ c2s[i].seq = sseq /\ exists /\ NChunks = 0
          /\ spc' = "closing" /\ UNCHANGED <<sseq, sent, slast, s2c>>
       \/ c2s[i].seq # sseq /\ Relisten
    /\ UNCHANGED <<client, exists>>

\* wait_for_ack of a chunk, in its order: ACK, FIN, number.
MutConfirms(p) == p.seq = sseq          \* the ACK flag is not looked at
Confirms(p) == p.ack /\ ~p.fin /\ p.seq = sseq

ServerChunk_Ack(i) ==
    /\ spc = "chunk"
    /\ c2s' \in AfterReceipt(c2s, i)
    /\ \/ Confirms(c2s[i]) /\ SendChunk(Step(sseq))
       \/ ~Confirms(c2s[i]) /\ Relisten
    /\ UNCHANGED <<client, exists>>

\* wait_for_fin_or_ack; answered by an ACK of the number after it.
MutEndsWait(p) == p.ack \/ p.fin        \* the number is not compared
EndsWait(p) == p.seq = sseq /\ (p.ack \/ p.fin)

AnswerEnd ==
    /\ sseq' = Step(sseq)
    /\ slast' = AckPkt(sseq', 0)
    /\ s2c' = Send(s2c, slast')
    /\ sent' = sent

\* closing_handshake_for_download: "File transfer complete".
ServerCloses_Answer(i) ==
    /\ spc = "closing"
    /\ c2s' \in AfterReceipt(c2s, i)
    /\ \/ EndsWait(c2s[i]) /\ spc' = "done" /\ AnswerEnd
       \/ ~EndsWait(c2s[i]) /\ Relisten
    /\ UNCHANGED <<client, exists>>

\* The end of initiate_close_connection.
ServerRefuses_Answer(i) ==
    /\ spc = "refusing"
    /\ c2s' \in AfterReceipt(c2s, i)
    /\ \/ EndsWait(c2s[i]) /\ spc' = "refused" /\ AnswerEnd
       \/ ~EndsWait(c2s[i]) /\ Relisten
    /\ UNCHANGED <<client, exists>>

ServerRetransmits ==
    /\ spc \in ServerWaits /\ TimerExpires(s2c)
    /\ Relisten
    /\ UNCHANGED <<client, c2s>>

\* 30 s or 300 attempts, or the server's stop: a file that is read needs no
\* clean-up, and initiate_close_connection swallows its failures.
ServerGivesUp ==
    /\ "server" \in Leaves /\ spc \in ServerWaits
    /\ spc' = IF spc = "refusing" THEN "refused" ELSE "failed"
    /\ UNCHANGED <<client, sseq, sent, exists, slast, c2s, s2c>>

-----------------------------------------------------------------------------
Lose ==
    /\ \/ c2s' \in AfterLoss(c2s) /\ s2c' = s2c
       \/ s2c' \in AfterLoss(s2c) /\ c2s' = c2s
    /\ UNCHANGED <<client, server>>

ClientReceives(i) ==
    \/ ClientName_Answer(i)
    \/ ClientChunk_Receives(i)
    \/ ClientFinalizes_Answer(i)

ServerReceivesAt(i) ==
    \/ ServerFilename_Receives(i)
    \/ ServerChunk_Ack(i)
    \/ ServerCloses_Answer(i)
    \/ ServerRefuses_Answer(i)

\* Both ends are finished: the only states without another step.
Finished ==
    /\ cpc \in ClientEnds /\ spc \in ServerEnds
    /\ UNCHANGED vars

Next ==
    \/ \E i \in Deliverable(s2c) : ClientReceives(i)
    \/ \E i \in Deliverable(c2s) : ServerReceivesAt(i)
    \/ ClientRetransmits \/ ClientGivesUp \/ ClientStops
    \/ ServerRetransmits \/ ServerGivesUp
    \/ Lose
    \/ Finished

Spec == Init /\ [][Next]_vars

-----------------------------------------------------------------------------
(* Fairness: a link that delivers what is sent to it again and again, and  *)
(* does not repeat one datagram for ever, and the timers of both ends.     *)

ServerTakes(s, isAck) ==
    \E i \in Deliverable(c2s) :
        /\ c2s[i].seq = s /\ c2s[i].ack = isAck
        /\ ServerReceivesAt(i) /\ Len(c2s') < Len(c2s)

ClientTakes(s) ==
    \E i \in Deliverable(s2c) :
        /\ s2c[i].seq = s
        /\ ClientReceives(i) /\ Len(s2c') < Len(s2c)

FairSpec ==
    /\ Spec
    /\ \A s \in {0, 1}, isAck \in BOOLEAN : SF_vars(ServerTakes(s, isAck))
    /\ \A s \in {0, 1} : SF_vars(ClientTakes(s))
    /\ WF_vars(ClientRetransmits) /\ WF_vars(ServerRetransmits)

-----------------------------------------------------------------------------
(* Properties *)

\* The client's file is always a prefix of the server's, although one bit
\* numbers the chunks and the first also answers the name.
ReceivedIsPrefix == data = [k \in 1 .. Len(data) |-> k]

\* The server never runs ahead: the chunk it sends is the last one of the
\* client's file or the one after it.
OneAhead == spc \in {"chunk", "closing"} => Len(data) \in {sent - 1, sent}

\* "File transfer complete" at the server is true: the client has the whole
\* file, and keeps it however its own end of the connection fails.
DoneIsReceived ==
    spc = "done" => data = [k \in 1 .. NChunks |-> k] /\ disk = "saved"

\* A client that ends by itself leaves the whole file or none.
LeavesNoPart ==
    cpc \in {"closed", "stopped"} =>
        disk = "absent" \/ (disk = "saved" /\ Len(data) = NChunks)

\* The client's side implements an in-order, all-or-nothing transfer.
outcome == CASE disk = "saved" -> "complete"
             [] disk # "saved" /\ cpc \in ClientReceiving -> "open"
             [] OTHER -> "failed"

Transfer == INSTANCE FileTransfer WITH stored <- data

ImplementsTransfer == Transfer!Spec

\* A file that exists arrives, and both ends know it, however many packets
\* are lost, unless an end leaves.
Left ==
    \/ cpc \in ClientEnds \/ spc = "failed"
    \/ disk # "saved" /\ cpc = "finalizing"

DownloadCompletes == exists => <>((disk = "saved" /\ spc = "done") \/ Left)
===============================================================================
