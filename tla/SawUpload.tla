------------------------------ MODULE SawUpload ------------------------------
(***************************************************************************)
(* One upload under Stop-and-Wait, from the file name to the closing       *)
(* handshake: the client's UploadClient and the server's                   *)
(* ClientConnectionSaw, over two UDP channels.                             *)
(*                                                                         *)
(* The sequence number alternates: 0 is the file name's, 1 the file        *)
(* size's, and chunk k of the file (k = 1 .. NChunks) has (k + 1) % 2.     *)
(* The last chunk carries FIN.  Packets have no ack number (an is 0).      *)
(***************************************************************************)
EXTENDS Network, Packets

CONSTANTS
    NChunks,    \* chunks of the file to upload
    Leaves,     \* who may leave before the end: the client or the server
                \* at its limit of 30 s or 300 attempts, or the client when
                \* its user quits ("quit")
    EarlyTimers \* whether a retransmission timer may expire while what its
                \* owner sent is still on its way

ASSUME SawUploadAssumption ==
    /\ NChunks \in Nat
    /\ Leaves \subseteq {"client", "quit", "server"}
    /\ EarlyTimers \in BOOLEAN

VARIABLES
    cpc,        \* what the client waits for, or how it ended
    cseq,       \* the number the client waits to have confirmed
    sent,       \* the chunks sent at least once
    clast,      \* the packet its socket retransmits
    spc,        \* what the server's connection waits for, or how it ended
    sseq,       \* the number the server expects
    size,       \* the file size it was told, in chunks
    data,       \* the chunks appended to its file
    disk,       \* what is at the file's path in the storage directory
    slast,      \* the packet its socket retransmits
    c2s, s2c    \* the two channels

client == <<cpc, cseq, sent, clast>>
server == <<spc, sseq, size, data, disk, slast>>
vars   == <<client, server, c2s, s2c>>

FilenameSeq == 0
FilesizeSeq == 1

\* SequenceNumber.step of this protocol.
Step(n) == 1 - n

ClientInforms == {"filename", "filesize"}
ClientWaits   == {"filename", "filesize", "chunk", "closing", "finalizing"}
ClientEnds    == {"completed", "closed", "stopped"}
ServerWaits   == {"filename", "filesize", "chunk", "closing", "rejecting"}
ServerEnds    == {"done", "rejected", "failed"}

TypeOK ==
    /\ cpc \in ClientWaits \cup ClientEnds
    /\ cseq \in {0, 1} /\ sent \in 0 .. NChunks
    /\ clast \in Packet
    /\ spc \in ServerWaits \cup ServerEnds
    /\ sseq \in {0, 1} /\ size \in Nat
    /\ data \in Seq(Nat)
    /\ disk \in {"absent", "foreign", "open", "saved"}
    /\ slast \in Packet
    /\ c2s \in Seq(Packet) /\ s2c \in Seq(Packet)

(***************************************************************************)
(* The client has sent the name after its operation was confirmed; copies  *)
(* of that confirmation may still arrive.  The name may be in use.         *)
(***************************************************************************)
Init ==
    /\ cpc = "filename" /\ cseq = FilenameSeq /\ sent = 0
    /\ clast = DataPkt(FilenameSeq, 0, 0, FALSE)
    /\ spc = "filename" /\ sseq = FilenameSeq /\ size = 0
    /\ data = <<>>
    /\ disk \in {"absent", "foreign"}
    /\ slast = AckPkt(1, 0)
    /\ c2s = <<clast>>
    /\ s2c \in {<<>>, <<AckPkt(1, 0)>>}

\* The retransmission timer of the endpoint that sends to ch may expire.
TimerExpires(ch) == EarlyTimers \/ ch = <<>>

-----------------------------------------------------------------------------
(* The client *)

\* send_file_saw's next chunk, with the stepped number: its confirmation is
\* awaited by wait_for_ack, or by the closing phase when it is the last.
SendChunk ==
    /\ sent' = sent + 1
    /\ cseq' = Step(cseq)
    /\ clast' = DataPkt(cseq', 0, sent', sent' = NChunks)
    /\ c2s' = Send(c2s, clast')
    /\ cpc' = IF sent' = NChunks THEN "closing" ELSE "chunk"

\* handle_connection_finalization up to its wait for the number after s.
Finalize(s) ==
    /\ cpc' = "finalizing"
    /\ clast' = FinPkt(s, 0)
    /\ c2s' = Send(Send(c2s, AckPkt(s, 0)), clast')
    /\ cseq' = Step(s)
    /\ sent' = sent

\* re_listen_if_failed after a packet that is not the awaited one, or a
\* timer: the packet is sent again.
MutClientRelistens == UNCHANGED <<client, c2s>>     \* ... and only listens
ClientRelistens ==
    /\ c2s' = Send(c2s, clast)
    /\ UNCHANGED <<cpc, cseq, sent, clast>>

\* wait_for_ack of one packet, in its order: ACK, FIN, number.
MutConfirms(p) == p.ack /\ ~p.fin       \* the number is not compared
Confirms(p) == p.ack /\ ~p.fin /\ p.seq = cseq

\* inform_filename and inform_filesize: an answer that is no ACK, or one
\* with FIN, refuses the upload.  An empty file has no chunk to send.
ClientInforms_Answer(i) ==
    /\ cpc \in ClientInforms
    /\ s2c' \in AfterReceipt(s2c, i)
    /\ LET p == s2c[i] IN
       \/ (~p.ack \/ p.fin) /\ Finalize(Step(cseq))
       \/ /\ Confirms(p) /\ cpc = "filename"
          /\ cpc' = "filesize" /\ cseq' = FilesizeSeq /\ sent' = sent
          /\ clast' = DataPkt(FilesizeSeq, 0, NChunks, FALSE)
          /\ c2s' = Send(c2s, clast')
       \/ /\ Confirms(p) /\ cpc = "filesize"
          /\ IF NChunks > 0
             THEN SendChunk
             ELSE cpc' = "closing" /\ UNCHANGED <<cseq, sent, clast, c2s>>
       \/ p.ack /\ ~p.fin /\ ~Confirms(p) /\ ClientRelistens
    /\ UNCHANGED server

ClientChunk_Ack(i) ==
    /\ cpc = "chunk"
    /\ s2c' \in AfterReceipt(s2c, i)
    /\ \/ Confirms(s2c[i]) /\ SendChunk
       \/ ~Confirms(s2c[i]) /\ ClientRelistens
    /\ UNCHANGED server

\* wait_for_fin_or_ack.
MutCloses(p) == p.ack \/ p.fin          \* the number is not compared
Closes(p) == p.seq = cseq /\ (p.ack \/ p.fin)

\* initiate_close_connection: the upload is reported as completed.
ClientCloses_Answer(i) ==
    /\ cpc = "closing"
    /\ s2c' \in AfterReceipt(s2c, i)
    /\ \/ /\ Closes(s2c[i])
          /\ cpc' = "completed" /\ cseq' = Step(cseq)
          /\ clast' = AckPkt(cseq', 0)
          /\ c2s' = Send(c2s, clast')
          /\ sent' = sent
       \/ ~Closes(s2c[i]) /\ ClientRelistens
    /\ UNCHANGED server

ClientFinalizes_Answer(i) ==
    /\ cpc = "finalizing"
    /\ s2c' \in AfterReceipt(s2c, i)
    /\ \/ Closes(s2c[i]) /\ cpc' = "closed" /\ UNCHANGED <<cseq, sent, clast, c2s>>
       \/ ~Closes(s2c[i]) /\ ClientRelistens
    /\ UNCHANGED server

\* SocketSaw.recvfrom_with_retransmission: nothing for 15 ms.
ClientRetransmits ==
    /\ cpc \in ClientWaits /\ TimerExpires(c2s)
    /\ ClientRelistens
    /\ UNCHANGED <<server, s2c>>

\* 30 s or 300 attempts: ConnectionLost finalizes on its own; any other
\* exception that exhausts re_listen_if_failed just ends the upload.
ClientGivesUp ==
    /\ "client" \in Leaves /\ cpc \in ClientWaits
    /\ \/ cpc # "finalizing" /\ Finalize(Step(cseq))
       \/ cpc' = "closed" /\ UNCHANGED <<cseq, sent, clast, c2s>>
    /\ UNCHANGED <<server, s2c>>

\* The user quits (Client.stop), or the process dies.
ClientStops ==
    /\ "quit" \in Leaves
    /\ cpc \notin ClientEnds
    /\ cpc' = "stopped"
    /\ UNCHANGED <<cseq, sent, clast, server, c2s, s2c>>

-----------------------------------------------------------------------------
(* The server's connection *)

\* initiate_close_connection up to its wait.
Reject ==
    /\ spc' = "rejecting"
    /\ sseq' = Step(sseq)
    /\ slast' = FinPkt(sseq', 0)
    /\ s2c' = Send(s2c, slast')

Relisten ==
    /\ s2c' = Send(s2c, slast)
    /\ UNCHANGED <<spc, sseq, size, data, disk, slast>>

\* An expected packet is acknowledged, and the next number expected.
Acknowledge ==
    /\ slast' = AckPkt(sseq, 0)
    /\ s2c' = Send(s2c, slast')
    /\ sseq' = Step(sseq)

\* receive_file_info_for_upload, the name: refused when the file exists.
ServerFilename_Receives(i) ==
    /\ spc = "filename"
    /\ c2s' \in AfterReceipt(c2s, i)
    /\ \/ /\ c2s[i].seq = sseq
          /\ disk = "foreign"
          /\ Reject
          /\ UNCHANGED <<size, data, disk>>
       \/ /\ c2s[i].seq = sseq
          /\ disk # "foreign"
          /\ disk' = "open" /\ spc' = "filesize"
          /\ Acknowledge
          /\ UNCHANGED <<size, data>>
       \/ c2s[i].seq # sseq /\ Relisten
    /\ UNCHANGED client

\* ... and the size: refused when it does not fit.
ServerFilesize_Receives(i) ==
    /\ spc = "filesize"
    /\ c2s' \in AfterReceipt(c2s, i)
    /\ \/ /\ c2s[i].seq = sseq
          /\ size' = c2s[i].data
          /\ Reject \/ (spc' = "chunk" /\ Acknowledge)
          /\ UNCHANGED <<data, disk>>
       \/ c2s[i].seq # sseq /\ Relisten
    /\ UNCHANGED client

\* receive_file_chunk: any packet with the expected number.
MutIsExpected(p) == TRUE
IsExpected(p) == p.seq = sseq

\* file_handler.append_to_file: an empty payload adds nothing.
Stored(d) == IF d = 0 THEN data ELSE Append(data, d)

\* receive_file's loop; FIN starts closing_handshake_for_upload, after the
\* file is closed.
ServerChunk_Receives(i) ==
    /\ spc = "chunk"
    /\ c2s' \in AfterReceipt(c2s, i)
    /\ LET p == c2s[i] IN
       \/ /\ IsExpected(p) /\ ~p.fin
          /\ data' = Stored(p.data)
          /\ Acknowledge
          /\ UNCHANGED <<spc, size, disk>>
       \/ /\ IsExpected(p) /\ p.fin
          /\ data' = Stored(p.data)
          /\ spc' = "closing" /\ disk' = "saved"
          /\ slast' = FinPkt(sseq, 0)
          /\ s2c' = Send(Send(s2c, AckPkt(sseq, 0)), slast')
          /\ sseq' = Step(sseq)
          /\ UNCHANGED size
       \/ ~IsExpected(p) /\ Relisten
    /\ UNCHANGED client

\* wait_for_ack of the closing handshake.
ServerCloses_Answer(i) ==
    /\ spc = "closing"
    /\ c2s' \in AfterReceipt(c2s, i)
    /\ LET p == c2s[i] IN
       \/ /\ p.ack /\ ~p.fin /\ p.seq = sseq
          /\ spc' = "done"
          /\ UNCHANGED <<sseq, size, data, disk, slast, s2c>>
       \/ ~(p.ack /\ ~p.fin /\ p.seq = sseq) /\ Relisten
    /\ UNCHANGED client

\* wait_for_fin_or_ack of initiate_close_connection.
ServerRejects_Answer(i) ==
    /\ spc = "rejecting"
    /\ c2s' \in AfterReceipt(c2s, i)
    /\ LET p == c2s[i] IN
       \/ /\ p.seq = sseq /\ (p.ack \/ p.fin)
          /\ spc' = "rejected"
          /\ sseq' = Step(sseq) /\ slast' = AckPkt(sseq', 0)
          /\ s2c' = Send(s2c, slast')
          /\ UNCHANGED <<size, data, disk>>
       \/ ~(p.seq = sseq /\ (p.ack \/ p.fin)) /\ Relisten
    /\ UNCHANGED client

ServerRetransmits ==
    /\ spc \in ServerWaits /\ TimerExpires(s2c)
    /\ Relisten
    /\ UNCHANGED <<client, c2s>>

\* remove_file_if_corrupted_or_incomplete.
IncompleteRemoved ==
    disk' = IF Len(data) # size THEN "absent" ELSE disk

\* 30 s or 300 attempts, or the server's stop.  While chunks are awaited a
\* lost connection cleans the file up; 300 packets with another number are
\* a state that "can be recovered", and nothing is cleaned up.
ServerGivesUp ==
    /\ "server" \in Leaves
    /\ \/ spc \in {"filename", "filesize"} /\ spc' = "failed" /\ disk' = disk
       \/ spc = "chunk" /\ spc' = "failed" /\ IncompleteRemoved
       \/ spc = "chunk" /\ spc' = "failed" /\ disk' = disk
       \/ spc = "closing" /\ spc' = "done" /\ disk' = disk
       \/ spc = "rejecting" /\ spc' = "rejected" /\ disk' = disk
    /\ UNCHANGED <<client, sseq, size, data, slast, c2s, s2c>>

-----------------------------------------------------------------------------
Lose ==
    /\ \/ c2s' \in AfterLoss(c2s) /\ s2c' = s2c
       \/ s2c' \in AfterLoss(s2c) /\ c2s' = c2s
    /\ UNCHANGED <<client, server>>

ClientReceives(i) ==
    \/ ClientInforms_Answer(i)
    \/ ClientChunk_Ack(i)
    \/ ClientCloses_Answer(i)
    \/ ClientFinalizes_Answer(i)

ServerReceivesAt(i) ==
    \/ ServerFilename_Receives(i)
    \/ ServerFilesize_Receives(i)
    \/ ServerChunk_Receives(i)
    \/ ServerCloses_Answer(i)
    \/ ServerRejects_Answer(i)

\* Both ends are finished: the only states without another step.
Finished ==
    /\ cpc \in ClientEnds /\ spc \in ServerEnds
    /\ UNCHANGED vars

Next ==
    \/ \E i \in Deliverable(s2c) : ClientReceives(i)
    \/ \E i \in Deliverable(c2s) : ServerReceivesAt(i)
    \/ ClientRetransmits \/ ClientGivesUp \/ ClientStops
    \/ ServerRetransmits \/ ServerGivesUp
    \/ Lose
    \/ Finished

Spec == Init /\ [][Next]_vars

-----------------------------------------------------------------------------
(* Fairness: a link that delivers what is sent to it again and again, and  *)
(* does not repeat one datagram for ever, and the timers of both ends.     *)

ServerTakes(s, last) ==
    \E i \in Deliverable(c2s) :
        /\ c2s[i].seq = s /\ c2s[i].fin = last
        /\ ServerReceivesAt(i) /\ Len(c2s') < Len(c2s)

ClientTakes(s) ==
    \E i \in Deliverable(s2c) :
        /\ s2c[i].seq = s
        /\ ClientReceives(i) /\ Len(s2c') < Len(s2c)

FairSpec ==
    /\ Spec
    /\ \A s \in {0, 1}, last \in BOOLEAN : SF_vars(ServerTakes(s, last))
    /\ \A s \in {0, 1} : SF_vars(ClientTakes(s))
    /\ WF_vars(ClientRetransmits) /\ WF_vars(ServerRetransmits)

-----------------------------------------------------------------------------
(* Properties *)

\* The server's file is always a prefix of the client's, although one bit
\* numbers the packets and every unexpected packet is answered by another.
ReceivedIsPrefix == data = [k \in 1 .. Len(data) |-> k]

\* The client never runs ahead: what it sends is the chunk after the
\* server's file, or the last one of it.
OneAhead == cpc \in {"chunk", "closing"} => Len(data) \in {sent - 1, sent}

\* An upload that the client reports as completed is in the server's file,
\* whole and kept.
CompletedIsKept ==
    cpc = "completed" => data = [k \in 1 .. NChunks |-> k] /\ disk = "saved"

\* Every step of the server's connection is one of an in-order, all-or-nothing
\* transfer, but for the early end of one whose client gave up.
outcome == CASE spc \in {"closing", "done"} -> "complete"
             [] spc \in {"failed", "rejecting", "rejected"} -> "failed"
             [] OTHER -> "open"

Transfer == INSTANCE FileTransfer WITH stored <- data

ClientGaveUp == clast.fin /\ clast.data = 0     \* it sent the FIN of Finalize

\* The exception: a FIN without a chunk, which passes for the last one.
EarlyEnd ==
    /\ ClientGaveUp
    /\ outcome = "open" /\ outcome' = "complete"
    /\ UNCHANGED data

ImplementsTransfer ==
    Transfer!Init /\ [][Transfer!Next \/ EarlyEnd]_<<data, outcome>>

\* An upload that is not refused completes at both ends, however many
\* packets are lost, unless an end leaves.
Left ==
    \/ cpc \in {"finalizing", "closed", "stopped"}
    \/ spc = "failed" \/ (spc = "done" /\ cpc = "closing")

UploadCompletes ==
    <>(\/ cpc = "completed" /\ spc \in {"closing", "done"}
       \/ spc \in {"rejecting", "rejected"}
       \/ Left)

(* What the report says of the protocol and the code does not do. *)

\* The server closes an upload as complete only with the whole file.
CompleteIsWhole == spc \in {"closing", "done"} => Len(data) = NChunks
===============================================================================
