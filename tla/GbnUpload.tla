------------------------------ MODULE GbnUpload ------------------------------
(***************************************************************************)
(* One upload under Go-Back-N, from the file name to the closing           *)
(* handshake: the client's UploadClient with its GoBackNSender and the     *)
(* server's ClientConnectionGBN with its GoBackNReceiver, over two UDP     *)
(* channels.                                                               *)
(*                                                                         *)
(* Sequence numbers: 2 is the file name's, 3 the file size's, and chunk k  *)
(* of the file (k = 1 .. NChunks) has k + 3.  The last chunk carries FIN.  *)
(***************************************************************************)
EXTENDS Network, Packets

CONSTANTS
    NChunks,    \* chunks of the file to upload
    Window,     \* WINDOW_SIZE
    GivesUp,    \* whose limit of 30 s or 300 attempts may be reached:
                \* the client's while it informs ("setup") or later, and
                \* the server's
    EarlyTimers \* whether a retransmission timer may expire while what its
                \* owner sent is still on its way

ASSUME GbnUploadAssumption ==
    /\ NChunks \in Nat
    /\ Window \in Nat \ {0}
    /\ GivesUp \subseteq {"setup", "client", "server"}
    /\ EarlyTimers \in BOOLEAN

VARIABLES
    cpc,        \* what the client waits for, or how it ended
    base,       \* GoBackNSender.base: last acknowledged chunk, from 0
    next,       \* GoBackNSender.next_seq_num: chunks sent of this window
    cack,       \* the client's ack_number
    clast,      \* the packet its socket retransmits
    finBack,    \* already_received_fin_back
    spc,        \* what the server's connection waits for, or how it ended
    sseq,       \* the receiver's sqn_number (its ack_number is the same)
    size,       \* the file size it was told, in chunks
    data,       \* the chunks appended to its file
    disk,       \* what is at the file's path in the storage directory
    slast,      \* the packet its socket retransmits
    c2s, s2c    \* the two channels

client == <<cpc, base, next, cack, clast, finBack>>
server == <<spc, sseq, size, data, disk, slast>>
vars   == <<client, server, c2s, s2c>>

FilenameSeq == 2
FilesizeSeq == 3
Offset      == 4                \* offset_initial_seq_number
LastSeq     == NChunks + 3

ClientInforms == {"filename", "filesize"}
ClientWaits   == {"filename", "filesize", "closing", "finalizing"}
ClientEnds    == {"completed", "closed", "stopped"}
ServerWaits   == {"filename", "filesize", "closing", "rejecting"}
ServerReceives == {"first", "loop"}
ServerEnds    == {"done", "rejected", "failed"}

TypeOK ==
    /\ cpc \in ClientWaits \cup {"send", "await"} \cup ClientEnds
    /\ base \in Nat /\ next \in Nat /\ cack \in Nat
    /\ clast \in Packet
    /\ finBack \in BOOLEAN
    /\ spc \in ServerWaits \cup ServerReceives \cup ServerEnds
    /\ sseq \in Nat /\ size \in Nat
    /\ data \in Seq(Nat)
    /\ disk \in {"absent", "foreign", "open", "saved"}
    /\ slast \in Packet
    /\ c2s \in Seq(Packet) /\ s2c \in Seq(Packet)

(***************************************************************************)
(* The client has sent the name after its operation was confirmed; copies  *)
(* of that confirmation may still arrive.  The name may be in use.         *)
(***************************************************************************)
Init ==
    /\ cpc = "filename" /\ base = 0 /\ next = 0 /\ cack = FilenameSeq
    /\ clast = DataPkt(FilenameSeq, FilenameSeq, 0, FALSE)
    /\ finBack = FALSE
    /\ spc = "filename" /\ sseq = FilenameSeq /\ size = 0
    /\ data = <<>>
    /\ disk \in {"absent", "foreign"}
    /\ slast = AckPkt(1, 1)
    /\ c2s = <<clast>>
    /\ s2c \in {<<>>, <<AckPkt(1, 1)>>}

\* The retransmission timer of the endpoint that sends to ch may expire.
TimerExpires(ch) == EarlyTimers \/ ch = <<>>

-----------------------------------------------------------------------------
(* The client *)

Resend(ch, p) == IF p = NoPacket THEN ch ELSE Send(ch, p)

\* wait_for_ack, in its order: the ACK flag, the ack number, FIN, the
\* sequence number.  The first and third failures end the upload.
Refuses(p)  == ~p.ack \/ (p.an = cack /\ p.fin)
MutConfirms(p) == p.ack /\ p.an <= cack /\ ~p.fin     \* an older one will do
Confirms(p) == p.ack /\ p.an = cack /\ ~p.fin /\ p.seq = cack

\* handle_connection_finalization up to its wait, with the stepped numbers.
Finalize(s, a) ==
    /\ cpc' = "finalizing"
    /\ c2s' = Send(Send(c2s, AckPkt(s, a)), FinPkt(s, a))
    /\ clast' = FinPkt(s, a)
    /\ cack' = a

\* inform_filename and inform_filesize; the confirmed size starts a
\* GoBackNSender on a socket that remembers no packet.
ClientInforms_Answer(i) ==
    /\ cpc \in ClientInforms
    /\ s2c' \in AfterReceipt(s2c, i)
    /\ LET p == s2c[i] IN
       \/ Refuses(p) /\ Finalize(cack + 1, cack + 1)
       \/ /\ Confirms(p)
          /\ cack' = cack + 1
          /\ \/ /\ cpc = "filename"
                /\ cpc' = "filesize"
                /\ clast' = DataPkt(FilesizeSeq, cack', NChunks, FALSE)
                /\ c2s' = Send(c2s, clast')
             \/ /\ cpc = "filesize"
                /\ cpc' = IF NChunks > 0 THEN "send" ELSE "closing"
                /\ clast' = NoPacket
                /\ c2s' = c2s
       \/ /\ ~Refuses(p) /\ ~Confirms(p)
          /\ c2s' = Resend(c2s, clast)
          /\ UNCHANGED <<cpc, clast, cack>>
    /\ UNCHANGED <<base, next, finBack, server>>

\* send_packets_in_window: one datagram of the window.
InWindow(n) == n < base + Window /\ n < NChunks

MutIsLast(n) == n = base + Window - 1   \* the window's last, not the file's
IsLast(n) == n = NChunks - 1

ClientSends ==
    /\ cpc = "send"
    /\ InWindow(next)
    /\ clast' = DataPkt(next + Offset, cack, next + 1, IsLast(next))
    /\ c2s' = Send(c2s, clast')
    /\ next' = next + 1
    /\ UNCHANGED <<cpc, base, cack, finBack, server, s2c>>

\* initiate_close_connection once the last chunk is confirmed.
Complete(s, a) ==
    /\ cpc' = "completed"
    /\ c2s' = Send(c2s, AckPkt(s + 1, a))

\* The window is out: await_ack_phase waits, unless only the last chunk is
\* left to be acknowledged; then the closing phase waits for it, or for
\* nothing if a FIN has already come.
ClientWindowSent ==
    /\ cpc = "send"
    /\ ~InWindow(next)
    /\ IF base + 1 = NChunks /\ finBack
       THEN Complete(next + Offset - 1, cack)
       ELSE /\ cpc' = IF base + 1 = NChunks THEN "closing" ELSE "await"
            /\ c2s' = c2s
    /\ UNCHANGED <<base, next, cack, clast, finBack, server, s2c>>

\* The next iteration of send_file's loop forgets the last packet sent.
NextIteration == cpc' = "send" /\ clast' = NoPacket

\* RetransmissionNeeded: reset_window.
MutResetWindow == UNCHANGED next /\ NextIteration     \* next_seq_num kept
ResetWindow == next' = base /\ NextIteration

\* A packet that acknowledges as much as was already acknowledged, or more.
Advances(p) == p.an >= cack

\* What await_ack_phase returns: whether a FIN has confirmed the last chunk.
IterationEnds(p) ==
    /\ next' = next
    /\ IF p.fin /\ ~p.ack
       THEN Complete(next + Offset - 1, cack') /\ clast' = clast
       ELSE NextIteration /\ c2s' = c2s

ClientAwait_Ack(i) ==
    /\ cpc = "await"
    /\ s2c' \in AfterReceipt(s2c, i)
    /\ LET p == s2c[i] IN
       /\ finBack' = (finBack \/ (p.fin /\ ~p.ack))
       /\ \/ /\ Advances(p)
             /\ base' = base + (p.an - cack)
             /\ cack' = p.an
             /\ IterationEnds(p)
          \/ /\ ~Advances(p)
             /\ UNCHANGED <<base, cack>>
             /\ \/ IterationEnds(p)
                \/ /\ TimerExpires(c2s)        \* 10 ms of such ACKs
                   /\ ResetWindow /\ c2s' = c2s
    /\ UNCHANGED server

\* No datagram for 10 ms.
ClientAwait_Timeout ==
    /\ cpc = "await" /\ TimerExpires(c2s)
    /\ ResetWindow
    /\ UNCHANGED <<base, cack, finBack, server, c2s, s2c>>

\* wait_for_fin_or_ack of the last chunk.
ClosesUpload(p) ==
    /\ p.seq = next + Offset - 1
    /\ p.ack \/ p.fin
    /\ p.an = cack

ClientCloses_Answer(i) ==
    /\ cpc = "closing"
    /\ s2c' \in AfterReceipt(s2c, i)
    /\ IF ClosesUpload(s2c[i])
       THEN Complete(next + Offset - 1, cack)
       ELSE c2s' = Resend(c2s, clast) /\ cpc' = cpc
    /\ UNCHANGED <<base, next, cack, clast, finBack, server>>

\* handle_connection_finalization's wait: the step of its number expected,
\* the ack number not stepped.
ClientFinalizes_Answer(i) ==
    /\ cpc = "finalizing"
    /\ s2c' \in AfterReceipt(s2c, i)
    /\ LET p == s2c[i] IN
       IF p.seq = clast.seq + 1 /\ (p.ack \/ p.fin) /\ p.an = clast.an
       THEN cpc' = "closed" /\ c2s' = c2s
       ELSE c2s' = Resend(c2s, clast) /\ cpc' = cpc
    /\ UNCHANGED <<base, next, cack, clast, finBack, server>>

\* SocketSaw.recvfrom_with_retransmission: nothing for 15 ms.
ClientRetransmits ==
    /\ cpc \in ClientWaits /\ clast # NoPacket /\ TimerExpires(c2s)
    /\ c2s' = Send(c2s, clast)
    /\ UNCHANGED <<client, server, s2c>>

\* The sequence number of the packet the client waits to have confirmed.
ClientSeq == IF cpc = "closing" THEN next + Offset - 1 ELSE cack

\* 30 s or 300 attempts: ConnectionLost finalizes on its own; any other
\* exception that exhausts re_listen_if_failed just ends the upload.
ClientGivesUp ==
    /\ \/ cpc \in ClientInforms /\ "setup" \in GivesUp
       \/ cpc \in ClientWaits \ ClientInforms /\ "client" \in GivesUp
    /\ \/ cpc # "finalizing" /\ Finalize(ClientSeq + 1, cack + 1)
       \/ cpc' = "closed" /\ UNCHANGED <<cack, clast, c2s>>
    /\ UNCHANGED <<base, next, finBack, server, s2c>>

\* The user quits (Client.stop), or the process dies.
ClientStops ==
    /\ "client" \in GivesUp
    /\ cpc \notin ClientEnds
    /\ cpc' = "stopped"
    /\ UNCHANGED <<base, next, cack, clast, finBack, server, c2s, s2c>>

-----------------------------------------------------------------------------
(* The server's connection *)

\* initiate_close_connection up to its wait.
Reject ==
    /\ spc' = "rejecting"
    /\ slast' = FinPkt(sseq + 1, sseq + 1)
    /\ s2c' = Send(s2c, slast')

Relisten ==
    /\ s2c' = Send(s2c, slast)
    /\ UNCHANGED <<spc, sseq, size, data, disk, slast>>

\* receive_file_info_for_upload, the name: refused when the file exists.
ServerFilename_Receives(i) ==
    /\ spc = "filename"
    /\ c2s' \in AfterReceipt(c2s, i)
    /\ \/ /\ c2s[i].seq = sseq
          /\ disk = "foreign"
          /\ Reject
          /\ UNCHANGED <<sseq, size, data, disk>>
       \/ /\ c2s[i].seq = sseq
          /\ disk # "foreign"
          /\ disk' = "open"
          /\ slast' = AckPkt(sseq, sseq)
          /\ s2c' = Send(s2c, slast')
          /\ spc' = "filesize" /\ sseq' = FilesizeSeq
          /\ UNCHANGED <<size, data>>
       \/ c2s[i].seq # sseq /\ Relisten
    /\ UNCHANGED client

\* ... and the size: refused when it does not fit.  The accepted size
\* starts a GoBackNReceiver.
ServerFilesize_Receives(i) ==
    /\ spc = "filesize"
    /\ c2s' \in AfterReceipt(c2s, i)
    /\ \/ /\ c2s[i].seq = sseq
          /\ size' = c2s[i].data
          /\ \/ Reject
             \/ /\ spc' = "first"
                /\ slast' = AckPkt(sseq, sseq)
                /\ s2c' = Send(s2c, slast')
          /\ UNCHANGED <<sseq, data, disk>>
       \/ c2s[i].seq # sseq /\ Relisten
    /\ UNCHANGED client

\* closing_handshake_for_upload up to its wait, after the file is closed.
StartClosing(n) ==
    /\ spc' = "closing"
    /\ disk' = "saved"
    /\ slast' = FinPkt(n, n)
    /\ s2c' = Send(Send(s2c, AckPkt(n, n)), FinPkt(n, n))

\* file_handler.append_to_file: an empty payload adds nothing.
Stored(d) == IF d = 0 THEN data ELSE Append(data, d)

\* The number of the packet that ends the first phase: ack_number + 1.
IsFirst(p) == p.seq = sseq + 1

\* receive_first_chunk: the first chunk ends the phase, and is kept only
\* when it is also the last; anything else gets the file size's ACK again.
ServerFirst_Receives(i) ==
    /\ spc = "first"
    /\ c2s' \in AfterReceipt(c2s, i)
    /\ LET p == c2s[i] IN
       \/ /\ IsFirst(p)
          /\ sseq' = p.seq
          /\ IF p.fin
             THEN StartClosing(p.seq) /\ data' = Stored(p.data)
             ELSE spc' = "loop" /\ UNCHANGED <<data, disk, slast, s2c>>
       \/ /\ ~IsFirst(p)
          /\ s2c' = IF p.seq = sseq /\ ~p.fin
                    THEN Send(Send(s2c, AckPkt(sseq, sseq)), slast)
                    ELSE Send(s2c, slast)
          /\ UNCHANGED <<spc, sseq, data, disk, slast>>
    /\ UNCHANGED <<client, size>>

\* validate_sequence_number.
MutIsExpected(p) == p.seq >= sseq       \* gaps tolerated
IsExpected(p) == p.seq = sseq

MutOutOfOrderAck(p) == AckPkt(p.seq, p.seq)     \* acknowledges what it drops
OutOfOrderAck(p) == AckPkt(sseq, sseq)

\* receive_file's loop: the expected chunk is acknowledged (the last one by
\* the closing handshake) and appended; any other packet is answered with
\* an ACK of the number still expected.
ServerLoop_Receives(i) ==
    /\ spc = "loop"
    /\ c2s' \in AfterReceipt(c2s, i)
    /\ LET p == c2s[i] IN
       \/ /\ IsExpected(p) /\ p.fin
          /\ data' = Stored(p.data)
          /\ StartClosing(sseq) /\ sseq' = sseq
       \/ /\ IsExpected(p) /\ ~p.fin
          /\ data' = Stored(p.data)
          /\ s2c' = Send(s2c, AckPkt(sseq, sseq))
          /\ sseq' = sseq + 1
          /\ UNCHANGED <<spc, disk, slast>>
       \/ /\ ~IsExpected(p)
          /\ s2c' = Send(s2c, OutOfOrderAck(p))
          /\ UNCHANGED <<spc, sseq, data, disk, slast>>
    /\ UNCHANGED <<client, size>>

\* wait_for_ack of the closing handshake, for the stepped number.
ServerCloses_Answer(i) ==
    /\ spc = "closing"
    /\ c2s' \in AfterReceipt(c2s, i)
    /\ LET p == c2s[i] IN
       IF p.ack /\ ~p.fin /\ p.seq = sseq + 1
       THEN /\ spc' = "done"
            /\ UNCHANGED <<sseq, size, data, disk, slast, s2c>>
       ELSE Relisten
    /\ UNCHANGED client

\* wait_for_fin_or_ack of initiate_close_connection.
ServerRejects_Answer(i) ==
    /\ spc = "rejecting"
    /\ c2s' \in AfterReceipt(c2s, i)
    /\ LET p == c2s[i] IN
       IF p.seq = slast.seq /\ (p.ack \/ p.fin)
       THEN /\ spc' = "rejected"
            /\ s2c' = Send(s2c, AckPkt(p.seq + 1, p.seq + 1))
            /\ UNCHANGED <<sseq, size, data, disk, slast>>
       ELSE Relisten
    /\ UNCHANGED client

ServerRetransmits ==
    /\ spc \in ServerWaits /\ TimerExpires(s2c)
    /\ Relisten
    /\ UNCHANGED <<client, c2s>>

\* remove_file_if_corrupted_or_incomplete, once the size is known.
MutIncompleteRemoved ==
    disk' = IF Len(data) + 1 < size THEN "absent" ELSE disk
IncompleteRemoved ==
    disk' = IF Len(data) # size THEN "absent" ELSE disk

\* The waits of the server that have a limit: all of them.
MutLimited == ServerReceives            \* re_listen_if_failed has none
Limited == ServerWaits \cup ServerReceives

\* 30 s or 300 attempts, or the server's stop.  While the name or the size
\* is awaited run() knows no file name and cleans nothing up.
ServerGivesUp ==
    /\ "server" \in GivesUp
    /\ spc \in Limited
    /\ \/ spc \in {"filename", "filesize"} /\ spc' = "failed" /\ disk' = disk
       \/ spc \in ServerReceives /\ spc' = "failed" /\ IncompleteRemoved
       \/ spc = "closing" /\ spc' = "done" /\ disk' = disk
       \/ spc = "rejecting" /\ spc' = "rejected" /\ disk' = disk
    /\ UNCHANGED <<client, sseq, size, data, slast, c2s, s2c>>

-----------------------------------------------------------------------------
Lose ==
    /\ \/ c2s' \in AfterLoss(c2s) /\ s2c' = s2c
       \/ s2c' \in AfterLoss(s2c) /\ c2s' = c2s
    /\ UNCHANGED <<client, server>>

ClientReceives(i) ==
    \/ ClientInforms_Answer(i)
    \/ ClientAwait_Ack(i)
    \/ ClientCloses_Answer(i)
    \/ ClientFinalizes_Answer(i)

ServerReceivesAt(i) ==
    \/ ServerFilename_Receives(i)
    \/ ServerFilesize_Receives(i)
    \/ ServerFirst_Receives(i)
    \/ ServerLoop_Receives(i)
    \/ ServerCloses_Answer(i)
    \/ ServerRejects_Answer(i)

\* Both ends are finished: the only states without another step.
Finished ==
    /\ cpc \in ClientEnds /\ spc \in ServerEnds
    /\ UNCHANGED vars

Next ==
    \/ \E i \in Deliverable(s2c) : ClientReceives(i)
    \/ \E i \in Deliverable(c2s) : ServerReceivesAt(i)
    \/ ClientSends \/ ClientWindowSent
    \/ ClientAwait_Timeout \/ ClientRetransmits
    \/ ClientGivesUp \/ ClientStops
    \/ ServerRetransmits \/ ServerGivesUp
    \/ Lose
    \/ Finished

Spec == Init /\ [][Next]_vars

-----------------------------------------------------------------------------
(* Fairness: a link that delivers what is sent to it again and again, and  *)
(* the timers of both ends.  A server in its 30 s receptions gives up only *)
(* when nothing is on its way; a bounded wait always ends.                 *)

ServerTakes(s) ==
    \E i \in Deliverable(c2s) : c2s[i].seq = s /\ ServerReceivesAt(i)

ClientTakes(a) ==
    \E i \in Deliverable(s2c) : s2c[i].an = a /\ ClientReceives(i)

\* A new ACK that comes while the window is sent waits in the socket.
NewAckWaits ==
    ClientWindowSent /\ \E i \in DOMAIN s2c : s2c[i].an > cack

LinkFairness ==
    /\ \A s \in FilenameSeq .. LastSeq : SF_vars(ServerTakes(s))
    /\ \A a \in FilenameSeq .. LastSeq : SF_vars(ClientTakes(a))
    /\ SF_vars(NewAckWaits)

ClientFairness ==
    /\ WF_vars(ClientSends) /\ WF_vars(ClientWindowSent)
    /\ WF_vars(ClientAwait_Timeout) /\ WF_vars(ClientRetransmits)
    /\ WF_vars(ClientGivesUp)

ServerTimesOut ==
    (spc \in ServerReceives => c2s = <<>>) /\ ServerGivesUp

ServerFairness ==
    /\ WF_vars(\E i \in Deliverable(c2s) :
                  ServerReceivesAt(i) /\ Len(c2s') < Len(c2s))
    /\ WF_vars(ServerRetransmits) /\ WF_vars(ServerTimesOut)

FairSpec == Spec /\ LinkFairness /\ ClientFairness /\ ServerFairness

\* Nothing is assumed of the link or of the client.
ServerFairSpec == Spec /\ ServerFairness

-----------------------------------------------------------------------------
(* Properties *)

\* The server's file is always a prefix of the client's: no chunk missing,
\* repeated or out of place, whatever the network does to the packets
\* (validate_sequence_number and the receiver's two phases).
ReceivedIsPrefix == data = [k \in 1 .. Len(data) |-> k]

\* The sender's window never slides past a chunk the server has not stored,
\* although an ACK also answers packets out of order.
BaseIsStored == base <= Len(data)

\* A client sends its chunks, and reports the upload as completed, only with
\* a server that admitted it and holds the size it announced: no repeated
\* confirmation of an earlier step, no repeated name and no refusal passes
\* for the confirmation of the size.
AdmittedWithItsSize ==
    cpc \in {"send", "await", "closing", "completed"} =>
        /\ spc \notin {"filename", "filesize", "rejecting", "rejected"}
        /\ size = NChunks

\* A reception that fails after the file size is known leaves no truncated
\* file (remove_file_if_corrupted_or_incomplete).
FailedIsRemoved == spc = "failed" /\ size > 0 => disk = "absent"

\* A client whose upload ended with nothing stored: the FIN of one that gives
\* up before it is admitted can pass for an only chunk.
ClientLeft == data = <<>> /\ cpc \in {"finalizing", "closed", "stopped"}

\* The server closes an upload as complete only with the whole file.
CompleteIsWhole ==
    spc \in {"closing", "done"} => Len(data) = NChunks \/ ClientLeft

\* The server's connection implements an in-order, all-or-nothing transfer:
\* it reports an upload as complete only with every chunk in its file, but
\* for an empty one of a client that left.
outcome == CASE spc \in {"closing", "done"} -> "complete"
             [] spc \in {"failed", "rejecting", "rejected"} -> "failed"
             [] OTHER -> "open"

Transfer == INSTANCE FileTransfer WITH stored <- data

\* The exception: nothing stored, and the FIN of a client that left.
EarlyEnd ==
    /\ ClientLeft
    /\ outcome = "open" /\ outcome' = "complete"
    /\ UNCHANGED data

ImplementsTransfer ==
    Transfer!Init /\ [][Transfer!Next \/ EarlyEnd]_<<data, outcome>>

\* An upload that the client reports as completed misses at most the last
\* chunk: all that await_ack_phase leaves to the closing phase.
CompletedMissesOne == cpc = "completed" => Len(data) + 1 >= NChunks

\* The window's retransmissions bring every chunk but the last one to the
\* server, however many packets are lost.
ReachesLastChunk ==
    <>(Len(data) + 1 >= NChunks \/ spc \in {"rejecting", "rejected"})

\* A connection does not outlive its client: once the client has ended,
\* the server's thread ends.
ServerLetsGo == cpc \in ClientEnds ~> spc \in ServerEnds

(* What the report says of the protocol and the code does not do. *)

\* The server does not discard a file whose upload the client reported as
\* completed.
CompletedIsKept == ~(cpc = "completed" /\ spc = "failed")

\* The last chunk is retransmitted until it is received.
LastChunkArrives ==
    <>(spc \in {"closing", "done", "rejecting", "rejected"})
===============================================================================
