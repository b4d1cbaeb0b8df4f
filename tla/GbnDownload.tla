----------------------------- MODULE GbnDownload -----------------------------
(***************************************************************************)
(* One download under Go-Back-N, from the file name to the closing         *)
(* handshake: the client's DownloadClient with its GoBackNReceiver and the *)
(* server's ClientConnectionGBN with its GoBackNSender, over two UDP       *)
(* channels.                                                               *)
(*                                                                         *)
(* Sequence numbers: 2 is the file name's and the first chunk's, which     *)
(* confirms the name; chunk k (k = 1 .. NChunks) has k + 1.  The last      *)
(* chunk carries FIN.  The window is used from the second chunk on.        *)
(***************************************************************************)
EXTENDS Network, Packets

CONSTANTS
    NChunks,    \* chunks of the file to download
    Window,     \* WINDOW_SIZE
    Leaves,     \* who may leave before the end: the client or the server
                \* at its limit of 30 s or 300 attempts, the client when its
                \* user quits ("quit"), the server when it stops ("stop")
    EarlyTimers \* whether a retransmission timer may expire while what its
                \* owner sent is still on its way

ASSUME GbnDownloadAssumption ==
    /\ NChunks \in Nat
    /\ Window \in Nat \ {0}
    /\ Leaves \subseteq {"client", "quit", "server", "stop"}
    /\ EarlyTimers \in BOOLEAN

VARIABLES
    cpc,        \* what the client waits for, or how it ended
    cseq,       \* the number the client expects
    data,       \* the chunks appended to its file
    disk,       \* what is at its path; "saved" is also download_completed
    clast,      \* the packet its socket retransmits, or the receiver resends
    spc,        \* what the server's connection waits for, or how it ended
    base,       \* GoBackNSender.base: chunks acknowledged
    next,       \* GoBackNSender.next_seq_num: chunks sent of this window
    sack,       \* the server's ack_number
    exists,     \* whether the file is in the storage directory
    slast,      \* the packet its socket retransmits
    finBack,    \* already_received_fin_back
    c2s, s2c    \* the two channels

client == <<cpc, cseq, data, disk, clast>>
server == <<spc, base, next, sack, exists, slast, finBack>>
vars   == <<client, server, c2s, s2c>>

FilenameSeq == 2
Offset      == 2                \* offset_initial_seq_number
LastSeq     == NChunks + 1

ClientReceiving == {"filename", "first", "loop"}
ClientWaits     == {"filename", "finalizing"}   \* with timer and limit
ClientEnds      == {"closed", "stopped", "crashed"}
ServerWaits     == {"filename", "chunk", "closing", "refusing"}
ServerSends     == {"send", "await"}
ServerEnds      == {"done", "refused", "failed"}

TypeOK ==
    /\ cpc \in ClientReceiving \cup {"finalizing"} \cup ClientEnds
    /\ cseq \in Nat
    /\ data \in Seq(Nat)
    /\ disk \in {"partial", "saved", "absent"}
    /\ clast \in Packet
    /\ spc \in ServerWaits \cup ServerSends \cup ServerEnds
    /\ base \in Nat /\ next \in 0 .. base + Window /\ sack \in Nat
    /\ exists \in BOOLEAN
    /\ slast \in Packet
    /\ finBack \in BOOLEAN
    /\ c2s \in Seq(Packet) /\ s2c \in Seq(Packet)

(***************************************************************************)
(* The client has created its file and sent the name after its operation   *)
(* was confirmed; copies of that confirmation may still arrive.            *)
(***************************************************************************)
Init ==
    /\ cpc = "filename" /\ cseq = FilenameSeq
    /\ data = <<>> /\ disk = "partial"
    /\ clast = DataPkt(FilenameSeq, FilenameSeq, 0, FALSE)
    /\ spc = "filename" /\ base = 0 /\ next = 0 /\ sack = 1
    /\ exists \in BOOLEAN
    /\ slast = AckPkt(1, 1)
    /\ finBack = FALSE
    /\ c2s = <<clast>>
    /\ s2c \in {<<>>, <<AckPkt(1, 1)>>}

\* The retransmission timer of the endpoint that sends to ch may expire.
TimerExpires(ch) == EarlyTimers \/ ch = <<>>

-----------------------------------------------------------------------------
(* The client *)

\* file_cleanup_after_error: only a completed download is kept.
MutCleanedUp == disk                    \* nothing removed
CleanedUp == IF disk = "saved" THEN "saved" ELSE "absent"

\* handle_connection_finalization up to its wait, which expects the stepped
\* sequence number and the same ack number.
Finalize(s) ==
    /\ cpc' = "finalizing"
    /\ clast' = FinPkt(s, s)
    /\ c2s' = Send(Send(c2s, AckPkt(s, s)), clast')
    /\ cseq' = s + 1

\* perform_download's answer to a missing file or a lost connection.
Abort == Finalize(cseq + 1) /\ UNCHANGED <<data, disk>>

ClientRelistens ==
    /\ c2s' = Send(c2s, clast)
    /\ UNCHANGED <<cpc, cseq, data, disk, clast>>

\* file_handler.append_to_file: an empty payload adds nothing.
Stored(d) == IF d = 0 THEN data ELSE Append(data, d)

\* The last chunk completes the download, and the finalization with its
\* number s answers it.
StoreLast(p, s) ==
    /\ data' = Stored(p.data)
    /\ disk' = "saved"
    /\ Finalize(s)

\* wait_for_ack of the name's confirmation, in its order: the ACK flag, the
\* ack number, FIN, the sequence number.  A FIN with a payload is the first
\* and only chunk, whatever its sequence number.
NoSuchFile(p)   == ~p.ack \/ (p.an = cseq /\ p.fin /\ p.data = 0)
IsFirstChunk(p) ==
    p.ack /\ p.an = cseq /\ IF p.fin THEN p.data # 0 ELSE p.seq = cseq

\* inform_name_to_download, and receive_file_gbn up to its receiver: the
\* ACK of the first chunk is the receiver's last_transmitted_packet.
ClientName_Answer(i) ==
    /\ cpc = "filename"
    /\ s2c' \in AfterReceipt(s2c, i)
    /\ LET p == s2c[i] IN
       \/ NoSuchFile(p) /\ Abort
       \/ IsFirstChunk(p) /\ p.fin /\ StoreLast(p, cseq)
       \/ /\ IsFirstChunk(p) /\ ~p.fin
          /\ data' = Stored(p.data)
          /\ clast' = AckPkt(cseq, cseq)
          /\ c2s' = Send(c2s, clast')
          /\ cpc' = "first"
          /\ UNCHANGED <<cseq, disk>>
       \/ ~NoSuchFile(p) /\ ~IsFirstChunk(p) /\ ClientRelistens
    /\ UNCHANGED server

\* receive_first_gbn_chunk: the second chunk ends the phase, and is kept
\* only when it is also the last; anything else gets the last ACK again.
EndsFirst(p) == p.seq = cseq + 1

ClientFirst_Receives(i) ==
    /\ cpc = "first"
    /\ s2c' \in AfterReceipt(s2c, i)
    /\ LET p == s2c[i] IN
       \/ EndsFirst(p) /\ p.fin /\ StoreLast(p, p.seq)
       \/ /\ EndsFirst(p) /\ ~p.fin
          /\ cpc' = "loop" /\ cseq' = p.seq
          /\ UNCHANGED <<data, disk, clast, c2s>>
       \/ /\ ~EndsFirst(p)
          /\ c2s' = IF p.seq = cseq /\ ~p.fin
                    THEN Send(Send(c2s, AckPkt(cseq, cseq)), clast)
                    ELSE Send(c2s, clast)
          /\ UNCHANGED <<cpc, cseq, data, disk, clast>>
    /\ UNCHANGED server

\* validate_sequence_number.
MutIsExpected(p) == p.seq >= cseq       \* gaps tolerated
IsExpected(p) == p.seq = cseq

MutOutOfOrderAck(p) == AckPkt(p.seq, p.seq)     \* acknowledges what it drops
OutOfOrderAck(p) == AckPkt(cseq, cseq)

\* receive_file's loop: the expected chunk is acknowledged (the last one by
\* the finalization) and appended; any other packet is answered with an ACK
\* of the number still expected.
ClientLoop_Receives(i) ==
    /\ cpc = "loop"
    /\ s2c' \in AfterReceipt(s2c, i)
    /\ LET p == s2c[i] IN
       \/ IsExpected(p) /\ p.fin /\ StoreLast(p, cseq)
       \/ /\ IsExpected(p) /\ ~p.fin
          /\ data' = Stored(p.data)
          /\ c2s' = Send(c2s, AckPkt(cseq, cseq))
          /\ cseq' = cseq + 1
          /\ UNCHANGED <<cpc, disk, clast>>
       \/ /\ ~IsExpected(p)
          /\ c2s' = Send(c2s, OutOfOrderAck(p))
          /\ UNCHANGED <<cpc, cseq, data, disk, clast>>
    /\ UNCHANGED server

\* wait_for_fin_or_ack of the finalization; a download that failed then
\* removes its file.
EndsConnection(p) == p.seq = cseq /\ (p.ack \/ p.fin) /\ p.an = clast.an

ClientFinalizes_Answer(i) ==
    /\ cpc = "finalizing"
    /\ s2c' \in AfterReceipt(s2c, i)
    /\ \/ /\ EndsConnection(s2c[i])
          /\ cpc' = "closed" /\ disk' = CleanedUp
          /\ UNCHANGED <<cseq, data, clast, c2s>>
       \/ ~EndsConnection(s2c[i]) /\ ClientRelistens
    /\ UNCHANGED server

\* SocketSaw.recvfrom_with_retransmission: nothing for 15 ms.  The receiver
\* has its timeout set to None, and never sends on its own.
ClientRetransmits ==
    /\ cpc \in ClientWaits /\ TimerExpires(c2s)
    /\ ClientRelistens
    /\ UNCHANGED <<server, s2c>>

(***************************************************************************)
(* 30 s or 300 attempts, which the receiver has not.  ConnectionLost while *)
(* the client awaits the first chunk finalizes on its own; any other       *)
(* exception goes straight to the clean-up.  In the finalization           *)
(* ConnectionLost is caught; another exception is caught, with the         *)
(* clean-up, if the download is complete, and by nothing if the            *)
(* finalization itself answers a failure.                                  *)
(***************************************************************************)
ClientGivesUp ==
    /\ "client" \in Leaves
    /\ \/ cpc = "filename" /\ Abort
       \/ /\ cpc \in ClientWaits
          /\ cpc' = "closed" /\ disk' = CleanedUp
          /\ UNCHANGED <<cseq, data, clast, c2s>>
       \/ /\ cpc = "finalizing" /\ disk # "saved"
          /\ cpc' = "crashed"
          /\ UNCHANGED <<cseq, data, disk, clast, c2s>>
    /\ UNCHANGED <<server, s2c>>

\* The user quits (Client.stop): nothing can be sent any more.
ClientStops ==
    /\ "quit" \in Leaves /\ cpc \notin ClientEnds
    /\ cpc' = "stopped" /\ disk' = CleanedUp
    /\ UNCHANGED <<cseq, data, clast, server, c2s, s2c>>

-----------------------------------------------------------------------------
(* The server's connection *)

Resend(ch, p) == IF p = NoPacket THEN ch ELSE Send(ch, p)

Relisten ==
    /\ s2c' = Resend(s2c, slast)
    /\ UNCHANGED <<spc, base, next, sack, exists, slast, finBack>>

\* receive_file_info_for_download: a missing file gets a FIN, and
\* initiate_close_connection another one.
Refuse ==
    /\ spc' = "refusing"
    /\ sack' = FilenameSeq + 1
    /\ slast' = FinPkt(FilenameSeq + 1, sack')
    /\ s2c' = Send(Send(s2c, FinPkt(FilenameSeq, FilenameSeq)), slast')
    /\ next' = next

\* send_first_packet; an empty file has an empty first chunk.
SendFirst ==
    /\ spc' = IF NChunks = 1 THEN "closing" ELSE "chunk"
    /\ sack' = FilenameSeq
    /\ next' = 1
    /\ slast' = FirstChunkPkt(FilenameSeq, sack', IF NChunks = 0 THEN 0 ELSE 1,
                              NChunks = 1)
    /\ s2c' = Send(s2c, slast')

ServerFilename_Receives(i) ==
    /\ spc = "filename"
    /\ c2s' \in AfterReceipt(c2s, i)
    /\ \/ c2s[i].seq = FilenameSeq /\ ~exists /\ Refuse
          /\ UNCHANGED <<base, exists, finBack>>
       \/ c2s[i].seq = FilenameSeq /\ exists /\ SendFirst
          /\ UNCHANGED <<base, exists, finBack>>
       \/ c2s[i].seq # FilenameSeq /\ Relisten
    /\ UNCHANGED client

\* wait_for_ack of the first chunk.
MutConfirmsFirst(p) == ~p.fin /\ p.seq = FilenameSeq  \* a repeated name too
ConfirmsFirst(p) == p.ack /\ ~p.fin /\ p.seq = FilenameSeq

\* The confirmed first chunk starts a GoBackNSender on a socket that
\* remembers no packet; an empty file gives it nothing to send.
ServerChunk_Ack(i) ==
    /\ spc = "chunk"
    /\ c2s' \in AfterReceipt(c2s, i)
    /\ \/ /\ ConfirmsFirst(c2s[i])
          /\ spc' = IF NChunks = 0 THEN "closing" ELSE "send"
          /\ base' = 1 /\ next' = 1 /\ sack' = sack + 1
          /\ slast' = NoPacket
          /\ UNCHANGED <<exists, finBack, s2c>>
       \/ ~ConfirmsFirst(c2s[i]) /\ Relisten
    /\ UNCHANGED client

\* send_packets_in_window: one datagram of the window.
InWindow(n) == n < base + Window /\ n < NChunks

MutIsLast(n) == n = base + Window - 1   \* the window's last, not the file's
IsLast(n) == n = NChunks - 1

ServerSendsChunk ==
    /\ spc = "send"
    /\ InWindow(next)
    /\ slast' = DataPkt(next + Offset, sack, next + 1, IsLast(next))
    /\ s2c' = Send(s2c, slast')
    /\ next' = next + 1
    /\ UNCHANGED <<spc, base, sack, exists, finBack, client, c2s>>

\* closing_handshake_for_download after its wait: "File transfer complete".
Complete ==
    /\ spc' = "done"
    /\ s2c' = Send(s2c, AckPkt(next + Offset, sack'))

\* The end of send_file: the socket remembers the last packet of the last
\* iteration, and the client's FIN need not be awaited twice.
LeaveLoop == IF finBack' THEN Complete ELSE spc' = "closing" /\ s2c' = s2c

\* The window is out: await_ack_phase waits, unless only the last chunk is
\* left to be acknowledged.
MutAllButLast(b) == b + 2 >= NChunks    \* off by one
AllButLast(b) == b + 1 = NChunks

ServerWindowSent ==
    /\ spc = "send"
    /\ ~InWindow(next)
    /\ UNCHANGED <<base, next, sack, exists, slast, finBack, client, c2s>>
    /\ IF AllButLast(base) THEN LeaveLoop ELSE spc' = "await" /\ s2c' = s2c

\* The next iteration of send_file's loop forgets the last packet sent.
NextIteration == spc' = "send" /\ slast' = NoPacket /\ s2c' = s2c

\* RetransmissionNeeded: reset_window.
ResetWindow == next' = base /\ NextIteration

\* validate_ack_number: acknowledges as much as was already, or more.
Advances(p) == p.an >= sack

\* wait_for_ack of ServerProtocolGbn and what await_ack_phase makes of it.
\* A packet that is neither ACK nor FIN ends the connection's thread, and
\* so does the FIN of a client with less than is acknowledged.
ServerAwait_Ack(i) ==
    /\ spc = "await"
    /\ c2s' \in AfterReceipt(c2s, i)
    /\ LET p == c2s[i] IN
       \/ /\ ~p.ack /\ (~p.fin \/ ~Advances(p))
          /\ spc' = "failed"
          /\ UNCHANGED <<base, next, sack, slast, finBack, s2c>>
       \/ /\ p.ack \/ p.fin
          /\ Advances(p)
          /\ finBack' = (finBack \/ ~p.ack)
          /\ base' = base + (p.an - sack)
          /\ sack' = p.an /\ next' = next
          /\ IF AllButLast(base') THEN LeaveLoop /\ slast' = slast
                                  ELSE NextIteration
       \/ /\ p.ack /\ ~Advances(p)
          /\ \/ NextIteration /\ next' = next
             \/ ResetWindow /\ TimerExpires(s2c)    \* 10 ms of such ACKs
          /\ UNCHANGED <<base, sack, finBack>>
    /\ UNCHANGED <<client, exists>>

\* No datagram for 10 ms.
ServerAwait_Timeout ==
    /\ spc = "await" /\ TimerExpires(s2c)
    /\ ResetWindow
    /\ UNCHANGED <<base, sack, exists, finBack, client, c2s>>

\* wait_for_fin_or_ack of the last chunk.
ConfirmsLast(p) == p.seq = next + Offset - 1 /\ (p.ack \/ p.fin)

ServerCloses_Answer(i) ==
    /\ spc = "closing"
    /\ c2s' \in AfterReceipt(c2s, i)
    /\ \/ /\ ConfirmsLast(c2s[i])
          /\ UNCHANGED <<base, next, sack, exists, slast, finBack>>
          /\ Complete
       \/ ~ConfirmsLast(c2s[i]) /\ Relisten
    /\ UNCHANGED client

\* The end of initiate_close_connection.
ServerRefuses_Answer(i) ==
    /\ spc = "refusing"
    /\ c2s' \in AfterReceipt(c2s, i)
    /\ LET p == c2s[i] IN
       \/ /\ p.seq = slast.seq /\ (p.ack \/ p.fin)
          /\ spc' = "refused"
          /\ s2c' = Send(s2c, AckPkt(p.seq + 1, p.seq + 1))
          /\ UNCHANGED <<base, next, sack, exists, slast, finBack>>
       \/ ~(p.seq = slast.seq /\ (p.ack \/ p.fin)) /\ Relisten
    /\ UNCHANGED client

ServerRetransmits ==
    /\ spc \in ServerWaits /\ slast # NoPacket /\ TimerExpires(s2c)
    /\ Relisten
    /\ UNCHANGED <<client, c2s>>

\* 30 s or 300 attempts, which the sender has not: a file that is read needs
\* no clean-up, and initiate_close_connection swallows its failures.
MutLimited == ServerWaits \ {"closing"}  \* a download is never given up
Limited == ServerWaits

ServerGivesUp ==
    /\ "server" \in Leaves /\ spc \in Limited
    /\ spc' = IF spc = "refusing" THEN "refused" ELSE "failed"
    /\ UNCHANGED <<client, base, next, sack, exists, slast, finBack, c2s, s2c>>

\* The server stops (kill): the connection's socket is shut down.
ServerStops ==
    /\ "stop" \in Leaves /\ spc \notin ServerEnds
    /\ spc' = "failed"
    /\ UNCHANGED <<client, base, next, sack, exists, slast, finBack, c2s, s2c>>

-----------------------------------------------------------------------------
Lose ==
    /\ \/ c2s' \in AfterLoss(c2s) /\ s2c' = s2c
       \/ s2c' \in AfterLoss(s2c) /\ c2s' = c2s
    /\ UNCHANGED <<client, server>>

ClientReceives(i) ==
    \/ ClientName_Answer(i)
    \/ ClientFirst_Receives(i)
    \/ ClientLoop_Receives(i)
    \/ ClientFinalizes_Answer(i)

ServerReceivesAt(i) ==
    \/ ServerFilename_Receives(i)
    \/ ServerChunk_Ack(i)
    \/ ServerAwait_Ack(i)
    \/ ServerCloses_Answer(i)
    \/ ServerRefuses_Answer(i)

\* The server's connection is over, and the client's, or the client waits
\* for it without a timeout: the only states without another step.
Finished ==
    /\ spc \in ServerEnds /\ s2c = <<>>
    /\ cpc \in ClientEnds \cup {"first", "loop"}
    /\ UNCHANGED vars

Next ==
    \/ \E i \in Deliverable(s2c) : ClientReceives(i)
    \/ \E i \in Deliverable(c2s) : ServerReceivesAt(i)
    \/ ServerSendsChunk \/ ServerWindowSent
    \/ ServerAwait_Timeout
    \/ ClientRetransmits \/ ClientGivesUp \/ ClientStops
    \/ ServerRetransmits \/ ServerGivesUp \/ ServerStops
    \/ Lose
    \/ Finished

Spec == Init /\ [][Next]_vars

-----------------------------------------------------------------------------
(* Fairness: the server's own timers and limits; nothing is assumed of the *)
(* link or of the client.                                                  *)

ServerAloneSpec ==
    /\ Spec
    /\ WF_vars(ServerSendsChunk) /\ WF_vars(ServerWindowSent)
    /\ WF_vars(ServerAwait_Timeout) /\ WF_vars(ServerRetransmits)
    /\ WF_vars(\E i \in Deliverable(c2s) :
                  ServerReceivesAt(i) /\ Len(c2s') < Len(c2s))
    /\ WF_vars(ServerGivesUp)

-----------------------------------------------------------------------------
(* Properties *)

\* The client's file is always a prefix of the server's: no chunk missing,
\* repeated or out of place, whatever the network does to the packets.
ReceivedIsPrefix == data = [k \in 1 .. Len(data) |-> k]

\* The sender's window never slides past a chunk the client has not stored,
\* although an ACK also answers packets out of order.  (An empty file has
\* an empty chunk to confirm.)
BaseIsStored == base <= Len(data) \/ NChunks = 0

\* The answer to the name is what it says: no packet on its way to a client
\* that awaits it can be taken for a refusal of a file that exists, nor for
\* the first chunk of one that does not, although only its flags and its
\* payload tell a chunk, a refusal and the end of a transfer apart.
AnswerIsRight ==
    cpc = "filename" => \A p \in Range(s2c) :
        /\ NoSuchFile(p) => ~exists
        /\ IsFirstChunk(p) => exists

\* "File transfer complete" at the server: all but at most the last chunk,
\* whose confirmation the repeated ACK of a full window is taken for, are in
\* the client's file.
DoneMissesOne == spc = "done" => Len(data) + 1 >= NChunks

\* A client that ends by itself leaves the whole file or none.
LeavesNoPart ==
    cpc \in {"closed", "stopped"} =>
        disk = "absent" \/ (disk = "saved" /\ Len(data) = NChunks)

\* The client's side implements an in-order, all-or-nothing transfer.
outcome == CASE disk = "saved" -> "complete"
             [] disk # "saved" /\ cpc \in ClientReceiving -> "open"
             [] OTHER -> "failed"

Transfer == INSTANCE FileTransfer WITH stored <- data

ImplementsTransfer == Transfer!Spec

\* Once its client has ended, the server's thread ends, or it is in the
\* sender's loop: the only one of its waits without a limit.
ServerLetsGo == cpc \in ClientEnds ~> spc \in ServerEnds \cup ServerSends

(* What the report says of the protocol and the code does not do. *)

\* FIN goes with the last data: the sender's loop ends after it was sent.
LastChunkIsSent == spc \in {"closing", "done"} => next >= NChunks
===============================================================================
