# Verification of the file transfer over UDP

The repository holds a server and two clients that copy files over UDP. Two
protocols make the copy reliable: Stop-and-Wait, numbered with one bit, and
Go-Back-N, with a window of ten packets. This directory holds TLA+ models of
that code, the TLC configurations that check them on small instances, and
theorems about them that TLAPS proves for every value of the constants.

Paths below are relative to the repository; `lib/` is `src/lib/`.
`PROJECT.json` lists the components, runs, mutants, hazards and theorems, and maps every
definition to the lines it models.

## 1. Inventory

### Components

| Component | State it keeps | Operations | Correct when |
|---|---|---|---|
| Packets and numbers (`lib/common/packet`, `sequence_number.py`) | the fields of one packet; a number that alternates or counts | compose, parse, `step` | both ends read the same number for the same step |
| Sockets (`socket_saw.py`, `socket_gbn.py`) | `last_raw_packet`, `last_address` | `sendto`, `recvfrom`, retransmission after 15 ms | what is retransmitted is what the peer is waiting for |
| Re-listening (`re_listen_decorator.py`) | attempts, accumulated time | repeat a reception, resend the last packet, raise at 300 attempts or 30 s | every wait ends, and no stale packet is taken for the answer |
| Upload client (`client_upload.py`, `go_back_n_sender_client.py`, `protocol.py`) | sequence and ack numbers; the window `base`, `next_seq_num`; `already_received_fin_back` | `inform_filename`, `inform_filesize`, `send_file`, `initiate_close_connection`, `handle_connection_finalization`, `stop` | what it reports as completed is stored; it ends |
| Upload connection (`client_connection/*`, `go_back_n_receiver_server.py`) | `state`, its numbers, the open file, `filename_for_upload`, `filesize_for_upload` | `perform_upload`, `receive_file`, closing handshakes, clean-up, `kill` | the file is a prefix at any time and whole when it is kept; it ends |
| Download client (`client_download.py`, `go_back_n_receiver_client.py`) | sequence and ack number, the open file, `download_completed` | `inform_name_to_download`, `receive_file`, finalization, clean-up, `stop` | the file is a prefix at any time; when the client ends it is whole or gone |
| Download connection (`client_connection/*`, `go_back_n_sender_server.py`, `protocol_gbn.py`) | `state`, its numbers, the window, `already_received_fin_back` | `perform_download`, `transmit_file`, `send_file`, closing handshakes, refusal of a missing file, `kill` | what it reports as complete is received; it ends |
| Accepter (`accepter.py`, `accepter_protocol.py`) | the welcoming socket, `is_alive` | `accept`, `handshake`, `expect_handshake_completion`, `reject_connection`, `join` | each client is answered, gets one connection, and none holds the thread |
| Client manager and pool (`client_manager.py`, `client_pool.py`) | a dictionary of connections keyed by connection address | `add_client`, `rip_finished_clients`, `kill_all` | a running connection is always in it |
| Server (`server.py`, `wait_for_quit.py`) | `stopped`, `quited` | `run`, `stop` | after `stop` no thread runs |
| Storage (`file_handler.py`) | the files of one directory | open for writing, append, close, remove if incomplete | one writer per name; no partial file stays |
| Logger, parsers, hashes, entry points | none the protocols depend on | formatting | not modelled |
| Wireshark plugin, Mininet topologies | none | observe and try the protocols | not modelled |

### How they interact

A client sends SYN to the welcoming socket. The accepter opens a socket for the
connection and answers with SYN-ACK and its port, then waits for an ACK that
carries the operation. It hands that packet to `add_client`, which first reaps
the connections that ended, then starts a thread. That thread confirms the
operation *from the new port*; the client thereupon changes its address and
informs the file's name and size, each confirmed by an ACK. The chunks follow,
the last with FIN; the receiver answers with ACK and FIN and waits for the
last ACK. The only communication between two threads of the server is the pool
(the accepter and the main thread share it), the sockets (`kill` shuts another thread's socket
down) and the storage directory.

### What is hard

- **Every wait has three ways on**: a packet, a timer that resends the last
  packet, and a limit. `re_listen_if_failed` resends after any unexpected
  packet, so one duplicate begets another.
- **Numbers look alike.** An out-of-order packet is answered with an ACK of the
  number that is still missing; a duplicate confirmation of the file size has
  the form of an ACK of a chunk; a client that gives up sends ACK and FIN with
  the number of the next data packet.
- **State outlives its step**: `last_raw_packet` is reset by one loop and read
  by the closing phase; `filename_for_upload` is read by the clean-up before
  it is set.
- **One accepter for all clients**, on one socket, while another thread may be
  stopping it.

`PROJECT.json` lists each of these under `hazards`, at its line, with the
properties that would catch it going wrong.

## 2. Modules

| Module | What it is | Uses |
|---|---|---|
| `Network` | one UDP channel: a bounded buffer, loss, duplication, reordering | |
| `Packets` | the fields the endpoints decide on, and the packets they compose | |
| `FileTransfer` | the abstract specification of a transfer: in order, all or nothing | |
| `ConnectionPool` | the abstract specification of the server's threads: when one starts, runs, ends and is forgotten | |
| `GbnUpload`, `GbnDownload` | a transfer under Go-Back-N, both ends | `Network`, `Packets`, refine `FileTransfer` |
| `SawUpload`, `SawDownload` | a transfer under Stop-and-Wait, both ends | `Network`, `Packets`, refine `FileTransfer` |
| `Accepter` | several clients, the accepter, the pool, the main thread | `Network`, refines `ConnectionPool` |
| `GbnUploadInvariant`, `GbnDownloadInvariant`, `SawUploadInvariant`, `SawDownloadInvariant`, `AccepterInvariant` | the inductive invariants | the modules they are named for |
| `NetworkProofs`, `PacketsProofs`, `BitProofs` | lemmas: one channel, one packet, one channel of packets numbered with a bit | `Network`, `Packets` |
| `GbnUploadProofs`, `GbnDownloadProofs`, `SawUploadProofs`, `SawDownloadProofs`, `AccepterProofs` | theorems | the modules they are named for |
| `MCGbnUpload`, `MCGbnDownload`, `MCSawUpload`, `MCSawDownload`, `MCAccepter` | instances for TLC | |

The abstract `FileTransfer` has two variables, the chunks stored and the
outcome. Chunks are stored one at a time and in order; the outcome becomes
"complete" in the step that has the last one (an empty file has none:
`CompleteEmpty`), or "failed" at any time, and then nothing changes. In an upload
it is the server's view of its file, in a download the client's. The uploads
implement it with one exception that the code makes, `EarlyEnd`: a
FIN without a chunk, from a client that gives up, passes for the last chunk
(section 5). It stores nothing, and is a step of its own beside `Transfer!Next`.

The abstract `ConnectionPool` has the life of each connection's thread, the pool,
how far the server has got in stopping (`mode`), and whether it has killed
all it knew (`swept`). A connection starts once, in the step that puts it into the
pool, and may be reaped there in the step that adds another only because that
joins it; a server told to stop starts at most one more; and `Sweep` needs
every thread of the pool to be over. `Accepter` maps `thread` to `life`, and the
counters of the accepter and of the main thread to `mode`.

### The network

A channel is a sequence of at most `Capacity` packets; `Send` drops what does
not fit, as a full socket buffer does. `NetFaults` says what else may happen.
With `"reordering"` a reception takes any packet, with `"duplication"` it may
leave the packet where it was, and `Lose` removes one. The models of
Go-Back-N use all three; those of Stop-and-Wait keep the order, because
an alternating bit promises nothing on a path that reorders.

### `GbnUpload`

`cpc` and `spc` are the program counters: the wait each thread is in, or how it
ended. The client is at `filename`, `filesize` (`inform_filename`,
`inform_filesize`), `send` and `await` (the two phases of
`GoBackNSender.send_file`), `closing` (`initiate_close_connection`) or
`finalizing` (`handle_connection_finalization`). The server is at `filename`, `filesize`
(`receive_file_info_for_upload`), `first` and `loop` (the two phases of
`GoBackNReceiver.receive_file`), `closing` or `rejecting`.

`base`, `next` and `cack` are `base`, `next_seq_num` and `ack_number` of the
sender; `sseq` stands for the receiver's two numbers, which are always equal. `clast` and `slast` are `last_raw_packet` of
each socket, so that a stale or missing packet to retransmit is visible.
`data` is the file at the server, as the chunks appended; `disk` is what the
storage directory holds at its path. A chunk is its number, so a chunk lost,
repeated or out of place is visible.

Each action is one reception with everything its handler does before the next
wait: `ClientAwait_Ack` is `await_ack_phase` with the validation before it and
the reset or end of the window after it (a FIN ends the loop whatever its ack
number, unless the 10 ms are over, and `finBack` then spares the closing phase its
wait). `ClientSends` sends one packet, since
the 10 ms timer and the network run between two of them. The retransmission
counters are not counted: a limit that *may* be reached is an action
(`ClientGivesUp`, `ServerGivesUp`) enabled in every wait that has one, which includes every
value of the two limits. `ClientStops` is the user's quit. `EarlyTimers`
chooses whether a timer may fire while the packet is on its way.

### `SawUpload`

The same parts, with `Step` the alternating bit and `sent` the number of chunks
sent at least once (`send_file_saw`'s loop). Numbers are taken exactly as the
code compares them: where the code looks at one bit and one flag, so does the
model.

### `GbnDownload`

The client is at `filename` (`inform_name_to_download`), `first` and `loop` (the
two phases of `GoBackNReceiver.receive_file`) or `finalizing`. The server is at
`filename` (`receive_file_info_for_download`), `chunk` (the first chunk, sent
alone, is also the confirmation of the name), `send` and `await` (the
phases of `GoBackNSender.send_file`), `closing`, or `refusing` a file it does
not have: `exists` is chosen at the start. `base` and `next` are the window,
`sack` is the server's `ack_number`, and `finBack` is
`already_received_fin_back`, which the recomputation of
`is_last_chunk_acked` may forget.

As in the code, the client has neither timer nor limit in `first` and
`loop`; the packet that takes it from one to the other, the second
chunk, is dropped; a packet out of order is answered with the number still
missing; and the loop of the sender ends with "all but the last chunk
acknowledged", sent or not. `Leaves` chooses who may leave: the client or the
server at a limit, the client's user (`"quit"`), the server's stop (`"stop"`).
`crashed` is the client whose finalization after a failure failed itself,
which skips the clean-up.

### `SawDownload`

The client is at `filename`, `chunk` or `finalizing`, the server at `filename`, `chunk`
(`transmit_file`, one wait per chunk), `closing` or `refusing`. The first
chunk is told from a refusal by its flags and its payload, in the code's
order of tests; a FIN with a payload is taken without a look at its
number, as it is there.

### `Accepter`

Each client is `syn` (waits for SYN-ACK), `op` (waits for the confirmation of
its operation), `finalizing`, or has ended `talking`, `refused` or `closed`.
`apc` is the accepter: `accepting`, `completing` (in
`expect_handshake_completion`), `adding` (in `add_client`), `stopped`, or
`dead` by an exception nobody catches. `offered` and `owner` are the port of
the handshake and whose SYN opened it. A connection is `started`, `running`,
`closing` (its state is already final while its thread still closes), `done`,
`stuck` (its thread ended in what the code calls a state that can be
recovered) or `ended`. `pool`, `killed` and `poolSize` model the
dictionary, and `kill_all`'s iterator with its check of the size; `shut` says
that `Server.stop` has gone through it and shut the welcoming socket down,
which the accepter notices in its next wait (`SeesShutdown`), after whatever it
is doing. The transfer is one step here (`ConnectionEnds`); its detail is in
the transfer modules. Two pairs of statements are one step each: `pool.add` with
`start` (`AccepterAdds`) and `is_alive = False` with the start of `kill_all`
(`Stop`); the comments of both say why nothing is lost by it.

## 3. Runs

All pass runs have no error in all reachable states; violation runs end in a trace.

| Run | Checks | Instance | Shows |
|---|---|---|---|
| `gbn_upload_safety` | `CompletedMissesOne`, `ReceivedIsPrefix`, `BaseIsStored`, `IInv`, `CompleteIsWhole`, `FailedIsRemoved`, `AdmittedWithItsSize`, `ImplementsTransfer`, `ServerLetsGo` | 3 chunks, window 2, every fault, every limit; fairness of the server's thread only | the file is always a prefix, the window never ahead of it; the server implements `FileTransfer`; a client sends chunks only to a server that admitted it and holds its size; an upload reported as completed lacks at most its last chunk; the server's thread ends once its client has ended |
| `gbn_upload_reaches` | `ReachesLastChunk` | 4 chunks, window 2, loss and reordering, no limit, fairness | resetting the window brings every chunk but the last |
| `saw_upload_safety` | `ReceivedIsPrefix`, `OneAhead`, `CompletedIsKept`, `SInv`, `ImplementsTransfer`, `UploadCompletes` | 5 chunks, loss and duplication, every limit, fairness | one bit suffices; what is reported as completed is kept; no loss leaves both ends waiting |
| `gbn_download` | `ReceivedIsPrefix`, `BaseIsStored`, `DoneMissesOne`, `LeavesNoPart`, `AnswerIsRight`, `GInv`, `ImplementsTransfer`, `ServerLetsGo` | 4 chunks, window 2, every fault, every limit, quit and stop; fairness of the server's thread only | the file is a prefix, whole or gone at the end; what a client is told of its file's name is true; a download the server calls complete lacks at most its last chunk; only its sender's loop can be held by a client that has ended |
| `saw_download` | `ReceivedIsPrefix`, `OneAhead`, `DoneIsReceived`, `LeavesNoPart`, `DInv`, `ImplementsTransfer`, `DownloadCompletes` | 5 chunks, loss and duplication, every limit and quit, fairness | the bit suffices although the first chunk is also a confirmation; what the server calls complete is received and kept |
| `accepter_safety` | `RunningIsPooled`, `AtMostOneOutlives`, `ImplementsPool`, `AccepterMovesOn`, `StopEnds` | 2 clients, 2 ports, loss, every limit, a stop at any time; fairness of the accepter and the main thread only | no running connection escapes the pool; no client holds the accepter; a stop ends and leaves at most one thread; the server implements `ConnectionPool` |
| `accepter_connects` | `HInv`, `OneConnection`, `TransferIsKnown`, `EveryClientIsAnswered` | a client of each protocol, 2 ports, loss, no limit, fairness | each client is answered, with one connection |
| `gbn_upload_completed_kept` | `CompletedIsKept` | violated: 3 chunks, window 2, loss | section 5 |
| `gbn_upload_last_chunk` | `LastChunkArrives` | violated: 2 chunks, window 2, loss, no limit, fairness | section 5 |
| `gbn_download_last_chunk` | `LastChunkIsSent` | violated: 4 chunks, window 2, loss, no limit | section 5 |
| `saw_upload_complete_whole` | `CompleteIsWhole` | violated: 2 chunks, a perfect network | section 5 |
| `accepter_transfer_known` | `TransferIsKnown` | violated: 2 clients of the server's protocol, 3 ports, loss | section 5 |

**Bounds.** Every channel holds 2 packets (`Capacity`), which lets one overtake
another and lets a duplicate meet the packet after it; in `accepter_safety` it
holds one, as its properties do not depend on the order of
packets, while `TransferIsKnown`, which does, has two. Three chunks with a window of two
is the smallest upload in which the window slides, is resent in part, and has a
chunk that is neither first nor last; the code treats only the first
and the last differently. A download sends its first chunk outside the
window, and so has four. Five chunks let the alternating bit wrap twice.
Two clients are needed for one's packet to arrive in the other's handshake,
and two ports let the second client be added while the first is reaped;
`MaxPorts` is a bound of the model, where no further SYN is taken once all
ports are used. The theorems of section 4 do not depend on these bounds.

The type invariant `TypeOK` of each module is the first part of the invariant its
run checks: `IInv`, `GInv`, `SInv`, `DInv` and, through `PoolInv`, `HInv`.

**Deadlock** is checked wherever the system must go on until both ends end
(`Finished` is the only step there). It is not checked in the three accepter
runs, where a server may wait for clients for ever and all ports may be used,
nor in `gbn_upload_reaches` and `gbn_upload_last_chunk`, where nobody gives up and
an end may wait for ever for a peer that has ended.

**Fairness.** Strong fairness of receiving each kind of packet, *with its removal
from the channel*, says that the link delivers what is sent to it again and
again and does not repeat one datagram for ever; weak fairness of the timers
and of the threads' own steps, that they are scheduled. Weak fairness of a
limit says only that a deadline comes: `time()` moves on in each wait, and
attempts are counted. `ServerTimesOut` lets the 30 s reception of the chunks
expire only when nothing is on its way. `ServerLetsGo`, `AccepterMovesOn` and
`StopEnds` assume nothing of the link or of the peer: only that the server's
own threads are scheduled, take what has arrived, and reach their limits. The runs
without limits (`Nobody`) say what the retransmissions
achieve before a limit is reached. `UploadCompletes` and `DownloadCompletes` are
checked with the limits and say the same up to the step in which an
end leaves (`Left`).

**Mutants.** Each property of a pass run has a mutant in `PROJECT.json`: a
definition of the model, beside its changed form `Mut...`, that breaks it.

## 4. Proofs

TLAPS proves, for every value of the constants the named assumptions allow
(`NetworkAssumption`, `GbnUploadAssumption`, `GbnDownloadAssumption`,
`SawUploadAssumption`, `SawDownloadAssumption`, `AccepterAssumption`: ranges of the
constants, which TLC evaluates in every run):

| Module | Theorem | Statement |
|---|---|---|
| `GbnUploadProofs` | `TypeCorrect`, `Invariance` | `Spec => []TypeOK`, `Spec => []IInv` |
| | `PrefixReceived`, `WindowBehindFile`, `FailedRemoved`, `CompleteWhole`, `CompletedMissesLast`, `AdmittedWithSize` | `[]ReceivedIsPrefix`, `[]BaseIsStored`, `[]FailedIsRemoved`, `[]CompleteIsWhole`, `[]CompletedMissesOne`, `[]AdmittedWithItsSize` |
| | `TransferImplemented` | `Spec => ImplementsTransfer` |
| `GbnDownloadProofs` | `TypeCorrect`, `Invariance` | `Spec => []TypeOK`, `Spec => []GInv` |
| | `PrefixReceived`, `WindowBehindFile`, `DoneUpToTheLast`, `WholeFileOrNone`, `NameAnsweredRight` | `[]ReceivedIsPrefix`, `[]BaseIsStored`, `[]DoneMissesOne`, `[]LeavesNoPart`, `[]AnswerIsRight` |
| | `TransferImplemented` | `Spec => ImplementsTransfer` |
| `SawUploadProofs` | `TypeCorrect` | `Spec => []TypeOK` |
| in order | `PrefixReceived`, `ClientOneAhead`, `TransferImplemented` | `[]ReceivedIsPrefix`, `[]OneAhead`, `ImplementsTransfer` |
| in order, with a chunk | `Invariance`, `CompletedKept` | `[]SInv`, `[]CompletedIsKept` |
| `SawDownloadProofs` | `TypeCorrect` | `Spec => []TypeOK` |
| in order | `PrefixReceived`, `ServerOneAhead`, `WholeFileOrNone`, `TransferImplemented` | `[]ReceivedIsPrefix`, `[]OneAhead`, `[]LeavesNoPart`, `ImplementsTransfer` |
| in order, with a chunk | `Invariance`, `DoneReceived` | `[]DInv`, `[]DoneIsReceived` |
| `AccepterProofs` | `AccepterTypeCorrect`, `PoolInvariance`, `PoolSound` | `[]TypeOK`, `[]PoolInv`, `[]RunningIsPooled` |
| | `StopInvariance`, `OneOutlives` | `[]StopInv`, `[]AtMostOneOutlives` |
| | `PoolImplemented` | `Spec => ImplementsPool` |
| if `Orderly` | `HandshakeInvariance`, `TransferKnown`, `OneConnectionPerClient` | `[]HInv`, `[]TransferIsKnown`, `[]OneConnection` |

The rows without a condition hold for every network, file, buffer and limit.
"In order" is `"reordering" \notin NetFaults`: one bit cannot tell a late packet from
the one that is due (TLC finds `ReceivedIsPrefix` violated on a path that
reorders). "With a chunk" adds `NChunks > 0` (together: `Ordinary`); what an
empty file breaks is in section 5, and these two properties are among it. `Orderly` is
explained below.

**The network** enters the Go-Back-N proofs only through `NetworkProofs`: sending
adds at most the packet sent, receiving and losing add none. Their theorems
therefore hold for every combination of faults and every buffer.

**The invariant of `GbnUpload`.** `ReceivedIsPrefix` is not inductive: a packet
on its way with the expected number and another chunk's payload would break
it. `ChunkInv` says that number and payload agree for each packet that was
sent and may yet arrive *or be resent* (hence `ToServer` includes `clast`).
That the window is not ahead of the file needs the answers: `AnswerInv` bounds
the number each may carry by what is stored, which is what makes the
out-of-order ACK harmless to the window. The packets of a client that closes
look like late chunks without payload; `EmptyInv` says that they are numbered
after the last chunk, unless the transfer is `Abandoned`: no chunk was or will
be stored. `PhaseInv`, `InformInv`, `ServerInv` and `AdmittedInv` tie numbers to
phases. The proof has one lemma per reception and per end; `ClientKeeps` and
`ServerKeeps` state once what a step must show so that the parts about the other
end survive. `FailedRemoved` needs an invariant of its own, `SizeInv`, which
says in which phases the size is known. So does `AdmittedWithSize`: `HeldInv` says
that, while the client goes on, the size's number is on the size only and the
server holds that size from before it confirms it.

`CompleteIsWhole` and the refinement have one escape, `ClientLeft`: a client that
gives up before it sent a chunk makes the server close an empty file as
complete (section 5). Nothing else can.

`CompletedIsKept` is false (section 5), and `CompletedMissesOne` is what is left of
it: the client enters its closing phase with all chunks but the last
acknowledged, hence stored (`AnswerInv`), `ClosingInv` remembers it while the
client closes, and no step of the server takes a chunk back (`DataGrows`).

**The invariant of `GbnDownload`.** The same shape with the roles exchanged, and
three differences. The first chunk has an ACK flag and the name's number,
so `ChunkInv` lets no other chunk carry ACK, and `EmptyInv` keeps each
empty packet of the server from passing for a chunk. `RefusedInv`
separates the transfers in which the file is missing. And the server may be
done before the client has stored the last chunk; its last ACK then
has the number of a chunk, which `ClientInv` and `Detached` account for.
`SenderInv` carries what the sender knows when it leaves its loop, from which
`DoneMissesOne` follows: all but the last chunk, and no more, is what the code
ensures. `NameAnsweredRight` adds `NameInv`: a client that awaits the answer to
its name has sent nothing that confirms a chunk, so that a server with the
file has sent it nothing but packets with ACK.

**The invariants of the alternating bit** (`SInv`, `DInv`) need the *order* of each
channel. `Follows(ch, S)` (of `Network`) says that behind a packet of `S` come only
packets of `S`. While the receiver has not taken the current
packet, its channel holds packets of the step before and behind them copies of
the current one, and nothing on its way back can confirm it; once it has, its
channel holds nothing else, and the way back is old answers followed by
confirmations. `BitProofs` proves once what sending, receiving (with and without
removal) and losing do to such a channel; the `...Drains` lemmas say that taking one
packet of the new step leaves only those. The numbers being one bit (`BitInv`) is
what turns "not the expected number" into "the other number". The rest is
what the code adds to the textbook: in `SawUpload`, the packets of a client that
gives up carry the expected bit, and `GoneInv` says that at most one chunk is
before them and that they store nothing; in `SawDownload`, the first chunk
answers the name, and the ACKs of a client that gives up must confirm no
chunk that was not stored (`ChannelInv`), or `DoneIsReceived` would fail.

The empty file has an invariant of its own, `EmptyInv`, which needs no order: no
packet on the way to the receiver has a payload, so nothing is stored. With the
counts of `CountInv`, from which the types follow on any network, it
is what lets the theorems above speak of every file.

**The invariants of `Accepter`.** `RunningIsPooled` needs only that a handshake
in progress has a port (`OfferedInv`) and the types; the case that matters is
`AddStep`, where what leaves the pool has just been joined and what enters it
has just been started, in one step of the accepter that may fall between any
two of `kill_all`. `AtMostOneOutlives` needs `StopInv`: a port that is offered
is new (`PortInv`), what `kill_all` has visited stays dead (`KilledInv`), and
after it the accepter adds at most one connection and ends with that step
(`ShutInv`). `PoolImplemented` follows from the same two invariants, step by
step: `PortInv` says that the connection added is one that never started, `KilledInv`
that all are over when the sweep ends, and `ShutInv` that an accepter that
added its last connection adds no other.

`TransferIsKnown` and `OneConnection` need to know whose packet completes a handshake.
`Told` says what a client has on its way: SYNs until it is told its port, and
none behind its first other packet, since the client sends no SYN after; so by the
time a packet that is not a SYN reaches the accepter, no SYN is left that
could open a second port (`CompletedInv`), and the port it completes is the one
its sender was offered (`OfferInv`, `OwnerInv`). `Orderly` has three parts, and without
any of them the two properties are false:

- one client of the server's protocol, among any number that are refused: another's
  packet completes the handshake under way (`accepter_transfer_known`);
- no reordering: a late SYN opens a second port;
- an accepter that does not reach its limit in a handshake: it forgets
  the port it offered, and the client's answer to that offer completes the next.

**Model-checked only**: liveness (`ReachesLastChunk`, both `ServerLetsGo`,
`UploadCompletes`, `DownloadCompletes`, `AccepterMovesOn`, `StopEnds`,
`EveryClientIsAnswered`), which is out of the prover's reach. Every other property
of a passing run is a theorem.

## 5. Where the code and the report differ

Five are replayed by runs, and listed under `findings`:

- `gbn_upload_completed_kept`: the ACK of an out-of-order packet can have
  exactly the numbers of the last chunk's confirmation, so the client reports
  success while the server lacks the chunk and later deletes the file.
- `gbn_upload_last_chunk`: an iteration of the send loop with nothing left to
  send leaves no packet to retransmit; the last chunk, once lost, stays lost.
- `gbn_download_last_chunk`: the sender's loop ends when all chunks but one are
  acknowledged, sent or not. After `reset_window` the base can slide over chunks
  that were sent before and are not yet sent again, so that the ACK of the last
  but one chunk ends the loop with the last chunk, and its FIN, never sent; the
  client waits for it without timeout.
- `saw_upload_complete_whole`: the FIN of a client that gives up in
  mid-upload carries the expected bit and is taken for the last chunk.
- `accepter_transfer_known`: while the second client's handshake is being
  completed, the first client's resent ACK arrives and completes it.

Others were met while modelling, are in the models as the code has them, and
are described here without a run of their own.

Uploads and both roles:

- An ACK answers a packet out of order with the number still missing
  (`go_back_n_receiver_server.py:127`); the report (`informe.org:681`) reads an
  ACK as confirming everything up to its number.
- The first chunk of a Go-Back-N upload ends the first phase, and is neither
  stored nor acknowledged until it is resent (`go_back_n_receiver_server.py:98`,
  `informe.org:590`): the first window is always sent twice. In a download the
  same happens to the second chunk.
- A Go-Back-N client that gives up while it informs is read as sending the
  file's size or its only chunk.
- A connection lost between name and size leaves the opened file
  (`abstract_client_connection.py:237`); so does an upload that ends after 300
  unexpected packets.
- A Go-Back-N sender whose peer has ended resends for ever
  (`go_back_n_sender_client.py:133`, and the loop of
  `go_back_n_sender_server.py:68`; `informe.org:93` promises 30 s).
- A refused Go-Back-N client waits for an ACK number nobody sends
  (`abstract_client.py:186`), in uploads and in downloads.
- A Stop-and-Wait upload of an empty file is reported as completed while the
  server waits for its first chunk (`client_upload.py:192`); a download of an empty
  file sends nothing, and the Stop-and-Wait client gives up and removes its
  file, while a Go-Back-N client that took the name's confirmation waits for ever.

Downloads:

- The client creates its file before it connects (`client_download.py:46`); a
  refused handshake (`abstract_client.py:103`) cleans nothing, and the empty file
  stays. `LeavesNoPart` begins with a client that is connected.
- The Go-Back-N client sets its socket to wait without timeout and sends only
  in answer to a packet: it never ends by itself if the server goes.
- The server's "File transfer complete" is reported when it leaves the closing
  phase, with the last chunk received or not (`DoneMissesOne` is exact).
- `is_last_chunk_acked` is set by a FIN and then recomputed from the window
  (`go_back_n_sender_server.py:137-180`), so the sender may go on for a client that
  has ended; a FIN with a smaller ack number runs into a variable that has no
  value, and ends the server's thread.
- A late copy of the file name while the sender awaits ACKs is neither ACK nor
  FIN, and ends the server's thread (`protocol_gbn.py:176`).
- A FIN with a payload is taken for the only chunk without comparing its number
  (`client_download.py:110`).
- The finalization after a failure runs in an `except` block: if it fails itself,
  the clean-up behind it is skipped and the partial file stays
  (`client_download.py:72-80`, `crashed` in the models).

The server:

- `kill_all` fails if the pool changes size meanwhile; the welcoming socket is
  then not shut down, and `join` waits for one more packet.
- A handshake that completes after `kill_all` has passed starts a connection
  that outlives the accepter; `AtMostOneOutlives` says that it is the only one.
- `InvalidAckNumber` and `UnexpectedFinMessage` at the limit of a handshake end
  the accepter's thread.
- The pool is asked for client addresses but keyed by connection addresses, so
  `ClientAlreadyConnected` is never raised.

## 6. Not modelled

- **Field widths**: Go-Back-N numbers and file sizes are unbounded. The first
  field to overflow is the announced size of an upload, of four bytes
  (`client/protocol.py:309`): a file of 4 GiB or more ends the client with
  OverflowError between the name and the size, and the server sees a client
  that leaves there. The sequence numbers would last longer.
- **Time**: a deadline is an action that may happen, not a clock.
- **Contents**: a chunk is its number. Corruption is UDP's checksum's matter.
- **Two connections on one file name**: each transfer module has one connection;
  in an upload a file of another owner may be there at the start (`disk = "foreign"`).
- **The transfer inside the accepter**: `Accepter` sees a transfer as one step;
  the two sides meet in the ports and the packets that may be left of the
  handshake, which `Init` of each transfer module includes.
- **Logger, parsers, hashes, Wireshark plugin, topologies**: no state the
  protocols depend on.

## 7. Plan

Done, in this order: the network, the Go-Back-N upload with its abstract
specification, invariant and proofs; the Stop-and-Wait upload; the accepter with
its pool and shutdown, and their proofs; both downloads; the invariants and proofs of the
downloads and of the alternating bit; stop and its proof; the handshake's
invariant, the abstract pool, and the empty file. What is left:

1. `Storage`: two connections that open one name between check and open, with
   clean-up of either; the property is that a finished file is not removed or
   truncated by another's connection.
2. What a stop whose `kill_all` failed leaves behind, and when its `join` ends.
