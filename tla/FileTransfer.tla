---------------------------- MODULE FileTransfer ----------------------------
(***************************************************************************)
(* What a transfer promises about the receiver's file, whichever protocol  *)
(* and direction: chunks are added one at a time and in order, each once,  *)
(* the receiver reports success only with the last of them, and a transfer *)
(* that failed or succeeded is over.                                       *)
(***************************************************************************)
EXTENDS Naturals, Sequences

CONSTANT NChunks        \* chunks of the file

VARIABLES
    stored,     \* the chunks in the receiver's file
    outcome     \* what the receiver takes the transfer for

Init == stored = <<>> /\ outcome = "open"

AddChunk ==
    /\ outcome = "open" /\ Len(stored) + 1 < NChunks
    /\ stored' = Append(stored, Len(stored) + 1)
    /\ UNCHANGED outcome

AddLastChunk ==
    /\ outcome = "open" /\ Len(stored) + 1 = NChunks
    /\ stored' = Append(stored, NChunks)
    /\ outcome' = "complete"

\* An empty file is complete without a chunk.
CompleteEmpty ==
    /\ outcome = "open" /\ NChunks = 0
    /\ outcome' = "complete"
    /\ UNCHANGED stored

Fail ==
    /\ outcome = "open"
    /\ outcome' = "failed"
    /\ UNCHANGED stored

Next == AddChunk \/ AddLastChunk \/ CompleteEmpty \/ Fail

Spec == Init /\ [][Next]_<<stored, outcome>>
===============================================================================
