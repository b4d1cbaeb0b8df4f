---------------------------- MODULE MCGbnDownload ----------------------------
(***************************************************************************)
(* Instances of GbnDownload for TLC: networks, and who may leave.          *)
(***************************************************************************)
EXTENDS GbnDownloadInvariant

\* Networks.
Lossy    == {"loss"}
AnyFault == {"loss", "duplication", "reordering"}

\* Who may leave before the end.
Anyone   == {"client", "quit", "server", "stop"}
Nobody   == {}
===============================================================================
