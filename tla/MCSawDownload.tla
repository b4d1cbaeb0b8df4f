---------------------------- MODULE MCSawDownload ----------------------------
(***************************************************************************)
(* Instances of SawDownload for TLC: networks, and who may leave.          *)
(***************************************************************************)
EXTENDS SawDownloadInvariant

\* Networks: UDP on one path, which keeps the order.
InOrder  == {"loss", "duplication"}

\* Who may leave before the end.
Anyone   == {"client", "quit", "server"}
===============================================================================
