----------------------------- MODULE MCSawUpload -----------------------------
(***************************************************************************)
(* Instances of SawUpload for TLC: networks, and who may leave.            *)
(***************************************************************************)
EXTENDS SawUploadInvariant

\* Networks: UDP on one path, which keeps the order.
Perfect  == {}
InOrder  == {"loss", "duplication"}

\* Who may leave before the end.
Anyone   == {"client", "quit", "server"}
===============================================================================
