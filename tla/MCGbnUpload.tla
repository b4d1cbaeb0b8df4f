----------------------------- MODULE MCGbnUpload -----------------------------
(***************************************************************************)
(* Instances of GbnUpload for TLC: networks, and who gives up.             *)
(***************************************************************************)
EXTENDS GbnUploadInvariant

\* Networks.
Lossy     == {"loss"}
Reorders  == {"loss", "reordering"}
AnyFault  == {"loss", "duplication", "reordering"}

\* Who gives up.
Nobody    == {}
Anyone    == {"setup", "client", "server"}
OnceAdmitted == {"client", "server"}    \* no client before it is admitted
===============================================================================
