----------------------------- MODULE MCAccepter -----------------------------
(***************************************************************************)
(* Instances of Accepter for TLC: clients, networks, and who gives up.     *)
(***************************************************************************)
EXTENDS AccepterInvariant

CONSTANTS c1, c2, f1

TwoClients == {c1, c2}
WithForeign == {c1, f1}     \* one of them speaks the other protocol
AllOurs    == {}
OneForeign == {f1}

\* Networks: links that lose, one path per client.
Lossy == {"loss"}

Nobody == {}
Anyone == {"client", "accepter", "connection"}
===============================================================================
