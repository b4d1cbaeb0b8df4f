--------------------------- MODULE AccepterInvariant ---------------------------
(***************************************************************************)
(* The inductive invariants behind Accepter's properties.  A run checks    *)
(* the last on an instance, AccepterProofs proves them all.                *)
(***************************************************************************)
EXTENDS Accepter

-----------------------------------------------------------------------------
(* The pool holds what runs, for all clients and networks.                 *)

\* A handshake in progress has a port.
OfferedInv == apc \in {"completing", "adding"} => offered \in Ports

PoolInv == TypeOK /\ OfferedInv /\ RunningIsPooled

-----------------------------------------------------------------------------
(* What a stop leaves running.                                             *)

Handshaking == apc \in {"completing", "adding"}

\* A connection's thread exists once its port was opened, its handshake was
\* completed and it was put into the pool, in this order.
PortInv ==
    /\ \A p \in Ports : owner[p] = None => thread[p] = "none"
    /\ Handshaking => thread[offered] = "none" /\ owner[offered] # None
    /\ \A p \in pool : thread[p] # "none"

\* What kill_all has visited stays dead.
KilledInv == \A p \in killed : thread[p] \in {"ended", "stuck"}

\* After kill_all the accepter adds at most one connection, and ends with it.
ShutInv ==
    shut => /\ mpc \in {"joining", "joined"}
            /\ \A p, q \in pool \ killed : p = q
            /\ apc \notin {"stopped", "dead"} => pool \subseteq killed

StopInv == PortInv /\ KilledInv /\ ShutInv

-----------------------------------------------------------------------------
(* Whose packet completes a handshake.                                     *)

Own == Clients \ Foreign

\* Where the completing packet is its client's: one client of the server's
\* protocol, a path that keeps the order, and an accepter that never turns
\* from a handshake that was not completed.  Each is needed: another
\* client's packet, a late one, and one that answers the offer of a port
\* the accepter has forgotten complete a handshake too.
Orderly ==
    /\ \A c, d \in Own : c = d
    /\ "reordering" \notin NetFaults
    /\ "accepter" \notin GivesUp

Later == {"ack", "close", "fin"}    \* what a client sends once it is told

\* The server opens a port for its own clients, and one for all of them.
OwnerInv ==
    /\ \A p \in Opened : owner[p] \in Own
    /\ \A p, q \in Opened : p = q

\* A client sends SYNs until it is told the port opened for it, and none
\* after; so behind its first other packet there is no SYN.
Told(c) ==
    /\ cpc[c] = "syn" => cport[c] = None
    /\ cpc[c] \in {"op", "finalizing"} => cport[c] # None
    /\ cport[c] = None => Range(up[c]) \subseteq {"syn"}
    /\ cport[c] # None => cport[c] \in Opened /\ owner[cport[c]] = c
    /\ Follows(up[c], Later)

ToldInv == \A c \in Clients : Told(c)

\* An offer that is under way is of a port opened for the client.
OfferInv ==
    \A c \in Clients : \A a \in Range(down[c]) :
        a.kind = "synack" => a.port \in Opened /\ owner[a.port] = c

\* The accepter leaves a handshake only with the packet that says that its
\* client knows the port, and by then no SYN is left to open another.
CompletedInv ==
    /\ apc = "adding" => cport[owner[offered]] = offered
    /\ Opened # {} /\ apc \in {"accepting", "adding"} =>
          \A c \in Own : cport[c] # None /\ "syn" \notin Range(up[c])
    /\ \A p \in Ports : thread[p] # "none" => p \in Opened /\ cport[owner[p]] = p

KnownInv == OwnerInv /\ ToldInv /\ OfferInv /\ CompletedInv

HInv == PoolInv /\ StopInv /\ KnownInv
===============================================================================
