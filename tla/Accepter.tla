------------------------------- MODULE Accepter -------------------------------
(***************************************************************************)
(* How clients become connections: the handshake of each client, the       *)
(* server's one accepter thread with its welcoming socket, the pool of     *)
(* connection threads it starts and reaps, and the main thread that stops  *)
(* them.  The transfers themselves are the other modules'.                 *)
(*                                                                         *)
(* A client sends "syn", then "ack" with its operation; one that gives up  *)
(* waiting for the operation's confirmation sends "close", an ACK without  *)
(* operation, and "fin".  It is answered with "synack", which names the    *)
(* port of its connection, or "fin", and by the connection with "opack".   *)
(***************************************************************************)
EXTENDS Network, FiniteSets

CONSTANTS
    Clients,    \* the client processes, each connecting once
    Foreign,    \* those that speak the other protocol
    Protocol,   \* the server's protocol
    MaxPorts,   \* bound: connection sockets the server opens
    GivesUp,    \* who may reach its limit of 30 s or 300 attempts
    MayStop     \* whether the server may be told to stop

ASSUME AccepterAssumption ==
    /\ 0 \notin Clients /\ Foreign \subseteq Clients
    /\ Protocol \in {"saw", "gbn"}
    /\ MaxPorts \in Nat \ {0}
    /\ GivesUp \subseteq {"client", "accepter", "connection"}
    /\ MayStop \in BOOLEAN

Ports == 1 .. MaxPorts
None  == 0              \* no port yet

VARIABLES
    cpc,        \* what each client waits for, or how it ended
    cport,      \* the port each client was told
    apc,        \* what the accepter waits for
    offered,    \* the port whose handshake it is completing
    intent,     \* the packet that completed it
    owner,      \* the client each port was opened for
    thread,     \* the state of each port's connection
    pool,       \* ClientPool.clients, by connection port
    mpc,        \* the main thread
    killed,     \* the connections kill_all has visited
    poolSize,   \* the pool's size when its iteration started
    shut,       \* whether the welcoming socket is shut down
    up, down    \* channels from each client to the welcoming socket, and to it

clients  == <<cpc, cport>>
accepter == <<apc, offered, intent, owner>>
main     == <<mpc, killed, poolSize, shut>>
vars     == <<clients, accepter, thread, pool, main, up, down>>

Answer == [kind : {"synack", "opack", "fin"}, port : Ports \cup {None}]

SynAck(p) == [kind |-> "synack", port |-> p]
OpAck(p)  == [kind |-> "opack", port |-> p]
Reject    == [kind |-> "fin", port |-> None]

ClientEnds == {"talking", "refused", "closed"}

\* started: add_client started it; running: it confirmed the operation and
\* waits or transfers; closing: its state is final, its thread still closes;
\* done: its thread ended; stuck: its thread ended in a state that "can be
\* recovered"; ended: it was killed and joined.
Running == {"started", "running", "closing"}

TypeOK ==
    /\ cpc \in [Clients -> {"syn", "op", "finalizing"} \cup ClientEnds]
    /\ cport \in [Clients -> Ports \cup {None}]
    /\ apc \in {"accepting", "completing", "adding", "stopped", "dead"}
    /\ offered \in Ports \cup {None}
    /\ intent \in {"ack", "close"}
    /\ owner \in [Ports -> Clients \cup {None}]
    /\ thread \in [Ports -> {"none", "done", "stuck", "ended"} \cup Running]
    /\ pool \subseteq Ports
    /\ mpc \in {"serving", "killing", "joining", "joined"}
    /\ killed \subseteq Ports /\ poolSize \in Nat /\ shut \in BOOLEAN
    /\ up \in [Clients -> Seq({"syn", "ack", "close", "fin"})]
    /\ down \in [Clients -> Seq(Answer)]

\* Every client has sent its first SYN.
Init ==
    /\ cpc = [c \in Clients |-> "syn"]
    /\ cport = [c \in Clients |-> None]
    /\ apc = "accepting" /\ offered = None /\ intent = "ack"
    /\ owner = [p \in Ports |-> None]
    /\ thread = [p \in Ports |-> "none"]
    /\ pool = {}
    /\ mpc = "serving" /\ killed = {} /\ poolSize = 0 /\ shut = FALSE
    /\ up = [c \in Clients |-> <<"syn">>]
    /\ down = [c \in Clients |-> <<>>]

-----------------------------------------------------------------------------
(* A client *)

Says(c, k) == up' = [up EXCEPT ![c] = Send(@, k)]

\* The packet its socket retransmits.
LastSent(c) == CASE cpc[c] = "syn" -> "syn"
                 [] cpc[c] = "op" -> "ack"
                 [] OTHER -> "fin"

Becomes(c, s) == cpc' = [cpc EXCEPT ![c] = s]

Relistens(c) == Says(c, LastSent(c)) /\ UNCHANGED clients

\* wait_for_connection_request_answer: the SYN-ACK names the port; an
\* answer without ACK is a refusal.
ClientSyn_Answer(c, a) ==
    /\ cpc[c] = "syn"
    /\ \/ /\ a.kind = "synack"
          /\ cport' = [cport EXCEPT ![c] = a.port]
          /\ Becomes(c, "op") /\ Says(c, "ack")
       \/ a.kind = "fin" /\ Becomes(c, "refused") /\ UNCHANGED <<cport, up>>
       \/ a.kind = "opack" /\ Relistens(c)

\* wait_for_operation_confirmation; then the address is the port's.
ClientOp_Answer(c, a) ==
    /\ cpc[c] = "op"
    /\ \/ a.kind = "opack" /\ Becomes(c, "talking") /\ UNCHANGED <<cport, up>>
       \/ a.kind # "opack" /\ Relistens(c)

\* handle_connection_finalization: the bit it waits for is also that of the
\* operation's confirmation.
ClientFinalizes_Answer(c, a) ==
    /\ cpc[c] = "finalizing"
    /\ IF a.kind = "opack" /\ Protocol = "saw"
       THEN Becomes(c, "closed") /\ UNCHANGED <<cport, up>>
       ELSE Relistens(c)

ClientReceives(c, i) ==
    /\ down' \in {[down EXCEPT ![c] = ch] : ch \in AfterReceipt(down[c], i)}
    /\ LET a == down[c][i] IN
       \/ ClientSyn_Answer(c, a)
       \/ ClientOp_Answer(c, a)
       \/ ClientFinalizes_Answer(c, a)
    /\ UNCHANGED <<accepter, thread, pool, main>>

\* Nothing for 15 ms.
ClientRetransmits(c) ==
    /\ cpc[c] \notin ClientEnds
    /\ Relistens(c)
    /\ UNCHANGED <<accepter, thread, pool, main, down>>

ClientGivesUp(c) ==
    /\ "client" \in GivesUp
    /\ cpc[c] \notin ClientEnds
    /\ \/ /\ cpc[c] = "op" /\ Becomes(c, "finalizing")
          /\ up' = [up EXCEPT ![c] = Send(Send(@, "close"), "fin")]
       \/ Becomes(c, "closed") /\ up' = up
    /\ UNCHANGED <<cport, accepter, thread, pool, main, down>>

-----------------------------------------------------------------------------
(* The accepter *)

Tells(c, a) == down' = [down EXCEPT ![c] = Send(@, a)]

\* run's loop: is_alive is read only between two calls of accept.
MutNextAccept == apc' = "accepting"     \* is_alive is never read
NextAccept == apc' = IF mpc = "serving" THEN "accepting" ELSE "stopped"

Opened == {p \in Ports : owner[p] # None}

\* accept and handshake up to its wait.  The pool is keyed by connection
\* address, so a client's own address is never found in it.
AccepterAccepts(c, k) ==
    /\ apc = "accepting"
    /\ \/ k # "syn" /\ NextAccept /\ UNCHANGED <<offered, owner, down>>
       \/ /\ k = "syn" /\ c \in Foreign
          /\ Tells(c, Reject)
          /\ NextAccept /\ UNCHANGED <<offered, owner>>
       \/ /\ k = "syn" /\ c \notin Foreign
          /\ \E p \in Ports \ Opened :
                /\ \A q \in Ports \ Opened : p <= q
                /\ offered' = p
                /\ owner' = [owner EXCEPT ![p] = c]
                /\ Tells(c, SynAck(p))
          /\ apc' = "completing"
    /\ UNCHANGED <<intent, thread, pool>>

\* expect_handshake_completion looks at the packet, not at its sender.
MutCompletes(k) == k # "fin"            \* a repeated SYN completes it too
Completes(k) == k = "ack" \/ (k = "close" /\ Protocol = "saw")

AccepterCompletes(c, k) ==
    /\ apc = "completing"
    /\ \/ /\ Completes(k)
          /\ apc' = "adding" /\ intent' = k
          /\ UNCHANGED <<offered, owner, thread, pool, down>>
       \/ /\ ~Completes(k)
          /\ Tells(owner[offered], SynAck(offered))
          /\ UNCHANGED <<accepter, thread, pool>>

AccepterReceives(c, i) ==
    /\ ~shut
    /\ up' \in {[up EXCEPT ![c] = ch] : ch \in AfterReceipt(up[c], i)}
    /\ LET k == up[c][i] IN AccepterAccepts(c, k) \/ AccepterCompletes(c, k)
    /\ UNCHANGED <<clients, main>>

AccepterRetransmits ==
    /\ apc = "completing" /\ ~shut
    /\ Tells(owner[offered], SynAck(offered))
    /\ UNCHANGED <<clients, accepter, thread, pool, main, up>>

MutAtLimit == apc = "completing" /\ ~shut /\ up[owner[offered]] = <<>>
                                        \* each packet restarts the limit
AtLimit == apc = "completing" /\ ~shut

\* The limit of the handshake.  The port's socket is forgotten.  When the
\* last packet was a "close" with Go-Back-N, the exception is
\* InvalidAckNumber, which neither accept nor run catches.
AccepterGivesUp ==
    /\ "accepter" \in GivesUp /\ AtLimit
    /\ offered' = None
    /\ \/ NextAccept /\ up' = up
       \/ \E c \in Clients : \E i \in Deliverable(up[c]) :
            /\ up[c][i] = "close" /\ Protocol = "gbn"
            /\ up' = [up EXCEPT ![c] = RemoveAt(@, i)]
            /\ apc' = "dead"
    /\ UNCHANGED <<clients, intent, owner, thread, pool, main, down>>

\* kill: a thread that still runs loses its socket, and is joined.
MutAfterKill(p) == thread[p]            \* its socket is shut, it is not joined
AfterKill(p) == IF thread[p] = "stuck" THEN "stuck" ELSE "ended"

\* rip_finished_clients: the connections in a final state are killed,
\* joined and removed.
Reaped == {p \in pool : thread[p] \in {"closing", "done", "ended"}}

\* add_client.  An ACK without operation ends the new thread at once, in a
\* state from which it is never reaped.  The pool's entry and the thread's
\* start are one step: a kill between the two shuts the socket of a thread
\* that it cannot join, which is what follows from one right before both.
AccepterAdds ==
    /\ apc = "adding"
    /\ pool' = (pool \ Reaped) \cup {offered}
    /\ thread' = [p \in Ports |->
                    IF p = offered THEN IF intent = "ack" THEN "started" ELSE "stuck"
                    ELSE IF p \in Reaped THEN AfterKill(p) ELSE thread[p]]
    /\ offered' = None
    /\ NextAccept
    /\ UNCHANGED <<clients, intent, owner, main, up, down>>

\* SocketShutdown, in either of the accepter's two waits.
MutSeesShutdown == shut /\ apc = "accepting"    \* a handshake waits on
SeesShutdown == shut /\ apc \in {"accepting", "completing"}

AccepterIsShut ==
    /\ SeesShutdown
    /\ apc' = "stopped" /\ offered' = None
    /\ UNCHANGED <<clients, intent, owner, thread, pool, main, up, down>>

-----------------------------------------------------------------------------
(* The connection of a port *)

Turns(p, s) ==
    /\ thread' = [thread EXCEPT ![p] = s]
    /\ UNCHANGED <<clients, accepter, pool, main, up>>

\* process_operation_intention.
ConnectionConfirms(p) ==
    /\ thread[p] = "started" /\ Turns(p, "running")
    /\ Tells(owner[p], OpAck(p))

\* It waits for the file name.
ConnectionRetransmits(p) ==
    /\ thread[p] = "running"
    /\ Tells(owner[p], OpAck(p))
    /\ UNCHANGED <<clients, accepter, thread, pool, main, up>>

\* Its transfer ends, or is refused and then closed.
ConnectionEnds(p) ==
    /\ \/ /\ thread[p] = "running"
          /\ cpc[owner[p]] = "talking" /\ cport[owner[p]] = p
          /\ Turns(p, "done") \/ Turns(p, "closing")
       \/ thread[p] = "closing" /\ Turns(p, "done")
    /\ UNCHANGED down

\* Its own limit: a lost connection, or 300 unexpected packets.
ConnectionGivesUp(p) ==
    /\ "connection" \in GivesUp
    /\ thread[p] = "running"
    /\ Turns(p, "done") \/ Turns(p, "stuck")
    /\ UNCHANGED down

-----------------------------------------------------------------------------
(* The main thread *)

\* Server.stop, Accepter.join: is_alive is cleared and kill_all starts to
\* iterate over the pool, in one step: what the accepter does between the
\* two, it may as well have done before.
Stop ==
    /\ MayStop /\ mpc = "serving"
    /\ mpc' = "killing" /\ poolSize' = Cardinality(pool)
    /\ UNCHANGED <<clients, accepter, thread, pool, killed, shut, up, down>>

\* One step of kill_all; afterwards the welcoming socket is shut down.
KillAll ==
    /\ mpc = "killing" /\ Cardinality(pool) = poolSize
    /\ \/ \E p \in pool \ killed :
            /\ killed' = killed \cup {p}
            /\ thread' = [thread EXCEPT ![p] = AfterKill(p)]
            /\ UNCHANGED <<mpc, shut>>
       \/ /\ pool \subseteq killed
          /\ mpc' = "joining" /\ shut' = TRUE
          /\ UNCHANGED <<killed, thread>>
    /\ UNCHANGED <<clients, accepter, pool, poolSize, up, down>>

\* The pool changed size during the iteration: RuntimeError, and the socket
\* is not shut down before the accepter is joined.
KillAllFails ==
    /\ mpc = "killing" /\ Cardinality(pool) # poolSize
    /\ mpc' = "joining"
    /\ UNCHANGED <<clients, accepter, thread, pool, killed, poolSize, shut, up, down>>

Joined ==
    /\ mpc = "joining" /\ apc \in {"stopped", "dead"}
    /\ mpc' = "joined"
    /\ UNCHANGED <<clients, accepter, thread, pool, killed, poolSize, shut, up, down>>

-----------------------------------------------------------------------------
Lose ==
    \E c \in Clients :
        /\ \/ up' \in {[up EXCEPT ![c] = ch] : ch \in AfterLoss(up[c])} /\ down' = down
           \/ down' \in {[down EXCEPT ![c] = ch] : ch \in AfterLoss(down[c])} /\ up' = up
        /\ UNCHANGED <<clients, accepter, thread, pool, main>>

Next ==
    \/ \E c \in Clients : \E i \in Deliverable(down[c]) : ClientReceives(c, i)
    \/ \E c \in Clients : \E i \in Deliverable(up[c]) : AccepterReceives(c, i)
    \/ \E c \in Clients : ClientRetransmits(c) \/ ClientGivesUp(c)
    \/ AccepterRetransmits \/ AccepterGivesUp \/ AccepterAdds \/ AccepterIsShut
    \/ \E p \in Ports : \/ ConnectionConfirms(p) \/ ConnectionRetransmits(p)
                        \/ ConnectionEnds(p) \/ ConnectionGivesUp(p)
    \/ Stop \/ KillAll \/ KillAllFails \/ Joined
    \/ Lose

Spec == Init /\ [][Next]_vars

-----------------------------------------------------------------------------
(* Fairness: links that deliver what is sent to them again and again, and  *)
(* threads that are scheduled.                                             *)

AccepterTakes(c, k) ==
    \E i \in Deliverable(up[c]) : up[c][i] = k /\ AccepterReceives(c, i)

ClientTakes(c, k) ==
    \E i \in Deliverable(down[c]) : down[c][i].kind = k /\ ClientReceives(c, i)

AccepterFairness ==
    /\ WF_vars(AccepterRetransmits) /\ WF_vars(AccepterAdds)
    /\ WF_vars(AccepterGivesUp) /\ WF_vars(AccepterIsShut)

LinkFairness ==
    \A c \in Clients :
        /\ \A k \in {"syn", "ack"} : SF_vars(AccepterTakes(c, k))
        /\ \A k \in {"synack", "opack", "fin"} : SF_vars(ClientTakes(c, k))
        /\ WF_vars(ClientRetransmits(c))

ConnectionFairness ==
    \A p \in Ports : WF_vars(ConnectionConfirms(p)) /\ WF_vars(ConnectionRetransmits(p))

FairSpec == Spec /\ AccepterFairness /\ LinkFairness /\ ConnectionFairness

\* Nothing is assumed of the links, the clients and the connections.
AccepterFairSpec == Spec /\ AccepterFairness /\ WF_vars(Joined)

-----------------------------------------------------------------------------
(* Properties *)

\* A connection's thread that runs is in the pool, where kill_all finds it,
\* whatever the accepter and the main thread do to the pool.
RunningIsPooled == \A p \in Ports : thread[p] \in Running => p \in pool

\* The accepter, the pool and the main thread implement what a server
\* promises of its connections: each is pooled from its start to its end, and
\* a stop, wherever it finds the accepter, lets at most one more start.
life == [p \in Ports |-> CASE thread[p] = "none" -> "none"
                          [] thread[p] \in Running -> "live"
                          [] OTHER -> "over"]
mode == CASE apc \in {"stopped", "dead"} -> "closed"
          [] apc \notin {"stopped", "dead"} /\ mpc = "serving" -> "open"
          [] OTHER -> "last"

Promise == INSTANCE ConnectionPool WITH Connections <- Ports, swept <- shut

ImplementsPool == Promise!Spec

\* A client that never completes its handshake does not hold the accepter
\* for ever, whatever the other clients send.
AccepterMovesOn == apc = "completing" ~> apc \in {"accepting", "stopped", "dead"}

\* A stop that went through the pool leaves at most one thread running: the
\* connection whose handshake was under way when the server was told to stop.
AtMostOneOutlives ==
    mpc = "joined" /\ shut => Cardinality({p \in Ports : thread[p] \in Running}) <= 1

\* Once the welcoming socket is shut down, the accepter's thread ends and the
\* main thread joins it, wherever the accepter was, whatever clients do.
StopEnds == shut ~> mpc = "joined"

\* One client of the server's protocol gets one connection, however often
\* its packets are resent and others are refused meanwhile.
OneConnection ==
    \A p, q \in Ports :
        owner[p] = owner[q] /\ {thread[p], thread[q]} \cap {"none"} = {} => p = q

\* A connection starts only after its client has been told its port: that
\* is what the handshake's last ACK is for.
TransferIsKnown ==
    \A p \in Ports : thread[p] \in Running => cport[owner[p]] = p

\* Every client is answered: it talks to its connection or it is refused.
EveryClientIsAnswered ==
    \A c \in Clients :
        <>(IF c \in Foreign THEN cpc[c] = "refused"
                            ELSE cpc[c] = "talking" /\ cport[c] \in pool)
===============================================================================
