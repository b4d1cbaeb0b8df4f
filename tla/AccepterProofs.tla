---------------------------- MODULE AccepterProofs ----------------------------
(***************************************************************************)
(* What holds of the accepter and its pool for every set of clients, every *)
(* network and every number of ports: no running connection escapes the    *)
(* pool that kill_all iterates over, and at most one outlives a stop.      *)
(***************************************************************************)
EXTENDS AccepterInvariant, NetworkProofs, FiniteSetTheorems

Up     == [Clients -> Seq({"syn", "ack", "close", "fin"})]
Down   == [Clients -> Seq(Answer)]
States == {"none", "done", "stuck", "ended"} \cup Running

\* What the server sends keeps the channels' type, whoever it is for.
LEMMA TellsType ==
    ASSUME TypeOK, NEW c, NEW a \in Answer, Tells(c, a)
    PROVE  down' \in Down
<1>1. down \in Down
  BY DEF TypeOK, Down
<1>2. c \in Clients => Send(down[c], a) \in Seq(Answer)
  BY <1>1, SendContents DEF Down
<1> QED
  BY <1>1, <1>2 DEF Tells, Down

\* ... and so does what a client sends.
LEMMA SaysType ==
    ASSUME TypeOK, NEW c \in Clients, NEW k \in {"syn", "ack", "close", "fin"},
           Says(c, k)
    PROVE  up' \in Up
<1>1. up \in Up
  BY DEF TypeOK, Up
<1>2. Send(up[c], k) \in Seq({"syn", "ack", "close", "fin"})
  BY <1>1, SendContents DEF Up
<1> QED
  BY <1>1, <1>2 DEF Says, Up

\* The answers have their type.
LEMMA AnswerTypes ==
    \A p \in Ports \cup {None} : SynAck(p) \in Answer /\ OpAck(p) \in Answer /\ Reject \in Answer
BY DEF SynAck, OpAck, Reject, Answer

\* A client that listens again keeps its type.
LEMMA RelistensType ==
    ASSUME TypeOK, NEW c \in Clients, Relistens(c)
    PROVE  up' \in Up /\ UNCHANGED clients
<1>1. LastSent(c) \in {"syn", "ack", "close", "fin"}
  BY DEF LastSent
<1> QED
  BY <1>1, SaysType DEF Relistens

\* The initial states have the invariant.
LEMMA PoolInit ==
    ASSUME Init
    PROVE  PoolInv
<1>1. TypeOK
  <2>1. <<"syn">> \in Seq({"syn", "ack", "close", "fin"}) /\ <<>> \in Seq(Answer)
    OBVIOUS
  <2>2. up \in Up /\ down \in Down
    BY <2>1 DEF Init, Up, Down
  <2> QED
    BY <2>2 DEF Init, TypeOK, None, Up, Down
<1>2. OfferedInv /\ RunningIsPooled
  BY DEF Init, OfferedInv, RunningIsPooled, Running
<1> QED
  BY <1>1, <1>2 DEF PoolInv

\* The clients' steps leave the accepter and the pool alone.
LEMMA ClientStep ==
    ASSUME PoolInv, NEW c \in Clients,
           \/ \E i \in Deliverable(down[c]) : ClientReceives(c, i)
           \/ ClientRetransmits(c)
           \/ ClientGivesUp(c)
    PROVE  PoolInv'
<1>0. TypeOK
  BY DEF PoolInv
<1>1. UNCHANGED <<accepter, thread, pool, main>>
  BY DEF ClientReceives, ClientRetransmits, ClientGivesUp
<1>2. cpc' \in [Clients -> {"syn", "op", "finalizing"} \cup ClientEnds]
      /\ cport' \in [Clients -> Ports \cup {None}] /\ up' \in Up /\ down' \in Down
  <2>1. ASSUME NEW i \in Deliverable(down[c]), ClientReceives(c, i)
        PROVE  <1>2
    <3> DEFINE a == down[c][i]
    <3>0. down[c] \in Seq(Answer)
      BY <1>0 DEF TypeOK
    <3>1. a \in Answer
      <4>1. i \in DOMAIN down[c]
        BY DEF Deliverable
      <4> QED
        BY <3>0, <4>1
    <3>2. down' \in Down
      <4>1. PICK ch \in AfterReceipt(down[c], i) : down' = [down EXCEPT ![c] = ch]
        BY <2>1 DEF ClientReceives
      <4>2. ch \in Seq(Answer)
        BY <3>0, <4>1, ReceiptContents
      <4> QED
        BY <1>0, <4>1, <4>2 DEF TypeOK, Down
    <3>3. CASE Relistens(c)
      BY <1>0, <3>2, <3>3, RelistensType DEF clients, TypeOK
    <3>4. CASE a.kind = "synack" /\ cport' = [cport EXCEPT ![c] = a.port]
               /\ Becomes(c, "op") /\ Says(c, "ack")
      <4>1. a.port \in Ports \cup {None}
        BY <3>1 DEF Answer
      <4>2. up' \in Up
        BY <1>0, <3>4, SaysType
      <4> QED
        BY <1>0, <3>2, <3>4, <4>1, <4>2 DEF TypeOK, Becomes
    <3>5. CASE \E s \in ClientEnds : Becomes(c, s) /\ UNCHANGED <<cport, up>>
      BY <1>0, <3>2, <3>5 DEF TypeOK, Becomes, Up
    <3>6. \/ Relistens(c)
          \/ a.kind = "synack" /\ cport' = [cport EXCEPT ![c] = a.port]
             /\ Becomes(c, "op") /\ Says(c, "ack")
          \/ \E s \in ClientEnds : Becomes(c, s) /\ UNCHANGED <<cport, up>>
      BY <2>1 DEF ClientReceives, ClientSyn_Answer, ClientOp_Answer,
                  ClientFinalizes_Answer, ClientEnds
    <3> QED
      BY <3>3, <3>4, <3>5, <3>6
  <2>2. CASE ClientRetransmits(c)
    BY <1>0, <2>2, RelistensType DEF ClientRetransmits, clients, TypeOK, Down
  <2>3. CASE ClientGivesUp(c)
    <3>1. down' = down /\ cport' = cport
      BY <2>3 DEF ClientGivesUp
    <3>2. up' \in Up
      <4>1. up[c] \in Seq({"syn", "ack", "close", "fin"})
        BY <1>0 DEF TypeOK
      <4>2. Send(Send(up[c], "close"), "fin") \in Seq({"syn", "ack", "close", "fin"})
        <5>1. Send(up[c], "close") \in Seq({"syn", "ack", "close", "fin"})
          BY <4>1, SendContents
        <5> QED
          BY <5>1, SendContents
      <4> QED
        BY <1>0, <2>3, <4>2 DEF ClientGivesUp, TypeOK, Up
    <3>3. cpc' \in [Clients -> {"syn", "op", "finalizing"} \cup ClientEnds]
      BY <1>0, <2>3 DEF ClientGivesUp, Becomes, TypeOK, ClientEnds
    <3> QED
      BY <1>0, <3>1, <3>2, <3>3 DEF TypeOK, Down
  <2> QED
    BY <2>1, <2>2, <2>3
<1>3. TypeOK'
  BY <1>0, <1>1, <1>2 DEF TypeOK, accepter, main, Up, Down
<1>4. OfferedInv' /\ RunningIsPooled'
  BY <1>1 DEF PoolInv, OfferedInv, RunningIsPooled, accepter
<1> QED
  BY <1>3, <1>4 DEF PoolInv

\* A packet taken from the welcoming socket keeps the channels' type.
LEMMA TakenType ==
    ASSUME TypeOK, NEW c \in Clients, NEW i \in Deliverable(up[c]),
           NEW ch \in AfterReceipt(up[c], i)
    PROVE  [up EXCEPT ![c] = ch] \in Up /\ up[c][i] \in {"syn", "ack", "close", "fin"}
<1>1. up[c] \in Seq({"syn", "ack", "close", "fin"})
  BY DEF TypeOK
<1>2. ch \in Seq({"syn", "ack", "close", "fin"})
      /\ up[c][i] \in {"syn", "ack", "close", "fin"}
  BY <1>1, ReceiptContents
<1> QED
  BY <1>2 DEF TypeOK, Up

\* What the accepter receives starts or completes a handshake.
LEMMA ReceptionStep ==
    ASSUME PoolInv, NEW c \in Clients, NEW i \in Deliverable(up[c]),
           AccepterReceives(c, i)
    PROVE  PoolInv'
<1> DEFINE k == up[c][i]
<1>0. TypeOK /\ OfferedInv /\ RunningIsPooled
  BY DEF PoolInv
<1>1. UNCHANGED <<clients, main, thread, pool>>
  BY DEF AccepterReceives, AccepterAccepts, AccepterCompletes
<1>2. up' \in Up /\ k \in {"syn", "ack", "close", "fin"}
  BY <1>0, TakenType DEF AccepterReceives
<1>3. /\ apc' \in {"accepting", "completing", "adding", "stopped", "dead"}
      /\ offered' \in Ports \cup {None} /\ intent' \in {"ack", "close"}
      /\ owner' \in [Ports -> Clients \cup {None}] /\ down' \in Down
      /\ OfferedInv'
  <2>1. CASE AccepterAccepts(c, k)
    <3>1. CASE k # "syn" /\ NextAccept /\ UNCHANGED <<offered, owner, down>>
      BY <1>0, <2>1, <3>1 DEF AccepterAccepts, NextAccept, OfferedInv, TypeOK, Down
    <3>2. CASE Tells(c, Reject) /\ NextAccept /\ UNCHANGED <<offered, owner>>
      <4>1. down' \in Down
        BY <1>0, <3>2, TellsType, AnswerTypes
      <4> QED
        BY <1>0, <2>1, <3>2, <4>1 DEF AccepterAccepts, NextAccept, OfferedInv, TypeOK
    <3>3. CASE /\ \E p \in Ports \ Opened :
                     /\ offered' = p
                     /\ owner' = [owner EXCEPT ![p] = c]
                     /\ Tells(c, SynAck(p))
               /\ apc' = "completing"
      <4>1. PICK p \in Ports : offered' = p /\ owner' = [owner EXCEPT ![p] = c]
                              /\ Tells(c, SynAck(p))
        BY <3>3
      <4>2. down' \in Down
        BY <1>0, <4>1, TellsType, AnswerTypes
      <4> QED
        BY <1>0, <2>1, <3>3, <4>1, <4>2 DEF AccepterAccepts, OfferedInv, TypeOK
    <3> QED
      BY <2>1, <3>1, <3>2, <3>3 DEF AccepterAccepts
  <2>2. CASE AccepterCompletes(c, k)
    <3>1. CASE Completes(k) /\ apc' = "adding" /\ intent' = k
               /\ UNCHANGED <<offered, owner, down>>
      BY <1>0, <2>2, <3>1 DEF AccepterCompletes, Completes, OfferedInv, TypeOK, Down
    <3>2. CASE Tells(owner[offered], SynAck(offered)) /\ UNCHANGED accepter
      <4>1. down' \in Down
        BY <1>0, <3>2, TellsType, AnswerTypes DEF TypeOK
      <4> QED
        BY <1>0, <3>2, <4>1 DEF accepter, OfferedInv, TypeOK
    <3> QED
      BY <2>2, <3>1, <3>2 DEF AccepterCompletes
  <2> QED
    BY <2>1, <2>2 DEF AccepterReceives
<1>4. TypeOK'
  BY <1>0, <1>1, <1>2, <1>3 DEF TypeOK, clients, main, Up, Down
<1>5. RunningIsPooled'
  BY <1>0, <1>1 DEF RunningIsPooled
<1> QED
  BY <1>3, <1>4, <1>5 DEF PoolInv

\* The new connection is in the pool, and what leaves it has been joined.
LEMMA AddStep ==
    ASSUME PoolInv, AccepterAdds
    PROVE  PoolInv'
<1>0. TypeOK /\ OfferedInv /\ RunningIsPooled
  BY DEF PoolInv
<1>1. offered \in Ports
  BY <1>0 DEF OfferedInv, AccepterAdds
<1>2. ASSUME NEW p \in Ports
      PROVE  thread'[p] = IF p = offered
                          THEN (IF intent = "ack" THEN "started" ELSE "stuck")
                          ELSE IF p \in Reaped THEN AfterKill(p) ELSE thread[p]
  BY DEF AccepterAdds
<1>3. \A p \in Ports : AfterKill(p) \in {"stuck", "ended"} /\ AfterKill(p) \notin Running
  BY DEF AfterKill, Running
<1>4. thread' \in [Ports -> States]
  <2>1. \A p \in Ports : thread'[p] \in States
    BY <1>0, <1>2, <1>3 DEF States, Running, TypeOK
  <2>2. thread' = [p \in Ports |-> thread'[p]]
    BY DEF AccepterAdds
  <2> QED
    BY <2>1, <2>2
<1>5. TypeOK'
  <2>1. pool' \subseteq Ports
    BY <1>0, <1>1 DEF AccepterAdds, TypeOK
  <2>2. UNCHANGED <<clients, intent, owner, main, up, down>>
        /\ apc' \in {"accepting", "stopped"} /\ offered' = None
    BY DEF AccepterAdds, NextAccept
  <2> QED
    BY <1>0, <1>4, <2>1, <2>2 DEF TypeOK, States, clients, main
<1>6. OfferedInv'
  BY DEF AccepterAdds, NextAccept, OfferedInv
<1>7. RunningIsPooled'
  <2> SUFFICES ASSUME NEW p \in Ports, thread'[p] \in Running
               PROVE  p \in pool'
    BY DEF RunningIsPooled
  <2>1. CASE p = offered
    BY <2>1 DEF AccepterAdds
  <2>2. CASE p # offered
    <3>1. p \notin Reaped
      BY <1>2, <1>3, <2>2
    <3>2. p \in pool
      BY <1>0, <1>2, <2>2, <3>1 DEF RunningIsPooled
    <3> QED
      BY <3>1, <3>2 DEF AccepterAdds
  <2> QED
    BY <2>1, <2>2
<1> QED
  BY <1>5, <1>6, <1>7 DEF PoolInv

\* The accepter's other steps leave the pool alone.
LEMMA AccepterStep ==
    ASSUME PoolInv, AccepterRetransmits \/ AccepterGivesUp \/ AccepterIsShut
    PROVE  PoolInv'
<1>0. TypeOK /\ OfferedInv /\ RunningIsPooled
  BY DEF PoolInv
<1>1. CASE AccepterRetransmits
  <2>1. down' \in Down
    BY <1>0, <1>1, TellsType, AnswerTypes DEF AccepterRetransmits, TypeOK
  <2>2. UNCHANGED <<clients, accepter, thread, pool, main, up>>
    BY <1>1 DEF AccepterRetransmits
  <2> QED
    BY <1>0, <2>1, <2>2 DEF PoolInv, TypeOK, OfferedInv, RunningIsPooled,
                            clients, accepter, main, Down
<1>2. CASE AccepterGivesUp
  <2>1. UNCHANGED <<clients, intent, owner, thread, pool, main, down>> /\ offered' = None
        /\ apc' \in {"accepting", "stopped", "dead"}
    BY <1>2 DEF AccepterGivesUp, NextAccept
  <2>2. up' \in Up
    <3>1. CASE up' = up
      BY <1>0, <3>1 DEF TypeOK, Up
    <3>2. CASE \E c \in Clients : \E i \in Deliverable(up[c]) :
                   up' = [up EXCEPT ![c] = RemoveAt(@, i)]
      <4>0. PICK c \in Clients :
                \E i \in Deliverable(up[c]) : up' = [up EXCEPT ![c] = RemoveAt(@, i)]
        BY <3>2
      <4>1. PICK i \in Deliverable(up[c]) : up' = [up EXCEPT ![c] = RemoveAt(@, i)]
        BY <4>0
      <4>2. RemoveAt(up[c], i) \in AfterReceipt(up[c], i)
        BY DEF AfterReceipt
      <4> QED
        BY <1>0, <4>1, <4>2, TakenType
    <3> QED
      BY <1>2, <3>1, <3>2 DEF AccepterGivesUp
  <2> QED
    BY <1>0, <2>1, <2>2 DEF PoolInv, TypeOK, OfferedInv, RunningIsPooled,
                            clients, main, Up
<1>3. CASE AccepterIsShut
  <2>1. UNCHANGED <<clients, intent, owner, thread, pool, main, up, down>>
        /\ offered' = None /\ apc' = "stopped"
    BY <1>3 DEF AccepterIsShut
  <2> QED
    BY <1>0, <2>1 DEF PoolInv, TypeOK, OfferedInv, RunningIsPooled, clients, main
<1> QED
  BY <1>1, <1>2, <1>3

\* A connection that runs stays in the pool.
LEMMA ConnectionStep ==
    ASSUME PoolInv, NEW p \in Ports,
           \/ ConnectionConfirms(p) \/ ConnectionRetransmits(p)
           \/ ConnectionEnds(p) \/ ConnectionGivesUp(p)
    PROVE  PoolInv'
<1>0. TypeOK /\ OfferedInv /\ RunningIsPooled
  BY DEF PoolInv
<1>1. down' \in Down
  <2>1. CASE \E c : Tells(c, OpAck(p))
    BY <1>0, <2>1, TellsType, AnswerTypes
  <2>2. CASE down' = down
    BY <1>0, <2>2 DEF TypeOK, Down
  <2> QED
    BY <2>1, <2>2 DEF ConnectionConfirms, ConnectionRetransmits,
                      ConnectionEnds, ConnectionGivesUp
<1>2. \/ thread' = thread
      \/ /\ thread[p] \in Running
         /\ \E s \in States : thread' = [thread EXCEPT ![p] = s]
  BY DEF ConnectionConfirms, ConnectionRetransmits, ConnectionEnds,
         ConnectionGivesUp, Turns, Running, States
<1>3. UNCHANGED <<clients, accepter, pool, main, up>>
  BY DEF ConnectionConfirms, ConnectionRetransmits, ConnectionEnds,
         ConnectionGivesUp, Turns
<1>4. thread' \in [Ports -> States] /\ RunningIsPooled'
  BY <1>0, <1>2, <1>3 DEF TypeOK, States, RunningIsPooled
<1> QED
  BY <1>0, <1>1, <1>3, <1>4 DEF PoolInv, TypeOK, OfferedInv, States,
                                clients, accepter, main, Down

\* kill_all only ends threads.
LEMMA MainStep ==
    ASSUME PoolInv, Stop \/ KillAll \/ KillAllFails \/ Joined
    PROVE  PoolInv'
<1>0. TypeOK /\ OfferedInv /\ RunningIsPooled
  BY DEF PoolInv
<1>1. UNCHANGED <<clients, accepter, pool, up, down>>
  BY DEF Stop, KillAll, KillAllFails, Joined
<1>2. mpc' \in {"serving", "killing", "joining", "joined"}
      /\ killed' \subseteq Ports /\ shut' \in BOOLEAN /\ poolSize' \in Nat
  <2>1. Cardinality(pool) \in Nat
    <3>1. IsFiniteSet(Ports)
      BY AccepterAssumption, FS_Interval DEF Ports
    <3>2. IsFiniteSet(pool)
      BY <1>0, <3>1, FS_Subset DEF TypeOK
    <3> QED
      BY <3>2, FS_CardinalityType
  <2> QED
    BY <1>0, <2>1 DEF Stop, KillAll, KillAllFails, Joined, TypeOK
<1>3. \/ thread' = thread
      \/ \E p \in Ports : thread' = [thread EXCEPT ![p] = AfterKill(p)]
  BY <1>0 DEF Stop, KillAll, KillAllFails, Joined, TypeOK
<1>4. thread' \in [Ports -> States] /\ RunningIsPooled'
  <2>1. \A p \in Ports : AfterKill(p) \in States \ Running
    BY DEF AfterKill, States, Running
  <2> QED
    BY <1>0, <1>1, <1>3, <2>1 DEF TypeOK, States, RunningIsPooled
<1> QED
  BY <1>0, <1>1, <1>2, <1>4 DEF PoolInv, TypeOK, OfferedInv, States,
                                clients, accepter

\* A packet lost.
LEMMA LoseStep ==
    ASSUME PoolInv, Lose
    PROVE  PoolInv'
<1>0. TypeOK /\ OfferedInv /\ RunningIsPooled
  BY DEF PoolInv
<1>1. PICK c \in Clients :
          \/ up' \in {[up EXCEPT ![c] = ch] : ch \in AfterLoss(up[c])} /\ down' = down
          \/ down' \in {[down EXCEPT ![c] = ch] : ch \in AfterLoss(down[c])} /\ up' = up
  BY DEF Lose
<1>2. UNCHANGED <<clients, accepter, thread, pool, main>>
  BY DEF Lose
<1>3. up[c] \in Seq({"syn", "ack", "close", "fin"}) /\ down[c] \in Seq(Answer)
  BY <1>0 DEF TypeOK
<1>4. \A ch \in AfterLoss(up[c]) : ch \in Seq({"syn", "ack", "close", "fin"})
  BY <1>3, LossContents
<1>5. \A ch \in AfterLoss(down[c]) : ch \in Seq(Answer)
  BY <1>3, LossContents
<1>6. up' \in Up /\ down' \in Down
  <2>1. CASE up' \in {[up EXCEPT ![c] = ch] : ch \in AfterLoss(up[c])} /\ down' = down
    BY <1>0, <1>4, <2>1 DEF TypeOK, Up, Down
  <2>2. CASE down' \in {[down EXCEPT ![c] = ch] : ch \in AfterLoss(down[c])} /\ up' = up
    BY <1>0, <1>5, <2>2 DEF TypeOK, Up, Down
  <2> QED
    BY <1>1, <2>1, <2>2
<1> QED
  BY <1>0, <1>2, <1>6 DEF PoolInv, TypeOK, OfferedInv, RunningIsPooled,
                          clients, accepter, main, Up, Down

\* Every step of the accepter, its clients and its connections keeps the
\* pool's invariant.
THEOREM PoolInvariance == Spec => []PoolInv
<1>1. Init => PoolInv
  BY PoolInit
<1>2. PoolInv /\ [Next]_vars => PoolInv'
  <2> SUFFICES ASSUME PoolInv, [Next]_vars
               PROVE  PoolInv'
    OBVIOUS
  <2>1. CASE \E c \in Clients : \E i \in Deliverable(down[c]) : ClientReceives(c, i)
    BY <2>1, ClientStep
  <2>2. CASE \E c \in Clients : \E i \in Deliverable(up[c]) : AccepterReceives(c, i)
    BY <2>2, ReceptionStep
  <2>3. CASE \E c \in Clients : ClientRetransmits(c) \/ ClientGivesUp(c)
    BY <2>3, ClientStep
  <2>4. CASE AccepterRetransmits \/ AccepterGivesUp \/ AccepterIsShut
    BY <2>4, AccepterStep
  <2>5. CASE AccepterAdds
    BY <2>5, AddStep
  <2>6. CASE \E p \in Ports : \/ ConnectionConfirms(p) \/ ConnectionRetransmits(p)
                             \/ ConnectionEnds(p) \/ ConnectionGivesUp(p)
    BY <2>6, ConnectionStep
  <2>7. CASE Stop \/ KillAll \/ KillAllFails \/ Joined
    BY <2>7, MainStep
  <2>8. CASE Lose
    BY <2>8, LoseStep
  <2>9. CASE UNCHANGED vars
    BY <2>9 DEF PoolInv, TypeOK, OfferedInv, RunningIsPooled,
                vars, clients, accepter, main
  <2> QED
    BY <2>1, <2>2, <2>3, <2>4, <2>5, <2>6, <2>7, <2>8, <2>9 DEF Next
<1> QED
  BY <1>1, <1>2, PTL DEF Spec

\* The accepter's variables keep their types for every instance.
THEOREM AccepterTypeCorrect == Spec => []TypeOK
<1>1. PoolInv => TypeOK
  BY DEF PoolInv
<1> QED
  BY <1>1, PoolInvariance, PTL

\* No running connection thread escapes the pool that kill_all iterates
\* over (client_manager.py), whatever the clients and the network do.
THEOREM PoolSound == Spec => []RunningIsPooled
<1>1. PoolInv => RunningIsPooled
  BY DEF PoolInv
<1> QED
  BY <1>1, PoolInvariance, PTL

-----------------------------------------------------------------------------
(* What a stop leaves running.                                             *)

\* Clients, links and retransmissions touch none of it.
LEMMA StopStutters ==
    ASSUME StopInv, UNCHANGED <<accepter, thread, pool, main>>
    PROVE  StopInv'
  BY DEF StopInv, PortInv, KilledInv, ShutInv, Handshaking, accepter, main

\* The accepter in accept and in the handshake: a port it offers is new.
LEMMA HandshakeStops ==
    ASSUME PoolInv, StopInv, NEW c \in Clients, NEW i, AccepterReceives(c, i)
    PROVE  StopInv'
<1>0. PortInv /\ KilledInv /\ ShutInv /\ TypeOK
  BY DEF StopInv, PoolInv
<1>1. ~shut /\ UNCHANGED <<thread, pool, main>>
  BY DEF AccepterReceives, AccepterAccepts, AccepterCompletes
<1>2. KilledInv' /\ ShutInv'
  BY <1>0, <1>1 DEF KilledInv, ShutInv, main
<1>3. PortInv'
  <2>1. CASE UNCHANGED <<offered, owner>> /\ (Handshaking' => Handshaking)
    BY <1>0, <1>1, <2>1 DEF PortInv, Handshaking
  <2>2. CASE \E p \in Ports \ Opened :
                offered' = p /\ owner' = [owner EXCEPT ![p] = c]
    <3>0. PICK p \in Ports \ Opened :
                offered' = p /\ owner' = [owner EXCEPT ![p] = c]
      BY <2>2
    <3>1. owner[p] = None /\ c # None
      BY <3>0, AccepterAssumption DEF Opened, None
    <3>2. owner'[p] = c /\ \A q \in Ports : q # p => owner'[q] = owner[q]
      BY <1>0, <3>0 DEF TypeOK
    <3> QED
      BY <1>0, <1>1, <3>0, <3>1, <3>2 DEF PortInv
  <2>3. CASE apc' \in {"accepting", "stopped"} /\ UNCHANGED <<offered, owner>>
    BY <1>0, <1>1, <2>3 DEF PortInv, Handshaking
  <2>4. AccepterAccepts(c, up[c][i]) \/ AccepterCompletes(c, up[c][i])
    BY DEF AccepterReceives
  <2>5. CASE AccepterAccepts(c, up[c][i])
    BY <2>2, <2>3, <2>5 DEF AccepterAccepts, NextAccept
  <2>6. CASE AccepterCompletes(c, up[c][i])
    BY <2>1, <2>6 DEF AccepterCompletes, Handshaking, accepter
  <2> QED
    BY <2>4, <2>5, <2>6
<1> QED
  BY <1>2, <1>3 DEF StopInv

\* add_client after a stop: the one connection that is added, is added by an
\* accepter that then ends.
LEMMA AddStops ==
    ASSUME PoolInv, StopInv, AccepterAdds
    PROVE  StopInv'
<1>0. PortInv /\ KilledInv /\ ShutInv /\ TypeOK
  BY DEF StopInv, PoolInv
<1>1. offered \in Ports /\ thread[offered] = "none" /\ owner[offered] # None
  BY <1>0 DEF PoolInv, OfferedInv, PortInv, Handshaking, AccepterAdds
<1>2. /\ pool' = (pool \ Reaped) \cup {offered}
      /\ UNCHANGED <<owner, main>>
      /\ apc' = IF mpc = "serving" THEN "accepting" ELSE "stopped"
  BY DEF AccepterAdds, NextAccept
<1>3. \A p \in Ports :
          thread'[p] = IF p = offered
                       THEN (IF intent = "ack" THEN "started" ELSE "stuck")
                       ELSE IF p \in Reaped THEN AfterKill(p) ELSE thread[p]
  BY DEF AccepterAdds
<1>4. \A p \in Ports : AfterKill(p) \in {"stuck", "ended"}
  BY DEF AfterKill
<1>5. Reaped \subseteq pool /\ pool \subseteq Ports /\ killed \subseteq Ports
  BY <1>0 DEF Reaped, TypeOK
<1>6. PortInv'
  <2>1. ASSUME NEW p \in Ports, owner'[p] = None
        PROVE  thread'[p] = "none"
    <3>1. owner[p] = None /\ thread[p] = "none" /\ p # offered
      BY <1>0, <1>1, <1>2, <2>1 DEF PortInv
    <3>2. p \notin Reaped
      BY <3>1 DEF Reaped
    <3> QED
      BY <1>3, <3>1, <3>2
  <2>2. ASSUME NEW p \in pool'
        PROVE  thread'[p] # "none"
    <3>1. p \in Ports /\ (p = offered \/ (p \in pool /\ p \notin Reaped))
      BY <1>1, <1>2, <1>5, <2>2
    <3>2. p # offered => thread[p] # "none"
      BY <1>0, <3>1 DEF PortInv
    <3> QED
      BY <1>3, <3>1, <3>2
  <2>3. ~Handshaking'
    BY <1>2 DEF Handshaking
  <2> QED
    BY <2>1, <2>2, <2>3 DEF PortInv
<1>7. KilledInv'
  <2> SUFFICES ASSUME NEW p \in killed
               PROVE  thread'[p] \in {"ended", "stuck"}
    BY <1>2 DEF KilledInv, main
  <2>1. p \in Ports /\ thread[p] \in {"ended", "stuck"}
    BY <1>0, <1>5 DEF KilledInv
  <2>2. p # offered
    BY <1>1, <2>1
  <2> QED
    BY <1>3, <1>4, <2>1, <2>2
<1>8. ShutInv'
  <2> SUFFICES ASSUME shut
               PROVE  /\ mpc \in {"joining", "joined"}
                      /\ \A p, q \in pool' \ killed : p = q
                      /\ apc' = "stopped"
    BY <1>2 DEF ShutInv, main
  <2>1. mpc \in {"joining", "joined"} /\ pool \subseteq killed
    BY <1>0 DEF ShutInv, AccepterAdds
  <2> QED
    BY <1>2, <2>1
<1> QED
  BY <1>6, <1>7, <1>8 DEF StopInv

\* The accepter's other steps end a handshake or leave it.
LEMMA AccepterStops ==
    ASSUME StopInv, AccepterRetransmits \/ AccepterGivesUp \/ AccepterIsShut
    PROVE  StopInv'
<1>1. CASE AccepterRetransmits
  BY <1>1, StopStutters DEF AccepterRetransmits
<1>2. CASE AccepterGivesUp \/ AccepterIsShut
  <2>1. /\ UNCHANGED <<owner, thread, pool, main>>
        /\ apc' \in {"stopped", "dead"} \/ (~shut /\ apc' = "accepting")
    BY <1>2 DEF AccepterGivesUp, AccepterIsShut, NextAccept, AtLimit
  <2> QED
    BY <2>1 DEF StopInv, PortInv, KilledInv, ShutInv, Handshaking, main
<1> QED
  BY <1>1, <1>2

\* A connection's own steps are those of a thread that runs.
LEMMA ConnectionStops ==
    ASSUME PoolInv, StopInv, NEW p \in Ports,
           \/ ConnectionConfirms(p) \/ ConnectionRetransmits(p)
           \/ ConnectionEnds(p) \/ ConnectionGivesUp(p)
    PROVE  StopInv'
<1>0. PortInv /\ KilledInv /\ ShutInv /\ TypeOK
  BY DEF StopInv, PoolInv
<1>1. UNCHANGED <<accepter, pool, main>>
  BY DEF ConnectionConfirms, ConnectionRetransmits, ConnectionEnds,
         ConnectionGivesUp, Turns
<1>2. \/ thread' = thread
      \/ /\ thread[p] \in Running
         /\ \E s \in States \ {"none"} : thread' = [thread EXCEPT ![p] = s]
  BY DEF ConnectionConfirms, ConnectionRetransmits, ConnectionEnds,
         ConnectionGivesUp, Turns, Running, States
<1>3. CASE thread' = thread
  BY <1>1, <1>3, StopStutters
<1>4. CASE /\ thread[p] \in Running
           /\ \E s \in States \ {"none"} : thread' = [thread EXCEPT ![p] = s]
  <2>1. thread'[p] # "none" /\ \A q \in Ports : q # p => thread'[q] = thread[q]
    BY <1>0, <1>4 DEF TypeOK
  <2>2. owner[p] # None /\ (Handshaking => p # offered) /\ p \notin killed
    BY <1>0, <1>4 DEF PortInv, KilledInv, Running
  <2>3. PortInv'
    <3>1. Handshaking => offered \in Ports
      BY DEF PoolInv, OfferedInv, Handshaking
    <3>2. pool \subseteq Ports
      BY <1>0 DEF TypeOK
    <3> QED
      BY <1>0, <1>1, <2>1, <2>2, <3>1, <3>2 DEF PortInv, Handshaking, accepter
  <2>4. KilledInv'
    BY <1>0, <1>1, <2>1, <2>2 DEF KilledInv, TypeOK, main
  <2>5. ShutInv'
    BY <1>0, <1>1 DEF ShutInv, accepter, main
  <2> QED
    BY <2>3, <2>4, <2>5 DEF StopInv
<1> QED
  BY <1>2, <1>3, <1>4

\* kill_all reaches the end of the pool before the socket is shut down.
LEMMA MainStops ==
    ASSUME PoolInv, StopInv, Stop \/ KillAll \/ KillAllFails \/ Joined
    PROVE  StopInv'
<1>0. PortInv /\ KilledInv /\ ShutInv /\ TypeOK
  BY DEF StopInv, PoolInv
<1>1. UNCHANGED <<accepter, pool>>
  BY DEF Stop, KillAll, KillAllFails, Joined
<1>2. CASE Stop \/ KillAllFails \/ Joined
  <2>1. UNCHANGED <<thread, killed, shut>> /\ (shut => mpc' \in {"joining", "joined"})
    BY <1>0, <1>2 DEF Stop, KillAllFails, Joined, ShutInv
  <2> QED
    BY <1>0, <1>1, <2>1 DEF StopInv, PortInv, KilledInv, ShutInv, Handshaking, accepter
<1>3. CASE \E p \in pool \ killed :
              /\ killed' = killed \cup {p}
              /\ thread' = [thread EXCEPT ![p] = AfterKill(p)]
              /\ mpc = "killing" /\ UNCHANGED <<mpc, shut>>
  <2>0. PICK p \in pool \ killed :
              /\ killed' = killed \cup {p}
              /\ thread' = [thread EXCEPT ![p] = AfterKill(p)]
              /\ mpc = "killing" /\ UNCHANGED <<mpc, shut>>
    BY <1>3
  <2>1. p \in Ports /\ pool \subseteq Ports /\ killed \subseteq Ports
    BY <1>0 DEF TypeOK
  <2>2. thread'[p] \in {"ended", "stuck"}
        /\ \A q \in Ports : q # p => thread'[q] = thread[q]
    BY <1>0, <2>0, <2>1 DEF TypeOK, AfterKill
  <2>3. owner[p] # None /\ (Handshaking => p # offered)
    BY <1>0, <2>0, <2>1 DEF PortInv
  <2>4. PortInv'
    <3>1. Handshaking => offered \in Ports
      BY DEF PoolInv, OfferedInv, Handshaking
    <3> QED
      BY <1>0, <1>1, <2>1, <2>2, <2>3, <3>1 DEF PortInv, Handshaking, accepter
  <2>5. KilledInv'
    BY <1>0, <2>0, <2>1, <2>2 DEF KilledInv
  <2>6. ShutInv'
    BY <1>0, <2>0 DEF ShutInv
  <2> QED
    BY <2>4, <2>5, <2>6 DEF StopInv
<1>4. CASE pool \subseteq killed /\ mpc' = "joining" /\ UNCHANGED <<killed, thread>>
  BY <1>0, <1>1, <1>4 DEF StopInv, PortInv, KilledInv, ShutInv, Handshaking, accepter
<1>5. CASE KillAll
  BY <1>3, <1>4, <1>5 DEF KillAll
<1> QED
  BY <1>2, <1>5

\* What a stop can leave running is an invariant of every step.
THEOREM StopInvariance == Spec => []StopInv
<1>1. Init => StopInv
  BY DEF Init, StopInv, PortInv, KilledInv, ShutInv, Handshaking
<1>2. PoolInv /\ StopInv /\ [Next]_vars => StopInv'
  <2> SUFFICES ASSUME PoolInv, StopInv, [Next]_vars
               PROVE  StopInv'
    OBVIOUS
  <2>1. CASE \E c \in Clients : \E i \in Deliverable(down[c]) : ClientReceives(c, i)
    BY <2>1, StopStutters DEF ClientReceives
  <2>2. CASE \E c \in Clients : \E i \in Deliverable(up[c]) : AccepterReceives(c, i)
    BY <2>2, HandshakeStops
  <2>3. CASE \E c \in Clients : ClientRetransmits(c) \/ ClientGivesUp(c)
    BY <2>3, StopStutters DEF ClientRetransmits, ClientGivesUp
  <2>4. CASE AccepterRetransmits \/ AccepterGivesUp \/ AccepterIsShut
    BY <2>4, AccepterStops
  <2>5. CASE AccepterAdds
    BY <2>5, AddStops
  <2>6. CASE \E p \in Ports : \/ ConnectionConfirms(p) \/ ConnectionRetransmits(p)
                             \/ ConnectionEnds(p) \/ ConnectionGivesUp(p)
    BY <2>6, ConnectionStops
  <2>7. CASE Stop \/ KillAll \/ KillAllFails \/ Joined
    BY <2>7, MainStops
  <2>8. CASE Lose \/ UNCHANGED vars
    BY <2>8, StopStutters DEF Lose, vars
  <2> QED
    BY <2>1, <2>2, <2>3, <2>4, <2>5, <2>6, <2>7, <2>8 DEF Next
<1> QED
  BY <1>1, <1>2, PoolInvariance, PTL DEF Spec

\* A stop that went through the pool (Accepter.join, kill_all) leaves at most
\* one connection's thread running: that of the handshake it interrupted.
THEOREM OneOutlives == Spec => []AtMostOneOutlives
<1>1. ASSUME PoolInv, StopInv
      PROVE  AtMostOneOutlives
  <2> SUFFICES ASSUME shut
               PROVE  Cardinality({p \in Ports : thread[p] \in Running}) <= 1
    BY DEF AtMostOneOutlives
  <2> DEFINE R == {p \in Ports : thread[p] \in Running}
  <2>1. \A p \in R : p \in pool \ killed
    BY <1>1 DEF PoolInv, RunningIsPooled, StopInv, KilledInv, Running
  <2>2. \A p, q \in R : p = q
    BY <1>1, <2>1 DEF StopInv, ShutInv
  <2>3. CASE R = {}
    <3>1. Cardinality(R) = 0
      BY <2>3, FS_EmptySet
    <3> QED
      BY <3>1
  <2>4. CASE R # {}
    <3>1. PICK p \in R : TRUE
      BY <2>4
    <3>2. R = {p}
      BY <2>2, <3>1
    <3>3. Cardinality(R) = 1
      BY <3>2, FS_Singleton
    <3> QED
      BY <3>3
  <2> QED
    BY <2>3, <2>4
<1> QED
  BY <1>1, PoolInvariance, StopInvariance, PTL

-----------------------------------------------------------------------------
(* Whose connection it is.                                                 *)

\* A packet taken from the welcoming socket leaves what the clients sent, in
\* its order.
LEMMA UpTaken ==
    ASSUME TypeOK, ToldInv, NEW c \in Clients, NEW i \in Deliverable(up[c]),
           NEW ch \in AfterReceipt(up[c], i), up' = [up EXCEPT ![c] = ch],
           NEW d \in Clients
    PROVE  Range(up'[d]) \subseteq Range(up[d]) /\ Follows(up'[d], Later)
<1>1. up[c] \in Seq({"syn", "ack", "close", "fin"}) /\ Follows(up[c], Later)
  BY DEF TypeOK, ToldInv, Told
<1>2. Range(ch) \subseteq Range(up[c])
  BY <1>1, ReceiptContents
<1>3. Follows(ch, Later)
  BY <1>1, FollowsReceipt
<1>4. CASE d = c
  BY <1>2, <1>3, <1>4 DEF TypeOK
<1>5. CASE d # c
  BY <1>5 DEF TypeOK, ToldInv, Told
<1> QED
  BY <1>4, <1>5

\* A packet lost does, too.
LEMMA UpLost ==
    ASSUME TypeOK, ToldInv, NEW c \in Clients,
           NEW ch \in AfterLoss(up[c]), up' = [up EXCEPT ![c] = ch],
           NEW d \in Clients
    PROVE  Range(up'[d]) \subseteq Range(up[d]) /\ Follows(up'[d], Later)
<1>1. up[c] \in Seq({"syn", "ack", "close", "fin"}) /\ Follows(up[c], Later)
  BY DEF TypeOK, ToldInv, Told
<1>2. Range(ch) \subseteq Range(up[c])
  BY <1>1, LossContents
<1>3. Follows(ch, Later)
  BY <1>1, FollowsLoss
<1>4. CASE d = c
  BY <1>2, <1>3, <1>4 DEF TypeOK
<1>5. CASE d # c
  BY <1>5 DEF TypeOK, ToldInv, Told
<1> QED
  BY <1>4, <1>5

\* What a client sends goes behind what it sent before, and nowhere else.
LEMMA UpSent ==
    ASSUME TypeOK, NEW c \in Clients, NEW k \in {"syn", "ack", "close", "fin"},
           Says(c, k)
    PROVE  /\ Range(up'[c]) \subseteq Range(up[c]) \cup {k}
           /\ Follows(up[c], Later) /\ k \in Later => Follows(up'[c], Later)
           /\ \A d \in Clients : d # c => up'[d] = up[d]
<1> DEFINE K == {"syn", "ack", "close", "fin"}
<1>1. up[c] \in Seq(K) /\ k \in K
  BY DEF TypeOK
<1>2. up'[c] = Send(up[c], k) /\ \A d \in Clients : d # c => up'[d] = up[d]
  BY DEF TypeOK, Says
<1> HIDE DEF K
<1>3. Range(Send(up[c], k)) \subseteq Range(up[c]) \cup {k}
  BY <1>1, SendContents
<1>4. ASSUME Follows(up[c], Later), k \in Later
      PROVE  Follows(Send(up[c], k), Later)
  BY <1>1, <1>4, FollowsSend
<1> QED
  BY <1>2, <1>3, <1>4, Zenon

\* Fewer packets of the clients in flight, and the same of all else.
LEMMA ToldShrinks ==
    ASSUME ToldInv, CompletedInv, UNCHANGED <<clients, accepter>>,
           \A p \in Ports : thread'[p] # "none" => thread[p] # "none",
           \A d \in Clients : Range(up'[d]) \subseteq Range(up[d])
                               /\ Follows(up'[d], Later)
    PROVE  ToldInv' /\ CompletedInv'
<1>1. Opened' = Opened
  BY DEF Opened, accepter
<1>2. ASSUME NEW d \in Clients
      PROVE  Told(d)'
  BY <1>1 DEF ToldInv, Told, clients, accepter
<1>3. CompletedInv'
  BY <1>1 DEF CompletedInv, clients, accepter, Own
<1> QED
  BY <1>2, <1>3 DEF ToldInv

\* Ports stay opened for the client they were opened for, and what is sent to
\* a client offers no port that is not its own.
LEMMA OffersStand ==
    ASSUME OfferInv,
           \A p \in Opened : p \in Opened' /\ owner'[p] = owner[p],
           \A d \in Clients : \A a \in Range(down'[d]) :
              \/ a \in Range(down[d])
              \/ a.kind # "synack"
              \/ a.port \in Opened' /\ owner'[a.port] = d
    PROVE  OfferInv'
BY DEF OfferInv

\* What the server sends to one client.
LEMMA DownSent ==
    ASSUME TypeOK, NEW c \in Clients, NEW a \in Answer, Tells(c, a)
    PROVE  \A d \in Clients : \A b \in Range(down'[d]) :
              b \in Range(down[d]) \/ (d = c /\ b = a)
<1>1. down[c] \in Seq(Answer)
  BY DEF TypeOK
<1>2. down'[c] = Send(down[c], a) /\ \A d \in Clients : d # c => down'[d] = down[d]
  BY DEF TypeOK, Tells
<1>3. Range(Send(down[c], a)) \subseteq Range(down[c]) \cup {a}
  BY <1>1, SendContents
<1> QED
  BY <1>2, <1>3

\* A client that listens again repeats a SYN before it is told its port, and
\* never after.
LEMMA RelistensKnown ==
    ASSUME PoolInv, KnownInv, NEW c \in Clients, cpc[c] \notin ClientEnds,
           Relistens(c), UNCHANGED <<accepter, thread>>
    PROVE  ToldInv' /\ CompletedInv'
<1>0. TypeOK /\ ToldInv /\ CompletedInv /\ Told(c)
  BY DEF PoolInv, KnownInv, ToldInv
<1> DEFINE k == LastSent(c)
<1>1. Says(c, k) /\ k \in {"syn", "ack", "fin"} /\ cpc' = cpc /\ cport' = cport
  BY DEF Relistens, LastSent, clients
<1>2. IF cport[c] = None THEN k = "syn" ELSE k \in {"ack", "fin"}
  BY <1>0 DEF TypeOK, Told, LastSent, ClientEnds
<1> HIDE DEF k
<1>3. /\ Range(up'[c]) \subseteq Range(up[c]) \cup {k}
      /\ Follows(up[c], Later) /\ k \in Later => Follows(up'[c], Later)
      /\ \A d \in Clients : d # c => up'[d] = up[d]
  BY <1>0, <1>1, UpSent
<1>4. Opened' = Opened /\ owner' = owner
  BY DEF Opened, accepter
<1>5. Told(c)'
  <2>1. Follows(up'[c], Later)
    <3>1. CASE cport[c] = None
      <4>1. Range(up'[c]) \subseteq {"syn"}
        BY <1>0, <1>2, <1>3, <3>1 DEF Told
      <4>2. Range(up'[c]) \cap Later = {}
        BY <4>1 DEF Later
      <4> QED
        BY <4>2, FollowsTrivially
    <3>2. CASE cport[c] # None
      BY <1>0, <1>2, <1>3, <3>2 DEF Told, Later
    <3> QED
      BY <3>1, <3>2
  <2>2. cport[c] = None => Range(up'[c]) \subseteq {"syn"}
    BY <1>0, <1>2, <1>3 DEF Told
  <2> QED
    BY <1>0, <1>1, <1>4, <2>1, <2>2 DEF Told
<1>6. ASSUME NEW d \in Clients, d # c
      PROVE  Told(d)'
  BY <1>0, <1>1, <1>3, <1>4, <1>6 DEF ToldInv, Told
<1>7. CompletedInv'
  <2>1. ASSUME Opened # {}, apc \in {"accepting", "adding"}, NEW d \in Own
        PROVE  cport[d] # None /\ "syn" \notin Range(up'[d])
    <3>1. cport[d] # None /\ "syn" \notin Range(up[d]) /\ d \in Clients
      BY <1>0, <2>1 DEF CompletedInv, Own
    <3>2. CASE d = c
      BY <1>2, <1>3, <3>1, <3>2
    <3>3. CASE d # c
      BY <1>3, <3>1, <3>3
    <3> QED
      BY <3>2, <3>3
  <2>2. apc' = apc /\ offered' = offered /\ thread' = thread
    BY DEF accepter
  <2> QED
    BY <1>0, <1>1, <1>4, <2>1, <2>2 DEF CompletedInv
<1> QED
  BY <1>5, <1>6, <1>7 DEF ToldInv

\* A client that is told its port, by the only offer there is.
LEMMA AnsweredKnown ==
    ASSUME PoolInv, PortInv, KnownInv, NEW c \in Clients, NEW q \in Opened,
           owner[q] = c, cpc[c] = "syn",
           cport' = [cport EXCEPT ![c] = q], Becomes(c, "op"), Says(c, "ack"),
           UNCHANGED <<accepter, thread>>
    PROVE  ToldInv' /\ CompletedInv'
<1>0. TypeOK /\ ToldInv /\ CompletedInv /\ Told(c) /\ q \in Ports /\ q # None
  BY DEF PoolInv, KnownInv, ToldInv, Opened, Ports, None
<1>1. /\ Range(up'[c]) \subseteq Range(up[c]) \cup {"ack"}
      /\ Follows(up[c], Later) /\ "ack" \in Later => Follows(up'[c], Later)
      /\ \A d \in Clients : d # c => up'[d] = up[d]
  BY <1>0, UpSent
<1>2. /\ cport'[c] = q /\ cpc'[c] = "op" /\ cport[c] = None
      /\ \A d \in Clients : d # c => cport'[d] = cport[d] /\ cpc'[d] = cpc[d]
  BY <1>0 DEF TypeOK, Becomes, Told
<1>3. Opened' = Opened /\ owner' = owner /\ apc' = apc /\ offered' = offered
      /\ thread' = thread
  BY DEF Opened, accepter
<1>4. Told(c)'
  BY <1>0, <1>1, <1>2, <1>3 DEF Told, Later
<1>5. ASSUME NEW d \in Clients, d # c
      PROVE  Told(d)'
  BY <1>0, <1>1, <1>2, <1>3, <1>5 DEF ToldInv, Told
<1>6. CompletedInv'
  <2>1. ASSUME NEW p \in Ports, owner[p] \in Clients, cport[owner[p]] = p
        PROVE  cport'[owner[p]] = p
    BY <1>2, <2>1 DEF Ports, None
  <2>2. apc = "adding" => cport'[owner[offered]] = offered
    <3> SUFFICES ASSUME apc = "adding"
                 PROVE  cport'[owner[offered]] = offered
      OBVIOUS
    <3>1. offered \in Ports /\ owner[offered] # None
      BY DEF PoolInv, OfferedInv, PortInv, Handshaking
    <3>2. owner[offered] \in Clients /\ cport[owner[offered]] = offered
      BY <1>0, <3>1 DEF TypeOK, CompletedInv
    <3> QED
      BY <2>1, <3>1, <3>2
  <2>3. ASSUME NEW p \in Ports, thread[p] # "none"
        PROVE  p \in Opened /\ cport'[owner[p]] = p
    <3>1. p \in Opened /\ cport[owner[p]] = p
      BY <1>0, <2>3 DEF CompletedInv
    <3>2. owner[p] \in Clients
      BY <1>0, <3>1 DEF TypeOK, Opened
    <3> QED
      BY <2>1, <3>1, <3>2
  <2>4. ASSUME Opened # {}, apc \in {"accepting", "adding"}, NEW d \in Own
        PROVE  cport'[d] # None /\ "syn" \notin Range(up'[d])
    <3>1. cport[d] # None /\ "syn" \notin Range(up[d]) /\ d \in Clients
      BY <1>0, <2>4 DEF CompletedInv, Own
    <3>2. d # c
      BY <1>2, <3>1
    <3> QED
      BY <1>1, <1>2, <3>1, <3>2
  <2> QED
    BY <1>3, <2>2, <2>3, <2>4 DEF CompletedInv
<1> QED
  BY <1>4, <1>5, <1>6 DEF ToldInv

\* A client that ends sends nothing that is not behind what it sent before.
LEMMA LeavesKnown ==
    ASSUME KnownInv, NEW c \in Clients, NEW s \in ClientEnds,
           Becomes(c, s), UNCHANGED <<cport, up, accepter, thread>>, TypeOK
    PROVE  ToldInv' /\ CompletedInv'
<1>0. ToldInv /\ CompletedInv
  BY DEF KnownInv
<1>1. Opened' = Opened
  BY DEF Opened, accepter
<1>2. cpc'[c] = s /\ \A d \in Clients : d # c => cpc'[d] = cpc[d]
  BY DEF TypeOK, Becomes
<1>3. ASSUME NEW d \in Clients
      PROVE  Told(d)'
  <2>1. /\ cpc'[d] = "syn" => cpc[d] = "syn"
        /\ cpc'[d] \in {"op", "finalizing"} => cpc[d] \in {"op", "finalizing"}
    BY <1>2 DEF ClientEnds
  <2>2. Told(d) /\ UNCHANGED <<cport, up, owner>>
    BY <1>0 DEF ToldInv, accepter
  <2> QED
    BY <1>1, <2>1, <2>2 DEF Told
<1>4. CompletedInv'
  BY <1>0, <1>1 DEF CompletedInv, accepter
<1> QED
  BY <1>3, <1>4 DEF ToldInv

\* A client that gives up on its connection ends it with "close" and "fin".
LEMMA FinalizesKnown ==
    ASSUME PoolInv, KnownInv, NEW c \in Clients, cpc[c] = "op",
           Becomes(c, "finalizing"), up' = [up EXCEPT ![c] = Send(Send(@, "close"), "fin")],
           UNCHANGED <<cport, accepter, thread>>
    PROVE  ToldInv' /\ CompletedInv'
<1>0. TypeOK /\ ToldInv /\ CompletedInv /\ Told(c)
  BY DEF PoolInv, KnownInv, ToldInv
<1> DEFINE K == {"syn", "ack", "close", "fin"}
           ch == Send(up[c], "close")
<1>1. up[c] \in Seq(K) /\ Follows(up[c], Later) /\ cport[c] # None
  BY <1>0 DEF TypeOK, Told
<1>2. ch \in Seq(K) /\ Range(ch) \subseteq Range(up[c]) \cup {"close"}
  BY <1>1, SendContents
<1>3. Follows(ch, Later)
  <2>1. "close" \in K /\ "close" \in Later
    BY DEF Later
  <2> QED
    BY <1>1, <2>1, FollowsSend
<1> HIDE DEF ch
<1>4. Range(Send(ch, "fin")) \subseteq Range(ch) \cup {"fin"}
  BY <1>2, SendContents
<1>5. Follows(Send(ch, "fin"), Later)
  <2>1. "fin" \in K /\ "fin" \in Later
    BY DEF Later
  <2> QED
    BY <1>2, <1>3, <2>1, FollowsSend
<1>6. /\ up'[c] = Send(ch, "fin") /\ cpc'[c] = "finalizing"
      /\ \A d \in Clients : d # c => up'[d] = up[d] /\ cpc'[d] = cpc[d]
  BY <1>0 DEF TypeOK, Becomes, ch
<1>7. Opened' = Opened /\ owner' = owner
  BY DEF Opened, accepter
<1>8. Told(c)'
  BY <1>0, <1>1, <1>5, <1>6, <1>7 DEF Told
<1>9. ASSUME NEW d \in Clients, d # c
      PROVE  Told(d)'
  BY <1>0, <1>6, <1>7, <1>9 DEF ToldInv, Told
<1>10. CompletedInv'
  <2>1. ASSUME Opened # {}, apc \in {"accepting", "adding"}, NEW d \in Own
        PROVE  "syn" \notin Range(up'[d])
    <3>1. "syn" \notin Range(up[d]) /\ d \in Clients
      BY <1>0, <2>1 DEF CompletedInv, Own
    <3>2. CASE d = c
      BY <1>2, <1>4, <1>6, <3>1, <3>2
    <3>3. CASE d # c
      BY <1>6, <3>1, <3>3
    <3> QED
      BY <3>2, <3>3
  <2> QED
    BY <1>0, <1>7, <2>1 DEF CompletedInv, accepter
<1> QED
  BY <1>8, <1>9, <1>10 DEF ToldInv

\* A client's steps.
LEMMA ClientKnown ==
    ASSUME PoolInv, PortInv, KnownInv, NEW c \in Clients,
           \/ \E i \in Deliverable(down[c]) : ClientReceives(c, i)
           \/ ClientRetransmits(c)
           \/ ClientGivesUp(c)
    PROVE  KnownInv'
<1>0. TypeOK /\ OwnerInv /\ OfferInv /\ ToldInv
  BY DEF PoolInv, KnownInv
<1>1. UNCHANGED <<accepter, thread>>
  BY DEF ClientReceives, ClientRetransmits, ClientGivesUp
<1>2. OwnerInv' /\ Opened' = Opened /\ owner' = owner
  BY <1>0, <1>1 DEF OwnerInv, Opened, accepter
<1>3. ASSUME NEW i \in Deliverable(down[c]), ClientReceives(c, i)
      PROVE  OfferInv' /\ ToldInv' /\ CompletedInv'
  <2> DEFINE a == down[c][i]
  <2>0. down[c] \in Seq(Answer)
    BY <1>0 DEF TypeOK
  <2>1. OfferInv'
    <3>0. PICK ch \in AfterReceipt(down[c], i) : down' = [down EXCEPT ![c] = ch]
      BY <1>3 DEF ClientReceives
    <3>1. Range(ch) \subseteq Range(down[c])
      BY <2>0, <3>0, ReceiptContents
    <3>2. ASSUME NEW d \in Clients, NEW b \in Range(down'[d])
          PROVE  b \in Range(down[d])
      BY <1>0, <3>0, <3>1, <3>2 DEF TypeOK
    <3> QED
      BY <1>0, <1>2, <3>2, OffersStand
  <2>2. a \in Range(down[c])
    BY <2>0 DEF Deliverable, Range
  <2>3. CASE cpc[c] \notin ClientEnds /\ Relistens(c)
    BY <1>1, <2>1, <2>3, RelistensKnown
  <2>4. CASE cpc[c] = "syn" /\ a.kind = "synack"
             /\ cport' = [cport EXCEPT ![c] = a.port]
             /\ Becomes(c, "op") /\ Says(c, "ack")
    <3>1. a.port \in Opened /\ owner[a.port] = c
      BY <1>0, <2>2, <2>4 DEF OfferInv
    <3> QED
      BY <1>1, <2>1, <2>4, <3>1, AnsweredKnown
  <2>5. CASE \E s \in ClientEnds : Becomes(c, s) /\ UNCHANGED <<cport, up>>
    BY <1>0, <1>1, <2>1, <2>5, LeavesKnown
  <2>6. \/ cpc[c] \notin ClientEnds /\ Relistens(c)
        \/ cpc[c] = "syn" /\ a.kind = "synack"
           /\ cport' = [cport EXCEPT ![c] = a.port]
           /\ Becomes(c, "op") /\ Says(c, "ack")
        \/ \E s \in ClientEnds : Becomes(c, s) /\ UNCHANGED <<cport, up>>
    BY <1>3 DEF ClientReceives, ClientSyn_Answer, ClientOp_Answer,
                ClientFinalizes_Answer, ClientEnds
  <2> QED
    BY <2>3, <2>4, <2>5, <2>6
<1>4. CASE ClientRetransmits(c)
  <2>1. OfferInv'
    BY <1>0, <1>2, <1>4 DEF OfferInv, ClientRetransmits
  <2> QED
    BY <1>1, <1>2, <1>4, <2>1, RelistensKnown DEF ClientRetransmits, KnownInv
<1>5. CASE ClientGivesUp(c)
  <2>1. OfferInv'
    BY <1>0, <1>2, <1>5 DEF OfferInv, ClientGivesUp
  <2>2. ToldInv' /\ CompletedInv'
    <3>1. CASE cpc[c] = "op" /\ Becomes(c, "finalizing")
               /\ up' = [up EXCEPT ![c] = Send(Send(@, "close"), "fin")]
      BY <1>1, <1>5, <3>1, FinalizesKnown DEF ClientGivesUp
    <3>2. CASE Becomes(c, "closed") /\ up' = up
      BY <1>0, <1>1, <1>5, <3>2, LeavesKnown DEF ClientGivesUp, ClientEnds
    <3> QED
      BY <1>5, <3>1, <3>2 DEF ClientGivesUp
  <2> QED
    BY <1>2, <2>1, <2>2 DEF KnownInv
<1> QED
  BY <1>2, <1>3, <1>4, <1>5 DEF KnownInv

\* What the server sends that offers no port to a client that is not its own.
LEMMA OffersSent ==
    ASSUME TypeOK, OfferInv, NEW c, NEW a \in Answer, Tells(c, a),
           \A p \in Opened : p \in Opened' /\ owner'[p] = owner[p],
           a.kind = "synack" => a.port \in Opened' /\ owner'[a.port] = c
    PROVE  OfferInv'
<1>1. CASE c \in Clients
  BY <1>1, DownSent, OffersStand
<1>2. CASE c \notin Clients
  <2>1. down' = down
    BY <1>2 DEF Tells, TypeOK
  <2> QED
    BY <2>1, OffersStand
<1> QED
  BY <1>1, <1>2

\* The accepter receives.  A port is opened only for the first SYN of the one
\* client it can be for, and a handshake is left only with that client's ACK.
LEMMA ReceptionKnown ==
    ASSUME Orderly, PoolInv, PortInv, KnownInv,
           NEW c \in Clients, NEW i \in Deliverable(up[c]), AccepterReceives(c, i)
    PROVE  KnownInv'
<1> DEFINE k == up[c][i]
<1>0. TypeOK /\ OwnerInv /\ OfferInv /\ ToldInv /\ CompletedInv /\ Told(c)
  BY DEF PoolInv, KnownInv, ToldInv
<1>1. UNCHANGED <<clients, main, thread, pool>>
  BY DEF AccepterReceives, AccepterAccepts, AccepterCompletes
<1>2. \A d \in Clients : Range(up'[d]) \subseteq Range(up[d]) /\ Follows(up'[d], Later)
  BY <1>0, UpTaken DEF AccepterReceives
<1>3. up[c] \in Seq({"syn", "ack", "close", "fin"})
      /\ k \in {"syn", "ack", "close", "fin"} /\ k \in Range(up[c])
  <2>1. up[c] \in Seq({"syn", "ack", "close", "fin"})
    BY <1>0 DEF TypeOK
  <2> QED
    BY <2>1 DEF Deliverable, Range
<1>4. CASE UNCHANGED <<offered, owner, down>> /\ (apc' \in {"accepting", "adding"} => apc' = apc)
  <2>1. Opened' = Opened
    BY <1>4 DEF Opened
  <2>2. OwnerInv' /\ OfferInv'
    BY <1>0, <1>4, <2>1 DEF OwnerInv, OfferInv
  <2>3. ASSUME NEW d \in Clients
        PROVE  Told(d)'
    BY <1>0, <1>1, <1>2, <1>4, <2>1 DEF ToldInv, Told, clients
  <2>4. CompletedInv'
    BY <1>0, <1>1, <1>2, <1>4, <2>1 DEF CompletedInv, clients, Own
  <2> QED
    BY <2>2, <2>3, <2>4 DEF KnownInv, ToldInv
<1>5. CASE /\ Tells(c, Reject) /\ apc = "accepting" /\ apc' \in {"accepting", "stopped"}
           /\ UNCHANGED <<offered, owner>>
  <2>1. Opened' = Opened
    BY <1>5 DEF Opened
  <2>2. OfferInv'
    <3>1. Reject \in Answer /\ Reject.kind # "synack"
      BY DEF Reject, Answer
    <3> QED
      BY <1>0, <1>5, <2>1, <3>1, OffersSent
  <2>3. OwnerInv'
    BY <1>0, <1>5, <2>1 DEF OwnerInv
  <2>4. ASSUME NEW d \in Clients
        PROVE  Told(d)'
    BY <1>0, <1>1, <1>2, <1>5, <2>1 DEF ToldInv, Told, clients
  <2>5. CompletedInv'
    BY <1>0, <1>1, <1>2, <1>5, <2>1 DEF CompletedInv, clients, Own
  <2> QED
    BY <2>2, <2>3, <2>4, <2>5 DEF KnownInv, ToldInv
<1>6. ASSUME apc = "accepting", k = "syn", c \notin Foreign, apc' = "completing",
             NEW p \in Ports \ Opened, owner' = [owner EXCEPT ![p] = c],
             Tells(c, SynAck(p))
      PROVE  KnownInv'
  <2>1. c \in Own /\ c # None /\ Opened = {}
    BY <1>0, <1>3, <1>6, AccepterAssumption DEF Own, CompletedInv, None
  <2>2. owner'[p] = c /\ \A q \in Ports : q # p => owner'[q] = owner[q]
    BY <1>0, <1>6 DEF TypeOK
  <2>3. Opened' = {p}
    BY <2>1, <2>2 DEF Opened
  <2>4. OwnerInv'
    BY <2>1, <2>2, <2>3 DEF OwnerInv, Own
  <2>5. OfferInv'
    <3>1. SynAck(p) \in Answer /\ SynAck(p).port = p
      BY AnswerTypes DEF SynAck
    <3> QED
      BY <1>0, <1>6, <2>1, <2>2, <2>3, <3>1, OffersSent
  <2>6. ASSUME NEW d \in Clients
        PROVE  Told(d)'
    <3>1. Told(d) /\ cport[d] = None
      BY <1>0, <2>1 DEF ToldInv, Told
    <3> QED
      BY <1>1, <1>2, <3>1 DEF Told, clients
  <2>7. CompletedInv'
    BY <1>0, <1>1, <1>6, <2>1 DEF CompletedInv
  <2> QED
    BY <2>4, <2>5, <2>6, <2>7 DEF KnownInv, ToldInv
<1>7. CASE /\ apc = "completing" /\ Completes(k) /\ apc' = "adding"
           /\ UNCHANGED <<offered, owner, down>>
  <2>1. k \in Later
    BY <1>7 DEF Completes, Later
  <2>2. Range(up[c]) \subseteq Later
    BY <1>0, <1>3, <2>1, FollowsHead DEF Orderly, Told
  <2>3. cport[c] # None /\ cport[c] \in Opened /\ owner[cport[c]] = c
    BY <1>0, <1>3, <2>1 DEF Told, Later
  <2>4. c \in Own
    BY <1>0, <2>3 DEF OwnerInv
  <2>5. offered \in Opened
    BY <1>7 DEF PoolInv, OfferedInv, PortInv, Handshaking, Opened
  <2>6. cport[c] = offered /\ owner[offered] = c
    BY <1>0, <2>3, <2>5 DEF OwnerInv
  <2>7. \A d \in Own : cport[d] # None /\ "syn" \notin Range(up[d])
    BY <2>2, <2>3, <2>4 DEF Orderly, Later
  <2>8. Opened' = Opened
    BY <1>7 DEF Opened
  <2>9. OwnerInv' /\ OfferInv'
    BY <1>0, <1>7, <2>8 DEF OwnerInv, OfferInv
  <2>10. ASSUME NEW d \in Clients
        PROVE  Told(d)'
    BY <1>0, <1>1, <1>2, <1>7, <2>8 DEF ToldInv, Told, clients
  <2>11. CompletedInv'
    <3>1. \A d \in Own : cport'[d] # None /\ "syn" \notin Range(up'[d])
      BY <1>1, <1>2, <2>7 DEF Own, clients
    <3> QED
      BY <1>0, <1>1, <1>7, <2>6, <2>8, <3>1 DEF CompletedInv, clients
  <2> QED
    BY <2>9, <2>10, <2>11 DEF KnownInv, ToldInv
<1>8. CASE /\ apc = "completing" /\ UNCHANGED accepter
           /\ Tells(owner[offered], SynAck(offered))
  <2>1. offered \in Opened
    BY <1>8 DEF PoolInv, OfferedInv, PortInv, Handshaking, Opened
  <2>2. Opened' = Opened
    BY <1>8 DEF Opened, accepter
  <2>3. OfferInv'
    <3>1. SynAck(offered) \in Answer /\ SynAck(offered).port = offered
      BY <2>1, AnswerTypes DEF SynAck, Opened
    <3> QED
      BY <1>0, <1>8, <2>1, <2>2, <3>1, OffersSent DEF accepter
  <2>4. OwnerInv'
    BY <1>0, <1>8, <2>2 DEF OwnerInv, accepter
  <2>5. ToldInv' /\ CompletedInv'
    BY <1>0, <1>1, <1>2, <1>8, ToldShrinks
  <2> QED
    BY <2>3, <2>4, <2>5 DEF KnownInv
<1>9. AccepterAccepts(c, k) \/ AccepterCompletes(c, k)
  BY DEF AccepterReceives
<1>10. CASE AccepterAccepts(c, k)
  <2>1. CASE k # "syn" /\ NextAccept /\ UNCHANGED <<offered, owner, down>>
    BY <1>4, <1>10, <2>1 DEF AccepterAccepts, NextAccept
  <2>2. CASE Tells(c, Reject) /\ NextAccept /\ UNCHANGED <<offered, owner>>
    BY <1>5, <1>10, <2>2 DEF AccepterAccepts, NextAccept
  <2>3. CASE /\ k = "syn" /\ c \notin Foreign
             /\ \E p \in Ports \ Opened :
                   offered' = p /\ owner' = [owner EXCEPT ![p] = c] /\ Tells(c, SynAck(p))
             /\ apc' = "completing"
    BY <1>6, <1>10, <2>3 DEF AccepterAccepts
  <2> QED
    BY <1>10, <2>1, <2>2, <2>3 DEF AccepterAccepts
<1>11. CASE AccepterCompletes(c, k)
  BY <1>7, <1>8, <1>11 DEF AccepterCompletes
<1> QED
  BY <1>9, <1>10, <1>11

\* The connection that is added is its client's.
LEMMA AddKnown ==
    ASSUME PoolInv, PortInv, KnownInv, AccepterAdds
    PROVE  KnownInv'
<1>0. TypeOK /\ OwnerInv /\ OfferInv /\ ToldInv /\ CompletedInv
  BY DEF PoolInv, KnownInv
<1>1. /\ UNCHANGED <<clients, owner, up, down>> /\ apc = "adding"
      /\ apc' \in {"accepting", "stopped"}
  BY DEF AccepterAdds, NextAccept
<1>2. Opened' = Opened
  BY <1>1 DEF Opened
<1>3. offered \in Opened /\ cport[owner[offered]] = offered
  BY <1>0, <1>1 DEF PoolInv, OfferedInv, PortInv, Handshaking, Opened, CompletedInv
<1>4. ASSUME NEW p \in Ports, thread'[p] # "none"
      PROVE  p \in Opened /\ cport[owner[p]] = p
  <2>1. thread'[p] = IF p = offered
                     THEN (IF intent = "ack" THEN "started" ELSE "stuck")
                     ELSE IF p \in Reaped THEN AfterKill(p) ELSE thread[p]
    BY DEF AccepterAdds
  <2>2. CASE p = offered
    BY <1>3, <2>2
  <2>3. CASE p # offered
    <3>1. thread[p] # "none"
      BY <1>4, <2>1, <2>3 DEF Reaped
    <3> QED
      BY <1>0, <3>1 DEF CompletedInv
  <2> QED
    BY <2>2, <2>3
<1>5. CompletedInv'
  <2>1. Opened # {} => \A d \in Own : cport[d] # None /\ "syn" \notin Range(up[d])
    BY <1>0, <1>1 DEF CompletedInv
  <2> QED
    BY <1>1, <1>2, <1>4, <2>1 DEF CompletedInv, clients
<1>6. OwnerInv' /\ OfferInv' /\ ToldInv'
  BY <1>0, <1>1, <1>2 DEF OwnerInv, OfferInv, ToldInv, Told, clients
<1> QED
  BY <1>5, <1>6 DEF KnownInv

\* The accepter's other steps: it repeats its offer, or it stops.
LEMMA AccepterKnown ==
    ASSUME Orderly, PoolInv, PortInv, KnownInv,
           AccepterRetransmits \/ AccepterGivesUp \/ AccepterIsShut
    PROVE  KnownInv'
<1>0. TypeOK /\ OwnerInv /\ OfferInv /\ ToldInv /\ CompletedInv
  BY DEF PoolInv, KnownInv
<1>1. CASE AccepterRetransmits
  <2>1. offered \in Opened
    BY <1>1 DEF PoolInv, OfferedInv, PortInv, Handshaking, Opened, AccepterRetransmits
  <2>2. Opened' = Opened
    BY <1>1 DEF Opened, AccepterRetransmits, accepter
  <2>3. OfferInv'
    <3>1. SynAck(offered) \in Answer /\ SynAck(offered).port = offered
      BY <2>1, AnswerTypes DEF SynAck, Opened
    <3> QED
      BY <1>0, <1>1, <2>1, <2>2, <3>1, OffersSent DEF accepter, AccepterRetransmits
  <2>4. OwnerInv' /\ ToldInv' /\ CompletedInv'
    BY <1>0, <1>1, <2>2 DEF OwnerInv, ToldInv, Told, CompletedInv,
                            AccepterRetransmits, accepter, clients
  <2> QED
    BY <2>3, <2>4 DEF KnownInv
<1>2. CASE AccepterGivesUp
  BY <1>2 DEF Orderly, AccepterGivesUp
<1>3. CASE AccepterIsShut
  <2>1. UNCHANGED <<clients, owner, thread, up, down>> /\ apc' = "stopped"
    BY <1>3 DEF AccepterIsShut
  <2>2. Opened' = Opened
    BY <2>1 DEF Opened
  <2> QED
    BY <1>0, <2>1, <2>2 DEF KnownInv, OwnerInv, OfferInv, ToldInv, Told,
                            CompletedInv, clients
<1> QED
  BY <1>1, <1>2, <1>3

\* The connections and the main thread: no thread starts but by the accepter.
LEMMA ThreadsKnown ==
    ASSUME PoolInv, PortInv, KnownInv,
           \/ \E p \in Ports : \/ ConnectionConfirms(p) \/ ConnectionRetransmits(p)
                               \/ ConnectionEnds(p) \/ ConnectionGivesUp(p)
           \/ Stop \/ KillAll \/ KillAllFails \/ Joined
    PROVE  KnownInv'
<1>0. TypeOK /\ OwnerInv /\ OfferInv /\ ToldInv /\ CompletedInv
  BY DEF PoolInv, KnownInv
<1>1. UNCHANGED <<clients, accepter, up>>
  BY DEF ConnectionConfirms, ConnectionRetransmits, ConnectionEnds,
         ConnectionGivesUp, Turns, Stop, KillAll, KillAllFails, Joined
<1>2. Opened' = Opened /\ owner' = owner /\ OwnerInv' /\ ToldInv'
  BY <1>0, <1>1 DEF Opened, OwnerInv, ToldInv, Told, accepter, clients
<1>3. ASSUME NEW q \in Ports, thread'[q] # "none"
      PROVE  thread[q] # "none"
  <2>1. CASE thread' = thread
    BY <1>3, <2>1
  <2>2. CASE \E p \in Ports : \E s : thread[p] # "none" /\ thread' = [thread EXCEPT ![p] = s]
    BY <1>0, <1>3, <2>2 DEF TypeOK
  <2>3. CASE KillAll
    <3>1. pool \subseteq Ports /\ \A p \in pool : thread[p] # "none"
      BY <1>0 DEF TypeOK, PortInv
    <3> QED
      BY <2>1, <2>2, <2>3, <3>1 DEF KillAll
  <2>4. CASE \E p \in Ports : \/ ConnectionConfirms(p) \/ ConnectionRetransmits(p)
                              \/ ConnectionEnds(p) \/ ConnectionGivesUp(p)
    BY <2>1, <2>2, <2>4 DEF ConnectionConfirms, ConnectionRetransmits,
                            ConnectionEnds, ConnectionGivesUp, Turns
  <2> QED
    BY <2>1, <2>3, <2>4 DEF Stop, KillAllFails, Joined
<1>4. CompletedInv'
  BY <1>0, <1>1, <1>2, <1>3 DEF CompletedInv, accepter, clients
<1>5. OfferInv'
  <2>1. CASE down' = down
    BY <1>0, <1>2, <2>1 DEF OfferInv
  <2>2. CASE \E p \in Ports : Tells(owner[p], OpAck(p))
    <3>0. PICK p \in Ports : Tells(owner[p], OpAck(p))
      BY <2>2
    <3>1. OpAck(p) \in Answer /\ OpAck(p).kind # "synack"
      BY AnswerTypes DEF OpAck
    <3> QED
      BY <1>0, <1>2, <3>0, <3>1, OffersSent
  <2> QED
    BY <2>1, <2>2 DEF ConnectionConfirms, ConnectionRetransmits, ConnectionEnds,
         ConnectionGivesUp, Turns, Stop, KillAll, KillAllFails, Joined
<1> QED
  BY <1>2, <1>4, <1>5 DEF KnownInv

\* A packet lost.
LEMMA LoseKnown ==
    ASSUME PoolInv, KnownInv, Lose
    PROVE  KnownInv'
<1>0. TypeOK /\ OwnerInv /\ OfferInv /\ ToldInv /\ CompletedInv
  BY DEF PoolInv, KnownInv
<1>1. UNCHANGED <<clients, accepter, thread>>
  BY DEF Lose
<1>2. Opened' = Opened /\ owner' = owner /\ OwnerInv'
  BY <1>0, <1>1 DEF Opened, OwnerInv, accepter
<1>3. PICK c \in Clients :
          \/ up' \in {[up EXCEPT ![c] = ch] : ch \in AfterLoss(up[c])} /\ down' = down
          \/ down' \in {[down EXCEPT ![c] = ch] : ch \in AfterLoss(down[c])} /\ up' = up
  BY DEF Lose
<1>4. CASE up' \in {[up EXCEPT ![c] = ch] : ch \in AfterLoss(up[c])} /\ down' = down
  <2>1. \A d \in Clients : Range(up'[d]) \subseteq Range(up[d]) /\ Follows(up'[d], Later)
    BY <1>0, <1>4, UpLost
  <2>2. ToldInv' /\ CompletedInv'
    BY <1>0, <1>1, <2>1, ToldShrinks
  <2>3. OfferInv'
    BY <1>0, <1>2, <1>4 DEF OfferInv
  <2> QED
    BY <1>2, <2>2, <2>3 DEF KnownInv
<1>5. CASE down' \in {[down EXCEPT ![c] = ch] : ch \in AfterLoss(down[c])} /\ up' = up
  <2>0. PICK ch \in AfterLoss(down[c]) : down' = [down EXCEPT ![c] = ch]
    BY <1>5
  <2>1. Range(ch) \subseteq Range(down[c])
    <3>1. down[c] \in Seq(Answer)
      BY <1>0 DEF TypeOK
    <3> QED
      BY <3>1, <2>0, LossContents
  <2>2. ASSUME NEW d \in Clients, NEW b \in Range(down'[d])
        PROVE  b \in Range(down[d])
    BY <1>0, <2>0, <2>1, <2>2 DEF TypeOK
  <2>3. OfferInv'
    BY <1>0, <1>2, <2>2, OffersStand
  <2>4. ToldInv' /\ CompletedInv'
    BY <1>0, <1>1, <1>2, <1>5 DEF ToldInv, Told, CompletedInv, clients, accepter
  <2> QED
    BY <1>2, <2>3, <2>4 DEF KnownInv
<1> QED
  BY <1>3, <1>4, <1>5

\* Nothing is opened, offered or told yet.
LEMMA KnownInit ==
    ASSUME Init
    PROVE  KnownInv
<1>1. Opened = {}
  BY DEF Init, Opened
<1>2. \A c \in Clients : up[c] = <<"syn">> /\ down[c] = <<>>
  BY DEF Init
<1>3. Range(<<"syn">>) = {"syn"} /\ Range(<<>>) = {}
  BY DEF Range
<1>4. ASSUME NEW c \in Clients
      PROVE  Told(c)
  <2>1. Range(up[c]) \cap Later = {} /\ Range(up[c]) \subseteq {"syn"}
    BY <1>2, <1>3 DEF Later
  <2>2. Follows(up[c], Later)
    BY <2>1, FollowsTrivially
  <2> QED
    BY <2>1, <2>2 DEF Told, Init
<1>5. OwnerInv /\ CompletedInv
  BY <1>1 DEF OwnerInv, CompletedInv, Init
<1>6. OfferInv
  BY <1>2, <1>3 DEF OfferInv
<1> QED
  BY <1>4, <1>5, <1>6 DEF KnownInv, ToldInv

\* The pool, what a stop leaves and whose connection it is, together: the
\* invariant of an orderly acceptance, and the types with it.
THEOREM HandshakeInvariance ==
    ASSUME Orderly
    PROVE  Spec => []HInv
<1>1. Init => KnownInv
  BY KnownInit
<1>2. PoolInv /\ StopInv /\ KnownInv /\ [Next]_vars => KnownInv'
  <2> SUFFICES ASSUME PoolInv, StopInv, KnownInv, [Next]_vars
               PROVE  KnownInv'
    OBVIOUS
  <2>0. PortInv
    BY DEF StopInv
  <2>1. CASE \E c \in Clients : \E i \in Deliverable(down[c]) : ClientReceives(c, i)
    BY <2>0, <2>1, ClientKnown
  <2>2. CASE \E c \in Clients : \E i \in Deliverable(up[c]) : AccepterReceives(c, i)
    BY <2>0, <2>2, ReceptionKnown
  <2>3. CASE \E c \in Clients : ClientRetransmits(c) \/ ClientGivesUp(c)
    BY <2>0, <2>3, ClientKnown
  <2>4. CASE AccepterRetransmits \/ AccepterGivesUp \/ AccepterIsShut
    BY <2>0, <2>4, AccepterKnown
  <2>5. CASE AccepterAdds
    BY <2>0, <2>5, AddKnown
  <2>6. CASE \/ \E p \in Ports : \/ ConnectionConfirms(p) \/ ConnectionRetransmits(p)
                                \/ ConnectionEnds(p) \/ ConnectionGivesUp(p)
             \/ Stop \/ KillAll \/ KillAllFails \/ Joined
    BY <2>0, <2>6, ThreadsKnown
  <2>7. CASE Lose
    BY <2>7, LoseKnown
  <2>8. CASE UNCHANGED vars
    BY <2>8 DEF KnownInv, OwnerInv, OfferInv, ToldInv, Told, CompletedInv,
                Opened, vars, clients, accepter
  <2> QED
    BY <2>1, <2>2, <2>3, <2>4, <2>5, <2>6, <2>7, <2>8 DEF Next
<1>3. Spec => []KnownInv
  BY <1>1, <1>2, PoolInvariance, StopInvariance, PTL DEF Spec
<1> QED
  BY <1>3, PoolInvariance, StopInvariance, PTL DEF HInv

\* A connection's thread runs only for a client that was told its port
\* (accepter_protocol.py, client_manager.py): it never waits for the file name of a
\* client that does not know where to send it.
THEOREM TransferKnown ==
    ASSUME Orderly
    PROVE  Spec => []TransferIsKnown
<1>1. HInv => TransferIsKnown
  BY DEF HInv, KnownInv, CompletedInv, TransferIsKnown, Running
<1> QED
  BY <1>1, HandshakeInvariance, PTL

\* However often its packets are resent, lost or duplicated, a client gets
\* one connection: ClientPool never holds two threads for it.
THEOREM OneConnectionPerClient ==
    ASSUME Orderly
    PROVE  Spec => []OneConnection
<1>1. HInv => OneConnection
  <2> SUFFICES ASSUME HInv, NEW p \in Ports, NEW q \in Ports,
                      thread[p] # "none", thread[q] # "none"
               PROVE  p = q
    BY DEF OneConnection
  <2> QED
    BY DEF HInv, KnownInv, CompletedInv, OwnerInv
<1> QED
  BY <1>1, HandshakeInvariance, PTL

-----------------------------------------------------------------------------
(* What the server promises of its connections.                            *)

\* A step that touches neither threads nor pool can only end the accepting.
LEMMA ModeStep ==
    ASSUME UNCHANGED <<thread, pool, main>>,
           \/ apc' = apc
           \/ apc' \in {"stopped", "dead"}
           \/ {apc, apc'} \cap {"stopped", "dead"} = {}
    PROVE  [Promise!Next]_<<life, pool, mode, shut>>
<1>1. UNCHANGED <<life, pool, shut>>
  BY DEF life, main
<1>2. mode' = mode \/ (mode # "closed" /\ mode' = "closed")
  BY DEF mode, main
<1> QED
  BY <1>1, <1>2 DEF Promise!Next, Promise!Close

\* add_client starts a connection that is pooled.
LEMMA AddStarts ==
    ASSUME PoolInv, PortInv, AccepterAdds
    PROVE  \E p \in Ports : \E R \in SUBSET pool : Promise!Start(p, R)
<1>0. offered \in Ports /\ thread[offered] = "none" /\ apc = "adding"
  BY DEF PoolInv, OfferedInv, PortInv, Handshaking, AccepterAdds
<1>1. /\ pool' = (pool \ Reaped) \cup {offered} /\ UNCHANGED main
      /\ apc' = IF mpc = "serving" THEN "accepting" ELSE "stopped"
  BY DEF AccepterAdds, NextAccept
<1>2. Reaped \in SUBSET pool /\ offered \notin Reaped
  BY <1>0 DEF Reaped
<1>3. life[offered] = "none"
  BY <1>0 DEF life, Running
<1>4. mode # "closed" /\ mode' = IF mode = "last" THEN "closed" ELSE mode
  BY <1>0, <1>1 DEF mode, main
<1> DEFINE s == IF intent = "ack" THEN "live" ELSE "over"
<1>5. life' = [q \in Ports |-> IF q = offered THEN s
                               ELSE IF q \in Reaped THEN "over" ELSE life[q]]
  <2>1. ASSUME NEW q \in Ports
        PROVE  life'[q] = IF q = offered THEN s
                          ELSE IF q \in Reaped THEN "over" ELSE life[q]
    <3>1. thread'[q] = IF q = offered
                       THEN (IF intent = "ack" THEN "started" ELSE "stuck")
                       ELSE IF q \in Reaped THEN AfterKill(q) ELSE thread[q]
      BY DEF AccepterAdds
    <3>2. AfterKill(q) \in {"stuck", "ended"}
      BY DEF AfterKill
    <3> QED
      BY <3>1, <3>2 DEF life, Running
  <2>2. life' = [q \in Ports |-> life'[q]]
    BY DEF life
  <2> HIDE DEF s
  <2> QED
    BY <2>1, <2>2, Zenon
<1>6. s \in {"live", "over"}
  OBVIOUS
<1> HIDE DEF s
<1>7. Promise!Start(offered, Reaped)
  BY <1>1, <1>3, <1>4, <1>5, <1>6 DEF Promise!Start, main
<1> QED
  BY <1>0, <1>2, <1>7

\* A connection's thread that ends, or goes on.
LEMMA LifeStep ==
    ASSUME PoolInv, PortInv, NEW p \in Ports, thread[p] # "none",
           NEW s \in States \ {"none"}, thread' = [thread EXCEPT ![p] = s],
           thread[p] \notin Running => s \notin Running,
           UNCHANGED <<apc, pool, mpc, shut>>
    PROVE  [Promise!Next]_<<life, pool, mode, shut>>
<1>0. TypeOK
  BY DEF PoolInv
<1>1. \A q \in Ports : thread'[q] = IF q = p THEN s ELSE thread[q]
  BY <1>0 DEF TypeOK
<1>2. mode' = mode
  BY DEF mode
<1>3. life' = [q \in Ports |-> life'[q]] /\ life = [q \in Ports |-> life[q]]
  BY DEF life
<1>4. CASE thread[p] \in Running /\ s \notin Running
  <2>1. \A q \in Ports : life'[q] = IF q = p THEN "over" ELSE life[q]
    BY <1>1, <1>4 DEF life, States
  <2>2. life' = [life EXCEPT ![p] = "over"] /\ life[p] = "live"
    <3>1. life[p] = "live"
      BY <1>4 DEF life, Running
    <3>2. life' = [q \in Ports |-> IF q = p THEN "over" ELSE life[q]]
      BY <1>3, <2>1, Zenon
    <3> QED
      BY <1>3, <3>1, <3>2, Zenon
  <2> QED
    BY <1>2, <2>2 DEF Promise!Next, Promise!End
<1>5. CASE ~(thread[p] \in Running /\ s \notin Running)
  <2>1. \A q \in Ports : life'[q] = life[q]
    BY <1>1, <1>5 DEF life, States
  <2>2. life' = life
    BY <1>3, <2>1, Zenon
  <2> QED
    BY <1>2, <2>2
<1> QED
  BY <1>4, <1>5

\* The main thread's steps.
LEMMA MainPromises ==
    ASSUME PoolInv, StopInv, Stop \/ KillAll \/ KillAllFails \/ Joined
    PROVE  [Promise!Next]_<<life, pool, mode, shut>>
<1>0. PortInv /\ KilledInv /\ ShutInv /\ TypeOK
  BY DEF StopInv, PoolInv
<1>1. UNCHANGED <<apc, pool>>
  BY DEF Stop, KillAll, KillAllFails, Joined, accepter
<1>2. CASE Stop
  <2>1. UNCHANGED <<life, shut>> /\ (mode' = mode \/ (mode = "open" /\ mode' = "last"))
    BY <1>1, <1>2 DEF Stop, life, mode
  <2> QED
    BY <1>1, <2>1 DEF Promise!Next, Promise!LastCall
<1>3. CASE KillAllFails \/ Joined
  <2>1. UNCHANGED <<life, shut, mode>>
    BY <1>1, <1>3 DEF KillAllFails, Joined, life, mode
  <2> QED
    BY <1>1, <2>1
<1>4. CASE \E p \in pool \ killed :
              /\ thread' = [thread EXCEPT ![p] = AfterKill(p)]
              /\ UNCHANGED <<mpc, shut>>
  <2>0. PICK p \in pool : thread' = [thread EXCEPT ![p] = AfterKill(p)]
                          /\ UNCHANGED <<mpc, shut>>
    BY <1>4
  <2>1. p \in Ports /\ thread[p] # "none"
    BY <1>0, <2>0 DEF TypeOK, PortInv
  <2>2. AfterKill(p) \in States \ {"none"} /\ AfterKill(p) \notin Running
    BY DEF AfterKill, States, Running
  <2> QED
    BY <1>0, <1>1, <2>0, <2>1, <2>2, LifeStep
<1>5. CASE /\ mpc = "killing" /\ pool \subseteq killed
           /\ mpc' = "joining" /\ shut' = TRUE /\ UNCHANGED thread
  <2>1. ~shut
    BY <1>0, <1>5 DEF ShutInv
  <2>2. \A p \in pool : life[p] = "over"
    <3> SUFFICES ASSUME NEW p \in pool
                 PROVE  life[p] = "over"
      OBVIOUS
    <3>1. p \in Ports /\ thread[p] \in {"ended", "stuck"}
      BY <1>0, <1>5 DEF TypeOK, KilledInv
    <3> QED
      BY <3>1 DEF life, Running
  <2>3. mode # "open" /\ mode' = mode
    BY <1>1, <1>5 DEF mode
  <2>4. life' = life
    BY <1>5 DEF life
  <2> QED
    BY <1>1, <1>5, <2>1, <2>2, <2>3, <2>4 DEF Promise!Next, Promise!Sweep
<1>6. CASE KillAll
  BY <1>4, <1>5, <1>6 DEF KillAll
<1> QED
  BY <1>2, <1>3, <1>6

\* ClientPool, the accepter and the main thread implement the pool of
\* connections: each step is a start, an end, a stop or a stutter.
THEOREM PoolImplemented == Spec => ImplementsPool
<1>1. Init => Promise!Init
  <2> SUFFICES ASSUME Init
               PROVE  Promise!Init
    OBVIOUS
  <2>1. life = [p \in Ports |-> "none"]
    BY DEF Init, life, Running
  <2>2. mode = "open" /\ pool = {} /\ shut = FALSE
    BY DEF Init, mode
  <2> QED
    BY <2>1, <2>2 DEF Promise!Init
<1>2. PoolInv /\ StopInv /\ [Next]_vars => [Promise!Next]_<<life, pool, mode, shut>>
  <2> SUFFICES ASSUME PoolInv, StopInv, [Next]_vars
               PROVE  [Promise!Next]_<<life, pool, mode, shut>>
    OBVIOUS
  <2>0. PortInv
    BY DEF StopInv
  <2>1. CASE \E c \in Clients : \E i \in Deliverable(down[c]) : ClientReceives(c, i)
    BY <2>1, ModeStep DEF ClientReceives, accepter
  <2>2. CASE \E c \in Clients : \E i \in Deliverable(up[c]) : AccepterReceives(c, i)
    <3>0. PICK c \in Clients : \E i \in Deliverable(up[c]) : AccepterReceives(c, i)
      BY <2>2
    <3>1. PICK i \in Deliverable(up[c]) : AccepterReceives(c, i)
      BY <3>0
    <3>2. UNCHANGED <<thread, pool, main>>
      BY <3>1 DEF AccepterReceives, AccepterAccepts, AccepterCompletes
    <3>3. \/ apc' = apc
          \/ apc' \in {"stopped", "dead"}
          \/ {apc, apc'} \cap {"stopped", "dead"} = {}
      BY <3>1 DEF AccepterReceives, AccepterAccepts, AccepterCompletes,
                  NextAccept, accepter
    <3> QED
      BY <3>2, <3>3, ModeStep
  <2>3. CASE \E c \in Clients : ClientRetransmits(c) \/ ClientGivesUp(c)
    BY <2>3, ModeStep DEF ClientRetransmits, ClientGivesUp, accepter
  <2>4. CASE AccepterRetransmits \/ AccepterGivesUp \/ AccepterIsShut
    <3>1. UNCHANGED <<thread, pool, main>>
      BY <2>4 DEF AccepterRetransmits, AccepterGivesUp, AccepterIsShut
    <3>2. \/ apc' = apc
          \/ apc' \in {"stopped", "dead"}
          \/ {apc, apc'} \cap {"stopped", "dead"} = {}
      BY <2>4 DEF AccepterRetransmits, AccepterGivesUp, AccepterIsShut,
                  NextAccept, AtLimit, accepter
    <3> QED
      BY <3>1, <3>2, ModeStep
  <2>5. CASE AccepterAdds
    BY <2>0, <2>5, AddStarts DEF Promise!Next
  <2>6. CASE \E p \in Ports : \/ ConnectionConfirms(p) \/ ConnectionRetransmits(p)
                             \/ ConnectionEnds(p) \/ ConnectionGivesUp(p)
    <3>0. PICK p \in Ports : \/ ConnectionConfirms(p) \/ ConnectionRetransmits(p)
                             \/ ConnectionEnds(p) \/ ConnectionGivesUp(p)
      BY <2>6
    <3>1. UNCHANGED <<accepter, pool, main>>
      BY <3>0 DEF ConnectionConfirms, ConnectionRetransmits, ConnectionEnds,
                  ConnectionGivesUp, Turns
    <3>2. CASE thread' = thread
      BY <3>1, <3>2, ModeStep DEF accepter
    <3>3. CASE /\ thread[p] \in Running
               /\ \E s \in States \ {"none"} : thread' = [thread EXCEPT ![p] = s]
      <4>1. UNCHANGED <<apc, pool, mpc, shut>> /\ thread[p] # "none"
        BY <3>1, <3>3 DEF accepter, main, Running
      <4> QED
        BY <2>0, <3>3, <4>1, LifeStep
    <3> QED
      BY <3>0, <3>2, <3>3 DEF ConnectionConfirms, ConnectionRetransmits,
                  ConnectionEnds, ConnectionGivesUp, Turns, Running, States
  <2>7. CASE Stop \/ KillAll \/ KillAllFails \/ Joined
    BY <2>7, MainPromises
  <2>8. CASE Lose \/ UNCHANGED vars
    BY <2>8, ModeStep DEF Lose, vars, accepter
  <2> QED
    BY <2>1, <2>2, <2>3, <2>4, <2>5, <2>6, <2>7, <2>8 DEF Next
<1> QED
  BY <1>1, <1>2, PoolInvariance, StopInvariance, PTL
     DEF Spec, ImplementsPool, Promise!Spec
===============================================================================
