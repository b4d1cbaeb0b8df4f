---------------------------- MODULE ConnectionPool ----------------------------
(***************************************************************************)
(* What the server promises about its connections' threads, whoever the    *)
(* clients are and whatever the network does: a connection starts once, is *)
(* in the pool before it runs and leaves the pool only when its thread     *)
(* does not run any more; a server that is told to stop starts at most one *)
(* more; and once it has swept its pool, none it found there runs.         *)
(***************************************************************************)
CONSTANT Connections

VARIABLES
    life,       \* what became of each connection's thread
    pool,       \* the connections the server knows
    mode,       \* "open", "last": may start one more, "closed": none
    swept       \* whether the pool has been swept

Init ==
    /\ life = [c \in Connections |-> "none"]
    /\ pool = {}
    /\ mode = "open"
    /\ swept = FALSE

\* A connection enters the pool; those of R leave it, joined.
Start(c, R) ==
    /\ mode # "closed" /\ life[c] = "none"
    /\ pool' = (pool \ R) \cup {c}
    /\ \E s \in {"live", "over"} :
          life' = [d \in Connections |-> IF d = c THEN s
                                         ELSE IF d \in R THEN "over" ELSE life[d]]
    /\ mode' = IF mode = "last" THEN "closed" ELSE mode
    /\ UNCHANGED swept

\* A thread ends by itself or is killed.
End(c) ==
    /\ life[c] = "live"
    /\ life' = [life EXCEPT ![c] = "over"]
    /\ UNCHANGED <<pool, mode, swept>>

\* The server is told to stop.
LastCall == mode = "open" /\ mode' = "last" /\ UNCHANGED <<life, pool, swept>>

\* It accepts nobody any more.
Close == mode # "closed" /\ mode' = "closed" /\ UNCHANGED <<life, pool, swept>>

\* Every connection of the pool has been killed.
Sweep ==
    /\ mode # "open" /\ ~swept
    /\ \A c \in pool : life[c] = "over"
    /\ swept' = TRUE
    /\ UNCHANGED <<life, pool, mode>>

Next ==
    \/ \E c \in Connections : \E R \in SUBSET pool : Start(c, R)
    \/ \E c \in Connections : End(c)
    \/ LastCall \/ Close \/ Sweep

Spec == Init /\ [][Next]_<<life, pool, mode, swept>>
===============================================================================
