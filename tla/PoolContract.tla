---------------------------- MODULE PoolContract ----------------------------
(***************************************************************************)
(* What a subdev pool promises root and group, without its lock, its       *)
(* counters or its waits: a child can be got while it is in the pool, and  *)
(* it leaves the pool, for good, only when nobody has it.                  *)
(***************************************************************************)
CONSTANTS Client, Child

VARIABLES
    pool,       \* the children in the pool
    former,     \* the children that have left it, or were refused
    has         \* the children a client has got and not yet put

contractVars == <<pool, former, has>>

Init == pool = {} /\ former = {} /\ has = [c \in Client |-> {}]

Enter(d) ==
    /\ d \notin pool \cup former
    /\ pool' = pool \cup {d}
    /\ UNCHANGED <<former, has>>

\* A child that is refused, because the pool is going away, never enters it.
Refuse(d) ==
    /\ d \notin pool \cup former
    /\ former' = former \cup {d}
    /\ UNCHANGED <<pool, has>>

Get(c, d) ==
    /\ d \in pool
    /\ has' = [has EXCEPT ![c] = @ \cup {d}]
    /\ UNCHANGED <<pool, former>>

Put(c, d) ==
    /\ d \in has[c]
    /\ has' = [has EXCEPT ![c] = @ \ {d}]
    /\ UNCHANGED <<pool, former>>

Leave(d) ==
    /\ d \in pool
    /\ \A c \in Client : d \notin has[c]
    /\ pool' = pool \ {d}
    /\ former' = former \cup {d}
    /\ UNCHANGED has

Next ==
    \E d \in Child :
        \/ Enter(d)
        \/ Refuse(d)
        \/ Leave(d)
        \/ \E c \in Client : Get(c, d) \/ Put(c, d)

Spec == Init /\ [][Next]_contractVars
=============================================================================
