----------------------------- MODULE NodeAccess -----------------------------
(***************************************************************************)
(* What a device node promises the processes that open it and the driver   *)
(* that owns it: one exclusive user or any number of shared ones, and no   *)
(* user at all once the driver has taken the node away.                    *)
(***************************************************************************)
CONSTANT File

VARIABLES
    users,      \* the files that have the node open
    sole,       \* whether they have it to themselves
    life        \* "new", "usable", "closing" or "removed"

avars == <<users, sole, life>>

AInit == users = {} /\ sole = FALSE /\ life = "new"

AppearA == life = "new" /\ life' = "usable" /\ UNCHANGED <<users, sole>>

ShareA(f) ==
    /\ life = "usable" /\ f \notin users /\ ~sole
    /\ users' = users \cup {f}
    /\ UNCHANGED <<sole, life>>

OwnA(f) ==
    /\ life = "usable" /\ users = {}
    /\ users' = {f} /\ sole' = TRUE
    /\ UNCHANGED life

LeaveA(f) ==
    /\ f \in users
    /\ users' = users \ {f}
    /\ sole' = FALSE
    /\ UNCHANGED life

CloseA == life = "usable" /\ life' = "closing" /\ UNCHANGED <<users, sole>>

RemoveA ==
    /\ life = "closing" /\ users = {}
    /\ life' = "removed"
    /\ UNCHANGED <<users, sole>>

ANext ==
    \/ AppearA \/ CloseA \/ RemoveA
    \/ \E f \in File : ShareA(f) \/ OwnA(f) \/ LeaveA(f)

ASpec == AInit /\ [][ANext]_avars
=============================================================================
