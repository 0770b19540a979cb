---------------------------- MODULE DevNodeProps ----------------------------
(***************************************************************************)
(* What is asked of the device node.                                       *)
(***************************************************************************)
EXTENDS DevNode

Users == {f \in File : file[f] = "open"}

\* The count the driver waits on is the number of open files, whatever
\* order opens and closes come in, so the WARN_ON of xleaf_devnode_close
\* never fires.
RefExact == ref = Cardinality(Users)

\* A file that was opened exclusively is the only open file: neither a
\* shared nor another exclusive open gets in beside it, and an exclusive
\* open never gets in beside shared ones.
ExclusiveAlone == \A f, g \in Users : asked[f] => f = g

\* A driver asleep in xleaf_devnode_disallowed, when the last user has gone,
\* has a count of the completion to take or a close still to give it one.
\* Counts left over from earlier closes are why the wait is in a loop.
NoLostClose ==
    driver = "waiting" /\ ref = 0 =>
        comp > 0 \/ \E f \in File : file[f] = "notify"

\* The node is there, cdev and device, as long as a file is open on it: its
\* close reads the cdev, and the name of the device xsp_sysdev points to.
NodeOutlivesUsers == Users # {} => findable /\ sysdev

ThereInv ==
    /\ driver \in {"named", "ready", "waiting", "woken", "alone"} => findable /\ sysdev
    /\ driver = "added" => findable

\* The inductive strengthening of the invariants above: xsp_devnode_excl is
\* set exactly while a file that asked for it is open, the node is online
\* exactly from xleaf_devnode_allowed to xleaf_devnode_disallowed, and no
\* file is open before it or after the driver has seen the last one close.
NodeInv ==
    /\ RefExact
    /\ ExclusiveAlone
    /\ excl <=> \E f \in Users : asked[f]
    /\ online <=> driver = "ready"
    /\ driver \in {"ready", "waiting", "woken"} \/ Users = {}
    /\ ThereInv
    /\ NoLostClose

\* A driver that waits for the users of its node gets rid of the node,
\* however many counts of earlier closes it wakes up for first.
DestroyEnds == driver = "waiting" ~> driver = "removed"

\* The node as its users see it: exclusive or shared use while it is
\* usable, and removal only when nobody uses it.
Access == INSTANCE NodeAccess WITH
    users <- Users,
    sole  <- excl,
    life  <- CASE driver \in {"new", "added", "named", "failing", "failed"} -> "new"
               [] driver = "ready" -> "usable"
               [] driver \in {"waiting", "woken", "alone"} -> "closing"
               [] driver \in {"nameless", "removed"} -> "removed"

ImplementsAccess == Access!ASpec
=============================================================================
