--------------------------- MODULE SubdevPoolProps ---------------------------
(***************************************************************************)
(* What the subdev pool must guarantee.                                    *)
(***************************************************************************)
EXTENDS SubdevPool

\* subdev.c:523-566.  A client that got a child and has not put it back is
\* protected by its reference: the child is neither off the list nor destroyed.
HeldStaysListed ==
    \A t \in Clients : \A d \in owed[t] : stage[d] = "listed"

\* subdev.c:34-37.  A holder's kref is the number of unholds still to come:
\* threads that act for the same device never lose or add one for each other.
Owing(d, h) == {t \in Clients : HolderOf[t] = h /\ d \in owed[t]}
KrefExact ==
    \A d \in Subdev, h \in Holder :
        stage[d] = "listed" => refs[d][h] = Cardinality(Owing(d, h))

\* subdev.c:459-483.  The pool lock, which the wait for holders drops and takes
\* back, is owned by exactly the thread inside a critical section.
PoolLockOwned == \A t \in Thread : pc[t] \in Locked <=> lock = t

\* subdev.c:608-615.  A thread that found a child, and let go of the lock to
\* wait for its holders, still finds it in the pool when it comes back.
Pursuing == {"del_check", "del_wait", "del_relock"}
AwaitedStaysListed ==
    \A t \in Deleters : pc[t] \in Pursuing => stage[tgt[t]] = "listed"

\* subdev.c:562-564.  No lost wakeup: a thread waiting for holders that are all
\* gone has a completion to take.
NoLostWakeup ==
    \A t \in Deleters \cup Finishers :
        pc[t] \in {"del_wait", "fini_wait"} /\ ~Held(tgt[t]) => comp[tgt[t]] > 0

\* subdev.c:576-583, 497-505.  Once the pool is closing it only loses children,
\* and it loses them newest first.
ClosingPoolOnlyShrinks ==
    [][closing => \/ devList' = devList
                  \/ devList # <<>> /\ devList' = Tail(devList)]_vars

\* subdev.c:485-506.  When teardown has returned, no child is left in the pool
\* or on its way into it past the closing check.
InFini == {"fini_next", "fini_check", "fini_wait", "fini_relock",
           "fini_killed", "fini_give_up", "fini_unlink", "fini_destroy"}
FiniLeavesNothing ==
    closing /\ (\A t \in Finishers : pc[t] \notin InFini)
        => \A d \in Subdev : stage[d] \notin {"listed", "unlinked"}

\* subdev.c:597-626.  A removal whose child is no longer got anew comes to an
\* end: holders put, the last put wakes it, and the lock is granted.
DelTerminates ==
    <>[][\A t \in Clients : ~GetHold(t)]_vars
        => \A t \in Deleters : pc[t] = "del_lock" ~> pc[t] = "idle"

(***************************************************************************)
(* Why a held child stays: the inductive invariant of a pool that is not   *)
(* being torn down, in which one thread at a time removes children and no  *)
(* waiting thread is killed.                                               *)
(***************************************************************************)
Orderly ==
    /\ Finishers = {}
    /\ ~Killable
    /\ \A t, u \in Deleters : t = u

\* subdev.c:663-694.  The list names each child in the pool once.
ListExact ==
    /\ \A i, j \in DOMAIN devList : devList[i] = devList[j] => i = j
    /\ \A d \in Subdev :
          stage[d] = "listed" <=> \E i \in DOMAIN devList : devList[i] = d

\* A child not yet on the list is known only to the thread that creates it.
Adding == {"add_lock", "add_body", "add_destroy"}
AddingPrivate ==
    /\ \A t \in Thread : pc[t] \in Adding => stage[tgt[t]] = "made"
    /\ \A t, u \in Thread :
          pc[t] \in Adding /\ pc[u] \in Adding /\ tgt[t] = tgt[u] => t = u

FreshUnheld ==
    \A d \in Subdev : stage[d] \in {"none", "made"} => refs[d] = NoRefs

CallsInOrder ==
    /\ \A t \in Thread : pc[t] \notin {"del_killed", "del_give_up"}
    /\ \A t \in Deleters : pc[t] = "del_destroy" => stage[tgt[t]] = "unlinked"
    /\ \A t \in Clients : pc[t] \in {"get_lock", "get_body"} => tgt[t] \notin owed[t]
    /\ \A t \in Clients : pc[t] \in {"put_lock", "put_body"} => tgt[t] \in owed[t]

PoolInv ==
    /\ HeldStaysListed
    /\ KrefExact
    /\ PoolLockOwned
    /\ AwaitedStaysListed
    /\ NoLostWakeup
    /\ ListExact
    /\ AddingPrivate
    /\ FreshUnheld
    /\ CallsInOrder

(***************************************************************************)
(* Why teardown leaves nothing: the inductive invariant of a pool that one *)
(* thread at most takes children out of, whoever holds them and whether or *)
(* not that thread is killed while it waits.                               *)
(***************************************************************************)
OneRemover == \A t, u \in Deleters \cup Finishers : t = u

\* An unlinked child is in the hands of the thread that unlinked it.
UnlinkedInHand ==
    /\ \A d \in Subdev : stage[d] = "unlinked" =>
           \/ \E t \in Deleters : pc[t] = "del_destroy" /\ tgt[t] = d
           \/ \E t \in Finishers : pc[t] = "fini_destroy" /\ tgt[t] = d
    /\ \A t \in Deleters \cup Finishers :
           pc[t] \in {"del_destroy", "fini_destroy"} => stage[tgt[t]] = "unlinked"

\* A removal that has begun and a teardown exclude each other.
InDel == {"del_check", "del_wait", "del_relock", "del_killed", "del_give_up", "del_destroy"}
ClosedByFini ==
    /\ \A t \in Deleters : pc[t] \in InDel => ~closing
    /\ \A t \in Finishers : pc[t] \in InFini => closing
    /\ closing => devList = <<>> \/ \E t \in Finishers : pc[t] \in InFini

\* Teardown works on the newest child, which stays so while it waits for holders.
FiniAtNewest ==
    \A t \in Finishers : pc[t] \in InFini \ {"fini_next", "fini_destroy"} =>
        devList # <<>> /\ tgt[t] = Head(devList)

TeardownInv == ListExact /\ AddingPrivate /\ UnlinkedInHand /\ ClosedByFini /\ FiniAtNewest

\* The pool implements what root and group rely on.
Contract == INSTANCE PoolContract WITH
    Client <- Clients, Child <- Subdev,
    pool <- {d \in Subdev : stage[d] = "listed"},
    former <- {d \in Subdev : stage[d] \in {"unlinked", "gone"}},
    has <- owed
ImplementsContract == Contract!Spec
=============================================================================
