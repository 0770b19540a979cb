----------------------------- MODULE SubdevPool -----------------------------
(***************************************************************************)
(* The subdev pool of lib/subdev.c: the list of child devices a root or a  *)
(* group driver owns, the reference counts their holders have on them, and *)
(* the protocol by which a child is added, held, released and removed.     *)
(*                                                                         *)
(* Granularity.  A critical section of xsp_lock is two steps: acquiring    *)
(* the mutex, and the body that ends in mutex_unlock().  The second step   *)
(* does not test that the mutex is still the thread's own, because pool    *)
(* teardown unlocks it without having locked it.  Whatever runs without    *)
(* the lock (creation, destruction, the waits, teardown's list walk) is a  *)
(* step of its own.                                                        *)
(*                                                                         *)
(* A pool does not decide who calls it: Adders, Deleters, Finishers and    *)
(* Clients are the threads that make each kind of call, and an instance    *)
(* chooses them as root or group does.                                     *)
(***************************************************************************)
EXTENDS SequencesExt

CONSTANTS
    Thread,     \* kernel threads that enter the pool
    Subdev,     \* one value for each incarnation of a child device
    Holder,     \* devices on whose behalf a child is held
    HolderOf,   \* the device a client thread acts for
    Adders,     \* threads that call xrt_subdev_pool_add
    Deleters,   \* threads that call xrt_subdev_pool_del
    Finishers,  \* threads that call xrt_subdev_pool_fini
    Clients,    \* threads that call xrt_subdev_pool_get and _put
    Killable,   \* whether a thread that waits for holders can be killed
    MaxDone,    \* bound: where a completion's count saturates (UINT_MAX)
    NoThread, NoSubdev  \* a mutex without owner, a thread without a child

ASSUME ThreadAssumption ==
    /\ IsFiniteSet(Thread)
    /\ Adders \subseteq Thread /\ Deleters \subseteq Thread
    /\ Finishers \subseteq Thread /\ Clients \subseteq Thread
    /\ HolderOf \in [Clients -> Holder]
    /\ NoThread \notin Thread /\ NoSubdev \notin Subdev
ASSUME BoundsAssumption == Killable \in BOOLEAN /\ MaxDone \in Nat \ {0}

VARIABLES
    devList,    \* xsp_dev_list, newest child first
    closing,    \* xsp_closing
    lock,       \* the owner of xsp_lock, or NoThread
    stage,      \* where a child is in its life
    refs,       \* xsh_kref of each holder on xs_holder_list, 0 when not there
    comp,       \* xs_holder_comp.done
    pc,         \* where a thread is in the pool's code
    tgt,        \* the child a thread's call is about
    owed        \* the children a client has got and not yet put

vars == <<devList, closing, lock, stage, refs, comp, pc, tgt, owed>>

Stages == {"none", "made", "listed", "unlinked", "gone"}

\* Program points inside a critical section of xsp_lock ...
Locked == {"add_body", "del_find", "del_check", "del_give_up",
           "fini_mark", "get_body", "put_body"}

\* ... and outside one, or, for fini_check, either side of it.
Unlocked == {"idle", "add_lock", "add_destroy", "add_return",
             "del_lock", "del_wait", "del_relock", "del_killed", "del_destroy",
             "fini_lock", "fini_next", "fini_check", "fini_wait",
             "fini_relock", "fini_killed", "fini_give_up", "fini_unlink",
             "fini_destroy",
             "get_lock", "put_lock"}

NoRefs == [h \in Holder |-> 0]
Held(d) == \E h \in Holder : refs[d][h] > 0  \* !list_empty(&xs_holder_list)

TypeOK ==
    /\ devList \in Seq(Subdev)
    /\ closing \in BOOLEAN
    /\ lock \in Thread \cup {NoThread}
    /\ stage \in [Subdev -> Stages]
    /\ refs \in [Subdev -> [Holder -> Nat]]
    /\ comp \in [Subdev -> 0 .. MaxDone]
    /\ pc \in [Thread -> Locked \cup Unlocked]
    /\ tgt \in [Thread -> Subdev \cup {NoSubdev}]
    /\ owed \in [Clients -> SUBSET Subdev]

Init ==
    /\ devList = <<>>
    /\ closing = FALSE
    /\ lock = NoThread
    /\ stage = [d \in Subdev |-> "none"]
    /\ refs = [d \in Subdev |-> NoRefs]
    /\ comp = [d \in Subdev |-> 0]
    /\ pc = [t \in Thread |-> "idle"]
    /\ tgt = [t \in Thread |-> NoSubdev]
    /\ owed = [t \in Clients |-> {}]

-----------------------------------------------------------------------------
(* Helpers.  Each is a conjunct of the actions below.                       *)

Go(t, from, to) == pc[t] = from /\ pc' = [pc EXCEPT ![t] = to]

\* Starts a call about child d.
Call(t, d, to) == Go(t, "idle", to) /\ tgt' = [tgt EXCEPT ![t] = d]

\* mutex_lock(): sleeps until the mutex is free.
Acquire(t, from, to) ==
    /\ Go(t, from, to)
    /\ lock = NoThread
    /\ lock' = t
    /\ UNCHANGED <<devList, closing, stage, refs, comp, tgt, owed>>

\* mutex_unlock(): frees the mutex whoever owns it.
Unlock == lock' = NoThread

SetStage(d, s) == stage' = [stage EXCEPT ![d] = s]

\* list_del(&sdev->xs_dev_list)
Unlink(d) ==
    /\ \E i \in DOMAIN devList :
          devList[i] = d /\ devList' = RemoveAt(devList, i)
    /\ SetStage(d, "unlinked")

\* xrt_subdev_destroy
Destroy(t, from, to) ==
    /\ Go(t, from, to)
    /\ SetStage(tgt[t], "gone")
    /\ UNCHANGED <<devList, closing, lock, refs, comp, tgt, owed>>

\* wait_for_completion_killable() returning 0: it takes one count.
Woken(t, from, to) ==
    /\ Go(t, from, to)
    /\ comp[tgt[t]] > 0
    /\ comp' = [comp EXCEPT ![tgt[t]] = @ - 1]
    /\ UNCHANGED <<devList, closing, lock, stage, refs, tgt, owed>>

\* ... and returning -ERESTARTSYS: it was killed while there was none to take.
Interrupted(t, from, to) ==
    /\ Killable
    /\ Go(t, from, to)
    /\ comp[tgt[t]] = 0
    /\ UNCHANGED <<devList, closing, lock, stage, refs, comp, tgt, owed>>

\* "give up on waiting for holders, clean up now"
DropHolders(t, from, to) ==
    /\ Go(t, from, to)
    /\ refs' = [refs EXCEPT ![tgt[t]] = NoRefs]
    /\ UNCHANGED <<devList, closing, lock, stage, comp, tgt, owed>>

-----------------------------------------------------------------------------
(* xrt_subdev_pool_add.  A child whose creation fails leaves no trace in    *)
(* the pool: that call is not a step.                                       *)

AddCreate(t, d) ==
    /\ stage[d] = "none"
    /\ Call(t, d, "add_lock")
    /\ SetStage(d, "made")
    /\ UNCHANGED <<devList, closing, lock, refs, comp, owed>>

\* Mutant of AddList: the pool is not asked whether it is closing.
AddListLate(t) ==
    /\ Go(t, "add_body", "add_return")
    /\ devList' = <<tgt[t]>> \o devList
    /\ SetStage(tgt[t], "listed")
    /\ Unlock
    /\ UNCHANGED <<closing, refs, comp, tgt, owed>>

AddList(t) ==
    /\ ~closing
    /\ Go(t, "add_body", "add_return")
    /\ devList' = <<tgt[t]>> \o devList
    /\ SetStage(tgt[t], "listed")
    /\ Unlock
    /\ UNCHANGED <<closing, refs, comp, tgt, owed>>

\* "No new subdev when pool is going away."
AddRefused(t) ==
    /\ closing
    /\ Go(t, "add_body", "add_destroy")
    /\ Unlock
    /\ UNCHANGED <<devList, closing, stage, refs, comp, tgt, owed>>

\* The caller's answer is read from the child after the mutex is released.
AddReturn(t) ==
    /\ Go(t, "add_return", "idle")
    /\ UNCHANGED <<devList, closing, lock, stage, refs, comp, tgt, owed>>

Add(t) ==
    \/ \E d \in Subdev : AddCreate(t, d)
    \/ Acquire(t, "add_lock", "add_body")
    \/ AddList(t)
    \/ AddRefused(t)
    \/ Destroy(t, "add_destroy", "idle")
    \/ AddReturn(t)

-----------------------------------------------------------------------------
(* xrt_subdev_pool_del                                                      *)

DelCall(t, d) ==
    /\ Call(t, d, "del_lock")
    /\ UNCHANGED <<devList, closing, lock, stage, refs, comp, owed>>

\* "Pool is going away, all subdevs will be gone", or no such child.
DelNothing(t) ==
    /\ closing \/ tgt[t] \notin ToSet(devList)
    /\ Go(t, "del_find", "idle")
    /\ Unlock
    /\ UNCHANGED <<devList, closing, stage, refs, comp, tgt, owed>>

DelFound(t) ==
    /\ ~closing /\ tgt[t] \in ToSet(devList)
    /\ Go(t, "del_find", "del_check")
    /\ UNCHANGED <<devList, closing, lock, stage, refs, comp, tgt, owed>>

\* Mutant of DelAwaitHolders: it sleeps with the mutex locked.
DelAwaitLocked(t) ==
    /\ Go(t, "del_check", "del_wait")
    /\ Held(tgt[t])
    /\ UNCHANGED <<devList, closing, lock, stage, refs, comp, tgt, owed>>

DelAwaitHolders(t) ==
    /\ Go(t, "del_check", "del_wait")
    /\ Held(tgt[t])
    /\ Unlock
    /\ UNCHANGED <<devList, closing, stage, refs, comp, tgt, owed>>

\* Mutant of DelUnlink: the holders are not counted.
DelUnlinkHeld(t) ==
    /\ Go(t, "del_check", "del_destroy")
    /\ Unlink(tgt[t])
    /\ Unlock
    /\ UNCHANGED <<closing, refs, comp, tgt, owed>>

DelUnlink(t) ==
    /\ Go(t, "del_check", "del_destroy")
    /\ ~Held(tgt[t])
    /\ Unlink(tgt[t])
    /\ Unlock
    /\ UNCHANGED <<closing, refs, comp, tgt, owed>>

Del(t) ==
    \/ \E d \in Subdev : DelCall(t, d)
    \/ Acquire(t, "del_lock", "del_find")
    \/ DelNothing(t)
    \/ DelFound(t)
    \/ DelAwaitHolders(t)
    \/ Woken(t, "del_wait", "del_relock")
    \/ Interrupted(t, "del_wait", "del_killed")
    \/ Acquire(t, "del_relock", "del_check")
    \/ Acquire(t, "del_killed", "del_give_up")
    \/ DropHolders(t, "del_give_up", "del_check")
    \/ DelUnlink(t)
    \/ Destroy(t, "del_destroy", "idle")

-----------------------------------------------------------------------------
(* xrt_subdev_pool_fini.  It releases the mutex after setting xsp_closing   *)
(* and walks the list without it; the wait for holders unlocks the mutex    *)
(* and comes back with it locked.                                           *)

FiniCall(t) ==
    /\ Go(t, "idle", "fini_lock")
    /\ UNCHANGED <<devList, closing, lock, stage, refs, comp, tgt, owed>>

FiniMark(t) ==
    /\ Go(t, "fini_mark", IF closing THEN "idle" ELSE "fini_next")
    /\ closing' = TRUE
    /\ Unlock
    /\ UNCHANGED <<devList, stage, refs, comp, tgt, owed>>

\* Mutant of FiniNext: the oldest child first.
FiniNextOldest(t) ==
    /\ devList # <<>>
    /\ Go(t, "fini_next", "fini_check")
    /\ tgt' = [tgt EXCEPT ![t] = Last(devList)]
    /\ UNCHANGED <<devList, closing, lock, stage, refs, comp, owed>>

\* "Remove subdev in the reverse order of added."
FiniNext(t) ==
    /\ devList # <<>>
    /\ Go(t, "fini_next", "fini_check")
    /\ tgt' = [tgt EXCEPT ![t] = Head(devList)]
    /\ UNCHANGED <<devList, closing, lock, stage, refs, comp, owed>>

FiniDone(t) ==
    /\ devList = <<>>
    /\ Go(t, "fini_next", "idle")
    /\ UNCHANGED <<devList, closing, lock, stage, refs, comp, tgt, owed>>

FiniAwaitHolders(t) ==
    /\ Go(t, "fini_check", "fini_wait")
    /\ Held(tgt[t])
    /\ Unlock
    /\ UNCHANGED <<devList, closing, stage, refs, comp, tgt, owed>>

\* The list of holders was found empty; the child is unlinked a step later.
FiniUnheld(t) ==
    /\ Go(t, "fini_check", "fini_unlink")
    /\ ~Held(tgt[t])
    /\ UNCHANGED <<devList, closing, lock, stage, refs, comp, tgt, owed>>

FiniUnlink(t) ==
    /\ Go(t, "fini_unlink", "fini_destroy")
    /\ Unlink(tgt[t])
    /\ UNCHANGED <<closing, lock, refs, comp, tgt, owed>>

Fini(t) ==
    \/ FiniCall(t)
    \/ Acquire(t, "fini_lock", "fini_mark")
    \/ FiniMark(t)
    \/ FiniNext(t)
    \/ FiniDone(t)
    \/ FiniAwaitHolders(t)
    \/ Woken(t, "fini_wait", "fini_relock")
    \/ Interrupted(t, "fini_wait", "fini_killed")
    \/ Acquire(t, "fini_relock", "fini_check")
    \/ Acquire(t, "fini_killed", "fini_give_up")
    \/ DropHolders(t, "fini_give_up", "fini_check")
    \/ FiniUnheld(t)
    \/ FiniUnlink(t)
    \/ Destroy(t, "fini_destroy", "fini_next")

-----------------------------------------------------------------------------
(* xrt_subdev_pool_get and xrt_subdev_pool_put.  A client puts only what it *)
(* has got, and has one reference on a child at a time.                     *)

GetCall(t, d) ==
    /\ d \notin owed[t]
    /\ Call(t, d, "get_lock")
    /\ UNCHANGED <<devList, closing, lock, stage, refs, comp, owed>>

\* Mutant of GetHold: a holder that is already there is counted anew.
GetHoldAnew(t) ==
    LET d == tgt[t] IN
    /\ d \in ToSet(devList)
    /\ Go(t, "get_body", "idle")
    /\ refs' = [refs EXCEPT ![d][HolderOf[t]] = 1]
    /\ owed' = [owed EXCEPT ![t] = @ \cup {d}]
    /\ Unlock
    /\ UNCHANGED <<devList, closing, stage, comp, tgt>>

\* xrt_subdev_hold
GetHold(t) ==
    LET d == tgt[t] IN
    /\ d \in ToSet(devList)
    /\ Go(t, "get_body", "idle")
    /\ refs' = [refs EXCEPT ![d][HolderOf[t]] = @ + 1]
    /\ owed' = [owed EXCEPT ![t] = @ \cup {d}]
    /\ Unlock
    /\ UNCHANGED <<devList, closing, stage, comp, tgt>>

\* -ENOENT
GetNothing(t) ==
    /\ tgt[t] \notin ToSet(devList)
    /\ Go(t, "get_body", "idle")
    /\ Unlock
    /\ UNCHANGED <<devList, closing, stage, refs, comp, tgt, owed>>

PutCall(t, d) ==
    /\ d \in owed[t]
    /\ Call(t, d, "put_lock")
    /\ UNCHANGED <<devList, closing, lock, stage, refs, comp, owed>>

\* Mutant of PutRelease: the last release does not complete.
PutReleaseSilent(t) ==
    LET d == tgt[t] IN
    /\ Go(t, "put_body", "idle")
    /\ d \in ToSet(devList) /\ refs[d][HolderOf[t]] > 0
    /\ refs' = [refs EXCEPT ![d][HolderOf[t]] = @ - 1]
    /\ owed' = [owed EXCEPT ![t] = @ \ {d}]
    /\ Unlock
    /\ UNCHANGED <<devList, closing, stage, tgt, comp>>

\* xrt_subdev_release: the last reference of the last holder completes.
PutRelease(t) ==
    LET d == tgt[t]
        h == HolderOf[t]
        last == refs[d][h] = 1 /\ \A g \in Holder \ {h} : refs[d][g] = 0
    IN
    /\ Go(t, "put_body", "idle")
    /\ d \in ToSet(devList) /\ refs[d][h] > 0
    /\ refs' = [refs EXCEPT ![d][h] = @ - 1]
    /\ comp' = IF last /\ comp[d] < MaxDone
               THEN [comp EXCEPT ![d] = @ + 1] ELSE comp
    /\ owed' = [owed EXCEPT ![t] = @ \ {d}]
    /\ Unlock
    /\ UNCHANGED <<devList, closing, stage, tgt>>

\* -ENOENT or -EINVAL: the caller's reference was no longer there.
PutNothing(t) ==
    LET d == tgt[t] IN
    /\ Go(t, "put_body", "idle")
    /\ d \notin ToSet(devList) \/ refs[d][HolderOf[t]] = 0
    /\ owed' = [owed EXCEPT ![t] = @ \ {d}]
    /\ Unlock
    /\ UNCHANGED <<devList, closing, stage, refs, comp, tgt>>

Get(t) ==
    \/ \E d \in Subdev : GetCall(t, d)
    \/ Acquire(t, "get_lock", "get_body")
    \/ GetHold(t)
    \/ GetNothing(t)

Put(t) ==
    \/ \E d \in Subdev : PutCall(t, d)
    \/ Acquire(t, "put_lock", "put_body")
    \/ PutRelease(t)
    \/ PutNothing(t)

-----------------------------------------------------------------------------

Next ==
    \/ \E t \in Adders : Add(t)
    \/ \E t \in Deleters : Del(t)
    \/ \E t \in Finishers : Fini(t)
    \/ \E t \in Clients : Get(t) \/ Put(t)

Spec == Init /\ [][Next]_vars

(***************************************************************************)
(* Fairness.  Every thread inside the pool's code keeps running, and a     *)
(* mutex is eventually granted to a thread that keeps asking for it (the   *)
(* kernel hands it over to a waiter): strong fairness of a thread's steps  *)
(* in a call.  A client eventually puts something of what it has got,      *)
(* whatever it gets meanwhile.  No call is bound to be made otherwise.     *)
(***************************************************************************)
Locking(t) ==
    \/ Acquire(t, "add_lock", "add_body")
    \/ Acquire(t, "del_lock", "del_find")
    \/ Acquire(t, "del_relock", "del_check")
    \/ Acquire(t, "del_killed", "del_give_up")
    \/ Acquire(t, "get_lock", "get_body")
    \/ Acquire(t, "put_lock", "put_body")

Running(t) ==
    \/ AddList(t) \/ AddRefused(t) \/ AddReturn(t)
    \/ Destroy(t, "add_destroy", "idle")
    \/ DelNothing(t) \/ DelFound(t) \/ DelAwaitHolders(t) \/ DelUnlink(t)
    \/ Woken(t, "del_wait", "del_relock")
    \/ DropHolders(t, "del_give_up", "del_check")
    \/ Destroy(t, "del_destroy", "idle")
    \/ GetHold(t) \/ GetNothing(t) \/ PutRelease(t) \/ PutNothing(t)

FairSpec ==
    /\ Spec
    /\ \A t \in Thread : SF_vars(Running(t) \/ Locking(t))
    /\ \A t \in Clients : SF_vars(\E d \in Subdev : PutCall(t, d))
=============================================================================
