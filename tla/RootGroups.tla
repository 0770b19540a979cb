----------------------------- MODULE RootGroups -----------------------------
(***************************************************************************)
(* The groups of a root driver, lib/xroot.c with lib/group.c: how a group  *)
(* is created, brought up by the bringup work, waited for, and destroyed   *)
(* with the groups that depend on it, and who does that in xrt-mgmt.       *)
(*                                                                         *)
(* A group is the number of its creation, so the list of groups, newest    *)
(* first, is a set of numbers.  The pool it is in keeps what PoolContract  *)
(* says: a get finds a listed group, a removal waits for its holders.      *)
(*                                                                         *)
(* Threads.  "probe" runs xmgmt_probe, "remove" xmgmt_remove, "ioctl" a    *)
(* process that downloads xclbins through xmgmt-main's device node, and    *)
(* "leaf" the code of leaves the bringup work calls and waits for: the     *)
(* probe of vsec, xmgmt-main's handler of POST_CREATION.  The bringup work *)
(* itself has its own variables.                                           *)
(***************************************************************************)
EXTENDS Integers, FiniteSets, FiniteSetsExt

CONSTANTS
    MaxGroups,      \* bound: how many groups are ever created
    Spawners,       \* groups with a leaf that creates a group, once
    Failing,        \* threads whose creation of a group can fail
    LeavesFail,     \* groups a leaf of which can fail to come up
    NoMemory,       \* groups whose bringup can fail before their leaves
    Downloads,      \* bound: how many downloads the process makes
    GiveUps,        \* whether a download can fail after its bringup
    Unbind,         \* whether the driver is ever unbound
    EarlyIoctl,     \* whether a download can begin before probe has returned
    BusyUnbind,     \* whether the unbinding can begin during a download
    NoGroup         \* a thread without a group

Thread == {"probe", "ioctl", "leaf", "remove"}
Group == 0 .. MaxGroups - 1
MainGroup == 0      \* the group probe creates; xmgmt-main is a leaf of it

ASSUME GroupsAssumption ==
    /\ MaxGroups \in Nat /\ Downloads \in Nat
    /\ Spawners \subseteq Group /\ Failing \subseteq Thread
    /\ LeavesFail \subseteq Group /\ NoMemory \subseteq Group
    /\ 1 + Cardinality(Spawners) + Downloads <= MaxGroups
    /\ {GiveUps, Unbind, EarlyIoctl, BusyUnbind} \subseteq BOOLEAN
    /\ NoGroup \notin Group

VARIABLES
    made,       \* how many groups were created
    pool,       \* the groups in groups.pool
    closing,    \* xsp_closing of that pool
    hold,       \* the root driver's kref on each group
    created,    \* leaves_created of each group
    leaves,     \* "none" before a group has leaves, "up", or "gone" for good
    spoilt,     \* history: the groups a leaf of which did not come up
    owner,      \* the owner of each group's lock, "none" or "work" or a thread
    pending,    \* bringup_pending_cnt
    failed,     \* whether bringup_failed_cnt is not 0
    comp,       \* bringup_comp.done
    queued,     \* whether bringup_work is queued
    wpc, cur,   \* where bringup_work is, and xdev, the group it is at
    pc,         \* where each thread is
    tgt,        \* the group a thread destroys
    dep,        \* and the one it is destroying, that group or one on top of it
    mine,       \* group_instance of the region the process downloads to
    got,        \* how many downloads began
    redo,       \* whether the process creates a group after destroying one
    met,        \* history: whether a download and the unbinding were ever both under way
    spawned,    \* the groups whose leaf has created its group
    online      \* whether xmgmt-main's device node can be used

groups == <<made, pool, closing>>
inside == <<created, leaves, spoilt, owner>>
counts == <<pending, failed, comp>>
work == <<queued, wpc, cur>>
aims == <<tgt, dep>>
region == <<mine, got, redo, met>>
vars == <<groups, hold, inside, counts, work, pc, aims, region, spawned, online>>

Creating == {"inc", "add", "undo", "sched"}
Destroying == {"get", "walk", "release", "single", "fini_lock", "fini", "put", "del",
               "drain", "oops"}

TypeOK ==
    /\ made \in 0 .. MaxGroups /\ pool \subseteq Group /\ closing \in BOOLEAN
    /\ hold \in [Group -> Nat]
    /\ created \in [Group -> BOOLEAN]
    /\ leaves \in [Group -> {"none", "up", "gone"}]
    /\ spoilt \subseteq Group
    /\ owner \in [Group -> Thread \cup {"none", "work"}]
    /\ pending \in Int /\ failed \in BOOLEAN /\ comp \in Nat
    /\ queued \in BOOLEAN
    /\ wpc \in {"idle", "next", "init", "skip", "leaves", "put", "post",
                "posting", "dec", "complete"}
    /\ cur \in Group \cup {NoGroup}
    /\ pc \in [Thread -> Creating \cup Destroying \cup
                         {"idle", "wait", "judge", "done",
                          "first", "users", "flush", "pool_fini"}]
    /\ tgt \in [Thread -> Group \cup {NoGroup}]
    /\ dep \in [Thread -> Group \cup {NoGroup}]
    /\ mine \in Group \cup {NoGroup} /\ got \in 0 .. Downloads /\ redo \in BOOLEAN
    /\ met \in BOOLEAN
    /\ spawned \subseteq Spawners
    /\ online \in BOOLEAN

Init ==
    /\ made = 0 /\ pool = {} /\ closing = FALSE
    /\ hold = [g \in Group |-> 0]
    /\ created = [g \in Group |-> FALSE]
    /\ leaves = [g \in Group |-> "none"]
    /\ spoilt = {}
    /\ owner = [g \in Group |-> "none"]
    /\ pending = 0 /\ failed = FALSE /\ comp = 0
    /\ queued = FALSE /\ wpc = "idle" /\ cur = NoGroup
    /\ pc = [t \in Thread |-> IF t = "probe" THEN "inc" ELSE "idle"]
    /\ tgt = [t \in Thread |-> NoGroup]
    /\ dep = [t \in Thread |-> NoGroup]
    /\ mine = NoGroup /\ got = 0 /\ redo = FALSE /\ met = FALSE
    /\ spawned = {}
    /\ online = FALSE

\* Nothing that follows a use of freed memory is modelled (SingleFreed).
Sane == \A t \in Thread : pc[t] # "oops"

Go(t, from, to) == pc[t] = from /\ pc' = [pc EXCEPT ![t] = to] /\ Sane
WGo(from, to) == wpc = from /\ wpc' = to /\ Sane

Hold(g) == hold' = [hold EXCEPT ![g] = @ + 1]
Put(g) == hold' = [hold EXCEPT ![g] = @ - 1]

-----------------------------------------------------------------------------
(* xroot_create_group                                                       *)

\* atomic_inc(&bringup_pending_cnt)
CreateInc(t) ==
    /\ Go(t, "inc", "add")
    /\ pending' = pending + 1
    /\ UNCHANGED <<groups, hold, inside, failed, comp, work, aims, region, spawned, online>>

\* xrt_subdev_pool_add
CreateAdd(t) ==
    /\ Go(t, "add", "sched")
    /\ ~closing
    /\ made' = made + 1
    /\ pool' = pool \cup {made}
    /\ mine' = IF t = "ioctl" THEN made ELSE mine
    /\ UNCHANGED <<closing, hold, inside, counts, work, aims, got, redo, met, spawned, online>>

CreateRefused(t) ==
    /\ Go(t, "add", "undo")
    /\ closing \/ t \in Failing
    /\ UNCHANGED <<groups, hold, inside, counts, work, aims, region, spawned, online>>

\* What the caller does next: xmgmt_probe waits whatever the outcome,
\* xmgmt_region_program only when it has a group to wait for.
AfterCreate(t, ok) ==
    CASE t = "probe" -> "wait"
      [] t = "ioctl" -> IF ok THEN "wait" ELSE "idle"
      [] OTHER -> "idle"

\* Mutant of CreateUndo: the group that could not be created stays counted.
CreateUndoNot(t) ==
    /\ Go(t, "undo", AfterCreate(t, FALSE))
    /\ failed' = TRUE
    /\ UNCHANGED <<groups, hold, inside, pending, comp, work, aims, region, spawned, online>>

CreateUndo(t) ==
    /\ Go(t, "undo", AfterCreate(t, FALSE))
    /\ pending' = pending - 1
    /\ failed' = TRUE
    /\ UNCHANGED <<groups, hold, inside, comp, work, aims, region, spawned, online>>

\* schedule_work(&bringup_work): queued once, whether it runs or not.
CreateSchedule(t) ==
    /\ Go(t, "sched", AfterCreate(t, TRUE))
    /\ queued' = TRUE
    /\ UNCHANGED <<groups, hold, inside, counts, wpc, cur, aims, region, spawned, online>>

Create(t) ==
    CreateInc(t) \/ CreateAdd(t) \/ CreateRefused(t) \/ CreateUndo(t) \/ CreateSchedule(t)

\* xroot_wait_for_bringup, whose result is ~failed when it returns.
Wait(t) ==
    /\ Go(t, "wait", IF t = "ioctl" THEN "judge" ELSE "done")
    /\ comp > 0
    /\ comp' = comp - 1
    /\ UNCHANGED <<groups, hold, inside, pending, failed, work, aims, region, spawned, online>>

-----------------------------------------------------------------------------
(* xroot_bringup_group_work                                                 *)

WorkStart ==
    /\ WGo("idle", "next")
    /\ queued
    /\ queued' = FALSE
    /\ cur' = NoGroup
    /\ UNCHANGED <<groups, hold, inside, counts, pc, aims, region, spawned, online>>

\* xroot_get_group(xr, XROOT_GROUP_FIRST, &xdev): the oldest group, or the
\* next newer one than xdev if xdev is still listed.
Newer ==
    IF cur = NoGroup THEN pool
    ELSE IF cur \in pool THEN {g \in pool : g > cur} ELSE {}

WorkNext ==
    /\ WGo("next", "init")
    /\ Newer # {}
    /\ cur' = Min(Newer)
    /\ Hold(Min(Newer))
    /\ UNCHANGED <<groups, inside, counts, queued, pc, aims, region, spawned, online>>

WorkEnd ==
    /\ WGo("next", "idle")
    /\ Newer = {}
    /\ UNCHANGED <<groups, hold, inside, counts, queued, cur, pc, aims, region, spawned, online>>

\* xrt_grp_create_leaves, up to its test of leaves_created.
WorkInit ==
    /\ WGo("init", IF created[cur] THEN "skip" ELSE "leaves")
    /\ owner[cur] = "none"
    /\ owner' = [owner EXCEPT ![cur] = IF created[cur] THEN "none" ELSE "work"]
    /\ UNCHANGED <<groups, hold, created, leaves, spoilt, counts, queued, cur, pc, aims, region, spawned, online>>

\* -EEXIST: "Already brough up, nothing to do."
WorkSkip ==
    /\ WGo("skip", "next")
    /\ Put(cur)
    /\ UNCHANGED <<groups, inside, counts, queued, cur, pc, aims, region, spawned, online>>

\* -EINVAL, -ENOMEM: the leaves are not created and remain to be.
WorkNoMemory ==
    /\ WGo("init", "put")
    /\ cur \in NoMemory
    /\ owner[cur] = "none" /\ ~created[cur]
    /\ failed' = TRUE
    /\ UNCHANGED <<groups, hold, inside, pending, comp, queued, cur, pc, aims, region, spawned, online>>

\* The rest of xrt_grp_create_leaves.  The leaves' pool refuses them all when
\* it was closed by xrt_grp_remove_leaves, and xmgmt-main makes its node.
WorkLeaves ==
    /\ WGo("leaves", "put")
    /\ pc["leaf"] = "idle"
    /\ created' = [created EXCEPT ![cur] = TRUE]
    /\ leaves' = [leaves EXCEPT ![cur] = IF @ = "none" THEN "up" ELSE @]
    /\ owner' = [owner EXCEPT ![cur] = "none"]
    /\ \E bad \in BOOLEAN :
          /\ bad => cur \in LeavesFail \/ leaves[cur] = "gone"
          /\ leaves[cur] = "gone" => bad
          /\ failed' = (failed \/ bad)
          /\ spoilt' = IF bad THEN spoilt \cup {cur} ELSE spoilt
    /\ online' = (online \/ (cur = MainGroup /\ leaves[cur] = "none"))
    /\ UNCHANGED <<groups, hold, pending, comp, queued, cur, pc, aims, region, spawned>>

WorkPut ==
    /\ WGo("put", "post")
    /\ Put(cur)
    /\ UNCHANGED <<groups, inside, counts, queued, cur, pc, aims, region, spawned, online>>

\* xroot_group_trigger_event(xr, i, XRT_EVENT_POST_CREATION): nothing when the
\* group is not there any more.
WorkPost ==
    /\ \/ WGo("post", "posting") /\ cur \in pool /\ Hold(cur)
       \/ WGo("post", "dec") /\ cur \notin pool /\ UNCHANGED hold
    /\ UNCHANGED <<groups, inside, counts, queued, cur, pc, aims, region, spawned, online>>

WorkPosted ==
    /\ WGo("posting", "dec")
    /\ pc["leaf"] = "idle"
    /\ Put(cur)
    /\ UNCHANGED <<groups, inside, counts, queued, cur, pc, aims, region, spawned, online>>

\* Mutants of WorkDec: it completes for every group, or once nothing was left
\* to count down.
WorkDecTo(to) ==
    /\ WGo("dec", to)
    /\ pending' = pending - 1
    /\ UNCHANGED <<groups, hold, inside, failed, comp, queued, cur, pc, aims, region, spawned, online>>
WorkDecAlways == WorkDecTo("complete")
WorkDecLate == WorkDecTo(IF pending = 0 THEN "complete" ELSE "next")

\* atomic_dec_and_test(&bringup_pending_cnt)
WorkDec ==
    /\ WGo("dec", IF pending = 1 THEN "complete" ELSE "next")
    /\ pending' = pending - 1
    /\ UNCHANGED <<groups, hold, inside, failed, comp, queued, cur, pc, aims, region, spawned, online>>

WorkComplete ==
    /\ WGo("complete", "next")
    /\ comp' = comp + 1
    /\ UNCHANGED <<groups, hold, inside, pending, failed, queued, cur, pc, aims, region, spawned, online>>

\* A leaf creates a group while the work creates it or posts its creation.
LeafCreates ==
    /\ Go("leaf", "idle", "inc")
    /\ \/ wpc = "leaves" /\ leaves[cur] = "none"
       \/ wpc = "posting" /\ leaves[cur] = "up"
    /\ cur \in Spawners \ spawned
    /\ spawned' = spawned \cup {cur}
    /\ UNCHANGED <<groups, hold, inside, counts, work, aims, region, online>>

Work ==
    \/ WorkStart \/ WorkNext \/ WorkEnd \/ WorkInit \/ WorkNoMemory \/ WorkSkip
    \/ WorkLeaves \/ WorkPut \/ WorkPost \/ WorkPosted \/ WorkDec \/ WorkComplete

-----------------------------------------------------------------------------
(* xroot_destroy_group                                                      *)

\* What the caller does next: xmgmt_process_xclbin goes on to create a group,
\* or gives up after a failed one; xroot_remove goes on to its work queues.
AfterDestroy(t) == IF t = "remove" THEN "flush" ELSE IF redo THEN "inc" ELSE "idle"

\* "Make sure target group exists and can't go away"
DestroyGet(t) ==
    /\ \/ Go(t, "get", "walk") /\ tgt[t] \in pool /\ Hold(tgt[t])
       \/ Go(t, "get", AfterDestroy(t)) /\ tgt[t] \notin pool /\ UNCHANGED hold
    /\ UNCHANGED <<groups, inside, counts, work, aims, region, spawned, online>>

\* Mutant of DestroyWalk: the target alone is destroyed.
DestroyWalkTarget(t) ==
    /\ Go(t, "walk", "release")
    /\ dep' = [dep EXCEPT ![t] = tgt[t]]
    /\ UNCHANGED <<groups, hold, inside, counts, work, tgt, region, spawned, online>>

\* The newest group is the target, or is destroyed first.
DestroyWalk(t) ==
    /\ \/ Go(t, "walk", "release") /\ Max(pool) = tgt[t]
       \/ Go(t, "walk", "single") /\ Max(pool) # tgt[t]
    /\ dep' = [dep EXCEPT ![t] = Max(pool)]
    /\ UNCHANGED <<groups, hold, inside, counts, work, tgt, region, spawned, online>>

\* Mutant of DestroyRelease: the target stays held.
DestroyKeeps(t) ==
    /\ Go(t, "release", "single")
    /\ UNCHANGED <<groups, hold, inside, counts, work, aims, region, spawned, online>>

DestroyRelease(t) ==
    /\ Go(t, "release", "single")
    /\ Put(tgt[t])
    /\ UNCHANGED <<groups, inside, counts, work, aims, region, spawned, online>>

\* xroot_destroy_single_group: its get ...
SingleEnd(t) == IF dep[t] = tgt[t] THEN AfterDestroy(t) ELSE "walk"

SingleGet(t) ==
    /\ \/ Go(t, "single", "fini_lock") /\ dep[t] \in pool /\ Hold(dep[t])
       \/ Go(t, "single", SingleEnd(t)) /\ dep[t] \notin pool /\ UNCHANGED hold
    /\ UNCHANGED <<groups, inside, counts, work, aims, region, spawned, online>>

\* ... xrt_grp_remove_leaves, which has the group's lock while its leaves'
\* pool closes ...
FiniLock(t) ==
    /\ \/ Go(t, "fini_lock", "put") /\ ~created[dep[t]] /\ UNCHANGED owner
       \/ /\ Go(t, "fini_lock", "fini") /\ created[dep[t]]
          /\ owner' = [owner EXCEPT ![dep[t]] = t]
    /\ owner[dep[t]] = "none"
    /\ UNCHANGED <<groups, hold, created, leaves, spoilt, counts, work, aims, region, spawned, online>>

\* ... and with xmgmt-main among them takes away its device node, which
\* waits for the process that has it open ...
FiniNode(t) ==
    /\ Go(t, "fini", "fini")
    /\ dep[t] = MainGroup /\ online
    /\ online' = FALSE
    /\ UNCHANGED <<groups, hold, inside, counts, work, aims, region, spawned>>

FiniLeaves(t) ==
    /\ Go(t, "fini", "put")
    /\ dep[t] = MainGroup => ~online /\ pc["ioctl"] = "idle"
    /\ created' = [created EXCEPT ![dep[t]] = FALSE]
    /\ leaves' = [leaves EXCEPT ![dep[t]] = "gone"]
    /\ owner' = [owner EXCEPT ![dep[t]] = "none"]
    /\ UNCHANGED <<groups, hold, spoilt, counts, work, aims, region, spawned, online>>

\* ... its put ...
SinglePut(t) ==
    /\ Go(t, "put", "del")
    /\ Put(dep[t])
    /\ UNCHANGED <<groups, inside, counts, work, aims, region, spawned, online>>

\* Mutant of Leave: the holders are not waited for.
LeaveHeld(g) ==
    /\ pool' = pool \ {g}
    /\ created' = [created EXCEPT ![g] = FALSE]
    /\ leaves' = [leaves EXCEPT ![g] = IF created[g] THEN "gone" ELSE @]
    /\ UNCHANGED <<made, closing, hold, spoilt, owner, counts, work, aims, region, spawned, online>>

\* ... and xrt_subdev_pool_del, which finds the group once, under the pool's
\* lock.  The end of it, under that lock from the last look at the holders on:
\* the group leaves the pool, and xrt_grp_remove removes leaves it has got since.
Leave(g) ==
    /\ hold[g] = 0
    /\ pool' = pool \ {g}
    /\ created' = [created EXCEPT ![g] = FALSE]
    /\ leaves' = [leaves EXCEPT ![g] = IF created[g] THEN "gone" ELSE @]
    /\ UNCHANGED <<made, closing, hold, spoilt, owner, counts, work, aims, region, spawned, online>>

\* Somebody holds the group that it finds: it drops the lock and sleeps.
SingleAwait(t) ==
    /\ Go(t, "del", "drain")
    /\ ~closing /\ dep[t] \in pool /\ hold[dep[t]] > 0
    /\ UNCHANGED <<groups, hold, inside, counts, work, aims, region, spawned, online>>

\* Nobody holds it, at once or when the last put has woken the remover and it
\* has the lock again: it looks at the holders once more, not for the group.
SingleDel(t) ==
    /\ \/ Go(t, "del", SingleEnd(t)) /\ ~closing
       \/ Go(t, "drain", SingleEnd(t))
    /\ dep[t] \in pool
    /\ Leave(dep[t])

\* It finds the pool closing, or the group gone.
SingleDelNothing(t) ==
    /\ Go(t, "del", SingleEnd(t))
    /\ closing \/ dep[t] \notin pool
    /\ UNCHANGED <<groups, hold, inside, counts, work, aims, region, spawned, online>>

\* Another remover freed the group while this one slept: it sleeps for good on
\* a completion that is no more, or wakes and reads and unlinks freed memory.
SingleFreed(t) ==
    /\ Go(t, "drain", "oops")
    /\ dep[t] \notin pool
    /\ UNCHANGED <<groups, hold, inside, counts, work, aims, region, spawned, online>>

Destroy(t) ==
    \/ DestroyGet(t) \/ DestroyWalk(t) \/ DestroyRelease(t) \/ SingleGet(t)
    \/ FiniLock(t) \/ FiniNode(t) \/ FiniLeaves(t) \/ SinglePut(t)
    \/ SingleAwait(t) \/ SingleDel(t) \/ SingleDelNothing(t) \/ SingleFreed(t)

-----------------------------------------------------------------------------
(* xmgmt_process_xclbin, by a process with xmgmt-main's device node open.   *)

Quiet == pc["remove"] = "idle"

\* A download destroys the group of the region and creates another.
Download ==
    /\ online
    /\ got < Downloads
    /\ EarlyIoctl \/ pc["probe"] = "done"
    /\ BusyUnbind \/ Quiet
    /\ Go("ioctl", "idle", IF mine = NoGroup THEN "inc" ELSE "get")
    /\ tgt' = [tgt EXCEPT !["ioctl"] = mine]
    /\ mine' = NoGroup
    /\ redo' = TRUE
    /\ got' = got + 1
    /\ met' = (met \/ ~Quiet)
    /\ UNCHANGED <<groups, hold, inside, counts, work, dep, spawned, online>>

\* A failed bringup, or a failure after it, destroys the new group.
GiveUp ==
    /\ Go("ioctl", "judge", "get")
    /\ failed \/ GiveUps
    /\ tgt' = [tgt EXCEPT !["ioctl"] = mine]
    /\ mine' = NoGroup
    /\ redo' = FALSE
    /\ UNCHANGED <<groups, hold, inside, counts, work, dep, got, met, spawned, online>>

KeepGroup ==
    /\ Go("ioctl", "judge", "idle")
    /\ ~failed
    /\ UNCHANGED <<groups, hold, inside, counts, work, aims, region, spawned, online>>

-----------------------------------------------------------------------------
(* xroot_remove                                                             *)

RemoveStart ==
    /\ Unbind
    /\ pc["probe"] = "done"
    /\ BusyUnbind \/ pc["ioctl"] = "idle"
    /\ Go("remove", "idle", "first")
    /\ met' = (met \/ pc["ioctl"] # "idle")
    /\ UNCHANGED <<groups, hold, inside, counts, work, aims, mine, got, redo, spawned, online>>

RemoveFirst ==
    /\ IF pool = {}
       THEN Go("remove", "first", "flush") /\ UNCHANGED tgt
       ELSE Go("remove", "first", "get") /\ tgt' = [tgt EXCEPT !["remove"] = Min(pool)]
    /\ UNCHANGED <<groups, hold, inside, counts, work, dep, region, spawned, online>>

\* Mutant of RemoveFlush: the work is not flushed.
RemoveFlushNot ==
    /\ Go("remove", "flush", "pool_fini")
    /\ closing' = TRUE
    /\ UNCHANGED <<made, pool, hold, inside, counts, work, aims, region, spawned, online>>

\* flush_scheduled_work, by xroot_event_fini and xroot_groups_fini
RemoveFlush ==
    /\ Go("remove", "flush", "pool_fini")
    /\ ~queued /\ wpc = "idle"
    /\ closing' = TRUE
    /\ UNCHANGED <<made, pool, hold, inside, counts, work, aims, region, spawned, online>>

\* xrt_subdev_pool_fini: what is left, newest group first, each when nobody
\* holds it.  Nobody else destroys a group then: the process has gone with
\* xmgmt-main's group.
RemoveLeft ==
    /\ Go("remove", "pool_fini", "pool_fini")
    /\ pool # {}
    /\ Leave(Max(pool))

RemoveEnd ==
    /\ Go("remove", "pool_fini", "done")
    /\ pool = {}
    /\ UNCHANGED <<groups, hold, inside, counts, work, aims, region, spawned, online>>

Remove == RemoveFirst \/ RemoveFlush \/ RemoveLeft \/ RemoveEnd

-----------------------------------------------------------------------------
Next ==
    \/ Work
    \/ LeafCreates
    \/ \E t \in {"probe", "ioctl", "leaf"} : Create(t)
    \/ \E t \in {"probe", "ioctl"} : Wait(t)
    \/ \E t \in {"ioctl", "remove"} : Destroy(t)
    \/ Download \/ GiveUp \/ KeepGroup
    \/ RemoveStart \/ Remove

Spec == Init /\ [][Next]_vars

\* The work queue runs, and so does every thread inside a call.  Nobody need
\* download, unbind, or create a group from a leaf, nor need a remover wake that
\* sleeps for the holders of a group that was freed.
FairSpec ==
    /\ Spec
    /\ WF_vars(Work)
    /\ \A t \in {"probe", "ioctl", "leaf"} : WF_vars(Create(t))
    /\ \A t \in {"probe", "ioctl"} : WF_vars(Wait(t))
    /\ \A t \in {"ioctl", "remove"} : WF_vars(Destroy(t) /\ pc'[t] # "oops")
    /\ WF_vars(GiveUp \/ KeepGroup)
    /\ WF_vars(Remove)
=============================================================================
