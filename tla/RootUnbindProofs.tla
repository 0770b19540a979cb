--------------------------- MODULE RootUnbindProofs ---------------------------
(***************************************************************************)
(* Unbinding leaves nothing, and groups go newest first: for any number of *)
(* groups and downloads, with an unbinding whenever it likes.              *)
(***************************************************************************)
EXTENDS RootGroupsProofs

\* The newest of some groups is one of them.
LEMMA MaxGroup ==
    ASSUME NEW S \in SUBSET Group, S # {}
    PROVE  Max(S) \in S /\ \A g \in S : g <= Max(S)
<1> DEFINE from(x) == {y \in S : y >= x}
           T == {from(x) : x \in S}
           R == StrictSubsetOrdering(Group)
<1>0. MaxGroups \in Nat
  BY GroupsAssumption
<1> USE <1>0 DEF Group
<1>1. T # {} /\ T \subseteq FiniteSubsetsOf(Group)
  <2>1. IsFiniteSet(Group)
    BY FS_Interval
  <2>2. ASSUME NEW x \in S PROVE from(x) \in FiniteSubsetsOf(Group)
    BY <2>1, FS_Subset DEF FiniteSubsetsOf
  <2> QED
    BY <2>2
<1>2. IsWellFoundedOn(R, FiniteSubsetsOf(Group))
  BY FS_StrictSubsetOrderingWellFounded
<1>3. \E Z \in T : \A Y \in T : ~ (<<Y, Z>> \in R)
  <2> HIDE DEF T, R
  <2> QED
    BY <1>1, <1>2, WFMin
<1>4. PICK x \in S : \A y \in S : ~ (<<from(y), from(x)>> \in R)
  BY <1>3
<1>5. ASSUME NEW y \in S, y > x
      PROVE  FALSE
  <2>1. \A z \in S : z \in Nat
    OBVIOUS
  <2>2. x \in Nat /\ y \in Nat /\ ~ (x >= y) /\ \A z \in Nat : z >= y => z >= x
    BY <1>5, <2>1
  <2>3. from(y) \subseteq from(x)
    BY <2>1, <2>2
  <2>4. x \in from(x) /\ x \notin from(y)
    BY <2>2
  <2>5. from(y) \subseteq Group /\ from(x) \subseteq Group
    OBVIOUS
  <2>6. ~ (<<from(y), from(x)>> \in R)
    BY <1>4
  <2> HIDE DEF from, Group
  <2> QED
    BY <2>3, <2>4, <2>5, <2>6 DEF StrictSubsetOrdering
<1>6. \A y \in S : y <= x
  BY <1>5
<1> QED
  BY <1>6 DEF Max

-----------------------------------------------------------------------------
(* The invariant.                                                           *)

\* The bringup of the group with the main leaf does not run out of memory.
MainSafe == MainGroup \notin NoMemory

\* The types of what the proof is about.
Types ==
    /\ made \in Nat /\ pool \subseteq {g \in Group : g < made} /\ closing \in BOOLEAN
    /\ hold \in [Group -> Int] /\ created \in [Group -> BOOLEAN]
    /\ leaves \in [Group -> {"none", "up", "gone"}]
    /\ comp \in Nat /\ online \in BOOLEAN /\ queued \in BOOLEAN
    /\ got \in 0 .. Downloads /\ spawned \subseteq Spawners /\ redo \in BOOLEAN
    /\ wpc \in {"idle", "next", "init", "skip", "leaves", "put", "post",
                "posting", "dec", "complete"}
    /\ wpc \in {"init", "skip", "leaves", "put", "posting"} => cur \in Group
    /\ tgt \in [Thread -> Group \cup {NoGroup}] /\ dep \in [Thread -> Group \cup {NoGroup}]
    /\ \A t \in {"ioctl", "remove"} :
          /\ pc[t] \in Destroying \ {"get"} => tgt[t] \in Group
          /\ pc[t] \in Destroying \ {"get", "walk"} => dep[t] \in Group
    /\ mine \in Group \cup {NoGroup}
    /\ pc \in [Thread -> Creating \cup Destroying \cup
                         {"idle", "wait", "judge", "done", "first", "flush", "pool_fini"}]

\* Who is where.
Places ==
    /\ pc["probe"] \in Creating \cup {"wait", "done"}
    /\ pc["leaf"] \in Creating \cup {"idle"}
    /\ pc["leaf"] # "idle" => wpc \in {"leaves", "posting"}
    /\ pc["ioctl"] \in Creating \cup Destroying \cup {"idle", "wait", "judge"}
    /\ pc["remove"] \in Destroying \cup {"idle", "first", "flush", "pool_fini", "done"}
    /\ pc["remove"] # "idle" => pc["probe"] = "done"

\* There is a number for each group still to come.
MakingOf(t) == IF pc[t] \in {"inc", "add"} THEN 1 ELSE 0
Redoing == IF pc["ioctl"] \in Destroying /\ redo THEN 1 ELSE 0
NumbersLeft ==
    made + MakingOf("probe") + MakingOf("leaf") + MakingOf("ioctl") + Redoing
        <= 1 + Cardinality(spawned) + got

\* A group is held by the work that is at it, by who is destroying it and by
\* who is destroying others on the way to it.
ByWork(g) == IF cur = g /\ wpc \in {"init", "skip", "leaves", "put", "posting"} THEN 1 ELSE 0
OnTheWay(t) ==
    \/ pc[t] \in {"walk", "release"}
    \/ pc[t] \in {"single", "fini_lock", "fini", "put", "del", "drain", "oops"}
       /\ dep[t] # tgt[t]
AsTarget(t, g) == IF tgt[t] = g /\ OnTheWay(t) THEN 1 ELSE 0
AsNewest(t, g) == IF dep[t] = g /\ pc[t] \in {"fini_lock", "fini", "put"} THEN 1 ELSE 0
ReleaseAtTarget == \A t \in {"ioctl", "remove"} : pc[t] = "release" => dep[t] = tgt[t]
ByThread(t, g) == AsTarget(t, g) + AsNewest(t, g)
HoldExact ==
    \A g \in Group : hold[g] = ByWork(g) + ByThread("ioctl", g) + ByThread("remove", g)

\* Leaves are those of a listed group, and it knows of them.
LeavesListed ==
    \A g \in Group :
        /\ leaves[g] = "up" => created[g]
        /\ created[g] => g \in pool

\* Until the first group has its leaves, there is nobody to destroy anything.
FirstFresh ==
    leaves[MainGroup] = "none" =>
        /\ ~created[MainGroup] /\ comp = 0 /\ ~online
        /\ pc["ioctl"] = "idle" /\ pc["remove"] = "idle" /\ pc["probe"] # "done"
        /\ wpc \in {"idle", "next", "init", "leaves"}
        /\ wpc = "next" => cur = NoGroup
        /\ wpc \in {"init", "leaves"} => cur = MainGroup
        /\ made = 0 => pc["probe"] # "sched" /\ wpc \in {"idle", "next"}
        /\ made > 0 => MainGroup \in pool /\ pc["probe"] \in {"sched", "wait"}

\* The first group is the last that is destroyed, and only by the unbinding.
Past == pc["remove"] \in {"flush", "pool_fini", "done"}
DestroyingIt == {"single", "fini_lock", "fini", "put", "del", "drain", "oops"}
FirstStays ==
    /\ leaves[MainGroup] # "none" =>
           /\ made > 0 /\ pc["probe"] \in {"sched", "wait", "done"}
           /\ MainGroup \in pool \/ Past
    /\ mine # MainGroup /\ tgt["ioctl"] # MainGroup
    /\ pc["ioctl"] \in DestroyingIt \cup {"release"} => dep["ioctl"] # MainGroup
    /\ pc["remove"] \in Destroying => tgt["remove"] = MainGroup

\* When it goes, the process is gone and does not come back.
ProcessGone ==
    /\ leaves[MainGroup] = "gone" => ~online /\ pc["ioctl"] = "idle"
    /\ Past \/ (pc["remove"] \in {"put", "del", "drain", "oops"} /\ dep["remove"] = MainGroup) =>
           leaves[MainGroup] = "gone"

\* What the unbinding has established so far.
UnbindingDone ==
    /\ closing <=> pc["remove"] \in {"pool_fini", "done"}
    /\ pc["remove"] \in {"pool_fini", "done"} => wpc = "idle" /\ ~queued
    /\ pc["remove"] = "done" => pool = {}

UnbindInv ==
    /\ Types /\ Places /\ NumbersLeft /\ ReleaseAtTarget /\ HoldExact /\ LeavesListed
    /\ FirstFresh /\ FirstStays /\ ProcessGone /\ UnbindingDone

-----------------------------------------------------------------------------
(* What it says of the groups that are at hand.                             *)

\* A group that the work is at, or that is held on the way to it, is listed.
LEMMA AtHand ==
    ASSUME UnbindInv, HeldGroupListed
    PROVE  /\ wpc \in {"init", "skip", "leaves", "put", "posting"} => cur \in pool
           /\ \A t \in {"ioctl", "remove"} :
                 /\ OnTheWay(t) => tgt[t] \in pool
                 /\ pc[t] \in {"fini_lock", "fini", "put"} => dep[t] \in pool
<1> USE DEF UnbindInv
<1>1. \A g \in Group : /\ ByWork(g) \in {0, 1}
                       /\ \A t \in {"ioctl", "remove"} :
                             AsTarget(t, g) \in {0, 1} /\ AsNewest(t, g) \in {0, 1}
  BY DEF ByWork, AsTarget, AsNewest
<1>2. \A g \in Group :
        ByWork(g) = 1 \/ (\E t \in {"ioctl", "remove"} : AsTarget(t, g) = 1 \/ AsNewest(t, g) = 1)
           => g \in pool
  <2> TAKE g \in Group
  <2>1. hold[g] = ByWork(g) + ByThread("ioctl", g) + ByThread("remove", g)
    BY DEF HoldExact
  <2>2. ByWork(g) \in {0, 1} /\ \A t \in {"ioctl", "remove"} :
            /\ ByThread(t, g) \in Nat
            /\ AsTarget(t, g) = 1 \/ AsNewest(t, g) = 1 => ByThread(t, g) > 0
    BY <1>1 DEF ByThread
  <2>3. SUFFICES ASSUME \/ ByWork(g) = 1 \/ AsTarget("ioctl", g) = 1 \/ AsNewest("ioctl", g) = 1
                        \/ AsTarget("remove", g) = 1 \/ AsNewest("remove", g) = 1
                 PROVE  hold[g] > 0
    BY <2>3 DEF HeldGroupListed
  <2> HIDE DEF UnbindInv
  <2> QED
    BY <2>1, <2>2, <2>3
<1>3. wpc \in {"init", "skip", "leaves", "put", "posting"} => cur \in pool
  BY <1>2 DEF ByWork, Types
<1>4. ASSUME NEW t \in {"ioctl", "remove"}, OnTheWay(t) PROVE tgt[t] \in pool
  <2>1. tgt[t] \in Group
    BY <1>4 DEF OnTheWay, Types, Destroying
  <2> QED
    BY <1>2, <1>4, <2>1 DEF AsTarget
<1>5. ASSUME NEW t \in {"ioctl", "remove"}, pc[t] \in {"fini_lock", "fini", "put"}
      PROVE  dep[t] \in pool
  <2>1. dep[t] \in Group
    BY <1>5 DEF Types, Destroying
  <2> QED
    BY <1>2, <1>5, <2>1 DEF AsNewest
<1> QED
  BY <1>3, <1>4, <1>5

\* There are as many numbers as groups can come.
LEMMA Numbers ==
    ASSUME Types
    PROVE  /\ Cardinality(spawned) \in Nat /\ Cardinality(spawned) <= Cardinality(Spawners)
           /\ 1 + Cardinality(spawned) + got <= MaxGroups
           /\ \A g : g \notin spawned => Cardinality(spawned \cup {g}) = Cardinality(spawned) + 1
           /\ MainGroup \in Group
<1>0. MaxGroups \in Nat /\ Spawners \subseteq Group
  BY GroupsAssumption
<1>1. IsFiniteSet(Group)
  BY <1>0, FS_Interval DEF Group
<1>4. IsFiniteSet(Spawners)
  BY <1>0, <1>1, FS_Subset
<1>2. IsFiniteSet(spawned) /\ Cardinality(spawned) <= Cardinality(Spawners)
      /\ Cardinality(spawned) \in Nat /\ Cardinality(Spawners) \in Nat
  BY <1>4, FS_Subset, FS_CardinalityType DEF Types
<1>3. \A g : g \notin spawned => Cardinality(spawned \cup {g}) = Cardinality(spawned) + 1
  BY <1>2, FS_AddElement
<1> QED
  BY <1>0, <1>2, <1>3, GroupsAssumption DEF Types, Group, MainGroup

\* A group that is added has a number.
LEMMA NumberFree ==
    ASSUME UnbindInv, NEW t \in {"probe", "leaf", "ioctl"}, pc[t] = "add"
    PROVE  made \in Group /\ made \notin pool
<1>1. made + 1 <= 1 + Cardinality(spawned) + got
  BY Numbers DEF UnbindInv, Types, NumbersLeft, MakingOf, Redoing
<1>2. made \in Nat /\ MaxGroups \in Nat /\ made + 1 <= MaxGroups
  <2>1. 1 + Cardinality(spawned) + got <= MaxGroups /\ Cardinality(spawned) \in Nat
    BY Numbers DEF UnbindInv
  <2>2. made \in Nat /\ MaxGroups \in Nat /\ got \in Nat
    BY GroupsAssumption DEF UnbindInv, Types
  <2> QED
    BY <1>1, <2>1, <2>2
<1>3. \A g \in pool : g < made
  BY DEF UnbindInv, Types
<1> QED
  BY <1>2, <1>3 DEF Group

-----------------------------------------------------------------------------
(* The steps.                                                               *)

\* The oldest group that is newer than the one the work was at is listed.
LEMMA NextListed ==
    ASSUME Types, Newer # {}
    PROVE  Min(Newer) \in pool /\ \A g \in Newer : Min(Newer) <= g
<1>0. Group \in SUBSET Nat
  BY GroupsAssumption DEF Group
<1>1. Newer \subseteq pool /\ Newer \in SUBSET Nat
  BY <1>0 DEF Newer, Types
<1> QED
  BY <1>1, MinMember

\* The newest group is listed, when there is one.
LEMMA NewestListed ==
    ASSUME Types, pool # {}
    PROVE  Max(pool) \in pool /\ \A g \in pool : g <= Max(pool)
  BY MaxGroup DEF Types

\* What the bringup work does keeps the types.
LEMMA WorkTypes ==
    ASSUME UnbindInv, HeldGroupListed, Work
    PROVE  Types'
<1> USE DEF groups, inside, counts, work, aims, region, WGo
<1>0. Types /\ Places
  BY DEF UnbindInv
<1>1. CASE WorkStart \/ WorkEnd
  BY <1>0, <1>1 DEF Types, WorkStart, WorkEnd
<1>6. CASE WorkInit
  BY <1>0, <1>6 DEF Types, WorkInit
<1>7. CASE WorkNoMemory
  BY <1>0, <1>7 DEF Types, WorkNoMemory
<1>8. CASE WorkDec \/ WorkComplete
  BY <1>0, <1>8 DEF Types, WorkDec, WorkComplete
<1>2. CASE WorkNext
  <2>1. Min(Newer) \in Group
    BY <1>0, <1>2, NextListed DEF WorkNext, Types
  <2> QED
    BY <1>0, <1>2, <2>1 DEF Types, WorkNext, Hold
<1>3. CASE WorkSkip \/ WorkPut \/ WorkPosted
  BY <1>0, <1>3 DEF Types, WorkSkip, WorkPut, WorkPosted, Put
<1>4. CASE WorkPost
  BY <1>0, <1>4 DEF Types, WorkPost, Hold
<1>5. CASE WorkLeaves
  <2>1. /\ created' = [created EXCEPT ![cur] = TRUE]
        /\ leaves' = [leaves EXCEPT ![cur] = IF @ = "none" THEN "up" ELSE @]
        /\ online' = (online \/ (cur = MainGroup /\ leaves[cur] = "none"))
        /\ wpc = "leaves" /\ wpc' = "put"
        /\ UNCHANGED <<made, pool, closing, hold, comp, queued, cur, pc, tgt, dep, mine,
                      got, redo, spawned>>
    BY <1>5 DEF WorkLeaves
  <2>2. created' \in [Group -> BOOLEAN]
    BY <1>0, <2>1 DEF Types
  <2>3. leaves' \in [Group -> {"none", "up", "gone"}]
    BY <1>0, <2>1 DEF Types
  <2> QED
    BY <1>0, <2>1, <2>2, <2>3 DEF Types
<1> QED
  BY <1>1, <1>2, <1>3, <1>4, <1>5, <1>6, <1>7, <1>8 DEF Work

\* A group that leaves the pool keeps the types.
LEMMA LeaveTypes ==
    ASSUME Types, NEW g, Leave(g)
    PROVE  /\ pool' \subseteq {h \in Group : h < made'} /\ pool' = pool \ {g}
           /\ created' \in [Group -> BOOLEAN] /\ leaves' \in [Group -> {"none", "up", "gone"}]
           /\ UNCHANGED <<made, closing, hold, counts, work, aims, region, spawned, online>>
  BY DEF Types, Leave, counts, work, aims, region

\* Those who destroy keep the types.
LEMMA DestroyTypes ==
    ASSUME UnbindInv, HeldGroupListed, NEW t \in {"ioctl", "remove"}, Destroy(t)
    PROVE  Types'
<1> USE DEF groups, inside, counts, work, aims, region, Go, Destroying, Creating
<1>0. Types /\ Places /\ t \in Thread
  BY DEF UnbindInv, Thread
<1>1. ASSUME NEW from \in Destroying, NEW to \in Destroying \cup {"flush", "inc", "idle"},
             pc[t] = from, pc' = [pc EXCEPT ![t] = to],
             tgt' = tgt, dep' \in [Thread -> Group \cup {NoGroup}],
             \A u \in Thread : u # t => dep'[u] = dep[u],
             to \in Destroying \ {"get"} => tgt[t] \in Group,
             to \in Destroying \ {"get", "walk"} => dep'[t] \in Group,
             pool' \subseteq {g \in Group : g < made'}, hold' \in [Group -> Int],
             created' \in [Group -> BOOLEAN], leaves' \in [Group -> {"none", "up", "gone"}],
             online' \in BOOLEAN,
             UNCHANGED <<made, closing, counts, work, mine, got, redo, spawned>>
      PROVE  Types'
  <2>1. pc' \in [Thread -> Creating \cup Destroying \cup
                         {"idle", "wait", "judge", "done", "first", "flush", "pool_fini"}]
    BY <1>0, <1>1 DEF Types
  <2>2. ASSUME NEW u \in {"ioctl", "remove"}
        PROVE  /\ pc'[u] \in Destroying \ {"get"} => tgt'[u] \in Group
               /\ pc'[u] \in Destroying \ {"get", "walk"} => dep'[u] \in Group
    BY <1>0, <1>1 DEF Types, Thread
  <2> QED
    BY <1>0, <1>1, <2>1, <2>2 DEF Types
<1>2. AfterDestroy(t) \in {"flush", "inc", "idle"} /\ SingleEnd(t) \in {"flush", "inc", "idle", "walk"}
  BY DEF AfterDestroy, SingleEnd
<1>3. hold \in [Group -> Int] /\ \A g : Hold(g) \/ Put(g) => hold' \in [Group -> Int]
  BY <1>0 DEF Types, Hold, Put
<1>4. pc[t] \in Destroying \ {"get"} => tgt[t] \in Group
  BY <1>0 DEF Types
<1>5. pc[t] \in Destroying \ {"get", "walk"} => dep[t] \in Group
  BY <1>0 DEF Types
<1>6. /\ pool \subseteq {g \in Group : g < made} /\ created \in [Group -> BOOLEAN]
      /\ leaves \in [Group -> {"none", "up", "gone"}] /\ online \in BOOLEAN
      /\ dep \in [Thread -> Group \cup {NoGroup}]
  BY <1>0 DEF Types
<1>7. CASE DestroyGet(t)
  BY <1>1, <1>2, <1>3, <1>6, <1>7 DEF DestroyGet
<1>8. CASE DestroyWalk(t)
  <2>1. tgt[t] \in pool
    BY <1>8, AtHand DEF DestroyWalk, OnTheWay
  <2>2. Max(pool) \in Group
    BY <1>0, <2>1, <1>6, NewestListed
  <2> QED
    BY <1>0, <1>1, <1>3, <1>4, <1>6, <1>8, <2>2 DEF DestroyWalk
<1>9. CASE DestroyRelease(t) \/ SinglePut(t)
  BY <1>1, <1>3, <1>4, <1>5, <1>6, <1>9 DEF DestroyRelease, SinglePut
<1>10. CASE SingleGet(t)
  <2>1. CASE Go(t, "single", "fini_lock")
    BY <1>1, <1>3, <1>4, <1>5, <1>6, <1>10, <2>1 DEF SingleGet
  <2>2. CASE Go(t, "single", SingleEnd(t))
    BY <1>1, <1>2, <1>3, <1>4, <1>6, <1>10, <2>2 DEF SingleGet
  <2> QED
    BY <1>10, <2>1, <2>2 DEF SingleGet
<1>11. CASE FiniLock(t)
  <2>1. PICK to \in {"put", "fini"} : pc' = [pc EXCEPT ![t] = to]
    BY <1>11 DEF FiniLock
  <2> QED
    BY <1>1, <1>4, <1>5, <1>6, <1>3, <1>11, <2>1 DEF FiniLock
<1>15. CASE FiniNode(t)
  BY <1>1, <1>3, <1>4, <1>5, <1>6, <1>15 DEF FiniNode
<1>12. CASE FiniLeaves(t)
  <2>1. created' \in [Group -> BOOLEAN] /\ leaves' \in [Group -> {"none", "up", "gone"}]
    BY <1>6, <1>12 DEF FiniLeaves
  <2> QED
    BY <1>1, <1>3, <1>4, <1>5, <1>6, <1>12, <2>1 DEF FiniLeaves
<1>13. CASE SingleDel(t)
  <2>1. /\ Leave(dep[t]) /\ pc[t] \in {"del", "drain"}
        /\ pc' = [pc EXCEPT ![t] = SingleEnd(t)]
    BY <1>13 DEF SingleDel
  <2> QED
    BY <1>0, <1>1, <1>2, <1>3, <1>4, <1>5, <1>6, <2>1, LeaveTypes
<1>14. CASE SingleDelNothing(t)
  BY <1>1, <1>2, <1>3, <1>4, <1>5, <1>6, <1>14 DEF SingleDelNothing
<1>16. CASE SingleAwait(t) \/ SingleFreed(t)
  BY <1>1, <1>3, <1>4, <1>5, <1>6, <1>16 DEF SingleAwait, SingleFreed
<1> QED
  BY <1>7, <1>8, <1>9, <1>10, <1>11, <1>12, <1>13, <1>14, <1>15, <1>16
  DEF Destroy

\* What the other steps of the callers are.
Calls ==
    \/ LeafCreates
    \/ \E t \in {"probe", "ioctl", "leaf"} : Create(t)
    \/ \E t \in {"probe", "ioctl"} : Wait(t)
    \/ Download \/ GiveUp \/ KeepGroup

\* Who creates groups, waits for them or downloads keeps the types.
LEMMA CallTypes ==
    ASSUME UnbindInv, Calls
    PROVE  Types'
<1> USE DEF groups, inside, counts, work, aims, region, Go, Destroying, Creating
<1>0. Types /\ Places
  BY DEF UnbindInv
<1>1. CASE LeafCreates
  <2>1. cur \in Spawners /\ spawned' = spawned \cup {cur}
    BY <1>1 DEF LeafCreates
  <2> QED
    BY <1>0, <1>1, <2>1 DEF Types, LeafCreates, Thread
<1>2. ASSUME NEW t \in {"probe", "ioctl", "leaf"}, Create(t)
      PROVE  Types'
  <2>1. AfterCreate(t, TRUE) \in {"wait", "idle"} /\ AfterCreate(t, FALSE) \in {"wait", "idle"}
    BY DEF AfterCreate
  <2>2. t \in Thread
    BY DEF Thread
  <2>3. CASE CreateInc(t)
    BY <1>0, <2>2, <2>3 DEF Types, CreateInc
  <2>4. CASE CreateAdd(t)
    <3>1. made \in Group /\ made + 1 \in Nat
      BY <1>0, <2>4, NumberFree DEF CreateAdd, Types
    <3>2. pool' \subseteq {g \in Group : g < made'}
      <4>1. MaxGroups \in Nat
        BY GroupsAssumption
      <4> QED
        BY <1>0, <2>4, <3>1, <4>1 DEF Types, CreateAdd, Group
    <3> QED
      BY <1>0, <2>2, <2>4, <3>1, <3>2 DEF Types, CreateAdd
  <2>5. CASE CreateRefused(t)
    BY <1>0, <2>2, <2>5 DEF Types, CreateRefused
  <2>6. CASE CreateUndo(t)
    <3>1. PICK to \in {"wait", "idle"} : pc' = [pc EXCEPT ![t] = to]
      BY <2>1, <2>6 DEF CreateUndo
    <3>2. queued' \in BOOLEAN /\ UNCHANGED <<groups, hold, inside, comp, wpc, cur, aims, region, spawned, online>>
      BY <1>0, <2>6 DEF Types, CreateUndo
    <3> QED
      BY <1>0, <2>2, <3>1, <3>2 DEF Types
  <2>7. CASE CreateSchedule(t)
    <3>1. PICK to \in {"wait", "idle"} : pc' = [pc EXCEPT ![t] = to]
      BY <2>1, <2>7 DEF CreateSchedule
    <3>2. queued' \in BOOLEAN /\ UNCHANGED <<groups, hold, inside, comp, wpc, cur, aims, region, spawned, online>>
      BY <1>0, <2>7 DEF Types, CreateSchedule
    <3> QED
      BY <1>0, <2>2, <3>1, <3>2 DEF Types
  <2> QED
    BY <1>2, <2>3, <2>4, <2>5, <2>6, <2>7 DEF Create
<1>3. ASSUME NEW t \in {"probe", "ioctl"}, Wait(t)
      PROVE  Types'
  BY <1>0, <1>3 DEF Types, Wait, Thread
<1>4. CASE Download
  <2>1. got' \in 0 .. Downloads
    BY <1>0, <1>4, GroupsAssumption DEF Types, Download
  <2> QED
    BY <1>0, <1>4, <2>1 DEF Types, Download, Thread
<1>5. CASE GiveUp
  BY <1>0, <1>5 DEF Types, GiveUp, Thread
<1>6. CASE KeepGroup
  BY <1>0, <1>6 DEF Types, KeepGroup, Thread
<1> QED
  BY <1>1, <1>2, <1>3, <1>4, <1>5, <1>6 DEF Calls

\* The unbinding keeps the types.
LEMMA RemoveTypes ==
    ASSUME UnbindInv, RemoveStart \/ Remove
    PROVE  Types'
<1> USE DEF groups, inside, counts, work, aims, region, Go, Destroying, Creating
<1>0. Types /\ Places
  BY DEF UnbindInv
<1>1. CASE RemoveStart
  BY <1>0, <1>1 DEF Types, RemoveStart, Thread
<1>2. CASE RemoveFirst
  <2>1. pool # {} => Min(pool) \in Group
    <3>1. Group \in SUBSET Nat
      BY GroupsAssumption DEF Group
    <3> QED
      BY <1>0, <3>1, MinMember DEF Types
  <2> QED
    BY <1>0, <1>2, <2>1 DEF Types, RemoveFirst, Thread
<1>3. CASE RemoveFlush
  BY <1>0, <1>3 DEF Types, RemoveFlush, Thread
<1>4. CASE RemoveLeft
  BY <1>0, <1>4, LeaveTypes DEF Types, RemoveLeft, Thread
<1>5. CASE RemoveEnd
  BY <1>0, <1>5 DEF Types, RemoveEnd, Thread
<1> QED
  BY <1>1, <1>2, <1>3, <1>4, <1>5 DEF Remove

\* Everybody stays in his place.
LEMMA PlacesStep ==
    ASSUME UnbindInv, Next
    PROVE  Places'
<1> USE DEF groups, inside, counts, work, aims, region, Go, WGo, Destroying, Creating, Thread
<1>0. Places /\ pc = [t \in Thread |-> pc[t]] /\ ("ioctl" # "remove")
  BY DEF UnbindInv, Types
<1>1. CASE Work
  <2>1. pc' = pc /\ (wpc' = wpc \/ pc["leaf"] = "idle" \/ wpc \notin {"leaves", "posting"})
    BY <1>1 DEF Work, WorkStart, WorkNext, WorkEnd, WorkInit, WorkNoMemory, WorkSkip,
                WorkLeaves, WorkPut, WorkPost, WorkPosted, WorkDec, WorkComplete
  <2> QED
    BY <1>0, <2>1 DEF Places
<1>2. CASE LeafCreates
  BY <1>0, <1>2 DEF Places, LeafCreates
<1>3. ASSUME NEW t \in {"probe", "ioctl", "leaf"}, Create(t) PROVE Places'
  <2>1. /\ wpc' = wpc /\ pc[t] \in Creating
        /\ \E to \in Creating \cup {AfterCreate(t, TRUE), AfterCreate(t, FALSE)} :
               pc' = [pc EXCEPT ![t] = to]
    BY <1>3 DEF Create, CreateInc, CreateAdd, CreateRefused, CreateUndo, CreateSchedule
  <2>2. CASE t = "probe"
    BY <1>0, <2>1, <2>2 DEF Places, AfterCreate
  <2>3. CASE t = "ioctl"
    BY <1>0, <2>1, <2>3 DEF Places, AfterCreate
  <2>4. CASE t = "leaf"
    BY <1>0, <2>1, <2>4 DEF Places, AfterCreate
  <2> QED
    BY <2>2, <2>3, <2>4
<1>4. ASSUME NEW t \in {"probe", "ioctl"}, Wait(t) PROVE Places'
  BY <1>0, <1>4 DEF Places, Wait
<1>5. ASSUME NEW t \in {"ioctl", "remove"}, Destroy(t) PROVE Places'
  <2>1. /\ wpc' = wpc /\ pc[t] \in Destroying
        /\ \E to \in Destroying \cup {AfterDestroy(t)} : pc' = [pc EXCEPT ![t] = to]
    <3>1. SingleEnd(t) \in Destroying \cup {AfterDestroy(t)}
      BY DEF SingleEnd
    <3> QED
      BY <1>5, <3>1 DEF Destroy, DestroyGet, DestroyWalk, DestroyRelease, SingleGet, FiniLock,
         FiniNode, FiniLeaves, SinglePut, SingleAwait, SingleDel, SingleDelNothing, SingleFreed, Leave
  <2>2. CASE t = "ioctl"
    BY <1>0, <2>1, <2>2 DEF Places, AfterDestroy
  <2>3. CASE t = "remove"
    BY <1>0, <2>1, <2>3 DEF Places, AfterDestroy
  <2> QED
    BY <2>2, <2>3
<1>6. CASE Download \/ GiveUp \/ KeepGroup
  BY <1>0, <1>6 DEF Places, Download, GiveUp, KeepGroup
<1>7. CASE RemoveStart \/ Remove
  BY <1>0, <1>7 DEF Places, RemoveStart, Remove, RemoveFirst, RemoveFlush, RemoveLeft, RemoveEnd, Leave
<1> QED
  BY <1>1, <1>2, <1>3, <1>4, <1>5, <1>6, <1>7 DEF Next

\* Who creates a group took a number for it.
LEMMA NumbersStep ==
    ASSUME UnbindInv, Next, Types'
    PROVE  NumbersLeft'
<1> USE DEF groups, inside, counts, work, aims, region, Go, Destroying, Creating, Thread
<1>0. /\ Places /\ pc = [t \in Thread |-> pc[t]] /\ made \in Nat /\ got \in Nat
      /\ Cardinality(spawned) \in Nat
  BY Numbers DEF UnbindInv, Types
<1>9. made + MakingOf("probe") + MakingOf("leaf") + MakingOf("ioctl") + Redoing
        <= 1 + Cardinality(spawned) + got
  BY DEF UnbindInv, NumbersLeft
<1>1. CASE Work
  <2>1. UNCHANGED <<made, pc, redo, spawned, got>>
    BY <1>1 DEF Work, WorkStart, WorkNext, WorkEnd, WorkInit, WorkNoMemory, WorkSkip,
                WorkLeaves, WorkPut, WorkPost, WorkPosted, WorkDec, WorkComplete
  <2> QED
    BY <1>9, <2>1 DEF NumbersLeft, MakingOf, Redoing
<1>2. CASE LeafCreates
  <2>1. Cardinality(spawned') = Cardinality(spawned) + 1
    BY <1>2, Numbers DEF UnbindInv, LeafCreates
  <2> QED
    BY <1>0, <1>9, <1>2, <2>1 DEF LeafCreates, NumbersLeft, MakingOf, Redoing
<1>3. ASSUME NEW t \in {"probe", "ioctl", "leaf"}, Create(t) PROVE NumbersLeft'
  <2>1. /\ UNCHANGED <<redo, spawned, got>>
        /\ pc' = [pc EXCEPT ![t] = pc'[t]] /\ pc[t] \in Creating
        /\ pc'[t] \notin Destroying
        /\ made' + MakingOf(t)' <= made + MakingOf(t)
        /\ MakingOf(t) \in Nat /\ MakingOf(t)' \in Nat /\ made' \in Nat
    <3>1. AfterCreate(t, TRUE) \in {"wait", "idle"} /\ AfterCreate(t, FALSE) \in {"wait", "idle"}
      BY DEF AfterCreate
    <3>2. UNCHANGED <<redo, spawned, got>>
      BY <1>3 DEF Create, CreateInc, CreateAdd, CreateRefused, CreateUndo, CreateSchedule
    <3>3. PICK to \in {"add", "undo", "sched", "wait", "idle"} :
            /\ pc' = [pc EXCEPT ![t] = to]
            /\ \/ pc[t] = "inc" /\ to = "add" /\ made' = made
               \/ pc[t] = "add" /\ to = "sched" /\ made' = made + 1
               \/ pc[t] \in {"add", "undo", "sched"} /\ to # "add" /\ made' = made
      BY <1>3, <3>1 DEF Create, CreateInc, CreateAdd, CreateRefused, CreateUndo, CreateSchedule
    <3>4. pc'[t] = to
      BY <1>0, <3>3
    <3>5. pc' = [pc EXCEPT ![t] = pc'[t]]
      BY <3>3, <3>4
    <3>6. /\ MakingOf(t) = IF pc[t] \in {"inc", "add"} THEN 1 ELSE 0
          /\ MakingOf(t)' = IF to \in {"inc", "add"} THEN 1 ELSE 0
      BY <3>4 DEF MakingOf
    <3>7. made' + MakingOf(t)' <= made + MakingOf(t) /\ made' \in Nat
      BY <1>0, <3>3, <3>6
    <3> QED
      BY <3>2, <3>3, <3>4, <3>5, <3>6, <3>7
  <2>2. CASE t = "probe"
    BY <1>0, <1>9, <2>1, <2>2 DEF NumbersLeft, MakingOf, Redoing
  <2>3. CASE t = "ioctl"
    BY <1>0, <1>9, <2>1, <2>3 DEF NumbersLeft, MakingOf, Redoing
  <2>4. CASE t = "leaf"
    BY <1>0, <1>9, <2>1, <2>4 DEF NumbersLeft, MakingOf, Redoing
  <2> QED
    BY <2>2, <2>3, <2>4
<1>4. ASSUME NEW t \in {"probe", "ioctl"}, Wait(t) PROVE NumbersLeft'
  BY <1>0, <1>9, <1>4 DEF Wait, NumbersLeft, MakingOf, Redoing
<1>5. ASSUME NEW t \in {"ioctl", "remove"}, Destroy(t) PROVE NumbersLeft'
  <2>1. /\ UNCHANGED <<made, redo, spawned, got>> /\ pc[t] \in Destroying
        /\ \E to \in Destroying \cup {AfterDestroy(t)} : pc' = [pc EXCEPT ![t] = to]
    <3>1. SingleEnd(t) \in Destroying \cup {AfterDestroy(t)}
      BY DEF SingleEnd
    <3> QED
      BY <1>5, <3>1 DEF Destroy, DestroyGet, DestroyWalk, DestroyRelease, SingleGet, FiniLock,
         FiniNode, FiniLeaves, SinglePut, SingleAwait, SingleDel, SingleDelNothing, SingleFreed, Leave
  <2>2. CASE t = "ioctl"
    BY <1>0, <1>9, <2>1, <2>2 DEF NumbersLeft, MakingOf, Redoing, AfterDestroy
  <2>3. CASE t = "remove"
    BY <1>0, <1>9, <2>1, <2>3 DEF NumbersLeft, MakingOf, Redoing
  <2> QED
    BY <2>2, <2>3
<1>6. CASE Download
  BY <1>0, <1>9, <1>6 DEF NumbersLeft, MakingOf, Redoing, Download
<1>7. CASE GiveUp \/ KeepGroup
  BY <1>0, <1>9, <1>7 DEF NumbersLeft, MakingOf, Redoing, GiveUp, KeepGroup
<1>8. CASE RemoveStart \/ Remove
  <2>1. UNCHANGED <<made, redo, spawned, got>> /\ \A t \in Thread \ {"remove"} : pc'[t] = pc[t]
    BY <1>0, <1>8 DEF RemoveStart, Remove, RemoveFirst, RemoveFlush, RemoveLeft, RemoveEnd, Leave
  <2> QED
    BY <1>0, <1>9, <2>1 DEF NumbersLeft, MakingOf, Redoing
<1> QED
  BY <1>1, <1>2, <1>3, <1>4, <1>5, <1>6, <1>7, <1>8 DEF Next

\* A group is released when it is the newest, which is the target.
LEMMA ReleaseStep ==
    ASSUME UnbindInv, Next
    PROVE  ReleaseAtTarget'
<1> USE DEF groups, inside, counts, work, aims, region, Go, Thread
<1>0. /\ ReleaseAtTarget /\ pc = [t \in Thread |-> pc[t]]
      /\ tgt = [t \in Thread |-> tgt[t]] /\ dep = [t \in Thread |-> dep[t]]
  BY DEF UnbindInv, Types
<1>1. CASE Work
  <2>1. UNCHANGED <<pc, tgt, dep>>
    BY <1>1 DEF Work, WorkStart, WorkNext, WorkEnd, WorkInit, WorkNoMemory, WorkSkip,
                WorkLeaves, WorkPut, WorkPost, WorkPosted, WorkDec, WorkComplete
  <2> QED
    BY <1>0, <2>1 DEF ReleaseAtTarget
<1>2. ASSUME NEW t \in {"probe", "ioctl", "leaf"}, Create(t) PROVE ReleaseAtTarget'
  <2>1. /\ UNCHANGED <<tgt, dep>>
        /\ \E to \in {"add", "undo", "sched", "wait", "idle"} : pc' = [pc EXCEPT ![t] = to]
    <3>1. AfterCreate(t, TRUE) \in {"wait", "idle"} /\ AfterCreate(t, FALSE) \in {"wait", "idle"}
      BY DEF AfterCreate
    <3> QED
      BY <1>2, <3>1 DEF Create, CreateInc, CreateAdd, CreateRefused, CreateUndo, CreateSchedule
  <2> QED
    BY <1>0, <2>1 DEF ReleaseAtTarget
<1>3. ASSUME NEW t \in {"probe", "ioctl"}, Wait(t) PROVE ReleaseAtTarget'
  BY <1>0, <1>3 DEF Wait, ReleaseAtTarget
<1>4. ASSUME NEW t \in {"ioctl", "remove"}, Destroy(t) PROVE ReleaseAtTarget'
  <2>1. AfterDestroy(t) \in {"flush", "inc", "idle"}
        /\ SingleEnd(t) \in {"flush", "inc", "idle", "walk"}
    BY DEF AfterDestroy, SingleEnd
  <2>2. CASE DestroyWalk(t)
    BY <1>0, <2>2 DEF DestroyWalk, ReleaseAtTarget
  <2>3. CASE ~DestroyWalk(t)
    <3>1. /\ UNCHANGED <<tgt, dep>>
          /\ \E to \in {"walk", "single", "fini_lock", "fini", "put", "del", "drain", "oops",
                            "flush", "inc", "idle"} :
                 pc' = [pc EXCEPT ![t] = to]
      BY <1>4, <2>1, <2>3 DEF Destroy, DestroyGet, DestroyRelease, SingleGet, FiniLock,
         FiniNode, FiniLeaves, SinglePut, SingleAwait, SingleDel, SingleDelNothing, SingleFreed, Leave
    <3> QED
      BY <1>0, <3>1 DEF ReleaseAtTarget
  <2> QED
    BY <2>2, <2>3
<1>5. CASE LeafCreates \/ Download \/ GiveUp \/ KeepGroup
  BY <1>0, <1>5 DEF ReleaseAtTarget, LeafCreates, Download, GiveUp, KeepGroup
<1>6. CASE RemoveStart \/ Remove
  BY <1>0, <1>6 DEF ReleaseAtTarget, RemoveStart, Remove, RemoveFirst, RemoveFlush, RemoveLeft,
                    RemoveEnd, Leave
<1> QED
  BY <1>1, <1>2, <1>3, <1>4, <1>5, <1>6 DEF Next

\* The work holds the group it is at.
LEMMA HoldWork ==
    ASSUME UnbindInv, Work
    PROVE  HoldExact'
<1> USE DEF groups, inside, counts, work, aims, region, WGo
<1>1. \A g \in Group : /\ hold[g] = ByWork(g) + ByThread("ioctl", g) + ByThread("remove", g)
                       /\ ByThread("ioctl", g) \in Int /\ ByThread("remove", g) \in Int
                       /\ ByWork(g) \in {0, 1}
  BY DEF UnbindInv, HoldExact, ByThread, ByWork, AsTarget, AsNewest
<1>2. UNCHANGED <<pc, tgt, dep>>
  BY DEF Work, WorkStart, WorkNext, WorkEnd, WorkInit, WorkNoMemory, WorkSkip,
         WorkLeaves, WorkPut, WorkPost, WorkPosted, WorkDec, WorkComplete
<1>3. \A g \in Group : /\ ByThread("ioctl", g)' = ByThread("ioctl", g)
                       /\ ByThread("remove", g)' = ByThread("remove", g)
  BY <1>2 DEF ByThread, AsTarget, AsNewest, OnTheWay
<1>4. hold \in [Group -> Int] /\ (wpc \in {"init", "skip", "leaves", "put", "posting"} => cur \in Group)
  BY DEF UnbindInv, Types
<1>5. SUFFICES ASSUME NEW g \in Group PROVE hold'[g] - ByWork(g)' = hold[g] - ByWork(g)
  <2>1. \A g \in Group : ByWork(g)' \in {0, 1} /\ hold'[g] \in Int
    <3>1. hold' \in [Group -> Int]
      BY <1>4 DEF Work, WorkStart, WorkNext, WorkEnd, WorkInit, WorkNoMemory, WorkSkip,
         WorkLeaves, WorkPut, WorkPost, WorkPosted, WorkDec, WorkComplete, Hold, Put
    <3> QED
      BY <3>1 DEF ByWork
  <2>2. \A g \in Group : hold'[g] = ByWork(g)' + ByThread("ioctl", g)' + ByThread("remove", g)'
    BY <1>1, <1>3, <1>4, <1>5, <2>1
  <2> QED
    BY <2>2 DEF HoldExact
<1>6. CASE WorkStart \/ WorkEnd \/ WorkDec \/ WorkComplete
  BY <1>4, <1>6 DEF WorkStart, WorkEnd, WorkDec, WorkComplete, ByWork
<1>7. CASE WorkInit \/ WorkNoMemory \/ WorkLeaves
  BY <1>4, <1>7 DEF WorkInit, WorkNoMemory, WorkLeaves, ByWork
<1>8. CASE WorkNext
  BY <1>4, <1>8 DEF WorkNext, Hold, ByWork
<1>9. CASE WorkSkip \/ WorkPut \/ WorkPosted
  BY <1>4, <1>9 DEF WorkSkip, WorkPut, WorkPosted, Put, ByWork
<1>10. CASE WorkPost
  BY <1>4, <1>10 DEF WorkPost, Hold, ByWork
<1> QED
  BY <1>6, <1>7, <1>8, <1>9, <1>10 DEF Work

\* Who destroys groups holds the target until it is the newest, and the one he
\* is destroying while its leaves go.
LEMMA HoldDestroy ==
    ASSUME UnbindInv, HeldGroupListed, NEW t \in {"ioctl", "remove"}, Destroy(t)
    PROVE  HoldExact'
<1> USE DEF groups, inside, counts, work, aims, region, Go
<1>1. /\ t \in Thread /\ hold \in [Group -> Int]
      /\ pc = [u \in Thread |-> pc[u]] /\ dep = [u \in Thread |-> dep[u]]
      /\ (pc[t] \in Destroying \ {"get"} => tgt[t] \in Group)
      /\ (pc[t] \in Destroying \ {"get", "walk"} => dep[t] \in Group)
      /\ ("ioctl" \in Thread /\ "remove" \in Thread)
  BY DEF UnbindInv, Types, Thread
<1>2. /\ UNCHANGED <<cur, wpc, tgt>>
      /\ \A u \in Thread \ {t} : pc'[u] = pc[u] /\ dep'[u] = dep[u]
  BY <1>1 DEF Destroy, DestroyGet, DestroyWalk, DestroyRelease, SingleGet, FiniLock,
         FiniNode, FiniLeaves, SinglePut, SingleAwait, SingleDel, SingleDelNothing, SingleFreed, Leave
<1>3. SUFFICES ASSUME NEW g \in Group
               PROVE  /\ hold'[g] - ByThread(t, g)' = hold[g] - ByThread(t, g)
                      /\ hold'[g] \in Int
  <2>1. ASSUME NEW g \in Group
        PROVE  hold'[g] = ByWork(g)' + ByThread("ioctl", g)' + ByThread("remove", g)'
    <3>1. hold[g] = ByWork(g) + ByThread("ioctl", g) + ByThread("remove", g) /\ hold[g] \in Int
      BY <1>1 DEF UnbindInv, HoldExact
    <3>2. ByWork(g)' = ByWork(g) /\ ByWork(g) \in Int
      BY <1>2 DEF ByWork
    <3>3. \A u \in {"ioctl", "remove"} \ {t} : ByThread(u, g)' = ByThread(u, g)
      BY <1>1, <1>2 DEF ByThread, AsTarget, AsNewest, OnTheWay
    <3>4. \A u \in {"ioctl", "remove"} : ByThread(u, g) \in Int /\ ByThread(u, g)' \in Int
      BY DEF ByThread, AsTarget, AsNewest
    <3>5. hold'[g] - ByThread(t, g)' = hold[g] - ByThread(t, g) /\ hold'[g] \in Int
      BY <1>3
    <3> QED
      BY <3>1, <3>2, <3>3, <3>4, <3>5
  <2> QED
    BY <2>1 DEF HoldExact
<1>4. AfterDestroy(t) \in {"flush", "inc", "idle"}
  BY DEF AfterDestroy
<1>5. CASE DestroyGet(t)
  BY <1>1, <1>4, <1>5 DEF DestroyGet, Hold, ByThread, AsTarget, AsNewest, OnTheWay, UnbindInv, Types
<1>6. CASE DestroyWalk(t)
  BY <1>1, <1>6 DEF DestroyWalk, ByThread, AsTarget, AsNewest, OnTheWay
<1>7. CASE DestroyRelease(t)
  BY <1>1, <1>7 DEF DestroyRelease, Put, ByThread, AsTarget, AsNewest, OnTheWay, UnbindInv, ReleaseAtTarget,
                    Destroying
<1>8. CASE SingleGet(t)
  <2>1. CASE dep[t] \in pool
    <3>1. AsTarget(t, g)' = AsTarget(t, g)
      BY <1>1, <1>2, <1>8, <2>1 DEF SingleGet, AsTarget, OnTheWay
    <3>2. AsTarget(t, g) \in Int
      BY DEF AsTarget
    <3>3. hold' = [hold EXCEPT ![dep[t]] = @ + 1] /\ dep[t] \in Group
      BY <1>1, <1>8, <2>1 DEF SingleGet, Hold, Destroying
    <3>4. AsNewest(t, g) = 0 /\ AsNewest(t, g)' = IF dep[t] = g THEN 1 ELSE 0
      BY <1>1, <1>8, <2>1 DEF SingleGet, AsNewest
    <3> QED
      BY <1>1, <3>1, <3>2, <3>3, <3>4 DEF ByThread
  <2>2. CASE dep[t] \notin pool
    BY <1>1, <1>4, <1>8, <2>2 DEF SingleGet, SingleEnd, ByThread, AsTarget, AsNewest, OnTheWay
  <2> QED
    BY <1>8, <2>1, <2>2 DEF SingleGet
<1>9. CASE FiniLock(t)
  BY <1>1, <1>9 DEF FiniLock, ByThread, AsTarget, AsNewest, OnTheWay
<1>10. CASE FiniNode(t) \/ FiniLeaves(t)
  BY <1>1, <1>10 DEF FiniNode, FiniLeaves, ByThread, AsTarget, AsNewest, OnTheWay
<1>11. CASE SinglePut(t)
  BY <1>1, <1>11 DEF SinglePut, Put, ByThread, AsTarget, AsNewest, OnTheWay, Destroying
<1>12. CASE SingleAwait(t) \/ SingleDel(t) \/ SingleDelNothing(t) \/ SingleFreed(t)
  <2>1. /\ \E from \in {"del", "drain"}, to \in {"drain", "oops", SingleEnd(t)} : Go(t, from, to)
        /\ UNCHANGED <<hold, dep>>
    BY <1>12 DEF SingleAwait, SingleDel, SingleDelNothing, SingleFreed, Leave
  <2> QED
    BY <1>1, <1>2, <1>4, <2>1 DEF SingleEnd, ByThread, AsTarget, AsNewest, OnTheWay
<1> QED
  BY <1>5, <1>6, <1>7, <1>8, <1>9, <1>10, <1>11, <1>12 DEF Destroy

\* Nobody else holds a group.
LEMMA HoldOther ==
    ASSUME UnbindInv, Calls \/ RemoveStart \/ Remove
    PROVE  HoldExact'
<1> USE DEF groups, inside, counts, work, aims, region, Go, Thread
<1> DEFINE D == Destroying \ {"get"}
<1>0. /\ pc = [u \in Thread |-> pc[u]] /\ tgt = [u \in Thread |-> tgt[u]]
      /\ dep = [u \in Thread |-> dep[u]]
  BY DEF UnbindInv, Types
<1>1. UNCHANGED <<hold, cur, wpc>>
  BY DEF Calls, LeafCreates, Create, CreateInc, CreateAdd, CreateRefused, CreateUndo,
         CreateSchedule, Wait, Download, GiveUp, KeepGroup, RemoveStart, Remove, RemoveFirst,
         RemoveFlush, RemoveLeft, RemoveEnd, Leave
<1>2. ASSUME NEW t \in {"ioctl", "remove"}
      PROVE  \/ pc'[t] = pc[t] /\ tgt'[t] = tgt[t] /\ dep'[t] = dep[t]
             \/ pc[t] \notin D /\ pc'[t] \notin D
  <2>1. ASSUME NEW u \in {"probe", "ioctl", "leaf"}, Create(u)
        PROVE  \/ pc'[t] = pc[t] /\ tgt'[t] = tgt[t] /\ dep'[t] = dep[t]
               \/ pc[t] \notin D /\ pc'[t] \notin D
    <3>1. AfterCreate(u, TRUE) \in {"wait", "idle"} /\ AfterCreate(u, FALSE) \in {"wait", "idle"}
      BY DEF AfterCreate
    <3>2. /\ UNCHANGED <<tgt, dep>> /\ pc[u] \in Creating
          /\ \E to \in Creating \cup {"wait", "idle"} : pc' = [pc EXCEPT ![u] = to]
      BY <2>1, <3>1 DEF Create, CreateInc, CreateAdd, CreateRefused, CreateUndo, CreateSchedule,
                        Creating
    <3>3. CASE t = u
      BY <1>0, <3>2, <3>3 DEF Creating, Destroying
    <3>4. CASE t # u
      <4>1. pc'[t] = pc[t]
        BY <1>0, <3>2, <3>4
      <4> QED
        BY <3>2, <4>1
    <3> QED
      BY <3>3, <3>4
  <2>2. CASE LeafCreates \/ KeepGroup \/ \E u \in {"probe", "ioctl"} : Wait(u)
    BY <1>0, <2>2 DEF LeafCreates, KeepGroup, Wait, Destroying
  <2>3. CASE Download \/ GiveUp
    BY <1>0, <2>3 DEF Download, GiveUp, Destroying
  <2>4. CASE RemoveStart \/ Remove
    BY <1>0, <2>4 DEF RemoveStart, Remove, RemoveFirst, RemoveFlush, RemoveLeft, RemoveEnd,
                      Leave, Destroying
  <2> QED
    BY <2>1, <2>2, <2>3, <2>4 DEF Calls
<1>3. \A g \in Group : \A t \in {"ioctl", "remove"} : ByThread(t, g)' = ByThread(t, g)
  BY <1>2 DEF ByThread, AsTarget, AsNewest, OnTheWay, Destroying
<1>4. \A g \in Group : ByWork(g)' = ByWork(g)
  BY <1>1 DEF ByWork
<1> QED
  BY <1>1, <1>3, <1>4 DEF UnbindInv, HoldExact

-----------------------------------------------------------------------------
\* What leaves of a group may become.
LEMMA LeavesStep ==
    ASSUME UnbindInv, HeldGroupListed, Next
    PROVE  /\ LeavesListed'
           /\ leaves'[MainGroup] = "none" => leaves[MainGroup] = "none"
           /\ leaves[MainGroup] = "gone" => leaves'[MainGroup] = "gone"
<1> USE DEF groups, inside, counts, work, aims, region
<1>0. /\ LeavesListed /\ created \in [Group -> BOOLEAN] /\ MainGroup \in Group
      /\ leaves \in [Group -> {"none", "up", "gone"}] /\ pool \subseteq Group
  BY Numbers DEF UnbindInv, Types
<1> DEFINE Goal == /\ LeavesListed'
                   /\ leaves'[MainGroup] = "none" => leaves[MainGroup] = "none"
                   /\ leaves[MainGroup] = "gone" => leaves'[MainGroup] = "gone"
<1>1. ASSUME UNCHANGED <<created, leaves>>, pool \subseteq pool' PROVE Goal
  BY <1>0, <1>1 DEF LeavesListed
<1>2. ASSUME NEW g, Leave(g) PROVE Goal
  BY <1>0, <1>2 DEF Leave, LeavesListed
<1>3. CASE WorkLeaves
  <2>1. cur \in pool
    BY <1>3, AtHand DEF WorkLeaves, WGo
  <2> QED
    BY <1>0, <1>3, <2>1 DEF WorkLeaves, LeavesListed
<1>4. CASE Work /\ ~WorkLeaves
  <2>1. UNCHANGED <<created, leaves, pool>>
    BY <1>4 DEF Work, WorkStart, WorkNext, WorkEnd, WorkInit, WorkNoMemory, WorkSkip,
                WorkPut, WorkPost, WorkPosted, WorkDec, WorkComplete
  <2> QED
    BY <1>1, <2>1
<1>5. CASE Calls
  <2>1. UNCHANGED <<created, leaves>> /\ pool \subseteq pool'
    BY <1>5 DEF Calls, LeafCreates, Create, CreateInc, CreateAdd, CreateRefused, CreateUndo,
           CreateSchedule, Wait, Download, GiveUp, KeepGroup
  <2> QED
    BY <1>1, <2>1
<1>6. ASSUME NEW t \in {"ioctl", "remove"}, Destroy(t) PROVE Goal
  <2>1. CASE FiniLeaves(t)
    BY <1>0, <2>1 DEF FiniLeaves, LeavesListed
  <2>2. CASE SingleDel(t)
    BY <1>2, <2>2 DEF SingleDel
  <2>3. CASE Destroy(t) /\ ~FiniLeaves(t) /\ ~SingleDel(t)
    <3>1. UNCHANGED <<created, leaves, pool>>
      BY <2>3 DEF Destroy, DestroyGet, DestroyWalk, DestroyRelease, SingleGet, FiniLock,
                  FiniNode, SinglePut, SingleAwait, SingleDelNothing, SingleFreed
    <3> QED
      BY <1>1, <3>1
  <2> QED
    BY <1>6, <2>1, <2>2, <2>3
<1>7. CASE RemoveStart \/ RemoveFirst \/ RemoveFlush \/ RemoveEnd
  BY <1>1, <1>7 DEF RemoveStart, RemoveFirst, RemoveFlush, RemoveEnd
<1>8. CASE RemoveLeft
  BY <1>2, <1>8 DEF RemoveLeft
<1> QED
  BY <1>3, <1>4, <1>5, <1>6, <1>7, <1>8 DEF Next, Calls, Remove

\* Until the first group has its leaves, probe and the work are alone with it.
LEMMA FreshStep ==
    ASSUME MainSafe, UnbindInv, HeldGroupListed, Next
    PROVE  FirstFresh'
<1> USE DEF groups, inside, counts, work, aims, region, Go, WGo, Thread
<1>0. /\ Types /\ Places /\ MainGroup \in Group /\ pc = [u \in Thread |-> pc[u]]
      /\ leaves \in [Group -> {"none", "up", "gone"}]
  BY Numbers DEF UnbindInv, Types
<1>1. SUFFICES ASSUME leaves[MainGroup] = "none", leaves'[MainGroup] = "none"
               PROVE  FirstFresh'
  BY <1>1, LeavesStep DEF FirstFresh
<1>2. /\ ~created[MainGroup] /\ comp = 0 /\ ~online
      /\ pc["ioctl"] = "idle" /\ pc["remove"] = "idle" /\ pc["probe"] # "done"
      /\ wpc \in {"idle", "next", "init", "leaves"}
      /\ wpc = "next" => cur = NoGroup
      /\ wpc \in {"init", "leaves"} => cur = MainGroup
      /\ made = 0 => pc["probe"] # "sched" /\ wpc \in {"idle", "next"}
      /\ made > 0 => MainGroup \in pool /\ pc["probe"] \in {"sched", "wait"}
  BY <1>1 DEF UnbindInv, FirstFresh
<1>3. made \in Nat /\ pool \subseteq {g \in Group : g < made}
  BY <1>0 DEF Types
<1>4. CASE WorkStart \/ WorkEnd
  BY <1>2, <1>4 DEF FirstFresh, WorkStart, WorkEnd
<1>5. CASE WorkNext
  <2>1. Newer = pool
    BY <1>2, <1>5 DEF WorkNext, Newer
  <2>2. Min(Newer) \in pool /\ \A g \in pool : Min(Newer) <= g
    BY <1>0, <1>5, <2>1, NextListed DEF WorkNext
  <2>3. made > 0 /\ Min(Newer) = MainGroup
    <3>1. Min(Newer) \in Nat /\ Min(Newer) < made
      <4>1. Group \subseteq Nat
        BY GroupsAssumption DEF Group
      <4> QED
        BY <1>3, <2>2, <4>1
    <3>2. made > 0
      BY <1>3, <3>1
    <3> QED
      BY <1>2, <2>2, <3>1, <3>2 DEF MainGroup
  <2> QED
    BY <1>2, <1>3, <1>5, <2>3 DEF WorkNext, FirstFresh
<1>6. CASE WorkInit
  BY <1>2, <1>6 DEF WorkInit, FirstFresh
<1>7. CASE Work /\ ~WorkStart /\ ~WorkEnd /\ ~WorkNext /\ ~WorkInit
  <2>1. CASE WorkNoMemory
    BY <1>2, <2>1 DEF WorkNoMemory, MainSafe
  <2>2. CASE WorkLeaves
    BY <1>0, <1>1, <1>2, <2>2 DEF WorkLeaves
  <2>3. CASE ~WorkNoMemory /\ ~WorkLeaves
    BY <1>2, <1>7, <2>3 DEF Work, WorkSkip, WorkPut, WorkPost, WorkPosted, WorkDec, WorkComplete
  <2> QED
    BY <2>1, <2>2, <2>3
<1>8. CASE LeafCreates
  BY <1>0, <1>2, <1>8 DEF LeafCreates, FirstFresh
<1>9. ASSUME NEW t \in {"probe", "ioctl", "leaf"}, Create(t) PROVE FirstFresh'
  <2>1. /\ UNCHANGED <<created, leaves, comp, online, wpc, cur>>
        /\ pc[t] \in Creating
    BY <1>9 DEF Create, CreateInc, CreateAdd, CreateRefused, CreateUndo, CreateSchedule, Creating
  <2>2. CASE t = "probe"
    <3>1. CASE CreateAdd(t)
      <4>1. made = 0
        BY <1>2, <1>3, <2>2, <3>1 DEF CreateAdd
      <4>2. made' = 1 /\ pool' = pool \cup {0}
        BY <3>1, <4>1 DEF CreateAdd
      <4> QED
        BY <1>0, <1>2, <2>1, <2>2, <3>1, <4>2 DEF CreateAdd, FirstFresh, MainGroup
    <3>2. CASE CreateInc(t) \/ CreateRefused(t)
      BY <1>0, <1>2, <1>3, <2>1, <2>2, <3>2 DEF CreateInc, CreateRefused, FirstFresh
    <3>3. CASE CreateUndo(t) \/ CreateSchedule(t)
      BY <1>0, <1>2, <1>3, <2>1, <2>2, <3>3 DEF CreateUndo, CreateSchedule, AfterCreate, FirstFresh
    <3> QED
      BY <1>9, <3>1, <3>2, <3>3 DEF Create
  <2>3. CASE t = "leaf"
    <3>1. made > 0
      BY <1>0, <1>2, <1>3, <2>1, <2>3 DEF Places, Creating
    <3>2. made' >= made /\ made' \in Nat /\ pool \subseteq pool'
      <4>1. \/ made' = made + 1 /\ pool' = pool \cup {made}
            \/ UNCHANGED <<made, pool>>
        BY <1>9 DEF Create, CreateInc, CreateAdd, CreateRefused, CreateUndo, CreateSchedule
      <4> QED
        BY <1>3, <4>1
    <3>3. \A u \in Thread \ {"leaf"} : pc'[u] = pc[u]
      BY <1>0, <1>9, <2>3 DEF Create, CreateInc, CreateAdd, CreateRefused, CreateUndo, CreateSchedule
    <3> QED
      BY <1>2, <1>3, <2>1, <3>1, <3>2, <3>3 DEF FirstFresh
  <2>4. CASE t = "ioctl"
    BY <1>2, <2>1, <2>4 DEF Creating
  <2> QED
    BY <2>2, <2>3, <2>4
<1>10. CASE (\E t \in {"probe", "ioctl"} : Wait(t)) \/ (\E t \in {"ioctl", "remove"} : Destroy(t))
            \/ Download \/ GiveUp \/ KeepGroup \/ RemoveStart \/ Remove
  BY <1>2, <1>10 DEF Wait, Destroy, DestroyGet, DestroyWalk, DestroyRelease, SingleGet, FiniLock,
     FiniNode, FiniLeaves, SinglePut, SingleAwait, SingleDel, SingleDelNothing, SingleFreed, Download, GiveUp, KeepGroup,
     RemoveStart, Remove, RemoveFirst, RemoveFlush, RemoveLeft, RemoveEnd
<1> QED
  BY <1>4, <1>5, <1>6, <1>7, <1>8, <1>9, <1>10 DEF Next, Work

\* The unbinding that has come to an end stays there, and comes there with the
\* first group gone.
LEMMA PastStep ==
    ASSUME UnbindInv, HeldGroupListed, Next
    PROVE  /\ Past => Past' /\ pool' \subseteq pool \cup {made}
           /\ ~Past /\ Past' => leaves[MainGroup] = "gone"
<1> USE DEF groups, inside, counts, work, aims, region, Go, Thread
<1>0. /\ pc = [u \in Thread |-> pc[u]] /\ Places
      /\ pc["remove"] \in Destroying => tgt["remove"] = MainGroup
      /\ leaves[MainGroup] # "none" => MainGroup \in pool \/ Past
      /\ pc["remove"] \in {"put", "del", "drain", "oops"} /\ dep["remove"] = MainGroup => leaves[MainGroup] = "gone"
  BY DEF UnbindInv, Types, FirstStays, ProcessGone
<1>1. pc["remove"] # "idle" => leaves[MainGroup] # "none"
  BY DEF UnbindInv, FirstFresh
<1>2. CASE Work \/ Calls
  <2>1. pc'["remove"] = pc["remove"]
    <3>1. ASSUME NEW t \in {"probe", "ioctl", "leaf"}, Create(t) PROVE pc'["remove"] = pc["remove"]
      <4>1. "remove" # t
        OBVIOUS
      <4> QED
        BY <1>0, <3>1, <4>1 DEF Create, CreateInc, CreateAdd, CreateRefused, CreateUndo,
                                CreateSchedule
    <3>2. CASE Work
      BY <3>2 DEF Work, WorkStart, WorkNext, WorkEnd, WorkInit, WorkNoMemory, WorkSkip,
         WorkLeaves, WorkPut, WorkPost, WorkPosted, WorkDec, WorkComplete
    <3>3. CASE LeafCreates \/ Download \/ GiveUp \/ KeepGroup \/ \E u \in {"probe", "ioctl"} : Wait(u)
      BY <1>0, <3>3 DEF LeafCreates, Download, GiveUp, KeepGroup, Wait
    <3> QED
      BY <1>2, <3>1, <3>2, <3>3 DEF Calls
  <2>2. pool' \subseteq pool \cup {made}
    BY <1>2 DEF Work, WorkStart, WorkNext, WorkEnd, WorkInit, WorkNoMemory, WorkSkip,
       WorkLeaves, WorkPut, WorkPost, WorkPosted, WorkDec, WorkComplete, Calls, LeafCreates,
       Create, CreateInc, CreateAdd, CreateRefused, CreateUndo, CreateSchedule, Wait,
       Download, GiveUp, KeepGroup
  <2> QED
    BY <2>1, <2>2 DEF Past
<1>3. CASE RemoveStart
  BY <1>0, <1>3 DEF RemoveStart, Past
<1>4. CASE Remove
  BY <1>0, <1>1, <1>4 DEF Remove, RemoveFirst, RemoveFlush, RemoveLeft, RemoveEnd, Leave, Past
<1>5. CASE Destroy("ioctl")
  <2>1. pc'["remove"] = pc["remove"] /\ pool' \subseteq pool
    BY <1>0, <1>5 DEF Destroy, DestroyGet, DestroyWalk, DestroyRelease, SingleGet, FiniLock,
       FiniNode, FiniLeaves, SinglePut, SingleAwait, SingleDel, SingleDelNothing, SingleFreed, Leave
  <2> QED
    BY <2>1 DEF Past
<1>6. CASE Destroy("remove")
  <2>1. pc["remove"] \in Destroying /\ ~Past /\ leaves[MainGroup] # "none" /\ pool' \subseteq pool
    BY <1>1, <1>6 DEF Destroy, DestroyGet, DestroyWalk, DestroyRelease, SingleGet, FiniLock,
       FiniNode, FiniLeaves, SinglePut, SingleAwait, SingleDel, SingleDelNothing, SingleFreed, Leave, Destroying, Past
  <2>2. tgt["remove"] = MainGroup /\ MainGroup \in pool
    BY <1>0, <2>1
  <2>3. CASE DestroyGet("remove")
    BY <1>0, <2>1, <2>2, <2>3 DEF DestroyGet, Past
  <2>4. CASE DestroyWalk("remove") \/ DestroyRelease("remove") \/ FiniLock("remove")
            \/ FiniNode("remove") \/ FiniLeaves("remove") \/ SinglePut("remove")
    BY <1>0, <2>1, <2>4 DEF DestroyWalk, DestroyRelease, FiniLock, FiniNode, FiniLeaves,
                            SinglePut, Past
  <2>5. CASE SingleGet("remove")
    BY <1>0, <2>1, <2>2, <2>5 DEF SingleGet, SingleEnd, Past
  <2>6. CASE \/ SingleAwait("remove") \/ SingleDel("remove")
             \/ SingleDelNothing("remove") \/ SingleFreed("remove")
    <3>1. /\ pc["remove"] \in {"del", "drain"}
          /\ pc'["remove"] \in {"drain", "oops", SingleEnd("remove")}
      BY <1>0, <2>6 DEF SingleAwait, SingleDel, SingleDelNothing, SingleFreed
    <3> QED
      BY <1>0, <2>1, <2>2, <3>1 DEF SingleEnd, Past
  <2> QED
    BY <1>6, <2>1, <2>3, <2>4, <2>5, <2>6 DEF Destroy
<1> QED
  BY <1>2, <1>3, <1>4, <1>5, <1>6 DEF Next, Calls

\* The first group stays until the unbinding has destroyed it.
LEMMA StaysStep ==
    ASSUME UnbindInv, HeldGroupListed, Next
    PROVE  FirstStays'
<1> USE DEF groups, inside, counts, work, aims, region, Go, Thread
<1>0. /\ pc = [u \in Thread |-> pc[u]] /\ Places /\ Types /\ FirstStays /\ MainGroup \in Group
      /\ tgt = [u \in Thread |-> tgt[u]] /\ dep = [u \in Thread |-> dep[u]]
      /\ made \in Nat /\ pool \subseteq {g \in Group : g < made}
      /\ UnbindingDone /\ NoGroup # MainGroup
  BY Numbers, GroupsAssumption DEF UnbindInv, Types
<1>1. pc["ioctl"] # "idle" \/ pc["remove"] # "idle" => leaves[MainGroup] # "none"
  BY DEF UnbindInv, FirstFresh
<1>2. leaves'[MainGroup] # "none" =>
         /\ made' > 0 /\ pc'["probe"] \in {"sched", "wait", "done"}
         /\ MainGroup \in pool' \/ Past'
  <2>1. SUFFICES ASSUME leaves'[MainGroup] # "none"
                 PROVE  /\ made' > 0 /\ pc'["probe"] \in {"sched", "wait", "done"}
                        /\ MainGroup \in pool' \/ Past'
    OBVIOUS
  <2>2. CASE leaves[MainGroup] = "none"
    <3>1. ~UNCHANGED leaves
      BY <2>1, <2>2
    <3>2. pc["ioctl"] = "idle" /\ pc["remove"] = "idle"
      BY <1>1, <2>2
    <3>3. CASE WorkLeaves
      BY <1>0, <2>2, <3>3 DEF UnbindInv, FirstFresh, WorkLeaves, WGo
    <3>4. CASE ~WorkLeaves
      BY <3>1, <3>2, <3>4 DEF Next, Work, WorkStart, WorkNext, WorkEnd, WorkInit, WorkNoMemory,
         WorkSkip, WorkPut, WorkPost, WorkPosted, WorkDec, WorkComplete, LeafCreates, Create,
         CreateInc, CreateAdd, CreateRefused, CreateUndo, CreateSchedule, Wait, Download,
         GiveUp, KeepGroup, RemoveStart, Remove, RemoveFirst, RemoveFlush, RemoveLeft, RemoveEnd,
         Destroy, DestroyGet, DestroyWalk, DestroyRelease, SingleGet, FiniLock, FiniNode,
         FiniLeaves, SinglePut, SingleAwait, SingleDel, SingleDelNothing, SingleFreed
    <3> QED
      BY <3>3, <3>4
  <2>3. CASE leaves[MainGroup] # "none"
    <3>1. made > 0 /\ pc["probe"] \in {"sched", "wait", "done"} /\ (MainGroup \in pool \/ Past)
      BY <1>0, <2>3 DEF FirstStays
    <3>2. made' \in {made, made + 1}
      BY DEF Next, Work, WorkStart, WorkNext, WorkEnd, WorkInit, WorkNoMemory, WorkLeaves,
         WorkSkip, WorkPut, WorkPost, WorkPosted, WorkDec, WorkComplete, LeafCreates, Create,
         CreateInc, CreateAdd, CreateRefused, CreateUndo, CreateSchedule, Wait, Download,
         GiveUp, KeepGroup, RemoveStart, Remove, RemoveFirst, RemoveFlush, RemoveLeft, RemoveEnd,
         Destroy, DestroyGet, DestroyWalk, DestroyRelease, SingleGet, FiniLock, FiniNode,
         FiniLeaves, SinglePut, SingleAwait, SingleDel, SingleDelNothing, SingleFreed, Leave
    <3>3. pc'["probe"] \in {"sched", "wait", "done"}
      <4>1. CASE pc'["probe"] = pc["probe"]
        BY <3>1, <4>1
      <4>2. CASE Create("probe")
        BY <1>0, <3>1, <4>2 DEF Create, CreateInc, CreateAdd, CreateRefused, CreateUndo,
                                CreateSchedule, AfterCreate
      <4>3. CASE Wait("probe")
        BY <1>0, <4>3 DEF Wait
      <4>4. ASSUME NEW t \in {"ioctl", "leaf"}, Create(t) PROVE pc'["probe"] = pc["probe"]
        BY <1>0, <4>4 DEF Create, CreateInc, CreateAdd, CreateRefused, CreateUndo, CreateSchedule
      <4>5. CASE ~ \E t \in {"probe", "ioctl", "leaf"} : Create(t)
        BY <1>0, <4>1, <4>3, <4>5 DEF Next, Work, WorkStart, WorkNext, WorkEnd, WorkInit,
         WorkNoMemory, WorkLeaves, WorkSkip, WorkPut, WorkPost, WorkPosted, WorkDec, WorkComplete,
         LeafCreates, Wait, Download, GiveUp, KeepGroup, RemoveStart, Remove, RemoveFirst,
         RemoveFlush, RemoveLeft, RemoveEnd, Destroy, DestroyGet, DestroyWalk, DestroyRelease,
         SingleGet, FiniLock, FiniNode, FiniLeaves, SinglePut, SingleAwait, SingleDel, SingleDelNothing, SingleFreed, Leave
      <4> QED
        BY <4>1, <4>2, <4>4, <4>5
    <3>4. MainGroup \in pool' \/ Past'
      <4>1. CASE Past
        BY <4>1, PastStep
      <4>2. CASE \E t \in {"ioctl", "remove"} : SingleDel(t)
        <5>1. PICK t \in {"ioctl", "remove"} : SingleDel(t)
          BY <4>2
        <5>2. CASE dep[t] = MainGroup
          <6>1. t = "remove"
            BY <1>0, <5>1, <5>2 DEF FirstStays, SingleDel, DestroyingIt
          <6>2. tgt[t] = MainGroup
            BY <1>0, <5>1, <6>1 DEF FirstStays, SingleDel, Destroying
          <6>3. pc'["remove"] = "flush"
            BY <1>0, <5>1, <5>2, <6>1, <6>2 DEF SingleDel, SingleEnd, AfterDestroy
          <6> QED
            BY <6>3 DEF Past
        <5>3. CASE dep[t] # MainGroup
          BY <3>1, <4>1, <5>1, <5>3 DEF SingleDel, Leave, Past
        <5> QED
          BY <5>2, <5>3
      <4>3. CASE ~Past /\ ~ \E t \in {"ioctl", "remove"} : SingleDel(t)
        <5>1. pool \subseteq pool'
          BY <4>3 DEF Past, Next, Work, WorkStart, WorkNext, WorkEnd, WorkInit, WorkNoMemory,
         WorkLeaves, WorkSkip, WorkPut, WorkPost, WorkPosted, WorkDec, WorkComplete, LeafCreates,
         Create, CreateInc, CreateAdd, CreateRefused, CreateUndo, CreateSchedule, Wait, Download,
         GiveUp, KeepGroup, RemoveStart, Remove, RemoveFirst, RemoveFlush, RemoveLeft, RemoveEnd,
         Destroy, DestroyGet, DestroyWalk, DestroyRelease, SingleGet, FiniLock, FiniNode,
         FiniLeaves, SinglePut, SingleAwait, SingleDelNothing, SingleFreed
        <5> QED
          BY <3>1, <4>3, <5>1
      <4> QED
        BY <4>1, <4>2, <4>3
    <3> QED
      BY <1>0, <3>1, <3>2, <3>3, <3>4
  <2> QED
    BY <2>2, <2>3
<1>3. mine' # MainGroup /\ tgt'["ioctl"] # MainGroup
  <2>1. mine # MainGroup /\ tgt["ioctl"] # MainGroup
    BY <1>0 DEF FirstStays
  <2>2. CASE CreateAdd("ioctl")
    <3>1. made > 0
      BY <1>0, <1>1, <2>2 DEF CreateAdd, FirstStays
    <3> QED
      BY <1>0, <2>1, <2>2, <3>1 DEF CreateAdd, MainGroup
  <2>3. CASE Download \/ GiveUp
    BY <1>0, <2>1, <2>3 DEF Download, GiveUp
  <2>4. ASSUME NEW t \in {"probe", "ioctl", "leaf"}, Create(t), ~CreateAdd("ioctl")
        PROVE  UNCHANGED <<mine, tgt>>
    BY <2>4 DEF Create, CreateInc, CreateAdd, CreateRefused, CreateUndo, CreateSchedule
  <2>5. CASE Work \/ LeafCreates \/ (\E t \in {"probe", "ioctl"} : Wait(t)) \/ KeepGroup
             \/ (\E t \in {"ioctl", "remove"} : Destroy(t)) \/ RemoveStart \/ Remove
    <3>1. mine' = mine /\ tgt'["ioctl"] = tgt["ioctl"]
      BY <1>0, <2>5 DEF Work, WorkStart, WorkNext, WorkEnd, WorkInit, WorkNoMemory,
         WorkLeaves, WorkSkip, WorkPut, WorkPost, WorkPosted, WorkDec, WorkComplete,
         LeafCreates, Wait, KeepGroup, RemoveStart, Remove, RemoveFirst,
         RemoveFlush, RemoveLeft, RemoveEnd, Destroy, DestroyGet, DestroyWalk, DestroyRelease,
         SingleGet, FiniLock, FiniNode, FiniLeaves, SinglePut, SingleAwait, SingleDel, SingleDelNothing, SingleFreed, Leave
    <3> QED
      BY <2>1, <3>1
  <2> QED
    BY <2>1, <2>2, <2>3, <2>4, <2>5 DEF Next
<1>4. pc'["ioctl"] \in DestroyingIt \cup {"release"} => dep'["ioctl"] # MainGroup
  <2>1. CASE DestroyWalk("ioctl")
    <3>1. tgt["ioctl"] \in pool /\ tgt["ioctl"] \in Group /\ tgt["ioctl"] # MainGroup
      BY <1>0, <2>1, AtHand DEF DestroyWalk, OnTheWay, FirstStays
    <3>2. tgt["ioctl"] <= Max(pool)
      BY <1>0, <3>1, NewestListed
    <3>3. dep'["ioctl"] = Max(pool)
      BY <1>0, <2>1 DEF DestroyWalk
    <3>4. MaxGroups \in Nat
      BY GroupsAssumption
    <3> QED
      BY <3>1, <3>2, <3>3, <3>4 DEF Group, MainGroup
  <2>2. CASE Destroy("ioctl") /\ ~DestroyWalk("ioctl")
    <3>1. dep' = dep /\ (pc'["ioctl"] \in DestroyingIt => pc["ioctl"] \in DestroyingIt \cup {"release"})
          /\ pc'["ioctl"] # "release"
      BY <1>0, <2>2 DEF Destroy, DestroyGet, DestroyRelease, SingleGet, FiniLock, FiniNode,
         FiniLeaves, SinglePut, SingleAwait, SingleDel, SingleDelNothing, SingleFreed, Leave, DestroyingIt, AfterDestroy,
         SingleEnd
    <3> QED
      BY <1>0, <3>1 DEF FirstStays
  <2>3. ASSUME NEW t \in {"probe", "ioctl", "leaf"}, Create(t)
        PROVE  dep' = dep /\ (\/ pc'["ioctl"] = pc["ioctl"]
                             \/ pc'["ioctl"] \notin DestroyingIt \cup {"release"})
    <3>1. AfterCreate("ioctl", TRUE) \in {"wait", "idle"} /\ AfterCreate("ioctl", FALSE) \in {"wait", "idle"}
      BY DEF AfterCreate
    <3>2. CASE t = "ioctl"
      BY <1>0, <2>3, <3>1, <3>2 DEF Create, CreateInc, CreateAdd, CreateRefused, CreateUndo,
                                    CreateSchedule, DestroyingIt
    <3>3. CASE t # "ioctl"
      BY <1>0, <2>3, <3>3 DEF Create, CreateInc, CreateAdd, CreateRefused, CreateUndo, CreateSchedule
    <3> QED
      BY <3>2, <3>3
  <2>4. CASE LeafCreates \/ (\E t \in {"probe", "ioctl"} : Wait(t)) \/ KeepGroup
             \/ Download \/ GiveUp \/ RemoveStart \/ Remove
    <3>1. dep' = dep /\ (\/ pc'["ioctl"] = pc["ioctl"]
                        \/ pc'["ioctl"] \notin DestroyingIt \cup {"release"})
      BY <1>0, <2>4 DEF LeafCreates, Wait, KeepGroup, Download, GiveUp, RemoveStart, Remove,
         RemoveFirst, RemoveFlush, RemoveLeft, RemoveEnd, Leave, DestroyingIt
    <3> QED
      BY <1>0, <3>1 DEF FirstStays
  <2>5. CASE Work \/ Destroy("remove")
    <3>1. dep'["ioctl"] = dep["ioctl"] /\ pc'["ioctl"] = pc["ioctl"]
      BY <1>0, <2>5 DEF Work, WorkStart, WorkNext, WorkEnd, WorkInit, WorkNoMemory,
         WorkLeaves, WorkSkip, WorkPut, WorkPost, WorkPosted, WorkDec, WorkComplete,
         Destroy, DestroyGet, DestroyWalk, DestroyRelease,
         SingleGet, FiniLock, FiniNode, FiniLeaves, SinglePut, SingleAwait, SingleDel, SingleDelNothing, SingleFreed, Leave
    <3> QED
      BY <1>0, <3>1 DEF FirstStays
  <2>6. (\E t \in {"probe", "ioctl", "leaf"} : Create(t)) =>
           (pc'["ioctl"] \in DestroyingIt \cup {"release"} => dep'["ioctl"] # MainGroup)
    BY <1>0, <2>3 DEF FirstStays
  <2> QED
    BY <2>1, <2>2, <2>4, <2>5, <2>6 DEF Next
<1>5. pc'["remove"] \in Destroying => tgt'["remove"] = MainGroup
  <2>1. pc["remove"] \in Destroying => tgt["remove"] = MainGroup
    BY <1>0 DEF FirstStays
  <2>2. CASE RemoveFirst
    <3>1. pc["remove"] = "first"
      BY <2>2 DEF RemoveFirst
    <3>2. MainGroup \in pool
      BY <1>0, <1>1, <3>1 DEF FirstStays, Past
    <3>3. Group \in SUBSET Nat
      BY GroupsAssumption DEF Group
    <3>4. Min(pool) \in pool /\ \A g \in pool : Min(pool) <= g
      BY <1>0, <3>2, <3>3, MinMember
    <3>5. Min(pool) = MainGroup
      BY <1>0, <3>2, <3>3, <3>4 DEF MainGroup
    <3> QED
      BY <1>0, <2>2, <3>2, <3>5 DEF RemoveFirst
  <2>3. CASE Destroy("remove")
    <3>1. pc["remove"] \in Destroying /\ tgt' = tgt
      BY <2>3 DEF Destroy, DestroyGet, DestroyWalk, DestroyRelease, SingleGet, FiniLock,
         FiniNode, FiniLeaves, SinglePut, SingleAwait, SingleDel, SingleDelNothing, SingleFreed, Leave, Destroying
    <3> QED
      BY <2>1, <3>1
  <2>4. CASE RemoveStart \/ RemoveFlush \/ RemoveLeft \/ RemoveEnd
    <3>1. pc'["remove"] \notin Destroying
      BY <1>0, <2>4 DEF RemoveStart, RemoveFlush, RemoveLeft, RemoveEnd, Leave, Destroying
    <3> QED
      BY <3>1
  <2>5. ASSUME NEW t \in {"probe", "ioctl", "leaf"}, Create(t)
        PROVE  pc'["remove"] = pc["remove"] /\ tgt'["remove"] = tgt["remove"]
    BY <1>0, <2>5 DEF Create, CreateInc, CreateAdd, CreateRefused, CreateUndo, CreateSchedule
  <2>6. CASE Work \/ LeafCreates \/ (\E t \in {"probe", "ioctl"} : Wait(t)) \/ KeepGroup
             \/ Destroy("ioctl") \/ Download \/ GiveUp
    <3>1. pc'["remove"] = pc["remove"] /\ tgt'["remove"] = tgt["remove"]
      BY <1>0, <2>6 DEF Work, WorkStart, WorkNext, WorkEnd, WorkInit, WorkNoMemory,
         WorkLeaves, WorkSkip, WorkPut, WorkPost, WorkPosted, WorkDec, WorkComplete,
         LeafCreates, Wait, KeepGroup, Download, GiveUp, Destroy, DestroyGet, DestroyWalk,
         DestroyRelease, SingleGet, FiniLock, FiniNode, FiniLeaves, SinglePut, SingleAwait, SingleDel,
         SingleDelNothing, SingleFreed, Leave
    <3> QED
      BY <2>1, <3>1
  <2> QED
    BY <2>1, <2>2, <2>3, <2>4, <2>5, <2>6 DEF Next, Remove
<1> QED
  BY <1>2, <1>3, <1>4, <1>5 DEF FirstStays

\* A process that has gone with the device node does not come back.
LEMMA GoneStep ==
    ASSUME UnbindInv, HeldGroupListed, Next
    PROVE  ProcessGone'
<1> USE DEF groups, inside, counts, work, aims, region, Go, Thread
<1>0. /\ pc = [u \in Thread |-> pc[u]] /\ Places /\ FirstStays /\ MainGroup \in Group
      /\ tgt = [u \in Thread |-> tgt[u]] /\ dep = [u \in Thread |-> dep[u]]
      /\ leaves \in [Group -> {"none", "up", "gone"}]
      /\ (leaves[MainGroup] = "up" => created[MainGroup])
  BY Numbers DEF UnbindInv, Types, LeavesListed
<1>1. pc["remove"] # "idle" => leaves[MainGroup] # "none"
  BY DEF UnbindInv, FirstFresh
<1>2. leaves[MainGroup] = "gone" => leaves'[MainGroup] = "gone"
  BY LeavesStep
<1>3. /\ leaves[MainGroup] = "gone" => ~online /\ pc["ioctl"] = "idle"
      /\ Past \/ (pc["remove"] \in {"put", "del", "drain", "oops"} /\ dep["remove"] = MainGroup) =>
             leaves[MainGroup] = "gone"
  BY DEF UnbindInv, ProcessGone
<1>4. leaves'[MainGroup] = "gone" => ~online' /\ pc'["ioctl"] = "idle"
  <2>1. CASE leaves[MainGroup] = "gone"
    <3>1. pc'["ioctl"] = "idle"
      <4>1. ASSUME NEW t \in {"probe", "leaf"}, Create(t) PROVE pc'["ioctl"] = pc["ioctl"]
        BY <1>0, <4>1 DEF Create, CreateInc, CreateAdd, CreateRefused, CreateUndo, CreateSchedule
      <4>2. CASE ~ \E t \in {"probe", "leaf"} : Create(t)
        BY <1>0, <1>3, <2>1, <4>2 DEF Next, Work, WorkStart, WorkNext, WorkEnd, WorkInit,
         WorkNoMemory, WorkLeaves, WorkSkip, WorkPut, WorkPost, WorkPosted, WorkDec, WorkComplete,
         LeafCreates, Create, CreateInc, CreateAdd, CreateRefused, CreateUndo, CreateSchedule,
         Wait, Download, GiveUp, KeepGroup, RemoveStart, Remove, RemoveFirst,
         RemoveFlush, RemoveLeft, RemoveEnd, Destroy, DestroyGet, DestroyWalk, DestroyRelease,
         SingleGet, FiniLock, FiniNode, FiniLeaves, SinglePut, SingleAwait, SingleDel, SingleDelNothing, SingleFreed, Leave
      <4> QED
        BY <1>3, <2>1, <4>1, <4>2
    <3>2. ~online'
      <4>1. CASE WorkLeaves
        BY <1>3, <2>1, <4>1 DEF WorkLeaves
      <4>2. CASE ~WorkLeaves
        <5>1. online' \in {online, FALSE}
          BY <4>2 DEF Next, Work, WorkStart, WorkNext, WorkEnd, WorkInit,
         WorkNoMemory, WorkSkip, WorkPut, WorkPost, WorkPosted, WorkDec, WorkComplete,
         LeafCreates, Create, CreateInc, CreateAdd, CreateRefused, CreateUndo, CreateSchedule,
         Wait, Download, GiveUp, KeepGroup, RemoveStart, Remove, RemoveFirst,
         RemoveFlush, RemoveLeft, RemoveEnd, Destroy, DestroyGet, DestroyWalk, DestroyRelease,
         SingleGet, FiniLock, FiniNode, FiniLeaves, SinglePut, SingleAwait, SingleDel, SingleDelNothing, SingleFreed, Leave
        <5> QED
          BY <1>3, <2>1, <5>1
      <4> QED
        BY <4>1, <4>2
    <3> QED
      BY <3>1, <3>2
  <2>2. CASE leaves[MainGroup] # "gone" /\ leaves'[MainGroup] = "gone"
    <3>1. ~Past /\ ~(pc["remove"] \in {"del", "drain"} /\ dep["remove"] = MainGroup)
      BY <1>3, <2>2
    <3>2. CASE \E t \in {"ioctl", "remove"} : FiniLeaves(t)
      <4>1. PICK t \in {"ioctl", "remove"} : FiniLeaves(t)
        BY <3>2
      <4>2. dep[t] = MainGroup
        BY <1>0, <2>2, <4>1 DEF FiniLeaves
      <4>3. ~online /\ pc["ioctl"] = "idle" /\ online' = online
        BY <4>1, <4>2 DEF FiniLeaves
      <4>4. t = "remove"
        BY <4>1, <4>3 DEF FiniLeaves
      <4>5. pc'["ioctl"] = pc["ioctl"]
        BY <1>0, <4>1, <4>4 DEF FiniLeaves
      <4> QED
        BY <4>3, <4>5
    <3>3. CASE \E t \in {"ioctl", "remove"} : SingleDel(t)
      <4>1. PICK t \in {"ioctl", "remove"} : SingleDel(t)
        BY <3>3
      <4>2. dep[t] # MainGroup
        BY <1>0, <3>1, <4>1 DEF FirstStays, DestroyingIt, SingleDel
      <4> QED
        BY <1>0, <2>2, <4>1, <4>2 DEF SingleDel, Leave
    <3>4. CASE ~(\E t \in {"ioctl", "remove"} : FiniLeaves(t) \/ SingleDel(t))
      <4>1. CASE WorkLeaves
        BY <1>0, <2>2, <4>1 DEF WorkLeaves
      <4>2. CASE ~WorkLeaves
        <5>1. leaves' = leaves
          BY <3>1, <3>4, <4>2 DEF Past, Next, Work, WorkStart, WorkNext, WorkEnd, WorkInit,
         WorkNoMemory, WorkSkip, WorkPut, WorkPost, WorkPosted, WorkDec, WorkComplete,
         LeafCreates, Create, CreateInc, CreateAdd, CreateRefused, CreateUndo, CreateSchedule,
         Wait, Download, GiveUp, KeepGroup, RemoveStart, Remove, RemoveFirst,
         RemoveFlush, RemoveLeft, RemoveEnd, Destroy, DestroyGet, DestroyWalk, DestroyRelease,
         SingleGet, FiniLock, FiniNode, SinglePut, SingleAwait, SingleDelNothing, SingleFreed
        <5> QED
          BY <2>2, <5>1
      <4> QED
        BY <4>1, <4>2
    <3> QED
      BY <3>2, <3>3, <3>4
  <2> QED
    BY <2>1, <2>2
<1>5. Past' => leaves'[MainGroup] = "gone"
  BY <1>2, <1>3, PastStep
<1>6. pc'["remove"] \in {"put", "del", "drain", "oops"} /\ dep'["remove"] = MainGroup => leaves'[MainGroup] = "gone"
  <2>1. SUFFICES ASSUME pc'["remove"] \in {"put", "del", "drain", "oops"}, dep'["remove"] = MainGroup
                 PROVE  leaves'[MainGroup] = "gone"
    OBVIOUS
  <2>2. CASE pc["remove"] \in {"put", "del", "drain", "oops"} /\ dep["remove"] = MainGroup
    BY <1>2, <1>3, <2>2
  <2>3. CASE Destroy("remove")
    <3>1. CASE FiniLock("remove")
      BY <1>0, <1>1, <2>1, <3>1 DEF FiniLock
    <3>2. CASE FiniLeaves("remove")
      BY <1>0, <2>1, <3>2 DEF FiniLeaves
    <3>3. CASE SinglePut("remove")
      BY <1>0, <2>1, <2>2, <3>3 DEF SinglePut
    <3>4. CASE ~FiniLock("remove") /\ ~FiniLeaves("remove") /\ ~SinglePut("remove")
      BY <1>0, <2>1, <2>2, <2>3, <3>4 DEF Destroy, DestroyGet, DestroyWalk, DestroyRelease,
         SingleGet, FiniNode, SingleAwait, SingleDel, SingleDelNothing, SingleFreed, SingleEnd, AfterDestroy
    <3> QED
      BY <3>1, <3>2, <3>3, <3>4
  <2>4. CASE RemoveStart \/ Remove
    BY <1>0, <2>1, <2>4 DEF RemoveStart, Remove, RemoveFirst, RemoveFlush, RemoveLeft, RemoveEnd,
                            Leave
  <2>5. ASSUME NEW t \in {"probe", "ioctl", "leaf"}, Create(t)
        PROVE  pc'["remove"] = pc["remove"] /\ dep'["remove"] = dep["remove"]
    BY <1>0, <2>5 DEF Create, CreateInc, CreateAdd, CreateRefused, CreateUndo, CreateSchedule
  <2>6. CASE Work \/ LeafCreates \/ (\E t \in {"probe", "ioctl"} : Wait(t)) \/ KeepGroup
             \/ Destroy("ioctl") \/ Download \/ GiveUp
    <3>1. pc'["remove"] = pc["remove"] /\ dep'["remove"] = dep["remove"]
      BY <1>0, <2>6 DEF Work, WorkStart, WorkNext, WorkEnd, WorkInit, WorkNoMemory,
         WorkLeaves, WorkSkip, WorkPut, WorkPost, WorkPosted, WorkDec, WorkComplete,
         LeafCreates, Wait, KeepGroup, Download, GiveUp, Destroy, DestroyGet, DestroyWalk,
         DestroyRelease, SingleGet, FiniLock, FiniNode, FiniLeaves, SinglePut, SingleAwait, SingleDel,
         SingleDelNothing, SingleFreed, Leave
    <3> QED
      BY <2>1, <2>2, <3>1
  <2> QED
    BY <2>1, <2>2, <2>3, <2>4, <2>5, <2>6 DEF Next
<1> QED
  BY <1>4, <1>5, <1>6 DEF ProcessGone

\* Once the work is flushed nobody queues it, and nobody adds a group.
LEMMA UnbindingStep ==
    ASSUME UnbindInv, HeldGroupListed, Next
    PROVE  UnbindingDone'
<1> USE DEF groups, inside, counts, work, aims, region, Go, WGo, Thread
<1>0. pc = [u \in Thread |-> pc[u]] /\ Places /\ UnbindingDone
  BY DEF UnbindInv, Types
<1>1. pc["remove"] \in {"pool_fini", "done"} =>
        /\ wpc = "idle" /\ ~queued /\ closing
        /\ pc["ioctl"] = "idle" /\ pc["leaf"] = "idle" /\ pc["probe"] = "done"
  BY <1>0 DEF UnbindingDone, UnbindInv, ProcessGone, Past, Places
<1>2. ASSUME NEW t \in {"probe", "ioctl", "leaf"}, Create(t) PROVE UnbindingDone'
  <2>1. pc["remove"] \notin {"pool_fini", "done"}
    BY <1>1, <1>2 DEF Create, CreateInc, CreateAdd, CreateRefused, CreateUndo, CreateSchedule
  <2>2. pc'["remove"] = pc["remove"] /\ closing' = closing
    BY <1>0, <1>2 DEF Create, CreateInc, CreateAdd, CreateRefused, CreateUndo, CreateSchedule
  <2> QED
    BY <1>0, <2>1, <2>2 DEF UnbindingDone
<1>3. CASE Work
  <2>1. /\ UNCHANGED <<pc, closing, pool>> /\ (wpc = "idle" /\ ~queued => FALSE)
    BY <1>3 DEF Work, WorkStart, WorkNext, WorkEnd, WorkInit, WorkNoMemory, WorkSkip,
                WorkLeaves, WorkPut, WorkPost, WorkPosted, WorkDec, WorkComplete
  <2> QED
    BY <1>0, <1>1, <2>1 DEF UnbindingDone
<1>4. CASE LeafCreates \/ (\E t \in {"probe", "ioctl"} : Wait(t)) \/ Download \/ GiveUp \/ KeepGroup
  <2>1. UNCHANGED <<closing, pool, wpc, queued>> /\ pc'["remove"] = pc["remove"]
    BY <1>0, <1>4 DEF LeafCreates, Wait, Download, GiveUp, KeepGroup
  <2> QED
    BY <1>0, <2>1 DEF UnbindingDone
<1>5. ASSUME NEW t \in {"ioctl", "remove"}, Destroy(t) PROVE UnbindingDone'
  <2>1. /\ pc["remove"] \notin {"pool_fini", "done"} /\ closing' = closing
    BY <1>1, <1>5 DEF Destroy, DestroyGet, DestroyWalk, DestroyRelease, SingleGet, FiniLock,
       FiniNode, FiniLeaves, SinglePut, SingleAwait, SingleDel, SingleDelNothing, SingleFreed, Leave
  <2>2. pc'["remove"] \notin {"pool_fini", "done"}
    <3>1. CASE t = "remove"
      BY <1>0, <1>5, <3>1 DEF Destroy, DestroyGet, DestroyWalk, DestroyRelease, SingleGet,
         FiniLock, FiniNode, FiniLeaves, SinglePut, SingleAwait, SingleDel, SingleDelNothing, SingleFreed, Leave,
         SingleEnd, AfterDestroy
    <3>2. CASE t = "ioctl"
      <4>1. pc'["remove"] = pc["remove"]
        BY <1>0, <1>5, <3>2 DEF Destroy, DestroyGet, DestroyWalk, DestroyRelease, SingleGet,
           FiniLock, FiniNode, FiniLeaves, SinglePut, SingleAwait, SingleDel, SingleDelNothing, SingleFreed, Leave
      <4> QED
        BY <2>1, <4>1
    <3> QED
      BY <3>1, <3>2
  <2> QED
    BY <1>0, <2>1, <2>2 DEF UnbindingDone
<1>6. CASE RemoveStart \/ RemoveFirst
  BY <1>0, <1>6 DEF UnbindingDone, RemoveStart, RemoveFirst
<1>7. CASE RemoveFlush
  BY <1>0, <1>7 DEF UnbindingDone, RemoveFlush
<1>8. CASE RemoveLeft \/ RemoveEnd
  BY <1>0, <1>8 DEF UnbindingDone, RemoveLeft, RemoveEnd, Leave
<1> QED
  BY <1>2, <1>3, <1>4, <1>5, <1>6, <1>7, <1>8 DEF Next, Remove

-----------------------------------------------------------------------------
(* The theorems.                                                            *)

\* The invariant holds at the start.
LEMMA UnbindInit == Init => UnbindInv
<1> SUFFICES ASSUME Init PROVE UnbindInv
  OBVIOUS
<1>1. Spawners \subseteq Group /\ Downloads \in Nat
  BY GroupsAssumption
<1>2. Types
  <2>1. pc \in [Thread -> Creating \cup Destroying \cup
                    {"idle", "wait", "judge", "done", "first", "flush", "pool_fini"}]
    BY DEF Init, Creating
  <2>2. \A t \in {"ioctl", "remove"} : pc[t] \notin Destroying
    BY DEF Init, Thread, Destroying
  <2>3. got \in 0 .. Downloads
    BY <1>1 DEF Init
  <2>4. /\ made \in Nat /\ pool \subseteq {g \in Group : g < made} /\ closing \in BOOLEAN
        /\ comp \in Nat /\ online \in BOOLEAN /\ queued \in BOOLEAN
        /\ spawned \subseteq Spawners /\ redo \in BOOLEAN /\ mine \in Group \cup {NoGroup}
        /\ wpc = "idle"
    BY DEF Init
  <2>5. /\ hold \in [Group -> Int] /\ created \in [Group -> BOOLEAN]
        /\ leaves \in [Group -> {"none", "up", "gone"}]
        /\ tgt \in [Thread -> Group \cup {NoGroup}] /\ dep \in [Thread -> Group \cup {NoGroup}]
    BY DEF Init
  <2> QED
    BY <2>1, <2>2, <2>3, <2>4, <2>5 DEF Types
<1>3. NumbersLeft
  <2>1. Cardinality(spawned) = 0
    BY FS_EmptySet DEF Init
  <2> QED
    BY <2>1 DEF Init, NumbersLeft, MakingOf, Redoing, Thread, Destroying
<1>4. Places /\ ReleaseAtTarget
  BY DEF Init, Places, ReleaseAtTarget, Thread, Creating, Destroying
<1>5. HoldExact
  BY DEF Init, HoldExact, ByWork, ByThread, AsTarget, AsNewest, OnTheWay, Thread
<1>6. LeavesListed
  BY DEF Init, LeavesListed
<1>7. FirstFresh
  BY Numbers, <1>2 DEF Init, FirstFresh, Thread
<1>8. FirstStays
  BY Numbers, <1>2, GroupsAssumption DEF Init, FirstStays, Thread, DestroyingIt, Destroying
<1>9. ProcessGone /\ UnbindingDone
  BY Numbers, <1>2 DEF Init, ProcessGone, Past, UnbindingDone, Thread
<1> QED
  BY <1>2, <1>3, <1>4, <1>5, <1>6, <1>7, <1>8, <1>9 DEF UnbindInv

\* Every step keeps it.
LEMMA UnbindStep == MainSafe /\ UnbindInv /\ HeldGroupListed /\ [Next]_vars => UnbindInv'
<1> SUFFICES ASSUME MainSafe, UnbindInv, HeldGroupListed, [Next]_vars PROVE UnbindInv'
  OBVIOUS
<1>1. CASE Next
  <2>1. Types'
    BY <1>1, WorkTypes, CallTypes, DestroyTypes, RemoveTypes DEF Next, Calls
  <2>2. HoldExact'
    BY <1>1, HoldWork, HoldDestroy, HoldOther DEF Next, Calls
  <2> QED
    BY <1>1, <2>1, <2>2, PlacesStep, NumbersStep, ReleaseStep, LeavesStep, FreshStep, StaysStep,
       GoneStep, UnbindingStep DEF UnbindInv
<1>2. CASE UNCHANGED vars
  <2> USE <1>2 DEF UnbindInv, vars, groups, inside, counts, work, aims, region
  <2>1. Types' /\ Places'
    BY DEF Types, Places
  <2>2. NumbersLeft' /\ ReleaseAtTarget' /\ LeavesListed'
    BY DEF NumbersLeft, MakingOf, Redoing, ReleaseAtTarget, LeavesListed
  <2>3. HoldExact'
    BY DEF HoldExact, ByWork, ByThread, AsTarget, AsNewest, OnTheWay
  <2>4. FirstFresh' /\ FirstStays' /\ ProcessGone' /\ UnbindingDone'
    BY DEF FirstFresh, FirstStays, ProcessGone, UnbindingDone, Past
  <2> QED
    BY <2>1, <2>2, <2>3, <2>4
<1> QED
  BY <1>1, <1>2

\* What is known of an unbinding that is under way: who holds which group,
\* where the first group is, and that the process is gone when it goes.  When it
\* overlaps a download this is known up to the first use of freed memory.
THEOREM UnbindInvariant == ASSUME MainSafe PROVE Spec => []UnbindInv
<1>1. Init => UnbindInv
  BY UnbindInit
<1>2. UnbindInv /\ HeldGroupListed /\ [Next]_vars => UnbindInv'
  BY UnbindStep
<1> QED
  BY <1>1, <1>2, HeldGroupsStay, PTL DEF Spec

\* xroot_remove leaves no group, no leaf, no work and no user of xmgmt-main's
\* device node, whatever was being created, downloaded or destroyed when it
\* began: its chain of waits, for the holders of groups, for the process with
\* the node open and for the flushed work, misses nobody.  That it returns is not
\* said: a download that it overlaps may leave one of two removers of a group
\* with freed memory, where the model stops (SingleFreed).
THEOREM UnbindLeavesNothing == ASSUME MainSafe PROVE Spec => []RemoveLeavesNothing
<1>1. UnbindInv /\ HeldGroupListed => RemoveLeavesNothing
  <2> SUFFICES ASSUME UnbindInv, HeldGroupListed, pc["remove"] = "done"
               PROVE  /\ pool = {} /\ \A g \in Group : leaves[g] # "up" /\ hold[g] = 0
                      /\ wpc = "idle" /\ ~queued /\ pc["ioctl"] = "idle"
    BY DEF RemoveLeavesNothing
  <2>1. pool = {} /\ wpc = "idle" /\ ~queued
    BY DEF UnbindInv, UnbindingDone
  <2>2. pc["ioctl"] = "idle"
    BY DEF UnbindInv, ProcessGone, Past
  <2>3. ASSUME NEW g \in Group PROVE leaves[g] # "up" /\ hold[g] = 0
    <3>1. leaves[g] # "up"
      BY <2>1 DEF UnbindInv, LeavesListed
    <3>2. ByWork(g) = 0 /\ ByThread("ioctl", g) = 0 /\ ByThread("remove", g) = 0
      BY <2>1, <2>2 DEF ByWork, ByThread, AsTarget, AsNewest, OnTheWay
    <3>3. hold[g] = ByWork(g) + ByThread("ioctl", g) + ByThread("remove", g)
      BY DEF UnbindInv, HoldExact
    <3> QED
      BY <3>1, <3>2, <3>3
  <2> QED
    BY <2>1, <2>2, <2>3
<1> QED
  BY <1>1, UnbindInvariant, HeldGroupsStay, PTL

-----------------------------------------------------------------------------
(* Nobody uses a group that was freed.                                      *)

\* Two who destroy groups are both under way only if a download met the
\* unbinding, and if none did, the group that a remover sleeps over is listed.
Alone ==
    /\ met \in BOOLEAN
    /\ pc["remove"] # "idle" => met \/ pc["ioctl"] = "idle"
    /\ \A t \in {"ioctl", "remove"} : pc[t] = "drain" => met \/ dep[t] \in pool

\* A step whose pool loses nothing, and that starts neither a download nor the
\* unbinding nor the sleep of a remover, keeps it.
LEMMA SameAlone ==
    ASSUME Alone, pool \subseteq pool', met' = met,
           pc["remove"] = "idle" => pc'["remove"] = "idle",
           pc["ioctl"] = "idle" => pc'["ioctl"] = "idle",
           \A t \in {"ioctl", "remove"} :
              pc'[t] = "drain" => pc[t] = "drain" /\ dep'[t] = dep[t]
    PROVE  Alone'
  BY DEF Alone

\* Only a remover takes a group from the pool, and then there is no other.
LEMMA AloneStep == UnbindInv /\ Alone /\ [Next]_vars => Alone'
<1> SUFFICES ASSUME UnbindInv, Alone, [Next]_vars PROVE Alone'
  OBVIOUS
<1> USE DEF groups, inside, counts, work, aims, region, Go, Thread
<1>0. /\ \A a, b : pc' = [pc EXCEPT ![a] = b] =>
              \A t \in {"ioctl", "remove"} : pc'[t] = IF t = a THEN b ELSE pc[t]
      /\ pc' = pc => \A t \in {"ioctl", "remove"} : pc'[t] = pc[t]
      /\ Places
      /\ \A a, b : dep' = [dep EXCEPT ![a] = b] =>
              \A t \in {"ioctl", "remove"} : t # a => dep'[t] = dep[t]
  <2>1. pc \in [Thread -> Creating \cup Destroying \cup
                         {"idle", "wait", "judge", "done", "first", "flush", "pool_fini"}]
        /\ dep \in [Thread -> Group \cup {NoGroup}]
    BY DEF UnbindInv, Types
  <2> QED
    BY <2>1 DEF UnbindInv
<1>1. CASE Work
  BY <1>1, SameAlone DEF Work, WorkStart, WorkNext, WorkEnd, WorkInit, WorkNoMemory,
     WorkLeaves, WorkSkip, WorkPut, WorkPost, WorkPosted, WorkDec, WorkComplete
<1>2. CASE LeafCreates \/ UNCHANGED vars
  BY <1>0, <1>2, SameAlone DEF LeafCreates, vars
<1>3. ASSUME NEW t \in {"probe", "ioctl", "leaf"}, Create(t) \/ Wait(t)
      PROVE  Alone'
  <2>1. AfterCreate(t, TRUE) \in {"wait", "idle"} /\ AfterCreate(t, FALSE) \in {"wait", "idle"}
    BY DEF AfterCreate
  <2>2. pool \subseteq pool' /\ met' = met /\ dep' = dep /\ pc[t] # "idle"
        /\ \E b \in {"add", "undo", "sched", "wait", "idle", "judge", "done"} :
              pc' = [pc EXCEPT ![t] = b]
    BY <1>3, <2>1 DEF Create, CreateInc, CreateAdd, CreateRefused, CreateUndo, CreateSchedule,
       Wait
  <2> QED
    BY <1>0, <2>2, SameAlone
<1>4. ASSUME NEW t \in {"ioctl", "remove"}, Destroy(t)
      PROVE  Alone'
  <2>0. /\ AfterDestroy(t) \in {"flush", "inc", "idle"}
        /\ SingleEnd(t) \in {"flush", "inc", "idle", "walk"}
    BY DEF AfterDestroy, SingleEnd
  <2>1. CASE SingleAwait(t)
    BY <1>0, <2>1 DEF SingleAwait, Alone
  <2>2. CASE SingleDel(t)
    <3>1. met' = met /\ dep' = dep /\ pc[t] \in {"del", "drain"}
          /\ pc' = [pc EXCEPT ![t] = SingleEnd(t)]
      BY <2>2 DEF SingleDel, Leave
    <3>2. CASE met
      BY <3>1, <3>2 DEF Alone
    <3>3. CASE ~met
      <4>1. \A u \in {"ioctl", "remove"} : u # t => pc[u] = "idle"
        BY <3>1, <3>3 DEF Alone
      <4>0. pc'[t] = SingleEnd(t) /\ \A u \in {"ioctl", "remove"} : u # t => pc'[u] = "idle"
        <5>1. pc \in [Thread -> Creating \cup Destroying \cup
                         {"idle", "wait", "judge", "done", "first", "flush", "pool_fini"}]
          BY DEF UnbindInv, Types
        <5> QED
          BY <3>1, <4>1, <5>1
      <4>2. \A u \in {"ioctl", "remove"} : pc'[u] # "drain"
        BY <2>0, <4>0
      <4>3. pc'["remove"] # "idle" => pc'["ioctl"] = "idle"
        BY <3>1, <4>0, <4>1
      <4> QED
        BY <3>1, <4>2, <4>3 DEF Alone
    <3> QED
      BY <3>2, <3>3
  <2>3. CASE ~SingleAwait(t) /\ ~SingleDel(t)
    <3>1. pool' = pool /\ met' = met /\ pc[t] # "idle"
          /\ (dep' = dep \/ \E b : dep' = [dep EXCEPT ![t] = b])
          /\ \E b : b # "drain" /\ pc' = [pc EXCEPT ![t] = b]
      BY <1>4, <2>0, <2>3 DEF Destroy, DestroyGet, DestroyWalk, DestroyRelease, SingleGet,
         FiniLock, FiniNode, FiniLeaves, SinglePut, SingleDelNothing, SingleFreed
    <3> QED
      BY <1>0, <3>1, SameAlone
  <2> QED
    BY <2>1, <2>2, <2>3
<1>5. CASE Download
  <2>1. UNCHANGED <<pool, dep>> /\ met' = (met \/ ~Quiet)
        /\ \E b \in {"inc", "get"} : pc' = [pc EXCEPT !["ioctl"] = b]
    BY <1>5 DEF Download
  <2> QED
    BY <1>0, <2>1 DEF Alone, Quiet
<1>6. CASE GiveUp \/ KeepGroup
  <2>1. UNCHANGED <<pool, dep, met>> /\ pc["ioctl"] = "judge"
        /\ \E b \in {"get", "idle"} : pc' = [pc EXCEPT !["ioctl"] = b]
    BY <1>6 DEF GiveUp, KeepGroup
  <2> QED
    BY <1>0, <2>1, SameAlone
<1>7. CASE RemoveStart
  <2>1. UNCHANGED <<pool, dep>> /\ met' = (met \/ pc["ioctl"] # "idle")
        /\ pc' = [pc EXCEPT !["remove"] = "first"]
    BY <1>7 DEF RemoveStart
  <2>2. pc'["remove"] = "first" /\ pc'["ioctl"] = pc["ioctl"]
    BY <1>0, <2>1
  <2>3. met' \in BOOLEAN /\ (met => met') /\ (pc["ioctl"] # "idle" => met')
    BY <2>1 DEF Alone
  <2> QED
    BY <2>1, <2>2, <2>3 DEF Alone
<1>8. CASE RemoveFirst \/ RemoveFlush \/ RemoveEnd
  BY <1>0, <1>8, SameAlone DEF RemoveFirst, RemoveFlush, RemoveEnd
<1>9. CASE RemoveLeft
  <2>1. met' = met /\ dep' = dep /\ pc["remove"] = "pool_fini"
        /\ pc' = [pc EXCEPT !["remove"] = "pool_fini"]
    BY <1>9 DEF RemoveLeft, Leave
  <2> QED
    BY <1>0, <2>1 DEF Alone
<1> QED
  BY <1>1, <1>2, <1>3, <1>4, <1>5, <1>6, <1>7, <1>8, <1>9 DEF Next, Remove

\* subdev.c:474.  The work, a leaf's code, the process in xmgmt-main's driver and
\* whoever destroys groups are at groups that are listed, hence not freed; the
\* sleep of a remover over a group's holders is covered too, unless a download
\* overlapped the unbinding.
THEOREM UsedGroupsListed == ASSUME MainSafe PROVE Spec => []UsedIsListed
<1>1. Init => Alone
  BY DEF Init, Alone, region, Thread
<1>2. UnbindInv /\ HeldGroupListed /\ Alone => UsedIsListed
  <2> SUFFICES ASSUME UnbindInv, HeldGroupListed, Alone, NEW g \in Group
               PROVE  /\ WorkUses(g) \/ ProcessUses(g) => g \in pool
                      /\ \A t \in {"ioctl", "remove"} :
                            RemoverUses(t, g) =>
                               g \in pool \/ (met /\ g = dep[t] /\ pc[t] = "drain")
    BY DEF UsedIsListed
  <2>1. WorkUses(g) => g \in pool
    BY AtHand DEF WorkUses, UnbindInv, Places
  <2>2. ProcessUses(g) => g \in pool
    <3>1. leaves[MainGroup] = "none" \/ Past => pc["ioctl"] = "idle"
      BY DEF UnbindInv, FirstFresh, ProcessGone
    <3>2. leaves[MainGroup] # "none" /\ ~Past => MainGroup \in pool
      BY DEF UnbindInv, FirstStays
    <3> QED
      BY <3>1, <3>2 DEF ProcessUses
  <2>3. ASSUME NEW t \in {"ioctl", "remove"}, RemoverUses(t, g)
        PROVE  g \in pool \/ (met /\ g = dep[t] /\ pc[t] = "drain")
    <3>1. OnTheWay(t) => tgt[t] \in pool
      BY AtHand
    <3>2. pc[t] \in {"fini_lock", "fini", "put"} => dep[t] \in pool
      BY AtHand
    <3>3. pc[t] = "drain" => met \/ dep[t] \in pool
      BY DEF Alone
    <3> QED
      BY <2>3, <3>1, <3>2, <3>3 DEF RemoverUses, OnTheWay
  <2> QED
    BY <2>1, <2>2, <2>3
<1> QED
  BY <1>1, <1>2, AloneStep, UnbindInvariant, HeldGroupsStay, PTL DEF Spec

-----------------------------------------------------------------------------
(* Dependents first.                                                        *)

\* What destroys a group has found it the newest, unless a download and the
\* unbinding are both under way.
Apart ==
    /\ met \in BOOLEAN
    /\ pc["remove"] # "idle" => met \/ pc["ioctl"] = "idle"
    /\ \A t \in {"ioctl", "remove"} :
          pc[t] \in DestroyingIt \cup {"release"} => met \/ \A h \in pool : h <= dep[t]

\* Leaves have created their groups before any is destroyed.
CreatedBefore ==
    pc["leaf"] # "idle" => pc["ioctl"] \notin Destroying /\ pc["remove"] = "idle"

\* Until its leaves are gone, the main group is not brought up a second time,
\* and no leaf of it creates another group.
MainDone ==
    /\ leaves[MainGroup] # "none"
    /\ pc["leaf"] = "idle"
    /\ cur = MainGroup /\ wpc \in {"leaves", "put", "post", "posting", "dec"} =>
           leaves[MainGroup] = "gone"

\* Nobody's wait for bringup ends before that, and a download that destroys a
\* group has waited for it.
FirstPass ==
    leaves[MainGroup] # "none" =>
        \/ MainDone
        \/ /\ cur = MainGroup /\ wpc \in {"put", "post", "posting", "dec"}
           /\ comp = 0 /\ pc["probe"] # "done"
Waited ==
    /\ pc["ioctl"] \in Destroying \cup {"inc", "add", "undo"} => mine = NoGroup
    /\ \/ pc["ioctl"] \in Destroying \cup {"judge"}
       \/ pc["ioctl"] = "idle" /\ mine # NoGroup
       => MainDone
SpawnInv == FirstPass /\ Waited

\* A step that tears a group's leaves down finds no newer group with leaves.
LEMMA TearsNewest ==
    ASSUME UnbindInv, HeldGroupListed, Apart, [Next]_vars, NEW g \in Group, TornDown(g)
    PROVE  NewerDown(g) \/ met
<1> USE DEF groups, inside, counts, work, aims, region
<1>0. /\ LeavesListed /\ Types /\ pool \subseteq Group
      /\ leaves = [h \in Group |-> leaves[h]] /\ dep = [u \in Thread |-> dep[u]]
  BY DEF UnbindInv, Types
<1>1. \A h \in Group : leaves[h] = "up" => h \in pool
  BY <1>0 DEF LeavesListed
<1>2. ASSUME \A h \in pool : h <= g PROVE NewerDown(g)
  <2> SUFFICES ASSUME NEW h \in Group, h > g, leaves[h] = "up" PROVE FALSE
    BY DEF NewerDown
  <2>1. h <= g /\ h \in Nat /\ g \in Nat
    BY <1>1, <1>2 DEF Group
  <2> QED
    BY <2>1
<1>3. leaves'[g] # leaves[g]
  BY DEF TornDown
<1>4. ASSUME NEW d, Leave(d) PROVE d = g
  BY <1>0, <1>3, <1>4 DEF Leave
<1>5. CASE Work
  <2>1. CASE WorkLeaves
    BY <1>0, <2>1 DEF WorkLeaves, TornDown
  <2> QED
    BY <1>3, <1>5, <2>1 DEF Work, WorkStart, WorkNext, WorkEnd, WorkInit, WorkNoMemory,
       WorkSkip, WorkPut, WorkPost, WorkPosted, WorkDec, WorkComplete
<1>6. CASE Calls
  BY <1>3, <1>6 DEF Calls, LeafCreates, Create, CreateInc, CreateAdd, CreateRefused,
     CreateUndo, CreateSchedule, Wait, Download, GiveUp, KeepGroup
<1>7. ASSUME NEW t \in {"ioctl", "remove"}, Destroy(t) PROVE NewerDown(g) \/ met
  <2>1. CASE FiniLeaves(t)
    <3>1. g = dep[t] /\ pc[t] = "fini"
      BY <1>0, <1>3, <2>1 DEF FiniLeaves, Go
    <3> QED
      BY <1>2, <3>1 DEF Apart, DestroyingIt
  <2>2. CASE SingleDel(t)
    <3>1. g = dep[t] /\ pc[t] \in {"del", "drain"}
      BY <1>4, <2>2 DEF SingleDel, Go
    <3> QED
      BY <1>2, <3>1 DEF Apart, DestroyingIt
  <2> QED
    BY <1>3, <1>7, <2>1, <2>2 DEF Destroy, DestroyGet, DestroyWalk, DestroyRelease, SingleGet,
       FiniLock, FiniNode, SinglePut, SingleAwait, SingleDelNothing, SingleFreed
<1>8. CASE RemoveStart \/ RemoveFirst \/ RemoveFlush \/ RemoveEnd
  BY <1>3, <1>8 DEF RemoveStart, RemoveFirst, RemoveFlush, RemoveEnd
<1>9. CASE RemoveLeft
  <2>1. g = Max(pool) /\ pool # {}
    BY <1>4, <1>9 DEF RemoveLeft
  <2> QED
    BY <1>0, <1>2, <2>1, NewestListed
<1>10. CASE UNCHANGED vars
  BY <1>3, <1>10 DEF vars
<1> QED
  BY <1>5, <1>6, <1>7, <1>8, <1>9, <1>10 DEF Next, Calls, Remove

\* No group is added while what destroys one has found it the newest.
LEMMA ApartStep ==
    ASSUME UnbindInv, HeldGroupListed, Apart, CreatedBefore, [Next]_vars
    PROVE  Apart'
<1> USE DEF groups, inside, counts, work, aims, region, Go
<1> DEFINE At(t) == pc[t] \in DestroyingIt \cup {"release"}
           Newest(t) == met \/ \A h \in pool : h <= dep[t]
<1>0. /\ pc = [u \in Thread |-> pc[u]] /\ dep = [u \in Thread |-> dep[u]]
      /\ {"probe", "ioctl", "leaf", "remove"} = Thread
      /\ met \in BOOLEAN /\ Types /\ pool \subseteq Group
      /\ \A t \in {"ioctl", "remove"} : At(t) => Newest(t)
      /\ pc["remove"] # "idle" => met \/ pc["ioctl"] = "idle"
  BY DEF UnbindInv, Types, Thread, Apart
<1>1. ASSUME met' = met, pc'["ioctl"] = pc["ioctl"] \/ pc["ioctl"] # "idle",
             pc'["remove"] = pc["remove"] \/ pc["remove"] # "idle",
             pool' \subseteq pool,
             \A t \in {"ioctl", "remove"} :
                 pc'[t] \in DestroyingIt \cup {"release"} =>
                     (At(t) /\ dep'[t] = dep[t]) \/ \A h \in pool : h <= dep'[t]
      PROVE  Apart'
  <2>1. ASSUME NEW t \in {"ioctl", "remove"}, pc'[t] \in DestroyingIt \cup {"release"}
        PROVE  met' \/ \A h \in pool' : h <= dep'[t]
    BY <1>0, <1>1, <2>1
  <2>2. met' \in BOOLEAN /\ (pc'["remove"] # "idle" => met' \/ pc'["ioctl"] = "idle")
    BY <1>0, <1>1
  <2> QED
    BY <2>1, <2>2 DEF Apart
<1> HIDE DEF At, Newest
<1>2. CASE Work
  <2>1. UNCHANGED <<pc, dep, met>> /\ pool' \subseteq pool
    BY <1>2 DEF Work, WorkStart, WorkNext, WorkEnd, WorkInit, WorkNoMemory, WorkLeaves,
       WorkSkip, WorkPut, WorkPost, WorkPosted, WorkDec, WorkComplete
  <2> QED
    BY <1>1, <2>1 DEF At
<1>3. CASE LeafCreates
  BY <1>0, <1>1, <1>3 DEF LeafCreates, At
<1>4. ASSUME NEW u \in {"probe", "ioctl", "leaf"}, Create(u) PROVE Apart'
  <2>1. UNCHANGED <<dep, met>> /\ pc'["remove"] = pc["remove"]
    BY <1>0, <1>4 DEF Create, CreateInc, CreateAdd, CreateRefused, CreateUndo, CreateSchedule
  <2>2. pc'["ioctl"] = pc["ioctl"] \/ (pc["ioctl"] # "idle"
                                       /\ pc'["ioctl"] \notin DestroyingIt \cup {"release"})
    BY <1>0, <1>4 DEF Create, CreateInc, CreateAdd, CreateRefused, CreateUndo, CreateSchedule,
       AfterCreate, DestroyingIt
  <2>3. CASE ~CreateAdd(u)
    <3>1. pool' = pool
      BY <1>4, <2>3 DEF Create, CreateInc, CreateRefused, CreateUndo, CreateSchedule
    <3> QED
      BY <1>1, <2>1, <2>2, <3>1 DEF At
  <2>4. CASE CreateAdd(u)
    <3>1. \A t \in {"ioctl", "remove"} : At(t) => met
      <4>1. pc[u] = "add"
        BY <2>4 DEF CreateAdd
      <4>2. CASE u = "probe"
        <5>1. leaves[MainGroup] = "none"
          BY <4>1, <4>2 DEF UnbindInv, FirstStays
        <5> QED
          BY <5>1 DEF UnbindInv, FirstFresh, At, DestroyingIt
      <4>3. CASE u = "leaf"
        BY <4>1, <4>3 DEF CreatedBefore, At, DestroyingIt, Destroying
      <4>4. CASE u = "ioctl"
        BY <1>0, <4>1, <4>4 DEF At, DestroyingIt
      <4> QED
        BY <4>2, <4>3, <4>4
    <3>2. \A t \in {"ioctl", "remove"} : pc'[t] \in DestroyingIt \cup {"release"} => met'
      BY <2>1, <2>2, <3>1 DEF At
    <3>3. met' \in BOOLEAN /\ (pc'["remove"] # "idle" => met' \/ pc'["ioctl"] = "idle")
      BY <1>0, <2>1, <2>2
    <3> QED
      BY <3>2, <3>3 DEF Apart
  <2> QED
    BY <2>3, <2>4
<1>5. ASSUME NEW u \in {"probe", "ioctl"}, Wait(u) PROVE Apart'
  BY <1>0, <1>1, <1>5 DEF Wait, At, DestroyingIt
<1>6. CASE Download
  <2>1. /\ pool' = pool /\ dep' = dep /\ met' = (met \/ pc["remove"] # "idle")
        /\ pc'["remove"] = pc["remove"] /\ pc'["ioctl"] \in {"inc", "get"}
    BY <1>0, <1>6 DEF Download, Quiet
  <2>2. pc'["ioctl"] \notin DestroyingIt \cup {"release"}
    BY <2>1 DEF DestroyingIt
  <2>3. ASSUME pc'["remove"] \in DestroyingIt \cup {"release"} PROVE met'
    BY <2>1, <2>3 DEF DestroyingIt
  <2> QED
    BY <1>0, <2>1, <2>2, <2>3 DEF Apart
<1>7. CASE GiveUp \/ KeepGroup
  BY <1>0, <1>1, <1>7 DEF GiveUp, KeepGroup, At, DestroyingIt
<1>8. ASSUME NEW t \in {"ioctl", "remove"}, Destroy(t) PROVE Apart'
  <2>1. met' = met /\ pc[t] # "idle" /\ \A u \in Thread \ {t} : pc'[u] = pc[u] /\ dep'[u] = dep[u]
    BY <1>0, <1>8 DEF Destroy, DestroyGet, DestroyWalk, DestroyRelease, SingleGet, FiniLock,
       FiniNode, FiniLeaves, SinglePut, SingleAwait, SingleDel, SingleDelNothing, SingleFreed, Leave
  <2>2. pool' \subseteq pool
    BY <1>8 DEF Destroy, DestroyGet, DestroyWalk, DestroyRelease, SingleGet, FiniLock,
       FiniNode, FiniLeaves, SinglePut, SingleAwait, SingleDel, SingleDelNothing, SingleFreed, Leave
  <2>3. pc'[t] \in DestroyingIt \cup {"release"} =>
            (At(t) /\ dep'[t] = dep[t]) \/ \A h \in pool : h <= dep'[t]
    <3>1. CASE DestroyWalk(t)
      <4>1. pool # {}
        BY <3>1, AtHand DEF DestroyWalk, OnTheWay
      <4>2. dep'[t] = Max(pool)
        BY <1>0, <3>1 DEF DestroyWalk
      <4> QED
        BY <1>0, <4>1, <4>2, NewestListed
    <3>2. CASE DestroyGet(t)
      BY <1>0, <3>2 DEF DestroyGet, AfterDestroy, DestroyingIt
    <3>3. CASE ~DestroyWalk(t) /\ ~DestroyGet(t)
      BY <1>0, <1>8, <3>3 DEF Destroy, DestroyRelease, SingleGet, FiniLock,
         FiniNode, FiniLeaves, SinglePut, SingleAwait, SingleDel, SingleDelNothing, SingleFreed, Leave, At, DestroyingIt
    <3> QED
      BY <3>1, <3>2, <3>3
  <2> QED
    BY <1>0, <1>1, <2>1, <2>2, <2>3 DEF At
<1>9. CASE RemoveStart
  <2>1. /\ pool' = pool /\ dep' = dep /\ met' = (met \/ pc["ioctl"] # "idle")
        /\ pc'["remove"] = "first" /\ pc'["ioctl"] = pc["ioctl"]
    BY <1>0, <1>9 DEF RemoveStart
  <2>2. pc'["remove"] \notin DestroyingIt \cup {"release"}
    BY <2>1 DEF DestroyingIt
  <2>3. ASSUME pc'["ioctl"] \in DestroyingIt \cup {"release"} PROVE met'
    BY <2>1, <2>3 DEF DestroyingIt
  <2> QED
    BY <1>0, <2>1, <2>2, <2>3 DEF Apart
<1>10. CASE Remove
  BY <1>0, <1>1, <1>10 DEF Remove, RemoveFirst, RemoveFlush, RemoveLeft, RemoveEnd, Leave,
     At, DestroyingIt
<1>11. CASE UNCHANGED vars
  BY <1>1, <1>11 DEF vars, At
<1> QED
  BY <1>2, <1>3, <1>4, <1>5, <1>6, <1>7, <1>8, <1>9, <1>10, <1>11 DEF Next

\* Groups are torn down newest first, and those a group depends on after it, as
\* long as leaves have created theirs before any is destroyed.
THEOREM TeardownInOrder ==
    ASSUME MainSafe PROVE Spec /\ []CreatedBefore => DependentsFirst
<1>1. Init => Apart
  BY DEF Init, Apart, Thread, DestroyingIt
<1>2. UnbindInv /\ HeldGroupListed /\ Apart /\ CreatedBefore /\ [Next]_vars => Apart'
  BY ApartStep
<1>3. UnbindInv /\ HeldGroupListed /\ Apart /\ [Next]_vars
          => [\A g \in Group : TornDown(g) => NewerDown(g) \/ met]_vars
  BY TearsNewest
<1> QED
  BY <1>1, <1>2, <1>3, UnbindInvariant, HeldGroupsStay, PTL DEF Spec, DependentsFirst

\* Only leaves of the main group, such as VSEC's and xmgmt-main, create groups.
MainSpawns == Spawners \subseteq {MainGroup}

\* Once the main group is done with, it stays so.
LEMMA DoneStays ==
    ASSUME MainSafe, MainSpawns, UnbindInv, HeldGroupListed, MainDone, Next
    PROVE  MainDone'
<1> USE DEF groups, inside, counts, work, aims, region, Go, WGo
<1> DEFINE Busy == {"leaves", "put", "post", "posting", "dec"}
<1>0. /\ pc = [u \in Thread |-> pc[u]] /\ {"probe", "ioctl", "leaf", "remove"} = Thread
      /\ leaves = [h \in Group |-> leaves[h]] /\ MainGroup \in Group
      /\ leaves[MainGroup] \in {"none", "up", "gone"}
      /\ leaves[MainGroup] = "up" => created[MainGroup]
      /\ leaves[MainGroup] # "none" /\ pc["leaf"] = "idle"
      /\ cur = MainGroup /\ wpc \in Busy => leaves[MainGroup] = "gone"
  BY Numbers DEF UnbindInv, Types, LeavesListed, Thread, MainDone
<1>1. leaves'[MainGroup] # "none" /\ (leaves[MainGroup] = "gone" => leaves'[MainGroup] = "gone")
  BY <1>0, LeavesStep
<1>2. ASSUME pc'["leaf"] = "idle", wpc' \in Busy /\ cur' = MainGroup
                                      => leaves[MainGroup] = "gone" \/ (wpc \in Busy /\ cur = MainGroup)
      PROVE  MainDone'
  BY <1>0, <1>1, <1>2 DEF MainDone
<1>3. CASE Work
  <2>1. pc' = pc
    BY <1>3 DEF Work, WorkStart, WorkNext, WorkEnd, WorkInit, WorkNoMemory, WorkLeaves,
       WorkSkip, WorkPut, WorkPost, WorkPosted, WorkDec, WorkComplete
  <2>2. CASE WorkInit
    BY <1>0, <1>2, <2>1, <2>2 DEF WorkInit
  <2>3. CASE WorkNoMemory
    BY <1>0, <1>2, <2>1, <2>3 DEF WorkNoMemory, MainSafe
  <2>4. CASE ~WorkInit /\ ~WorkNoMemory
    <3>1. wpc' \in Busy => wpc \in Busy /\ cur' = cur
      BY <1>3, <2>4 DEF Work, WorkStart, WorkNext, WorkEnd, WorkLeaves,
         WorkSkip, WorkPut, WorkPost, WorkPosted, WorkDec, WorkComplete
    <3> QED
      BY <1>0, <1>2, <2>1, <3>1
  <2> QED
    BY <2>2, <2>3, <2>4
<1>4. ~LeafCreates
  BY <1>0 DEF LeafCreates, MainSpawns
<1>5. CASE ~Work
  <2>1. UNCHANGED <<wpc, cur>> /\ pc'["leaf"] = "idle"
    BY <1>0, <1>4, <1>5 DEF Next, Create, CreateInc, CreateAdd, CreateRefused, CreateUndo,
         CreateSchedule, Wait, Download, GiveUp, KeepGroup, RemoveStart, Remove, RemoveFirst,
         RemoveFlush, RemoveLeft, RemoveEnd, Destroy, DestroyGet, DestroyWalk, DestroyRelease,
         SingleGet, FiniLock, FiniNode, FiniLeaves, SinglePut, SingleAwait, SingleDel, SingleDelNothing, SingleFreed, Leave
  <2> QED
    BY <1>2, <2>1
<1> QED
  BY <1>3, <1>5

\* The first pass of the work over the groups brings up the main group, and
\* completes nothing before.
LEMMA PassStep ==
    ASSUME MainSafe, MainSpawns, UnbindInv, HeldGroupListed, FirstPass, Next
    PROVE  FirstPass'
<1> USE DEF groups, inside, counts, work, aims, region, Go, WGo
<1>0. /\ pc = [u \in Thread |-> pc[u]] /\ {"probe", "ioctl", "leaf", "remove"} = Thread
      /\ leaves = [h \in Group |-> leaves[h]] /\ MainGroup \in Group
      /\ pc["leaf"] # "idle" => wpc \in {"leaves", "posting"}
      /\ comp \in Nat
  BY Numbers DEF UnbindInv, Types, Places, Thread
<1> DEFINE First == /\ cur = MainGroup /\ wpc \in {"put", "post", "posting", "dec"}
                    /\ comp = 0 /\ pc["probe"] # "done"
<1>1. CASE leaves[MainGroup] = "none"
  <2>1. /\ comp = 0 /\ pc["probe"] # "done" /\ pc["ioctl"] = "idle" /\ pc["remove"] = "idle"
        /\ wpc \in {"idle", "next", "init", "leaves"}
        /\ wpc \in {"init", "leaves"} => cur = MainGroup
    BY <1>1 DEF UnbindInv, FirstFresh
  <2>2. CASE WorkLeaves
    BY <2>1, <2>2 DEF WorkLeaves, FirstPass
  <2>3. CASE ~WorkLeaves
    <3>1. leaves' = leaves
      BY <2>1, <2>3 DEF Next, Work, WorkStart, WorkNext, WorkEnd, WorkInit, WorkNoMemory,
         WorkSkip, WorkPut, WorkPost, WorkPosted, WorkDec, WorkComplete, LeafCreates, Create,
         CreateInc, CreateAdd, CreateRefused, CreateUndo, CreateSchedule, Wait, Download,
         GiveUp, KeepGroup, RemoveStart, Remove, RemoveFirst, RemoveFlush, RemoveLeft, RemoveEnd,
         Destroy, DestroyGet, DestroyWalk, DestroyRelease, SingleGet, FiniLock, FiniNode,
         FiniLeaves, SinglePut, SingleAwait, SingleDel, SingleDelNothing, SingleFreed
    <3> QED
      BY <1>1, <3>1 DEF FirstPass
  <2> QED
    BY <2>2, <2>3
<1>2. CASE MainDone
  BY <1>2, DoneStays DEF FirstPass
<1>3. CASE leaves[MainGroup] # "none" /\ First
  <2>0. leaves'[MainGroup] # "none"
    BY <1>3, LeavesStep
  <2>1. CASE Work
    <3>1. pc' = pc
      BY <2>1 DEF Work, WorkStart, WorkNext, WorkEnd, WorkInit, WorkNoMemory, WorkLeaves,
         WorkSkip, WorkPut, WorkPost, WorkPosted, WorkDec, WorkComplete
    <3>2. CASE WorkDec
      BY <1>0, <1>3, <2>0, <3>1, <3>2 DEF WorkDec, FirstPass, MainDone
    <3>3. CASE ~WorkDec
      <4>1. cur' = cur /\ comp' = comp /\ wpc' \in {"put", "post", "posting", "dec"}
        BY <1>3, <2>1, <3>3 DEF Work, WorkStart, WorkNext, WorkEnd, WorkInit, WorkNoMemory,
           WorkLeaves, WorkSkip, WorkPut, WorkPost, WorkPosted, WorkComplete
      <4> QED
        BY <1>3, <3>1, <4>1 DEF FirstPass
    <3> QED
      BY <3>2, <3>3
  <2>2. CASE ~Work
    <3>1. UNCHANGED <<wpc, cur>>
      BY <2>2 DEF Next, LeafCreates, Create, CreateInc, CreateAdd, CreateRefused, CreateUndo,
         CreateSchedule, Wait, Download, GiveUp, KeepGroup, RemoveStart, Remove, RemoveFirst,
         RemoveFlush, RemoveLeft, RemoveEnd, Destroy, DestroyGet, DestroyWalk, DestroyRelease,
         SingleGet, FiniLock, FiniNode, FiniLeaves, SinglePut, SingleAwait, SingleDel, SingleDelNothing, SingleFreed, Leave
    <3>2. \A t \in {"probe", "ioctl"} : ~Wait(t)
      BY <1>3 DEF Wait
    <3>3. comp' = comp
      BY <2>2, <3>2 DEF Next, LeafCreates, Create, CreateInc, CreateAdd, CreateRefused, CreateUndo,
         CreateSchedule, Download, GiveUp, KeepGroup, RemoveStart, Remove, RemoveFirst,
         RemoveFlush, RemoveLeft, RemoveEnd, Destroy, DestroyGet, DestroyWalk, DestroyRelease,
         SingleGet, FiniLock, FiniNode, FiniLeaves, SinglePut, SingleAwait, SingleDel, SingleDelNothing, SingleFreed, Leave
    <3>4. pc'["probe"] # "done"
      BY <1>0, <1>3, <2>2, <3>2 DEF Next, LeafCreates, Create, CreateInc, CreateAdd,
         CreateRefused, CreateUndo, CreateSchedule, AfterCreate, Download, GiveUp, KeepGroup,
         RemoveStart, Remove, RemoveFirst, RemoveFlush, RemoveLeft, RemoveEnd, Destroy, DestroyGet,
         DestroyWalk, DestroyRelease, SingleGet, FiniLock, FiniNode, FiniLeaves, SinglePut,
         SingleAwait, SingleDel, SingleDelNothing, SingleFreed, Leave
    <3> QED
      BY <1>3, <3>1, <3>3, <3>4 DEF FirstPass
  <2> QED
    BY <2>1, <2>2
<1> QED
  BY <1>1, <1>2, <1>3 DEF FirstPass

\* A download has waited before it destroys a group.
LEMMA WaitedStep ==
    ASSUME MainSafe, MainSpawns, UnbindInv, HeldGroupListed, SpawnInv, Next
    PROVE  Waited'
<1> USE DEF groups, inside, counts, work, aims, region, Go
<1>0. /\ pc = [u \in Thread |-> pc[u]] /\ {"probe", "ioctl", "leaf", "remove"} = Thread
      /\ FirstPass /\ Waited
  BY DEF UnbindInv, Types, Thread, SpawnInv
<1> DEFINE Needs == \/ pc["ioctl"] \in Destroying \cup {"judge"}
                    \/ pc["ioctl"] = "idle" /\ mine # NoGroup
           Bare == pc["ioctl"] \in Destroying \cup {"inc", "add", "undo"} => mine = NoGroup
<1>1. ASSUME Bare', Needs' => MainDone
      PROVE  Waited'
  BY <1>1, DoneStays DEF Waited
<1>2. Bare /\ (Needs => MainDone)
  BY <1>0 DEF Waited
<1>3. CASE UNCHANGED <<mine, pc>> \/ (mine' = mine /\ pc'["ioctl"] = pc["ioctl"])
  BY <1>1, <1>2, <1>3
<1>4. CASE Work
  BY <1>3, <1>4 DEF Work, WorkStart, WorkNext, WorkEnd, WorkInit, WorkNoMemory, WorkLeaves,
     WorkSkip, WorkPut, WorkPost, WorkPosted, WorkDec, WorkComplete
<1>5. ASSUME NEW u \in {"probe", "leaf"}, Create(u) PROVE Waited'
  BY <1>0, <1>3, <1>5 DEF Create, CreateInc, CreateAdd, CreateRefused, CreateUndo, CreateSchedule
<1>6. CASE Create("ioctl")
  <2>1. CASE CreateInc("ioctl") \/ CreateRefused("ioctl")
    BY <1>0, <1>1, <1>2, <2>1 DEF CreateInc, CreateRefused, Destroying
  <2>2. CASE CreateAdd("ioctl") \/ CreateSchedule("ioctl")
    BY <1>0, <1>1, <2>2 DEF CreateAdd, CreateSchedule, AfterCreate, Destroying
  <2>3. CASE CreateUndo("ioctl")
    BY <1>0, <1>1, <1>2, <2>3 DEF CreateUndo, AfterCreate, Destroying
  <2> QED
    BY <1>6, <2>1, <2>2, <2>3 DEF Create
<1>7. CASE Wait("ioctl")
  <2>1. comp > 0
    BY <1>7 DEF Wait
  <2>2. leaves[MainGroup] # "none"
    BY <2>1 DEF UnbindInv, FirstFresh
  <2>3. MainDone
    BY <1>0, <2>1, <2>2 DEF FirstPass
  <2> QED
    BY <1>0, <1>1, <1>7, <2>3 DEF Wait, Destroying
<1>8. CASE Wait("probe") \/ LeafCreates
  BY <1>0, <1>3, <1>8 DEF Wait, LeafCreates
<1>9. CASE Download
  BY <1>0, <1>1, <1>2, <1>9 DEF Download, Destroying
<1>10. CASE GiveUp \/ KeepGroup
  BY <1>0, <1>1, <1>2, <1>10 DEF GiveUp, KeepGroup, Destroying
<1>11. CASE Destroy("ioctl")
  <2>1. pc["ioctl"] \in Destroying /\ mine' = mine
    BY <1>11 DEF Destroy, DestroyGet, DestroyWalk, DestroyRelease, SingleGet, FiniLock,
       FiniNode, FiniLeaves, SinglePut, SingleAwait, SingleDel, SingleDelNothing, SingleFreed, Leave, Destroying
  <2> QED
    BY <1>1, <1>2, <2>1
<1>12. CASE Destroy("remove")
  BY <1>0, <1>3, <1>12 DEF Destroy, DestroyGet, DestroyWalk, DestroyRelease, SingleGet, FiniLock,
     FiniNode, FiniLeaves, SinglePut, SingleAwait, SingleDel, SingleDelNothing, SingleFreed, Leave
<1>13. CASE RemoveStart \/ Remove
  BY <1>0, <1>3, <1>13 DEF RemoveStart, Remove, RemoveFirst, RemoveFlush, RemoveLeft, RemoveEnd,
     Leave
<1> QED
  BY <1>4, <1>5, <1>6, <1>7, <1>8, <1>9, <1>10, <1>11, <1>12, <1>13 DEF Next

\* Leaves of the main group create groups while probe waits, and only then.
LEMMA SpawnedBefore ==
    ASSUME UnbindInv, SpawnInv
    PROVE  CreatedBefore
<1>1. pc["ioctl"] \in Destroying => MainDone
  BY DEF SpawnInv, Waited
<1>2. pc["remove"] # "idle" => MainDone
  BY DEF UnbindInv, Places, FirstFresh, SpawnInv, FirstPass
<1> QED
  BY <1>1, <1>2 DEF CreatedBefore, MainDone

\* xroot_destroy_group and xroot_remove tear groups down in the reverse order
\* of their creation, whatever was being brought up, and for any number of
\* downloads, early ones too: nobody gets to destroy a group before the
\* bringup of the main group, whose leaves create others, has been waited for.
THEOREM DependentsGoFirst ==
    ASSUME MainSafe, MainSpawns PROVE Spec => DependentsFirst
<1>1. Init => SpawnInv
  <2> SUFFICES ASSUME Init PROVE SpawnInv
    OBVIOUS
  <2>1. MainGroup \in Group
    BY UnbindInit, Numbers DEF UnbindInv
  <2>2. FirstPass
    BY <2>1 DEF Init, FirstPass
  <2>3. Waited
    BY DEF Init, Waited, Thread, Destroying
  <2> QED
    BY <2>2, <2>3 DEF SpawnInv
<1>2. UnbindInv /\ HeldGroupListed /\ SpawnInv /\ [Next]_vars => SpawnInv'
  <2> SUFFICES ASSUME UnbindInv, HeldGroupListed, SpawnInv, [Next]_vars PROVE SpawnInv'
    OBVIOUS
  <2>1. CASE Next
    BY <2>1, PassStep, WaitedStep DEF SpawnInv
  <2>2. CASE UNCHANGED vars
    BY <2>2 DEF vars, groups, inside, counts, work, aims, region, SpawnInv, FirstPass, Waited,
       MainDone
  <2> QED
    BY <2>1, <2>2
<1>3. UnbindInv /\ SpawnInv => CreatedBefore
  BY SpawnedBefore
<1> QED
  BY <1>1, <1>2, <1>3, UnbindInvariant, HeldGroupsStay, TeardownInOrder, PTL DEF Spec

=============================================================================
