--------------------------- MODULE RootGroupsProofs ---------------------------
(***************************************************************************)
(* Theorems about the groups of a root, for any number of groups.          *)
(***************************************************************************)
EXTENDS RootGroupsProps, FiniteSetTheorems, WellFoundedInduction, TLAPS

-----------------------------------------------------------------------------
(* References on groups.                                                    *)

\* The oldest of some groups is one of them.
LEMMA MinMember ==
    ASSUME NEW S \in SUBSET Nat, S # {}
    PROVE  Min(S) \in S /\ \A g \in S : Min(S) <= g
<1> DEFINE upto(x) == S \cap 0 .. x
           T == {upto(x) : x \in S}
           R == StrictSubsetOrdering(Nat)
<1>1. T # {} /\ T \subseteq FiniteSubsetsOf(Nat)
  <2>1. ASSUME NEW x \in S PROVE upto(x) \in FiniteSubsetsOf(Nat)
    <3>1. IsFiniteSet(0 .. x)
      BY FS_Interval
    <3> QED
      BY <3>1, FS_Subset DEF FiniteSubsetsOf
  <2> QED
    BY <2>1
<1>2. IsWellFoundedOn(R, FiniteSubsetsOf(Nat))
  BY FS_StrictSubsetOrderingWellFounded
<1>3. \E Z \in T : \A Y \in T : ~ (<<Y, Z>> \in R)
  <2> HIDE DEF T, R
  <2> QED
    BY <1>1, <1>2, WFMin
<1>4. PICK x \in S : \A y \in S : ~ (<<upto(y), upto(x)>> \in R)
  BY <1>3
<1>5. ASSUME NEW y \in S, y < x
      PROVE  FALSE
  <2>1. upto(y) \subseteq upto(x) /\ x \in upto(x) /\ x \notin upto(y)
    BY <1>5
  <2> QED
    BY <2>1, <1>4 DEF StrictSubsetOrdering
<1>6. \A y \in S : x <= y
  BY <1>5
<1> QED
  BY <1>6 DEF Min

\* A reference on a group is on a listed group: xroot_put_group always finds it.
HeldGroupListed == \A g \in Group : hold[g] > 0 => g \in pool

\* What the references need of the types: groups are numbers, and every group
\* has a count.
Counted == made \in Nat /\ pool \subseteq Nat /\ hold \in [Group -> Int]

ListedInv == Counted /\ HeldGroupListed

\* One more reference on a listed group, or one less on any.
LEMMA HoldListed ==
    ASSUME ListedInv, NEW g, Hold(g), g \in pool, pool' = pool, made' = made
    PROVE  ListedInv'
<1>1. CASE g \in Group
  <2>1. hold' \in [Group -> Int] /\ \A h \in Group : h # g => hold'[h] = hold[h]
    BY <1>1 DEF ListedInv, Counted, Hold
  <2> QED
    BY <2>1 DEF ListedInv, Counted, HeldGroupListed
<1>2. CASE g \notin Group
  <2>1. hold' = hold
    BY <1>2 DEF ListedInv, Counted, Hold
  <2> QED
    BY <2>1 DEF ListedInv, Counted, HeldGroupListed
<1> QED
  BY <1>1, <1>2

\* A put of a group that is held keeps the held groups listed (xroot_put_group).
LEMMA PutListed ==
    ASSUME ListedInv, NEW g, Put(g), pool' = pool, made' = made
    PROVE  ListedInv'
<1>1. CASE g \in Group
  <2>1. hold' \in [Group -> Int] /\ \A h \in Group : hold'[h] <= hold[h]
    BY <1>1 DEF ListedInv, Counted, Put
  <2> QED
    BY <2>1 DEF ListedInv, Counted, HeldGroupListed
<1>2. CASE g \notin Group
  <2>1. hold' = hold
    BY <1>2 DEF ListedInv, Counted, Put
  <2> QED
    BY <2>1 DEF ListedInv, Counted, HeldGroupListed
<1> QED
  BY <1>1, <1>2

\* A group that leaves the pool is one nobody holds (xrt_subdev_pool_del).
LEMMA LeaveListed ==
    ASSUME ListedInv, NEW g, Leave(g)
    PROVE  ListedInv'
<1>1. hold' = hold /\ made' = made /\ pool' = pool \ {g} /\ hold[g] = 0
  BY DEF Leave
<1>2. ASSUME NEW h \in Group, hold[h] > 0
      PROVE  h \in pool \ {g}
  <2>1. h # g
    BY <1>1, <1>2
  <2> QED
    BY <1>2, <2>1 DEF ListedInv, HeldGroupListed
<1> QED
  BY <1>1, <1>2 DEF ListedInv, Counted, HeldGroupListed

\* What leaves the pool and the holds alone keeps the held groups listed.
LEMMA SameListed ==
    ASSUME ListedInv, UNCHANGED <<made, pool, hold>>
    PROVE  ListedInv'
  BY DEF ListedInv, Counted, HeldGroupListed

\* Gets are on listed groups, and a group leaves when nobody holds it.
LEMMA ListedInvStep == ListedInv /\ [Next]_vars => ListedInv'
<1> SUFFICES ASSUME ListedInv, [Next]_vars PROVE ListedInv'
  OBVIOUS
<1> USE DEF groups, inside, counts, work, aims, region
<1>1. CASE WorkNext
  <2>1. Newer \subseteq pool /\ Newer # {} /\ Newer \in SUBSET Nat
    BY <1>1 DEF WorkNext, Newer, ListedInv, Counted
  <2>2. Min(Newer) \in pool
    BY <2>1, MinMember
  <2> QED
    BY <1>1, <2>2, HoldListed DEF WorkNext
<1>2. CASE WorkSkip \/ WorkPut \/ WorkPosted
  BY <1>2, PutListed DEF WorkSkip, WorkPut, WorkPosted
<1>3. CASE WorkPost
  BY <1>3, HoldListed, SameListed DEF WorkPost
<1>4. CASE WorkStart \/ WorkEnd \/ WorkInit \/ WorkNoMemory \/ WorkLeaves
           \/ WorkDec \/ WorkComplete \/ LeafCreates
  BY <1>4, SameListed DEF WorkStart, WorkEnd, WorkInit, WorkNoMemory,
     WorkLeaves, WorkDec, WorkComplete, LeafCreates
<1>5. ASSUME NEW t \in Thread, Create(t) \/ Wait(t)
      PROVE  ListedInv'
  <2>1. CASE CreateAdd(t)
    BY <2>1 DEF CreateAdd, ListedInv, Counted, HeldGroupListed
  <2>2. CASE CreateInc(t) \/ CreateRefused(t) \/ CreateUndo(t) \/ CreateSchedule(t)
             \/ Wait(t)
    BY <2>2, SameListed DEF CreateInc, CreateRefused, CreateUndo, CreateSchedule, Wait
  <2> QED
    BY <1>5, <2>1, <2>2 DEF Create
<1>6. ASSUME NEW t \in Thread, Destroy(t)
      PROVE  ListedInv'
  <2>1. CASE DestroyGet(t)
    BY <2>1, HoldListed, SameListed DEF DestroyGet
  <2>2. CASE SingleGet(t)
    BY <2>2, HoldListed, SameListed DEF SingleGet
  <2>3. CASE DestroyRelease(t) \/ SinglePut(t)
    BY <2>3, PutListed DEF DestroyRelease, SinglePut
  <2>4. CASE SingleDel(t)
    BY <2>4, LeaveListed DEF SingleDel
  <2>5. CASE DestroyWalk(t) \/ FiniLock(t) \/ FiniNode(t) \/ FiniLeaves(t)
             \/ SingleAwait(t) \/ SingleDelNothing(t) \/ SingleFreed(t)
    BY <2>5, SameListed DEF DestroyWalk, FiniLock, FiniNode, FiniLeaves, SingleAwait,
       SingleDelNothing, SingleFreed
  <2> QED
    BY <1>6, <2>1, <2>2, <2>3, <2>4, <2>5 DEF Destroy
<1>7. CASE Download \/ GiveUp \/ KeepGroup \/ RemoveStart \/ RemoveFirst
           \/ RemoveFlush \/ RemoveEnd
  BY <1>7, SameListed DEF Download, GiveUp, KeepGroup, RemoveStart, RemoveFirst,
     RemoveFlush, RemoveEnd
<1>8. CASE RemoveLeft
  BY <1>8, LeaveListed DEF RemoveLeft
<1>9. CASE UNCHANGED vars
  BY <1>9, SameListed DEF vars
<1> QED
  BY <1>1, <1>2, <1>3, <1>4, <1>5, <1>6, <1>7, <1>8, <1>9
  DEF Next, Work, Remove, Thread

\* xroot.c:182.  A reference on a group is on a listed group, whoever creates,
\* brings up, destroys or unbinds beside each other.
LEMMA HeldGroupsStay == Spec => []HeldGroupListed
<1>1. Init => ListedInv
  BY DEF Init, ListedInv, Counted, HeldGroupListed, groups
<1>2. ListedInv => HeldGroupListed
  BY DEF ListedInv
<1> QED
  BY <1>1, <1>2, ListedInvStep, PTL DEF Spec

-----------------------------------------------------------------------------
(* Bringup at probe.                                                        *)

\* What is proved of bringup is proved until somebody downloads or unbinds,
\* and when no group's bringup fails for memory: the count is not kept up
\* otherwise.
AtBringup == Downloads = 0 /\ ~Unbind /\ NoMemory = {}

\* The groups are those made so far, and only the probe and the leaves the work
\* calls create any.
Shape ==
    /\ made \in Nat /\ pool = {g \in Group : g < made} /\ ~closing
    /\ created \in [Group -> BOOLEAN] /\ \A g \in Group : created[g] => g \in pool
    /\ pending \in Int /\ comp \in Nat /\ got = 0
    /\ spawned \subseteq Spawners
    /\ pc \in [Thread -> Creating \cup {"idle", "wait", "done"}]
    /\ pc["ioctl"] = "idle" /\ pc["remove"] = "idle" /\ pc["probe"] # "idle"
    /\ pc["leaf"] \notin {"wait", "done"}

\* The work is at a listed group, which has its leaves from "put" on; leaves
\* create groups while the work waits for them.
WorkAtGroup ==
    /\ wpc \in {"init", "skip", "leaves", "put", "post", "posting", "dec"} => cur \in pool
    /\ wpc = "leaves" => ~created[cur]
    /\ wpc \in {"put", "post", "posting", "dec"} => created[cur]
    /\ pc["leaf"] # "idle" => wpc \in {"leaves", "posting"}

\* There is a number for each group still to come.
Coming(t) == IF pc[t] \in {"inc", "add"} THEN 1 ELSE 0
RoomLeft == made + Coming("probe") + Coming("leaf") <= 1 + Cardinality(spawned)

\* Until the probe has made its group there is none; when bringup was completed
\* there is one, and nothing outstanding.
ProbeFirst == pc["probe"] \in {"inc", "add", "undo"} => made = 0
CompletedUp == comp > 0 \/ wpc = "complete" => made > 0 /\ pending = 0

BringupInv ==
    /\ Shape /\ WorkAtGroup /\ RoomLeft /\ ProbeFirst /\ CompletedUp /\ PendingExact

\* Nobody else does anything.
LEMMA OnlyBringup ==
    ASSUME AtBringup, Shape, [Next]_vars
    PROVE  \/ Work \/ LeafCreates \/ Create("probe") \/ Create("leaf")
           \/ Wait("probe") \/ UNCHANGED vars
<1>1. ~ Create("ioctl") /\ ~ Wait("ioctl")
  BY DEF Shape, Create, CreateInc, CreateAdd, CreateRefused, CreateUndo,
     CreateSchedule, Wait, Go
<1>2. ASSUME NEW t \in {"ioctl", "remove"} PROVE ~ Destroy(t)
  BY DEF Shape, Destroy, DestroyGet, DestroyWalk, DestroyRelease, SingleGet,
     FiniLock, FiniNode, FiniLeaves, SinglePut, SingleAwait, SingleDel, SingleDelNothing, SingleFreed, Go
<1>3. ~ Download
  BY DEF AtBringup, Shape, Download
<1>4. ~ GiveUp /\ ~ KeepGroup
  BY DEF Shape, GiveUp, KeepGroup, Go
<1>5. ~ RemoveStart
  BY DEF AtBringup, RemoveStart
<1>6. ~ Remove
  BY DEF Shape, Remove, RemoveFirst, RemoveFlush, RemoveLeft, RemoveEnd, Go
<1> QED
  BY <1>1, <1>2, <1>3, <1>4, <1>5, <1>6 DEF Next

\* The probes that make groups are finitely many, so their counts are numbers.
LEMMA SpawnersFinite ==
    ASSUME Shape
    PROVE  /\ IsFiniteSet(Group) /\ IsFiniteSet(Spawners) /\ IsFiniteSet(spawned)
           /\ Cardinality(Spawners) \in Nat /\ Cardinality(spawned) \in Nat
           /\ Cardinality(spawned) <= Cardinality(Spawners)
<1>1. IsFiniteSet(Group)
  BY GroupsAssumption, FS_Interval DEF Group
<1>2. IsFiniteSet(Spawners)
  BY <1>1, GroupsAssumption, FS_Subset
<1>3. IsFiniteSet(spawned) /\ Cardinality(spawned) <= Cardinality(Spawners)
  BY <1>2, FS_Subset DEF Shape
<1> QED
  BY <1>1, <1>2, <1>3, FS_CardinalityType

\* A group that is added has a number.
LEMMA AddHasRoom ==
    ASSUME AtBringup, BringupInv, NEW t \in {"probe", "leaf"}, pc[t] = "add"
    PROVE  made \in Group /\ made \notin pool /\ ~ created[made]
<1>1. made + 1 <= 1 + Cardinality(spawned)
  BY SpawnersFinite DEF BringupInv, RoomLeft, Coming, Shape
<1>2. made < MaxGroups
  BY <1>1, SpawnersFinite, GroupsAssumption DEF BringupInv, AtBringup, Shape
<1> QED
  BY <1>2, GroupsAssumption DEF BringupInv, Shape, Group

\* The steps that can be taken keep the shape.
LEMMA ShapeStep ==
    ASSUME AtBringup, BringupInv, [Next]_vars
    PROVE  Shape'
<1> USE DEF groups, inside, counts, work, aims, region, Go, WGo
<1>0. Shape /\ WorkAtGroup
  BY DEF BringupInv
<1>1. CASE Work
  <2>1. CASE WorkStart \/ WorkNext \/ WorkEnd \/ WorkInit \/ WorkSkip \/ WorkPut
             \/ WorkPost \/ WorkPosted \/ WorkDec \/ WorkComplete
    BY <2>1, <1>0 DEF Shape, WorkStart, WorkNext, WorkEnd, WorkInit, WorkSkip,
       WorkPut, WorkPost, WorkPosted, WorkDec, WorkComplete
  <2>2. CASE WorkLeaves
    BY <2>2, <1>0 DEF Shape, WorkAtGroup, WorkLeaves
  <2>3. ~ WorkNoMemory
    BY DEF AtBringup, WorkNoMemory
  <2> QED
    BY <1>1, <2>1, <2>2, <2>3 DEF Work
<1>2. CASE LeafCreates
  BY <1>2, <1>0 DEF Shape, LeafCreates, Thread, Creating
<1>3. ASSUME NEW t \in {"probe", "leaf"}, Create(t)
      PROVE  Shape'
  <2>1. CASE CreateAdd(t)
    <3>1. made \in Group /\ made \notin pool
      BY <2>1, AddHasRoom DEF CreateAdd
    <3>2. pool' = {g \in Group : g < made'}
      BY <2>1, <3>1, <1>0 DEF CreateAdd, Shape, Group
    <3> QED
      BY <2>1, <3>2, <1>0 DEF CreateAdd, Shape, Thread, Creating
  <2>2. CASE CreateInc(t) \/ CreateRefused(t)
    BY <2>2, <1>0 DEF Shape, CreateInc, CreateRefused, Thread, Creating
  <2>3. CASE CreateUndo(t) \/ CreateSchedule(t)
    BY <2>3, <1>0 DEF Shape, CreateUndo, CreateSchedule, AfterCreate, Thread, Creating
  <2> QED
    BY <1>3, <2>1, <2>2, <2>3 DEF Create
<1>4. CASE Wait("probe")
  BY <1>4, <1>0 DEF Shape, Wait, Thread
<1>5. CASE UNCHANGED vars
  BY <1>5, <1>0 DEF Shape, vars
<1> QED
  BY <1>0, <1>1, <1>2, <1>3, <1>4, <1>5, OnlyBringup

\* The work stays at a group, and goes on when the leaf it called is done.
LEMMA WorkAtStep ==
    ASSUME AtBringup, BringupInv, [Next]_vars
    PROVE  WorkAtGroup' /\ ProbeFirst'
<1> USE DEF groups, inside, counts, work, aims, region, Go, WGo
<1>0. Shape /\ WorkAtGroup /\ ProbeFirst
  BY DEF BringupInv
<1>1. CASE Work
  <2>1. CASE WorkNext
    <3>1. Newer \in SUBSET Nat /\ Newer \subseteq pool
      BY <1>0 DEF Newer, Shape, Group
    <3>2. cur' \in pool
      BY <2>1, <3>1, MinMember DEF WorkNext
    <3> QED
      BY <2>1, <3>2, <1>0 DEF WorkNext, WorkAtGroup, ProbeFirst
  <2>2. CASE WorkStart \/ WorkEnd \/ WorkInit \/ WorkSkip \/ WorkPut
             \/ WorkPost \/ WorkPosted \/ WorkDec \/ WorkComplete
    BY <2>2, <1>0 DEF WorkAtGroup, ProbeFirst, WorkStart, WorkEnd, WorkInit, WorkSkip,
       WorkPut, WorkPost, WorkPosted, WorkDec, WorkComplete
  <2>3. CASE WorkLeaves
    BY <2>3, <1>0 DEF Shape, WorkAtGroup, ProbeFirst, WorkLeaves
  <2>4. ~ WorkNoMemory
    BY DEF AtBringup, WorkNoMemory
  <2> QED
    BY <1>1, <2>1, <2>2, <2>3, <2>4 DEF Work
<1>2. CASE LeafCreates
  BY <1>2, <1>0 DEF Shape, WorkAtGroup, ProbeFirst, LeafCreates, Thread
<1>3. ASSUME NEW t \in {"probe", "leaf"}, Create(t)
      PROVE  WorkAtGroup' /\ ProbeFirst'
  <2>1. CASE CreateAdd(t)
    <3>1. t = "leaf" => made # 0
      BY <2>1, <1>0 DEF CreateAdd, WorkAtGroup, Shape, Group
    <3>2. pc["probe"] \in {"inc", "add", "undo"} => t = "probe"
      BY <3>1, <1>0 DEF ProbeFirst
    <3> QED
      BY <2>1, <3>2, <1>0 DEF CreateAdd, WorkAtGroup, ProbeFirst, Shape, Thread
  <2>2. CASE CreateInc(t) \/ CreateRefused(t)
    BY <2>2, <1>0 DEF Shape, WorkAtGroup, ProbeFirst, CreateInc, CreateRefused, Thread
  <2>3. CASE CreateUndo(t) \/ CreateSchedule(t)
    BY <2>3, <1>0 DEF Shape, WorkAtGroup, ProbeFirst, CreateUndo, CreateSchedule,
       AfterCreate, Thread
  <2> QED
    BY <1>3, <2>1, <2>2, <2>3 DEF Create
<1>4. CASE Wait("probe")
  BY <1>4, <1>0 DEF Shape, WorkAtGroup, ProbeFirst, Wait, Thread
<1>5. CASE UNCHANGED vars
  BY <1>5, <1>0 DEF WorkAtGroup, ProbeFirst, vars
<1> QED
  BY <1>0, <1>1, <1>2, <1>3, <1>4, <1>5, OnlyBringup

\* A leaf that begins to create a group has not done so before.
LEMMA RoomStep ==
    ASSUME AtBringup, BringupInv, [Next]_vars
    PROVE  RoomLeft'
<1> USE DEF groups, inside, counts, work, aims, region, Go, WGo
<1>0. Shape /\ WorkAtGroup /\ RoomLeft
  BY DEF BringupInv
<1>1. CASE Work
  BY <1>1, <1>0 DEF RoomLeft, Coming, Work, WorkStart, WorkNext, WorkEnd, WorkInit,
     WorkNoMemory, WorkSkip, WorkLeaves, WorkPut, WorkPost, WorkPosted, WorkDec, WorkComplete
<1>2. CASE LeafCreates
  <2>1. Cardinality(spawned') = Cardinality(spawned) + 1
    BY <1>2, <1>0, SpawnersFinite, FS_AddElement DEF LeafCreates
  <2>2. Coming("leaf") = 0 /\ Coming("leaf")' = 1 /\ Coming("probe")' = Coming("probe")
    BY <1>2, <1>0 DEF LeafCreates, Coming, Shape, Thread
  <2> QED
    BY <1>2, <1>0, <2>1, <2>2, SpawnersFinite DEF RoomLeft, LeafCreates, Coming, Shape
<1>3. ASSUME NEW t \in {"probe", "leaf"}, Create(t)
      PROVE  RoomLeft'
  <2>1. spawned' = spawned /\ Cardinality(spawned) \in Nat
    BY <1>3, <1>0, SpawnersFinite DEF Create, CreateInc, CreateAdd, CreateRefused,
       CreateUndo, CreateSchedule
  <2>2. CASE CreateAdd(t) \/ CreateInc(t) \/ CreateRefused(t)
    BY <2>1, <2>2, <1>0 DEF RoomLeft, Coming, Shape, CreateAdd, CreateInc, CreateRefused, Thread
  <2>3. CASE CreateUndo(t) \/ CreateSchedule(t)
    BY <2>1, <2>3, <1>0 DEF RoomLeft, Coming, Shape, CreateUndo, CreateSchedule,
       AfterCreate, Thread
  <2> QED
    BY <1>3, <2>2, <2>3 DEF Create
<1>4. CASE Wait("probe")
  BY <1>4, <1>0 DEF RoomLeft, Coming, Shape, Wait, Thread
<1>5. CASE UNCHANGED vars
  BY <1>5, <1>0 DEF RoomLeft, Coming, vars
<1> QED
  BY <1>0, <1>1, <1>2, <1>3, <1>4, <1>5, OnlyBringup

\* What bringup_pending_cnt counts.
ToCome == {g \in Group : Outstanding(g)}
BeingMade == {t \in Thread : pc[t] \in {"add", "undo"}}

\* What the count of pending bringups counts: groups to come and groups being made.
LEMMA PendingCounts ==
    ASSUME Shape
    PROVE  /\ IsFiniteSet(ToCome) /\ Cardinality(ToCome) \in Nat
           /\ IsFiniteSet(BeingMade) /\ Cardinality(BeingMade) \in Nat
           /\ PendingExact <=> pending = Cardinality(ToCome) + Cardinality(BeingMade)
           /\ ToCome # {} \/ BeingMade # {}
                  => Cardinality(ToCome) + Cardinality(BeingMade) > 0
<1>1. IsFiniteSet(ToCome)
  BY SpawnersFinite, FS_Subset DEF ToCome
<1>2. IsFiniteSet(Thread)
  <2>1. IsFiniteSet({"probe"} \cup {"ioctl"} \cup {"leaf"} \cup {"remove"})
    BY FS_Singleton, FS_Union
  <2>2. Thread = {"probe"} \cup {"ioctl"} \cup {"leaf"} \cup {"remove"}
    BY DEF Thread
  <2> QED
    BY <2>1, <2>2
<1>3. IsFiniteSet(BeingMade)
  BY <1>2, FS_Subset DEF BeingMade
<1> QED
  BY <1>1, <1>3, FS_CardinalityType, FS_EmptySet DEF PendingExact, ToCome, BeingMade

\* A step that counts nobody in or out.
LEMMA SameCount ==
    ASSUME Shape, Shape', PendingExact, pending' = pending,
           ToCome' = ToCome, BeingMade' = BeingMade
    PROVE  PendingExact'
  BY PendingCounts DEF PendingExact, ToCome, BeingMade

\* Each step of bringup counts the group it begins or ends.
LEMMA WorkCounts ==
    ASSUME AtBringup, BringupInv, Shape', Work
    PROVE  PendingExact'
<1> USE DEF groups, inside, counts, work, aims, region, Go, WGo
<1>0. Shape /\ WorkAtGroup /\ PendingExact
  BY DEF BringupInv
<1>1. CASE WorkDec
  <2>1. cur \in ToCome
    BY <1>0, <1>1 DEF WorkDec, WorkAtGroup, Shape, ToCome, Outstanding
  <2>2. ToCome' = ToCome \ {cur}
    BY <1>0, <1>1 DEF WorkDec, WorkAtGroup, Shape, ToCome, Outstanding
  <2>3. BeingMade' = BeingMade
    BY <1>1 DEF WorkDec, BeingMade
  <2>4. Cardinality(ToCome') = Cardinality(ToCome) - 1
    BY <1>0, <2>1, <2>2, PendingCounts, FS_RemoveElement
  <2> QED
    BY <1>0, <1>1, <2>3, <2>4, PendingCounts DEF WorkDec, PendingExact, ToCome, BeingMade
<1>2. CASE WorkLeaves
  <2>1. ToCome' = ToCome
    BY <1>0, <1>2 DEF WorkLeaves, WorkAtGroup, Shape, ToCome, Outstanding
  <2>2. BeingMade' = BeingMade /\ pending' = pending
    BY <1>2 DEF WorkLeaves, BeingMade
  <2> QED
    BY <1>0, <2>1, <2>2, SameCount
<1>3. CASE WorkStart \/ WorkNext \/ WorkEnd \/ WorkInit \/ WorkSkip \/ WorkPut
           \/ WorkPost \/ WorkPosted \/ WorkComplete
  <2>1. ToCome' = ToCome
    BY <1>0, <1>3 DEF WorkStart, WorkNext, WorkEnd, WorkInit, WorkSkip, WorkPut,
       WorkPost, WorkPosted, WorkComplete, WorkAtGroup, Shape, ToCome, Outstanding
  <2>2. BeingMade' = BeingMade /\ pending' = pending
    BY <1>3 DEF WorkStart, WorkNext, WorkEnd, WorkInit, WorkSkip, WorkPut,
       WorkPost, WorkPosted, WorkComplete, BeingMade
  <2> QED
    BY <1>0, <2>1, <2>2, SameCount
<1>4. ~ WorkNoMemory
  BY DEF AtBringup, WorkNoMemory
<1> QED
  BY <1>1, <1>2, <1>3, <1>4 DEF Work

\* Each step of a creation counts it, or hands the count on to the group.
LEMMA CreateCounts ==
    ASSUME AtBringup, BringupInv, Shape', NEW t \in {"probe", "leaf"}, Create(t)
    PROVE  PendingExact'
<1> USE DEF groups, inside, counts, work, aims, region, Go, WGo
<1>0. Shape /\ PendingExact /\ t \in Thread
  BY DEF BringupInv, Thread
<1>1. CASE CreateInc(t)
  <2>1. t \notin BeingMade /\ BeingMade' = BeingMade \cup {t}
    BY <1>0, <1>1 DEF CreateInc, Shape, BeingMade
  <2>2. Cardinality(BeingMade') = Cardinality(BeingMade) + 1
    BY <1>0, <2>1, PendingCounts, FS_AddElement
  <2>3. ToCome' = ToCome
    BY <1>1 DEF CreateInc, ToCome, Outstanding
  <2>4. pending' = pending + 1
    BY <1>1 DEF CreateInc
  <2>5. Cardinality(ToCome') = Cardinality(ToCome)
    BY <2>3
  <2>6. pending = Cardinality(ToCome) + Cardinality(BeingMade)
    BY <1>0, PendingCounts
  <2>7. pending' = Cardinality(ToCome') + Cardinality(BeingMade')
    BY <1>0, <2>2, <2>4, <2>5, <2>6, PendingCounts
  <2> QED
    BY <2>7 DEF PendingExact, ToCome, BeingMade
<1>2. CASE CreateAdd(t)
  <2>1. t \in BeingMade /\ BeingMade' = BeingMade \ {t}
    BY <1>0, <1>2 DEF CreateAdd, Shape, BeingMade
  <2>2. Cardinality(BeingMade') = Cardinality(BeingMade) - 1
    BY <1>0, <2>1, PendingCounts, FS_RemoveElement
  <2>3. made \in Group /\ made \notin pool /\ ~ created[made]
    BY <1>2, AddHasRoom DEF CreateAdd
  <2>4. made \notin ToCome /\ ToCome' = ToCome \cup {made}
    BY <1>2, <2>3 DEF CreateAdd, ToCome, Outstanding
  <2>5. Cardinality(ToCome') = Cardinality(ToCome) + 1
    BY <1>0, <2>4, PendingCounts, FS_AddElement
  <2> QED
    BY <1>0, <1>2, <2>2, <2>5, PendingCounts DEF CreateAdd, PendingExact, ToCome, BeingMade
<1>3. CASE CreateRefused(t)
  <2>1. BeingMade' = BeingMade
    BY <1>0, <1>3 DEF CreateRefused, Shape, BeingMade
  <2>2. ToCome' = ToCome /\ pending' = pending
    BY <1>3 DEF CreateRefused, ToCome, Outstanding
  <2> QED
    BY <1>0, <2>1, <2>2, SameCount
<1>4. CASE CreateUndo(t)
  <2>1. t \in BeingMade /\ BeingMade' = BeingMade \ {t}
    BY <1>0, <1>4 DEF CreateUndo, AfterCreate, Shape, BeingMade
  <2>2. Cardinality(BeingMade') = Cardinality(BeingMade) - 1
    BY <1>0, <2>1, PendingCounts, FS_RemoveElement
  <2>3. ToCome' = ToCome
    BY <1>4 DEF CreateUndo, ToCome, Outstanding
  <2>4. pending' = pending - 1
    BY <1>4 DEF CreateUndo
  <2>5. Cardinality(ToCome') = Cardinality(ToCome)
    BY <2>3
  <2>6. pending = Cardinality(ToCome) + Cardinality(BeingMade)
    BY <1>0, PendingCounts
  <2>7. pending' = Cardinality(ToCome') + Cardinality(BeingMade')
    BY <1>0, <2>2, <2>4, <2>5, <2>6, PendingCounts
  <2> QED
    BY <2>7 DEF PendingExact, ToCome, BeingMade
<1>5. CASE CreateSchedule(t)
  <2>1. BeingMade' = BeingMade
    BY <1>0, <1>5 DEF CreateSchedule, AfterCreate, Shape, BeingMade
  <2>2. ToCome' = ToCome /\ pending' = pending
    BY <1>5 DEF CreateSchedule, ToCome, Outstanding
  <2> QED
    BY <1>0, <2>1, <2>2, SameCount
<1> QED
  BY <1>1, <1>2, <1>3, <1>4, <1>5 DEF Create

\* Every step keeps the count of pending bringups exact (bringup_pending).
LEMMA PendingStep ==
    ASSUME AtBringup, BringupInv, [Next]_vars
    PROVE  PendingExact'
<1> USE DEF groups, inside, counts, work, aims, region, Go, WGo
<1>0. Shape /\ Shape' /\ PendingExact
  BY ShapeStep DEF BringupInv
<1>1. CASE LeafCreates \/ Wait("probe") \/ UNCHANGED vars
  <2>1. ToCome' = ToCome /\ pending' = pending
    BY <1>1 DEF LeafCreates, Wait, vars, ToCome, Outstanding
  <2>2. BeingMade' = BeingMade
    BY <1>0, <1>1 DEF LeafCreates, Wait, vars, Shape, BeingMade
  <2> QED
    BY <1>0, <2>1, <2>2, SameCount
<1> QED
  BY <1>0, <1>1, OnlyBringup, WorkCounts, CreateCounts

\* A completion is given when the count reaches 0, and from then on nobody
\* counts up again.
LEMMA CompletedStep ==
    ASSUME AtBringup, BringupInv, [Next]_vars
    PROVE  CompletedUp'
<1> USE DEF groups, inside, counts, work, aims, region, Go, WGo
<1>0. Shape /\ WorkAtGroup /\ ProbeFirst /\ CompletedUp /\ PendingExact
  BY DEF BringupInv
<1>1. ASSUME wpc \in {"leaves", "put", "post", "posting", "dec"}
      PROVE  pending > 0
  <2>1. cur \in ToCome
    BY <1>0, <1>1 DEF WorkAtGroup, Shape, ToCome, Outstanding
  <2> QED
    BY <1>0, <2>1, PendingCounts
<1>2. ASSUME NEW t \in Thread, pc[t] \in {"add", "undo"}
      PROVE  pending > 0
  <2>1. t \in BeingMade
    BY <1>2 DEF BeingMade
  <2> QED
    BY <1>0, <2>1, PendingCounts
<1>3. CASE Work
  <2>1. CASE WorkDec
    <3>1. pending > 0 /\ cur \in pool
      BY <1>0, <1>1, <2>1 DEF WorkDec, WorkAtGroup
    <3> QED
      BY <1>0, <2>1, <3>1 DEF WorkDec, CompletedUp, Shape, Group
  <2>2. CASE WorkComplete
    BY <1>0, <2>2 DEF WorkComplete, CompletedUp, Shape
  <2>3. CASE WorkStart \/ WorkNext \/ WorkEnd \/ WorkInit \/ WorkNoMemory \/ WorkSkip
             \/ WorkLeaves \/ WorkPut \/ WorkPost \/ WorkPosted
    BY <1>0, <2>3 DEF CompletedUp, WorkStart, WorkNext, WorkEnd, WorkInit, WorkNoMemory,
       WorkSkip, WorkLeaves, WorkPut, WorkPost, WorkPosted
  <2> QED
    BY <1>3, <2>1, <2>2, <2>3 DEF Work
<1>4. CASE LeafCreates \/ UNCHANGED vars
  BY <1>0, <1>4 DEF CompletedUp, LeafCreates, vars
<1>5. ASSUME NEW t \in {"probe", "leaf"}, Create(t)
      PROVE  CompletedUp'
  <2>1. CASE CreateInc(t)
    <3>1. t = "leaf" => pending > 0
      BY <1>0, <1>1, <2>1 DEF CreateInc, WorkAtGroup
    <3>2. ~ (comp > 0 \/ wpc = "complete")
      BY <1>0, <2>1, <3>1 DEF CreateInc, CompletedUp, ProbeFirst, Shape
    <3> QED
      BY <2>1, <3>2 DEF CreateInc, CompletedUp
  <2>2. CASE CreateAdd(t) \/ CreateUndo(t)
    <3>1. t \in Thread /\ pc[t] \in {"add", "undo"}
      BY <2>2 DEF CreateAdd, CreateUndo, Thread
    <3>2. pending > 0
      BY <1>2, <3>1
    <3>3. ~ (comp > 0 \/ wpc = "complete")
      BY <1>0, <3>2 DEF CompletedUp, Shape
    <3> QED
      BY <2>2, <3>3 DEF CreateAdd, CreateUndo, CompletedUp
  <2>3. CASE CreateRefused(t) \/ CreateSchedule(t)
    BY <1>0, <2>3 DEF CreateRefused, CreateSchedule, CompletedUp
  <2> QED
    BY <1>5, <2>1, <2>2, <2>3 DEF Create
<1>6. CASE Wait("probe")
  BY <1>0, <1>6 DEF Wait, CompletedUp, Shape
<1> QED
  BY <1>0, <1>3, <1>4, <1>5, <1>6, OnlyBringup

\* A root that starts has no group and none pending.
LEMMA BringupInvInit == AtBringup /\ Init => BringupInv
<1> SUFFICES ASSUME AtBringup, Init PROVE BringupInv
  OBVIOUS
<1>1. Shape
  BY DEF Init, Shape, Thread, Creating, Group
<1>2. WorkAtGroup /\ ProbeFirst /\ CompletedUp
  BY DEF Init, WorkAtGroup, ProbeFirst, CompletedUp, Thread
<1>3. Cardinality(spawned) = 0 /\ RoomLeft
  BY FS_EmptySet DEF Init, RoomLeft, Coming, Thread
<1>4. ToCome = {} /\ BeingMade = {} /\ pending = 0
  BY DEF Init, ToCome, BeingMade, Outstanding, Thread
<1>5. PendingExact
  BY <1>1, <1>4, PendingCounts, FS_EmptySet
<1> QED
  BY <1>1, <1>2, <1>3, <1>5 DEF BringupInv

\* The invariant of a bringup: xroot_create_group and xroot_bringup_group_work.
THEOREM BringupInvariant == ASSUME AtBringup PROVE Spec => []BringupInv
<1>1. Init => BringupInv
  BY BringupInvInit
<1>2. BringupInv /\ [Next]_vars => BringupInv'
  BY ShapeStep, WorkAtStep, RoomStep, PendingStep, CompletedStep DEF BringupInv
<1> QED
  BY <1>1, <1>2, PTL DEF Spec

\* xroot.c:161.  bringup_pending_cnt counts the groups that are being created
\* or brought up, however many leaves ask for groups of their own meanwhile and
\* whichever of them fail.
THEOREM PendingAlwaysExact == ASSUME AtBringup PROVE Spec => []PendingExact
<1>1. BringupInv => PendingExact
  BY DEF BringupInv
<1> QED
  BY <1>1, BringupInvariant, PTL

\* xroot.c:435.  When the probe's wait for bringup returns, all the groups have
\* their leaves, those that leaves asked for included.
THEOREM WaitSeesAllUp == ASSUME AtBringup PROVE Spec => WaitMeansUp
<1> DEFINE Returned ==
        \A t \in {"probe", "ioctl"} :
            pc[t] = "wait" /\ pc'[t] # "wait" => \A g \in Group : ~Outstanding(g)
<1>1. ASSUME BringupInv, [Next]_vars, NEW t \in {"probe", "ioctl"},
             pc[t] = "wait", pc'[t] # "wait", NEW g \in Group
      PROVE  ~ Outstanding(g)
  <2>1. Wait(t)
    <3> USE DEF groups, inside, counts, work, aims, region, Go
    <3>1. t = "probe"
      BY <1>1 DEF BringupInv, Shape
    <3>2. ~ UNCHANGED vars /\ ~ Work /\ ~ LeafCreates
      BY <1>1, <3>1 DEF BringupInv, Shape, vars, LeafCreates, Work, WorkStart, WorkNext,
         WorkEnd, WorkInit, WorkNoMemory, WorkSkip, WorkLeaves, WorkPut, WorkPost,
         WorkPosted, WorkDec, WorkComplete, Thread
    <3>3. ASSUME NEW u \in {"probe", "leaf"} PROVE ~ Create(u)
      BY <1>1, <3>1 DEF BringupInv, Shape, Create, CreateInc, CreateAdd, CreateRefused,
         CreateUndo, CreateSchedule, Thread
    <3> QED
      BY <1>1, <3>1, <3>2, <3>3, OnlyBringup DEF BringupInv
  <2>2. pending = 0
    BY <1>1, <2>1 DEF Wait, BringupInv, CompletedUp
  <2>3. ToCome = {}
    BY <1>1, <2>2, PendingCounts DEF BringupInv
  <2> QED
    BY <2>3 DEF ToCome
<1>2. BringupInv /\ [Next]_vars => [Returned]_vars
  BY <1>1
<1> QED
  BY <1>2, BringupInvariant, PTL DEF Spec, WaitMeansUp
=============================================================================
