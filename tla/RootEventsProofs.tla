--------------------------- MODULE RootEventsProofs ---------------------------
(***************************************************************************)
(* A theorem about the delivery of events, for any number of events and    *)
(* children.                                                               *)
(***************************************************************************)
EXTENDS RootEvents, FiniteSetTheorems, SequenceTheorems, WellFoundedInduction, TLAPS

\* The newest of some children is one of them.
LEMMA MaxMember ==
    ASSUME NEW S \in SUBSET Subdev, S # {}
    PROVE  Max(S) \in S /\ \A d \in S : d <= Max(S)
<1> DEFINE from(x) == {y \in S : y >= x}
           T == {from(x) : x \in S}
           R == StrictSubsetOrdering(Subdev)
<1> USE SubdevAssumption DEF Subdev
<1>1. T # {} /\ T \subseteq FiniteSubsetsOf(Subdev)
  <2>1. IsFiniteSet(Subdev)
    BY FS_Interval
  <2>2. ASSUME NEW x \in S PROVE from(x) \in FiniteSubsetsOf(Subdev)
    BY <2>1, FS_Subset DEF FiniteSubsetsOf
  <2> QED
    BY <2>2
<1>2. IsWellFoundedOn(R, FiniteSubsetsOf(Subdev))
  BY FS_StrictSubsetOrderingWellFounded
<1>3. \E Z \in T : \A Y \in T : ~ (<<Y, Z>> \in R)
  <2> HIDE DEF T, R
  <2> QED
    BY <1>1, <1>2, WFMin
<1>4. PICK x \in S : \A y \in S : ~ (<<from(y), from(x)>> \in R)
  BY <1>3
<1>5. ASSUME NEW y \in S, y > x
      PROVE  FALSE
  <2>1. from(y) \subseteq from(x) /\ x \in from(x) /\ x \notin from(y)
    <3>1. \A z \in S : z \in Nat
      OBVIOUS
    <3>2. x \in Nat /\ y \in Nat /\ ~ (x >= y) /\ \A z \in Nat : z >= y => z >= x
      BY <1>5, <3>1
    <3>3. from(y) \subseteq from(x)
      BY <3>1, <3>2
    <3>4. x \in from(x)
      BY <3>2
    <3>5. x \notin from(y)
      BY <3>2
    <3> QED
      BY <3>3, <3>4, <3>5
  <2>2. from(y) \subseteq Subdev /\ from(x) \subseteq Subdev
    OBVIOUS
  <2>3. ~ (<<from(y), from(x)>> \in R)
    BY <1>4
  <2> HIDE DEF from, Subdev
  <2> QED
    BY <2>1, <2>2, <2>3 DEF StrictSubsetOrdering
<1>6. \A y \in S : y <= x
  BY <1>5
<1> QED
  BY <1>6 DEF Max

-----------------------------------------------------------------------------
(* What a walk over the children misses.  A child that leaves between two   *)
(* calls can be the one the walk goes on from: then the walk ends there.    *)

EventTypes ==
    /\ evtList \in Seq(Event)
    /\ life \in [Event -> {"none", "listed", "taken", "done", "freed"}]
    /\ post \in [Event -> {"none", "listed", "waiting", "returned"}]
    /\ got \in [Event -> SUBSET Subdev] /\ due \in [Event -> SUBSET Subdev]
    /\ born \in Nat /\ devList \subseteq Subdev
    /\ tgt \in Subdev \cup {NoSubdev}
    /\ wpc = "handle" => cur \in Event /\ life[cur] = "taken" /\ post[cur] # "none"
    /\ holding => wpc = "handle" /\ tgt \in Subdev

\* An event on the list was posted, is there once, and nobody was told of it;
\* nor of one that was not posted.
Waiting(list) ==
    /\ \A i \in DOMAIN list : life[list[i]] = "listed" /\ post[list[i]] # "none"
    /\ \A i, j \in DOMAIN list : list[i] = list[j] => i = j
Untold ==
    \A e \in Event : life[e] \in {"none", "listed"} \/ post[e] = "none" => got[e] = {}

DueListed == \A e \in Event : due[e] \subseteq devList

\* Children that were called had joined, and numbers are not given twice.
GotBorn == \A e \in Event : \A d \in got[e] : d < born

\* The walk for an event is at the last child it called, or calls, and those it
\* still owes the event to are older.
WalkOwes ==
    wpc = "handle" =>
        /\ tgt = NoSubdev => got[cur] = {}
        /\ tgt # NoSubdev =>
              /\ tgt < born
              /\ holding \/ tgt \in got[cur]
              /\ \A d \in got[cur] : d >= tgt
              /\ \A d \in due[cur] : d \in got[cur] \/ d < tgt \/ (holding /\ d = tgt)

EventsInv ==
    /\ EventTypes /\ Waiting(evtList) /\ Untold
    /\ DueListed /\ (devList \subseteq {d \in Subdev : d < born}) /\ GotBorn
    /\ WalkOwes /\ EveryoneTold

\* The list of events, lib/xroot.c:219 and 248: what was posted is there once.
LEMMA ListPosted ==
    ASSUME EventTypes, Waiting(evtList), NEW e \in Event, post[e] = "none"
    PROVE  /\ <<e>> \o evtList \in Seq(Event)
           /\ \A i \in DOMAIN (<<e>> \o evtList) :
                 \/ (<<e>> \o evtList)[i] = e
                 \/ /\ life[(<<e>> \o evtList)[i]] = "listed"
                    /\ post[(<<e>> \o evtList)[i]] # "none"
           /\ \A i, j \in DOMAIN (<<e>> \o evtList) :
                 (<<e>> \o evtList)[i] = (<<e>> \o evtList)[j] => i = j
<1> DEFINE r == <<e>> \o evtList
<1>1. DOMAIN evtList = 1 .. Len(evtList) /\ Len(evtList) \in Nat
  BY LenProperties DEF EventTypes
<1>2. /\ r \in Seq(Event) /\ Len(r) = Len(evtList) + 1 /\ r[1] = e
      /\ \A j \in 1 .. Len(evtList) : r[j + 1] = evtList[j]
  BY DEF EventTypes
<1> HIDE DEF r
<1>3. ASSUME NEW i \in DOMAIN r
      PROVE  \/ i = 1 /\ r[i] = e
             \/ /\ i - 1 \in DOMAIN evtList /\ i - 1 \in Nat /\ i = (i - 1) + 1
                /\ r[i] = evtList[i - 1]
                /\ life[r[i]] = "listed" /\ post[r[i]] # "none" /\ r[i] # e
  <2>1. i \in 1 .. Len(evtList) + 1
    BY <1>2, LenProperties
  <2>2. CASE i = 1
    BY <1>2, <2>2
  <2>3. CASE i # 1
    <3>1. /\ i - 1 \in 1 .. Len(evtList) /\ r[(i - 1) + 1] = evtList[i - 1]
          /\ (i - 1) + 1 = i /\ i - 1 \in Nat
      BY <1>1, <1>2, <2>1, <2>3
    <3> QED
      BY <1>1, <3>1 DEF Waiting
  <2> QED
    BY <2>2, <2>3
<1>4. ASSUME NEW i \in DOMAIN r, NEW j \in DOMAIN r, r[i] = r[j] PROVE i = j
  <2>1. CASE i = 1
    <3>1. r[j] = e
      BY <1>2, <1>4, <2>1
    <3>2. j = 1
      BY <1>3, <3>1
    <3> QED
      BY <2>1, <3>2
  <2>2. CASE i # 1
    <3>0. r[i] # e /\ i - 1 \in DOMAIN evtList /\ r[i] = evtList[i - 1] /\ i = (i - 1) + 1
      BY <1>3, <2>2
    <3>1. j # 1 /\ i - 1 \in DOMAIN evtList /\ r[i] = evtList[i - 1] /\ i = (i - 1) + 1
      BY <1>2, <1>4, <3>0
    <3>2. j - 1 \in DOMAIN evtList /\ r[j] = evtList[j - 1] /\ j = (j - 1) + 1
      BY <1>3, <3>1
    <3>3. i - 1 = j - 1
      BY <1>4, <3>1, <3>2 DEF Waiting
    <3> QED
      BY <3>1, <3>2, <3>3
  <2> QED
    BY <2>1, <2>2
<1> QED
  BY <1>2, <1>3, <1>4 DEF r

\* xroot.c:248.  What the work takes is not on the list any more.
LEMMA ListTaken ==
    ASSUME EventTypes, Waiting(evtList), evtList # <<>>
    PROVE  /\ Head(evtList) \in Event /\ Tail(evtList) \in Seq(Event)
           /\ life[Head(evtList)] = "listed" /\ post[Head(evtList)] # "none"
           /\ Waiting(Tail(evtList))
           /\ \A i \in DOMAIN Tail(evtList) : Tail(evtList)[i] # Head(evtList)
<1>1. DOMAIN evtList = 1 .. Len(evtList) /\ Len(evtList) \in Nat
  BY LenProperties DEF EventTypes
<1> DEFINE r == Tail(evtList)
<1>2. /\ Head(evtList) = evtList[1] /\ Head(evtList) \in Event
      /\ r \in Seq(Event) /\ Len(r) = Len(evtList) - 1
      /\ \A i \in 1 .. Len(evtList) - 1 : r[i] = evtList[i + 1]
      /\ Len(evtList) > 0
  BY HeadTailProperties, EmptySeq DEF EventTypes
<1> HIDE DEF r
<1>3. 1 \in DOMAIN evtList
  BY <1>1, <1>2
<1>4. ASSUME NEW i \in DOMAIN r
      PROVE  /\ i \in Nat /\ i + 1 \in DOMAIN evtList /\ i + 1 # 1 /\ r[i] = evtList[i + 1]
  <2>1. i \in 1 .. Len(evtList) - 1
    BY <1>2, LenProperties
  <2> QED
    BY <1>1, <1>2, <2>1
<1>5. \A i, j \in DOMAIN r : r[i] = r[j] => i = j
  <2> TAKE i, j \in DOMAIN r
  <2> HAVE r[i] = r[j]
  <2>1. i + 1 = j + 1
    BY <1>4 DEF Waiting
  <2> QED
    BY <1>4, <2>1
<1>6. \A i \in DOMAIN r : /\ life[r[i]] = "listed" /\ post[r[i]] # "none"
                          /\ r[i] # Head(evtList)
  BY <1>2, <1>3, <1>4 DEF Waiting
<1> QED
  BY <1>2, <1>3, <1>5, <1>6 DEF Waiting, r

\* Children that join or leave, lib/subdev.c:568-626: who leaves is owed nothing
\* any more, and the walk stays where it is.
LEMMA PoolSteps ==
    ASSUME EventsInv, Join \/ \E d \in Subdev : Remove(d)
    PROVE  EventsInv'
<1> USE SubdevAssumption DEF queue, pool, EventsInv
<1>1. CASE Join
  <2>1. devList' = devList \cup {born} /\ born \in Subdev /\ born' = born + 1
    BY <1>1 DEF Join, Subdev, EventTypes
  <2>2. UNCHANGED <<queue, tgt, holding, got, due>>
    BY <1>1 DEF Join
  <2>3. EventTypes'
    BY <2>1, <2>2 DEF EventTypes
  <2>4. Waiting(evtList)' /\ Untold' /\ DueListed'
    BY <2>1, <2>2 DEF Waiting, Untold, DueListed
  <2>5. \A d \in Subdev : d \in Nat /\ (d < born => d < born')
    BY <2>1 DEF Subdev
  <2>6. devList' \subseteq {d \in Subdev : d < born'} /\ GotBorn' /\ WalkOwes'
    BY <2>1, <2>2, <2>5 DEF GotBorn, WalkOwes, EventTypes
  <2>7. EveryoneTold'
    <3>1. \A e \in Event : got[e] \ devList' = got[e] \ devList
      BY <2>1 DEF GotBorn, EventTypes
    <3> QED
      BY <2>2, <3>1 DEF EveryoneTold, CutShort
  <2> QED
    BY <2>3, <2>4, <2>6, <2>7
<1>2. ASSUME NEW d \in Subdev, Remove(d) PROVE EventsInv'
  <2>1. /\ devList' = devList \ {d} /\ due' = [e \in Event |-> due[e] \ {d}]
        /\ UNCHANGED <<queue, born, tgt, holding, got>>
    BY <1>2 DEF Remove
  <2>2. EventTypes'
    BY <2>1 DEF EventTypes
  <2>3. Waiting(evtList)' /\ Untold' /\ DueListed' /\ GotBorn'
        /\ devList' \subseteq {c \in Subdev : c < born'}
    BY <2>1 DEF Waiting, Untold, DueListed, GotBorn
  <2>4. WalkOwes'
    BY <2>1 DEF WalkOwes, EventTypes
  <2>5. EveryoneTold'
    BY <2>1 DEF EveryoneTold, CutShort
  <2> QED
    BY <2>2, <2>3, <2>4, <2>5
<1> QED
  BY <1>1, <1>2

\* A new event owes itself to those who are there, and changes nothing for the
\* one that is handled.
LEMMA PostSteps ==
    ASSUME EventsInv, NEW e \in Event, PostEvent(e) \/ Poster(e)
    PROVE  EventsInv'
<1> USE DEF EventsInv, pool
<1>1. CASE PostEvent(e)
  <2>1. /\ post[e] = "none" /\ post' = [post EXCEPT ![e] = "listed"]
        /\ life' = [life EXCEPT ![e] = "listed"] /\ evtList' = <<e>> \o evtList
        /\ due' = [due EXCEPT ![e] = devList]
        /\ UNCHANGED <<wpc, cur, born, devList, tgt, holding, got>>
    BY <1>1 DEF PostEvent, Post, MovePost, SetLife
  <2>2. wpc = "handle" => cur # e /\ cur \in Event
    BY <2>1 DEF EventTypes
  <2>3. EventTypes'
    <3>1. evtList' \in Seq(Event)
      BY <2>1, ListPosted
    <3>2. due' \in [Event -> SUBSET Subdev]
      BY <2>1 DEF EventTypes
    <3> QED
      BY <2>1, <2>2, <3>1, <3>2 DEF EventTypes
  <2>4. Waiting(evtList)'
    <3>1. /\ \A i \in DOMAIN evtList' :
               evtList'[i] = e \/ (life[evtList'[i]] = "listed" /\ post[evtList'[i]] # "none")
          /\ \A i, j \in DOMAIN evtList' : evtList'[i] = evtList'[j] => i = j
      BY <2>1, ListPosted
    <3>2. \A f : f # e => life'[f] = life[f] /\ post'[f] = post[f]
      BY <2>1 DEF EventTypes
    <3>3. life'[e] = "listed" /\ post'[e] = "listed"
      BY <2>1 DEF EventTypes
    <3> QED
      BY <3>1, <3>2, <3>3 DEF Waiting
  <2>5. Untold' /\ DueListed' /\ GotBorn'
    BY <2>1 DEF Untold, DueListed, GotBorn, EventTypes
  <2>6. WalkOwes'
    BY <2>1, <2>2 DEF WalkOwes, EventTypes
  <2>7. EveryoneTold'
    BY <2>1 DEF EveryoneTold, CutShort, EventTypes
  <2> QED
    BY <2>1, <2>3, <2>4, <2>5, <2>6, <2>7
<1>2. CASE Poster(e)
  <2>1. /\ post[e] # "none" /\ post'[e] # "none"
        /\ \A f : f # e => post'[f] = post[f]
        /\ post' \in [Event -> {"none", "listed", "waiting", "returned"}]
        /\ life' = life \/ (life[e] = "done" /\ life' = [life EXCEPT ![e] = "freed"])
        /\ UNCHANGED <<evtList, wpc, cur, born, devList, tgt, holding, got, due>>
    <3>1. post \in [Event -> {"none", "listed", "waiting", "returned"}]
      BY DEF EventTypes
    <3>2. CASE Schedule(e)
      BY <1>2, <3>1, <3>2 DEF Poster, Schedule, MovePost
    <3>3. CASE Return(e)
      BY <1>2, <3>1, <3>3 DEF Poster, Return, MovePost, SetLife
    <3> QED
      BY <1>2, <3>2, <3>3 DEF Poster
  <2>2. /\ life' \in [Event -> {"none", "listed", "taken", "done", "freed"}]
        /\ \A f \in Event : life'[f] = life[f] \/ (life[f] = "done" /\ life'[f] = "freed")
    BY <2>1 DEF EventTypes
  <2>3. EventTypes'
    BY <2>1, <2>2 DEF EventTypes
  <2>4. Waiting(evtList)'
    <3>1. \A i \in DOMAIN evtList : evtList[i] \in Event
      BY DEF EventTypes
    <3> QED
      BY <2>1, <2>2, <3>1 DEF Waiting
  <2>5. Untold' /\ DueListed' /\ GotBorn' /\ WalkOwes'
    BY <2>1, <2>2 DEF Untold, DueListed, GotBorn, WalkOwes
  <2>6. EveryoneTold'
    BY <2>1, <2>2 DEF EveryoneTold, CutShort
  <2> QED
    BY <2>1, <2>3, <2>4, <2>5, <2>6
<1> QED
  BY <1>1, <1>2

\* The walk goes on to the newest of those that are older: xroot_event_work and
\* xrt_subdev_pool_handle_event, lib/subdev.c:751-769.
LEMMA WorkSteps ==
    ASSUME EventsInv, Work
    PROVE  EventsInv'
<1> USE SubdevAssumption DEF EventsInv, pool
<1>0. \A d \in Subdev : d \in Nat
  BY DEF Subdev
<1>1. CASE WorkBetween
  <2>1. /\ UNCHANGED <<evtList, life, post, born, devList, tgt, holding, got, due>>
        /\ wpc # "handle" /\ wpc' # "handle"
    BY <1>1 DEF WorkBetween, WorkStart, WorkEnd
  <2> QED
    BY <2>1 DEF EventTypes, Waiting, Untold, DueListed, GotBorn, WalkOwes, EveryoneTold, CutShort
<1>2. CASE TakeEvent
  <2>1. /\ evtList # <<>> /\ cur' = Head(evtList) /\ evtList' = Tail(evtList)
        /\ life' = [life EXCEPT ![Head(evtList)] = "taken"] /\ tgt' = NoSubdev
        /\ wpc = "take"
        /\ UNCHANGED <<post, born, devList, holding, got, due>>
    BY <1>2 DEF TakeEvent, WorkTake, SetLife
  <2>2. /\ Head(evtList) \in Event /\ Tail(evtList) \in Seq(Event)
        /\ life[Head(evtList)] = "listed" /\ post[Head(evtList)] # "none"
        /\ Waiting(Tail(evtList))
        /\ \A i \in DOMAIN Tail(evtList) : Tail(evtList)[i] # Head(evtList)
    BY <2>1, ListTaken
  <2>3. /\ life' \in [Event -> {"none", "listed", "taken", "done", "freed"}]
        /\ life'[Head(evtList)] = "taken"
        /\ \A e : e # Head(evtList) => life'[e] = life[e]
    BY <2>1, <2>2 DEF EventTypes
  <2>4. EventTypes'
    BY <2>1, <2>2, <2>3 DEF EventTypes
  <2>5. Waiting(evtList)'
    BY <2>1, <2>2, <2>3 DEF Waiting
  <2>6. Untold' /\ DueListed' /\ GotBorn' /\ WalkOwes'
    BY <2>1, <2>2, <2>3 DEF Untold, DueListed, GotBorn, WalkOwes
  <2>7. EveryoneTold'
    BY <2>1, <2>2, <2>3 DEF EveryoneTold, CutShort
  <2> QED
    BY <2>1, <2>4, <2>5, <2>6, <2>7
<1>3. CASE GetSubdev
  <2>1. /\ wpc = "handle" /\ ~holding /\ Following # {} /\ holding'
        /\ tgt' = Max(Following)
        /\ UNCHANGED <<evtList, life, post, wpc, cur, born, devList, got, due>>
    BY <1>3 DEF GetSubdev, queue
  <2>2. Following \in SUBSET Subdev /\ Following \subseteq devList
    BY DEF Following, EventTypes
  <2>3. tgt' \in Following /\ \A d \in Following : d <= tgt'
    BY <2>1, <2>2, MaxMember
  <2>4. EventTypes' /\ Waiting(evtList)' /\ Untold' /\ DueListed' /\ GotBorn'
    BY <2>1, <2>2, <2>3 DEF EventTypes, Waiting, Untold, DueListed, GotBorn
  <2>5. EveryoneTold'
    BY <2>1 DEF EveryoneTold, CutShort
  <2>6. ASSUME NEW d \in due[cur], d \notin got[cur] PROVE d < tgt' \/ d = tgt'
    <3>1. d \in devList /\ d \in Nat
      BY <1>0, <2>1 DEF DueListed, EventTypes
    <3>2. tgt = NoSubdev \/ (d < tgt /\ tgt \in devList)
      BY <2>1, <2>2, <2>3, <2>6 DEF WalkOwes, Following
    <3>3. d \in Following
      BY <3>1, <3>2 DEF Following
    <3> QED
      BY <1>0, <2>2, <2>3, <3>1, <3>3
  <2>7. ASSUME NEW d \in got[cur] PROVE d >= tgt'
    <3>1. tgt # NoSubdev /\ d >= tgt /\ tgt \in devList
      BY <2>1, <2>3, <2>7 DEF WalkOwes, Following
    <3>2. tgt' < tgt
      BY <2>3, <3>1 DEF Following
    <3>3. d \in Nat /\ tgt \in Nat /\ tgt' \in Nat
      BY <1>0, <2>1, <2>2, <2>3, <2>7, <3>1 DEF EventTypes
    <3> QED
      BY <3>1, <3>2, <3>3
  <2>8. tgt' # NoSubdev /\ tgt' < born
    BY <2>2, <2>3
  <2>9. WalkOwes'
    BY <2>1, <2>6, <2>7, <2>8 DEF WalkOwes
  <2> QED
    BY <2>1, <2>4, <2>5, <2>9
<1>4. CASE CallSubdev
  <2>1. /\ got' = [got EXCEPT ![cur] = @ \cup {tgt}] /\ holding /\ ~holding'
        /\ UNCHANGED <<evtList, life, post, wpc, cur, born, devList, tgt, due>>
    BY <1>4 DEF CallSubdev, queue
  <2>2. /\ tgt \in Subdev /\ tgt # NoSubdev /\ tgt \in Nat /\ wpc = "handle" /\ cur \in Event
        /\ life[cur] = "taken" /\ post[cur] # "none"
    BY <1>0, <2>1 DEF EventTypes
  <2>3. /\ got' \in [Event -> SUBSET Subdev] /\ got'[cur] = got[cur] \cup {tgt}
        /\ \A e \in Event : e # cur => got'[e] = got[e]
    BY <2>1, <2>2 DEF EventTypes
  <2>4. EventTypes' /\ Waiting(evtList)' /\ Untold' /\ DueListed'
    BY <2>1, <2>2, <2>3 DEF EventTypes, Waiting, Untold, DueListed
  <2>5. GotBorn'
    BY <2>1, <2>2, <2>3 DEF GotBorn, WalkOwes
  <2>6. EveryoneTold'
    BY <2>1, <2>2, <2>3 DEF EveryoneTold, CutShort
  <2>7. WalkOwes'
    BY <2>1, <2>2, <2>3 DEF WalkOwes
  <2> QED
    BY <2>1, <2>4, <2>5, <2>6, <2>7
<1>5. CASE FinishEvent
  <2>1. /\ wpc = "handle" /\ wpc' = "take" /\ ~holding /\ Following = {}
        /\ life' = [life EXCEPT ![cur] = IF cur \in async THEN "freed" ELSE "done"]
        /\ UNCHANGED <<evtList, post, born, devList, tgt, holding, got, due>>
    BY <1>5 DEF FinishEvent, WorkFinish, SetLife
  <2>2. /\ cur \in Event /\ life[cur] = "taken" /\ post[cur] # "none"
        /\ life'[cur] \in {"done", "freed"}
        /\ life' \in [Event -> {"none", "listed", "taken", "done", "freed"}]
        /\ \A e \in Event : e # cur => life'[e] = life[e]
    BY <2>1 DEF EventTypes
  <2>3. ASSUME NEW d \in due[cur], d \notin got[cur] PROVE CutShort(cur, d)
    <3>1. d \in devList /\ d \in Nat
      BY <1>0, <2>2 DEF DueListed, EventTypes
    <3>2. tgt # NoSubdev
      BY <2>1, <3>1 DEF Following
    <3>3. d < tgt /\ tgt \in got[cur] /\ \A b \in got[cur] : b >= tgt
      BY <2>1, <2>3, <3>2 DEF WalkOwes
    <3>4. tgt \notin devList
      BY <2>1, <3>1, <3>2, <3>3 DEF Following
    <3>5. tgt > d
      BY <1>0, <3>1, <3>2, <3>3 DEF EventTypes
    <3> QED
      BY <3>3, <3>4, <3>5 DEF CutShort
  <2>4. EventTypes' /\ DueListed' /\ GotBorn' /\ WalkOwes' /\ Untold'
    BY <2>1, <2>2 DEF EventTypes, DueListed, GotBorn, WalkOwes, Untold
  <2>5. Waiting(evtList)'
    <3>1. \A i \in DOMAIN evtList : evtList[i] \in Event /\ evtList[i] # cur
      BY <2>2 DEF EventTypes, Waiting
    <3> QED
      BY <2>1, <2>2, <3>1 DEF Waiting
  <2>6. EveryoneTold'
    BY <2>1, <2>2, <2>3 DEF EveryoneTold, CutShort
  <2> QED
    BY <2>1, <2>4, <2>5, <2>6
<1> QED
  BY <1>1, <1>2, <1>3, <1>4, <1>5 DEF Work

\* No event is posted yet, and no child has joined.
LEMMA EventsInit ==
    ASSUME Init
    PROVE  EventsInv
<1>1. EventTypes /\ WalkOwes
  BY EmptySeq DEF Init, QueueInit, EventTypes, WalkOwes
<1>2. Waiting(evtList)
  BY EmptySeq DEF Init, QueueInit, Waiting
<1>3. Untold /\ DueListed /\ GotBorn /\ EveryoneTold
  BY DEF Init, QueueInit, Untold, DueListed, GotBorn, EveryoneTold
<1> QED
  BY <1>1, <1>2, <1>3 DEF EventsInv, Init

\* Every step of the delivery keeps the invariant.
LEMMA EventsStep ==
    ASSUME EventsInv, [Next]_vars
    PROVE  EventsInv'
<1>1. CASE UNCHANGED vars
  BY <1>1 DEF vars, queue, pool, EventsInv, EventTypes, Waiting, Untold, DueListed, GotBorn,
     WalkOwes, EveryoneTold, CutShort
<1>2. CASE Next
  BY <1>2, PoolSteps, PostSteps, WorkSteps DEF Next
<1> QED
  BY <1>1, <1>2

-----------------------------------------------------------------------------
\* The invariant of the walk, lib/subdev.c:751-769 with 192-204.
THEOREM EventsInvariant == Spec => []EventsInv
<1>1. Init => EventsInv
  BY EventsInit
<1>2. EventsInv /\ [Next]_vars => EventsInv'
  BY EventsStep
<1> QED
  BY <1>1, <1>2, PTL DEF Spec

\* When an event has been handled, every child that was listed before it was
\* posted and still is has been called, however many events are posted and
\* children join and leave meanwhile: evt_work, lib/xroot.c:262, with the walk of
\* lib/subdev.c:751-769.  Those older than the child the walk was at are missed
\* when that child has left.
THEOREM ToldWhileListed == Spec => []EveryoneTold
<1>1. EventsInv => EveryoneTold
  BY DEF EventsInv
<1> QED
  BY <1>1, EventsInvariant, PTL
=============================================================================
