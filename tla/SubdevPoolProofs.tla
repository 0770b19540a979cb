--------------------------- MODULE SubdevPoolProofs ---------------------------
(***************************************************************************)
(* Theorems about the subdev pool, for any threads, children and holders.  *)
(***************************************************************************)
EXTENDS SubdevPoolProps, SequenceTheorems, FiniteSetTheorems, TLAPS

-----------------------------------------------------------------------------
(* The list.                                                                *)

\* What list_del leaves: the elements before the removed one where they were,
\* the others one place further ahead.
LEMMA RemoveAtProperties ==
    ASSUME NEW S, NEW s \in Seq(S), NEW i \in DOMAIN s
    PROVE  /\ RemoveAt(s, i) \in Seq(S)
           /\ Len(RemoveAt(s, i)) = Len(s) - 1
           /\ \A j \in 1 .. Len(s) - 1 :
                 RemoveAt(s, i)[j] = IF j < i THEN s[j] ELSE s[j + 1]
<1>1. Len(s) \in Nat /\ i \in 1 .. Len(s)
  BY LenProperties
<1>2. /\ SubSeq(s, 1, i - 1) \in Seq(S) /\ Len(SubSeq(s, 1, i - 1)) = i - 1
      /\ \A j \in 1 .. i - 1 : SubSeq(s, 1, i - 1)[j] = s[j]
  BY <1>1
<1>3. /\ SubSeq(s, i + 1, Len(s)) \in Seq(S)
      /\ Len(SubSeq(s, i + 1, Len(s))) = Len(s) - i
      /\ \A j \in 1 .. Len(s) - i : SubSeq(s, i + 1, Len(s))[j] = s[i + j]
  BY <1>1
<1> DEFINE a == SubSeq(s, 1, i - 1)
           b == SubSeq(s, i + 1, Len(s))
           r == a \o b
<1>4. /\ a \in Seq(S) /\ b \in Seq(S) /\ Len(a) = i - 1 /\ Len(b) = Len(s) - i
      /\ \A j \in 1 .. i - 1 : a[j] = s[j]
      /\ \A j \in 1 .. Len(s) - i : b[j] = s[i + j]
  BY <1>2, <1>3
<1>5. RemoveAt(s, i) = r
  BY DEF RemoveAt
<1> HIDE DEF a, b
<1>6. /\ r \in Seq(S) /\ Len(r) = Len(s) - 1
      /\ \A j \in 1 .. Len(s) - 1 :
            r[j] = IF j <= i - 1 THEN a[j] ELSE b[j - (i - 1)]
  BY <1>1, <1>4, ConcatProperties
<1> HIDE DEF r
<1>7. ASSUME NEW j \in 1 .. Len(s) - 1
      PROVE  r[j] = IF j < i THEN s[j] ELSE s[j + 1]
  <2>0. r[j] = IF j <= i - 1 THEN a[j] ELSE b[j - (i - 1)]
    BY <1>6
  <2>1. CASE j < i
    BY <2>0, <2>1, <1>1, <1>4
  <2>2. CASE ~(j < i)
    <3>1. j - (i - 1) \in 1 .. Len(s) - i /\ i + (j - (i - 1)) = j + 1
      BY <2>2, <1>1
    <3>2. b[j - (i - 1)] = s[j + 1]
      BY <3>1, <1>4
    <3> QED
      BY <3>2, <2>0, <2>2, <1>1
  <2> QED
    BY <2>1, <2>2
<1> QED
  BY <1>1, <1>4, <1>5, <1>6, <1>7

\* What list_add leaves: the new element first, the others one place further.
LEMMA ConsProperties ==
    ASSUME NEW S, NEW s \in Seq(S), NEW e \in S
    PROVE  /\ <<e>> \o s \in Seq(S)
           /\ Len(<<e>> \o s) = Len(s) + 1
           /\ (<<e>> \o s)[1] = e
           /\ \A j \in 1 .. Len(s) : (<<e>> \o s)[j + 1] = s[j]
  OBVIOUS

-----------------------------------------------------------------------------
(* Type correctness.                                                        *)

\* A thread that is past its call has a child to work on.
TgtOK ==
    \A t \in Thread :
        pc[t] \notin {"idle", "fini_lock", "fini_mark", "fini_next"}
            => tgt[t] \in Subdev

TypeInv == TypeOK /\ TgtOK

\* A waiter that is woken takes one count of its child's completion and changes
\* nothing else: wait_for_completion_killable, lib/subdev.c:473.
LEMMA WokenType ==
    ASSUME TypeInv, NEW t \in Thread, NEW from, NEW to \in Unlocked,
           from \notin {"idle", "fini_lock", "fini_mark", "fini_next"},
           Woken(t, from, to)
    PROVE  TypeInv'
<1> USE BoundsAssumption DEF TypeInv, TypeOK, TgtOK
<1>1. tgt[t] \in Subdev
  BY DEF Woken, Go
<1>2. comp' \in [Subdev -> 0 .. MaxDone]
  <2>1. comp[tgt[t]] \in 0 .. MaxDone /\ comp[tgt[t]] > 0
    BY <1>1 DEF Woken
  <2>2. comp[tgt[t]] - 1 \in 0 .. MaxDone
    BY <2>1
  <2> QED
    BY <1>1, <2>2 DEF Woken
<1> QED
  BY <1>1, <1>2 DEF Woken, Go

\* Every step of every thread in the pool, lib/subdev.c:568-735, keeps the types.
LEMMA TypeInvStep == TypeInv /\ [Next]_vars => TypeInv'
<1> SUFFICES ASSUME TypeInv, [Next]_vars PROVE TypeInv'
  OBVIOUS
<1> USE ThreadAssumption, BoundsAssumption
    DEF TypeInv, TypeOK, TgtOK, Locked, Unlocked, Stages
<1>1. ASSUME NEW t \in Adders, Add(t) PROVE TypeInv'
  <2>1. CASE \E d \in Subdev : AddCreate(t, d)
    BY <2>1 DEF AddCreate, Call, Go, SetStage
  <2>2. CASE Acquire(t, "add_lock", "add_body")
    BY <2>2 DEF Acquire, Go
  <2>3. CASE AddList(t)
    <3>1. tgt[t] \in Subdev
      BY <2>3 DEF AddList, Go
    <3>2. devList' \in Seq(Subdev)
      BY <3>1, <2>3, ConsProperties DEF AddList
    <3> QED
      BY <3>1, <3>2, <2>3 DEF AddList, Go, SetStage, Unlock
  <2>4. CASE AddRefused(t)
    BY <2>4 DEF AddRefused, Go, Unlock
  <2>5. CASE Destroy(t, "add_destroy", "idle")
    BY <2>5 DEF Destroy, Go, SetStage
  <2>6. CASE AddReturn(t)
    BY <2>6 DEF AddReturn, Go
  <2> QED
    BY <1>1, <2>1, <2>2, <2>3, <2>4, <2>5, <2>6 DEF Add
<1>2. ASSUME NEW t \in Deleters, Del(t) PROVE TypeInv'
  <2>1. CASE \E d \in Subdev : DelCall(t, d)
    BY <2>1 DEF DelCall, Call, Go
  <2>2. CASE Acquire(t, "del_lock", "del_find")
    BY <2>2 DEF Acquire, Go
  <2>3. CASE DelNothing(t)
    BY <2>3 DEF DelNothing, Go, Unlock
  <2>4. CASE DelFound(t)
    BY <2>4 DEF DelFound, Go
  <2>5. CASE DelAwaitHolders(t)
    BY <2>5 DEF DelAwaitHolders, Go, Unlock
  <2>6. CASE Woken(t, "del_wait", "del_relock")
    BY <2>6, WokenType
  <2>7. CASE Interrupted(t, "del_wait", "del_killed")
    BY <2>7 DEF Interrupted, Go
  <2>8. CASE Acquire(t, "del_relock", "del_check")
    BY <2>8 DEF Acquire, Go
  <2>9. CASE Acquire(t, "del_killed", "del_give_up")
    BY <2>9 DEF Acquire, Go
  <2>10. CASE DropHolders(t, "del_give_up", "del_check")
    BY <2>10 DEF DropHolders, Go, NoRefs
  <2>11. CASE DelUnlink(t)
    <3>1. tgt[t] \in Subdev
      BY <2>11 DEF DelUnlink, Go
    <3>2. devList' \in Seq(Subdev)
      BY <2>11, RemoveAtProperties DEF DelUnlink, Unlink
    <3> QED
      BY <3>1, <3>2, <2>11 DEF DelUnlink, Unlink, SetStage, Go, Unlock
  <2>12. CASE Destroy(t, "del_destroy", "idle")
    BY <2>12 DEF Destroy, Go, SetStage
  <2> QED
    BY <1>2, <2>1, <2>2, <2>3, <2>4, <2>5, <2>6, <2>7, <2>8, <2>9, <2>10, <2>11, <2>12 DEF Del
<1>3. ASSUME NEW t \in Finishers, Fini(t) PROVE TypeInv'
  <2>1. CASE FiniCall(t)
    BY <2>1 DEF FiniCall, Go
  <2>2. CASE Acquire(t, "fini_lock", "fini_mark")
    BY <2>2 DEF Acquire, Go
  <2>3. CASE FiniMark(t)
    BY <2>3 DEF FiniMark, Go, Unlock
  <2>4. CASE FiniNext(t)
    BY <2>4 DEF FiniNext, Go
  <2>5. CASE FiniDone(t)
    BY <2>5 DEF FiniDone, Go
  <2>6. CASE FiniAwaitHolders(t)
    BY <2>6 DEF FiniAwaitHolders, Go, Unlock
  <2>7. CASE Woken(t, "fini_wait", "fini_relock")
    BY <2>7, WokenType
  <2>8. CASE Interrupted(t, "fini_wait", "fini_killed")
    BY <2>8 DEF Interrupted, Go
  <2>9. CASE Acquire(t, "fini_relock", "fini_check")
    BY <2>9 DEF Acquire, Go
  <2>10. CASE Acquire(t, "fini_killed", "fini_give_up")
    BY <2>10 DEF Acquire, Go
  <2>11. CASE DropHolders(t, "fini_give_up", "fini_check")
    BY <2>11 DEF DropHolders, Go, NoRefs
  <2>12. CASE FiniUnheld(t)
    BY <2>12 DEF FiniUnheld, Go
  <2>13. CASE FiniUnlink(t)
    <3>1. tgt[t] \in Subdev
      BY <2>13 DEF FiniUnlink, Go
    <3>2. devList' \in Seq(Subdev)
      BY <2>13, RemoveAtProperties DEF FiniUnlink, Unlink
    <3> QED
      BY <3>1, <3>2, <2>13 DEF FiniUnlink, Unlink, SetStage, Go
  <2>14. CASE Destroy(t, "fini_destroy", "fini_next")
    BY <2>14 DEF Destroy, Go, SetStage
  <2> QED
    BY <1>3, <2>1, <2>2, <2>3, <2>4, <2>5, <2>6, <2>7, <2>8, <2>9, <2>10, <2>11, <2>12, <2>13, <2>14 DEF Fini
<1>4. ASSUME NEW t \in Clients, Get(t) PROVE TypeInv'
  <2>1. CASE \E d \in Subdev : GetCall(t, d)
    BY <2>1 DEF GetCall, Call, Go
  <2>2. CASE Acquire(t, "get_lock", "get_body")
    BY <2>2 DEF Acquire, Go
  <2>3. CASE GetHold(t)
    <3>1. tgt[t] \in Subdev /\ HolderOf[t] \in Holder /\ t \in Thread
      BY <2>3 DEF GetHold, Go
    <3>2. refs' \in [Subdev -> [Holder -> Nat]]
      BY <3>1, <2>3 DEF GetHold
    <3> QED
      BY <3>1, <3>2, <2>3 DEF GetHold, Go, Unlock
  <2>4. CASE GetNothing(t)
    BY <2>4 DEF GetNothing, Go, Unlock
  <2> QED
    BY <1>4, <2>1, <2>2, <2>3, <2>4 DEF Get
<1>5. ASSUME NEW t \in Clients, Put(t) PROVE TypeInv'
  <2>1. CASE \E d \in Subdev : PutCall(t, d)
    BY <2>1 DEF PutCall, Call, Go
  <2>2. CASE Acquire(t, "put_lock", "put_body")
    BY <2>2 DEF Acquire, Go
  <2>3. CASE PutRelease(t)
    <3>1. tgt[t] \in Subdev /\ HolderOf[t] \in Holder /\ t \in Thread
      BY <2>3 DEF PutRelease, Go
    <3>2. refs' \in [Subdev -> [Holder -> Nat]]
      BY <3>1, <2>3 DEF PutRelease
    <3>3. comp' \in [Subdev -> 0 .. MaxDone]
      BY <3>1, <2>3 DEF PutRelease
    <3> QED
      BY <3>1, <3>2, <3>3, <2>3 DEF PutRelease, Go, Unlock
  <2>4. CASE PutNothing(t)
    BY <2>4 DEF PutNothing, Go, Unlock
  <2> QED
    BY <1>5, <2>1, <2>2, <2>3, <2>4 DEF Put
<1>6. CASE UNCHANGED vars
  BY <1>6 DEF vars
<1> QED
  BY <1>1, <1>2, <1>3, <1>4, <1>5, <1>6 DEF Next

\* A pool after xrt_subdev_pool_init, lib/subdev.c:445-451, has the types.
LEMMA TypeInvInit == Init => TypeInv
<1> SUFFICES ASSUME Init PROVE TypeInv
  OBVIOUS
<1>1. devList \in Seq(Subdev) /\ stage \in [Subdev -> Stages]
  BY DEF Init, Stages
<1>2. refs \in [Subdev -> [Holder -> Nat]]
  BY DEF Init, NoRefs
<1>3. comp \in [Subdev -> 0 .. MaxDone]
  BY BoundsAssumption DEF Init
<1> QED
  BY <1>1, <1>2, <1>3
     DEF Init, TypeInv, TypeOK, TgtOK, Locked, Unlocked

\* The variables keep their types: lib/subdev.c:568-735.
THEOREM TypeCorrect == Spec => []TypeOK
<1>1. TypeInv => TypeOK
  BY DEF TypeInv
<1> QED
  BY <1>1, TypeInvInit, TypeInvStep, PTL DEF Spec

-----------------------------------------------------------------------------
(* The references.                                                          *)

\* A reference somebody owes is counted, and only such a one is.
LEMMA OwingCounted ==
    ASSUME TypeInv, HeldStaysListed, KrefExact
    PROVE  /\ \A d \in Subdev, h \in Holder :
                /\ IsFiniteSet(Owing(d, h))
                /\ Cardinality(Owing(d, h)) = 0 <=> Owing(d, h) = {}
           /\ \A t \in Clients : \A d \in owed[t] : refs[d][HolderOf[t]] > 0
<1>1. ASSUME NEW d \in Subdev, NEW h \in Holder
      PROVE  /\ IsFiniteSet(Owing(d, h))
             /\ Cardinality(Owing(d, h)) = 0 <=> Owing(d, h) = {}
  BY ThreadAssumption, FS_Subset, FS_EmptySet DEF Owing
<1>2. ASSUME NEW t \in Clients, NEW d \in owed[t]
      PROVE  refs[d][HolderOf[t]] > 0
  <2>1. d \in Subdev /\ HolderOf[t] \in Holder
    BY ThreadAssumption DEF TypeInv, TypeOK
  <2>2. t \in Owing(d, HolderOf[t])
    BY <1>2 DEF Owing
  <2>3. Cardinality(Owing(d, HolderOf[t])) # 0
    BY <1>1, <2>1, <2>2
  <2> QED
    BY <2>1, <2>3 DEF TypeInv, TypeOK, HeldStaysListed, KrefExact
<1> QED
  BY <1>1, <1>2

\* Children are named once on the list after one was added or removed.
LEMMA ListGrows ==
    ASSUME TypeInv, ListExact, NEW d \in Subdev, stage[d] # "listed",
           stage' = [stage EXCEPT ![d] = "listed"],
           devList' \in Seq(Subdev), Len(devList') = Len(devList) + 1,
           devList'[1] = d,
           \A j \in 1 .. Len(devList) : devList'[j + 1] = devList[j]
    PROVE  ListExact'
<1>1. /\ DOMAIN devList = 1 .. Len(devList) /\ Len(devList) \in Nat
      /\ DOMAIN devList' = 1 .. Len(devList) + 1
  BY DEF TypeInv, TypeOK
<1>2. \A i \in DOMAIN devList' : i = 1 \/ i - 1 \in 1 .. Len(devList)
  BY <1>1
<1>3. \A i \in DOMAIN devList' : i # 1 => devList'[i] = devList[i - 1]
  BY <1>1, <1>2
<1>4. \A i \in 1 .. Len(devList) : devList[i] # d
  BY <1>1 DEF ListExact
<1>5. \A i, j \in DOMAIN devList' : devList'[i] = devList'[j] => i = j
  BY <1>1, <1>2, <1>3, <1>4 DEF ListExact
<1>6. ASSUME NEW e \in Subdev
      PROVE  stage'[e] = "listed" <=> \E i \in DOMAIN devList' : devList'[i] = e
  <2>1. CASE e = d
    <3>1. 1 \in DOMAIN devList' /\ devList'[1] = e
      BY <2>1, <1>1
    <3>2. stage'[e] = "listed"
      BY <2>1 DEF TypeInv, TypeOK
    <3> QED
      BY <3>1, <3>2
  <2>2. CASE e # d
    <3>1. stage'[e] = "listed" <=> \E i \in 1 .. Len(devList) : devList[i] = e
      BY <2>2, <1>1 DEF TypeInv, TypeOK, ListExact
    <3>2. ASSUME NEW i \in 1 .. Len(devList), devList[i] = e
          PROVE  i + 1 \in DOMAIN devList' /\ devList'[i + 1] = e
      BY <3>2, <1>1
    <3>3. ASSUME NEW i \in DOMAIN devList', devList'[i] = e
          PROVE  i - 1 \in 1 .. Len(devList) /\ devList[i - 1] = e
      BY <3>3, <2>2, <1>2, <1>3
    <3> QED
      BY <3>1, <3>2, <3>3
  <2> QED
    BY <2>1, <2>2
<1> QED
  BY <1>5, <1>6 DEF ListExact

\* list_del leaves every other child on the list, named once, and the removed
\* one off it: lib/subdev.c:497-505, 617-622.
LEMMA ListShrinks ==
    ASSUME TypeInv, ListExact, NEW d \in Subdev, NEW i \in DOMAIN devList,
           devList[i] = d, devList' = RemoveAt(devList, i),
           stage' = [stage EXCEPT ![d] = "unlinked"]
    PROVE  ListExact'
<1>1. /\ DOMAIN devList = 1 .. Len(devList) /\ Len(devList) \in Nat
      /\ DOMAIN devList' = 1 .. Len(devList) - 1
      /\ \A j \in 1 .. Len(devList) - 1 :
            devList'[j] = IF j < i THEN devList[j] ELSE devList[j + 1]
  <2>1. devList \in Seq(Subdev)
    BY DEF TypeInv, TypeOK
  <2>2. /\ devList' \in Seq(Subdev) /\ Len(devList') = Len(devList) - 1
        /\ \A j \in 1 .. Len(devList) - 1 :
              devList'[j] = IF j < i THEN devList[j] ELSE devList[j + 1]
    BY <2>1, RemoveAtProperties
  <2> QED
    BY <2>1, <2>2, LenProperties
<1>2. ASSUME NEW j \in DOMAIN devList', NEW k \in DOMAIN devList',
             devList'[j] = devList'[k]
      PROVE  j = k
  <2>1. /\ j \in DOMAIN devList /\ j + 1 \in DOMAIN devList
        /\ k \in DOMAIN devList /\ k + 1 \in DOMAIN devList
        /\ i \in Nat /\ j \in Nat /\ k \in Nat
    BY <1>1
  <2>2. (IF j < i THEN j ELSE j + 1) = (IF k < i THEN k ELSE k + 1)
    BY <1>1, <1>2, <2>1 DEF ListExact
  <2> QED
    BY <2>1, <2>2
<1>3. ASSUME NEW e \in Subdev
      PROVE  stage'[e] = "listed" <=> \E j \in DOMAIN devList' : devList'[j] = e
  <2>1. CASE e = d
    <3>1. ASSUME NEW j \in DOMAIN devList' PROVE devList'[j] # d
      <4>1. /\ j \in DOMAIN devList /\ j + 1 \in DOMAIN devList
            /\ j \in Nat /\ i \in Nat
        BY <1>1
      <4> QED
        BY <4>1, <1>1 DEF ListExact
    <3> QED
      BY <2>1, <3>1 DEF TypeInv, TypeOK
  <2>2. CASE e # d
    <3>1. stage'[e] = "listed" <=> \E j \in DOMAIN devList : devList[j] = e
      BY <2>2 DEF TypeInv, TypeOK, ListExact
    <3>2. ASSUME NEW j \in DOMAIN devList, devList[j] = e
          PROVE  \E k \in DOMAIN devList' : devList'[k] = e
      <4>1. CASE j < i
        BY <4>1, <3>2, <1>1
      <4>2. CASE j > i
        <5>1. j - 1 \in DOMAIN devList' /\ ~(j - 1 < i) /\ (j - 1) + 1 = j
          BY <4>2, <1>1
        <5> QED
          BY <5>1, <3>2, <1>1
      <4> QED
        BY <4>1, <4>2, <3>2, <2>2, <1>1
    <3>3. ASSUME NEW k \in DOMAIN devList', devList'[k] = e
          PROVE  \E j \in DOMAIN devList : devList[j] = e
      <4>1. k \in DOMAIN devList /\ k + 1 \in DOMAIN devList
        BY <1>1
      <4> QED
        BY <4>1, <3>3, <1>1
    <3> QED
      BY <3>1, <3>2, <3>3
  <2> QED
    BY <2>1, <2>2
<1> QED
  BY <1>2, <1>3 DEF ListExact

\* A get adds its thread to those owing, a put removes it, by one count each.
LEMMA KrefGrows ==
    ASSUME TypeInv, HeldStaysListed, KrefExact,
           NEW t \in Clients, NEW d \in Subdev, d \notin owed[t],
           refs' = [refs EXCEPT ![d][HolderOf[t]] = @ + 1],
           owed' = [owed EXCEPT ![t] = @ \cup {d}], stage' = stage
    PROVE  KrefExact'
<1> DEFINE g == HolderOf[t]
<1>1. g \in Holder
  BY ThreadAssumption
<1>2. ASSUME NEW e \in Subdev, NEW h \in Holder
      PROVE  Owing(e, h)' = IF e = d /\ h = g THEN Owing(e, h) \cup {t}
                            ELSE Owing(e, h)
  BY DEF Owing, TypeInv, TypeOK
<1>3. t \notin Owing(d, g)
  BY DEF Owing
<1>4. Cardinality(Owing(d, g) \cup {t}) = Cardinality(Owing(d, g)) + 1
  BY <1>1, <1>3, OwingCounted, FS_AddElement
<1>5. ASSUME NEW e \in Subdev, NEW h \in Holder, stage'[e] = "listed"
      PROVE  refs'[e][h] = Cardinality(Owing(e, h)')
  <2>1. refs[e][h] = Cardinality(Owing(e, h))
    BY <1>5 DEF KrefExact
  <2>2. CASE e = d /\ h = g
    BY <2>1, <2>2, <1>1, <1>2, <1>4 DEF TypeInv, TypeOK
  <2>3. CASE ~(e = d /\ h = g)
    BY <2>1, <2>3, <1>1, <1>2 DEF TypeInv, TypeOK
  <2> QED
    BY <2>2, <2>3
<1> QED
  BY <1>5 DEF KrefExact

\* A put removes its thread from those owing, and one count from the kref of the
\* device it acts for: xrt_subdev_release, lib/subdev.c:549-566.
LEMMA KrefShrinks ==
    ASSUME TypeInv, HeldStaysListed, KrefExact,
           NEW t \in Clients, NEW d \in Subdev, d \in owed[t],
           refs' = [refs EXCEPT ![d][HolderOf[t]] = @ - 1],
           owed' = [owed EXCEPT ![t] = @ \ {d}], stage' = stage
    PROVE  KrefExact'
<1> DEFINE g == HolderOf[t]
<1>1. g \in Holder
  BY ThreadAssumption
<1>2. ASSUME NEW e \in Subdev, NEW h \in Holder
      PROVE  Owing(e, h)' = IF e = d /\ h = g THEN Owing(e, h) \ {t}
                            ELSE Owing(e, h)
  BY DEF Owing, TypeInv, TypeOK
<1>3. t \in Owing(d, g)
  BY DEF Owing
<1>4. Cardinality(Owing(d, g) \ {t}) = Cardinality(Owing(d, g)) - 1
  BY <1>1, <1>3, OwingCounted, FS_RemoveElement
<1>5. ASSUME NEW e \in Subdev, NEW h \in Holder, stage'[e] = "listed"
      PROVE  refs'[e][h] = Cardinality(Owing(e, h)')
  <2>1. refs[e][h] = Cardinality(Owing(e, h))
    BY <1>5 DEF KrefExact
  <2>2. CASE e = d /\ h = g
    BY <2>1, <2>2, <1>1, <1>2, <1>4 DEF TypeInv, TypeOK
  <2>3. CASE ~(e = d /\ h = g)
    BY <2>1, <2>3, <1>1, <1>2 DEF TypeInv, TypeOK
  <2> QED
    BY <2>2, <2>3
<1> QED
  BY <1>5 DEF KrefExact

\* A child whose last reference goes away completes its waiter.
LEMMA WakeupKept ==
    ASSUME Finishers = {}, TypeInv, NoLostWakeup,
           \A u \in Thread : pc'[u] \in {"del_wait", "fini_wait"}
               => pc[u] \in {"del_wait", "fini_wait"} /\ tgt'[u] = tgt[u],
           \A d \in Subdev : comp[d] > 0 => comp'[d] > 0,
           \A d \in Subdev : Held(d) => Held(d)' \/ comp'[d] > 0
    PROVE  NoLostWakeup'
<1> SUFFICES ASSUME NEW u \in Deleters,
                    pc'[u] \in {"del_wait", "fini_wait"}, ~Held(tgt[u])'
             PROVE  (comp[tgt[u]] > 0)'
  BY DEF NoLostWakeup
<1>1. /\ u \in Thread /\ pc[u] \in {"del_wait", "fini_wait"}
      /\ tgt'[u] = tgt[u]
  BY ThreadAssumption
<1>2. tgt[u] \in Subdev
  BY <1>1 DEF TypeInv, TgtOK
<1>3. Held(tgt[u]) \/ comp[tgt[u]] > 0
  BY <1>1 DEF NoLostWakeup
<1> QED
  BY <1>1, <1>2, <1>3 DEF Held

\* No step of the pool of an orderly instance breaks the inductive invariant:
\* one case for each action, lib/subdev.c:568-735.
LEMMA PoolInvStep ==
    ASSUME Orderly, TypeInv, TypeInv', PoolInv, [Next]_vars
    PROVE  PoolInv'
<1> USE ThreadAssumption, BoundsAssumption
    DEF Orderly, TypeInv, TypeOK, TgtOK, Locked, Held, NoRefs,
        PoolInv, HeldStaysListed, KrefExact, Owing, PoolLockOwned,
        Pursuing, AwaitedStaysListed, NoLostWakeup, ListExact, Adding, AddingPrivate,
        FreshUnheld, CallsInOrder, ToSet
<1>1. ASSUME NEW t \in Adders, Add(t) PROVE PoolInv'
  <2>1. CASE \E d \in Subdev : AddCreate(t, d)
    <3> SUFFICES ASSUME NEW c \in Subdev, AddCreate(t, c) PROVE PoolInv'
      BY <2>1
    <3>1. HeldStaysListed'
      BY DEF AddCreate, Call, Go, SetStage
    <3>2. KrefExact'
      BY DEF AddCreate, Call, Go, SetStage
    <3>3. PoolLockOwned'
      BY DEF AddCreate, Call, Go, SetStage
    <3>4. AwaitedStaysListed' /\ CallsInOrder'
      BY DEF AddCreate, Call, Go, SetStage
    <3>5. NoLostWakeup'
      <4>1. refs' = refs /\ comp' = comp
        BY DEF AddCreate
      <4>2. \A u \in Thread : pc'[u] \in {"del_wait", "fini_wait"}
                => pc[u] \in {"del_wait", "fini_wait"} /\ tgt'[u] = tgt[u]
        BY DEF AddCreate, Call, Go
      <4>3. \A d \in Subdev : Held(d) => Held(d)'
        BY <4>1
      <4> HIDE DEF Held, NoLostWakeup, TypeInv
      <4> QED
        BY <4>1, <4>2, <4>3, WakeupKept
    <3>6. ListExact'
      BY DEF AddCreate, Call, Go, SetStage
    <3>7. AddingPrivate' /\ FreshUnheld'
      BY DEF AddCreate, Call, Go, SetStage
    <3> QED
      BY <3>1, <3>2, <3>3, <3>4, <3>5, <3>6, <3>7
  <2>2. CASE Acquire(t, "add_lock", "add_body")
    BY <2>2 DEF Acquire, Go
  <2>3. CASE AddList(t)
    <3>1. HeldStaysListed'
      BY <2>3 DEF AddList, Go, SetStage, Unlock
    <3>2. KrefExact'
      <4>1. tgt[t] \in Subdev /\ stage[tgt[t]] = "made"
        BY <2>3 DEF AddList, Go
      <4>2. \A h \in Holder : refs[tgt[t]][h] = 0 /\ Owing(tgt[t], h) = {}
        BY <4>1
      <4>3. /\ stage' = [stage EXCEPT ![tgt[t]] = "listed"] /\ refs' = refs
            /\ \A e \in Subdev, h \in Holder : Owing(e, h)' = Owing(e, h)
        BY <2>3 DEF AddList, SetStage
      <4> HIDE DEF Owing
      <4>4. \A h \in Holder : Cardinality(Owing(tgt[t], h)) = 0
        BY <4>2, FS_EmptySet
      <4> QED
        BY <4>1, <4>2, <4>3, <4>4
    <3>3. PoolLockOwned'
      BY <2>3 DEF AddList, Go, SetStage, Unlock
    <3>4. AwaitedStaysListed' /\ CallsInOrder'
      BY <2>3 DEF AddList, Go, SetStage, Unlock
    <3>5. NoLostWakeup'
      <4>1. refs' = refs /\ comp' = comp /\ tgt' = tgt
        BY <2>3 DEF AddList
      <4>2. \A u \in Thread : pc'[u] \in {"del_wait", "fini_wait"}
                => pc[u] \in {"del_wait", "fini_wait"} /\ tgt'[u] = tgt[u]
        BY <2>3 DEF AddList, Go
      <4>3. \A d \in Subdev : Held(d) => Held(d)'
        BY <4>1
      <4> HIDE DEF Held, NoLostWakeup, TypeInv
      <4> QED
        BY <4>1, <4>2, <4>3, WakeupKept
    <3>6. ListExact'
      <4>1. /\ tgt[t] \in Subdev /\ stage[tgt[t]] = "made"
            /\ stage' = [stage EXCEPT ![tgt[t]] = "listed"]
        BY <2>3 DEF AddList, Go, SetStage
      <4>2. /\ devList' \in Seq(Subdev) /\ Len(devList') = Len(devList) + 1
            /\ devList'[1] = tgt[t]
            /\ \A j \in 1 .. Len(devList) : devList'[j + 1] = devList[j]
        BY <4>1, <2>3, ConsProperties DEF AddList
      <4> QED
        BY <4>1, <4>2, ListGrows
    <3>7. AddingPrivate' /\ FreshUnheld'
      BY <2>3 DEF AddList, Go, SetStage, Unlock
    <3> QED
      BY <3>1, <3>2, <3>3, <3>4, <3>5, <3>6, <3>7
  <2>4. CASE AddRefused(t)
    BY <2>4 DEF AddRefused, Go, Unlock
  <2>5. CASE Destroy(t, "add_destroy", "idle")
    BY <2>5 DEF Destroy, Go, SetStage
  <2>6. CASE AddReturn(t)
    BY <2>6 DEF AddReturn, Go
  <2> QED
    BY <1>1, <2>1, <2>2, <2>3, <2>4, <2>5, <2>6 DEF Add
<1>2. ASSUME NEW t \in Deleters, Del(t) PROVE PoolInv'
  <2>1. CASE \E d \in Subdev : DelCall(t, d)
    <3> SUFFICES ASSUME NEW c \in Subdev, DelCall(t, c) PROVE PoolInv'
      BY <2>1
    <3>1. HeldStaysListed'
      BY DEF DelCall, Call, Go
    <3>2. KrefExact'
      BY DEF DelCall, Call, Go
    <3>3. PoolLockOwned'
      BY DEF DelCall, Call, Go
    <3>4. AwaitedStaysListed' /\ CallsInOrder'
      BY DEF DelCall, Call, Go
    <3>5. NoLostWakeup'
      <4>1. refs' = refs /\ comp' = comp
        BY DEF DelCall
      <4>2. \A u \in Thread : pc'[u] \in {"del_wait", "fini_wait"}
                => pc[u] \in {"del_wait", "fini_wait"} /\ tgt'[u] = tgt[u]
        BY DEF DelCall, Call, Go
      <4>3. \A d \in Subdev : Held(d) => Held(d)'
        BY <4>1
      <4> HIDE DEF Held, NoLostWakeup, TypeInv
      <4> QED
        BY <4>1, <4>2, <4>3, WakeupKept
    <3>6. ListExact'
      BY DEF DelCall, Call, Go
    <3>7. AddingPrivate' /\ FreshUnheld'
      BY DEF DelCall, Call, Go
    <3> QED
      BY <3>1, <3>2, <3>3, <3>4, <3>5, <3>6, <3>7
  <2>2. CASE Acquire(t, "del_lock", "del_find")
    BY <2>2 DEF Acquire, Go
  <2>3. CASE DelNothing(t)
    BY <2>3 DEF DelNothing, Go, Unlock
  <2>4. CASE DelFound(t)
    BY <2>4 DEF DelFound, Go
  <2>5. CASE DelAwaitHolders(t)
    BY <2>5 DEF DelAwaitHolders, Go, Unlock
  <2>6. CASE Woken(t, "del_wait", "del_relock")
    <3>1. HeldStaysListed'
      BY <2>6 DEF Woken, Go
    <3>2. KrefExact'
      BY <2>6 DEF Woken, Go
    <3>3. PoolLockOwned'
      BY <2>6 DEF Woken, Go
    <3>4. AwaitedStaysListed' /\ CallsInOrder'
      BY <2>6 DEF Woken, Go
    <3>5. NoLostWakeup'
      BY <2>6 DEF Woken, Go
    <3>6. ListExact'
      BY <2>6 DEF Woken, Go
    <3>7. AddingPrivate' /\ FreshUnheld'
      BY <2>6 DEF Woken, Go
    <3> QED
      BY <3>1, <3>2, <3>3, <3>4, <3>5, <3>6, <3>7
  <2>7. CASE Interrupted(t, "del_wait", "del_killed")
    BY <2>7 DEF Interrupted, Go
  <2>8. CASE Acquire(t, "del_relock", "del_check")
    BY <2>8 DEF Acquire, Go
  <2>9. CASE Acquire(t, "del_killed", "del_give_up")
    BY <2>9 DEF Acquire, Go
  <2>10. CASE DropHolders(t, "del_give_up", "del_check")
    BY <2>10 DEF DropHolders, Go, NoRefs
  <2>11. CASE DelUnlink(t)
    <3>1. HeldStaysListed'
      <4>1. tgt[t] \in Subdev /\ stage[tgt[t]] = "listed"
        BY <2>11 DEF DelUnlink, Go
      <4>2. ASSUME NEW u \in Clients PROVE tgt[t] \notin owed[u]
        BY <2>11, <4>1, OwingCounted DEF DelUnlink
      <4> QED
        BY <4>1, <4>2, <2>11 DEF DelUnlink, Unlink, SetStage
    <3>2. KrefExact'
      BY <2>11 DEF DelUnlink, Unlink, SetStage, Go, Unlock
    <3>3. PoolLockOwned'
      BY <2>11 DEF DelUnlink, Unlink, SetStage, Go, Unlock
    <3>4. AwaitedStaysListed' /\ CallsInOrder'
      BY <2>11 DEF DelUnlink, Unlink, SetStage, Go, Unlock
    <3>5. NoLostWakeup'
      BY <2>11 DEF DelUnlink, Unlink, SetStage, Go, Unlock
    <3>6. ListExact'
      <4>1. PICK i \in DOMAIN devList :
               devList[i] = tgt[t] /\ devList' = RemoveAt(devList, i)
        BY <2>11 DEF DelUnlink, Unlink
      <4>2. tgt[t] \in Subdev /\ stage' = [stage EXCEPT ![tgt[t]] = "unlinked"]
        BY <2>11 DEF DelUnlink, Unlink, SetStage, Go
      <4> QED
        BY <4>1, <4>2, ListShrinks
    <3>7. AddingPrivate' /\ FreshUnheld'
      BY <2>11 DEF DelUnlink, Unlink, SetStage, Go, Unlock
    <3> QED
      BY <3>1, <3>2, <3>3, <3>4, <3>5, <3>6, <3>7
  <2>12. CASE Destroy(t, "del_destroy", "idle")
    BY <2>12 DEF Destroy, Go, SetStage
  <2> QED
    BY <1>2, <2>1, <2>2, <2>3, <2>4, <2>5, <2>6, <2>7, <2>8, <2>9, <2>10, <2>11, <2>12 DEF Del
<1>3. ASSUME NEW t \in Clients, Get(t) PROVE PoolInv'
  <2>1. CASE \E d \in Subdev : GetCall(t, d)
    <3> SUFFICES ASSUME NEW c \in Subdev, GetCall(t, c) PROVE PoolInv'
      BY <2>1
    <3>1. HeldStaysListed'
      BY DEF GetCall, Call, Go
    <3>2. KrefExact'
      BY DEF GetCall, Call, Go
    <3>3. PoolLockOwned'
      BY DEF GetCall, Call, Go
    <3>4. AwaitedStaysListed' /\ CallsInOrder'
      BY DEF GetCall, Call, Go
    <3>5. NoLostWakeup'
      <4>1. refs' = refs /\ comp' = comp
        BY DEF GetCall
      <4>2. \A u \in Thread : pc'[u] \in {"del_wait", "fini_wait"}
                => pc[u] \in {"del_wait", "fini_wait"} /\ tgt'[u] = tgt[u]
        BY DEF GetCall, Call, Go
      <4>3. \A d \in Subdev : Held(d) => Held(d)'
        BY <4>1
      <4> HIDE DEF Held, NoLostWakeup, TypeInv
      <4> QED
        BY <4>1, <4>2, <4>3, WakeupKept
    <3>6. ListExact'
      BY DEF GetCall, Call, Go
    <3>7. AddingPrivate' /\ FreshUnheld'
      BY DEF GetCall, Call, Go
    <3> QED
      BY <3>1, <3>2, <3>3, <3>4, <3>5, <3>6, <3>7
  <2>2. CASE Acquire(t, "get_lock", "get_body")
    BY <2>2 DEF Acquire, Go
  <2>3. CASE GetHold(t)
    <3>1. HeldStaysListed'
      BY <2>3 DEF GetHold, Go, Unlock
    <3>2. KrefExact'
      <4>1. /\ tgt[t] \in Subdev /\ stage' = stage
            /\ tgt[t] \notin owed[t]
        BY <2>3 DEF GetHold, Go
      <4>2. /\ refs' = [refs EXCEPT ![tgt[t]][HolderOf[t]] = @ + 1]
            /\ owed' = [owed EXCEPT ![t] = @ \cup {tgt[t]}]
        BY <2>3 DEF GetHold
      <4> HIDE DEF KrefExact, HeldStaysListed, TypeInv
      <4> QED
        BY <4>1, <4>2, KrefGrows
    <3>3. PoolLockOwned'
      BY <2>3 DEF GetHold, Go, Unlock
    <3>4. AwaitedStaysListed' /\ CallsInOrder'
      BY <2>3 DEF GetHold, Go, Unlock
    <3>5. NoLostWakeup'
      <4>1. tgt[t] \in Subdev /\ HolderOf[t] \in Holder /\ tgt' = tgt
        BY <2>3 DEF GetHold, Go
      <4>2. \A u \in Thread : pc'[u] \in {"del_wait", "fini_wait"}
                => pc[u] \in {"del_wait", "fini_wait"} /\ tgt'[u] = tgt[u]
        BY <2>3 DEF GetHold, Go
      <4>3. \A d \in Subdev : comp[d] > 0 => comp'[d] > 0
        BY <2>3, <4>1 DEF GetHold
      <4>4. \A d \in Subdev : Held(d) => Held(d)'
        <5>1. \A d \in Subdev, h \in Holder : refs[d][h] > 0 => refs'[d][h] > 0
          BY <2>3, <4>1 DEF GetHold
        <5> QED
          BY <5>1
      <4> HIDE DEF Held, NoLostWakeup, TypeInv
      <4> QED
        BY <4>1, <4>2, <4>3, <4>4, WakeupKept
    <3>6. ListExact'
      BY <2>3 DEF GetHold, Go, Unlock
    <3>7. AddingPrivate' /\ FreshUnheld'
      <4>1. tgt[t] \in Subdev /\ stage[tgt[t]] = "listed"
        BY <2>3 DEF GetHold, Go
      <4> QED
        BY <4>1, <2>3 DEF GetHold, Go, Unlock
    <3> QED
      BY <3>1, <3>2, <3>3, <3>4, <3>5, <3>6, <3>7
  <2>4. CASE GetNothing(t)
    BY <2>4 DEF GetNothing, Go, Unlock
  <2> QED
    BY <1>3, <2>1, <2>2, <2>3, <2>4 DEF Get
<1>4. ASSUME NEW t \in Clients, Put(t) PROVE PoolInv'
  <2>1. CASE \E d \in Subdev : PutCall(t, d)
    <3> SUFFICES ASSUME NEW c \in Subdev, PutCall(t, c) PROVE PoolInv'
      BY <2>1
    <3>1. HeldStaysListed'
      BY DEF PutCall, Call, Go
    <3>2. KrefExact'
      BY DEF PutCall, Call, Go
    <3>3. PoolLockOwned'
      BY DEF PutCall, Call, Go
    <3>4. AwaitedStaysListed' /\ CallsInOrder'
      BY DEF PutCall, Call, Go
    <3>5. NoLostWakeup'
      <4>1. refs' = refs /\ comp' = comp
        BY DEF PutCall
      <4>2. \A u \in Thread : pc'[u] \in {"del_wait", "fini_wait"}
                => pc[u] \in {"del_wait", "fini_wait"} /\ tgt'[u] = tgt[u]
        BY DEF PutCall, Call, Go
      <4>3. \A d \in Subdev : Held(d) => Held(d)'
        BY <4>1
      <4> HIDE DEF Held, NoLostWakeup, TypeInv
      <4> QED
        BY <4>1, <4>2, <4>3, WakeupKept
    <3>6. ListExact'
      BY DEF PutCall, Call, Go
    <3>7. AddingPrivate' /\ FreshUnheld'
      BY DEF PutCall, Call, Go
    <3> QED
      BY <3>1, <3>2, <3>3, <3>4, <3>5, <3>6, <3>7
  <2>2. CASE Acquire(t, "put_lock", "put_body")
    BY <2>2 DEF Acquire, Go
  <2>3. CASE PutRelease(t)
    <3>1. HeldStaysListed'
      BY <2>3 DEF PutRelease, Go, Unlock
    <3>2. KrefExact'
      <4>1. /\ tgt[t] \in Subdev /\ stage' = stage
            /\ tgt[t] \in owed[t]
        BY <2>3 DEF PutRelease, Go
      <4>2. /\ refs' = [refs EXCEPT ![tgt[t]][HolderOf[t]] = @ - 1]
            /\ owed' = [owed EXCEPT ![t] = @ \ {tgt[t]}]
        BY <2>3 DEF PutRelease
      <4> HIDE DEF KrefExact, HeldStaysListed, TypeInv
      <4> QED
        BY <4>1, <4>2, KrefShrinks
    <3>3. PoolLockOwned'
      BY <2>3 DEF PutRelease, Go, Unlock
    <3>4. AwaitedStaysListed' /\ CallsInOrder'
      BY <2>3 DEF PutRelease, Go, Unlock
    <3>5. NoLostWakeup'
      <4>1. tgt[t] \in Subdev /\ HolderOf[t] \in Holder /\ tgt' = tgt
        BY <2>3 DEF PutRelease, Go
      <4>2. \A u \in Thread : pc'[u] \in {"del_wait", "fini_wait"}
                => pc[u] \in {"del_wait", "fini_wait"} /\ tgt'[u] = tgt[u]
        BY <2>3 DEF PutRelease, Go
      <4>3. \A d \in Subdev : comp[d] > 0 => comp'[d] > 0
        BY <2>3, <4>1 DEF PutRelease
      <4>4. \A d \in Subdev : Held(d) => Held(d)' \/ comp'[d] > 0
        <5>1. \A d \in Subdev \ {tgt[t]} : refs'[d] = refs[d]
          BY <2>3, <4>1 DEF PutRelease
        <5>2. CASE refs[tgt[t]][HolderOf[t]] = 1
                   /\ \A g \in Holder \ {HolderOf[t]} : refs[tgt[t]][g] = 0
          <6>1. comp'[tgt[t]] > 0
            BY <5>2, <2>3, <4>1 DEF PutRelease
          <6> QED
            BY <5>1, <6>1
        <5>3. CASE refs[tgt[t]][HolderOf[t]] # 1
          <6>1. refs'[tgt[t]][HolderOf[t]] > 0
            BY <5>3, <2>3, <4>1 DEF PutRelease
          <6> QED
            BY <5>1, <6>1, <4>1
        <5>4. CASE \E g \in Holder \ {HolderOf[t]} : refs[tgt[t]][g] # 0
          <6>1. PICK g \in Holder \ {HolderOf[t]} : refs[tgt[t]][g] # 0
            BY <5>4
          <6>2. refs'[tgt[t]][g] > 0
            BY <6>1, <2>3, <4>1 DEF PutRelease
          <6> QED
            BY <5>1, <6>1, <6>2, <4>1
        <5> QED
          BY <5>2, <5>3, <5>4
      <4> HIDE DEF Held, NoLostWakeup, TypeInv
      <4> QED
        BY <4>1, <4>2, <4>3, <4>4, WakeupKept
    <3>6. ListExact'
      BY <2>3 DEF PutRelease, Go, Unlock
    <3>7. AddingPrivate' /\ FreshUnheld'
      BY <2>3 DEF PutRelease, Go, Unlock
    <3> QED
      BY <3>1, <3>2, <3>3, <3>4, <3>5, <3>6, <3>7
  <2>4. CASE PutNothing(t)
    <3>1. tgt[t] \in owed[t] /\ tgt[t] \in Subdev
      BY <2>4 DEF PutNothing, Go
    <3>2. stage[tgt[t]] = "listed" /\ refs[tgt[t]][HolderOf[t]] > 0
      BY <3>1, OwingCounted
    <3>3. tgt[t] \in ToSet(devList)
      BY <3>1, <3>2
    <3> QED
      BY <3>2, <3>3, <2>4 DEF PutNothing
  <2> QED
    BY <1>4, <2>1, <2>2, <2>3, <2>4 DEF Put
<1>5. CASE UNCHANGED vars
  BY <1>5 DEF vars
<1> QED
  BY <1>1, <1>2, <1>3, <1>4, <1>5 DEF Next

\* An empty pool satisfies the inductive invariant: lib/subdev.c:445-451.
LEMMA PoolInvInit == Init => PoolInv
<1> SUFFICES ASSUME Init PROVE PoolInv
  OBVIOUS
<1>1. KrefExact
  BY DEF Init, KrefExact
<1>2. HeldStaysListed /\ AwaitedStaysListed /\ NoLostWakeup
  BY ThreadAssumption
     DEF Init, HeldStaysListed, AwaitedStaysListed, Pursuing, NoLostWakeup
<1>3. PoolLockOwned
  BY ThreadAssumption DEF Init, PoolLockOwned, Locked
<1>4. ListExact
  BY DEF Init, ListExact
<1>5. AddingPrivate /\ FreshUnheld /\ CallsInOrder
  BY ThreadAssumption DEF Init, AddingPrivate, Adding, FreshUnheld, CallsInOrder
<1> QED
  BY <1>1, <1>2, <1>3, <1>4, <1>5 DEF PoolInv

\* The invariant holds of a pool used as the root driver uses its pool of
\* groups: lib/subdev.c:508-735.
THEOREM PoolInvariant == ASSUME Orderly PROVE Spec => [](TypeInv /\ PoolInv)
<1>1. Init => TypeInv /\ PoolInv
  BY TypeInvInit, PoolInvInit
<1>2. TypeInv /\ PoolInv /\ [Next]_vars => (TypeInv /\ PoolInv)'
  BY TypeInvStep, PoolInvStep
<1> QED
  BY <1>1, <1>2, PTL DEF Spec

\* A child somebody has got is never unlinked or destroyed under him:
\* lib/subdev.c:459-483, 597-626.
THEOREM HeldNeverRemoved == ASSUME Orderly PROVE Spec => []HeldStaysListed
<1>1. TypeInv /\ PoolInv => HeldStaysListed
  BY DEF PoolInv
<1> QED
  BY <1>1, PoolInvariant, PTL

\* The count of each holder is the number of references threads still owe for
\* it: lib/subdev.c:523-566.
THEOREM CountsExact == ASSUME Orderly PROVE Spec => []KrefExact
<1>1. TypeInv /\ PoolInv => KrefExact
  BY DEF PoolInv
<1> QED
  BY <1>1, PoolInvariant, PTL

\* A removal that waits for holders which are all gone has been woken:
\* lib/subdev.c:562-564.
THEOREM WakeupNeverLost == ASSUME Orderly PROVE Spec => []NoLostWakeup
<1>1. TypeInv /\ PoolInv => NoLostWakeup
  BY DEF PoolInv
<1> QED
  BY <1>1, PoolInvariant, PTL

-----------------------------------------------------------------------------
(* The contract.                                                            *)

\* A step that neither moves a child on or off the list nor changes what
\* clients have is none of the contract's.
LEMMA QuietStep ==
    ASSUME owed' = owed,
           \A d \in Subdev : stage'[d] # stage[d]
               => \/ stage[d] = "none" /\ stage'[d] = "made"
                  \/ stage[d] = "unlinked" /\ stage'[d] = "gone"
    PROVE  UNCHANGED Contract!contractVars
<1>1. {d \in Subdev : stage'[d] = "listed"} = {d \in Subdev : stage[d] = "listed"}
  OBVIOUS
<1>2. {d \in Subdev : stage'[d] \in {"unlinked", "gone"}}
        = {d \in Subdev : stage[d] \in {"unlinked", "gone"}}
  OBVIOUS
<1> QED
  BY <1>1, <1>2 DEF Contract!contractVars

\* Every step of an orderly pool, lib/subdev.c:568-735, is a step of PoolContract
\* or changes nothing the contract speaks of.
LEMMA ContractStep ==
    ASSUME Orderly, TypeInv, PoolInv, [Next]_vars
    PROVE  [Contract!Next]_(Contract!contractVars)
<1> USE ThreadAssumption DEF TypeInv, TypeOK, TgtOK
<1>1. ASSUME NEW t \in Adders, Add(t)
      PROVE  [Contract!Next]_(Contract!contractVars)
  <2>1. CASE AddList(t)
    <3>1. PICK d \in Subdev : d = tgt[t] /\ stage[d] = "made"
      BY <2>1 DEF AddList, Go, PoolInv, AddingPrivate, Adding
    <3>2. Contract!Enter(d)
      BY <2>1, <3>1 DEF AddList, SetStage, Contract!Enter
    <3> QED
      BY <3>1, <3>2 DEF Contract!Next
  <2>2. CASE Destroy(t, "add_destroy", "idle")
    <3>1. PICK d \in Subdev : d = tgt[t] /\ stage[d] = "made"
      BY <2>2 DEF Destroy, Go, PoolInv, AddingPrivate, Adding
    <3>2. Contract!Refuse(d)
      BY <2>2, <3>1 DEF Destroy, SetStage, Contract!Refuse
    <3> QED
      BY <3>1, <3>2 DEF Contract!Next
  <2>3. CASE \E d \in Subdev : AddCreate(t, d)
    BY <2>3, QuietStep DEF AddCreate, SetStage
  <2>4. CASE Acquire(t, "add_lock", "add_body") \/ AddRefused(t) \/ AddReturn(t)
    BY <2>4, QuietStep DEF Acquire, AddRefused, AddReturn
  <2> QED
    BY <1>1, <2>1, <2>2, <2>3, <2>4 DEF Add
<1>2. ASSUME NEW t \in Deleters, Del(t)
      PROVE  [Contract!Next]_(Contract!contractVars)
  <2>1. CASE DelUnlink(t)
    <3>1. PICK d \in Subdev : d = tgt[t] /\ stage[d] = "listed"
      BY <2>1 DEF DelUnlink, Go, PoolInv, AwaitedStaysListed, Pursuing
    <3>2. ASSUME NEW u \in Clients PROVE d \notin owed[u]
      BY <2>1, <3>1, OwingCounted DEF DelUnlink, Held, PoolInv
    <3>3. Contract!Leave(d)
      BY <2>1, <3>1, <3>2 DEF DelUnlink, Unlink, SetStage, Contract!Leave
    <3> QED
      BY <3>1, <3>3 DEF Contract!Next
  <2>2. CASE Destroy(t, "del_destroy", "idle")
    <3>1. tgt[t] \in Subdev /\ stage[tgt[t]] = "unlinked"
      BY <2>2 DEF Destroy, Go, PoolInv, CallsInOrder
    <3> QED
      BY <2>2, <3>1, QuietStep DEF Destroy, SetStage
  <2>3. CASE \/ \E d \in Subdev : DelCall(t, d)
             \/ Acquire(t, "del_lock", "del_find")
             \/ DelNothing(t) \/ DelFound(t) \/ DelAwaitHolders(t)
             \/ Woken(t, "del_wait", "del_relock")
             \/ Interrupted(t, "del_wait", "del_killed")
             \/ Acquire(t, "del_relock", "del_check")
             \/ Acquire(t, "del_killed", "del_give_up")
             \/ DropHolders(t, "del_give_up", "del_check")
    BY <2>3, QuietStep
       DEF DelCall, Acquire, DelNothing, DelFound, DelAwaitHolders, Woken,
           Interrupted, DropHolders
  <2> QED
    BY <1>2, <2>1, <2>2, <2>3 DEF Del
<1>3. ASSUME NEW t \in Clients, Get(t) \/ Put(t)
      PROVE  [Contract!Next]_(Contract!contractVars)
  <2>1. CASE GetHold(t)
    <3>1. tgt[t] \in Subdev /\ stage[tgt[t]] = "listed"
      BY <2>1 DEF GetHold, Go, PoolInv, ListExact, ToSet
    <3>2. Contract!Get(t, tgt[t])
      BY <2>1, <3>1 DEF GetHold, Contract!Get
    <3> QED
      BY <3>1, <3>2 DEF Contract!Next
  <2>2. CASE PutRelease(t) \/ PutNothing(t)
    <3>1. tgt[t] \in Subdev /\ tgt[t] \in owed[t]
      BY <2>2 DEF PutRelease, PutNothing, Go, PoolInv, CallsInOrder
    <3>2. Contract!Put(t, tgt[t])
      BY <2>2, <3>1 DEF PutRelease, PutNothing, Contract!Put
    <3> QED
      BY <3>1, <3>2 DEF Contract!Next
  <2>3. CASE \/ \E d \in Subdev : GetCall(t, d) \/ PutCall(t, d)
             \/ Acquire(t, "get_lock", "get_body")
             \/ Acquire(t, "put_lock", "put_body")
             \/ GetNothing(t)
    BY <2>3, QuietStep DEF GetCall, PutCall, Acquire, GetNothing
  <2> QED
    BY <1>3, <2>1, <2>2, <2>3 DEF Get, Put
<1>4. CASE UNCHANGED vars
  BY <1>4, QuietStep DEF vars
<1> QED
  BY <1>1, <1>2, <1>3, <1>4 DEF Next, Orderly

\* The pool of lib/subdev.c is a PoolContract to the drivers that use it.
THEOREM Implementation == ASSUME Orderly PROVE Spec => ImplementsContract
<1>1. Init => Contract!Init
  BY DEF Init, Contract!Init
<1> QED
  BY <1>1, ContractStep, PoolInvariant, PTL
     DEF Spec, ImplementsContract, Contract!Spec
-----------------------------------------------------------------------------
(* Teardown.                                                                *)

\* list_del of the first element: lib/subdev.c:500.
LEMMA ListDelHead ==
    ASSUME NEW S, NEW s \in Seq(S), s # <<>>
    PROVE  RemoveAt(s, 1) = Tail(s)
<1>1. Len(s) \in Nat /\ 1 \in DOMAIN s /\ DOMAIN s = 1 .. Len(s)
  BY LenProperties, EmptySeq
<1>2. /\ RemoveAt(s, 1) \in Seq(S) /\ Len(RemoveAt(s, 1)) = Len(s) - 1
      /\ \A j \in 1 .. Len(s) - 1 : RemoveAt(s, 1)[j] = s[j + 1]
  <2>1. /\ RemoveAt(s, 1) \in Seq(S) /\ Len(RemoveAt(s, 1)) = Len(s) - 1
        /\ \A j \in 1 .. Len(s) - 1 :
              RemoveAt(s, 1)[j] = IF j < 1 THEN s[j] ELSE s[j + 1]
    BY <1>1, RemoveAtProperties
  <2>2. \A j \in 1 .. Len(s) - 1 : ~ (j < 1)
    BY <1>1
  <2> QED
    BY <2>1, <2>2
<1>3. /\ Tail(s) \in Seq(S) /\ Len(Tail(s)) = Len(s) - 1
      /\ \A j \in 1 .. Len(s) - 1 : Tail(s)[j] = s[j + 1]
  BY HeadTailProperties
<1> DEFINE r == RemoveAt(s, 1)
           u == Tail(s)
<1>4. /\ r \in Seq(S) /\ u \in Seq(S) /\ Len(r) = Len(u)
      /\ \A j \in 1 .. Len(r) : r[j] = u[j]
  BY <1>2, <1>3
<1> HIDE DEF r, u
<1>5. r = u
  BY <1>4, SeqEqual
<1> QED
  BY <1>5 DEF r, u

\* A child that leaves the list is named there once: the others stay.
LEMMA UnlinkKeepsExact ==
    ASSUME TypeInv, ListExact, NEW d \in Subdev, Unlink(d)
    PROVE  /\ ListExact'
           /\ stage' = [stage EXCEPT ![d] = "unlinked"]
           /\ devList # <<>>
           /\ d = Head(devList) => devList' = Tail(devList)
<1>1. PICK i \in DOMAIN devList : devList[i] = d /\ devList' = RemoveAt(devList, i)
  BY DEF Unlink
<1>2. stage' = [stage EXCEPT ![d] = "unlinked"]
  BY DEF Unlink, SetStage
<1>3. devList \in Seq(Subdev) /\ devList # <<>>
  BY <1>1 DEF TypeInv, TypeOK
<1>4. ASSUME d = Head(devList) PROVE devList' = Tail(devList)
  <2>1. 1 \in DOMAIN devList /\ devList[1] = d
    BY <1>3, <1>4, LenProperties, EmptySeq
  <2>2. i = 1
    BY <1>1, <2>1 DEF ListExact
  <2>3. RemoveAt(devList, 1) = Tail(devList)
    BY <1>3, ListDelHead
  <2> QED
    BY <1>1, <2>2, <2>3
<1> QED
  BY <1>1, <1>2, <1>3, <1>4, ListShrinks

\* Steps that leave list, flag and stages alone, and neither enter nor leave a
\* removal.
LEMMA TeardownQuiet ==
    ASSUME TeardownInv, UNCHANGED <<devList, closing, stage>>,
           \A t \in Thread : pc'[t] \in Adding => pc[t] \in Adding /\ tgt'[t] = tgt[t],
           \A t \in Thread :
               \/ pc'[t] = pc[t] /\ tgt'[t] = tgt[t]
               \/ pc[t] \notin InDel \cup InFini /\ pc'[t] \notin InDel \cup InFini
    PROVE  TeardownInv'
<1> USE ThreadAssumption DEF InDel, InFini
<1>1. ListExact' /\ AddingPrivate'
  BY DEF TeardownInv, ListExact, AddingPrivate
<1>2. UnlinkedInHand'
  BY DEF TeardownInv, UnlinkedInHand
<1>3. ClosedByFini'
  BY DEF TeardownInv, ClosedByFini
<1>4. FiniAtNewest'
  BY DEF TeardownInv, FiniAtNewest
<1> QED
  BY <1>1, <1>2, <1>3, <1>4 DEF TeardownInv

\* Creation and destruction beside a teardown, lib/subdev.c:568-595.
LEMMA TeardownAdd ==
    ASSUME OneRemover, TypeInv, TypeInv', TeardownInv, NEW t \in Adders, Add(t)
    PROVE  TeardownInv'
<1> USE ThreadAssumption DEF InDel, InFini, Adding
<1>0. t \in Thread /\ pc \in [Thread -> Locked \cup Unlocked]
      /\ stage \in [Subdev -> Stages] /\ tgt \in [Thread -> Subdev \cup {NoSubdev}]
  BY DEF TypeInv, TypeOK
<1>1. CASE \E d \in Subdev : AddCreate(t, d)
  <2> SUFFICES ASSUME NEW c \in Subdev, AddCreate(t, c) PROVE TeardownInv'
    BY <1>1
  <2>1. /\ stage[c] = "none" /\ stage' = [stage EXCEPT ![c] = "made"]
        /\ pc[t] = "idle" /\ pc' = [pc EXCEPT ![t] = "add_lock"]
        /\ tgt' = [tgt EXCEPT ![t] = c] /\ devList' = devList /\ closing' = closing
    BY DEF AddCreate, Call, Go, SetStage
  <2>2. ListExact'
    BY <1>0, <2>1 DEF TeardownInv, ListExact
  <2>3. AddingPrivate'
    BY <1>0, <2>1 DEF TeardownInv, AddingPrivate
  <2>4. UnlinkedInHand'
    BY <1>0, <2>1 DEF TeardownInv, UnlinkedInHand
  <2>5. ClosedByFini' /\ FiniAtNewest'
    BY <1>0, <2>1 DEF TeardownInv, ClosedByFini, FiniAtNewest
  <2> QED
    BY <2>2, <2>3, <2>4, <2>5 DEF TeardownInv
<1>2. CASE Acquire(t, "add_lock", "add_body") \/ AddRefused(t) \/ AddReturn(t)
  BY <1>0, <1>2, TeardownQuiet DEF Acquire, AddRefused, AddReturn, Go
<1>3. CASE AddList(t)
  <2>1. /\ pc[t] = "add_body" /\ pc' = [pc EXCEPT ![t] = "add_return"]
        /\ tgt' = tgt /\ ~closing /\ closing' = closing
        /\ devList' = <<tgt[t]>> \o devList
        /\ stage' = [stage EXCEPT ![tgt[t]] = "listed"]
    BY <1>3 DEF AddList, Go, SetStage
  <2>2. tgt[t] \in Subdev /\ stage[tgt[t]] = "made" /\ devList \in Seq(Subdev)
    BY <1>0, <2>1 DEF TeardownInv, AddingPrivate, TypeInv, TypeOK, TgtOK
  <2>3. /\ devList' \in Seq(Subdev) /\ Len(devList') = Len(devList) + 1
        /\ devList'[1] = tgt[t]
        /\ \A j \in 1 .. Len(devList) : devList'[j + 1] = devList[j]
    BY <2>1, <2>2, ConsProperties
  <2>4. ListExact'
    BY <2>1, <2>2, <2>3, ListGrows DEF TeardownInv
  <2>5. AddingPrivate'
    BY <1>0, <2>1, <2>2 DEF TeardownInv, AddingPrivate
  <2>6. UnlinkedInHand'
    BY <1>0, <2>1, <2>2 DEF TeardownInv, UnlinkedInHand
  <2>7. ClosedByFini' /\ FiniAtNewest'
    BY <1>0, <2>1 DEF TeardownInv, ClosedByFini, FiniAtNewest
  <2> QED
    BY <2>4, <2>5, <2>6, <2>7 DEF TeardownInv
<1>4. CASE Destroy(t, "add_destroy", "idle")
  <2>1. /\ pc[t] = "add_destroy" /\ pc' = [pc EXCEPT ![t] = "idle"]
        /\ UNCHANGED <<tgt, closing, devList>>
        /\ stage' = [stage EXCEPT ![tgt[t]] = "gone"]
    BY <1>4 DEF Destroy, Go, SetStage
  <2>2. tgt[t] \in Subdev /\ stage[tgt[t]] = "made"
    BY <1>0, <2>1 DEF TeardownInv, AddingPrivate, TypeInv, TgtOK
  <2>3. ListExact'
    BY <1>0, <2>1, <2>2 DEF TeardownInv, ListExact
  <2>4. AddingPrivate'
    BY <1>0, <2>1, <2>2 DEF TeardownInv, AddingPrivate
  <2>5. UnlinkedInHand'
    BY <1>0, <2>1, <2>2 DEF TeardownInv, UnlinkedInHand
  <2>6. ClosedByFini' /\ FiniAtNewest'
    BY <1>0, <2>1 DEF TeardownInv, ClosedByFini, FiniAtNewest
  <2> QED
    BY <2>3, <2>4, <2>5, <2>6 DEF TeardownInv
<1> QED
  BY <1>1, <1>2, <1>3, <1>4 DEF Add

\* What a thread that takes a child off the list leaves to itself.
LEMMA TeardownUnlink ==
    ASSUME OneRemover, TypeInv, TeardownInv, NEW t \in Deleters \cup Finishers,
           \/ t \in Deleters /\ Go(t, "del_check", "del_destroy")
           \/ t \in Finishers /\ Go(t, "fini_unlink", "fini_destroy"),
           Unlink(tgt[t]), tgt' = tgt
    PROVE  ListExact' /\ AddingPrivate' /\ UnlinkedInHand'
<1> USE ThreadAssumption
<1>1. t \in Thread /\ tgt[t] \in Subdev /\ pc \in [Thread -> Locked \cup Unlocked]
      /\ stage \in [Subdev -> Stages]
  BY DEF Go, TypeInv, TypeOK, TgtOK
<1>2. ListExact' /\ stage' = [stage EXCEPT ![tgt[t]] = "unlinked"]
  BY <1>1, UnlinkKeepsExact DEF TeardownInv
<1>3. stage[tgt[t]] = "listed"
  BY <1>1 DEF Unlink, TeardownInv, ListExact
<1>4. AddingPrivate'
  BY <1>1, <1>2, <1>3 DEF Go, TeardownInv, AddingPrivate, Adding
<1>5. UnlinkedInHand'
  BY <1>1, <1>2, <1>3 DEF Go, OneRemover, TeardownInv, UnlinkedInHand
<1> QED
  BY <1>2, <1>4, <1>5

\* What the destruction of a child that was taken off the list leaves.
LEMMA TeardownDestroy ==
    ASSUME OneRemover, TypeInv, TeardownInv, NEW t \in Deleters \cup Finishers,
           NEW from, from \in {"del_destroy", "fini_destroy"},
           NEW to, to \in {"idle", "fini_next"}, Destroy(t, from, to)
    PROVE  ListExact' /\ AddingPrivate' /\ UnlinkedInHand'
<1> USE ThreadAssumption
<1>1. t \in Thread /\ tgt[t] \in Subdev /\ pc \in [Thread -> Locked \cup Unlocked]
      /\ stage \in [Subdev -> Stages]
  BY DEF Destroy, Go, TypeInv, TypeOK, TgtOK
<1>2. /\ UNCHANGED <<tgt, devList>> /\ stage' = [stage EXCEPT ![tgt[t]] = "gone"]
      /\ pc[t] = from /\ pc' = [pc EXCEPT ![t] = to]
  BY DEF Destroy, Go, SetStage
<1>3. stage[tgt[t]] = "unlinked"
  BY <1>2 DEF TeardownInv, UnlinkedInHand
<1>4. ListExact'
  BY <1>1, <1>2, <1>3 DEF TeardownInv, ListExact
<1>5. AddingPrivate'
  BY <1>1, <1>2, <1>3 DEF TeardownInv, AddingPrivate, Adding
<1>6. UnlinkedInHand'
  BY <1>1, <1>2, <1>3 DEF OneRemover, TeardownInv, UnlinkedInHand
<1> QED
  BY <1>4, <1>5, <1>6

\* Waiting for holders, lib/subdev.c:459-483, keeps a removal at its child.
LEMMA TeardownWaits ==
    ASSUME OneRemover, TypeInv, TeardownInv, NEW t \in Deleters \cup Finishers,
           NEW from, NEW to, Go(t, from, to),
           \/ from \in InDel \ {"del_destroy"} /\ to \in InDel \ {"del_destroy"}
           \/ /\ from \in InFini \ {"fini_next", "fini_destroy"}
              /\ to \in InFini \ {"fini_next", "fini_destroy"},
           UNCHANGED <<devList, closing, stage, tgt>>
    PROVE  TeardownInv'
<1> USE ThreadAssumption DEF InDel, InFini, Go, OneRemover
<1>0. t \in Thread /\ pc \in [Thread -> Locked \cup Unlocked]
  BY DEF TypeInv, TypeOK
<1>1. ListExact' /\ AddingPrivate'
  BY <1>0 DEF TeardownInv, ListExact, AddingPrivate, Adding
<1>2. UnlinkedInHand'
  BY <1>0 DEF TeardownInv, UnlinkedInHand
<1>3. ClosedByFini'
  BY <1>0 DEF TeardownInv, ClosedByFini
<1>4. FiniAtNewest'
  BY <1>0 DEF TeardownInv, FiniAtNewest
<1> QED
  BY <1>1, <1>2, <1>3, <1>4 DEF TeardownInv

\* A delete of one device keeps what a teardown relies on (xrt_subdev_pool_del).
LEMMA TeardownDel ==
    ASSUME OneRemover, TypeInv, TeardownInv, NEW t \in Deleters, Del(t)
    PROVE  TeardownInv'
<1> USE ThreadAssumption
<1>0. t \in Thread /\ pc \in [Thread -> Locked \cup Unlocked]
      /\ tgt \in [Thread -> Subdev \cup {NoSubdev}]
  BY DEF TypeInv, TypeOK
<1>1. CASE \/ \E d \in Subdev : DelCall(t, d)
           \/ Acquire(t, "del_lock", "del_find") \/ DelNothing(t)
  BY <1>0, <1>1, TeardownQuiet DEF DelCall, Call, Acquire, DelNothing, Go, InDel, InFini, Adding
<1>2. CASE DelFound(t)
  <2>1. /\ pc[t] = "del_find" /\ pc' = [pc EXCEPT ![t] = "del_check"] /\ ~closing
        /\ UNCHANGED <<devList, closing, stage, tgt>>
    BY <1>2 DEF DelFound, Go
  <2>2. ListExact' /\ AddingPrivate'
    BY <1>0, <2>1 DEF TeardownInv, ListExact, AddingPrivate, Adding
  <2>3. UnlinkedInHand'
    BY <1>0, <2>1 DEF TeardownInv, UnlinkedInHand
  <2>4. ClosedByFini' /\ FiniAtNewest'
    BY <1>0, <2>1 DEF TeardownInv, ClosedByFini, FiniAtNewest, InDel, InFini
  <2> QED
    BY <2>2, <2>3, <2>4 DEF TeardownInv
<1>3. CASE DelAwaitHolders(t)
  BY <1>3, TeardownWaits DEF DelAwaitHolders, InDel
<1>4. CASE Woken(t, "del_wait", "del_relock")
  BY <1>4, TeardownWaits DEF Woken, InDel
<1>5. CASE Interrupted(t, "del_wait", "del_killed")
  BY <1>5, TeardownWaits DEF Interrupted, InDel
<1>6. CASE Acquire(t, "del_relock", "del_check")
  BY <1>6, TeardownWaits DEF Acquire, InDel
<1>7. CASE Acquire(t, "del_killed", "del_give_up")
  BY <1>7, TeardownWaits DEF Acquire, InDel
<1>8. CASE DropHolders(t, "del_give_up", "del_check")
  BY <1>8, TeardownWaits DEF DropHolders, InDel
<1>9. CASE DelUnlink(t)
  <2>1. /\ pc[t] = "del_check" /\ pc' = [pc EXCEPT ![t] = "del_destroy"]
        /\ tgt' = tgt /\ closing' = closing
    BY <1>9 DEF DelUnlink, Go
  <2>2. ListExact' /\ AddingPrivate' /\ UnlinkedInHand'
    <3>1. Go(t, "del_check", "del_destroy") /\ Unlink(tgt[t]) /\ tgt' = tgt
      BY <1>9 DEF DelUnlink
    <3> QED
      BY <3>1, TeardownUnlink
  <2>3. ~closing
    BY <2>1 DEF TeardownInv, ClosedByFini, InDel
  <2>4. ClosedByFini' /\ FiniAtNewest'
    BY <1>0, <2>1, <2>3 DEF TeardownInv, ClosedByFini, FiniAtNewest, InDel, InFini
  <2> QED
    BY <2>2, <2>4 DEF TeardownInv
<1>10. CASE Destroy(t, "del_destroy", "idle")
  <2>1. ListExact' /\ AddingPrivate' /\ UnlinkedInHand'
    BY <1>10, TeardownDestroy
  <2>2. ClosedByFini' /\ FiniAtNewest'
    BY <1>0, <1>10 DEF Destroy, Go, TeardownInv, ClosedByFini, FiniAtNewest, InDel, InFini
  <2> QED
    BY <2>1, <2>2 DEF TeardownInv
<1> QED
  BY <1>1, <1>2, <1>3, <1>4, <1>5, <1>6, <1>7, <1>8, <1>9, <1>10 DEF Del

\* xrt_subdev_pool_fini, lib/subdev.c:485-506.
LEMMA TeardownFini ==
    ASSUME OneRemover, TypeInv, TeardownInv, NEW t \in Finishers, Fini(t)
    PROVE  TeardownInv'
<1> USE ThreadAssumption
<1>0. t \in Thread /\ pc \in [Thread -> Locked \cup Unlocked]
      /\ tgt \in [Thread -> Subdev \cup {NoSubdev}] /\ devList \in Seq(Subdev)
  BY DEF TypeInv, TypeOK
<1>1. CASE FiniCall(t) \/ Acquire(t, "fini_lock", "fini_mark")
  BY <1>0, <1>1, TeardownQuiet DEF FiniCall, Acquire, Go, InDel, InFini, Adding
<1>2. CASE FiniMark(t)
  <2>1. /\ pc[t] = "fini_mark" /\ UNCHANGED <<devList, stage, tgt>> /\ closing' = TRUE
        /\ pc' = [pc EXCEPT ![t] = IF closing THEN "idle" ELSE "fini_next"]
    BY <1>2 DEF FiniMark, Go
  <2>2. ListExact' /\ AddingPrivate'
    BY <1>0, <2>1 DEF TeardownInv, ListExact, AddingPrivate, Adding
  <2>3. UnlinkedInHand'
    BY <1>0, <2>1 DEF TeardownInv, UnlinkedInHand
  <2>4. \A u \in Deleters \cup Finishers : u = t
    BY DEF OneRemover
  <2>5. ClosedByFini'
    BY <1>0, <2>1, <2>4 DEF TeardownInv, ClosedByFini, InDel, InFini
  <2>6. FiniAtNewest'
    BY <1>0, <2>1, <2>4 DEF FiniAtNewest, InFini
  <2> QED
    BY <2>2, <2>3, <2>5, <2>6 DEF TeardownInv
<1>3. CASE FiniNext(t)
  <2>1. /\ pc[t] = "fini_next" /\ pc' = [pc EXCEPT ![t] = "fini_check"]
        /\ UNCHANGED <<devList, closing, stage>> /\ devList # <<>>
        /\ tgt' = [tgt EXCEPT ![t] = Head(devList)]
    BY <1>3 DEF FiniNext, Go
  <2>2. ListExact' /\ AddingPrivate'
    BY <1>0, <2>1 DEF TeardownInv, ListExact, AddingPrivate, Adding
  <2>3. UnlinkedInHand'
    BY <1>0, <2>1 DEF TeardownInv, UnlinkedInHand
  <2>4. ClosedByFini'
    BY <1>0, <2>1 DEF TeardownInv, ClosedByFini, InDel, InFini
  <2>5. FiniAtNewest'
    BY <1>0, <2>1 DEF TeardownInv, FiniAtNewest, InFini
  <2> QED
    BY <2>2, <2>3, <2>4, <2>5 DEF TeardownInv
<1>4. CASE FiniDone(t)
  <2>1. /\ pc[t] = "fini_next" /\ pc' = [pc EXCEPT ![t] = "idle"] /\ devList = <<>>
        /\ UNCHANGED <<devList, closing, stage, tgt>>
    BY <1>4 DEF FiniDone, Go
  <2>2. ListExact' /\ AddingPrivate'
    BY <1>0, <2>1 DEF TeardownInv, ListExact, AddingPrivate, Adding
  <2>3. UnlinkedInHand'
    BY <1>0, <2>1 DEF TeardownInv, UnlinkedInHand
  <2>4. ClosedByFini' /\ FiniAtNewest'
    BY <1>0, <2>1 DEF TeardownInv, ClosedByFini, FiniAtNewest, InDel, InFini
  <2> QED
    BY <2>2, <2>3, <2>4 DEF TeardownInv
<1>5. CASE FiniAwaitHolders(t) \/ FiniUnheld(t)
  BY <1>5, TeardownWaits DEF FiniAwaitHolders, FiniUnheld, InFini
<1>6. CASE Woken(t, "fini_wait", "fini_relock")
  BY <1>6, TeardownWaits DEF Woken, InFini
<1>7. CASE Interrupted(t, "fini_wait", "fini_killed")
  BY <1>7, TeardownWaits DEF Interrupted, InFini
<1>8. CASE Acquire(t, "fini_relock", "fini_check")
  BY <1>8, TeardownWaits DEF Acquire, InFini
<1>9. CASE Acquire(t, "fini_killed", "fini_give_up")
  BY <1>9, TeardownWaits DEF Acquire, InFini
<1>10. CASE DropHolders(t, "fini_give_up", "fini_check")
  BY <1>10, TeardownWaits DEF DropHolders, InFini
<1>11. CASE FiniUnlink(t)
  <2>1. /\ pc[t] = "fini_unlink" /\ pc' = [pc EXCEPT ![t] = "fini_destroy"]
        /\ tgt' = tgt /\ closing' = closing
    BY <1>11 DEF FiniUnlink, Go
  <2>2. ListExact' /\ AddingPrivate' /\ UnlinkedInHand'
    <3>1. Go(t, "fini_unlink", "fini_destroy") /\ Unlink(tgt[t]) /\ tgt' = tgt
      BY <1>11 DEF FiniUnlink
    <3> QED
      BY <3>1, TeardownUnlink
  <2>3. \A u \in Deleters \cup Finishers : u = t
    BY DEF OneRemover
  <2>4. ClosedByFini' /\ FiniAtNewest'
    BY <1>0, <2>1, <2>3 DEF TeardownInv, ClosedByFini, FiniAtNewest, InDel, InFini
  <2> QED
    BY <2>2, <2>4 DEF TeardownInv
<1>12. CASE Destroy(t, "fini_destroy", "fini_next")
  <2>1. ListExact' /\ AddingPrivate' /\ UnlinkedInHand'
    BY <1>12, TeardownDestroy
  <2>2. ClosedByFini' /\ FiniAtNewest'
    BY <1>0, <1>12 DEF Destroy, Go, TeardownInv, ClosedByFini, FiniAtNewest, InDel, InFini
  <2> QED
    BY <2>1, <2>2 DEF TeardownInv
<1> QED
  BY <1>1, <1>2, <1>3, <1>4, <1>5, <1>6, <1>7, <1>8, <1>9, <1>10, <1>11, <1>12 DEF Fini

\* So do the gets and puts of the clients.
LEMMA TeardownClients ==
    ASSUME TypeInv, TeardownInv, NEW t \in Clients, Get(t) \/ Put(t)
    PROVE  TeardownInv'
<1> USE ThreadAssumption DEF InDel, InFini, Adding, Go
<1>0. t \in Thread /\ pc \in [Thread -> Locked \cup Unlocked]
      /\ tgt \in [Thread -> Subdev \cup {NoSubdev}]
  BY DEF TypeInv, TypeOK
<1>1. CASE Get(t)
  BY <1>0, <1>1, TeardownQuiet DEF Get, GetCall, Call, Acquire, GetHold, GetNothing
<1>2. CASE Put(t)
  BY <1>0, <1>2, TeardownQuiet DEF Put, PutCall, Call, Acquire, PutRelease, PutNothing
<1> QED
  BY <1>1, <1>2

\* So does every step.
LEMMA TeardownStep ==
    ASSUME OneRemover, TypeInv, TypeInv', TeardownInv, [Next]_vars
    PROVE  TeardownInv'
<1>1. CASE UNCHANGED vars
  BY <1>1, TeardownQuiet DEF vars
<1> QED
  BY <1>1, TeardownAdd, TeardownDel, TeardownFini, TeardownClients DEF Next

\* An empty pool satisfies it.
LEMMA TeardownInvInit == Init => TeardownInv
<1> SUFFICES ASSUME Init PROVE TeardownInv
  OBVIOUS
<1> USE ThreadAssumption DEF Init
<1>1. ListExact
  BY EmptySeq DEF ListExact
<1>2. AddingPrivate
  BY DEF AddingPrivate, Adding
<1>3. UnlinkedInHand /\ ClosedByFini /\ FiniAtNewest
  BY DEF UnlinkedInHand, ClosedByFini, FiniAtNewest, InDel, InFini
<1> QED
  BY <1>1, <1>2, <1>3 DEF TeardownInv

\* The inductive invariant of a pool that one thread at most takes children out
\* of: xrt_subdev_pool_del and xrt_subdev_pool_fini, lib/subdev.c:485-630.
THEOREM TeardownInvariant == ASSUME OneRemover PROVE Spec => [](TypeInv /\ TeardownInv)
<1>1. Init => TypeInv /\ TeardownInv
  BY TypeInvInit, TeardownInvInit
<1>2. TypeInv /\ TeardownInv /\ [Next]_vars => (TypeInv /\ TeardownInv)'
  BY TypeInvStep, TeardownStep
<1> QED
  BY <1>1, <1>2, PTL DEF Spec

\* subdev.c:485-506.  When teardown has returned, no child is left in the pool
\* and none is still to be destroyed, whoever creates, holds or was waited for
\* meanwhile.
THEOREM TeardownLeavesNothing == ASSUME OneRemover PROVE Spec => []FiniLeavesNothing
<1>1. ASSUME TypeInv, TeardownInv, closing, \A t \in Finishers : pc[t] \notin InFini,
             NEW d \in Subdev
      PROVE  stage[d] \notin {"listed", "unlinked"}
  <2>1. devList = <<>>
    BY <1>1 DEF TeardownInv, ClosedByFini
  <2>2. stage[d] # "listed"
    BY <1>1, <2>1, EmptySeq DEF TeardownInv, ListExact
  <2>3. /\ \A t \in Deleters : pc[t] # "del_destroy"
        /\ \A t \in Finishers : pc[t] # "fini_destroy"
    BY <1>1 DEF TeardownInv, ClosedByFini, InDel, InFini
  <2>4. stage[d] # "unlinked"
    BY <1>1, <2>3 DEF TeardownInv, UnlinkedInHand
  <2> QED
    BY <2>2, <2>4
<1>2. TypeInv /\ TeardownInv => FiniLeavesNothing
  BY <1>1 DEF FiniLeavesNothing
<1> QED
  BY <1>2, TeardownInvariant, PTL

\* subdev.c:576-583, 497-505.  A pool that is being torn down only loses
\* children, newest first: the reverse of the order they were added in.
THEOREM TeardownNewestFirst == ASSUME OneRemover PROVE Spec => ClosingPoolOnlyShrinks
<1> DEFINE Shrinks ==
        closing => \/ devList' = devList
                   \/ devList # <<>> /\ devList' = Tail(devList)
<1>1. ASSUME TypeInv, TeardownInv, [Next]_vars, closing
      PROVE  \/ devList' = devList
             \/ devList # <<>> /\ devList' = Tail(devList)
  <2> USE ThreadAssumption
  <2>1. ASSUME NEW t \in Adders, Add(t) PROVE devList' = devList
    BY <1>1, <2>1 DEF Add, AddCreate, Acquire, AddList, AddRefused, Destroy, AddReturn
  <2>2. ASSUME NEW t \in Deleters, Del(t) PROVE devList' = devList
    <3>1. pc[t] # "del_check"
      BY <1>1, <2>2 DEF TeardownInv, ClosedByFini, InDel
    <3> QED
      BY <2>2, <3>1 DEF Del, DelCall, Acquire, DelNothing, DelFound, DelAwaitHolders,
         Woken, Interrupted, DropHolders, DelUnlink, Destroy, Go
  <2>3. ASSUME NEW t \in Finishers, Fini(t), ~ FiniUnlink(t) PROVE devList' = devList
    BY <2>3 DEF Fini, FiniCall, Acquire, FiniMark, FiniNext, FiniDone, FiniAwaitHolders,
       Woken, Interrupted, DropHolders, FiniUnheld, Destroy
  <2>4. ASSUME NEW t \in Finishers, FiniUnlink(t)
        PROVE  devList # <<>> /\ devList' = Tail(devList)
    <3>1. Unlink(tgt[t]) /\ pc[t] = "fini_unlink" /\ tgt[t] \in Subdev
      BY <1>1, <2>4 DEF FiniUnlink, Go, TypeInv, TgtOK
    <3>2. tgt[t] = Head(devList)
      BY <1>1, <3>1 DEF TeardownInv, FiniAtNewest, InFini
    <3> QED
      BY <1>1, <3>1, <3>2, UnlinkKeepsExact DEF TeardownInv
  <2>5. ASSUME NEW t \in Clients, Get(t) \/ Put(t) PROVE devList' = devList
    BY <2>5 DEF Get, GetCall, Acquire, GetHold, GetNothing, Put, PutCall, PutRelease,
       PutNothing
  <2>6. CASE UNCHANGED vars
    BY <2>6 DEF vars
  <2> QED
    BY <1>1, <2>1, <2>2, <2>3, <2>4, <2>5, <2>6 DEF Next
<1>2. TypeInv /\ TeardownInv /\ [Next]_vars => [Shrinks]_vars
  BY <1>1
<1> QED
  BY <1>2, TeardownInvariant, PTL DEF Spec, ClosingPoolOnlyShrinks
=============================================================================
