--------------------------- MODULE DevNodeProofs ---------------------------
(***************************************************************************)
(* The device node's invariants and its refinement of NodeAccess, for any  *)
(* finite number of files.                                                 *)
(***************************************************************************)
EXTENDS DevNodeProps, FiniteSetTheorems, TLAPS

\* The driver's and the processes' steps keep every variable in its type.
THEOREM TypeCorrect == Spec => []TypeOK
<1>1. Init => TypeOK
  <2>1. 0 \in 0 .. MaxDone /\ 0 \in Int
    BY MaxDoneAssumption
  <2>2. ASSUME Init PROVE driver = "new" /\ ref = 0 /\ comp = 0
    BY <2>2 DEF Init
  <2>3. ASSUME Init
        PROVE  /\ findable \in BOOLEAN /\ sysdev \in BOOLEAN
               /\ online \in BOOLEAN /\ excl \in BOOLEAN
    BY <2>3, Zenon DEF Init
  <2>4. ASSUME Init
        PROVE  /\ file \in [File -> {"none", "found", "open", "notify"}]
               /\ asked \in [File -> BOOLEAN]
    BY <2>4, SMT DEF Init
  <2> QED
    BY <2>1, <2>2, <2>3, <2>4 DEF TypeOK
<1>2. TypeOK /\ [Next]_vars => TypeOK'
  <2> SUFFICES ASSUME TypeOK, [Next]_vars PROVE TypeOK'
    OBVIOUS
  <2> USE MaxDoneAssumption DEF TypeOK, Go, Move, TestUsers, node, access, files
  <2>1. CASE CreateCdev
    BY <2>1 DEF CreateCdev
  <2>1a. CASE CreateDevice
    BY <2>1a DEF CreateDevice
  <2>1b. CASE CreateUndo \/ Allow
    BY <2>1b DEF CreateUndo, Allow
  <2>2. CASE Disallow
    BY <2>2 DEF Disallow
  <2>2a. CASE AwaitClose
    BY <2>2a DEF AwaitClose
  <2>2b. CASE Recheck
    BY <2>2b DEF Recheck
  <2>3. CASE DestroyDevice \/ DestroyCdev
    BY <2>3 DEF DestroyDevice, DestroyCdev
  <2>4. ASSUME NEW f \in File, Find(f) \/ Open(f) \/ Refuse(f) PROVE TypeOK'
    BY <2>4 DEF Find, Open, Refuse
  <2>5. ASSUME NEW f \in File, Close(f) PROVE TypeOK'
    BY <2>5 DEF Close
  <2>6. ASSUME NEW f \in File, Notify(f) PROVE TypeOK'
    BY <2>6 DEF Notify
  <2>7. CASE UNCHANGED vars
    BY <2>7 DEF vars
  <2> QED
    BY <2>1, <2>1a, <2>1b, <2>2, <2>2a, <2>2b, <2>3, <2>4, <2>5, <2>6, <2>7 DEF Next, Driver, Process
<1> QED
  BY <1>1, <1>2, PTL DEF Spec

\* The open files are finitely many, and there is none exactly when the
\* exact count says so.
LEMMA UsersCounted ==
    ASSUME TypeOK, RefExact
    PROVE  /\ IsFiniteSet(Users)
           /\ ref \in Nat
           /\ ref = 0 <=> Users = {}
<1>1. IsFiniteSet(Users)
  BY FileAssumption, FS_Subset DEF Users
<1> QED
  BY <1>1, FS_CardinalityType, FS_EmptySet DEF RefExact

\* An open adds one to the count of xsp_devnode_ref and one open file.
LEMMA OpenCounted ==
    ASSUME TypeOK, RefExact, NEW f \in File, Open(f)
    PROVE  Users' = Users \cup {f} /\ RefExact'
<1>1. f \notin Users /\ Users' = Users \cup {f}
  BY DEF Open, Move, Users, TypeOK
<1>2. Cardinality(Users \cup {f}) = Cardinality(Users) + 1
  BY <1>1, UsersCounted, FS_AddElement
<1> QED
  BY <1>1, <1>2 DEF RefExact, Open

\* A close takes one from each.
LEMMA CloseCounted ==
    ASSUME TypeOK, RefExact, NEW f \in File, Close(f)
    PROVE  Users' = Users \ {f} /\ f \in Users /\ RefExact'
<1>1. f \in Users /\ Users' = Users \ {f}
  BY DEF Close, Move, Users, TypeOK
<1>2. Cardinality(Users \ {f}) = Cardinality(Users) - 1
  BY <1>1, UsersCounted, FS_RemoveElement
<1> QED
  BY <1>1, <1>2 DEF RefExact, Close

\* The last user's close leaves nobody.
LEMMA LastClose ==
    ASSUME TypeOK, RefExact, NEW f \in File, Close(f)
    PROVE  ref = 1 <=> Users' = {}
<1>1. UNCHANGED asked /\ ref' = ref - 1 /\ ref \in Int
  BY DEF Close, TypeOK
<1>2. TypeOK' /\ RefExact'
  <2>1. TypeOK'
    BY MaxDoneAssumption DEF TypeOK, Close, Move, node
  <2> QED
    BY <2>1, CloseCounted
<1>3. ref' = 0 <=> Users' = {}
  <2>1. IsFiniteSet(Users')
    BY FileAssumption, FS_Subset DEF Users
  <2> QED
    BY <2>1, <1>2, FS_CardinalityType, FS_EmptySet DEF RefExact
<1> QED
  BY <1>1, <1>3

\* No step of the driver or of a process breaks the inductive invariant.
LEMMA NodeInvStep == TypeOK /\ NodeInv /\ [Next]_vars => NodeInv'
<1> SUFFICES ASSUME TypeOK, NodeInv, [Next]_vars PROVE NodeInv'
  OBVIOUS
<1>a. RefExact
  BY DEF NodeInv
<1>1. ASSUME Driver PROVE NodeInv'
  <2>1. file' = file /\ asked' = asked /\ ref' = ref /\ excl' = excl
    BY <1>1 DEF Driver, CreateCdev, CreateDevice, CreateUndo, Allow, Disallow,
                AwaitClose, Recheck, DestroyDevice, DestroyCdev, node, access, files
  <2>2. Users' = Users
    BY <2>1 DEF Users
  <2>3. RefExact' /\ ExclusiveAlone' /\ (excl <=> \E f \in Users : asked[f])'
    BY <2>1, <2>2 DEF NodeInv, RefExact, ExclusiveAlone
  <2>4. (online <=> driver = "ready")'
    BY <1>1 DEF NodeInv, Driver, CreateCdev, CreateDevice, CreateUndo, Allow, Disallow,
                AwaitClose, Recheck, DestroyDevice, DestroyCdev, node, access, Go, TestUsers
  <2>5. (driver \in {"ready", "waiting", "woken"} \/ Users = {})'
    BY <1>1, <1>a, <2>2, UsersCounted
    DEF NodeInv, Driver, CreateCdev, CreateDevice, CreateUndo, Allow, Disallow,
        AwaitClose, Recheck, DestroyDevice, DestroyCdev, Go, TestUsers
  <2>6. NoLostClose'
    BY <1>1, <2>1
    DEF NodeInv, NoLostClose, Driver, CreateCdev, CreateDevice, CreateUndo, Allow, Disallow,
        AwaitClose, Recheck, DestroyDevice, DestroyCdev, Go, TestUsers
  <2>7. ThereInv'
    BY <1>1
    DEF NodeInv, ThereInv, Driver, CreateCdev, CreateDevice, CreateUndo, Allow, Disallow,
        AwaitClose, Recheck, DestroyDevice, DestroyCdev, Go, TestUsers, node
  <2> QED
    BY <2>3, <2>4, <2>5, <2>6, <2>7 DEF NodeInv
<1>2. ASSUME NEW f \in File, Open(f) PROVE NodeInv'
  <2>1. Users' = Users \cup {f} /\ RefExact'
    BY <1>a, <1>2, OpenCounted
  <2>2. asked' = asked /\ excl' = asked[f] /\ driver' = driver /\ online' = online /\ online
    BY <1>2 DEF Open
  <2>3. asked[f] => Users = {}
    BY <1>2, <1>a, UsersCounted DEF Open
  <2>4. ~asked[f] => \A g \in Users : ~asked[g]
    BY <1>2 DEF NodeInv, Open
  <2>5. ExclusiveAlone' /\ (excl <=> \E g \in Users : asked[g])'
    BY <2>1, <2>2, <2>3, <2>4 DEF ExclusiveAlone
  <2>6. NoLostClose' /\ (driver \in {"ready", "waiting", "woken"} \/ Users = {})'
    BY <2>2 DEF NodeInv, NoLostClose
  <2>7. ThereInv'
    BY <1>2 DEF NodeInv, ThereInv, Open, node
  <2> QED
    BY <2>1, <2>2, <2>5, <2>6, <2>7 DEF NodeInv
<1>3. ASSUME NEW f \in File, Close(f) PROVE NodeInv'
  <2>1. Users' = Users \ {f} /\ f \in Users /\ RefExact'
    BY <1>a, <1>3, CloseCounted
  <2>2. /\ asked' = asked /\ excl' = (excl /\ ref # 1)
        /\ driver' = driver /\ online' = online /\ comp' = comp /\ ref' = ref - 1
    BY <1>3 DEF Close
  <2>3. ref = 1 <=> Users' = {}
    BY <1>a, <1>3, LastClose
  <2>4. ExclusiveAlone'
    BY <2>1, <2>2 DEF NodeInv, ExclusiveAlone
  <2>5. (excl <=> \E g \in Users : asked[g])'
    <3>1. CASE Users' = {}
      BY <3>1, <2>2, <2>3
    <3>2. CASE Users' # {}
      <4>1. ~asked[f]
        BY <3>2, <2>1 DEF NodeInv, ExclusiveAlone
      <4> QED
        BY <4>1, <3>2, <2>1, <2>2, <2>3 DEF NodeInv
    <3> QED
      BY <3>1, <3>2
  <2>6. NoLostClose'
    BY <1>3, <2>2 DEF NoLostClose, Close, Move, TypeOK
  <2>7. ThereInv'
    BY <1>3 DEF NodeInv, ThereInv, Close, node
  <2> QED
    BY <2>1, <2>2, <2>4, <2>5, <2>6, <2>7 DEF NodeInv
<1>4. ASSUME NEW f \in File, Find(f) \/ Refuse(f) \/ Notify(f) PROVE NodeInv'
  <2>1. Users' = Users /\ \A g \in Users : asked'[g] = asked[g]
    BY <1>4 DEF Find, Refuse, Notify, Move, Users, TypeOK
  <2>2. ref' = ref /\ excl' = excl /\ online' = online /\ driver' = driver
    BY <1>4 DEF Find, Refuse, Notify, access
  <2>3. NoLostClose'
    <3>1. CASE Notify(f)
      BY <3>1, <2>2, MaxDoneAssumption DEF NodeInv, NoLostClose, Notify, TypeOK
    <3>2. CASE Find(f) \/ Refuse(f)
      BY <3>2, <2>2 DEF NodeInv, NoLostClose, Find, Refuse, Move, TypeOK, access
    <3> QED
      BY <1>4, <3>1, <3>2
  <2>4. ThereInv'
    BY <1>4 DEF NodeInv, ThereInv, Find, Refuse, Notify, node
  <2> QED
    BY <2>1, <2>2, <2>3, <2>4 DEF NodeInv, RefExact, ExclusiveAlone
<1>5. CASE UNCHANGED vars
  BY <1>5 DEF vars, NodeInv, ThereInv, RefExact, ExclusiveAlone, NoLostClose, Users
<1> QED
  BY <1>1, <1>2, <1>3, <1>4, <1>5 DEF Next, Process

\* A node nobody has made yet satisfies the inductive invariant.
LEMMA NodeInvInit == Init => NodeInv
<1> SUFFICES ASSUME Init PROVE NodeInv
  OBVIOUS
<1>1. Users = {}
  BY DEF Init, Users
<1> QED
  BY <1>1, FS_EmptySet DEF Init, NodeInv, ThereInv, RefExact, ExclusiveAlone, NoLostClose

\* The inductive invariant holds of the node throughout its life.
THEOREM NodeInvariant == Spec => []NodeInv
<1>1. Init => NodeInv
  BY NodeInvInit
<1>2. TypeOK /\ NodeInv /\ [Next]_vars => NodeInv'
  BY NodeInvStep
<1> QED
  BY <1>1, <1>2, TypeCorrect, PTL DEF Spec

\* xsp_devnode_ref counts the open files.
THEOREM RefAlwaysExact == Spec => []RefExact
<1>1. NodeInv => RefExact
  BY DEF NodeInv
<1> QED
  BY <1>1, NodeInvariant, PTL

\* Exclusive use of the node is exclusive.
THEOREM ExclusiveUse == Spec => []ExclusiveAlone
<1>1. NodeInv => ExclusiveAlone
  BY DEF NodeInv
<1> QED
  BY <1>1, NodeInvariant, PTL

\* The completion never leaves the driver asleep over a node nobody uses.
THEOREM CloseNeverLost == Spec => []NoLostClose
<1>1. NodeInv => NoLostClose
  BY DEF NodeInv
<1> QED
  BY <1>1, NodeInvariant, PTL

\* Nobody has the node open when it goes away, or before it is there.
THEOREM NodeStays == Spec => []NodeOutlivesUsers
<1>1. NodeInv => NodeOutlivesUsers
  BY DEF NodeInv, ThereInv, NodeOutlivesUsers
<1> QED
  BY <1>1, NodeInvariant, PTL

\* Every step of the node is a step of NodeAccess or changes nothing its
\* users see.
LEMMA AccessStep == TypeOK /\ NodeInv /\ [Next]_vars => [Access!ANext]_Access!avars
<1> SUFFICES ASSUME TypeOK, NodeInv, [Next]_vars PROVE [Access!ANext]_Access!avars
  OBVIOUS
<1> USE DEF Access!avars
<1>a. RefExact
  BY DEF NodeInv
<1>1. ASSUME Driver PROVE [Access!ANext]_Access!avars
  <2>1. Users' = Users /\ excl' = excl
    BY <1>1 DEF Users, Driver, CreateCdev, CreateDevice, CreateUndo, Allow, Disallow,
                AwaitClose, Recheck, DestroyDevice, DestroyCdev, node, access, files
  <2>2. CASE Allow
    BY <2>1, <2>2 DEF Allow, Go, Access!ANext, Access!AppearA
  <2>3. CASE Disallow
    BY <2>1, <2>3 DEF Disallow, TestUsers, Go, Access!ANext, Access!CloseA
  <2>4. CASE DestroyDevice
    BY <2>1, <2>4 DEF DestroyDevice, Go, NodeInv, Access!ANext, Access!RemoveA
  <2>5. CASE \/ CreateCdev \/ CreateDevice \/ CreateUndo
             \/ AwaitClose \/ Recheck \/ DestroyCdev
    BY <2>1, <2>5 DEF CreateCdev, CreateDevice, CreateUndo, AwaitClose, Recheck,
                      DestroyCdev, TestUsers, Go
  <2> QED
    BY <1>1, <2>2, <2>3, <2>4, <2>5 DEF Driver
<1>2. ASSUME NEW f \in File, Open(f) PROVE Access!ANext
  <2>1. Users' = Users \cup {f} /\ f \notin Users
    BY <1>a, <1>2, OpenCounted DEF Open, Move, Users
  <2>2. excl' = asked[f] /\ driver' = driver /\ driver = "ready"
    BY <1>2 DEF Open, NodeInv
  <2>3. CASE asked[f]
    <3>1. Users = {}
      BY <2>3, <1>2, <1>a, UsersCounted DEF Open
    <3> QED
      BY <3>1, <2>1, <2>2, <2>3 DEF Access!ANext, Access!OwnA
  <2>4. CASE ~asked[f]
    <3>1. ~excl
      BY <2>4, <1>2 DEF Open
    <3>2. excl \in BOOLEAN /\ asked[f] \in BOOLEAN
      BY DEF TypeOK
    <3> QED
      BY <3>1, <3>2, <2>1, <2>2, <2>4 DEF Access!ANext, Access!ShareA
  <2> QED
    BY <2>3, <2>4
<1>3. ASSUME NEW f \in File, Close(f) PROVE Access!ANext
  <2>1. Users' = Users \ {f} /\ f \in Users
    BY <1>a, <1>3, CloseCounted
  <2>2. excl' = (excl /\ ref # 1) /\ driver' = driver
    BY <1>3 DEF Close
  <2>3. ref = 1 <=> Users' = {}
    BY <1>a, <1>3, LastClose
  <2>4. excl => Users = {f}
    BY <2>1 DEF NodeInv, ExclusiveAlone
  <2>5. excl' = FALSE
    BY <2>1, <2>2, <2>3, <2>4
  <2> QED
    BY <2>1, <2>2, <2>5 DEF Access!ANext, Access!LeaveA
<1>4. ASSUME NEW f \in File, Find(f) \/ Refuse(f) \/ Notify(f)
      PROVE  UNCHANGED Access!avars
  BY <1>4 DEF Find, Refuse, Notify, Move, Users, TypeOK, access
<1>5. CASE UNCHANGED vars
  BY <1>5 DEF vars, Users
<1> QED
  BY <1>1, <1>2, <1>3, <1>4, <1>5 DEF Next, Process

\* lib/cdev.c's node is one that NodeAccess allows.
THEOREM Implementation == Spec => ImplementsAccess
<1>1. Init => Access!AInit
  BY DEF Init, Users, Access!AInit
<1>2. TypeOK /\ NodeInv /\ [Next]_vars => [Access!ANext]_Access!avars
  BY AccessStep
<1> QED
  BY <1>1, <1>2, TypeCorrect, NodeInvariant, PTL DEF Spec, ImplementsAccess, Access!ASpec
=============================================================================
