------------------------------ MODULE DevNode ------------------------------
(***************************************************************************)
(* The device node of a leaf, lib/cdev.c: the character device user        *)
(* processes open, shared or exclusively, and the protocol by which the    *)
(* leaf's driver makes it and takes it away while processes use it.        *)
(*                                                                         *)
(* Granularity.  What runs under xsp_devnode_lock is one step: no critical *)
(* section sleeps, and all that other threads read or write of its state   *)
(* is read and written under the same mutex.  xsp_sysdev and complete()    *)
(* are outside it, and their accesses outside it are steps of their own.   *)
(***************************************************************************)
EXTENDS Integers, FiniteSets, FiniteSetsExt

CONSTANTS
    File,       \* one value for each open(2) in flight or open file
    MaxDone     \* bound: where the completion's count saturates (UINT_MAX)

ASSUME FileAssumption == IsFiniteSet(File)
ASSUME MaxDoneAssumption == MaxDone \in Nat \ {0}

VARIABLES
    findable,   \* whether open(2) finds the cdev: between cdev_add and cdev_del
    sysdev,     \* whether xsp_sysdev is set
    online,     \* xsp_devnode_online
    ref,        \* xsp_devnode_ref
    excl,       \* xsp_devnode_excl
    comp,       \* xsp_devnode_comp.done
    driver,     \* where the leaf's driver is in create and destroy
    file,       \* where each file is in its life
    asked       \* whether the file was opened with excl

vars == <<findable, sysdev, online, ref, excl, comp, driver, file, asked>>

TypeOK ==
    /\ findable \in BOOLEAN /\ sysdev \in BOOLEAN
    /\ online \in BOOLEAN /\ excl \in BOOLEAN
    /\ ref \in Int
    /\ comp \in 0 .. MaxDone
    /\ driver \in {"new", "added", "named", "ready", "failing", "failed",
                   "waiting", "woken", "alone", "nameless", "removed"}
    /\ file \in [File -> {"none", "found", "open", "notify"}]
    /\ asked \in [File -> BOOLEAN]

Init ==
    /\ findable = FALSE /\ sysdev = FALSE
    /\ online = FALSE /\ excl = FALSE
    /\ ref = 0
    /\ comp = 0
    /\ driver = "new"
    /\ file = [f \in File |-> "none"]
    /\ asked = [f \in File |-> FALSE]

node == <<findable, sysdev>>
access == <<online, ref, excl, comp>>
files == <<file, asked>>

Go(from, to) == driver = from /\ driver' = to
Move(f, from, to) == file[f] = from /\ file' = [file EXCEPT ![f] = to]

-----------------------------------------------------------------------------
(* The leaf's driver: xleaf_devnode_create.                                 *)

\* cdev_add: from here on open(2) finds the node's cdev.  When it fails
\* nothing was made.
CreateCdev ==
    /\ \/ Go("new", "added") /\ findable' = TRUE
       \/ Go("new", "failed") /\ UNCHANGED findable
    /\ UNCHANGED <<sysdev, access, files>>

\* device_create, and cdev_del when it fails.
CreateDevice ==
    /\ \/ Go("added", "named") /\ sysdev' = TRUE
       \/ Go("added", "failing") /\ UNCHANGED sysdev
    /\ UNCHANGED <<findable, access, files>>

CreateUndo ==
    /\ Go("failing", "failed")
    /\ findable' = FALSE
    /\ UNCHANGED <<sysdev, access, files>>

\* xleaf_devnode_allowed
Allow ==
    /\ Go("named", "ready")
    /\ online' = TRUE
    /\ UNCHANGED <<node, ref, excl, comp, files>>

-----------------------------------------------------------------------------
(* The leaf's driver: xleaf_devnode_destroy.                                *)

\* Mutant of TestUsers: the users are not counted.
TestNobody(from) == Go(from, "alone")

\* The test of the loop of xleaf_devnode_disallowed.
TestUsers(from) ==
    \/ ref # 0 /\ Go(from, "waiting")
    \/ ref = 0 /\ Go(from, "alone")

\* xleaf_devnode_disallowed up to its first wait.
Disallow ==
    /\ TestUsers("ready")
    /\ online' = FALSE
    /\ UNCHANGED <<node, ref, excl, comp, files>>

\* wait_for_completion takes one count ...
AwaitClose ==
    /\ Go("waiting", "woken")
    /\ comp > 0
    /\ comp' = comp - 1
    /\ UNCHANGED <<node, online, ref, excl, files>>

\* ... and the users are counted again.
Recheck ==
    /\ TestUsers("woken")
    /\ UNCHANGED <<node, access, files>>

\* Mutant of DestroyDevice: it does not wait.
DestroyDeviceEarly ==
    /\ driver \in {"waiting", "alone"} /\ driver' = "nameless"
    /\ sysdev' = FALSE
    /\ UNCHANGED <<findable, access, files>>

\* device_destroy, xsp_sysdev = NULL
DestroyDevice ==
    /\ Go("alone", "nameless")
    /\ sysdev' = FALSE
    /\ UNCHANGED <<findable, access, files>>

\* cdev_del
DestroyCdev ==
    /\ Go("nameless", "removed")
    /\ findable' = FALSE
    /\ UNCHANGED <<sysdev, access, files>>

Driver ==
    \/ CreateCdev \/ CreateDevice \/ CreateUndo \/ Allow
    \/ Disallow \/ AwaitClose \/ Recheck \/ DestroyDevice \/ DestroyCdev

-----------------------------------------------------------------------------
(* A process.                                                               *)

\* open(2) finds the cdev, and pins it, before it calls the leaf's open,
\* which asks for exclusive use or not.
Find(f) ==
    /\ Move(f, "none", "found")
    /\ findable
    /\ \E e \in BOOLEAN : asked' = [asked EXCEPT ![f] = e]
    /\ UNCHANGED <<driver, node, access>>

\* Mutants of Open: an exclusive open only looks for an exclusive user, and
\* an open sets the count.
OpenAs(f, can, n) ==
    /\ Move(f, "found", "open")
    /\ online
    /\ can
    /\ ref' = n
    /\ excl' = asked[f]
    /\ UNCHANGED <<driver, node, online, comp, asked>>
OpenBeside(f) == OpenAs(f, ~excl, ref + 1)
OpenFirst(f) == OpenAs(f, IF asked[f] THEN ref = 0 ELSE ~excl, 1)

\* __xleaf_devnode_open, the branch that opens.
Open(f) ==
    /\ Move(f, "found", "open")
    /\ online
    /\ IF asked[f] THEN ref = 0 ELSE ~excl
    /\ ref' = ref + 1
    /\ excl' = asked[f]
    /\ UNCHANGED <<driver, node, online, comp, asked>>

\* __xleaf_devnode_open, the branches that refuse.
Refuse(f) ==
    /\ Move(f, "found", "none")
    /\ ~online \/ (asked[f] /\ ref # 0) \/ (~asked[f] /\ excl)
    /\ UNCHANGED <<driver, node, access, asked>>

\* Mutant of Close: the count is tested before it is decremented.
CloseUnnoticed(f) ==
    /\ Move(f, "open", IF ref = 0 THEN "notify" ELSE "none")
    /\ ref' = ref - 1
    /\ excl' = (excl /\ ref # 1)
    /\ UNCHANGED <<driver, node, online, comp, asked>>

\* xleaf_devnode_close: the critical section ...
Close(f) ==
    /\ Move(f, "open", IF ref = 1 THEN "notify" ELSE "none")
    /\ ref' = ref - 1
    /\ excl' = (excl /\ ref # 1)
    /\ UNCHANGED <<driver, node, online, comp, asked>>

\* ... and the completion after it.
Notify(f) ==
    /\ Move(f, "notify", "none")
    /\ comp' = IF comp < MaxDone THEN comp + 1 ELSE comp
    /\ UNCHANGED <<driver, node, online, ref, excl, asked>>

Process(f) == Find(f) \/ Open(f) \/ Refuse(f) \/ Close(f) \/ Notify(f)

-----------------------------------------------------------------------------
Next == Driver \/ \E f \in File : Process(f)

Spec == Init /\ [][Next]_vars

\* The driver's thread runs once it has begun to take the node away, and so
\* does a process in close.  A process that has the node open closes it, at
\* the latest when it exits; nobody need open it.
FairSpec ==
    /\ Spec
    /\ WF_vars(AwaitClose \/ Recheck \/ DestroyDevice \/ DestroyCdev)
    /\ \A f \in File : WF_vars(Close(f)) /\ WF_vars(Notify(f))
=============================================================================
