------------------------------- MODULE Leaves -------------------------------
(***************************************************************************)
(* How a group makes its leaves out of its metadata, and how the xrt bus   *)
(* numbers them.  A group copies its metadata and, for every endpoint      *)
(* descriptor of every registered leaf driver, cuts the endpoints the      *)
(* descriptor names out of the copy; a cut that finds enough of them       *)
(* becomes a device of the bus, with the first free instance number of its *)
(* driver, and the descriptor is tried again.  A cut that does not is put  *)
(* back.  Groups do this at the same time and share the instance numbers   *)
(* (lib/group.c, lib/subdev.c, lib/lib-drv.c, metadata/metadata.c).        *)
(*                                                                         *)
(* A metadata blob is the set of its endpoints: names are unique in a blob *)
(* and no step looks at anything of an endpoint but its name, its          *)
(* compatible string and whether it has an address range.  A descriptor    *)
(* entry is the set of endpoints it matches: one endpoint when it gives a  *)
(* name, those with a compatible string when it gives that.                *)
(***************************************************************************)
EXTENDS Naturals, FiniteSets, FiniteSetsExt, SequencesExt

CONSTANTS
    Group,      \* groups of the root
    Drv,        \* leaf drivers
    EpsOf,      \* the endpoints of a group's metadata
    Mapped,     \* the endpoints with an address range (io_offset)
    Broken,     \* the endpoints whose copy fails (too deep or too large)
    Descs,      \* the descriptors of the drivers, in the order of their ids
    MaxNodes,   \* XRT_MAX_DEVICE_NODES
    MaxRounds   \* bound: bring-ups of a group

VARIABLES
    registered, \* drivers that are registered on the bus
    ida,        \* xrt_device_ida: the <<driver, instance>> in use
    devices,    \* devices on the bus
    pc,         \* where a group is
    pos,        \* the descriptor a group is at
    grp_dtb,    \* a group's copy of its metadata
    dtb,        \* what the current cut took out of it
    inst,       \* the instance the device being registered has
    leaves,     \* the leaf devices in a group's pool
    failed,     \* leaves of this bring-up that failed
    lost,       \* history: endpoints of leaves that could not be added
    rounds

vars == <<registered, ida, devices, pc, pos, grp_dtb, dtb, inst, leaves,
          failed, lost, rounds>>
bus  == <<ida, devices>>

NoInstance == MaxNodes + 1      \* XRT_INVALID_DEVICE_INST
Instances  == 0..MaxNodes       \* both ends are in ida_alloc_range's range

Device == [grp : Group, drv : Drv, inst : Instances,
           eps : SUBSET UNION {EpsOf[g] : g \in Group}]

\* A driver that fails to register is left out: nobody looks at the result.
Init ==
    /\ registered \in SUBSET Drv
    /\ ida = {} /\ devices = {}
    /\ pc = [g \in Group |-> "down"]
    /\ pos = [g \in Group |-> 1]
    /\ grp_dtb = [g \in Group |-> {}]
    /\ dtb = [g \in Group |-> {}]
    /\ inst = [g \in Group |-> NoInstance]
    /\ leaves = [g \in Group |-> {}]
    /\ failed = [g \in Group |-> 0]
    /\ lost = [g \in Group |-> {}]
    /\ rounds = [g \in Group |-> 0]

Goto(g, from, to) == pc[g] = from /\ pc' = [pc EXCEPT ![g] = to]

\* xrt_grp_create_leaves: nothing to do once the leaves exist (pc is "up").
\* A copy that cannot be allocated leaves the group down.
CreateBegin(g) ==
    /\ rounds[g] < MaxRounds
    /\ Goto(g, "down", "cut")
    /\ rounds' = [rounds EXCEPT ![g] = @ + 1]
    /\ grp_dtb' = [grp_dtb EXCEPT ![g] = EpsOf[g]]
    /\ pos' = [pos EXCEPT ![g] = 1]
    /\ failed' = [failed EXCEPT ![g] = 0]
    /\ lost' = [lost EXCEPT ![g] = {}]
    /\ UNCHANGED <<registered, bus, dtb, inst, leaves>>

(***************************************************************************)
(* xrt_grp_cut_subdev_dtb                                                  *)
(***************************************************************************)
\* One entry: the endpoint it finds first is copied and then deleted.  A copy
\* that fails is passed over, the endpoint stays where it is.
CutKeepsIt(cut, entry) ==       \* mutant: the endpoint is not deleted
    LET found == entry \cap (cut.rest \ cut.took) IN
    IF found = {} \/ (CHOOSE e \in found : TRUE) \in Broken THEN cut
    ELSE [cut EXCEPT !.took = @ \cup {CHOOSE e \in found : TRUE}]

CutEntry(cut, entry) ==
    LET found == entry \cap cut.rest
        e     == CHOOSE x \in found : TRUE
    IN  IF found = {} \/ e \in Broken THEN cut
        ELSE [rest |-> cut.rest \ {e}, took |-> cut.took \cup {e}]

\* Too few endpoints: those that were taken are copied back.
PutAway(cut, min) ==      \* mutant: they are not
    IF Cardinality(cut.took) >= min THEN cut
    ELSE [rest |-> cut.rest, took |-> {}]

PutBack(cut, min) ==
    IF Cardinality(cut.took) >= min THEN cut
    ELSE [rest |-> cut.rest \cup cut.took, took |-> {}]

\* The entries of a descriptor, one after the other: what is left of a blob and
\* what was taken out of it after each.
CutAfter(blob, names) ==
    LET cut[k \in 0..Len(names)] ==
            IF k = 0 THEN [rest |-> blob, took |-> {}]
            ELSE CutEntry(cut[k - 1], names[k])
    IN  cut

CutDtb(blob, desc) ==
    PutBack(CutAfter(blob, desc.names)[Len(desc.names)], desc.min)

\* xrt_drv_get_endpoints: a driver that is not on the bus has no descriptors.
NextDesc(g) == pos' = [pos EXCEPT ![g] = @ + 1]
Stay(g) == UNCHANGED pos

Cut(g) ==
    /\ Goto(g, "cut", IF pos[g] <= Len(Descs)
                         /\ Descs[pos[g]].drv \in registered
                         /\ CutDtb(grp_dtb[g], Descs[pos[g]]).took # {}
                      THEN "add" ELSE "cut")
    /\ pos[g] <= Len(Descs)
    /\ LET d   == Descs[pos[g]]
           cut == IF d.drv \in registered THEN CutDtb(grp_dtb[g], d)
                  ELSE [rest |-> grp_dtb[g], took |-> {}]
       IN  /\ grp_dtb' = [grp_dtb EXCEPT ![g] = cut.rest]
           /\ dtb' = [dtb EXCEPT ![g] = cut.took]
           /\ IF cut.took = {} THEN NextDesc(g) ELSE Stay(g)
    /\ UNCHANGED <<registered, bus, inst, leaves, failed, lost, rounds>>

CutFails(g) ==
    /\ Goto(g, "cut", "cut")
    /\ pos[g] <= Len(Descs) /\ Descs[pos[g]].drv \in registered
    /\ failed' = [failed EXCEPT ![g] = 1]
    /\ NextDesc(g)
    /\ UNCHANGED <<registered, bus, grp_dtb, dtb, inst, leaves, lost, rounds>>

(***************************************************************************)
(* xrt_subdev_pool_add: xrt_subdev_getres, then xrt_device_register.       *)
(***************************************************************************)
\* The leaf is given up and its endpoints with it.
GiveUp(g) ==
    /\ failed' = [failed EXCEPT ![g] = 1]
    /\ lost' = [lost EXCEPT ![g] = @ \cup dtb[g]]
    /\ dtb' = [dtb EXCEPT ![g] = {}]

\* The second pass over the endpoints does not move past one that has no
\* address range: a leaf with both kinds never gets its resources.
GetRes(g) ==
    /\ Goto(g, "add", "register")
    /\ dtb[g] \subseteq Mapped \/ dtb[g] \cap Mapped = {}
    /\ UNCHANGED <<registered, bus, pos, grp_dtb, dtb, inst, leaves, failed,
                   lost, rounds>>

\* A range that conflicts with one in use.
ResConflict(g) ==
    /\ Goto(g, "add", "cut")
    /\ dtb[g] \cap Mapped # {}
    /\ GiveUp(g)
    /\ UNCHANGED <<registered, bus, pos, grp_dtb, inst, leaves, rounds>>

DrvOf(g) == Descs[pos[g]].drv

FreeInstances(d) == {i \in Instances : <<d, i>> \notin ida}

\* xrt_drv_get_instance: the first number that is free, of MaxNodes + 1.
GetInstance(g) ==
    /\ Goto(g, "register", "probe")
    /\ FreeInstances(DrvOf(g)) # {}
    /\ inst' = [inst EXCEPT ![g] = Min(FreeInstances(DrvOf(g)))]
    /\ ida' = ida \cup {<<DrvOf(g), inst'[g]>>}
    /\ UNCHANGED <<registered, devices, pos, grp_dtb, dtb, leaves, failed,
                   lost, rounds>>

\* No memory for the device, or no number left for it.
NoDevice(g) ==
    /\ Goto(g, "register", "cut")
    /\ GiveUp(g)
    /\ UNCHANGED <<registered, bus, pos, grp_dtb, inst, leaves, rounds>>

TheDevice(g) == [grp |-> g, drv |-> DrvOf(g), inst |-> inst[g], eps |-> dtb[g]]

\* device_add, and the device joins the pool of the group.
DeviceAdd(g) ==
    /\ Goto(g, "probe", "cut")
    /\ devices' = devices \cup {TheDevice(g)}
    /\ leaves' = [leaves EXCEPT ![g] = @ \cup {TheDevice(g)}]
    /\ inst' = [inst EXCEPT ![g] = NoInstance]
    /\ dtb' = [dtb EXCEPT ![g] = {}]
    /\ UNCHANGED <<registered, ida, pos, grp_dtb, failed, lost, rounds>>

\* No memory, device_add fails, or the driver does not take the device: the
\* device is unregistered again, which frees its number.
PutInstance(g) ==
    ida' = ida \ {<<DrvOf(g), inst[g]>>}

DeviceFails(g) ==
    /\ Goto(g, "probe", "cut")
    /\ PutInstance(g)
    /\ inst' = [inst EXCEPT ![g] = NoInstance]
    /\ GiveUp(g)
    /\ UNCHANGED <<registered, devices, pos, grp_dtb, leaves, rounds>>

CreateEnd(g) ==
    /\ Goto(g, "cut", "up")
    /\ pos[g] > Len(Descs)
    /\ grp_dtb' = [grp_dtb EXCEPT ![g] = {}]
    /\ UNCHANGED <<registered, bus, pos, dtb, inst, leaves, failed, lost,
                   rounds>>

(***************************************************************************)
(* xrt_grp_remove_leaves: the pool unregisters one device after another.   *)
(***************************************************************************)
RemoveBegin(g) ==
    /\ Goto(g, "up", "fini")
    /\ UNCHANGED <<registered, bus, pos, grp_dtb, dtb, inst, leaves, failed,
                   lost, rounds>>

Unregister(g) ==
    /\ pc[g] = "fini"
    /\ \E d \in leaves[g] :
        /\ devices' = devices \ {d}
        /\ ida' = ida \ {<<d.drv, d.inst>>}
        /\ leaves' = [leaves EXCEPT ![g] = @ \ {d}]
    /\ UNCHANGED <<registered, pc, pos, grp_dtb, dtb, inst, failed, lost,
                   rounds>>

RemoveEnd(g) ==
    /\ leaves[g] = {}
    /\ Goto(g, "fini", "down")
    /\ UNCHANGED <<registered, bus, pos, grp_dtb, dtb, inst, leaves, failed,
                   lost, rounds>>

Work(g) ==
    \/ Cut(g) \/ CutFails(g) \/ GetRes(g) \/ ResConflict(g)
    \/ GetInstance(g) \/ NoDevice(g) \/ DeviceAdd(g) \/ DeviceFails(g)
    \/ CreateEnd(g) \/ Unregister(g) \/ RemoveEnd(g)

Next == \E g \in Group : CreateBegin(g) \/ Work(g) \/ RemoveBegin(g)

Spec     == Init /\ [][Next]_vars
FairSpec == Spec /\ \A g \in Group : WF_vars(Work(g))

(***************************************************************************)
(* Properties                                                              *)
(***************************************************************************)
\* Every variable has its type (the state of struct xrt_group, of the
\* devices and of xrt_device_ida).
TypeOK ==
    /\ registered \subseteq Drv
    /\ ida \subseteq Drv \X Instances
    /\ devices \subseteq Device
    /\ pc \in [Group -> {"down", "cut", "add", "register", "probe", "up", "fini"}]
    /\ pos \in [Group -> 1..Len(Descs) + 1]
    /\ \A g \in Group : /\ grp_dtb[g] \subseteq EpsOf[g]
                       /\ dtb[g] \subseteq EpsOf[g]
                       /\ leaves[g] \subseteq devices
                       /\ lost[g] \subseteq EpsOf[g]
    /\ inst \in [Group -> Instances \cup {NoInstance}]
    /\ failed \in [Group -> 0..1]
    /\ rounds \in [Group -> 0..MaxRounds]

\* While a group makes its leaves (xrt_grp_create_leaves) every endpoint of
\* its metadata has exactly one home: the rest of the copy, the cut in hand,
\* one leaf, or a leaf that was given up.  None is handed to two drivers and
\* none disappears in a bundle that was too small.
EpsOfLeaves(g) == UNION {d.eps : d \in leaves[g]}

OneHome ==
    \A g \in Group :
        /\ \A d, e \in leaves[g] : d # e => d.eps \cap e.eps = {}
        /\ pc[g] \in {"cut", "add", "register", "probe"} =>
            /\ EpsOf[g] = grp_dtb[g] \cup dtb[g] \cup lost[g] \cup EpsOfLeaves(g)
            /\ Cardinality(EpsOf[g]) =
                  Cardinality(grp_dtb[g]) + Cardinality(dtb[g])
                  + Cardinality(lost[g]) + Cardinality(EpsOfLeaves(g))

\* When all descriptors were tried and nothing failed, what is left of the
\* metadata fills no descriptor of a registered driver: no leaf is forgotten
\* (the outer loop of xrt_grp_create_leaves tries each until it fails).
Fills(blob, desc) ==
    Cardinality({i \in DOMAIN desc.names : desc.names[i] \cap (blob \ Broken) # {}})
        >= desc.min

NoLeafForgotten ==
    \A g \in Group :
        pc[g] = "cut" /\ pos[g] > Len(Descs) /\ failed[g] = 0 =>
            \A i \in DOMAIN Descs :
                Descs[i].drv \in registered => ~Fills(grp_dtb[g], Descs[i])

\* The numbers in use are those of the devices, and of the ones being
\* registered, each used once, whatever failed and whichever groups came and
\* went (xrt_drv_get_instance, xrt_device_unregister).
Registering == {g \in Group : inst[g] # NoInstance}

InstancesExact ==
    /\ ida = {<<d.drv, d.inst>> : d \in devices}
             \cup {<<DrvOf(g), inst[g]>> : g \in Registering}
    /\ Cardinality(ida) = Cardinality(devices) + Cardinality(Registering)

\* A device's number is a minor of the region its driver reserved, which has
\* MaxNodes of them (lib-drv.c:74).  The code violates it: the range of
\* numbers is inclusive (lib-drv.c:150).
MinorsInRegion == \A d \in devices : d.inst < MaxNodes

\* A group that started to make its leaves ends, and one that tears them down
\* ends, whatever fails on the way (xrt_grp_create_leaves' two loops).
Busy(g) == pc[g] \notin {"down", "up"}

CreateEnds == \A g \in Group : Busy(g) ~> ~Busy(g)
=============================================================================
