------------------------------ MODULE MgmtMain ------------------------------
(***************************************************************************)
(* The main leaf of xrt-mgmt, mgmt/xmgmt-main.c, with the FPGA regions of  *)
(* mgmt/xmgmt-main-region.c and the FPGA manager of mgmt/xrt-mgr.c: where  *)
(* the shell's firmware comes from, and what a download does to the tree   *)
(* of regions.                                                             *)
(*                                                                         *)
(* An image is the interface uuids its device tree lists: that of the      *)
(* region it goes into and those of the regions it has room for.  A region *)
(* has its bridge, the AXI gate in front of it, as long as it is there; its *)
(* group (RootGroups) comes and goes.                                      *)
(***************************************************************************)
EXTENDS Integers, Sequences, FiniteSets, SequencesExt

CONSTANTS
    Uuid, NoUuid,   \* interface uuids, and the null uuid
    Image, NoImage, \* xclbins, and no firmware
    Uuids,          \* the interface uuids of each image
    Shells,         \* images that disk or flash can have
    Valid,          \* those that are whole and made for this board's ROM
    Packages,       \* images that processes and the peer download
    MaxDownloads,   \* bound: downloads of each
    MaxRegions      \* bound: regions ever created

ASSUME MainAssumption ==
    /\ NoUuid \notin Uuid /\ NoImage \notin Image
    /\ Uuids \in [Image -> Seq(Uuid)]
    /\ Valid \subseteq Shells /\ Shells \cup Packages \subseteq Image
    /\ MaxDownloads \in Nat /\ MaxRegions \in Nat

\* A process with the device node open, and the mailbox's listener; and with
\* evt_work, whoever processes an image.
Loader == {"ioctl", "peer"}
Worker == Loader \cup {"event"}
NoRegion == 0

VARIABLES
    regions,    \* the regions of this device; ids grow, so the smallest is the oldest
    made,       \* how many were created
    blp, ulp,   \* firmware_blp and firmware_ulp (nothing sets firmware_plp)
    devctl, flash,  \* XMGMT_FLAG_DEVCTL_READY, XMGMT_FLAG_FLASH_READY
    events,     \* events that wait for evt_work
    reachable,  \* images whose endpoints the PCIe firewall lets through
    shells,     \* how many groups were made of the shell
    lock,       \* the owner of the main leaf's lock, or "none"
    pc,         \* where each worker is
    img,        \* the image it processes
    base,       \* compat_region, by id
    doomed,     \* free_list of a clean-up, without the region itself
    rooms,      \* uuids it has yet to make a region of
    rc,         \* the result so far
    done        \* how many downloads were made

vars == <<regions, made, blp, ulp, devctl, flash, events, reachable, shells,
          lock, pc, img, base, doomed, rooms, rc, done>>

Region == [id : 1 .. MaxRegions, uuid : Uuid, dep : Uuid \cup {NoUuid},
           group : BOOLEAN, info : Image \cup {NoImage}]

TypeOK ==
    /\ regions \subseteq Region /\ made \in 0 .. MaxRegions
    /\ {blp, ulp} \subseteq Image \cup {NoImage}
    /\ {devctl, flash} \subseteq BOOLEAN
    /\ events \subseteq {"devctl", "qspi", "gate"}
    /\ reachable \subseteq Image /\ shells \in Nat
    /\ lock \in Loader \cup {"none"}
    /\ pc \in [Worker -> {"idle", "load", "find", "clean", "program", "group",
                          "wait", "rooms", "failed", "return", "remove", "gone"}]
    /\ img \in [Worker -> Image \cup {NoImage}]
    /\ base \in [Worker -> 0 .. MaxRegions]
    /\ doomed \in [Worker -> SUBSET (1 .. MaxRegions)]
    /\ rooms \in [Worker -> Seq(Uuid)]
    /\ rc \in [Worker -> {"ok", "err"}]
    /\ done \in [Loader -> 0 .. MaxDownloads]

\* xmgmt_main_probe.  The leaves of the ROM and of the flash come up later,
\* and each tells of it.
Init ==
    /\ regions = {} /\ made = 0
    /\ blp = NoImage /\ ulp = NoImage
    /\ devctl = FALSE /\ flash = FALSE
    /\ events = {"devctl", "qspi"}
    /\ reachable = {} /\ shells = 0 /\ lock = "none"
    /\ pc = [t \in Worker |-> "idle"]
    /\ img = [t \in Worker |-> NoImage]
    /\ base = [t \in Worker |-> NoRegion]
    /\ doomed = [t \in Worker |-> {}]
    /\ rooms = [t \in Worker |-> <<>>]
    /\ rc = [t \in Worker |-> "ok"]
    /\ done = [t \in Loader |-> 0]

tree == <<regions, made>>
cache == <<blp, ulp>>
board == <<devctl, flash, events, reachable, shells>>
call == <<img, base, doomed, rooms, rc>>
rest == <<cache, board, lock, done>>

Goto(t, from, to) == pc[t] = from /\ pc' = [pc EXCEPT ![t] = to]
Fail(t) == rc' = [rc EXCEPT ![t] = "err"]

-----------------------------------------------------------------------------
(* Regions                                                                  *)

The(id) == CHOOSE r \in regions : r.id = id

\* fpga_region_class_find finds the region that was registered first.
Oldest(found) == {r \in found : \A s \in found : r.id <= s.id}

\* xmgmt_region_match: a region that has any of the image's uuids.
Matching(i) == {r \in regions : r.uuid \in ToSet(Uuids[i])}

\* xmgmt_region_match_base
Bases == {r \in regions : r.dep = NoUuid}

\* Mutant of Dependents: it looks for the region's base instead.
DependentsUp(id) == {r.id : r \in {k \in regions : k.uuid = The(id).dep}}

\* What a clean-up collects: the regions that depend on this one's uuid.  The
\* walk over the list ends there, because list_for_each_entry_safe had read
\* the list's end before anything was appended.
Dependents(id) == {r.id : r \in {k \in regions : k.dep = The(id).uuid}}

\* xmgmt_destroy_region: its group, bridge and image info go with it.
Destroy(id) == regions' = {r \in regions : r.id # id}

Change(id, r) == regions' = {IF k.id = id THEN r ELSE k : k \in regions}

\* The end of a clean-up: the region has neither group nor image.
Strip(id) == Change(id, [The(id) EXCEPT !.group = FALSE, !.info = NoImage])

\* xmgmt_region_cleanup of base[t]: what it collected goes, the last first,
\* and then it goes on to the next step.
CollectDependents(t, id) == doomed' = [doomed EXCEPT ![t] = Dependents(id)]

DestroyDependent(t) ==
    /\ pc[t] \in {"clean", "failed", "remove"}
    /\ \E id \in doomed[t] :
           /\ \A other \in doomed[t] : other <= id
           /\ Destroy(id)
           /\ doomed' = [doomed EXCEPT ![t] = @ \ {id}]
    /\ UNCHANGED <<made, pc, img, base, rooms, rc, rest>>

CleanRegion(t) ==
    /\ Goto(t, "clean", "program") \/ Goto(t, "failed", "return")
    /\ doomed[t] = {}
    /\ Strip(base[t])
    /\ UNCHANGED <<made, call, rest>>

-----------------------------------------------------------------------------
(* xmgmt_process_xclbin                                                     *)

\* It has no metadata or no uuids, or there is no region for it.
NotProcessed(t) ==
    /\ Goto(t, "find", "return")
    /\ Fail(t)
    /\ UNCHANGED <<tree, img, base, doomed, rooms, rest>>

\* The shell is not put into a region: it has room for the first ones.
ProcessShell(t) ==
    /\ t = "event"
    /\ Goto(t, "find", "rooms")
    /\ rooms' = [rooms EXCEPT ![t] = Uuids[img[t]]]
    /\ UNCHANGED <<tree, img, base, doomed, rc, rest>>

\* Mutant of FindRegion: what depends on the region is left alone.
FindRegionOnly(t) ==
    /\ t # "event" /\ Goto(t, "find", "clean")
    /\ \E found \in Oldest(Matching(img[t])) : base' = [base EXCEPT ![t] = found.id]
    /\ rooms' = [rooms EXCEPT ![t] = Uuids[img[t]]]
    /\ UNCHANGED <<tree, img, doomed, rc, rest>>

FindRegion(t) ==
    /\ t # "event" /\ Goto(t, "find", "clean")
    /\ \E found \in Oldest(Matching(img[t])) :
           /\ base' = [base EXCEPT ![t] = found.id]
           /\ CollectDependents(t, found.id)
    /\ rooms' = [rooms EXCEPT ![t] = Uuids[img[t]]]
    /\ UNCHANGED <<tree, img, rc, rest>>

\* xmgmt_br_enable_set: a gate that opens posts its event; one that closed did
\* too, and GateEvents waits for that event's handlers.
OpenGate == events' = events \cup {"gate"}

\* xmgmt_region_program: the bridge closes the gate, and GateEvents says that
\* it waits for evt_work; the manager has ICAP write the bitstream; the gate
\* opens, and its event follows.
Program(t) ==
    /\ Goto(t, "program", "group")
    /\ pc["event"] = "idle"
    /\ Change(base[t], [The(base[t]) EXCEPT !.info = img[t]])
    /\ OpenGate
    /\ UNCHANGED <<made, cache, devctl, flash, reachable, shells, lock, call, done>>

\* "failed": what was there goes.
Collapse(t) == Fail(t) /\ CollectDependents(t, base[t])

\* xmgmt_pr_write, xmgmt_download_bitstream: no bitstream, a malformed one or
\* one that ICAP does not take.
ProgramFails(t) ==
    /\ Goto(t, "program", "failed")
    /\ pc["event"] = "idle"
    /\ Change(base[t], [The(base[t]) EXCEPT !.info = img[t]])
    /\ Collapse(t)
    /\ UNCHANGED <<made, img, base, rooms, rest>>

CreateGroup(t) ==
    /\ Goto(t, "group", "wait")
    /\ Change(base[t], [The(base[t]) EXCEPT !.group = TRUE])
    /\ UNCHANGED <<made, call, rest>>

GroupUp(t) == Goto(t, "wait", "rooms") /\ UNCHANGED <<tree, call, rest>>

\* The group is not created, or does not come up.
GroupFails(t) ==
    /\ Goto(t, "group", "failed") \/ Goto(t, "wait", "failed")
    /\ Collapse(t)
    /\ UNCHANGED <<tree, img, base, rooms, rest>>

\* "region for this interface already exists": the one the image is in.
IsItsOwn(t) == t # "event" /\ Head(rooms[t]) = The(base[t]).uuid

SkipOwn(t) ==
    /\ pc[t] = "rooms" /\ rooms[t] # <<>> /\ IsItsOwn(t)
    /\ rooms' = [rooms EXCEPT ![t] = Tail(@)]
    /\ UNCHANGED <<tree, pc, img, base, doomed, rc, rest>>

CreateRegion(t) ==
    /\ pc[t] = "rooms" /\ rooms[t] # <<>> /\ ~ IsItsOwn(t)
    /\ made < MaxRegions /\ made' = made + 1
    /\ regions' = regions \cup
           {[id |-> made + 1, uuid |-> Head(rooms[t]), group |-> FALSE, info |-> NoImage,
             dep |-> IF t = "event" THEN NoUuid ELSE The(base[t]).uuid]}
    /\ rooms' = [rooms EXCEPT ![t] = Tail(@)]
    /\ UNCHANGED <<pc, img, base, doomed, rc, rest>>

\* No memory, no bridge (the image has no gate), or not registered.  What was
\* made of a package goes, what was made of the shell stays.
CreateRegionFails(t) ==
    /\ rooms[t] # <<>> /\ ~ IsItsOwn(t)
    /\ IF t = "event" THEN Goto(t, "rooms", "return") /\ Fail(t) /\ UNCHANGED doomed
                      ELSE Goto(t, "rooms", "failed") /\ Collapse(t)
    /\ UNCHANGED <<tree, img, base, rooms, rest>>

Processed(t) ==
    /\ rooms[t] = <<>>
    /\ Goto(t, "rooms", "return")
    /\ UNCHANGED <<tree, call, rest>>

-----------------------------------------------------------------------------
(* Downloads: xmgmt_main_ioctl and bitstream_axlf_mailbox                   *)

Download(t) ==
    /\ lock = "none" /\ lock' = t
    /\ done[t] < MaxDownloads /\ done' = [done EXCEPT ![t] = @ + 1]
    /\ Goto(t, "idle", "find")
    /\ \E i \in Packages : img' = [img EXCEPT ![t] = i]
    /\ ulp' = NoImage
    /\ UNCHANGED <<tree, blp, board, base, doomed, rooms, rc>>

\* The image is kept when it was processed, else its buffer is freed.
DownloadDone(t) ==
    /\ Goto(t, "return", "idle")
    /\ ulp' = IF rc[t] = "ok" THEN img[t] ELSE NoImage
    /\ lock' = "none"
    /\ img' = [img EXCEPT ![t] = NoImage]
    /\ base' = [base EXCEPT ![t] = NoRegion]
    /\ rooms' = [rooms EXCEPT ![t] = <<>>]
    /\ rc' = [rc EXCEPT ![t] = "ok"]
    /\ UNCHANGED <<tree, blp, board, doomed, done>>

-----------------------------------------------------------------------------
(* Events: xmgmt_main_event_cb, in evt_work                                 *)

idle == <<tree, ulp, lock, base, doomed, done>>

\* The ROM's leaf, then whatever disk or flash have.
DevctlUp ==
    /\ "devctl" \in events /\ events' = events \ {"devctl"}
    /\ devctl' = TRUE
    /\ Goto("event", "idle", "load")
    /\ UNCHANGED <<tree, cache, flash, reachable, shells, lock, call, done>>

FlashUp ==
    /\ "qspi" \in events /\ events' = events \ {"qspi"}
    /\ flash' = TRUE
    /\ IF devctl THEN Goto("event", "idle", "load") ELSE Goto("event", "idle", "idle")
    /\ UNCHANGED <<tree, cache, devctl, reachable, shells, lock, call, done>>

\* load_firmware_from_flash and load_firmware_from_disk: the image there is, or
\* none.
Firmware == Shells \cup {NoImage}

\* is_valid_firmware: its uuid is that of the ROM, its name that of the board.
IsValid(i) == i \in Valid

\* Mutant of LoadFirmware: it takes the main leaf's lock.
LoadFirmwareLocked ==
    \E i \in Firmware :
        /\ lock = "none"
        /\ blp' = IF i = NoImage THEN blp ELSE i
        /\ IF IsValid(i)
           THEN Goto("event", "load", "find") /\ img' = [img EXCEPT !["event"] = i]
           ELSE Goto("event", "load", "idle") /\ UNCHANGED img
        /\ UNCHANGED <<board, rooms, rc, idle>>

\* xmgmt_load_firmware.  What cannot be used stays in firmware_blp.
LoadFirmware ==
    \E i \in Firmware :
        /\ blp' = IF i = NoImage THEN blp ELSE i
        /\ IF IsValid(i)
           THEN Goto("event", "load", "find") /\ img' = [img EXCEPT !["event"] = i]
           ELSE Goto("event", "load", "idle") /\ UNCHANGED img
        /\ UNCHANGED <<board, rooms, rc, idle>>

\* The end of xmgmt_create_blp
ShellCreated ==
    /\ Goto("event", "return", "idle")
    /\ shells' = IF rc["event"] = "ok" THEN shells + 1 ELSE shells
    /\ img' = [img EXCEPT !["event"] = NoImage]
    /\ rooms' = [rooms EXCEPT !["event"] = <<>>]
    /\ rc' = [rc EXCEPT !["event"] = "ok"]
    /\ UNCHANGED <<blp, devctl, flash, events, reachable, idle>>

\* xrt_pfw_unblock, of the bars of an image's endpoints; those that are open
\* already stay so.
Unblock(images) == reachable' = reachable \cup images

\* xmgmt_unblock_all, up to the first firmware there is none of: the second.
\* It does not take the lock.
GateOpened ==
    /\ "gate" \in events /\ events' = events \ {"gate"}
    /\ Goto("event", "idle", "idle")
    /\ Unblock({blp} \ {NoImage})
    /\ UNCHANGED <<tree, cache, devctl, flash, shells, lock, call, done>>

-----------------------------------------------------------------------------
(* xmgmt_main_remove.  Its caller waited until the device node has no user  *)
(* and nobody holds the leaf; the mailbox's leaf went before.               *)

\* xmgmt_region_cleanup_all: base regions, the oldest first, until none is left.
CleanNext(bases) ==
    IF bases = {} THEN UNCHANGED doomed
                  ELSE \E b \in Oldest(bases) : CollectDependents("event", b.id)

RemoveLeaf ==
    /\ \A t \in Loader : pc[t] = "idle"
    /\ Goto("event", "idle", "remove")
    /\ blp' = NoImage /\ ulp' = NoImage
    /\ events' = {}
    /\ CleanNext(Bases)
    /\ UNCHANGED <<tree, devctl, flash, reachable, shells, lock, img, base, rooms, rc, done>>

RemoveBase ==
    /\ pc["event"] = "remove" /\ doomed["event"] = {}
    /\ \E b \in Oldest(Bases) :
           /\ Destroy(b.id)
           /\ CleanNext(Bases \ {b})
    /\ UNCHANGED <<made, pc, img, base, rooms, rc, rest>>

Removed ==
    /\ Bases = {}
    /\ Goto("event", "remove", "gone")
    /\ UNCHANGED <<tree, call, rest>>

Process(t) ==
    \/ NotProcessed(t) \/ ProcessShell(t) \/ FindRegion(t)
    \/ DestroyDependent(t) \/ CleanRegion(t)
    \/ Program(t) \/ ProgramFails(t)
    \/ CreateGroup(t) \/ GroupUp(t) \/ GroupFails(t)
    \/ SkipOwn(t) \/ CreateRegion(t) \/ CreateRegionFails(t) \/ Processed(t)

Handle ==
    \/ DevctlUp \/ FlashUp \/ GateOpened
    \/ LoadFirmware \/ ShellCreated \/ RemoveBase \/ Removed

Alive == pc["event"] \notin {"remove", "gone"}

Next ==
    \/ \E t \in Worker : Process(t)
    \/ \E t \in Loader : (Alive /\ Download(t)) \/ DownloadDone(t)
    \/ Handle
    \/ RemoveLeaf

Spec == Init /\ [][Next]_vars

\* Whoever is in a call goes on, evt_work is run and the lock is handed over.
\* Nothing makes a process download, or the driver unbind.
FairSpec ==
    /\ Spec
    /\ \A t \in Worker : WF_vars(Process(t))
    /\ \A t \in Loader : WF_vars(DownloadDone(t))
    /\ WF_vars(Handle)
=============================================================================
