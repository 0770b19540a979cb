--------------------------- MODULE MgmtMainProps ----------------------------
(***************************************************************************)
(* What downloads and the shell's firmware must guarantee.                 *)
(***************************************************************************)
EXTENDS MgmtMain

\* The uuids of the shell's own regions, and those an image lists.
Top == UNION {ToSet(Uuids[s]) : s \in Valid}
Lists(i) == ToSet(Uuids[i])

\* The trees a clean-up takes down whole (see Dependents): an image goes into
\* one region of the shell and has room for others below it, or goes into one
\* of those and has no room; and what is below one region of the shell is not
\* below another.
TwoLevels ==
    \A i \in Packages :
        /\ Lists(i) \cap Top = {} => \A u, v \in Lists(i) : u = v
        /\ \A a \in Lists(i) \cap Top :
               /\ Lists(i) \cap Top = {a}
               /\ \A j \in Packages :
                      (Lists(i) \cap Lists(j)) \ Top # {} => Lists(j) \cap Top \subseteq {a}

\* xmgmt-main-region.c:247.  A region that depends on another does not outlive
\* it: no group stays behind a gate whose region is gone.
NoOrphan ==
    \A r \in regions : r.dep # NoUuid => \E b \in regions : b.uuid = r.dep

\* xmgmt-main.c:708-714.  The image that is cached as the one that runs is the
\* one some region was programmed with, and that region's group is up.
CachedRuns ==
    ulp # NoImage => \E r \in regions : r.info = ulp /\ r.group

\* xmgmt-main-region.c:475-478.  A download that found its region and failed
\* leaves nothing in the region and nothing that depends on it.
FailedLeavesNothing ==
    \A t \in Loader :
        pc[t] = "return" /\ rc[t] = "err" /\ base[t] # NoRegion =>
            /\ ~ The(base[t]).group /\ The(base[t]).info = NoImage
            /\ Dependents(base[t]) = {}

\* xmgmt-main-region.c:408-410.  When the gate of a region is closed and its
\* logic replaced, no leaf is bound to what was behind the gate.
NothingBehindGate ==
    [][\A t \in Loader : pc[t] = "program" /\ pc'[t] # "program" =>
           ~ The(base[t]).group /\ Dependents(base[t]) = {}]_vars

\* xmgmt-main-region.c:318-326.  A removed leaf leaves no region, whatever the
\* tree it had grown.
RemovedLeavesNothing == pc["event"] = "gone" => regions = {}

\* xmgmt-main-region.c.  Together: no region stays whose base is gone, the image
\* that is cached runs, and neither a download that fails nor a removal leaves
\* half of a tree.  An interface may have two regions, of a shell made twice.
RegionsConsistent ==
    /\ NoOrphan
    /\ CachedRuns
    /\ FailedLeavesNothing
    /\ RemovedLeavesNothing

\* xmgmt-main.c:735, 794.  A download ends, though its gate waits for evt_work.
DownloadsEnd == \A t \in Loader : pc[t] # "idle" ~> pc[t] = "idle"

\* xmgmt-main.c:503.  "WARN_ON(xmm->blp_interface_uuids)": the shell's group is
\* created once.
ShellOnce == shells <= 1
=============================================================================
