-------------------------- MODULE RootGroupsProps --------------------------
(***************************************************************************)
(* What is asked of the groups of a root driver.                           *)
(***************************************************************************)
EXTENDS RootGroups

\* A listed group whose bringup bringup_pending_cnt still has to count.
Outstanding(g) ==
    g \in pool /\ (~created[g] \/ (g = cur /\ wpc \in {"put", "post", "posting", "dec"}))

\* bringup_pending_cnt is the number of groups being created or brought up,
\* however creations by leaves nest in the bringup of other groups.
PendingExact ==
    pending = Cardinality({g \in Group : Outstanding(g)})
              + Cardinality({t \in Thread : pc[t] \in {"add", "undo"}})

\* When xroot_wait_for_bringup returns, every group there is has its leaves,
\* and POST_CREATION was posted for them: a group that leaves asked for in
\* the meantime is up too, because it was counted before its creator was done.
WaitMeansUp ==
    [][\A t \in {"probe", "ioctl"} :
          pc[t] = "wait" /\ pc'[t] # "wait" => \A g \in Group : ~Outstanding(g)]_vars

\* Whoever waits for the bringup of groups is woken.
WaitEnds == \A t \in {"probe", "ioctl"} : pc[t] = "wait" ~> pc[t] # "wait"

\* The groups whose memory somebody is using without looking them up again: the
\* bringup work, a leaf's code it waits for, the process that is inside
\* xmgmt-main's driver, and whoever destroys groups, on the way or at one.
WorkUses(g) ==
    /\ g = cur
    /\ wpc \in {"init", "skip", "leaves", "put", "posting"} \/ pc["leaf"] # "idle"
ProcessUses(g) == g = MainGroup /\ pc["ioctl"] # "idle"
RemoverUses(t, g) ==
    \/ g = tgt[t] /\ pc[t] \in {"walk", "release"}
    \/ g = tgt[t] /\ g # dep[t]
       /\ pc[t] \in {"single", "fini_lock", "fini", "put", "del", "drain"}
    \/ g = dep[t] /\ pc[t] \in {"fini_lock", "fini", "put", "drain"}

\* A group that somebody is using is listed, hence not freed, whoever destroys
\* it meanwhile, and a remover that slept for its holders (subdev.c:474) wakes
\* to a group it can unlink.  Only a download that overlaps the unbinding can
\* break that: both find the group, and the second one unlinks freed memory.
UsedIsListed ==
    \A g \in Group :
        /\ WorkUses(g) \/ ProcessUses(g) => g \in pool
        /\ \A t \in {"ioctl", "remove"} :
              RemoverUses(t, g) => g \in pool \/ (met /\ g = dep[t] /\ pc[t] = "drain")

\* Groups are torn down in the reverse order of their creation: no newer group
\* still has leaves, which may depend on those that go.  Only a download that
\* the unbinding overtakes can break that: the group it creates is newer.
NewerDown(g) == \A h \in Group : h > g => leaves[h] # "up"
TornDown(g) == leaves[g] = "up" /\ leaves'[g] = "gone"
DependentsFirst ==
    [][\A g \in Group :
          TornDown(g) => NewerDown(g) \/ met]_vars

\* Unbinding the driver comes to an end when no download is in its way ...
RemoveEnds == pc["remove"] = "first" /\ []~met ~> pc["remove"] = "done"

\* ... and whenever it does, no leaf, no group, no reference, no work and no user
\* of the device node is left.  A download that it overlaps may keep it from its
\* end: one of the two then sleeps for good or uses freed memory (UsedIsListed).
RemoveLeavesNothing ==
    pc["remove"] = "done" =>
        /\ pool = {} /\ \A g \in Group : leaves[g] # "up" /\ hold[g] = 0
        /\ wpc = "idle" /\ ~queued /\ pc["ioctl"] = "idle"

\* A download is given up because of leaves of its own group that did not
\* come up, not because of some other group's, brought up before it.
DownloadJudgedAlone ==
    [][pc["ioctl"] = "judge" /\ pc'["ioctl"] = "get" => mine \in spoilt]_vars
=============================================================================
