----------------------------- MODULE RootEvents -----------------------------
(***************************************************************************)
(* Delivery of the root driver's events: xrt_subdev_pool_handle_event has  *)
(* evt_work call one child of a pool after the other, newest first, each   *)
(* held only while it is called, and children come and go in between.  One *)
(* pool stands for the two that are nested: groups, and leaves in a group. *)
(* A child is the number of its joining, so the list is a set of numbers.  *)
(***************************************************************************)
EXTENDS EventQueue, FiniteSetsExt

CONSTANTS
    MaxSubdevs, \* bound: how many children ever join
    Leaving,    \* the children that can be removed
    NoSubdev    \* a delivery that has not called any child

Subdev == 0 .. MaxSubdevs - 1

ASSUME SubdevAssumption ==
    MaxSubdevs \in Nat /\ NoSubdev \notin Subdev /\ Leaving \subseteq Subdev

VARIABLES
    born,       \* how many children have joined
    devList,    \* the children on xsp_dev_list
    tgt,        \* tgt of the loop
    holding,    \* whether the loop holds it: it is being called
    about,      \* the child whose PRE_REMOVAL an event is, or NoSubdev
    got,        \* history: the children each event was delivered to
    due         \* history: those listed ever since an event was posted

pool == <<born, devList>>
vars == <<queue, pool, tgt, holding, about, got, due>>

TypeOK ==
    /\ QueueTypeOK
    /\ born \in 0 .. MaxSubdevs /\ devList \subseteq Subdev
    /\ tgt \in Subdev \cup {NoSubdev} /\ holding \in BOOLEAN
    /\ about \in [Event -> Leaving \cup {NoSubdev}]
    /\ got \in [Event -> SUBSET Subdev]
    /\ due \in [Event -> SUBSET Subdev]

Init ==
    /\ QueueInit
    /\ born = 0 /\ devList = {}
    /\ tgt = NoSubdev /\ holding = FALSE
    /\ about = [e \in Event |-> NoSubdev]
    /\ got = [e \in Event |-> {}]
    /\ due = [e \in Event |-> {}]

-----------------------------------------------------------------------------
(* Children join and leave the pool: after a PRE_REMOVAL of theirs has been *)
(* handled, xroot_destroy_single_group, and not while they are held.        *)

Join ==
    /\ born < MaxSubdevs
    /\ born' = born + 1
    /\ devList' = devList \cup {born}
    /\ UNCHANGED <<queue, tgt, holding, about, got, due>>

Remove(d) ==
    /\ d \in devList \cap Leaving
    /\ \E e \in Event : about[e] = d /\ e \notin async /\ post[e] = "returned"
    /\ ~(holding /\ tgt = d)
    /\ devList' = devList \ {d}
    /\ due' = [e \in Event |-> due[e] \ {d}]
    /\ UNCHANGED <<queue, born, tgt, holding, about, got>>

-----------------------------------------------------------------------------
(* Threads post events.                                                     *)

PostEvent(e) ==
    /\ \E a \in BOOLEAN, d \in Leaving \cup {NoSubdev} :
          /\ d # NoSubdev => ~a /\ d \in devList
          /\ Post(e, a)
          /\ about' = [about EXCEPT ![e] = d]
    /\ due' = [due EXCEPT ![e] = devList]
    /\ UNCHANGED <<pool, tgt, holding, got>>

Poster(e) ==
    /\ Schedule(e) \/ Return(e)
    /\ UNCHANGED <<pool, tgt, holding, about, got, due>>

-----------------------------------------------------------------------------
(* evt_work                                                                 *)

WorkBetween ==
    /\ WorkStart \/ WorkEnd
    /\ UNCHANGED <<pool, tgt, holding, about, got, due>>

TakeEvent ==
    /\ WorkTake
    /\ tgt' = NoSubdev
    /\ UNCHANGED <<pool, holding, about, got, due>>

\* xrt_subdev_pool_get_impl with XRT_SUBDEV_MATCH_NEXT: the head of the list,
\* or what follows tgt on it, which is nothing when tgt is not on it.
Following ==
    IF tgt = NoSubdev THEN devList
    ELSE IF tgt \in devList THEN {d \in devList : d < tgt} ELSE {}

\* Mutant of GetSubdev: the walk starts at the wrong end of the list.
GetSubdevOldest ==
    /\ wpc = "handle" /\ ~holding
    /\ Following # {}
    /\ tgt' = Min(Following)
    /\ holding' = TRUE
    /\ UNCHANGED <<queue, pool, about, got, due>>

GetSubdev ==
    /\ wpc = "handle" /\ ~holding
    /\ Following # {}
    /\ tgt' = Max(Following)
    /\ holding' = TRUE
    /\ UNCHANGED <<queue, pool, about, got, due>>

\* xleaf_call, and xrt_subdev_pool_put_impl
CallSubdev ==
    /\ holding
    /\ holding' = FALSE
    /\ got' = [got EXCEPT ![cur] = @ \cup {tgt}]
    /\ UNCHANGED <<queue, pool, tgt, about, due>>

FinishEvent ==
    /\ ~holding
    /\ WorkFinish
    /\ Following = {}
    /\ UNCHANGED <<pool, tgt, holding, about, got, due>>

Work == WorkBetween \/ TakeEvent \/ GetSubdev \/ CallSubdev \/ FinishEvent

-----------------------------------------------------------------------------
Next ==
    \/ Join
    \/ \E d \in Subdev : Remove(d)
    \/ \E e \in Event : PostEvent(e) \/ Poster(e)
    \/ Work

Spec == Init /\ [][Next]_vars

\* The work queue runs, and so does a thread that has begun to post.
FairSpec ==
    /\ Spec
    /\ WF_vars(Work)
    /\ \A e \in Event : WF_vars(Poster(e))

-----------------------------------------------------------------------------
\* The work never holds an event that was freed, and an event is on the list
\* exactly while nobody has taken it: xroot_trigger_event frees a synchronous
\* event only after the work is done with it, evt_work an asynchronous one.
EventsOwned ==
    /\ wpc = "handle" => life[cur] = "taken"
    /\ \A e \in Event :
          life[e] = "listed" <=> \E i \in DOMAIN evtList : evtList[i] = e

\* A child is called at most once for an event, whatever joins or leaves
\* between the calls.
CalledOnce == [][CallSubdev => tgt \notin got[cur]]_vars

\* The walk goes on from a child it no longer holds.  It ends at the last child
\* it called, and before d, if that child has left the list meanwhile.
CutShort(e, d) ==
    \E c \in got[e] \ devList : c > d /\ \A b \in got[e] : b >= c

\* When an event has been handled, every child that was listed before it was
\* posted, and still is, has been called, whoever joins and leaves meanwhile,
\* unless the child the walk had come to left (subdev.c:761): then only those
\* newer than that child are sure to have been called.
EveryoneTold ==
    \A e \in Event : life[e] \in {"done", "freed"} =>
        \A d \in due[e] \ got[e] : CutShort(e, d)

\* Every event that is posted is handled, and its poster returns.
EventsHandled ==
    \A e \in Event : post[e] = "listed" ~>
        post[e] = "returned" /\ life[e] = "freed"
=============================================================================
