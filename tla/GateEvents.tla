----------------------------- MODULE GateEvents -----------------------------
(***************************************************************************)
(* An AXI gate, lib/xleaf/axigate.c, the events it posts on the root       *)
(* driver's queue, and the CMC leaf, lib/xleaf/cmc-ctrl.c, which has       *)
(* access to what is behind the gate from one event to the other.          *)
(*                                                                         *)
(* Threads.  "bridge" is a download, which closes the gate and opens it    *)
(* (xmgmt_br_enable_set); evt_work, while it handles the POST_CREATION of  *)
(* another gate, has this gate opened; and the bringup work posts that,    *)
(* holding the group of the other gate meanwhile.                          *)
(* Accesses to memory mapped registers do not fail.                        *)
(***************************************************************************)
EXTENDS EventQueue, FiniteSets

CONSTANTS
    Cycles,     \* bound: how often the gate is closed and opened
    Gates       \* bound: how many gates on top of this one are created

ASSUME GateAssumption ==
    /\ Cycles \in Nat /\ Gates \in Nat /\ IsFiniteSet(Event)
    /\ 2 * (Cycles + Gates) <= Cardinality(Event)

VARIABLES
    kind,       \* the xrt_events value of each event
    mutex,      \* the owner of gate_lock: "none", "bridge" or "work"
    closed,     \* gate_closed
    flow,       \* whether the hardware's gate lets accesses through
    granted,    \* whether CMC has access behind the gate
    pc,         \* where the bridge's and the work's calls of the gate are
    own,        \* the event of such a call
    cycles, gates   \* what there was of each

gate == <<mutex, closed, flow, granted>>
counted == <<cycles, gates>>
vars == <<queue, kind, gate, pc, own, counted>>

Caller == {"bridge", "work"}

TypeOK ==
    /\ QueueTypeOK
    /\ kind \in [Event -> {"none", "created", "close", "open"}]
    /\ mutex \in Caller \cup {"none"}
    /\ closed \in BOOLEAN /\ flow \in BOOLEAN /\ granted \in BOOLEAN
    /\ pc \in [Caller -> {"out", "shut", "shut_posted", "shut_wait", "shut_write",
                          "between", "open", "open_post", "open_posted", "open_end"}]
    /\ own \in [Caller -> Event \cup {NoEvent}]
    /\ cycles \in 0 .. Cycles /\ gates \in 0 .. Gates

\* The driver may find the gate open; CMC starts without access
\* (cmc_ctrl_probe).
Init ==
    /\ QueueInit
    /\ kind = [e \in Event |-> "none"]
    /\ mutex = "none"
    /\ closed = TRUE
    /\ flow \in BOOLEAN
    /\ granted = FALSE
    /\ pc = [t \in Caller |-> "out"]
    /\ own = [t \in Caller |-> NoEvent]
    /\ cycles = 0 /\ gates = 0

Go(t, from, to) == pc[t] = from /\ pc' = [pc EXCEPT ![t] = to]

\* xleaf_broadcast_event, its list_add: t posts an event of kind k.
Broadcast(t, k) ==
    \E e \in Event :
        /\ Post(e, k = "open")
        /\ kind' = [kind EXCEPT ![e] = k]
        /\ own' = [own EXCEPT ![t] = e]

-----------------------------------------------------------------------------
(* xrt_axigate_close, which only the bridge calls.                          *)

\* Before it, xmgmt_process_xclbin has destroyed the groups on top of the gate
\* (xmgmt_region_cleanup), which waits for those who hold them: nobody is
\* posting the creation of a gate of theirs any more.
TopDestroyed == \A e \in Event : kind[e] = "created" => post[e] = "returned"

CloseLock ==
    /\ cycles < Cycles
    /\ TopDestroyed
    /\ Go("bridge", "out", IF closed THEN "shut_write" ELSE "shut")
    /\ mutex = "none" /\ mutex' = "bridge"
    /\ cycles' = cycles + 1
    /\ UNCHANGED <<queue, kind, closed, flow, granted, own, gates>>

ClosePost ==
    /\ Go("bridge", "shut", "shut_posted")
    /\ Broadcast("bridge", "close")
    /\ UNCHANGED <<gate, counted>>

CloseSchedule ==
    /\ Go("bridge", "shut_posted", "shut_wait")
    /\ Schedule(own["bridge"])
    /\ UNCHANGED <<kind, gate, own, counted>>

CloseReturn ==
    /\ Go("bridge", "shut_wait", "shut_write")
    /\ Return(own["bridge"])
    /\ UNCHANGED <<kind, gate, own, counted>>

CloseWrite ==
    /\ Go("bridge", "shut_write", "between")
    /\ flow' = FALSE
    /\ closed' = TRUE
    /\ mutex' = "none"
    /\ UNCHANGED <<queue, kind, granted, own, counted>>

Close == CloseLock \/ ClosePost \/ CloseSchedule \/ CloseReturn \/ CloseWrite

-----------------------------------------------------------------------------
(* xrt_axigate_open                                                         *)

OpenWrite(t) ==
    /\ Go(t, IF t = "bridge" THEN "between" ELSE "open",
             IF closed THEN "open_post" ELSE "open_end")
    /\ mutex = "none" /\ mutex' = t
    /\ flow' = TRUE
    /\ UNCHANGED <<queue, kind, closed, granted, own, counted>>

OpenPost(t) ==
    /\ Go(t, "open_post", "open_posted")
    /\ Broadcast(t, "open")
    /\ UNCHANGED <<gate, counted>>

OpenSchedule(t) ==
    /\ Go(t, "open_posted", "open_end")
    /\ Schedule(own[t])
    /\ UNCHANGED <<kind, gate, own, counted>>

OpenEnd(t) ==
    /\ Go(t, "open_end", "out")
    /\ closed' = FALSE
    /\ mutex' = "none"
    /\ UNCHANGED <<queue, kind, flow, granted, own, counted>>

Open(t) == OpenWrite(t) \/ OpenPost(t) \/ OpenSchedule(t) \/ OpenEnd(t)

-----------------------------------------------------------------------------
(* The bringup work posts the POST_CREATION of another gate, and waits.     *)

\* The group of that gate is created when no download is about to open this
\* one: with the shell, or by a download that has opened it.
GatePost(e) ==
    /\ gates < Gates
    /\ pc["bridge"] = "out"
    /\ gates' = gates + 1
    /\ Post(e, FALSE)
    /\ kind' = [kind EXCEPT ![e] = "created"]
    /\ UNCHANGED <<gate, pc, own, cycles>>

GatePoster(e) ==
    /\ kind[e] = "created"
    /\ Schedule(e) \/ Return(e)
    /\ UNCHANGED <<kind, gate, pc, own, counted>>

-----------------------------------------------------------------------------
(* evt_work                                                                 *)

WorkQueue ==
    /\ WorkStart \/ WorkTake \/ WorkEnd
    /\ UNCHANGED <<kind, gate, pc, own, counted>>

\* xrt_axigate_event_cb: "make sure the gate is opened" ...
HandleCreated ==
    /\ wpc = "handle" /\ kind[cur] = "created"
    /\ Go("work", "out", "open")
    /\ UNCHANGED <<queue, kind, gate, own, counted>>

HandledCreated ==
    /\ WorkFinish
    /\ kind[cur] = "created"
    /\ Go("work", "open_end", "out")
    /\ closed' = FALSE
    /\ mutex' = "none"
    /\ UNCHANGED <<kind, flow, granted, own, counted>>

\* Mutant of HandleGate: CMC takes one event for the other.
HandleGateSwapped ==
    /\ WorkFinish
    /\ kind[cur] \in {"close", "open"}
    /\ granted' = (kind[cur] = "close")
    /\ UNCHANGED <<kind, mutex, closed, flow, pc, own, counted>>

\* ... and cmc_ctrl_event_cb: cmc_ulp_access.
HandleGate ==
    /\ WorkFinish
    /\ kind[cur] \in {"close", "open"}
    /\ granted' = (kind[cur] = "open")
    /\ UNCHANGED <<kind, mutex, closed, flow, pc, own, counted>>

Work ==
    \/ WorkQueue \/ HandleCreated \/ HandledCreated \/ HandleGate
    \/ OpenWrite("work") \/ OpenPost("work") \/ OpenSchedule("work")

-----------------------------------------------------------------------------
Next ==
    \/ Close \/ Open("bridge")
    \/ \E e \in Event : GatePost(e) \/ GatePoster(e)
    \/ Work

Spec == Init /\ [][Next]_vars

\* The work queue runs, and so does a download and a thread that has begun
\* to post.
FairSpec ==
    /\ Spec
    /\ WF_vars(Work)
    /\ WF_vars(ClosePost \/ CloseSchedule \/ CloseReturn \/ CloseWrite)
    /\ WF_vars(Open("bridge"))
    /\ \A e \in Event : WF_vars(GatePoster(e))

-----------------------------------------------------------------------------
\* gate_closed says what the gate is, whenever nobody holds gate_lock and the
\* driver has operated the gate.
FlagTrue == mutex = "none" /\ (cycles > 0 \/ ~closed) => flow = ~closed

\* A gate that stays open in the end gives CMC its access in the end,
\* whatever the order its events were handled in.
OpenMeansGranted ==
    <>[](flow /\ ~closed /\ mutex = "none") => <>[]granted

\* A close of the gate comes to an end, although it waits for evt_work and has
\* the lock that evt_work needs to open the gate (axigate.c:144, 227): whoever
\* closes the gate has waited for the events of the groups on top of it.
CloseEnds == pc["bridge"] = "shut" ~> pc["bridge"] = "between"
=============================================================================
