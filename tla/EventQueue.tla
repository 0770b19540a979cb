----------------------------- MODULE EventQueue -----------------------------
(***************************************************************************)
(* The root driver's queue of events in lib/xroot.c: threads post events,  *)
(* one work item takes them from the list and has them handled, and the    *)
(* poster of a synchronous event sleeps until that is done.  What handling *)
(* an event is, the modules that extend this one say.                      *)
(***************************************************************************)
EXTENDS Integers, Sequences

CONSTANTS
    Event,      \* one value for each xroot_evt that is allocated
    NoEvent     \* the work without an event

ASSUME EventAssumption == NoEvent \notin Event

VARIABLES
    evtList,    \* evt_list, from its head
    life,       \* where an event is: "none", "listed", "taken", "done", "freed"
    async,      \* the events posted as asynchronous
    post,       \* where an event's poster is: "none", "listed", "waiting", "returned"
    queued,     \* whether evt_work is queued
    wpc,        \* evt_work: "idle", "take" or "handle"
    cur         \* the event it handles

queue == <<evtList, life, async, post, queued, wpc, cur>>

QueueTypeOK ==
    /\ evtList \in Seq(Event)
    /\ life \in [Event -> {"none", "listed", "taken", "done", "freed"}]
    /\ async \subseteq Event
    /\ post \in [Event -> {"none", "listed", "waiting", "returned"}]
    /\ queued \in BOOLEAN
    /\ wpc \in {"idle", "take", "handle"}
    /\ cur \in Event \cup {NoEvent}

QueueInit ==
    /\ evtList = <<>>
    /\ life = [e \in Event |-> "none"]
    /\ async = {}
    /\ post = [e \in Event |-> "none"]
    /\ queued = FALSE
    /\ wpc = "idle"
    /\ cur = NoEvent

SetLife(e, l) == life' = [life EXCEPT ![e] = l]
MovePost(e, from, to) == post[e] = from /\ post' = [post EXCEPT ![e] = to]

\* xroot_trigger_event: the event goes to the head of the list ...
Post(e, a) ==
    /\ MovePost(e, "none", "listed")
    /\ evtList' = <<e>> \o evtList
    /\ SetLife(e, "listed")
    /\ async' = IF a THEN async \cup {e} ELSE async
    /\ UNCHANGED <<queued, wpc, cur>>

\* Mutant of Schedule: the work is not queued.
ScheduleNot(e) ==
    /\ MovePost(e, "listed", IF e \in async THEN "returned" ELSE "waiting")
    /\ UNCHANGED <<evtList, life, async, queued, wpc, cur>>

\* ... the work is scheduled ...
Schedule(e) ==
    /\ MovePost(e, "listed", IF e \in async THEN "returned" ELSE "waiting")
    /\ queued' = TRUE
    /\ UNCHANGED <<evtList, life, async, wpc, cur>>

\* ... and a synchronous event's poster waits for it, and frees it.
Return(e) ==
    /\ MovePost(e, "waiting", "returned")
    /\ life[e] = "done"
    /\ SetLife(e, "freed")
    /\ UNCHANGED <<evtList, async, queued, wpc, cur>>

\* xroot_event_work
WorkStart ==
    /\ wpc = "idle" /\ wpc' = "take"
    /\ queued /\ queued' = FALSE
    /\ UNCHANGED <<evtList, life, async, post, cur>>

WorkTake ==
    /\ wpc = "take" /\ wpc' = "handle"
    /\ evtList # <<>>
    /\ cur' = Head(evtList)
    /\ evtList' = Tail(evtList)
    /\ SetLife(Head(evtList), "taken")
    /\ UNCHANGED <<async, post, queued>>

WorkEnd ==
    /\ wpc = "take" /\ wpc' = "idle"
    /\ evtList = <<>>
    /\ UNCHANGED <<evtList, life, async, post, queued, cur>>

\* Mutant of WorkFinish: nobody is told that a synchronous event was handled.
WorkFinishSilent ==
    /\ wpc = "handle" /\ wpc' = "take"
    /\ SetLife(cur, IF cur \in async THEN "freed" ELSE "taken")
    /\ cur' = NoEvent
    /\ UNCHANGED <<evtList, async, post, queued>>

\* After xrt_subdev_pool_handle_event: vfree, or complete.
WorkFinish ==
    /\ wpc = "handle" /\ wpc' = "take"
    /\ SetLife(cur, IF cur \in async THEN "freed" ELSE "done")
    /\ cur' = NoEvent
    /\ UNCHANGED <<evtList, async, post, queued>>
=============================================================================
