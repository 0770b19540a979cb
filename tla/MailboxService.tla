--------------------------- MODULE MailboxService ---------------------------
(***************************************************************************)
(* The service of xrt-mgmt to its peer, the user function's driver, over   *)
(* the mailbox: mgmt/xmgmt-main-mailbox.c.  It listens on the mailbox leaf *)
(* while that is there, answers the peer's requests in the leaf's listener *)
(* thread, and tells the peer of its state.                                *)
(*                                                                         *)
(* Its own lock, the listener's (mbx_listen_cb_lock), the main leaf's and  *)
(* the wait for evt_work are the locks of this system that are taken       *)
(* across components, so each of them is taken and released in a step.     *)
(***************************************************************************)
EXTENDS Integers, Sequences, FiniteSets, SequencesExt

CONSTANTS
    Kinds,      \* kinds of requests the peer makes
    MaxRequests,\* bound: requests of the peer
    MaxTests,   \* bound: test messages that are set
    MaxCalls,   \* bound: what the other processes do, each
    Unbind      \* whether the driver unbinds

\* evt_work, the mailbox's listener, a process that uses the sysfs nodes, one
\* that resets the card and one that downloads.
Thread == {"work", "listener", "user", "resetter", "download"}

VARIABLES
    held,       \* whether xmbx->mailbox is set, and so held
    listening,  \* whether mbx_listen_cb is set
    lock,       \* the owner of xmbx->lock, or "none"
    cblock,     \* the owner of mbx_listen_cb_lock
    main,       \* the owner of the main leaf's lock
    test,       \* test_msg, by number, or 0
    tests,      \* how many were set
    domain,     \* peer_in_same_domain
    asked,      \* requests that arrived
    over,       \* how many of them the listener is done with
    kind,       \* the kind of the one it has
    told,       \* how often each test message was sent to the peer
    freed,      \* test messages that are freed
    events,     \* events for evt_work: what, and who waits for it
    pc,         \* where each thread is
    msg,        \* the test message the listener took
    leaving,    \* whether the driver unbinds
    calls       \* how many calls each of the other processes made

vars == <<held, listening, lock, cblock, main, test, tests, domain, asked,
          over, kind, told, freed, events, pc, msg, leaving, calls>>

Event == {"up", "down", "online", "offline", "any"} \X (Thread \cup {"none"})

TypeOK ==
    /\ {held, listening, domain, leaving} \subseteq BOOLEAN
    /\ {lock, cblock, main} \subseteq Thread \cup {"none"}
    /\ test \in 0 .. MaxTests /\ tests \in 0 .. MaxTests /\ msg \in 0 .. MaxTests
    /\ asked \in 0 .. MaxRequests /\ over \in 0 .. asked
    /\ kind \in Kinds \cup {"none"}
    /\ told \in [1 .. MaxTests -> Nat] /\ freed \subseteq 1 .. MaxTests
    /\ events \in Seq(Event)
    /\ pc \in [Thread -> {"idle", "lock", "register", "unregister", "notify", "serve",
                          "answer", "reset", "wait", "again", "main", "ask", "gate"}]
    /\ calls \in [{"user", "resetter", "download"} -> 0 .. MaxCalls]

\* xmgmt_mailbox_probe; the mailbox's leaf is about to come up, and the driver
\* is about to say that it is attached.
Init ==
    /\ held = FALSE /\ listening = FALSE
    /\ lock = "none" /\ cblock = "none" /\ main = "none"
    /\ test = 0 /\ tests = 0 /\ domain = FALSE
    /\ asked = 0 /\ over = 0 /\ kind = "none"
    /\ told = [m \in 1 .. MaxTests |-> 0] /\ freed = {}
    /\ events \in {<<<<"up", "none">>, <<"online", "none">>>>,
                   <<<<"online", "none">>, <<"up", "none">>>>}
    /\ pc = [t \in Thread |-> "idle"]
    /\ msg = 0 /\ leaving = FALSE
    /\ calls = [t \in {"user", "resetter", "download"} |-> 0]

leaf == <<held, listening>>
locks == <<lock, cblock, main>>
messages == <<test, tests, told, freed, msg>>
peer == <<asked, over, kind, domain>>
rest == <<leaving, calls>>

Goto(t, from, to) == pc[t] = from /\ pc' = [pc EXCEPT ![t] = to]
Post(e, t) == events' = Append(events, <<e, t>>)

\* A synchronous event is handled when the queue and evt_work are through it.
Handled(t) == (\A e \in ToSet(events) : e[2] # t) /\ pc["work"] = "idle"

Call(t) == calls[t] < MaxCalls /\ calls' = [calls EXCEPT ![t] = @ + 1]

-----------------------------------------------------------------------------
(* evt_work: xmgmt_mailbox_event_cb and xmgmt_main_event_cb                 *)

\* The event is taken; all but "any" need the lock.
Take ==
    /\ events # <<>>
    /\ Goto("work", "idle",
            CASE Head(events)[1] = "up" -> "register"
              [] Head(events)[1] = "down" -> "unregister"
              [] Head(events)[1] = "any" -> "idle"
              [] OTHER -> "notify")
    /\ Head(events)[1] # "any" => lock = "none"
    /\ lock' = IF Head(events)[1] = "any" THEN lock ELSE "work"
    /\ events' = Tail(events)
    /\ UNCHANGED <<leaf, cblock, main, messages, peer, rest>>

\* xmgmt_mailbox_reg_listener
Register ==
    /\ cblock = "none"
    /\ Goto("work", "register", "idle")
    /\ held' = TRUE /\ listening' = TRUE
    /\ lock' = "none"
    /\ UNCHANGED <<cblock, main, messages, peer, events, rest>>

\* xmgmt_mailbox_unreg_listener, and the leaf is let go of.
Unregister ==
    /\ cblock = "none"
    /\ Goto("work", "unregister", "idle")
    /\ held' = FALSE /\ listening' = FALSE
    /\ lock' = "none"
    /\ UNCHANGED <<cblock, main, messages, peer, events, rest>>

\* xmgmt_peer_notify_state posts to the leaf, or drops it when there is none.
Notify ==
    /\ Goto("work", "notify", "idle")
    /\ lock' = "none"
    /\ UNCHANGED <<leaf, cblock, main, messages, peer, events, rest>>

\* xmgmt_remove says "offline" and removes the groups, the mailbox's leaf too.
Detach ==
    /\ Unbind /\ held /\ leaving' = TRUE /\ ~ leaving
    /\ events' = events \o <<<<"offline", "none">>, <<"down", "none">>>>
    /\ UNCHANGED <<leaf, locks, messages, peer, pc, calls>>

-----------------------------------------------------------------------------
(* The listener: process_request of the mailbox and xmgmt_mailbox_listener  *)

\* The peer asks; the mailbox's own queues are Mailbox.
Ask ==
    /\ asked < MaxRequests /\ asked' = asked + 1
    /\ UNCHANGED <<leaf, locks, messages, over, kind, domain, events, pc, rest>>

\* Without a callback a request is dropped, as is one that is corrupted or
\* unknown, and an xclbin of a peer that is not known to share our memory.
Drop ==
    /\ over < asked /\ cblock = "none"
    /\ Goto("listener", "idle", "idle")
    /\ over' = over + 1
    /\ UNCHANGED <<leaf, locks, messages, asked, kind, domain, events, rest>>

\* What is asked of the icap (its shell's uuid) and an xclbin to load go to the
\* main leaf first.
FirstStep(k) == IF k \in {"icap", "load"} THEN "main" ELSE "serve"

Receive ==
    /\ over < asked /\ cblock = "none" /\ cblock' = "listener"
    /\ listening
    /\ \E k \in Kinds :
           /\ k = "load" => domain
           /\ Goto("listener", "idle", FirstStep(k))
           /\ kind' = k
    /\ UNCHANGED <<leaf, lock, main, messages, asked, over, domain, events, rest>>

\* Mutant of TakeTest: the message stays where it was.
TakeTestLeft ==
    /\ lock = "none"
    /\ Goto("listener", "serve", "serve")
    /\ kind = "test" /\ msg = 0 /\ test # 0
    /\ msg' = test
    /\ UNCHANGED <<leaf, locks, test, tests, told, freed, peer, events, rest>>

\* xmgmt_mailbox_resp_test_msg takes the message, and drops the lock before
\* it responds.
TakeTest ==
    /\ lock = "none"
    /\ Goto("listener", "serve", "serve")
    /\ kind = "test" /\ msg = 0 /\ test # 0
    /\ msg' = test /\ test' = 0
    /\ UNCHANGED <<leaf, locks, tests, told, freed, peer, events, rest>>

\* xmgmt_mailbox_respond, which waits for the lock.  The message that was sent
\* is freed.
Tell ==
    /\ lock = "none"
    /\ IF msg = 0 THEN UNCHANGED <<told, freed>>
       ELSE told' = [told EXCEPT ![msg] = @ + 1] /\ freed' = freed \cup {msg}
    /\ msg' = 0

\* A probe says whether the peer shares our memory; nothing says that it no
\* longer does.
Probed == domain' \in IF kind = "probe" THEN {domain, TRUE} ELSE {domain}

\* Sensors, clocks, calibration, board information: whatever the leaves say,
\* the answer is posted.
Respond ==
    /\ Tell
    /\ Goto("listener", "serve", IF kind = "reset" THEN "reset" ELSE "answer")
    /\ kind = "test" => msg # 0
    /\ Probed
    /\ UNCHANGED <<leaf, locks, test, tests, asked, over, kind, events, rest>>

\* Mutant of RespondNothing: it returns with the lock when no message is set.
RespondNothingLocked ==
    /\ Goto("listener", "serve", "answer")
    /\ kind \in {"test", "data", "icap", "probe"} /\ msg = 0
    /\ kind = "test" => lock = "none" /\ test = 0
    /\ lock' = IF kind = "test" THEN "listener" ELSE lock
    /\ UNCHANGED <<leaf, cblock, main, messages, peer, events, rest>>

\* No test message is set; no metadata, or more than the peer has room for; a
\* corrupted request; no memory.
RespondNothing ==
    /\ Goto("listener", "serve", "answer")
    /\ kind \in {"test", "data", "icap", "probe"} /\ msg = 0
    /\ kind = "test" => lock = "none" /\ test = 0
    /\ UNCHANGED <<leaf, locks, messages, peer, events, rest>>

\* xmgmt_get_provider_uuid, for "icap"; bitstream_axlf_mailbox, for "load".
UseMain ==
    /\ pc["listener"] = "main" /\ main = "none"
    /\ IF kind = "icap"
       THEN Goto("listener", "main", "serve") /\ UNCHANGED <<main, events>>
       ELSE Goto("listener", "main", "gate") /\ main' = "listener" /\ Post("any", "listener")
    /\ UNCHANGED <<leaf, lock, cblock, messages, peer, rest>>

\* The listener's download, after its gate was closed.
Loaded ==
    /\ Handled("listener")
    /\ Goto("listener", "gate", "serve")
    /\ main' = "none"
    /\ UNCHANGED <<leaf, lock, cblock, messages, peer, events, rest>>

EndRequest ==
    /\ Goto("listener", "answer", "idle")
    /\ cblock' = "none"
    /\ over' = over + 1 /\ kind' = "none"
    /\ UNCHANGED <<leaf, lock, main, messages, asked, domain, events, rest>>

-----------------------------------------------------------------------------
(* xmgmt_hot_reset, of the listener or of a process that writes "reset"     *)

BeginReset ==
    /\ Call("resetter")
    /\ Goto("resetter", "idle", "reset")
    /\ UNCHANGED <<leaf, locks, messages, peer, events, leaving>>

\* XRT_EVENT_PRE_HOT_RESET, the reset of the card, XRT_EVENT_POST_HOT_RESET.
ResetEvent(t) ==
    /\ \/ Goto(t, "reset", "wait")
       \/ Handled(t) /\ Goto(t, "wait", "again")
    /\ Post("any", t)
    /\ UNCHANGED <<leaf, locks, messages, peer, rest>>

\* The peer whose request it was is told of it.
ResetDone(t) ==
    /\ Handled(t)
    /\ IF t = "listener" THEN lock = "none" /\ Goto(t, "again", "answer")
                         ELSE Goto(t, "again", "idle")
    /\ UNCHANGED <<leaf, locks, messages, peer, events, rest>>

-----------------------------------------------------------------------------
(* The sysfs nodes, and downloads                                           *)

\* xmgmt_mailbox_set_test_msg
SetTest ==
    /\ pc["user"] = "idle" /\ lock = "none"
    /\ tests < MaxTests /\ tests' = tests + 1
    /\ test' = tests + 1
    /\ freed' = freed \cup ({test} \ {0})
    /\ UNCHANGED <<leaf, locks, told, msg, peer, events, pc, rest>>

\* xmgmt_mailbox_get_test_msg asks the peer, with the lock, for at most a
\* second.
AskTest ==
    /\ Call("user") /\ lock = "none" /\ held
    /\ Goto("user", "idle", "ask")
    /\ lock' = "user"
    /\ UNCHANGED <<leaf, cblock, main, messages, peer, events, leaving>>

Answered ==
    /\ Goto("user", "ask", "idle")
    /\ lock' = "none"
    /\ UNCHANGED <<leaf, cblock, main, messages, peer, events, rest>>

\* xmgmt_main_ioctl: with the main leaf's lock it waits for evt_work.
Download ==
    /\ Call("download") /\ main = "none"
    /\ Goto("download", "idle", "gate")
    /\ main' = "download"
    /\ Post("any", "download")
    /\ UNCHANGED <<leaf, lock, cblock, messages, peer, leaving>>

Downloaded ==
    /\ Handled("download")
    /\ Goto("download", "gate", "idle")
    /\ main' = "none"
    /\ UNCHANGED <<leaf, lock, cblock, messages, peer, events, rest>>

Work == Take \/ Register \/ Unregister \/ Notify
Serve == TakeTest \/ Respond \/ RespondNothing \/ UseMain \/ Loaded \/ EndRequest
Resets(t) == ResetEvent(t) \/ ResetDone(t)
Process == BeginReset \/ SetTest \/ AskTest \/ Download

Next ==
    \/ Work \/ Detach
    \/ Ask \/ Drop \/ Receive \/ Serve
    \/ \E t \in {"listener", "resetter"} : Resets(t)
    \/ Process \/ Answered \/ Downloaded

Spec == Init /\ [][Next]_vars

\* Works are run and who is in a call goes on.  Nothing makes the peer or a
\* process ask, or the driver unbind.
FairSpec ==
    /\ Spec
    /\ WF_vars(Work) /\ WF_vars(Drop \/ Receive) /\ WF_vars(Serve)
    /\ \A t \in {"listener", "resetter"} : WF_vars(Resets(t))
    /\ WF_vars(Answered) /\ WF_vars(Downloaded)

-----------------------------------------------------------------------------
(* Properties                                                               *)

\* xmgmt-main-mailbox.c:124-132.  A test message goes to the peer at most once,
\* and neither the one that is set nor the one being sent is freed.
TestMessageOnce ==
    /\ \A m \in 1 .. MaxTests : told[m] <= 1
    /\ {test, msg} \cap freed = {}

\* xmgmt-main-mailbox.c:710.  When the service has let go of the leaf, none of
\* its callbacks runs or will run.
QuietWhenGone == ~ listening => pc["listener"] = "idle" /\ ~ held

\* xmgmt-main-mailbox.c:622, xmgmt-main.c:110, 785.  Whatever requests, resets,
\* downloads and sysfs do beside each other, all of them come to an end, as
\* long as the driver stays.
RequestsServed ==
    <>[](leaving \/ (over = asked /\ \A t \in {"user", "resetter", "download"} : pc[t] = "idle"))

\* xmgmt-main-mailbox.c:704-713.  The mailbox's leaf is let go of when it is
\* to be removed.
LeafLetGo == leaving ~> ~ held

\* xmgmt-main.c:549.  "mgmt driver finishes attaching, notify user pf."
OnlineIsSent == [][pc["work"] # "notify" /\ pc'["work"] = "notify" => held]_vars
=============================================================================
