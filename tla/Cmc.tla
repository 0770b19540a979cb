-------------------------------- MODULE Cmc --------------------------------
\* The CMC leaf: the card management controller, its packet mailbox, the
\* satellite controller (SC) whose firmware is written through that mailbox,
\* and the board information cached from it (lib/xleaf/cmc*.c).
\*
\* The probe stops the controller, loads its firmware and starts it; then it
\* reads the board information.  After that the leaf's device node is opened
\* by one client at a time, whose threads write sections of SC firmware and,
\* at the jump offset, boot it.  Each write holds the packet mailbox: one slot
\* of registers that belongs either to the host or to the controller.
EXTENDS Integers, Sequences, FiniteSets

CONSTANTS
    Writer,      \* threads of the process that has the device node open
    MaxCalls,    \* writes the threads make in all
    Mishaps,     \* what may go wrong: "error", the controller answers a packet
                 \* with one; "late", it takes longer than the driver waits;
                 \* "killed", a thread is killed while its write waits
    NoPacket     \* no packet

VARIABLES
    life,        \* how far probe or remove of the leaf has come
    hdl,         \* the parts of the leaf that have a handle (struct xrt_cmc)
    mb, image,   \* the controller: what it does, which firmware it holds
    ulp,         \* whether it is allowed to access the user partition
    sem, gen,    \* struct xrt_cmc_mbx: sem and generation
    buf, owner,  \* the packet slot, and whose it is
    taken, err,  \* the packet the controller works on, its error flag
    last,        \* the packet it finished last
    blank,       \* whether the SC's flash is erased
    version,     \* the firmware the SC booted, counted
    erased,      \* struct xrt_cmc_sc: sc_fw_erased
    scgen,       \* and mbx_generation
    bdlock, info,\* struct xrt_cmc_bdinfo: lock and bdinfo
    fresh,       \* whether the last refresh of info succeeded
    opened,      \* whether the device node is open
    upset,       \* the mishap there was (bound: one)
    pc, kind, todo, ret, calls

ctlVars == <<life, hdl, mb, image, ulp, opened>>
mbxVars == <<sem, gen>>
slotVars == <<buf, owner, taken, err>>
scVars  == <<last, blank, version>>
drvVars == <<erased, scgen>>
bdVars  == <<bdlock, info, fresh>>
callVars == <<kind, todo, ret, calls, upset>>
vars == <<ctlVars, mbxVars, slotVars, scVars, drvVars, bdVars, pc, callVars>>

Thread == Writer \cup {"probe"}
Killed == 0 - 1            \* the generation a failed acquire leaves behind
Kind == {"section", "boot", "badboot"}
Packet == [op : {"erase", "start", "data", "end", "info"}, by : Thread]
Board  == [op : {"board"}, ver : Nat]

Goto(t, l) == pc' = [pc EXCEPT ![t] = l]

Init ==
    /\ life = "fetch" /\ hdl = {} /\ image = "old"
    /\ mb \in {"runs", "stopped", "reset"} /\ ulp \in BOOLEAN
    /\ sem = 1 /\ gen = 0
    /\ buf = NoPacket /\ owner = "host" /\ taken = NoPacket /\ err = FALSE
    /\ last = NoPacket /\ blank = FALSE /\ version = 1
    /\ erased = FALSE /\ scgen = Killed
    /\ bdlock = "free" /\ info = 0 /\ fresh = FALSE /\ opened = FALSE
    /\ pc = [t \in Thread |-> "idle"]
    /\ kind = [t \in Writer |-> "section"] /\ todo = [t \in Writer |-> <<>>]
    /\ ret = [t \in Writer |-> "ok"] /\ calls = 0 /\ upset = "none"
----------------------------------------------------------------------------
\* cmc_probe and cmc_ctrl_probe.  A probe of the controller that fails is
\* undone by cmc_remove, which reads the handle of the sensors unconditionally:
\* it is still NULL.
ProbeStep(from, to) ==
    /\ life = from /\ life' = to
    /\ UNCHANGED <<mbxVars, slotVars, scVars, drvVars, bdVars, opened, pc, callVars>>

CtrlFails ==
    /\ life \in {"fetch", "revoke", "stop", "load", "start"}
    /\ life' = "oops"
    /\ UNCHANGED <<hdl, mb, image, ulp, opened>>
    /\ UNCHANGED <<mbxVars, slotVars, scVars, drvVars, bdVars, pc, callVars>>

\* cmc_fetch_firmware: the section is there, and fits.
FetchFirmware == ProbeStep("fetch", "revoke") /\ UNCHANGED <<hdl, mb, image, ulp>>

\* cmc_ulp_access(false), which waits until the controller has let go.
Revoke ==
    /\ ProbeStep("revoke", "stop") /\ ulp' = FALSE
    /\ UNCHANGED <<hdl, mb, image>>

\* cmc_stop: nothing to do in reset; a running controller is asked to stop and
\* waited for, then held in reset.
Stop ==
    /\ life = "stop"
    /\ \/ mb = "runs" /\ mb' = "stopped" /\ life' = life
       \/ mb = "stopped" /\ mb' = "reset" /\ life' = life
       \/ mb = "reset" /\ UNCHANGED mb /\ life' = "load"
    /\ UNCHANGED <<hdl, image, ulp, opened>>
    /\ UNCHANGED <<mbxVars, slotVars, scVars, drvVars, bdVars, pc, callVars>>

LoadImage ==
    /\ ProbeStep("load", "start") /\ image' = "new"
    /\ UNCHANGED <<hdl, mb, ulp>>

\* cmc_start, and the rest of cmc_probe: what fails after the controller is not
\* fatal.  The mailbox is missing when its offset reads as 0.
Start ==
    /\ ProbeStep("start", "parts") /\ mb' = "runs"
    /\ UNCHANGED <<hdl, image, ulp>>

ProbeParts ==
    /\ life = "parts"
    /\ \E mbx \in BOOLEAN :
          hdl' = {"ctrl", "sensor"} \cup IF mbx THEN {"mbx"} ELSE {}
    /\ life' = "bdinfo"
    /\ Goto("probe", "bdlock")
    /\ UNCHANGED <<mb, image, ulp, opened, mbxVars, slotVars, scVars, drvVars, bdVars, callVars>>

\* cmc_bdinfo_probe keeps its handle only if the information could be read;
\* cmc_sc_probe ends the probe.
ProbeDone ==
    /\ life = "bdinfo" /\ pc["probe"] = "idle" /\ life' = "up"
    /\ hdl' = hdl \cup {"sc"} \cup IF fresh THEN {"bdinfo"} ELSE {}
    /\ UNCHANGED <<mb, image, ulp, opened>>
    /\ UNCHANGED <<mbxVars, slotVars, scVars, drvVars, bdVars, pc, callVars>>

\* cmc_ctrl_event_cb: PRE_GATE_CLOSE revokes, POST_GATE_OPEN grants.  A
\* controller that does not follow is only reported.
GateEvent ==
    /\ life = "up"
    /\ \E granted \in BOOLEAN : ulp' = granted
    /\ UNCHANGED <<life, hdl, mb, image, opened>>
    /\ UNCHANGED <<mbxVars, slotVars, scVars, drvVars, bdVars, pc, callVars>>

\* cmc_remove, after the device node is destroyed: access is revoked, the
\* controller is left running.
CmcRemove ==
    /\ life = "up" /\ ~opened
    /\ life' = "gone" /\ hdl' = {} /\ ulp' = FALSE /\ info' = 0
    /\ UNCHANGED <<mb, image, opened, bdlock, fresh>>
    /\ UNCHANGED <<mbxVars, slotVars, scVars, drvVars, pc, callVars>>
----------------------------------------------------------------------------
\* cmc_sc_open and cmc_sc_close: one client at a time; what it did to the SC,
\* sc_fw_erased, outlives it.  An opener that is refused is answered with the
\* handle of no device, which it cannot survive (SecondOpen).
Open ==
    /\ life = "up" /\ ~opened /\ opened' = TRUE
    /\ calls < MaxCalls
    /\ UNCHANGED <<life, hdl, mb, image, ulp, mbxVars, slotVars, scVars, drvVars, bdVars>>
    /\ UNCHANGED <<pc, callVars>>

Close ==
    /\ opened /\ opened' = FALSE /\ \A t \in Writer : pc[t] = "idle"
    /\ UNCHANGED <<life, hdl, mb, image, ulp, mbxVars, slotVars, scVars, drvVars, bdVars>>
    /\ UNCHANGED <<pc, callVars>>

\* cmc_update_sc_firmware: a write at an offset, or at the jump offset.
Write(t) ==
    /\ pc[t] = "idle" /\ opened /\ calls < MaxCalls
    /\ calls' = calls + 1
    /\ \E k \in Kind : kind' = [kind EXCEPT ![t] = k]
    /\ ret' = [ret EXCEPT ![t] = "ok"]
    /\ Goto(t, "acquire")
    /\ UNCHANGED <<ctlVars, mbxVars, slotVars, scVars, drvVars, bdVars, todo, upset>>

Mishap(m) == m \in Mishaps /\ upset = "none" /\ upset' = m

\* cmc_mailbox_acquire; the generation of the hold is kept in the leaf, for
\* every thread.
Acquire(t) ==
    /\ pc[t] = "acquire" /\ "mbx" \in hdl /\ sem = 1
    /\ sem' = 0 /\ scgen' = gen
    /\ Goto(t, "plan")
    /\ UNCHANGED <<ctlVars, gen, slotVars, scVars, erased, bdVars, callVars>>

\* The mailbox is missing, or the thread is killed while it waits.
AcquireFails(t) ==
    /\ pc[t] = "acquire"
    /\ \/ "mbx" \notin hdl /\ UNCHANGED upset
       \/ sem = 0 /\ Mishap("killed")
    /\ scgen' = Killed
    /\ Goto(t, "idle")
    /\ UNCHANGED <<ctlVars, mbxVars, slotVars, scVars, erased, bdVars, kind, todo, ret, calls>>

\* What a write sends: cmc_erase_sc_firmware unless the flash is known to be
\* erased, then the packets of the section, or the end of the image.  A boot
\* whose address has the wrong size only erases.
Body(k) == CASE k = "section" -> <<"start", "data">>
             [] k = "boot"    -> <<"end">>
             [] k = "badboot" -> <<>>

Plan(t) ==
    /\ pc[t] = "plan"
    /\ todo' = [todo EXCEPT ![t] = (IF erased THEN <<>> ELSE <<"erase">>) \o Body(kind[t])]
    /\ Goto(t, "send")
    /\ UNCHANGED <<ctlVars, mbxVars, slotVars, scVars, drvVars, bdVars, kind, ret, calls, upset>>

\* cmc_mailbox_pkt_write: the packet goes to the slot, whoever owns it, and the
\* slot to the controller.
Push(p) == buf' = p /\ owner' = "cmc" /\ UNCHANGED <<taken, err>>

\* Mutant of MarkInstalled: the flag is left as it is.
MarkKept(op) == erased' = erased

\* cmc_boot_sc marks the firmware as installed before it sends the packet.
MarkInstalled(op) == erased' = IF op = "end" THEN FALSE ELSE erased

\* cmc_mailbox_send_packet.
Send(t) ==
    /\ pc[t] = "send" /\ todo[t] # <<>> /\ scgen = gen
    /\ Push([op |-> Head(todo[t]), by |-> t])
    /\ MarkInstalled(Head(todo[t]))
    /\ Goto(t, "wait")
    /\ UNCHANGED <<ctlVars, mbxVars, scVars, scgen, bdVars, callVars>>

SendStale(t) ==
    /\ pc[t] = "send" /\ todo[t] # <<>> /\ scgen # gen
    /\ MarkInstalled(Head(todo[t]))
    /\ ret' = [ret EXCEPT ![t] = "stale"]
    /\ Goto(t, "release")
    /\ UNCHANGED <<ctlVars, mbxVars, slotVars, scVars, scgen, bdVars, kind, todo, calls, upset>>

SendsDone(t) ==
    /\ pc[t] = "send" /\ todo[t] = <<>>
    /\ ret' = [ret EXCEPT ![t] = IF kind[t] = "badboot" THEN "invalid" ELSE "ok"]
    /\ Goto(t, "release")
    /\ UNCHANGED <<ctlVars, mbxVars, slotVars, scVars, drvVars, bdVars, kind, todo, calls, upset>>

\* cmc_mailbox_wait: the slot came back, with or without an error; or the wait
\* ends while the controller still has it.
Succeeds(t) ==
    /\ pc[t] = "wait" /\ owner = "host" /\ ~err
    /\ erased' = IF Head(todo[t]) = "erase" THEN TRUE ELSE erased
    /\ todo' = [todo EXCEPT ![t] = Tail(@)]
    /\ Goto(t, "send")
    /\ UNCHANGED <<ctlVars, mbxVars, slotVars, scVars, scgen, bdVars, kind, ret, calls, upset>>

\* The packet failed, or the SC it was to boot does not come up.
Fails(t) ==
    /\ pc[t] = "wait" /\ owner = "host"
    /\ \/ err /\ UNCHANGED upset
       \/ Head(todo[t]) = "end" /\ Mishap("error")
    /\ err' = FALSE /\ ret' = [ret EXCEPT ![t] = "io"]
    /\ Goto(t, "release")
    /\ UNCHANGED <<ctlVars, mbxVars, buf, owner, taken, scVars, drvVars, bdVars, kind, todo, calls>>

TimesOut(t) ==
    /\ pc[t] = "wait" /\ owner = "cmc" /\ Mishap("late")
    /\ ret' = [ret EXCEPT ![t] = "timeout"]
    /\ Goto(t, "release")
    /\ UNCHANGED <<ctlVars, mbxVars, slotVars, scVars, drvVars, bdVars, kind, todo, calls>>

\* A boot that was tried is followed by a refresh of the board information.
NeedRefresh(t) == kind[t] = "boot" /\ (todo[t] = <<>> \/ Head(todo[t]) # "erase")

\* Mutant of Release: a write that failed keeps the mailbox.
ReleaseIfOk(t) ==
    /\ pc[t] = "release"
    /\ IF ret[t] = "ok" THEN gen' = gen + 1 /\ sem' = 1 ELSE UNCHANGED mbxVars
    /\ Goto(t, IF NeedRefresh(t) THEN "bdlock" ELSE "settle")
    /\ UNCHANGED <<ctlVars, slotVars, scVars, drvVars, bdVars, callVars>>

\* cmc_mailbox_release ignores a generation that is not the current one.
Release(t) ==
    /\ pc[t] = "release"
    /\ IF scgen = gen THEN gen' = gen + 1 /\ sem' = 1 ELSE UNCHANGED mbxVars
    /\ Goto(t, IF NeedRefresh(t) THEN "bdlock" ELSE "settle")
    /\ UNCHANGED <<ctlVars, slotVars, scVars, drvVars, bdVars, callVars>>

\* The end of the write: after a failure the next one erases again.  Nothing is
\* held here.
Settle(t) ==
    /\ pc[t] = "settle"
    /\ erased' = IF ret[t] # "ok" THEN FALSE ELSE erased
    /\ Goto(t, "idle")
    /\ UNCHANGED <<ctlVars, mbxVars, slotVars, scVars, scgen, bdVars, callVars>>
----------------------------------------------------------------------------
\* cmc_refresh_board_info of a write, and cmc_bdinfo_probe: without a handle
\* there is nothing to refresh.
After(t) == IF t = "probe" THEN "idle" ELSE "settle"

BdLock(t) ==
    /\ pc[t] = "bdlock"
    /\ IF t # "probe" /\ "bdinfo" \notin hdl
       THEN Goto(t, After(t)) /\ UNCHANGED bdVars
       ELSE bdlock = "free" /\ bdlock' = t /\ Goto(t, "bdacquire") /\ UNCHANGED <<info, fresh>>
    /\ UNCHANGED <<ctlVars, mbxVars, slotVars, scVars, drvVars, callVars>>

\* cmc_refresh_board_info_nolock.
BdAcquire(t) ==
    /\ pc[t] = "bdacquire" /\ "mbx" \in hdl /\ sem = 1
    /\ sem' = 0
    /\ Goto(t, "bdsend")
    /\ UNCHANGED <<ctlVars, gen, slotVars, scVars, drvVars, bdVars, callVars>>

BdAcquireFails(t) ==
    /\ pc[t] = "bdacquire" /\ ("mbx" \notin hdl \/ sem = 0)
    /\ bdlock' = "free" /\ fresh' = FALSE
    /\ Goto(t, After(t))
    /\ UNCHANGED <<ctlVars, mbxVars, slotVars, scVars, drvVars, info, callVars>>

BdSend(t) ==
    /\ pc[t] = "bdsend"
    /\ Push([op |-> "info", by |-> t])
    /\ Goto(t, "bdwait")
    /\ UNCHANGED <<ctlVars, mbxVars, scVars, drvVars, bdVars, callVars>>

\* The packet read back from the slot replaces the information, whatever it is,
\* if it has a payload.
BdReceive(t) ==
    /\ pc[t] = "bdwait" /\ owner = "host" /\ ~err
    /\ IF buf.op = "board"
       THEN info' = buf.ver /\ fresh' = TRUE
       ELSE UNCHANGED info /\ fresh' = FALSE
    /\ Goto(t, "bdrelease")
    /\ UNCHANGED <<ctlVars, mbxVars, slotVars, scVars, drvVars, bdlock, callVars>>

BdFails(t) ==
    /\ pc[t] = "bdwait"
    /\ \/ owner = "host" /\ err /\ err' = FALSE /\ UNCHANGED upset
       \/ owner = "cmc" /\ Mishap("late") /\ UNCHANGED err
    /\ fresh' = FALSE
    /\ Goto(t, "bdrelease")
    /\ UNCHANGED <<ctlVars, mbxVars, buf, owner, taken, scVars, drvVars, bdlock, info>>
    /\ UNCHANGED <<kind, todo, ret, calls>>

BdRelease(t) ==
    /\ pc[t] = "bdrelease"
    /\ gen' = gen + 1 /\ sem' = 1 /\ bdlock' = "free"
    /\ Goto(t, After(t))
    /\ UNCHANGED <<ctlVars, slotVars, scVars, drvVars, info, fresh, callVars>>
----------------------------------------------------------------------------
\* The controller takes a packet it was given and answers it.
Take ==
    /\ owner = "cmc" /\ taken = NoPacket /\ taken' = buf
    /\ UNCHANGED <<ctlVars, mbxVars, buf, owner, err, scVars, drvVars, bdVars, pc, callVars>>

Effect(p) ==
    CASE p.op = "erase" -> blank' = TRUE /\ UNCHANGED <<buf, version>>
      [] p.op = "end"   -> blank' = FALSE /\ version' = version + 1 /\ UNCHANGED buf
      [] p.op = "info"  -> buf' = [op |-> "board", ver |-> version] /\ UNCHANGED <<blank, version>>
      [] OTHER          -> UNCHANGED <<buf, blank, version>>

Answer ==
    /\ taken # NoPacket
    /\ owner' = "host" /\ taken' = NoPacket /\ last' = taken
    /\ \/ Effect(taken) /\ err' = FALSE /\ UNCHANGED upset
       \/ Effect(taken) /\ err' = TRUE /\ Mishap("error")
       \/ UNCHANGED <<buf, blank, version>> /\ err' = TRUE /\ Mishap("error")
    /\ UNCHANGED <<ctlVars, mbxVars, drvVars, bdVars, pc, kind, todo, ret, calls>>
----------------------------------------------------------------------------
Probe == FetchFirmware \/ Revoke \/ Stop \/ LoadImage \/ Start \/ ProbeParts \/ ProbeDone

WriteStep(t) ==
    \/ Acquire(t) \/ Plan(t) \/ Send(t) \/ SendStale(t) \/ SendsDone(t)
    \/ Succeeds(t) \/ Fails(t) \/ Release(t) \/ Settle(t)

Refresh(t) ==
    \/ BdLock(t) \/ BdAcquire(t) \/ BdSend(t) \/ BdReceive(t)
    \/ BdFails(t) \/ BdRelease(t)

Next ==
    \/ Probe \/ CtrlFails \/ GateEvent \/ CmcRemove \/ Open \/ Close
    \/ \E t \in Writer : Write(t) \/ WriteStep(t) \/ AcquireFails(t) \/ TimesOut(t)
    \/ \E t \in Thread : Refresh(t) \/ BdAcquireFails(t)
    \/ Take \/ Answer

Fairness ==
    /\ WF_vars(Take \/ Answer)
    /\ \A t \in Writer : WF_vars(WriteStep(t))
    /\ \A t \in Thread : WF_vars(Refresh(t))

Spec == Init /\ [][Next]_vars
FairSpec == Spec /\ Fairness
----------------------------------------------------------------------------
TypeOK ==
    /\ life \in {"fetch", "revoke", "stop", "load", "start", "parts", "bdinfo", "up", "gone", "oops"}
    /\ hdl \subseteq {"ctrl", "sensor", "mbx", "bdinfo", "sc"}
    /\ mb \in {"runs", "stopped", "reset"} /\ image \in {"old", "new"}
    /\ {ulp, err, blank, erased, fresh, opened} \subseteq BOOLEAN
    /\ sem \in {0, 1} /\ {gen, version, info, calls} \subseteq Nat
    /\ buf \in Packet \cup Board \cup {NoPacket} /\ owner \in {"host", "cmc"}
    /\ {taken, last} \subseteq Packet \cup {NoPacket}
    /\ scgen \in Nat \cup {Killed} /\ bdlock \in Thread \cup {"free"}
    /\ \A t \in Writer : kind[t] \in Kind
    /\ upset \in Mishaps \cup {"none"}

\* Firmware is copied into the controller's memory only while the controller is
\* held in reset and has given up the user partition, however it was left
\* (cmc_ctrl_probe: revoke, stop, load).
LoadedInReset == [][image' # image => mb = "reset" /\ ~ulp]_vars

\* As long as no packet was answered late, the controller writes a packet of
\* firmware only into an erased flash: every section is preceded by the
\* erasing of the image that last booted, whichever thread or client sent it
\* and whatever failed in between (sc_fw_erased).
WrittenErased ==
    [][upset # "late" /\ last' # last /\ last'.op \in {"start", "data"} => blank]_vars

\* The rest of a section follows its start: no other thread's packet, and no
\* refresh of the board information, comes between the packets of one hold, as
\* long as no packet was answered late.
SectionsWhole ==
    [][upset # "late" /\ last' # last /\ last'.op = "data" => last = [op |-> "start", by |-> last'.by]]_vars

\* When no write is under way and the last refresh succeeded, the board
\* information that is cached is that of the firmware the SC runs, also after a
\* boot that the controller answered with an error.
InfoFollowsBoot ==
    (\A t \in Thread : pc[t] = "idle") /\ fresh /\ life = "up" => info = version

\* Whoever holds the mailbox lets go of it, late answers or not; unless a
\* waiting thread was killed, which makes the holder's generation a stale one
\* (cmc_mailbox_release).
HoldEnds == sem = 0 ~> sem = 1 \/ upset = "killed"

\* The firmware is known to be erased when a section or the end of an image is
\* sent (the WARN_ONs of cmc_write_sc_firmware_section and cmc_boot_sc).  A
\* thread whose write failed clears the flag after it let go of the mailbox,
\* under the write of another: this does not hold of the code.
ErasedKnown ==
    \A t \in Writer :
        pc[t] = "send" /\ todo[t] # <<>> /\ Head(todo[t]) \in {"start", "end"} => erased
============================================================================
