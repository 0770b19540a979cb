------------------------- MODULE LeafDriversProofs --------------------------
(***************************************************************************)
(* Theorems of the drivers of MCLeafDrivers, for any threads and any number *)
(* of calls: the CMC's firmware, whatever fails, the bitstream, the leaves   *)
(* that groups make out of their metadata, and the clocks.                  *)
(***************************************************************************)
EXTENDS MCLeafDrivers, FiniteSetTheorems, TLAPS

-----------------------------------------------------------------------------
(* The CMC: lib/xleaf/cmc*.c                                                *)

Thread == CmcLeaf!Thread
Places == {"idle", "acquire", "plan", "send", "wait", "release", "settle",
           "bdlock", "bdacquire", "bdsend", "bdwait", "bdrelease"}
RefreshPlaces == {"bdlock", "bdacquire", "bdsend", "bdwait", "bdrelease"}

\* Who has the packet mailbox.
HasMailbox(t) ==
    cmcPc[t] \in {"plan", "send", "wait", "release", "bdsend", "bdwait", "bdrelease"}

\* What a write of some kind still has to send.
Rests(k) == {<<"erase">> \o CmcLeaf!Body(k), CmcLeaf!Body(k), <<>>}
                \cup IF k = "section" THEN {<<"data">>} ELSE {}

CmcTypes ==
    /\ cmcPc \in [Thread -> Places]
    /\ cmcPc["probe"] \in {"idle"} \cup RefreshPlaces
    /\ kind \in [Writer -> CmcLeaf!Kind]
    /\ DOMAIN todo = Writer
    /\ taken \in CmcLeaf!Packet \cup {NoPacket}
    /\ owner = "cmc" => buf \in CmcLeaf!Packet

\* The controller is made ready before its firmware is loaded; the node is open
\* and threads write only while the leaf is up; a write refreshes the board
\* information only if the probe could read it.
LifeInOrder ==
    /\ life = "stop" => ~ ulp
    /\ life = "load" => mb = "reset" /\ ~ ulp
    /\ opened => life = "up"
    /\ opened \/ \A t \in Writer : cmcPc[t] = "idle"
    /\ cmcPc["probe"] # "idle" => life = "bdinfo"
    /\ life = "up" /\ "bdinfo" \notin hdl => ~ fresh
    /\ \A t \in Writer : cmcPc[t] \in RefreshPlaces \ {"bdlock"} => "bdinfo" \in hdl

\* One thread at most has the mailbox, and it sends what it planned to.
OneHolder ==
    /\ \A t \in Thread : HasMailbox(t) => sem = 0
    /\ \A s, t \in Thread : HasMailbox(s) /\ HasMailbox(t) => s = t
    /\ \A t \in Writer : cmcPc[t] \in {"send", "wait", "release"} => todo[t] \in Rests(kind[t])
    /\ \A t \in Writer : cmcPc[t] = "wait" => todo[t] # <<>>
    /\ taken # NoPacket => owner = "cmc"

\* The packet a thread waits for is the one in the slot, or the last one that was answered.
SlotServesHolder ==
    /\ taken \in {NoPacket, buf}
    /\ owner = "cmc" \/ err => \E t \in Thread : cmcPc[t] \in {"wait", "bdwait"}
    /\ err => owner # "cmc"
    /\ \A t \in Writer : cmcPc[t] = "wait" =>
           IF owner = "cmc" THEN buf = [op |-> Head(todo[t]), by |-> t]
                            ELSE err \/ last = [op |-> Head(todo[t]), by |-> t]
    /\ \A t \in Thread : cmcPc[t] = "bdwait" /\ owner = "cmc" => buf = [op |-> "info", by |-> t]

\* What is known to be erased is, and stays so until the end of the image; a
\* section is sent into an erased flash, and its rest after its start.
FlashKnown ==
    /\ erased => blank
    /\ \A t \in Writer :
           /\ cmcPc[t] = "wait" /\ Head(todo[t]) = "end" => ~ erased
           /\ cmcPc[t] = "wait" /\ Head(todo[t]) = "erase" /\ owner # "cmc" /\ ~ err => blank
           /\ cmcPc[t] \in {"send", "wait"} /\ todo[t] # <<>>
              /\ Head(todo[t]) \in {"start", "data"} => blank
           /\ cmcPc[t] = "send" \/ (cmcPc[t] = "wait" /\ owner = "cmc") =>
                  (todo[t] = <<"data">> => last = [op |-> "start", by |-> t])

\* A boot that may have changed the firmware is followed by a refresh.
Follows(t) ==
    \/ t \in Writer /\ cmcPc[t] \in {"send", "wait", "release"} /\ CmcLeaf!NeedRefresh(t)
    \/ cmcPc[t] \in {"bdlock", "bdacquire", "bdsend", "bdwait"}

NoEndInSlot ==
    owner = "cmc" => buf.op # "end" /\ (taken # NoPacket => taken.op # "end")

InfoKept ==
    /\ life # "gone" /\ fresh =>
           (info = version /\ NoEndInSlot) \/ (\E t \in Thread : Follows(t))
    /\ \A t \in Thread : cmcPc[t] = "bdwait" =>
           \/ buf = [op |-> "info", by |-> t]
           \/ owner # "cmc" /\ buf = [op |-> "board", ver |-> version]

CmcInv ==
    /\ CmcTypes /\ LifeInOrder /\ OneHolder
    /\ upset # "late" => SlotServesHolder /\ FlashKnown
    /\ InfoKept

-----------------------------------------------------------------------------
\* What a write sends, packet by packet.
LEMMA Sends ==
    /\ CmcLeaf!Body("section") = <<"start", "data">>
    /\ CmcLeaf!Body("boot") = <<"end">>
    /\ CmcLeaf!Body("badboot") = <<>>
    /\ Head(<<"start", "data">>) = "start" /\ Tail(<<"start", "data">>) = <<"data">>
    /\ Head(<<"data">>) = "data" /\ Tail(<<"data">>) = <<>>
    /\ Head(<<"end">>) = "end" /\ Tail(<<"end">>) = <<>>
    /\ <<"start", "data">> # <<>> /\ <<"data">> # <<>> /\ <<"end">> # <<>>
  <1>1. /\ CmcLeaf!Body("section") = <<"start", "data">>
        /\ CmcLeaf!Body("boot") = <<"end">>
        /\ CmcLeaf!Body("badboot") = <<>>
    BY DEF CmcLeaf!Body
  <1>2. Head(<<"start", "data">>) = "start" /\ Tail(<<"start", "data">>) = <<"data">>
    OBVIOUS
  <1>3. Head(<<"data">>) = "data" /\ Tail(<<"data">>) = <<>>
    OBVIOUS
  <1>4. Head(<<"end">>) = "end" /\ Tail(<<"end">>) = <<>>
    OBVIOUS
  <1>5. <<"start", "data">> # <<>> /\ <<"data">> # <<>> /\ <<"end">> # <<>>
    OBVIOUS
  <1> QED BY <1>1, <1>2, <1>3, <1>4, <1>5

\* The erasing comes first.
LEMMA EraseFirst ==
    ASSUME NEW k \in CmcLeaf!Kind
    PROVE  LET all == <<"erase">> \o CmcLeaf!Body(k) IN
           all # <<>> /\ Head(all) = "erase" /\ Tail(all) = CmcLeaf!Body(k)
  <1>1. /\ <<"start", "data">> \in Seq({"start", "data", "end"})
        /\ <<"end">> \in Seq({"start", "data", "end"})
        /\ <<>> \in Seq({"start", "data", "end"})
    OBVIOUS
  <1>2. CmcLeaf!Body(k) \in Seq({"start", "data", "end"})
    BY <1>1, Sends DEF CmcLeaf!Kind
  <1> QED BY <1>2

\* Rests are sent from their first packet on.
LEMMA RestsShrink ==
    ASSUME NEW k \in CmcLeaf!Kind, NEW r \in Rests(k), r # <<>>
    PROVE  /\ Tail(r) \in Rests(k)
           /\ \/ Head(r) = "erase" /\ Tail(r) = CmcLeaf!Body(k)
              \/ Head(r) = "start" /\ k = "section" /\ Tail(r) = <<"data">>
              \/ Head(r) = "data" /\ r = <<"data">> /\ k = "section" /\ Tail(r) = <<>>
              \/ Head(r) = "end" /\ k = "boot" /\ Tail(r) = <<>>
           /\ r = <<"data">> => Head(r) = "data"
  <1>1. CASE r = <<"erase">> \o CmcLeaf!Body(k)
    BY <1>1, EraseFirst, Sends DEF Rests
  <1>2. CASE r = CmcLeaf!Body(k)
    BY <1>2, Sends DEF Rests, CmcLeaf!Kind
  <1>3. CASE k = "section" /\ r = <<"data">>
    BY <1>3, Sends DEF Rests
  <1> QED BY <1>1, <1>2, <1>3 DEF Rests

\* What is planned.
LEMMA Planned ==
    ASSUME NEW k \in CmcLeaf!Kind
    PROVE  /\ <<>> \o CmcLeaf!Body(k) = CmcLeaf!Body(k)
           /\ {CmcLeaf!Body(k), <<"erase">> \o CmcLeaf!Body(k), <<>>} \subseteq Rests(k)
           /\ CmcLeaf!Body(k) # <<"data">>
           /\ CmcLeaf!Body(k) # <<>> => Head(CmcLeaf!Body(k)) \in {"start", "end"}
  <1>1. <<>> \o CmcLeaf!Body(k) = CmcLeaf!Body(k)
    BY Sends DEF CmcLeaf!Kind
  <1>2. CmcLeaf!Body(k) # <<>> => Head(CmcLeaf!Body(k)) \in {"start", "end"}
    BY Sends DEF CmcLeaf!Kind
  <1> QED BY <1>1, <1>2, Sends DEF Rests

\* Every action keeps the types.
LEMMA CmcTypesKept ==
    ASSUME CmcTypes, OneHolder, CmcLeaf!Next PROVE CmcTypes'
  <1> USE CmcAssumption DEF Thread, CmcLeaf!Thread, CmcLeaf!Goto, CmcLeaf!ctlVars, CmcLeaf!mbxVars, CmcLeaf!slotVars,
        CmcLeaf!scVars, CmcLeaf!drvVars, CmcLeaf!bdVars, CmcLeaf!callVars,
        CmcTypes, Places, RefreshPlaces, CmcLeaf!After, CmcLeaf!Push, CmcLeaf!Packet
  <1>1. CASE CmcLeaf!FetchFirmware
    BY <1>1 DEF CmcLeaf!FetchFirmware, CmcLeaf!ProbeStep
  <1>2. CASE CmcLeaf!Revoke
    BY <1>2 DEF CmcLeaf!Revoke, CmcLeaf!ProbeStep
  <1>3. CASE CmcLeaf!Stop
    BY <1>3 DEF CmcLeaf!Stop
  <1>4. CASE CmcLeaf!LoadImage
    BY <1>4 DEF CmcLeaf!LoadImage, CmcLeaf!ProbeStep
  <1>5. CASE CmcLeaf!Start
    BY <1>5 DEF CmcLeaf!Start, CmcLeaf!ProbeStep
  <1>6. CASE CmcLeaf!ProbeParts
    BY <1>6 DEF CmcLeaf!ProbeParts
  <1>7. CASE CmcLeaf!ProbeDone
    BY <1>7 DEF CmcLeaf!ProbeDone
  <1>8. CASE CmcLeaf!CtrlFails
    BY <1>8 DEF CmcLeaf!CtrlFails
  <1>9. CASE CmcLeaf!GateEvent
    BY <1>9 DEF CmcLeaf!GateEvent
  <1>10. CASE CmcLeaf!CmcRemove
    BY <1>10 DEF CmcLeaf!CmcRemove
  <1>11. CASE CmcLeaf!Open
    BY <1>11 DEF CmcLeaf!Open
  <1>12. CASE CmcLeaf!Close
    BY <1>12 DEF CmcLeaf!Close
  <1>13. CASE \E t \in Writer : CmcLeaf!Acquire(t)
    BY <1>13 DEF CmcLeaf!Acquire
  <1>14. CASE \E t \in Writer : CmcLeaf!Plan(t)
    BY <1>14 DEF CmcLeaf!Plan
  <1>15. CASE \E t \in Writer : CmcLeaf!Send(t)
    BY <1>15, RestsShrink DEF OneHolder, CmcLeaf!Send
  <1>16. CASE \E t \in Writer : CmcLeaf!SendStale(t)
    BY <1>16 DEF CmcLeaf!SendStale
  <1>17. CASE \E t \in Writer : CmcLeaf!SendsDone(t)
    BY <1>17 DEF CmcLeaf!SendsDone
  <1>18. CASE \E t \in Writer : CmcLeaf!Succeeds(t)
    BY <1>18 DEF CmcLeaf!Succeeds
  <1>19. CASE \E t \in Writer : CmcLeaf!Fails(t)
    BY <1>19 DEF CmcLeaf!Fails
  <1>20. CASE \E t \in Writer : CmcLeaf!Release(t)
    BY <1>20 DEF CmcLeaf!Release
  <1>21. CASE \E t \in Writer : CmcLeaf!Settle(t)
    BY <1>21 DEF CmcLeaf!Settle
  <1>22. CASE \E t \in Writer : CmcLeaf!Write(t)
    BY <1>22 DEF CmcLeaf!Write
  <1>23. CASE \E t \in Writer : CmcLeaf!AcquireFails(t)
    BY <1>23 DEF CmcLeaf!AcquireFails
  <1>24. CASE \E t \in Writer : CmcLeaf!TimesOut(t)
    BY <1>24 DEF CmcLeaf!TimesOut
  <1>25. CASE \E t \in Thread : CmcLeaf!BdLock(t)
    BY <1>25 DEF CmcLeaf!BdLock
  <1>26. CASE \E t \in Thread : CmcLeaf!BdAcquire(t)
    BY <1>26 DEF CmcLeaf!BdAcquire
  <1>27. CASE \E t \in Thread : CmcLeaf!BdSend(t)
    BY <1>27 DEF CmcLeaf!BdSend
  <1>28. CASE \E t \in Thread : CmcLeaf!BdReceive(t)
    BY <1>28 DEF CmcLeaf!BdReceive
  <1>29. CASE \E t \in Thread : CmcLeaf!BdFails(t)
    BY <1>29 DEF CmcLeaf!BdFails
  <1>30. CASE \E t \in Thread : CmcLeaf!BdRelease(t)
    BY <1>30 DEF CmcLeaf!BdRelease
  <1>31. CASE \E t \in Thread : CmcLeaf!BdAcquireFails(t)
    BY <1>31 DEF CmcLeaf!BdAcquireFails
  <1>32. CASE CmcLeaf!Take
    BY <1>32 DEF CmcLeaf!Take
  <1>33. CASE CmcLeaf!Answer
    BY <1>33 DEF CmcLeaf!Answer
  <1> QED
    BY <1>1, <1>2, <1>3, <1>4, <1>5, <1>6, <1>7, <1>8, <1>9, <1>10, <1>11, <1>12, <1>13, <1>14, <1>15, <1>16, <1>17, <1>18, <1>19, <1>20, <1>21, <1>22, <1>23, <1>24, <1>25, <1>26, <1>27, <1>28, <1>29, <1>30, <1>31, <1>32, <1>33
    DEF CmcLeaf!Next, CmcLeaf!Probe, CmcLeaf!WriteStep, CmcLeaf!Refresh

\* Probe and remove take their steps, and threads write while the leaf is up.
LEMMA LifeKept ==
    ASSUME CmcTypes, LifeInOrder, CmcLeaf!Next PROVE LifeInOrder'
  <1> USE CmcAssumption DEF Thread, CmcLeaf!Thread, CmcLeaf!Goto, CmcLeaf!ctlVars, CmcLeaf!mbxVars, CmcLeaf!slotVars,
        CmcLeaf!scVars, CmcLeaf!drvVars, CmcLeaf!bdVars, CmcLeaf!callVars,
        CmcTypes, LifeInOrder, Places, RefreshPlaces, CmcLeaf!After, CmcLeaf!Mishap
  <1>1. CASE CmcLeaf!FetchFirmware
    BY <1>1 DEF CmcLeaf!FetchFirmware, CmcLeaf!ProbeStep
  <1>2. CASE CmcLeaf!Revoke
    BY <1>2 DEF CmcLeaf!Revoke, CmcLeaf!ProbeStep
  <1>3. CASE CmcLeaf!Stop
    BY <1>3 DEF CmcLeaf!Stop
  <1>4. CASE CmcLeaf!LoadImage
    BY <1>4 DEF CmcLeaf!LoadImage, CmcLeaf!ProbeStep
  <1>5. CASE CmcLeaf!Start
    BY <1>5 DEF CmcLeaf!Start, CmcLeaf!ProbeStep
  <1>6. CASE CmcLeaf!ProbeParts
    BY <1>6 DEF CmcLeaf!ProbeParts
  <1>7. CASE CmcLeaf!ProbeDone
    BY <1>7 DEF CmcLeaf!ProbeDone
  <1>8. CASE CmcLeaf!CtrlFails
    BY <1>8 DEF CmcLeaf!CtrlFails
  <1>9. CASE CmcLeaf!GateEvent
    BY <1>9 DEF CmcLeaf!GateEvent
  <1>10. CASE CmcLeaf!CmcRemove
    BY <1>10 DEF CmcLeaf!CmcRemove
  <1>11. CASE CmcLeaf!Open
    BY <1>11 DEF CmcLeaf!Open
  <1>12. CASE CmcLeaf!Close
    BY <1>12 DEF CmcLeaf!Close
  <1>13. CASE \E t \in Writer : CmcLeaf!Acquire(t)
    BY <1>13 DEF CmcLeaf!Acquire
  <1>14. CASE \E t \in Writer : CmcLeaf!Plan(t)
    BY <1>14 DEF CmcLeaf!Plan
  <1>15. CASE \E t \in Writer : CmcLeaf!Send(t)
    BY <1>15 DEF CmcLeaf!Send
  <1>16. CASE \E t \in Writer : CmcLeaf!SendStale(t)
    BY <1>16 DEF CmcLeaf!SendStale
  <1>17. CASE \E t \in Writer : CmcLeaf!SendsDone(t)
    BY <1>17 DEF CmcLeaf!SendsDone
  <1>18. CASE \E t \in Writer : CmcLeaf!Succeeds(t)
    BY <1>18 DEF CmcLeaf!Succeeds
  <1>19. CASE \E t \in Writer : CmcLeaf!Fails(t)
    BY <1>19 DEF CmcLeaf!Fails
  <1>20. CASE \E t \in Writer : CmcLeaf!Release(t)
    BY <1>20 DEF CmcLeaf!Release
  <1>21. CASE \E t \in Writer : CmcLeaf!Settle(t)
    BY <1>21 DEF CmcLeaf!Settle
  <1>22. CASE \E t \in Writer : CmcLeaf!Write(t)
    BY <1>22 DEF CmcLeaf!Write
  <1>23. CASE \E t \in Writer : CmcLeaf!AcquireFails(t)
    BY <1>23 DEF CmcLeaf!AcquireFails
  <1>24. CASE \E t \in Writer : CmcLeaf!TimesOut(t)
    BY <1>24 DEF CmcLeaf!TimesOut
  <1>25. CASE \E t \in Thread : CmcLeaf!BdLock(t)
    BY <1>25 DEF CmcLeaf!BdLock
  <1>26. CASE \E t \in Thread : CmcLeaf!BdAcquire(t)
    BY <1>26 DEF CmcLeaf!BdAcquire
  <1>27. CASE \E t \in Thread : CmcLeaf!BdSend(t)
    BY <1>27 DEF CmcLeaf!BdSend
  <1>28. CASE \E t \in Thread : CmcLeaf!BdReceive(t)
    BY <1>28 DEF CmcLeaf!BdReceive
  <1>29. CASE \E t \in Thread : CmcLeaf!BdFails(t)
    BY <1>29 DEF CmcLeaf!BdFails
  <1>30. CASE \E t \in Thread : CmcLeaf!BdRelease(t)
    BY <1>30 DEF CmcLeaf!BdRelease
  <1>31. CASE \E t \in Thread : CmcLeaf!BdAcquireFails(t)
    BY <1>31 DEF CmcLeaf!BdAcquireFails
  <1>32. CASE CmcLeaf!Take
    BY <1>32 DEF CmcLeaf!Take
  <1>33. CASE CmcLeaf!Answer
    BY <1>33 DEF CmcLeaf!Answer
  <1> QED
    BY <1>1, <1>2, <1>3, <1>4, <1>5, <1>6, <1>7, <1>8, <1>9, <1>10, <1>11, <1>12, <1>13, <1>14, <1>15, <1>16, <1>17, <1>18, <1>19, <1>20, <1>21, <1>22, <1>23, <1>24, <1>25, <1>26, <1>27, <1>28, <1>29, <1>30, <1>31, <1>32, <1>33
    DEF CmcLeaf!Next, CmcLeaf!Probe, CmcLeaf!WriteStep, CmcLeaf!Refresh

\* The mailbox passes from one thread to another through its semaphore.
LEMMA HolderKept ==
    ASSUME CmcTypes, LifeInOrder, OneHolder, CmcLeaf!Next PROVE OneHolder'
  <1> USE CmcAssumption DEF Thread, CmcLeaf!Thread, CmcLeaf!Goto, CmcLeaf!ctlVars, CmcLeaf!mbxVars, CmcLeaf!slotVars,
        CmcLeaf!scVars, CmcLeaf!drvVars, CmcLeaf!bdVars, CmcLeaf!callVars,
        CmcTypes, OneHolder, HasMailbox, CmcLeaf!After, CmcLeaf!Push, Places, RefreshPlaces
  <1>1. CASE CmcLeaf!FetchFirmware
    BY <1>1 DEF CmcLeaf!FetchFirmware, CmcLeaf!ProbeStep
  <1>2. CASE CmcLeaf!Revoke
    BY <1>2 DEF CmcLeaf!Revoke, CmcLeaf!ProbeStep
  <1>3. CASE CmcLeaf!Stop
    BY <1>3 DEF CmcLeaf!Stop
  <1>4. CASE CmcLeaf!LoadImage
    BY <1>4 DEF CmcLeaf!LoadImage, CmcLeaf!ProbeStep
  <1>5. CASE CmcLeaf!Start
    BY <1>5 DEF CmcLeaf!Start, CmcLeaf!ProbeStep
  <1>6. CASE CmcLeaf!ProbeParts
    BY <1>6 DEF CmcLeaf!ProbeParts
  <1>7. CASE CmcLeaf!ProbeDone
    BY <1>7 DEF CmcLeaf!ProbeDone
  <1>8. CASE CmcLeaf!CtrlFails
    BY <1>8 DEF CmcLeaf!CtrlFails
  <1>9. CASE CmcLeaf!GateEvent
    BY <1>9 DEF CmcLeaf!GateEvent
  <1>10. CASE CmcLeaf!CmcRemove
    BY <1>10 DEF CmcLeaf!CmcRemove
  <1>11. CASE CmcLeaf!Open
    BY <1>11 DEF CmcLeaf!Open
  <1>12. CASE CmcLeaf!Close
    BY <1>12 DEF CmcLeaf!Close
  <1>13. CASE \E t \in Writer : CmcLeaf!Acquire(t)
    BY <1>13 DEF CmcLeaf!Acquire
  <1>14. CASE \E t \in Writer : CmcLeaf!Plan(t)
    <2>1. PICK t \in Writer : CmcLeaf!Plan(t)
      BY <1>14
    <2>2. PICK k \in CmcLeaf!Kind : k = kind[t]
      OBVIOUS
    <2>3. todo'[t] \in Rests(k) /\ \A s \in Writer \ {t} : todo'[s] = todo[s]
      BY <2>1, <2>2, Planned DEF CmcLeaf!Plan
    <2> QED BY <2>1, <2>2, <2>3 DEF CmcLeaf!Plan
  <1>15. CASE \E t \in Writer : CmcLeaf!Send(t)
    BY <1>15 DEF CmcLeaf!Send
  <1>16. CASE \E t \in Writer : CmcLeaf!SendStale(t)
    BY <1>16 DEF CmcLeaf!SendStale
  <1>17. CASE \E t \in Writer : CmcLeaf!SendsDone(t)
    BY <1>17 DEF CmcLeaf!SendsDone
  <1>18. CASE \E t \in Writer : CmcLeaf!Succeeds(t)
    BY <1>18, RestsShrink DEF CmcLeaf!Succeeds
  <1>19. CASE \E t \in Writer : CmcLeaf!Fails(t)
    BY <1>19 DEF CmcLeaf!Fails
  <1>20. CASE \E t \in Writer : CmcLeaf!Release(t)
    BY <1>20 DEF CmcLeaf!Release
  <1>21. CASE \E t \in Writer : CmcLeaf!Settle(t)
    BY <1>21 DEF CmcLeaf!Settle
  <1>22. CASE \E t \in Writer : CmcLeaf!Write(t)
    BY <1>22 DEF CmcLeaf!Write, LifeInOrder
  <1>23. CASE \E t \in Writer : CmcLeaf!AcquireFails(t)
    BY <1>23 DEF CmcLeaf!AcquireFails
  <1>24. CASE \E t \in Writer : CmcLeaf!TimesOut(t)
    BY <1>24 DEF CmcLeaf!TimesOut
  <1>25. CASE \E t \in Thread : CmcLeaf!BdLock(t)
    BY <1>25 DEF CmcLeaf!BdLock
  <1>26. CASE \E t \in Thread : CmcLeaf!BdAcquire(t)
    BY <1>26 DEF CmcLeaf!BdAcquire
  <1>27. CASE \E t \in Thread : CmcLeaf!BdSend(t)
    BY <1>27 DEF CmcLeaf!BdSend
  <1>28. CASE \E t \in Thread : CmcLeaf!BdReceive(t)
    BY <1>28 DEF CmcLeaf!BdReceive
  <1>29. CASE \E t \in Thread : CmcLeaf!BdFails(t)
    BY <1>29 DEF CmcLeaf!BdFails
  <1>30. CASE \E t \in Thread : CmcLeaf!BdRelease(t)
    BY <1>30 DEF CmcLeaf!BdRelease
  <1>31. CASE \E t \in Thread : CmcLeaf!BdAcquireFails(t)
    BY <1>31 DEF CmcLeaf!BdAcquireFails
  <1>32. CASE CmcLeaf!Take
    BY <1>32 DEF CmcLeaf!Take
  <1>33. CASE CmcLeaf!Answer
    BY <1>33 DEF CmcLeaf!Answer
  <1> QED
    BY <1>1, <1>2, <1>3, <1>4, <1>5, <1>6, <1>7, <1>8, <1>9, <1>10, <1>11, <1>12, <1>13, <1>14, <1>15, <1>16, <1>17, <1>18, <1>19, <1>20, <1>21, <1>22, <1>23, <1>24, <1>25, <1>26, <1>27, <1>28, <1>29, <1>30, <1>31, <1>32, <1>33
    DEF CmcLeaf!Next, CmcLeaf!Probe, CmcLeaf!WriteStep, CmcLeaf!Refresh

\* As long as no packet is answered late, the holder's packet is the one in the slot.
LEMMA SlotKept ==
    ASSUME CmcTypes, LifeInOrder, OneHolder, upset # "late" => SlotServesHolder, upset' # "late", CmcLeaf!Next PROVE SlotServesHolder'
  <1> USE CmcAssumption DEF Thread, CmcLeaf!Thread, CmcLeaf!Goto, CmcLeaf!ctlVars, CmcLeaf!mbxVars, CmcLeaf!slotVars,
        CmcLeaf!scVars, CmcLeaf!drvVars, CmcLeaf!bdVars, CmcLeaf!callVars,
        CmcTypes, OneHolder, HasMailbox, SlotServesHolder, CmcLeaf!After, CmcLeaf!Push, CmcLeaf!Mishap, Places, RefreshPlaces, CmcLeaf!Packet
  <1>1. CASE CmcLeaf!FetchFirmware
    BY <1>1 DEF CmcLeaf!FetchFirmware, CmcLeaf!ProbeStep
  <1>2. CASE CmcLeaf!Revoke
    BY <1>2 DEF CmcLeaf!Revoke, CmcLeaf!ProbeStep
  <1>3. CASE CmcLeaf!Stop
    BY <1>3 DEF CmcLeaf!Stop
  <1>4. CASE CmcLeaf!LoadImage
    BY <1>4 DEF CmcLeaf!LoadImage, CmcLeaf!ProbeStep
  <1>5. CASE CmcLeaf!Start
    BY <1>5 DEF CmcLeaf!Start, CmcLeaf!ProbeStep
  <1>6. CASE CmcLeaf!ProbeParts
    BY <1>6 DEF CmcLeaf!ProbeParts, LifeInOrder
  <1>7. CASE CmcLeaf!ProbeDone
    BY <1>7 DEF CmcLeaf!ProbeDone
  <1>8. CASE CmcLeaf!CtrlFails
    BY <1>8 DEF CmcLeaf!CtrlFails
  <1>9. CASE CmcLeaf!GateEvent
    BY <1>9 DEF CmcLeaf!GateEvent
  <1>10. CASE CmcLeaf!CmcRemove
    BY <1>10 DEF CmcLeaf!CmcRemove
  <1>11. CASE CmcLeaf!Open
    BY <1>11 DEF CmcLeaf!Open
  <1>12. CASE CmcLeaf!Close
    BY <1>12 DEF CmcLeaf!Close
  <1>13. CASE \E t \in Writer : CmcLeaf!Acquire(t)
    BY <1>13 DEF CmcLeaf!Acquire
  <1>14. CASE \E t \in Writer : CmcLeaf!Plan(t)
    BY <1>14 DEF CmcLeaf!Plan
  <1>15. CASE \E t \in Writer : CmcLeaf!Send(t)
    BY <1>15, RestsShrink DEF CmcLeaf!Send
  <1>16. CASE \E t \in Writer : CmcLeaf!SendStale(t)
    BY <1>16 DEF CmcLeaf!SendStale
  <1>17. CASE \E t \in Writer : CmcLeaf!SendsDone(t)
    BY <1>17 DEF CmcLeaf!SendsDone
  <1>18. CASE \E t \in Writer : CmcLeaf!Succeeds(t)
    BY <1>18 DEF CmcLeaf!Succeeds
  <1>19. CASE \E t \in Writer : CmcLeaf!Fails(t)
    BY <1>19 DEF CmcLeaf!Fails
  <1>20. CASE \E t \in Writer : CmcLeaf!Release(t)
    BY <1>20 DEF CmcLeaf!Release
  <1>21. CASE \E t \in Writer : CmcLeaf!Settle(t)
    BY <1>21 DEF CmcLeaf!Settle
  <1>22. CASE \E t \in Writer : CmcLeaf!Write(t)
    BY <1>22 DEF CmcLeaf!Write
  <1>23. CASE \E t \in Writer : CmcLeaf!AcquireFails(t)
    BY <1>23 DEF CmcLeaf!AcquireFails
  <1>24. CASE \E t \in Writer : CmcLeaf!TimesOut(t)
    BY <1>24 DEF CmcLeaf!TimesOut
  <1>25. CASE \E t \in Thread : CmcLeaf!BdLock(t)
    BY <1>25 DEF CmcLeaf!BdLock
  <1>26. CASE \E t \in Thread : CmcLeaf!BdAcquire(t)
    BY <1>26 DEF CmcLeaf!BdAcquire
  <1>27. CASE \E t \in Thread : CmcLeaf!BdSend(t)
    BY <1>27 DEF CmcLeaf!BdSend
  <1>28. CASE \E t \in Thread : CmcLeaf!BdReceive(t)
    BY <1>28 DEF CmcLeaf!BdReceive
  <1>29. CASE \E t \in Thread : CmcLeaf!BdFails(t)
    BY <1>29 DEF CmcLeaf!BdFails
  <1>30. CASE \E t \in Thread : CmcLeaf!BdRelease(t)
    BY <1>30 DEF CmcLeaf!BdRelease
  <1>31. CASE \E t \in Thread : CmcLeaf!BdAcquireFails(t)
    BY <1>31 DEF CmcLeaf!BdAcquireFails
  <1>32. CASE CmcLeaf!Take
    BY <1>32 DEF CmcLeaf!Take
  <1>33. CASE CmcLeaf!Answer
    BY <1>33 DEF CmcLeaf!Answer, CmcLeaf!Effect
  <1> QED
    BY <1>1, <1>2, <1>3, <1>4, <1>5, <1>6, <1>7, <1>8, <1>9, <1>10, <1>11, <1>12, <1>13, <1>14, <1>15, <1>16, <1>17, <1>18, <1>19, <1>20, <1>21, <1>22, <1>23, <1>24, <1>25, <1>26, <1>27, <1>28, <1>29, <1>30, <1>31, <1>32, <1>33
    DEF CmcLeaf!Next, CmcLeaf!Probe, CmcLeaf!WriteStep, CmcLeaf!Refresh

\* What is known of the flash stays true with every packet that is answered in time.
LEMMA FlashKept ==
    ASSUME CmcTypes, OneHolder, upset # "late" => SlotServesHolder /\ FlashKnown, upset' # "late", CmcLeaf!Next PROVE FlashKnown'
  <1> USE CmcAssumption DEF Thread, CmcLeaf!Thread, CmcLeaf!Goto, CmcLeaf!ctlVars, CmcLeaf!mbxVars, CmcLeaf!slotVars,
        CmcLeaf!scVars, CmcLeaf!drvVars, CmcLeaf!bdVars, CmcLeaf!callVars,
        CmcTypes, OneHolder, HasMailbox, SlotServesHolder, FlashKnown, CmcLeaf!After, CmcLeaf!Push, CmcLeaf!Mishap, Places, RefreshPlaces
  <1>1. CASE CmcLeaf!FetchFirmware
    BY <1>1 DEF CmcLeaf!FetchFirmware, CmcLeaf!ProbeStep
  <1>2. CASE CmcLeaf!Revoke
    BY <1>2 DEF CmcLeaf!Revoke, CmcLeaf!ProbeStep
  <1>3. CASE CmcLeaf!Stop
    BY <1>3 DEF CmcLeaf!Stop
  <1>4. CASE CmcLeaf!LoadImage
    BY <1>4 DEF CmcLeaf!LoadImage, CmcLeaf!ProbeStep
  <1>5. CASE CmcLeaf!Start
    BY <1>5 DEF CmcLeaf!Start, CmcLeaf!ProbeStep
  <1>6. CASE CmcLeaf!ProbeParts
    BY <1>6 DEF CmcLeaf!ProbeParts
  <1>7. CASE CmcLeaf!ProbeDone
    BY <1>7 DEF CmcLeaf!ProbeDone
  <1>8. CASE CmcLeaf!CtrlFails
    BY <1>8 DEF CmcLeaf!CtrlFails
  <1>9. CASE CmcLeaf!GateEvent
    BY <1>9 DEF CmcLeaf!GateEvent
  <1>10. CASE CmcLeaf!CmcRemove
    BY <1>10 DEF CmcLeaf!CmcRemove
  <1>11. CASE CmcLeaf!Open
    BY <1>11 DEF CmcLeaf!Open
  <1>12. CASE CmcLeaf!Close
    BY <1>12 DEF CmcLeaf!Close
  <1>13. CASE \E t \in Writer : CmcLeaf!Acquire(t)
    BY <1>13 DEF CmcLeaf!Acquire
  <1>14. CASE \E t \in Writer : CmcLeaf!Plan(t)
    <2>1. PICK t \in Writer : CmcLeaf!Plan(t)
      BY <1>14
    <2>2. PICK k \in CmcLeaf!Kind : k = kind[t]
      OBVIOUS
    <2>3. /\ todo'[t] # <<"data">>
          /\ todo'[t] # <<>> => Head(todo'[t]) = "erase" \/ blank
      BY <2>1, <2>2, Planned, EraseFirst, Sends DEF CmcLeaf!Plan
    <2>4. \A s \in Writer \ {t} : todo'[s] = todo[s]
      BY <2>1 DEF CmcLeaf!Plan
    <2> QED BY <2>1, <2>3, <2>4 DEF CmcLeaf!Plan
  <1>15. CASE \E t \in Writer : CmcLeaf!Send(t)
    BY <1>15, RestsShrink, Sends DEF CmcLeaf!Send, CmcLeaf!MarkInstalled
  <1>16. CASE \E t \in Writer : CmcLeaf!SendStale(t)
    BY <1>16, RestsShrink DEF CmcLeaf!SendStale, CmcLeaf!MarkInstalled
  <1>17. CASE \E t \in Writer : CmcLeaf!SendsDone(t)
    BY <1>17 DEF CmcLeaf!SendsDone
  <1>18. CASE \E t \in Writer : CmcLeaf!Succeeds(t)
    <2>1. PICK t \in Writer : CmcLeaf!Succeeds(t)
      BY <1>18
    <2>2. PICK k \in CmcLeaf!Kind : k = kind[t]
      OBVIOUS
    <2>3. PICK r \in Rests(k) : r = todo[t] /\ r # <<>>
      BY <2>1, <2>2 DEF CmcLeaf!Succeeds
    <2>4. /\ Head(r) = "erase" => blank /\ last = [op |-> "erase", by |-> t]
          /\ Head(r) = "start" => blank /\ last = [op |-> "start", by |-> t]
          /\ todo'[t] = Tail(r) /\ cmcPc'[t] = "send"
          /\ \A s \in Writer \ {t} : todo'[s] = todo[s] /\ cmcPc'[s] = cmcPc[s]
          /\ \A s \in Writer \ {t} : ~ HasMailbox(s)
          /\ erased' = IF Head(r) = "erase" THEN TRUE ELSE erased
          /\ UNCHANGED <<blank, last, owner, err, upset>>
      BY <2>1, <2>3 DEF CmcLeaf!Succeeds
    <2>5. CASE Head(r) = "erase"
      <3>1. todo'[t] = CmcLeaf!Body(k)
        BY <2>4, <2>5, RestsShrink, <2>3
      <3> QED BY <2>4, <2>5, <3>1, Planned
    <2>6. CASE Head(r) = "start"
      BY <2>4, <2>6, RestsShrink, Planned, Sends
    <2>7. CASE Head(r) \notin {"erase", "start"}
      <3>1. todo'[t] = <<>>
        BY <2>4, <2>7, RestsShrink, <2>3
      <3>2. UNCHANGED <<erased, blank>>
        BY <2>4, <2>7
      <3>3. todo'[t] # <<"data">>
        BY <3>1, Sends
      <3> QED BY <2>4, <3>1, <3>2, <3>3
    <2> QED BY <2>5, <2>6, <2>7
  <1>19. CASE \E t \in Writer : CmcLeaf!Fails(t)
    BY <1>19 DEF CmcLeaf!Fails
  <1>20. CASE \E t \in Writer : CmcLeaf!Release(t)
    BY <1>20 DEF CmcLeaf!Release
  <1>21. CASE \E t \in Writer : CmcLeaf!Settle(t)
    BY <1>21 DEF CmcLeaf!Settle
  <1>22. CASE \E t \in Writer : CmcLeaf!Write(t)
    BY <1>22 DEF CmcLeaf!Write
  <1>23. CASE \E t \in Writer : CmcLeaf!AcquireFails(t)
    BY <1>23 DEF CmcLeaf!AcquireFails
  <1>24. CASE \E t \in Writer : CmcLeaf!TimesOut(t)
    BY <1>24 DEF CmcLeaf!TimesOut
  <1>25. CASE \E t \in Thread : CmcLeaf!BdLock(t)
    BY <1>25 DEF CmcLeaf!BdLock
  <1>26. CASE \E t \in Thread : CmcLeaf!BdAcquire(t)
    BY <1>26 DEF CmcLeaf!BdAcquire
  <1>27. CASE \E t \in Thread : CmcLeaf!BdSend(t)
    BY <1>27 DEF CmcLeaf!BdSend
  <1>28. CASE \E t \in Thread : CmcLeaf!BdReceive(t)
    BY <1>28 DEF CmcLeaf!BdReceive
  <1>29. CASE \E t \in Thread : CmcLeaf!BdFails(t)
    BY <1>29 DEF CmcLeaf!BdFails
  <1>30. CASE \E t \in Thread : CmcLeaf!BdRelease(t)
    BY <1>30 DEF CmcLeaf!BdRelease
  <1>31. CASE \E t \in Thread : CmcLeaf!BdAcquireFails(t)
    BY <1>31 DEF CmcLeaf!BdAcquireFails
  <1>32. CASE CmcLeaf!Take
    BY <1>32 DEF CmcLeaf!Take
  <1>33. CASE CmcLeaf!Answer
    BY <1>33, RestsShrink, Sends DEF CmcLeaf!Answer, CmcLeaf!Effect
  <1> QED
    BY <1>1, <1>2, <1>3, <1>4, <1>5, <1>6, <1>7, <1>8, <1>9, <1>10, <1>11, <1>12, <1>13, <1>14, <1>15, <1>16, <1>17, <1>18, <1>19, <1>20, <1>21, <1>22, <1>23, <1>24, <1>25, <1>26, <1>27, <1>28, <1>29, <1>30, <1>31, <1>32, <1>33
    DEF CmcLeaf!Next, CmcLeaf!Probe, CmcLeaf!WriteStep, CmcLeaf!Refresh

\* The information read last is that of the firmware that runs, or is going to be read again.
LEMMA InfoStaysKept ==
    ASSUME CmcTypes, LifeInOrder, OneHolder, InfoKept, CmcLeaf!Next PROVE InfoKept'
  <1> USE CmcAssumption DEF Thread, CmcLeaf!Thread, CmcLeaf!Goto, CmcLeaf!ctlVars, CmcLeaf!mbxVars, CmcLeaf!slotVars,
        CmcLeaf!scVars, CmcLeaf!drvVars, CmcLeaf!bdVars, CmcLeaf!callVars,
        CmcTypes, LifeInOrder, OneHolder, HasMailbox, InfoKept, Follows, NoEndInSlot, CmcLeaf!NeedRefresh,
        CmcLeaf!After, CmcLeaf!Push, Places, RefreshPlaces, CmcLeaf!Packet
  <1>1. CASE CmcLeaf!FetchFirmware
    BY <1>1 DEF CmcLeaf!FetchFirmware, CmcLeaf!ProbeStep
  <1>2. CASE CmcLeaf!Revoke
    BY <1>2 DEF CmcLeaf!Revoke, CmcLeaf!ProbeStep
  <1>3. CASE CmcLeaf!Stop
    BY <1>3 DEF CmcLeaf!Stop
  <1>4. CASE CmcLeaf!LoadImage
    BY <1>4 DEF CmcLeaf!LoadImage, CmcLeaf!ProbeStep
  <1>5. CASE CmcLeaf!Start
    BY <1>5 DEF CmcLeaf!Start, CmcLeaf!ProbeStep
  <1>6. CASE CmcLeaf!ProbeParts
    BY <1>6 DEF CmcLeaf!ProbeParts
  <1>7. CASE CmcLeaf!ProbeDone
    BY <1>7 DEF CmcLeaf!ProbeDone
  <1>8. CASE CmcLeaf!CtrlFails
    BY <1>8 DEF CmcLeaf!CtrlFails
  <1>9. CASE CmcLeaf!GateEvent
    BY <1>9 DEF CmcLeaf!GateEvent
  <1>10. CASE CmcLeaf!CmcRemove
    BY <1>10 DEF CmcLeaf!CmcRemove
  <1>11. CASE CmcLeaf!Open
    BY <1>11 DEF CmcLeaf!Open
  <1>12. CASE CmcLeaf!Close
    BY <1>12 DEF CmcLeaf!Close
  <1>13. CASE \E t \in Writer : CmcLeaf!Acquire(t)
    BY <1>13 DEF CmcLeaf!Acquire
  <1>14. CASE \E t \in Writer : CmcLeaf!Plan(t)
    BY <1>14 DEF CmcLeaf!Plan
  <1>15. CASE \E t \in Writer : CmcLeaf!Send(t)
    BY <1>15, RestsShrink DEF CmcLeaf!Send
  <1>16. CASE \E t \in Writer : CmcLeaf!SendStale(t)
    BY <1>16 DEF CmcLeaf!SendStale
  <1>17. CASE \E t \in Writer : CmcLeaf!SendsDone(t)
    BY <1>17 DEF CmcLeaf!SendsDone
  <1>18. CASE \E t \in Writer : CmcLeaf!Succeeds(t)
    BY <1>18, RestsShrink DEF CmcLeaf!Succeeds
  <1>19. CASE \E t \in Writer : CmcLeaf!Fails(t)
    BY <1>19 DEF CmcLeaf!Fails
  <1>20. CASE \E t \in Writer : CmcLeaf!Release(t)
    BY <1>20 DEF CmcLeaf!Release
  <1>21. CASE \E t \in Writer : CmcLeaf!Settle(t)
    BY <1>21 DEF CmcLeaf!Settle
  <1>22. CASE \E t \in Writer : CmcLeaf!Write(t)
    BY <1>22 DEF CmcLeaf!Write
  <1>23. CASE \E t \in Writer : CmcLeaf!AcquireFails(t)
    BY <1>23 DEF CmcLeaf!AcquireFails
  <1>24. CASE \E t \in Writer : CmcLeaf!TimesOut(t)
    BY <1>24 DEF CmcLeaf!TimesOut
  <1>25. CASE \E t \in Thread : CmcLeaf!BdLock(t)
    BY <1>25 DEF CmcLeaf!BdLock
  <1>26. CASE \E t \in Thread : CmcLeaf!BdAcquire(t)
    BY <1>26 DEF CmcLeaf!BdAcquire
  <1>27. CASE \E t \in Thread : CmcLeaf!BdSend(t)
    BY <1>27 DEF CmcLeaf!BdSend
  <1>28. CASE \E t \in Thread : CmcLeaf!BdReceive(t)
    BY <1>28 DEF CmcLeaf!BdReceive
  <1>29. CASE \E t \in Thread : CmcLeaf!BdFails(t)
    BY <1>29 DEF CmcLeaf!BdFails
  <1>30. CASE \E t \in Thread : CmcLeaf!BdRelease(t)
    BY <1>30 DEF CmcLeaf!BdRelease
  <1>31. CASE \E t \in Thread : CmcLeaf!BdAcquireFails(t)
    BY <1>31 DEF CmcLeaf!BdAcquireFails
  <1>32. CASE CmcLeaf!Take
    BY <1>32 DEF CmcLeaf!Take
  <1>33. CASE CmcLeaf!Answer
    BY <1>33 DEF CmcLeaf!Answer, CmcLeaf!Effect
  <1> QED
    BY <1>1, <1>2, <1>3, <1>4, <1>5, <1>6, <1>7, <1>8, <1>9, <1>10, <1>11, <1>12, <1>13, <1>14, <1>15, <1>16, <1>17, <1>18, <1>19, <1>20, <1>21, <1>22, <1>23, <1>24, <1>25, <1>26, <1>27, <1>28, <1>29, <1>30, <1>31, <1>32, <1>33
    DEF CmcLeaf!Next, CmcLeaf!Probe, CmcLeaf!WriteStep, CmcLeaf!Refresh

\* Together, for the CMC.
LEMMA CmcStep ==
    ASSUME CmcInv, CmcLeaf!Next PROVE CmcInv'
  <1>1. CmcTypes' /\ LifeInOrder' /\ OneHolder' /\ InfoKept'
    BY CmcTypesKept, LifeKept, HolderKept, InfoStaysKept DEF CmcInv
  <1>2. ASSUME upset' # "late" PROVE SlotServesHolder' /\ FlashKnown'
    BY <1>2, SlotKept, FlashKept DEF CmcInv
  <1> QED BY <1>1, <1>2 DEF CmcInv

\* The other drivers leave the CMC alone.
LEMMA CmcAlone ==
    ASSUME CmcInv, UNCHANGED cmcVars PROVE CmcInv'
  <1> USE DEF cmcVars
  <1>1. CmcTypes' /\ LifeInOrder'
    BY DEF CmcInv, CmcTypes, LifeInOrder
  <1>2. OneHolder'
    BY DEF CmcInv, OneHolder, HasMailbox
  <1>3. InfoKept'
    BY DEF CmcInv, InfoKept, Follows, CmcLeaf!NeedRefresh, NoEndInSlot
  <1>4. (upset # "late" => SlotServesHolder)'
    BY DEF CmcInv, SlotServesHolder
  <1>5. (upset # "late" => FlashKnown)'
    BY DEF CmcInv, FlashKnown
  <1> QED BY <1>1, <1>2, <1>3, <1>4, <1>5 DEF CmcInv

\* What the leaf's probe starts from.
LEMMA CmcInit ==
    ASSUME CmcLeaf!Init PROVE CmcInv
  <1> USE CmcAssumption DEF CmcLeaf!Init, Thread, CmcLeaf!Thread
  <1>1. CmcTypes
    BY DEF CmcTypes, Places, CmcLeaf!Kind
  <1>2. LifeInOrder
    BY DEF LifeInOrder, RefreshPlaces
  <1>3. OneHolder
    BY DEF OneHolder, HasMailbox
  <1>4. InfoKept
    BY DEF InfoKept
  <1>5. SlotServesHolder /\ FlashKnown
    BY DEF SlotServesHolder, FlashKnown
  <1> QED BY <1>1, <1>2, <1>3, <1>4, <1>5 DEF CmcInv

\* A step of the whole is one of the CMC or leaves it alone.
LEMMA CmcMovesOrNot ==
    ASSUME [Next]_vars PROVE CmcLeaf!Next \/ UNCHANGED cmcVars
  BY DEF Next, vars, FlashMoves, CmcMoves, ClocksMove, IcapMoves, LeavesMove

\* cmc-ctrl.c:95-179.  The firmware of the controller changes while it is in
\* reset and without access only.
LEMMA LoadStep ==
    ASSUME CmcInv, CmcLeaf!Next, image' # image PROVE mb = "reset" /\ ~ ulp
  <1>1. CmcLeaf!LoadImage
    BY DEF CmcLeaf!Next, CmcLeaf!Probe, CmcLeaf!FetchFirmware, CmcLeaf!Revoke, CmcLeaf!Stop,
           CmcLeaf!Start, CmcLeaf!ProbeParts, CmcLeaf!ProbeDone, CmcLeaf!CtrlFails,
           CmcLeaf!GateEvent, CmcLeaf!CmcRemove, CmcLeaf!Open, CmcLeaf!Close, CmcLeaf!Write,
           CmcLeaf!WriteStep, CmcLeaf!Acquire, CmcLeaf!Plan, CmcLeaf!Send, CmcLeaf!SendStale,
           CmcLeaf!SendsDone, CmcLeaf!Succeeds, CmcLeaf!Fails, CmcLeaf!Release, CmcLeaf!Settle,
           CmcLeaf!AcquireFails, CmcLeaf!TimesOut, CmcLeaf!Refresh, CmcLeaf!BdLock,
           CmcLeaf!BdAcquire, CmcLeaf!BdSend, CmcLeaf!BdReceive, CmcLeaf!BdFails,
           CmcLeaf!BdRelease, CmcLeaf!BdAcquireFails, CmcLeaf!Take, CmcLeaf!Answer,
           CmcLeaf!ctlVars, CmcLeaf!ProbeStep
  <1> QED BY <1>1 DEF CmcInv, LifeInOrder, CmcLeaf!LoadImage, CmcLeaf!ProbeStep

\* cmc-mailbox.c, cmc-sc.c.  A packet is finished when the controller answers.
LEMMA OnlyAnswers ==
    ASSUME CmcLeaf!Next, last' # last PROVE CmcLeaf!Answer
  BY DEF CmcLeaf!Next, CmcLeaf!Probe, CmcLeaf!FetchFirmware, CmcLeaf!Revoke, CmcLeaf!Stop,
         CmcLeaf!Start, CmcLeaf!ProbeParts, CmcLeaf!ProbeDone, CmcLeaf!CtrlFails,
         CmcLeaf!GateEvent, CmcLeaf!CmcRemove, CmcLeaf!Open, CmcLeaf!Close, CmcLeaf!Write,
         CmcLeaf!WriteStep, CmcLeaf!Acquire, CmcLeaf!Plan, CmcLeaf!Send, CmcLeaf!SendStale,
         CmcLeaf!SendsDone, CmcLeaf!Succeeds, CmcLeaf!Fails, CmcLeaf!Release, CmcLeaf!Settle,
         CmcLeaf!AcquireFails, CmcLeaf!TimesOut, CmcLeaf!Refresh, CmcLeaf!BdLock,
         CmcLeaf!BdAcquire, CmcLeaf!BdSend, CmcLeaf!BdReceive, CmcLeaf!BdFails,
         CmcLeaf!BdRelease, CmcLeaf!BdAcquireFails, CmcLeaf!Take, CmcLeaf!LoadImage,
         CmcLeaf!scVars, CmcLeaf!ProbeStep

\* cmc-sc.c:89-246.  What the controller finishes of a section goes into an
\* erased flash, and its data come after its start.
LEMMA SectionStep ==
    ASSUME CmcInv, CmcLeaf!Next, upset # "late", last' # last
    PROVE  /\ last'.op \in {"start", "data"} => blank
           /\ last'.op = "data" => last = [op |-> "start", by |-> last'.by]
  <1>1. CmcLeaf!Answer
    BY OnlyAnswers
  <1>2. last' = buf /\ owner = "cmc"
    BY <1>1 DEF CmcInv, OneHolder, SlotServesHolder, CmcLeaf!Answer
  <1>3. PICK t \in Thread : cmcPc[t] \in {"wait", "bdwait"}
    BY <1>2 DEF CmcInv, SlotServesHolder
  <1>4. CASE cmcPc[t] = "bdwait"
    BY <1>2, <1>4 DEF CmcInv, SlotServesHolder
  <1>5. CASE cmcPc[t] = "wait"
    <2>1. t \in Writer
      BY <1>5, CmcAssumption DEF CmcInv, CmcTypes, RefreshPlaces, Thread, CmcLeaf!Thread
    <2>2. last' = [op |-> Head(todo[t]), by |-> t]
      BY <1>2, <1>5, <2>1 DEF CmcInv, SlotServesHolder
    <2>3. PICK k \in CmcLeaf!Kind : k = kind[t]
      BY <2>1 DEF CmcInv, CmcTypes
    <2>4. PICK r \in Rests(k) : r = todo[t] /\ r # <<>>
      BY <1>5, <2>1, <2>3 DEF CmcInv, OneHolder
    <2>5. Head(r) = "data" => todo[t] = <<"data">>
      BY <2>4, RestsShrink
    <2> QED BY <1>2, <1>5, <2>1, <2>2, <2>4, <2>5 DEF CmcInv, FlashKnown
  <1> QED BY <1>3, <1>4, <1>5

\* cmc-bdinfo.c.  Nobody is going to read the information again when nobody writes.
LEMMA InfoRight ==
    ASSUME CmcInv PROVE CmcLeaf!InfoFollowsBoot
  BY DEF CmcInv, InfoKept, Follows, CmcLeaf!InfoFollowsBoot, Thread, CmcLeaf!Thread

\* cmc-sc.c:89-246, cmc-ctrl.c:95-179.  As long as no packet was answered late,
\* firmware of the SC is written whole and into an erased flash; late answers or
\* not, the board information follows it, and the firmware of the controller is
\* loaded in reset; for any number of threads and writes.
THEOREM FirmwareStaysSound == FairSpec => FirmwareSound
  <1>1. Init => CmcInv
    BY CmcInit DEF Init
  <1>2. CmcInv /\ [Next]_vars => CmcInv'
    BY CmcStep, CmcAlone, CmcMovesOrNot
  <1>3. CmcInv /\ [Next]_vars =>
           [upset # "late" /\ last' # last /\ last'.op \in {"start", "data"} => blank]_(CmcLeaf!vars)
    BY SectionStep, CmcMovesOrNot DEF cmcVars
  <1>4. CmcInv /\ [Next]_vars =>
           [upset # "late" /\ last' # last /\ last'.op = "data"
                => last = [op |-> "start", by |-> last'.by]]_(CmcLeaf!vars)
    BY SectionStep, CmcMovesOrNot DEF cmcVars
  <1>5. CmcInv /\ [Next]_vars => [image' # image => mb = "reset" /\ ~ ulp]_(CmcLeaf!vars)
    BY LoadStep, CmcMovesOrNot DEF cmcVars
  <1>6. CmcInv => CmcLeaf!InfoFollowsBoot
    BY InfoRight
  <1> QED
    BY <1>1, <1>2, <1>3, <1>4, <1>5, <1>6, PTL
    DEF FairSpec, FirmwareSound, CmcLeaf!WrittenErased, CmcLeaf!SectionsWhole,
        CmcLeaf!LoadedInReset

-----------------------------------------------------------------------------
(* The bitstream: mgmt/xrt-mgr.c, lib/xleaf/icap.c                          *)

\* A file a download goes on with.
Good(x) ==
    LET s == Hwicap!Section(x, "bitstream") IN
    s.err = "ok" /\ Hwicap!Fits(x, s) /\ x.head.bits % Word = 0

\* The byte of the file the k-th word of the bitstream is at.
WordAt(k) == Hwicap!Bitstream.offset + Hwicap!HeaderLength(file.head) + Word * (k - 1)

\* How a download goes on: only with a good file, never past its end, and from
\* one load to the next when the FIFO is empty.
DownloadInOrder ==
    /\ leaf \in {"new", "up", "none"} /\ file \in File /\ icapCalls \in Nat
    /\ icapPc \in {"idle", "buffer", "vacancy", "write", "commit", "wait"}
    /\ leaf = "new" => /\ icapCalls = 0 /\ icapRet = "none"
                       /\ icapPc \in {"idle", "write", "commit", "wait"}
    /\ leaf = "none" => icapPc = "idle"
    /\ leaf = "up" /\ icapPc # "idle" => icapCalls > 0 /\ Good(file) /\ fedTo <= Hwicap!Bits
    /\ leaf = "up" /\ icapPc = "wait" => fedTo = Hwicap!Bits
    /\ leaf = "up" /\ icapPc = "vacancy" => fedTo < Hwicap!Bits
    /\ icapCalls > 0 /\ fedTo > 0 => Good(file) /\ fedTo <= Hwicap!Bits
    /\ icapPc = "commit" /\ ~ running => fifo = <<>>
    /\ icapPc = "idle" /\ icapRet = "ok" =>
           leaf = "up" /\ icapCalls > 0 /\ Good(file) /\ fedTo = Hwicap!Bits

\* The driver is behind word a of the bitstream, on its way to word u, for which
\* there is room.
RoomFor(a, u) ==
    /\ fedTo = Word * a /\ upto = Word * u /\ Len(fifo) <= Depth
    /\ icapPc = "write" => a <= u /\ Len(fifo) + (u - a) <= Depth
    /\ icapPc = "write" /\ leaf = "up" => upto <= Hwicap!Bits

\* The first n words in the FIFO are of earlier downloads.
OldFirst(n) ==
    /\ n <= Len(fifo) /\ \A i \in 1 .. n : fifo[i].call # icapCalls
    /\ n > 0 => fed = <<>>
    /\ \A i \in 1 .. Len(fifo) : fifo[i].call <= icapCalls

\* The others and those the port took are the first a of this one, in order.
FirstWords(a, n) ==
    icapCalls > 0 =>
        /\ Len(fed) + (Len(fifo) - n) = a
        /\ \A i \in n + 1 .. Len(fifo) :
               fifo[i] = [call |-> icapCalls, byte |-> WordAt(Len(fed) + (i - n))]
        /\ \A k \in 1 .. Len(fed) : fed[k] = WordAt(k)
        /\ \/ icapPc \in {"buffer", "vacancy", "wait"}
           \/ icapPc = "idle" /\ icapRet = "ok"
           => Len(fed) = a

FeedAt(a, u, n) == RoomFor(a, u) /\ OldFirst(n) /\ FirstWords(a, n)

Feed == \E a, u, n \in Nat : FeedAt(a, u, n)

IcapTypes ==
    fifo \in Seq([call : Nat, byte : Nat]) /\ fed \in Seq(Nat)

IcapInv == DownloadInOrder /\ IcapTypes /\ Feed

\* Counting in words.
LEMMA Words ==
    ASSUME NEW a \in Nat
    PROVE  /\ Word * a \in Nat /\ Word * a + Word = Word * (a + 1)
           /\ \A b \in Nat : Word * a + b * Word = Word * (a + b)
           /\ \A b \in Nat : a < b <=> Word * a < Word * b
           /\ \A b \in Nat : a = b <=> Word * a = Word * b
           /\ (Word * a) \div Word = a
           /\ a > 0 <=> Word * a > 0
  <1> USE IcapAssumption
  <1>1. Word * a \in Nat /\ Word * a + Word = Word * (a + 1)
    OBVIOUS
  <1>2. ASSUME NEW b \in Nat PROVE Word * a + b * Word = Word * (a + b)
    OBVIOUS
  <1>3. ASSUME NEW b \in Nat, NEW c \in Nat, c < b PROVE Word * c < Word * b
    <2>1. PICK d \in Nat : b = c + 1 + d
      BY <1>3
    <2>2. Word * b = Word * c + Word + Word * d
      BY <2>1
    <2> QED BY <2>2
  <1>4. ASSUME NEW b \in Nat PROVE (a < b <=> Word * a < Word * b) /\ (a = b <=> Word * a = Word * b)
    <2>1. CASE a < b
      BY <1>3, <2>1
    <2>2. CASE b < a
      BY <1>3, <2>2
    <2>3. CASE a = b
      BY <2>3
    <2> QED BY <2>1, <2>2, <2>3
  <1>5. (Word * a) \div Word = a
    OBVIOUS
  <1>6. a > 0 <=> Word * a > 0
    BY <1>4, <1>3
  <1> QED BY <1>1, <1>2, <1>4, <1>5, <1>6

\* Division with rest.
LEMMA Division ==
    ASSUME NEW x \in Nat, NEW y \in Nat, y > 0
    PROVE  \E q \in Nat : \E r \in 0 .. y - 1 : q = x \div y /\ r = x % y /\ x = y * q + r
  <1>1. PICK q \in Nat : q = x \div y
    OBVIOUS
  <1>2. PICK r \in 0 .. y - 1 : r = x % y
    OBVIOUS
  <1>3. PICK z \in Nat : z = y * q
    OBVIOUS
  <1>4. x = z + r
    BY <1>1, <1>2, <1>3, SMTT(20)
  <1> QED BY <1>1, <1>2, <1>3, <1>4

\* A number of bytes that is a number of words.
LEMMA WholeWords ==
    ASSUME NEW m \in Nat, m % Word = 0
    PROVE  \E b \in Nat : m = Word * b
  <1>1. Word \in Nat /\ Word > 0
    BY IcapAssumption
  <1>2. PICK q \in Nat, r \in 0 .. Word - 1 : r = m % Word /\ m = Word * q + r
    BY <1>1, Division
  <1> QED BY <1>1, <1>2

\* The end of a buffer is behind the bytes before it, and at a word.
LEMMA BufferEnds ==
    ASSUME NEW x \in Nat, NEW m \in Nat, m % Word = 0, x < m,
           NEW stop, stop = (x \div BufSz + 1) * BufSz
    PROVE  LET e == IF m < stop THEN m ELSE stop IN
           /\ x < e /\ e <= m
           /\ \E b \in Nat : e = Word * b
  <1> USE IcapAssumption
  <1>1. PICK c \in Nat : BufSz = Word * c
    BY WholeWords
  <1>2. PICK q \in Nat, r \in 0 .. BufSz - 1 : q = x \div BufSz /\ x = BufSz * q + r
    <2>1. BufSz \in Nat /\ BufSz > 0
      OBVIOUS
    <2> QED BY <2>1, Division
  <1>3. stop = (q + 1) * BufSz
    BY <1>2
  <1>4. x < stop /\ stop \in Nat
    BY <1>2, <1>3
  <1>5. stop = Word * (c * (q + 1)) /\ c * (q + 1) \in Nat
    BY <1>1, <1>3
  <1>6. PICK b \in Nat : m = Word * b
    BY WholeWords
  <1> QED BY <1>4, <1>5, <1>6

\* What a good file says is in numbers.
LEMMA GoodNumbers ==
    ASSUME NEW x \in File
    PROVE  /\ x.head.bits \in Nat /\ Hwicap!HeaderLength(x.head) \in Nat
           /\ Good(x) => Hwicap!Section(x, "bitstream").offset \in Nat
                         /\ Hwicap!Section(x, "bitstream").size \in Nat
                         /\ x.head.bits % Word = 0
  BY IcapAssumption DEF Good

\* xclbin.c: a section that is found is in the file, unless its end wraps.
LEMMA SectionInFile ==
    ASSUME NEW x, NEW s, s = Hwicap!Section(x, "bitstream"), s.err = "ok"
    PROVE  ~ ((s.offset + s.size) % Two64 > x.length)
  BY DEF Hwicap!Section

\* A sum that does not wrap is what it is.
LEMMA NoWrap ==
    ASSUME NEW n \in Nat, NEW m \in Nat, n < m PROVE n % m = n
  OBVIOUS

\* The bitstream of a good file whose lengths do not wrap is in its section, and
\* the section in the file.
LEMMA GoodFits ==
    ASSUME NEW x \in File, Good(x), ~Hwicap!SumsWrap(x)
    PROVE  LET s == Hwicap!Section(x, "bitstream") IN
           /\ Hwicap!HeaderLength(x.head) + x.head.bits <= s.size
           /\ s.offset + s.size <= x.length
  <1>1. PICK s : s = Hwicap!Section(x, "bitstream")
    OBVIOUS
  <1>2. /\ s.offset \in Nat /\ s.size \in Nat /\ x.length \in Nat /\ s.err = "ok"
        /\ x.head.bits \in Nat /\ Hwicap!HeaderLength(x.head) \in Nat
    BY <1>1, GoodNumbers, IcapAssumption DEF Good
  <1>3. /\ Two32 \in Nat /\ Two64 \in Nat
        /\ Hwicap!HeaderLength(x.head) + x.head.bits < Two32 /\ s.offset + s.size < Two64
    BY <1>1, <1>2, IcapAssumption DEF Hwicap!SumsWrap
  <1>4. (Hwicap!HeaderLength(x.head) + x.head.bits) % Two32
            = Hwicap!HeaderLength(x.head) + x.head.bits
    BY <1>2, <1>3, NoWrap
  <1>5. (s.offset + s.size) % Two64 = s.offset + s.size
    <2>1. PICK bound : bound = s.offset + s.size
      OBVIOUS
    <2>2. bound \in Nat /\ bound < Two64
      BY <1>2, <1>3, <2>1
    <2>3. bound % Two64 = bound
      BY <1>3, <2>2, NoWrap
    <2> QED BY <2>1, <2>3
  <1>6. Hwicap!HeaderLength(x.head) + x.head.bits <= s.size
    BY <1>1, <1>4 DEF Good, Hwicap!Fits
  <1>7. ~ ((s.offset + s.size) % Two64 > x.length)
    BY <1>1, <1>2, SectionInFile
  <1> QED BY <1>1, <1>2, <1>5, <1>6, <1>7

\* Where the driver is on its way, in words.
LEMMA WriteOn ==
    ASSUME NEW a \in Nat, NEW u \in Nat, NEW n \in Nat, FeedAt(a, u, n),
           icapPc = "write", fedTo < upto
    PROVE  a < u /\ fedTo + Word = Word * (a + 1) /\ fedTo + Word <= upto /\ Word \in Nat
  <1>1. a < u /\ fedTo + Word = Word * (a + 1)
    BY Words DEF FeedAt, RoomFor
  <1>2. a + 1 < u \/ a + 1 = u
    BY <1>1
  <1>3. Word * (a + 1) <= Word * u
    BY <1>2, Words
  <1> QED BY <1>1, <1>3, IcapAssumption DEF FeedAt, RoomFor

\* A download takes its steps with a good file, and not past its end.
LEMMA InOrderKept ==
    ASSUME IcapInv, Hwicap!Next PROVE DownloadInOrder'
  <1> USE DEF IcapInv, DownloadInOrder, Hwicap!Goto, Hwicap!Return, Hwicap!port, Hwicap!Bits
  <1>0. PICK a \in Nat, u \in Nat, n \in Nat : FeedAt(a, u, n)
    BY DEF Feed
  <1>n. file.head.bits \in Nat /\ fedTo \in Nat /\ upto \in Nat
    BY <1>0, GoodNumbers, Words DEF FeedAt, RoomFor
  <1> USE <1>0, <1>n
  <1>1. CASE Hwicap!Take
    BY <1>1 DEF Hwicap!Take
  <1>2. CASE Hwicap!Rest
    BY <1>2 DEF Hwicap!Rest
  <1>3. CASE Hwicap!Probe
    BY <1>3 DEF Hwicap!Probe
  <1>4. CASE Hwicap!ProbeFails
    BY <1>4 DEF Hwicap!ProbeFails
  <1>5. CASE Hwicap!Download
    <2>1. file' \in File /\ file'.head.bits \in Nat
      BY <1>5, GoodNumbers DEF Hwicap!Download
    <2>2. icapPc' # "idle" => icapPc' = "buffer" /\ Good(file') /\ leaf = "up"
      BY <1>5 DEF Hwicap!Download, Good
    <2>3. icapPc' = "idle" => icapRet' = "err"
      BY <1>5 DEF Hwicap!Download
    <2>4. fedTo' = 0 /\ icapCalls' = icapCalls + 1 /\ UNCHANGED <<leaf, fifo, running>>
      BY <1>5 DEF Hwicap!Download
    <2>5. leaf # "new" /\ icapPc' \in {"idle", "buffer"}
      BY <1>5 DEF Hwicap!Download
    <2> QED BY <2>1, <2>2, <2>3, <2>4, <2>5
  <1>6. CASE Hwicap!Buffer
    BY <1>6 DEF Hwicap!Buffer
  <1>7. CASE Hwicap!ReadVacancy
    BY <1>7 DEF Hwicap!ReadVacancy
  <1>8. CASE Hwicap!NoVacancy
    BY <1>8 DEF Hwicap!NoVacancy
  <1>9. CASE Hwicap!WriteWord
    <2>1. fedTo + Word <= upto /\ Word \in Nat
      BY <1>9, WriteOn DEF Hwicap!WriteWord
    <2>2. fedTo' = fedTo + Word /\ icapPc = "write"
          /\ UNCHANGED <<leaf, icapPc, file, icapRet, icapCalls>>
      BY <1>9 DEF Hwicap!WriteWord
    <2>3. leaf = "up" => fedTo' <= file.head.bits
      BY <2>1, <2>2 DEF FeedAt, RoomFor
    <2> QED BY <2>2, <2>3
  <1>10. CASE Hwicap!Commit
    BY <1>10 DEF Hwicap!Commit
  <1>11. CASE Hwicap!LoadDone
    BY <1>11 DEF Hwicap!LoadDone, Hwicap!Loaded
  <1>12. CASE Hwicap!Done
    BY <1>12 DEF Hwicap!Done
  <1>13. CASE Hwicap!Fails
    BY <1>13 DEF Hwicap!Fails
  <1> QED
    BY <1>1, <1>2, <1>3, <1>4, <1>5, <1>6, <1>7, <1>8, <1>9, <1>10, <1>11, <1>12, <1>13
    DEF Hwicap!Next

\* The first of some things and the others.
LEMMA HeadAndTail ==
    ASSUME NEW R, NEW s \in Seq(R), s # <<>>
    PROVE  Head(s) \in R /\ Tail(s) \in Seq(R) /\ \A i \in 1 .. Len(s) : s[i] \in R
  OBVIOUS

\* What is written are numbers.
LEMMA IcapTypesKept ==
    ASSUME IcapInv, Hwicap!Next PROVE IcapTypes'
  <1> USE DEF IcapInv, IcapTypes, Hwicap!port
  <1>1. CASE Hwicap!Take
    <2>1. PICK w \in [call : Nat, byte : Nat] : w = Head(fifo)
      BY <1>1, HeadAndTail DEF Hwicap!Take
    <2>2. fifo' \in Seq([call : Nat, byte : Nat])
      BY <1>1, HeadAndTail DEF Hwicap!Take
    <2>3. fed' \in Seq(Nat)
      BY <1>1, <2>1 DEF Hwicap!Take
    <2> QED BY <2>2, <2>3
  <1>2. CASE Hwicap!WriteWord
    <2>1. PICK a \in Nat, u \in Nat, n \in Nat : FeedAt(a, u, n)
      BY DEF Feed
    <2>2. fedTo \in Nat
      BY <2>1, Words DEF FeedAt, RoomFor
    <2>3. leaf # "new" => /\ Hwicap!Bitstream.offset \in Nat
                          /\ Hwicap!HeaderLength(file.head) \in Nat
      BY <1>2, GoodNumbers DEF Hwicap!WriteWord, DownloadInOrder, Hwicap!Bitstream
    <2>4. PICK b \in Nat : fifo' = Append(fifo, [call |-> icapCalls, byte |-> b])
      <3>1. CASE leaf = "new"
        BY <1>2, <2>2, <3>1 DEF Hwicap!WriteWord, Hwicap!Put
      <3>2. CASE leaf # "new"
        <4>1. Hwicap!Bitstream.offset + Hwicap!HeaderLength(file.head) + fedTo \in Nat
          BY <2>2, <2>3, <3>2
        <4> QED BY <1>2, <3>2, <4>1 DEF Hwicap!WriteWord, Hwicap!Put
      <3> QED BY <3>1, <3>2
    <2>5. [call |-> icapCalls, byte |-> b] \in [call : Nat, byte : Nat] /\ fed' = fed
      BY <1>2 DEF DownloadInOrder, Hwicap!WriteWord
    <2> QED BY <2>4, <2>5
  <1>3. CASE Hwicap!Download
    BY <1>3 DEF Hwicap!Download
  <1>4. CASE Hwicap!Next /\ ~ Hwicap!Take /\ ~ Hwicap!WriteWord /\ ~ Hwicap!Download
    BY <1>4 DEF Hwicap!Next, Hwicap!Rest, Hwicap!Probe, Hwicap!ProbeFails, Hwicap!Buffer,
                Hwicap!ReadVacancy, Hwicap!NoVacancy, Hwicap!Commit, Hwicap!LoadDone,
                Hwicap!Done, Hwicap!Fails
  <1> QED BY <1>1, <1>2, <1>3, <1>4

\* What is left of the bitstream is where it was.
LEMMA SameWords ==
    ASSUME UNCHANGED file PROVE \A k \in Int : WordAt(k)' = WordAt(k)
  BY DEF WordAt, Hwicap!Bitstream

\* The words stay where they are when the driver is not at them.
LEMMA FeedWaits ==
    ASSUME NEW a \in Nat, NEW u \in Nat, NEW n \in Nat, FeedAt(a, u, n), IcapTypes,
           UNCHANGED <<file, fifo, fed, fedTo, upto, icapCalls>>,
           icapPc' = "write" => icapPc = "write" /\ leaf' = leaf,
           icapCalls > 0 /\ (\/ icapPc' \in {"buffer", "vacancy", "wait"}
                             \/ icapPc' = "idle" /\ icapRet' = "ok")
               => Len(fed) = a
    PROVE  Feed'
  <1>1. RoomFor(a, u)'
    BY DEF FeedAt, RoomFor, Hwicap!Bits
  <1>2. OldFirst(n)'
    BY DEF FeedAt, OldFirst
  <1>3. FirstWords(a, n)'
    BY SameWords DEF FeedAt, OldFirst, FirstWords, IcapTypes
  <1> QED BY <1>1, <1>2, <1>3 DEF Feed, FeedAt

\* The port takes the oldest word.
LEMMA FeedTake ==
    ASSUME IcapInv, Hwicap!Take PROVE Feed'
  <1>1. PICK a \in Nat, u \in Nat, n \in Nat : FeedAt(a, u, n)
    BY DEF IcapInv, Feed
  <1>2. /\ fifo # <<>> /\ fifo' = Tail(fifo) /\ Len(fifo') = Len(fifo) - 1
        /\ \A i \in 1 .. Len(fifo) - 1 : fifo'[i] = fifo[i + 1]
        /\ Head(fifo) = fifo[1] /\ Len(fifo) \in Nat /\ Len(fed) \in Nat
        /\ UNCHANGED <<leaf, icapPc, file, fedTo, upto, icapRet, icapCalls>>
        /\ fed' = IF fifo[1].call = icapCalls THEN Append(fed, fifo[1].byte) ELSE fed
    BY DEF Hwicap!Take, IcapInv, IcapTypes
  <1>3. icapCalls \in Nat /\ Len(fifo) > 0 /\ Len(fifo') \in Nat
        /\ \A i \in 1 .. Len(fifo) : fifo[i].call \in Nat
    <2>1. icapCalls \in Nat /\ Len(fifo) > 0 /\ Len(fifo') \in Nat
      BY <1>2 DEF IcapInv, IcapTypes, DownloadInOrder
    <2>2. ASSUME NEW i \in 1 .. Len(fifo) PROVE fifo[i] \in [call : Nat, byte : Nat]
      BY <1>2, HeadAndTail DEF IcapInv, IcapTypes
    <2>3. ASSUME NEW w \in [call : Nat, byte : Nat] PROVE w.call \in Nat
      OBVIOUS
    <2> QED BY <2>1, <2>2, <2>3
  <1>4. RoomFor(a, u)'
    BY <1>1, <1>2, <1>3, IcapAssumption DEF FeedAt, RoomFor, Hwicap!Bits
  <1>5. CASE n > 0
    <2>1. fed' = fed /\ n - 1 \in Nat
      <3>1. fifo[1].call # icapCalls
        BY <1>1, <1>5 DEF FeedAt, OldFirst
      <3> QED BY <1>2, <1>5, <3>1
    <2>2. OldFirst(n - 1)'
      BY <1>1, <1>2, <1>3, <1>5, <2>1 DEF FeedAt, OldFirst
    <2>3. FirstWords(a, n - 1)'
      <3>1. CASE ~ icapCalls > 0
        BY <1>2, <3>1 DEF FirstWords
      <3>2. CASE icapCalls > 0
        <4>1. Len(fed') + (Len(fifo') - (n - 1)) = a
          BY <1>1, <1>2, <2>1, <3>2 DEF FeedAt, FirstWords
        <4>2. ASSUME NEW i \in (n - 1) + 1 .. Len(fifo')
              PROVE  fifo'[i] = [call |-> icapCalls, byte |-> WordAt(Len(fed') + (i - (n - 1)))]
          <5>1. i + 1 \in n + 1 .. Len(fifo) /\ fifo'[i] = fifo[i + 1]
                /\ (i + 1) - n = i - (n - 1)
            BY <1>2, <1>5
          <5> QED BY <1>1, <2>1, <3>2, <5>1 DEF FeedAt, FirstWords
        <4>3. \A k \in 1 .. Len(fed') : fed'[k] = WordAt(k)
          BY <1>1, <2>1, <3>2 DEF FeedAt, FirstWords
        <4>4. \/ icapPc' \in {"buffer", "vacancy", "wait"}
              \/ icapPc' = "idle" /\ icapRet' = "ok"
              => Len(fed') = a
          BY <1>1, <1>2, <2>1, <3>2 DEF FeedAt, FirstWords
        <4>5. \A i \in (n - 1) + 1 .. Len(fifo') : Len(fed') + (i - (n - 1)) \in Int
          BY <1>2, <1>3, <2>1
        <4>6. \A k \in 1 .. Len(fed') : k \in Int
          BY <1>2, <2>1
        <4> QED BY <1>2, <4>1, <4>2, <4>3, <4>4, <4>5, <4>6, SameWords DEF FirstWords
      <3> QED BY <3>1, <3>2
    <2> QED BY <1>4, <2>1, <2>2, <2>3 DEF Feed, FeedAt
  <1>6. CASE n = 0 /\ icapCalls > 0
    <2>1. fifo[1] = [call |-> icapCalls, byte |-> WordAt(Len(fed) + 1)]
      BY <1>1, <1>2, <1>3, <1>6 DEF FeedAt, FirstWords
    <2>2. /\ fed' = Append(fed, WordAt(Len(fed) + 1)) /\ Len(fed') = Len(fed) + 1
          /\ \A k \in 1 .. Len(fed) : fed'[k] = fed[k]
          /\ fed'[Len(fed) + 1] = WordAt(Len(fed) + 1)
      BY <1>2, <2>1 DEF IcapInv, IcapTypes
    <2>3. OldFirst(0)'
      BY <1>1, <1>2, <1>3 DEF FeedAt, OldFirst
    <2>4. Len(fed) + Len(fifo) = a /\ Len(fed) # a
      BY <1>1, <1>2, <1>3, <1>6 DEF FeedAt, FirstWords
    <2>5. ASSUME NEW i \in 1 .. Len(fifo')
          PROVE  fifo'[i] = [call |-> icapCalls, byte |-> WordAt(Len(fed') + i)]
      <3>1. i + 1 \in 1 .. Len(fifo) /\ fifo'[i] = fifo[i + 1]
            /\ Len(fed) + (i + 1) = Len(fed') + i
        BY <1>2, <2>2
      <3> QED BY <1>1, <1>6, <1>2, <3>1 DEF FeedAt, FirstWords
    <2>6. \A k \in 1 .. Len(fed') : fed'[k] = WordAt(k)
      BY <1>1, <1>2, <1>6, <2>2 DEF FeedAt, FirstWords
    <2>7. Len(fed') + Len(fifo') = a
      BY <1>2, <2>2, <2>4
    <2>8. FirstWords(a, 0)'
      BY <1>1, <1>2, <1>3, <1>6, <2>2, <2>4, <2>5, <2>6, <2>7, SameWords DEF FeedAt, FirstWords
    <2> QED BY <1>4, <2>3, <2>8 DEF Feed, FeedAt
  <1>7. CASE n = 0 /\ icapCalls = 0
    <2>1. OldFirst(0)'
      BY <1>1, <1>2, <1>3 DEF FeedAt, OldFirst
    <2>2. FirstWords(a, 0)'
      BY <1>2, <1>7 DEF FirstWords
    <2> QED BY <1>4, <2>1, <2>2 DEF Feed, FeedAt
  <1> QED BY <1>3, <1>5, <1>6, <1>7

\* A download starts behind what earlier ones left in the FIFO.
LEMMA FeedDownload ==
    ASSUME IcapInv, Hwicap!Download PROVE Feed'
  <1>1. PICK a \in Nat, u \in Nat, n \in Nat : FeedAt(a, u, n)
    BY DEF IcapInv, Feed
  <1>2. /\ icapCalls' = icapCalls + 1 /\ icapCalls \in Nat
        /\ fed' = <<>> /\ fedTo' = 0 /\ UNCHANGED <<fifo, upto>>
        /\ icapPc' # "write" /\ Len(fifo) \in Nat
    BY DEF Hwicap!Download, Hwicap!Return, IcapInv, IcapTypes, DownloadInOrder
  <1>3. \A i \in 1 .. Len(fifo) : fifo[i].call \in Nat
    <2>1. ASSUME NEW i \in 1 .. Len(fifo) PROVE fifo[i] \in [call : Nat, byte : Nat]
      <3>1. fifo # <<>>
        BY <1>2
      <3> QED BY <3>1, HeadAndTail DEF IcapInv, IcapTypes
    <2>2. ASSUME NEW w \in [call : Nat, byte : Nat] PROVE w.call \in Nat
      OBVIOUS
    <2> QED BY <2>1, <2>2
  <1>4. RoomFor(0, u)'
    BY <1>1, <1>2, IcapAssumption DEF FeedAt, RoomFor
  <1>5. OldFirst(Len(fifo))'
    <2>1. ASSUME NEW i \in 1 .. Len(fifo)
          PROVE  fifo[i].call # icapCalls + 1 /\ fifo[i].call <= icapCalls + 1
      BY <1>1, <1>2, <1>3 DEF FeedAt, OldFirst
    <2> QED BY <1>2, <2>1 DEF OldFirst
  <1>6. FirstWords(0, Len(fifo))'
    <2>1. Len(fed') = 0 /\ Len(fifo') = Len(fifo)
      BY <1>2
    <2> QED BY <1>2, <2>1 DEF FirstWords
  <1>7. PICK m \in Nat : m = Len(fifo)
    BY <1>2
  <1>8. OldFirst(m)' /\ FirstWords(0, m)'
    BY <1>2, <1>5, <1>6, <1>7 DEF OldFirst, FirstWords
  <1> QED BY <1>4, <1>7, <1>8 DEF Feed, FeedAt

\* The probe writes what there is room for.
LEMMA FeedProbe ==
    ASSUME IcapInv, Hwicap!Probe PROVE Feed'
  <1>1. PICK a \in Nat, u \in Nat, n \in Nat : FeedAt(a, u, n)
    BY DEF IcapInv, Feed
  <1>2. /\ leaf = "new" /\ icapCalls = 0 /\ fedTo' = 0 /\ upto' = IdWords * Word
        /\ UNCHANGED <<leaf, fifo, fed, icapCalls>> /\ Len(fifo) \in Nat
        /\ Len(fifo) + IdWords < Depth
    BY IcapAssumption DEF Hwicap!Probe, Hwicap!Vacancy, Hwicap!port, IcapInv, IcapTypes, DownloadInOrder
  <1>3. RoomFor(0, IdWords)'
    BY <1>2, IcapAssumption DEF RoomFor
  <1>4. OldFirst(n)' /\ FirstWords(0, n)'
    BY <1>1, <1>2 DEF FeedAt, OldFirst, FirstWords
  <1> QED BY <1>1, <1>3, <1>4, IcapAssumption DEF Feed, FeedAt

\* A load ends with the room in the FIFO or with the buffer.
LEMMA FeedLoad ==
    ASSUME IcapInv, Hwicap!ReadVacancy PROVE Feed'
  <1>1. PICK a \in Nat, u \in Nat, n \in Nat : FeedAt(a, u, n)
    BY DEF IcapInv, Feed
  <1>2. PICK v \in Nat : v = Hwicap!Vacancy /\ Len(fifo) + v = Depth
    <2>1. Len(fifo) \in Nat
      BY DEF IcapInv, IcapTypes
    <2>2. Len(fifo) <= Depth /\ Depth \in Nat
      BY <1>1, IcapAssumption DEF FeedAt, RoomFor
    <2> QED BY <2>1, <2>2 DEF Hwicap!Vacancy
  <1>3. /\ v > 0 /\ leaf = "up" /\ Good(file) /\ fedTo < Hwicap!Bits /\ icapPc = "vacancy"
        /\ UNCHANGED <<leaf, file, fifo, running, fed, fedTo, icapRet, icapCalls>>
        /\ icapPc' = "write"
    BY <1>2 DEF Hwicap!ReadVacancy, Hwicap!Goto, Hwicap!port, IcapInv, DownloadInOrder
  <1>4. Hwicap!Bits \in Nat /\ Hwicap!Bits % Word = 0 /\ fedTo \in Nat /\ fedTo = Word * a
    BY <1>1, <1>3, GoodNumbers, Words DEF FeedAt, RoomFor, IcapInv, DownloadInOrder, Hwicap!Bits
  <1>5. PICK e \in Nat :
           Hwicap!BufferEnd = Word * e /\ fedTo < Word * e /\ Word * e <= Hwicap!Bits
    BY <1>3, <1>4, BufferEnds DEF Hwicap!BufferEnd
  <1>6. fedTo + v * Word = Word * (a + v)
    BY <1>4, Words
  <1>7. PICK w \in Nat : /\ upto' = Word * w /\ a <= w /\ w <= a + v
                         /\ Word * w <= Hwicap!Bits
    <2>1. upto' = IF fedTo + v * Word < Word * e THEN fedTo + v * Word ELSE Word * e
      BY <1>2, <1>5 DEF Hwicap!ReadVacancy, Hwicap!Load
    <2>2. CASE fedTo + v * Word < Word * e
      <3>1. upto' = Word * (a + v) /\ Word * (a + v) <= Hwicap!Bits
        <4>1. Word * (a + v) \in Nat /\ Word * e \in Nat
          BY Words
        <4> QED BY <1>4, <1>5, <1>6, <2>1, <2>2, <4>1
      <3> QED BY <3>1
    <2>3. CASE ~ (fedTo + v * Word < Word * e)
      <3>1. upto' = Word * e /\ ~ (Word * (a + v) < Word * e)
        BY <1>6, <2>1, <2>3
      <3>2. a < e /\ ~ (a + v < e)
        <4>1. a < e
          BY <1>4, <1>5, Words
        <4>2. PICK s \in Nat : s = a + v
          OBVIOUS
        <4>3. ~ (s < e)
          BY <3>1, <4>2, Words
        <4> QED BY <4>1, <4>2, <4>3
      <3> QED BY <1>5, <3>1, <3>2
    <2> QED BY <2>2, <2>3
  <1>8. RoomFor(a, w)'
    BY <1>1, <1>2, <1>3, <1>4, <1>7, IcapAssumption DEF FeedAt, RoomFor, Hwicap!Bits, IcapInv, IcapTypes
  <1>9. OldFirst(n)'
    BY <1>1, <1>3 DEF FeedAt, OldFirst
  <1>10. FirstWords(a, n)'
    BY <1>1, <1>3, SameWords DEF FeedAt, OldFirst, FirstWords, IcapInv, IcapTypes
  <1> QED BY <1>8, <1>9, <1>10 DEF Feed, FeedAt

\* The driver writes the next word.
LEMMA FeedWrite ==
    ASSUME IcapInv, Hwicap!WriteWord PROVE Feed'
  <1>1. PICK a \in Nat, u \in Nat, n \in Nat : FeedAt(a, u, n)
    BY DEF IcapInv, Feed
  <1>2. icapPc = "write" /\ fedTo < upto /\ fedTo' = fedTo + Word
        /\ UNCHANGED <<leaf, icapPc, file, running, fed, upto, icapRet, icapCalls>>
    BY DEF Hwicap!WriteWord
  <1>3. a < u /\ fedTo + Word = Word * (a + 1) /\ fedTo = Word * a
    BY <1>1, <1>2, WriteOn DEF FeedAt, RoomFor
  <1>4. PICK byte : fifo' = Append(fifo, [call |-> icapCalls, byte |-> byte])
                    /\ (leaf # "new" => byte = WordAt(a + 1))
    <2>1. (a + 1) - 1 = a
      OBVIOUS
    <2>2. leaf # "new" => Hwicap!Bitstream.offset + Hwicap!HeaderLength(file.head) + fedTo
                              = WordAt(a + 1)
      BY <1>3, <2>1 DEF WordAt
    <2> QED BY <2>2 DEF Hwicap!WriteWord, Hwicap!Put
  <1>5. /\ Len(fifo) \in Nat /\ Len(fifo') = Len(fifo) + 1 /\ Len(fed) \in Nat
        /\ \A i \in 1 .. Len(fifo) : fifo'[i] = fifo[i]
        /\ fifo'[Len(fifo) + 1] = [call |-> icapCalls, byte |-> byte]
    BY <1>4 DEF IcapInv, IcapTypes
  <1>6. RoomFor(a + 1, u)'
    BY <1>1, <1>2, <1>3, <1>5, IcapAssumption DEF FeedAt, RoomFor, Hwicap!Bits
  <1>7. OldFirst(n)'
    <2>1. \A i \in 1 .. n : fifo'[i].call # icapCalls
      BY <1>1, <1>5 DEF FeedAt, OldFirst
    <2>2. \A i \in 1 .. Len(fifo) + 1 : fifo'[i].call <= icapCalls
      <3>1. fifo'[Len(fifo) + 1].call = icapCalls /\ icapCalls \in Nat
        BY <1>5 DEF IcapInv, DownloadInOrder
      <3> QED BY <1>1, <1>5, <3>1 DEF FeedAt, OldFirst
    <2> QED BY <1>1, <1>2, <1>5, <2>1, <2>2 DEF FeedAt, OldFirst
  <1>8. FirstWords(a + 1, n)'
    <2>1. CASE ~ icapCalls > 0
      BY <1>2, <2>1 DEF FirstWords
    <2>2. CASE icapCalls > 0
      <3>1. byte = WordAt(a + 1)
        BY <1>4, <2>2 DEF IcapInv, DownloadInOrder
      <3>2. n <= Len(fifo) /\ Len(fed) + (Len(fifo) - n) = a
        BY <1>1, <2>2 DEF FeedAt, OldFirst, FirstWords
      <3>3. Len(fed') + (Len(fifo') - n) = a + 1
        BY <1>2, <1>5, <3>2
      <3>4. ASSUME NEW i \in n + 1 .. Len(fifo')
            PROVE  fifo'[i] = [call |-> icapCalls, byte |-> WordAt(Len(fed') + (i - n))]
        <4>1. CASE i = Len(fifo) + 1
          <5>1. Len(fed') + (i - n) = a + 1
            BY <1>2, <1>5, <3>2, <4>1
          <5> QED BY <1>5, <3>1, <4>1, <5>1
        <4>2. CASE i # Len(fifo) + 1
          <5>1. i \in n + 1 .. Len(fifo) /\ i \in 1 .. Len(fifo)
            BY <1>5, <3>2, <4>2
          <5> QED BY <1>1, <1>2, <1>5, <2>2, <5>1 DEF FeedAt, FirstWords
        <4> QED BY <4>1, <4>2
      <3>5. \A k \in 1 .. Len(fed') : fed'[k] = WordAt(k)
        BY <1>1, <1>2, <2>2 DEF FeedAt, FirstWords
      <3>6. \A i \in n + 1 .. Len(fifo') : Len(fed') + (i - n) \in Int
        BY <1>2, <1>5
      <3>7. \A k \in 1 .. Len(fed') : k \in Int
        BY <1>2, <1>5
      <3> QED BY <1>2, <3>3, <3>4, <3>5, <3>6, <3>7, SameWords DEF FirstWords
    <2> QED BY <2>1, <2>2
  <1> QED BY <1>6, <1>7, <1>8 DEF Feed, FeedAt

\* A load that is done leaves nothing in the FIFO.
LEMMA FeedLoaded ==
    ASSUME IcapInv, Hwicap!LoadDone PROVE Feed'
  <1>1. PICK a \in Nat, u \in Nat, n \in Nat : FeedAt(a, u, n)
    BY DEF IcapInv, Feed
  <1>2. fifo = <<>> /\ Len(fifo) = 0
    BY DEF Hwicap!LoadDone, Hwicap!Loaded, Hwicap!Goto, IcapInv, DownloadInOrder
  <1>3. n = 0 /\ (icapCalls > 0 => Len(fed) = a)
    <2>1. n = 0
      BY <1>1, <1>2 DEF FeedAt, OldFirst
    <2>2. Len(fed) \in Nat
      BY DEF IcapInv, IcapTypes
    <2> QED BY <1>1, <1>2, <2>1, <2>2 DEF FeedAt, FirstWords
  <1>4. icapPc' # "write" /\ UNCHANGED <<file, fifo, fed, fedTo, upto, icapCalls>>
    BY DEF Hwicap!LoadDone, Hwicap!Goto, Hwicap!port
  <1> QED BY <1>1, <1>3, <1>4, FeedWaits DEF IcapInv

\* The words stay in order.
LEMMA IcapStep ==
    ASSUME IcapInv, Hwicap!Next PROVE IcapInv'
  <1>1. PICK a \in Nat, u \in Nat, n \in Nat : FeedAt(a, u, n)
    BY DEF IcapInv, Feed
  <1> USE DEF Hwicap!Goto, Hwicap!Return, Hwicap!port
  <1>2. CASE \/ Hwicap!Rest \/ Hwicap!ProbeFails \/ Hwicap!Buffer
             \/ Hwicap!NoVacancy \/ Hwicap!Commit \/ Hwicap!Done \/ Hwicap!Fails
    <2>1. UNCHANGED <<file, fifo, fed, fedTo, upto, icapCalls>>
      BY <1>2 DEF Hwicap!Rest, Hwicap!ProbeFails, Hwicap!Buffer, Hwicap!NoVacancy,
                  Hwicap!Commit, Hwicap!Done, Hwicap!Fails
    <2>2. icapPc' = "write" => icapPc = "write" /\ leaf' = leaf
      BY <1>2 DEF Hwicap!Rest, Hwicap!ProbeFails, Hwicap!Buffer, Hwicap!NoVacancy,
                  Hwicap!Commit, Hwicap!Done, Hwicap!Fails
    <2>3. icapCalls > 0 /\ (\/ icapPc' \in {"buffer", "vacancy", "wait"}
                            \/ icapPc' = "idle" /\ icapRet' = "ok")
             => \/ icapPc \in {"buffer", "vacancy", "wait"}
                \/ icapPc = "idle" /\ icapRet = "ok"
      BY <1>2 DEF Hwicap!Rest, Hwicap!ProbeFails, Hwicap!Buffer, Hwicap!NoVacancy,
                  Hwicap!Commit, Hwicap!Done, Hwicap!Fails, IcapInv, DownloadInOrder
    <2>4. Feed'
      BY <1>1, <2>1, <2>2, <2>3, FeedWaits DEF IcapInv, FeedAt, FirstWords
    <2> QED BY <2>4, InOrderKept, IcapTypesKept DEF IcapInv
  <1>3. CASE \/ Hwicap!Take \/ Hwicap!Probe \/ Hwicap!Download
             \/ Hwicap!ReadVacancy \/ Hwicap!WriteWord \/ Hwicap!LoadDone
    BY <1>3, FeedTake, FeedProbe, FeedDownload, FeedLoad, FeedWrite, FeedLoaded,
       InOrderKept, IcapTypesKept DEF IcapInv
  <1> QED BY <1>2, <1>3 DEF Hwicap!Next

\* The other drivers leave the bitstream alone.
LEMMA IcapAlone ==
    ASSUME IcapInv, UNCHANGED icapVars PROVE IcapInv'
  <1> USE DEF icapVars
  <1>1. DownloadInOrder'
    BY DEF IcapInv, DownloadInOrder, Hwicap!Bits
  <1>2. IcapTypes'
    BY DEF IcapInv, IcapTypes
  <1>3. PICK a \in Nat, u \in Nat, n \in Nat : FeedAt(a, u, n)
    BY DEF IcapInv, Feed
  <1>4. Feed'
    BY <1>3, FeedWaits DEF IcapInv, FeedAt, FirstWords
  <1> QED BY <1>1, <1>2, <1>4 DEF IcapInv

\* The FIFO is empty before the probe.
LEMMA IcapInit ==
    ASSUME Hwicap!Init PROVE IcapInv
  <1> USE DEF Hwicap!Init
  <1>1. DownloadInOrder
    BY DEF DownloadInOrder
  <1>2. IcapTypes
    BY DEF IcapTypes
  <1>3. FeedAt(0, 0, 0)
    BY IcapAssumption DEF FeedAt, RoomFor, OldFirst, FirstWords
  <1> QED BY <1>1, <1>2, <1>3 DEF IcapInv, Feed

\* A step of the whole is one of the ICAP or leaves it alone.
LEMMA IcapMovesOrNot ==
    ASSUME [Next]_vars PROVE Hwicap!Next \/ UNCHANGED icapVars
  BY DEF Next, vars, FlashMoves, CmcMoves, ClocksMove, IcapMoves, LeavesMove

\* Everything in the FIFO of this download is from the section.
LEMMA FifoFromSection ==
    ASSUME IcapInv PROVE Hwicap!FromTheBitstream
  <1>1. PICK a \in Nat, u \in Nat, n \in Nat : FeedAt(a, u, n)
    BY DEF IcapInv, Feed
  <1> SUFFICES ASSUME NEW i \in DOMAIN fifo, fifo[i].call = icapCalls, icapCalls > 0,
                      ~Hwicap!SumsWrap(file)
               PROVE  LET s == Hwicap!Bitstream IN
                      /\ s.offset + Hwicap!HeaderLength(file.head) <= fifo[i].byte
                      /\ fifo[i].byte + Word <= s.offset + s.size
                      /\ s.offset + s.size <= file.length
    BY DEF Hwicap!FromTheBitstream
  <1>2. i \in 1 .. Len(fifo) /\ Len(fifo) \in Nat /\ Len(fed) \in Nat
    BY DEF IcapInv, IcapTypes
  <1>3. i \in n + 1 .. Len(fifo) /\ n <= Len(fifo)
    BY <1>1, <1>2 DEF FeedAt, OldFirst
  <1>4. PICK k \in 1 .. a : fifo[i].byte = WordAt(k) /\ a > 0
    <2>1. Len(fed) + (i - n) \in 1 .. a
      BY <1>1, <1>2, <1>3 DEF FeedAt, FirstWords
    <2>2. fifo[i] = [call |-> icapCalls, byte |-> WordAt(Len(fed) + (i - n))]
      BY <1>1, <1>3 DEF FeedAt, FirstWords
    <2> QED BY <2>1, <2>2
  <1>5. Good(file) /\ Word * a <= file.head.bits
    <2>1. fedTo = Word * a /\ Word * a > 0
      BY <1>1, <1>4, Words DEF FeedAt, RoomFor
    <2> QED BY <2>1 DEF IcapInv, DownloadInOrder, Hwicap!Bits
  <1>6. PICK j \in Nat : k = j + 1
    BY <1>4
  <1>7. Word * j \in Nat /\ Word * j + Word = Word * (j + 1) /\ Word * (j + 1) <= Word * a
    <2>1. PICK h \in Nat : h = j + 1 /\ (h < a \/ h = a)
      BY <1>4, <1>6
    <2>2. Word * h <= Word * a /\ Word * h \in Nat /\ Word * a \in Nat
      <3>1. Word * h \in Nat /\ Word * a \in Nat
        BY Words
      <3>2. h < a => Word * h < Word * a
        BY Words
      <3> QED BY <2>1, <3>1, <3>2
    <2>3. Word * j \in Nat /\ Word * j + Word = Word * (j + 1)
      BY Words
    <2> QED BY <2>1, <2>2, <2>3
  <1>8. fifo[i].byte = Hwicap!Bitstream.offset + Hwicap!HeaderLength(file.head) + Word * j
    <2>1. k - 1 = j
      BY <1>6
    <2> QED BY <1>4, <2>1 DEF WordAt
  <1>9. Hwicap!Bitstream.offset + Hwicap!Bitstream.size <= file.length
    BY <1>5, GoodFits DEF IcapInv, DownloadInOrder, Hwicap!Bitstream
  <1>10. /\ Hwicap!Bitstream.offset \in Nat /\ Hwicap!Bitstream.size \in Nat
         /\ file.head.bits \in Nat /\ Hwicap!HeaderLength(file.head) \in Nat
         /\ Hwicap!HeaderLength(file.head) + file.head.bits <= Hwicap!Bitstream.size
    BY <1>5, GoodNumbers, GoodFits DEF IcapInv, DownloadInOrder, Hwicap!Bitstream
  <1>11. Word \in Nat /\ Word * a \in Nat
    BY IcapAssumption
  <1> QED BY <1>5, <1>7, <1>8, <1>9, <1>10, <1>11

\* What the port took is a beginning of the bitstream, and after a success all of it.
LEMMA PortInOrder ==
    ASSUME IcapInv PROVE Hwicap!FedInOrder
  <1>1. PICK a \in Nat, u \in Nat, n \in Nat : FeedAt(a, u, n)
    BY DEF IcapInv, Feed
  <1>2. fed \in Seq(Nat) /\ Len(fed) \in Nat /\ Len(fifo) \in Nat /\ file \in File
    BY DEF IcapInv, IcapTypes, DownloadInOrder
  <1>3. ASSUME icapCalls > 0, Good(file), fedTo <= file.head.bits
        PROVE  /\ Hwicap!IsPrefix(fed, Hwicap!Words)
               /\ Len(fed) = a /\ fedTo = file.head.bits => fed = Hwicap!Words
    <2>1. PICK b \in Nat : file.head.bits = Word * b
      BY <1>2, <1>3, GoodNumbers, WholeWords
    <2>2. a <= b /\ (fedTo = file.head.bits => a = b)
      <3>1. ~ (b < a)
        <4>1. Word * a \in Nat /\ Word * b \in Nat
          BY Words
        <4> QED BY <1>1, <1>3, <2>1, <4>1, Words DEF FeedAt, RoomFor
      <3>2. fedTo = file.head.bits => a = b
        BY <1>1, <2>1, Words DEF FeedAt, RoomFor
      <3> QED BY <3>1, <3>2
    <2>3. Len(fed) <= a /\ \A k \in 1 .. Len(fed) : fed[k] = WordAt(k)
      BY <1>1, <1>2, <1>3 DEF FeedAt, OldFirst, FirstWords
    <2>4. Hwicap!Words = [k \in 1 .. b |-> WordAt(k)]
      <3>1. Hwicap!Bits \div Word = b
        BY <2>1, Words DEF Hwicap!Bits
      <3> QED BY <3>1 DEF Hwicap!Words, WordAt
    <2>5. Len(Hwicap!Words) = b /\ \A k \in 1 .. b : Hwicap!Words[k] = WordAt(k)
      BY <2>4
    <2>6. \A k \in 1 .. Len(fed) : k \in 1 .. b /\ fed[k] = Hwicap!Words[k]
      BY <1>2, <2>2, <2>3, <2>5
    <2>7. SubSeq(fed, 1, Len(fed)) = SubSeq(Hwicap!Words, 1, Len(fed))
      <3>1. SubSeq(fed, 1, Len(fed)) = [k \in 1 .. Len(fed) |-> fed[k]]
        BY <1>2
      <3>2. SubSeq(Hwicap!Words, 1, Len(fed)) = [k \in 1 .. Len(fed) |-> Hwicap!Words[k]]
        BY <1>2, <2>2, <2>3, <2>4
      <3> QED BY <2>6, <3>1, <3>2
    <2>8. Len(fed) = a /\ fedTo = file.head.bits => fed = Hwicap!Words
      BY <1>2, <2>2, <2>4, <2>6
    <2> QED BY <1>2, <2>2, <2>3, <2>5, <2>7, <2>8 DEF Hwicap!IsPrefix
  <1>4. icapCalls > 0 /\ fed # <<>> => Hwicap!IsPrefix(fed, Hwicap!Words)
    <2> SUFFICES ASSUME icapCalls > 0, fed # <<>> PROVE Hwicap!IsPrefix(fed, Hwicap!Words)
      OBVIOUS
    <2>1. a > 0
      BY <1>1, <1>2 DEF FeedAt, OldFirst, FirstWords
    <2>2. fedTo > 0
      BY <1>1, <2>1, Words DEF FeedAt, RoomFor
    <2>3. Good(file) /\ fedTo <= file.head.bits
      BY <2>2 DEF IcapInv, DownloadInOrder, Hwicap!Bits
    <2> QED BY <1>3, <2>3
  <1>5. icapPc = "idle" /\ icapRet = "ok" => fed = Hwicap!Words
    <2> SUFFICES ASSUME icapPc = "idle", icapRet = "ok" PROVE fed = Hwicap!Words
      OBVIOUS
    <2>1. icapCalls > 0 /\ Good(file) /\ fedTo = file.head.bits
      BY DEF IcapInv, DownloadInOrder, Hwicap!Bits
    <2>2. Len(fed) = a
      BY <1>1, <2>1 DEF FeedAt, FirstWords
    <2>3. fedTo <= file.head.bits
      BY <1>2, <2>1, GoodNumbers
    <2> QED BY <1>3, <2>1, <2>2, <2>3
  <1> QED BY <1>4, <1>5 DEF Hwicap!FedInOrder

\* icap.c:106-202, xrt-mgr.c:32-87.  A bitstream reaches the FPGA whole and in
\* order, from the section it is in unless the lengths of the file are so large
\* that their sums wrap (xrt-mgr.c:56, xclbin.c:41), and the FIFO is never given
\* more than it has room for; for any number of downloads, whatever earlier
\* ones left.
\* That the metadata of a file names its clocks is about the file alone, a fold
\* over its clocks that TLC evaluates.
THEOREM BitstreamStaysTrue ==
    (\A x \in File : Hwicap!ClocksAsNamed(x)) => (FairSpec => []BitstreamTrue)
  <1> SUFFICES ASSUME \A x \in File : Hwicap!ClocksAsNamed(x)
               PROVE  FairSpec => []BitstreamTrue
    OBVIOUS
  <1>1. Init => IcapInv
    BY IcapInit DEF Init
  <1>2. IcapInv /\ [Next]_vars => IcapInv'
    BY IcapStep, IcapAlone, IcapMovesOrNot
  <1>3. IcapInv => BitstreamTrue
    <2> SUFFICES ASSUME IcapInv PROVE BitstreamTrue
      OBVIOUS
    <2>1. Hwicap!FedInOrder /\ Hwicap!FromTheBitstream
      BY PortInOrder, FifoFromSection
    <2>2. Hwicap!FifoFits
      BY DEF IcapInv, Feed, FeedAt, RoomFor, Hwicap!FifoFits
    <2>3. Hwicap!ClocksAsNamed(file)
      BY DEF IcapInv, DownloadInOrder
    <2> QED BY <2>1, <2>2, <2>3 DEF BitstreamTrue
  <1> QED BY <1>1, <1>2, <1>3, PTL DEF FairSpec

-----------------------------------------------------------------------------
(* The leaves: lib/group.c, lib/lib-drv.c                                   *)

\* The modules count with the same operator.
LEMMA SameCount == \A S : Cutting!Cardinality(S) = Cardinality(S)
BY DEF Cutting!Cardinality, Cardinality

\* Induction over the numbers, as a fact about a set: the loops over names and
\* descriptors go from one number to the next.
LEMMA SetInduction ==
    ASSUME NEW I, 0 \in I, \A n \in Nat : n \in I => n + 1 \in I
    PROVE  Nat \subseteq I
<1> DEFINE T == Nat \ I
           U == {0 .. x : x \in T}
           R == StrictSubsetOrdering(Nat)
<1>1. SUFFICES ASSUME T # {} PROVE FALSE
  OBVIOUS
<1>2. U # {} /\ U \subseteq FiniteSubsetsOf(Nat)
  <2>1. ASSUME NEW x \in T PROVE 0 .. x \in FiniteSubsetsOf(Nat)
    BY FS_Interval DEF FiniteSubsetsOf
  <2> QED
    BY <1>1, <2>1
<1>3. IsWellFoundedOn(R, FiniteSubsetsOf(Nat))
  BY FS_StrictSubsetOrderingWellFounded
<1>4. \E Z \in U : \A Y \in U : ~ (<<Y, Z>> \in R)
  <2> HIDE DEF U, R
  <2> QED
    BY <1>2, <1>3, WFMin
<1>5. PICK x \in T : \A y \in T : ~ (<<0 .. y, 0 .. x>> \in R)
  BY <1>4
<1>6. x \in Nat /\ x # 0 /\ x - 1 \in Nat /\ x - 1 + 1 = x
  OBVIOUS
<1>7. x - 1 \in T
  BY <1>6
<1>8. /\ 0 .. x - 1 \subseteq 0 .. x /\ x \in 0 .. x /\ x \notin 0 .. x - 1
      /\ 0 .. x \subseteq Nat
  BY <1>6
<1>9. <<0 .. x - 1, 0 .. x>> \in R
  <2> HIDE DEF T
  <2> QED
    BY <1>8 DEF StrictSubsetOrdering
<1> QED
  BY <1>5, <1>7, <1>9

\* One step of the loop over a descriptor's names.
CutNext(f, blob, names, k) ==
    IF k = 0 THEN [rest |-> blob, took |-> {}]
    ELSE Cutting!CutEntry(f[k - 1], names[k])

\* xrt_grp_cut_subdev_dtb's loop is what its steps make of it.
LEMMA CutUnfolds ==
    ASSUME NEW blob, NEW names, Len(names) \in Nat
    PROVE  Cutting!CutAfter(blob, names) =
               [k \in 0 .. Len(names) |-> CutNext(Cutting!CutAfter(blob, names), blob, names, k)]
<1> DEFINE L == Len(names)
           Cut(n, g) == g = [k \in 0 .. n |-> CutNext(g, blob, names, k)]
           I == {n \in Nat : n <= L => \E g : Cut(n, g)}
<1>1. 0 \in I
  <2> DEFINE g0 == [k \in 0 .. 0 |-> [rest |-> blob, took |-> {}]]
  <2>1. Cut(0, g0)
    BY DEF CutNext
  <2> QED
    BY <2>1
<1>2. ASSUME NEW n \in Nat, n \in I PROVE n + 1 \in I
  <2>1. CASE n + 1 <= L
    <3>1. PICK g : Cut(n, g)
      BY <1>2, <2>1
    <3> DEFINE h == [k \in 0 .. n + 1 |->
                        IF k <= n THEN g[k] ELSE Cutting!CutEntry(g[n], names[n + 1])]
    <3>2. ASSUME NEW k \in 0 .. n + 1 PROVE h[k] = CutNext(h, blob, names, k)
      <4>1. CASE k = 0
        <5>1. h[k] = g[k] /\ k \in 0 .. n
          BY <4>1
        <5>2. g[k] = CutNext(g, blob, names, k)
          BY <3>1, <5>1
        <5> QED
          BY <4>1, <5>1, <5>2 DEF CutNext
      <4>2. CASE k # 0 /\ k <= n
        <5>1. h[k] = g[k] /\ k \in 0 .. n /\ h[k - 1] = g[k - 1]
          BY <4>2
        <5>2. g[k] = CutNext(g, blob, names, k)
          BY <3>1, <5>1
        <5> QED
          BY <4>2, <5>1, <5>2 DEF CutNext
      <4>3. CASE k = n + 1
        <5>1. h[n] = g[n] /\ k - 1 = n /\ k # 0
          BY <4>3
        <5>2. h[k] = Cutting!CutEntry(g[n], names[n + 1])
          BY <4>3
        <5> QED
          BY <4>3, <5>1, <5>2 DEF CutNext
      <4> QED
        BY <4>1, <4>2, <4>3
    <3>3. Cut(n + 1, h)
      <4>1. h = [k \in 0 .. n + 1 |-> h[k]]
        OBVIOUS
      <4> HIDE DEF h
      <4> QED
        BY <3>2, <4>1
    <3> HIDE DEF h
    <3>4. \E f : Cut(n + 1, f)
      BY <3>3
    <3> QED
      BY <3>4
  <2>2. CASE ~ (n + 1 <= L)
    BY <2>2
  <2> QED
    BY <2>1, <2>2
<1>3. L \in I
  <2> HIDE DEF I
  <2> QED
    BY <1>1, <1>2, SetInduction
<1>4. \E g : Cut(L, g)
  BY <1>3
<1>5. Cutting!CutAfter(blob, names) = CHOOSE g : Cut(L, g)
  BY DEF Cutting!CutAfter, CutNext
<1> QED
  BY <1>4, <1>5

\* An endpoint the loop takes leaves the blob, and no other.
LEMMA CutMoves ==
    ASSUME NEW c, NEW entry
    PROVE  \/ /\ Cutting!CutEntry(c, entry) = c
              /\ entry \cap c.rest = {} \/ \E e \in entry \cap c.rest : e \in Broken
           \/ \E e \in entry \cap c.rest :
                 Cutting!CutEntry(c, entry) = [rest |-> c.rest \ {e}, took |-> c.took \cup {e}]
<1> DEFINE found == entry \cap c.rest
           e == CHOOSE x \in found : TRUE
<1>1. CASE found = {}
  BY <1>1 DEF Cutting!CutEntry
<1>2. CASE found # {}
  <2>1. e \in found
    BY <1>2
  <2>2. CASE e \in Broken
    <3>1. Cutting!CutEntry(c, entry) = c
      BY <2>2 DEF Cutting!CutEntry
    <3> HIDE DEF e
    <3> QED
      BY <2>1, <2>2, <3>1
  <2>3. CASE e \notin Broken
    <3>1. Cutting!CutEntry(c, entry) = [rest |-> c.rest \ {e}, took |-> c.took \cup {e}]
      BY <1>2, <2>3 DEF Cutting!CutEntry
    <3> HIDE DEF e
    <3> QED
      BY <2>1, <3>1
  <2> QED
    BY <2>2, <2>3
<1> QED
  BY <1>1, <1>2

\* What the loop took and what it left are the blob it started with.
Parts(c, blob) == c.rest \cup c.took = blob /\ c.rest \cap c.took = {}

\* Cutting splits the metadata: what is taken and what is left make up what was there.
LEMMA CutParts ==
    ASSUME NEW blob, NEW names, Len(names) \in Nat
    PROVE  \A k \in 0 .. Len(names) : Parts(Cutting!CutAfter(blob, names)[k], blob)
<1> DEFINE L == Len(names)
           f == Cutting!CutAfter(blob, names)
           I == {n \in Nat : n <= L => Parts(f[n], blob)}
<1>1. \A k \in 0 .. L : f[k] = CutNext(f, blob, names, k)
  <2> HIDE DEF f
  <2>1. f = [k \in 0 .. L |-> CutNext(f, blob, names, k)]
    BY CutUnfolds DEF f
  <2> QED
    BY <2>1
<1> HIDE DEF f
<1>2. 0 \in I
  <2>1. f[0] = [rest |-> blob, took |-> {}]
    <3>1. f[0] = CutNext(f, blob, names, 0)
      BY <1>1
    <3> QED
      BY <3>1 DEF CutNext
  <2> QED
    BY <2>1 DEF Parts
<1>3. ASSUME NEW n \in Nat, n \in I PROVE n + 1 \in I
  <2>1. SUFFICES ASSUME n + 1 <= L PROVE Parts(f[n + 1], blob)
    OBVIOUS
  <2>2. f[n + 1] = Cutting!CutEntry(f[n], names[n + 1]) /\ Parts(f[n], blob)
    BY <1>1, <1>3, <2>1 DEF CutNext
  <2>3. PICK c, entry, d : c = f[n] /\ entry = names[n + 1] /\ d = f[n + 1]
    OBVIOUS
  <2>4. d = c \/ \E e \in c.rest : d = [rest |-> c.rest \ {e}, took |-> c.took \cup {e}]
    <3>1. d = Cutting!CutEntry(c, entry)
      BY <2>2, <2>3
    <3> QED
      BY <3>1, CutMoves
  <2>5. Parts(c, blob) => Parts(d, blob)
    BY <2>4 DEF Parts
  <2> QED
    BY <2>2, <2>3, <2>5
<1>4. Nat \subseteq I
  <2> HIDE DEF I
  <2> QED
    BY <1>2, <1>3, SetInduction
<1> QED
  BY <1>4 DEF f

\* An entry of a descriptor for which the blob has something that can be copied.
Fillable(blob, names, i) == names[i] \cap (blob \ Broken) # {}

\* The loop takes an endpoint for every entry that can be filled: entries match
\* different endpoints, so none takes what another needs.
LEMMA CutCounts ==
    ASSUME NEW blob, IsFiniteSet(blob), NEW desc, DescOf(desc)
    PROVE  LET took == Cutting!CutAfter(blob, desc.names)[Len(desc.names)].took
           IN  /\ IsFiniteSet(took)
               /\ Cardinality({i \in DOMAIN desc.names : Fillable(blob, desc.names, i)})
                      <= Cardinality(took)
<1> DEFINE names == desc.names
           L == Len(names)
           f == Cutting!CutAfter(blob, names)
           S(n) == {i \in 1 .. n : Fillable(blob, names, i)}
           Enough(n) == /\ Cardinality(S(n)) <= Cardinality(f[n].took)
                      /\ \A j \in n + 1 .. L : names[j] \cap f[n].took = {}
           I == {n \in Nat : n <= L => Enough(n)}
<1>1. /\ L \in Nat /\ DOMAIN names = 1 .. L
      /\ \A j, k \in DOMAIN names : j # k => names[j] \cap names[k] = {}
      /\ \A j \in DOMAIN names : names[j] \subseteq Broken \/ names[j] \cap Broken = {}
  BY DEF DescOf
<1>2. \A k \in 0 .. L : f[k] = CutNext(f, blob, names, k) /\ Parts(f[k], blob)
  <2> HIDE DEF f, names
  <2>1. f = [k \in 0 .. L |-> CutNext(f, blob, names, k)]
    BY <1>1, CutUnfolds DEF f
  <2>2. \A k \in 0 .. L : Parts(f[k], blob)
    BY <1>1, CutParts DEF f
  <2> QED
    BY <2>1, <2>2
<1> HIDE DEF f, names
<1>3. ASSUME NEW k \in 0 .. L PROVE IsFiniteSet(f[k].took) /\ f[k].took \subseteq blob
  <2>1. f[k].took \subseteq blob
    BY <1>1, <1>2 DEF Parts
  <2> QED
    BY <2>1, FS_Subset
<1>4. ASSUME NEW n \in Nat PROVE IsFiniteSet(S(n))
  <2>1. IsFiniteSet(1 .. n) /\ S(n) \subseteq 1 .. n
    BY FS_Interval
  <2> HIDE DEF S
  <2> QED
    BY <2>1, FS_Subset
<1>5. 0 \in I
  <2>1. f[0].took = {}
    <3>1. f[0] = [rest |-> blob, took |-> {}]
      <4>1. f[0] = CutNext(f, blob, names, 0)
        BY <1>1, <1>2
      <4> QED
        BY <4>1 DEF CutNext
    <3> QED
      BY <3>1
  <2>2. S(0) = {} /\ Cardinality({}) = 0
    BY FS_EmptySet
  <2>3. Cardinality(S(0)) <= Cardinality(f[0].took)
    <3>1. Cardinality(S(0)) = 0 /\ Cardinality(f[0].took) = 0
      BY <2>1, <2>2
    <3> QED
      BY <3>1
  <2>4. Enough(0)
    BY <2>1, <2>3
  <2> HIDE DEF Enough
  <2> QED
    BY <2>4
<1>6. ASSUME NEW n \in Nat, n \in I PROVE n + 1 \in I
  <2>1. SUFFICES ASSUME n + 1 <= L PROVE Enough(n + 1)
    OBVIOUS
  <2>2. f[n + 1] = Cutting!CutEntry(f[n], names[n + 1]) /\ Parts(f[n], blob) /\ Enough(n)
    BY <1>1, <1>2, <1>6, <2>1 DEF CutNext
  <2>3. PICK c, entry, d, m : /\ c = f[n] /\ entry = names[n + 1] /\ d = f[n + 1]
                              /\ m = n + 1 /\ m \in DOMAIN names /\ n \in 0 .. L /\ m \in 0 .. L
    BY <1>1, <2>1
  <2>4. PICK s, t : /\ s = Cardinality(S(n)) /\ t = Cardinality(c.took)
                    /\ s \in Nat /\ t \in Nat /\ s <= t
    <3>1. IsFiniteSet(S(n)) /\ IsFiniteSet(c.took)
      BY <1>3, <1>4, <2>3
    <3> QED
      BY <2>2, <2>3, <3>1, FS_CardinalityType
  <2>5. \/ d = c /\ (entry \cap c.rest = {} \/ \E e \in entry \cap c.rest : e \in Broken)
        \/ \E e \in entry \cap c.rest : d = [rest |-> c.rest \ {e}, took |-> c.took \cup {e}]
    <3>1. d = Cutting!CutEntry(c, entry)
      BY <2>2, <2>3
    <3> QED
      BY <3>1, CutMoves
  <2>6. entry \cap c.took = {} /\ c.rest \cup c.took = blob /\ c.rest \cap c.took = {}
    BY <1>1, <2>2, <2>3 DEF Parts
  <2>7. \A j \in m + 1 .. L : names[j] \cap c.took = {} /\ names[j] \cap entry = {}
    BY <1>1, <2>2, <2>3
  <2>8. CASE d = c /\ (entry \cap c.rest = {} \/ \E e \in entry \cap c.rest : e \in Broken)
    <3>1. ~ Fillable(blob, names, m)
      <4>1. entry \subseteq Broken \/ entry \cap Broken = {}
        BY <1>1, <2>3
      <4>2. entry \cap (blob \ Broken) = {}
        BY <2>6, <2>8, <4>1
      <4> QED
        BY <2>3, <4>2 DEF Fillable
    <3>2. S(n + 1) = S(n)
      BY <2>3, <3>1
    <3> HIDE DEF S
    <3> QED
      BY <2>2, <2>3, <2>7, <2>8, <3>2
  <2>9. CASE \E e \in entry \cap c.rest : d = [rest |-> c.rest \ {e}, took |-> c.took \cup {e}]
    <3>1. PICK e \in entry \cap c.rest : d.took = c.took \cup {e}
      BY <2>9
    <3>2. Cardinality(d.took) = t + 1
      <4>1. IsFiniteSet(c.took) /\ e \notin c.took
        BY <1>3, <2>3, <2>6
      <4> QED
        BY <2>4, <3>1, <4>1, FS_AddElement
    <3>3. \A j \in m + 1 .. L : names[j] \cap d.took = {}
      BY <2>7, <3>1
    <3>4. Cardinality(S(n + 1)) <= t + 1
      <4>1. S(n + 1) = S(n) \/ S(n + 1) = S(n) \cup {n + 1}
        OBVIOUS
      <4>2. n + 1 \notin S(n) /\ IsFiniteSet(S(n))
        BY <1>4
      <4> HIDE DEF S
      <4>3. PICK A, B : A = S(n) /\ B = S(n + 1)
        OBVIOUS
      <4>4. Cardinality(A \cup {n + 1}) = s + 1
        BY <2>4, <4>2, <4>3, FS_AddElement
      <4>5. Cardinality(A) = s /\ (B = A \/ B = A \cup {n + 1})
        BY <2>4, <4>1, <4>3
      <4>6. Cardinality(B) = s \/ Cardinality(B) = s + 1
        BY <4>4, <4>5
      <4>7. s \in Nat /\ t \in Nat /\ s <= t
        BY <2>4
      <4>8. Cardinality(B) <= t + 1
        BY <4>6, <4>7
      <4> QED
        BY <4>3, <4>8
    <3> HIDE DEF S
    <3> QED
      BY <2>3, <3>2, <3>3, <3>4
  <2> QED
    BY <2>5, <2>8, <2>9
<1>7. L \in I
  <2> HIDE DEF I
  <2> QED
    BY <1>1, <1>5, <1>6, SetInduction
<1>8. Enough(L) /\ IsFiniteSet(f[L].took)
  BY <1>1, <1>3, <1>7
<1>9. S(L) = {i \in DOMAIN names : Fillable(blob, names, i)}
  BY <1>1
<1> QED
  BY <1>8, <1>9 DEF f, names

\* A cut loses nothing, and one that gives nothing could not be filled.
LEMMA CutResult ==
    ASSUME NEW blob, IsFiniteSet(blob), NEW desc, DescOf(desc)
    PROVE  /\ Parts(Cutting!CutDtb(blob, desc), blob)
           /\ Cutting!CutDtb(blob, desc).took = {} =>
                  Cutting!CutDtb(blob, desc).rest = blob /\ ~ Cutting!Fills(blob, desc)
<1>1. PICK c, n : /\ c = Cutting!CutAfter(blob, desc.names)[Len(desc.names)]
                  /\ n = Cardinality({i \in DOMAIN desc.names : Fillable(blob, desc.names, i)})
  OBVIOUS
<1>2. Cutting!CutDtb(blob, desc) = Cutting!PutBack(c, desc.min)
  BY <1>1 DEF Cutting!CutDtb
<1>3. Parts(c, blob)
  <2>1. Len(desc.names) \in Nat
    BY DEF DescOf
  <2>2. Len(desc.names) \in 0 .. Len(desc.names)
    BY <2>1
  <2> QED
    BY <1>1, <2>1, <2>2, CutParts
<1>4. IsFiniteSet(c.took) /\ n <= Cardinality(c.took)
  BY <1>1, CutCounts
<1>5. desc.min \in Nat /\ desc.min > 0
  BY DEF DescOf
<1>6. n \in Nat /\ Cardinality(c.took) \in Nat
  <2>1. IsFiniteSet(DOMAIN desc.names)
    BY FS_Interval DEF DescOf
  <2>2. IsFiniteSet({i \in DOMAIN desc.names : Fillable(blob, desc.names, i)})
    BY <2>1, FS_Subset
  <2> QED
    BY <1>1, <1>4, <2>2, FS_CardinalityType
<1>7. Cutting!Fills(blob, desc) <=> n >= desc.min
  BY <1>1, SameCount DEF Cutting!Fills, Fillable
<1>8. CASE Cardinality(c.took) >= desc.min
  <2>1. Cutting!PutBack(c, desc.min) = c
    BY <1>8, SameCount DEF Cutting!PutBack
  <2>2. c.took # {}
    BY <1>5, <1>8, FS_EmptySet
  <2> QED
    BY <1>2, <1>3, <2>1, <2>2
<1>9. CASE ~ (Cardinality(c.took) >= desc.min)
  <2>1. Cutting!PutBack(c, desc.min) = [rest |-> c.rest \cup c.took, took |-> {}]
    BY <1>9, SameCount DEF Cutting!PutBack
  <2>2. ~ (n >= desc.min)
    BY <1>4, <1>5, <1>6, <1>9
  <2> QED
    BY <1>2, <1>3, <1>7, <2>1, <2>2 DEF Parts
<1> QED
  BY <1>8, <1>9

\* What a blob cannot fill, a smaller one cannot.
LEMMA FillsLess ==
    ASSUME NEW blob, NEW less, less \subseteq blob, NEW desc, DescOf(desc),
           Cutting!Fills(less, desc)
    PROVE  Cutting!Fills(blob, desc)
<1> DEFINE S(b) == {i \in DOMAIN desc.names : desc.names[i] \cap (b \ Broken) # {}}
<1>1. IsFiniteSet(DOMAIN desc.names) /\ desc.min \in Nat
  BY FS_Interval DEF DescOf
<1>2. S(less) \subseteq S(blob) /\ S(blob) \subseteq DOMAIN desc.names
  OBVIOUS
<1>3. Cardinality(S(less)) >= desc.min
  BY SameCount DEF Cutting!Fills
<1>4. PICK A, B : A = S(less) /\ B = S(blob)
  OBVIOUS
<1>5. Cardinality(B) >= desc.min
  <2>1. IsFiniteSet(B) /\ A \subseteq B
    BY <1>1, <1>2, <1>4, FS_Subset
  <2>2. Cardinality(A) <= Cardinality(B) /\ IsFiniteSet(A)
    BY <2>1, FS_Subset
  <2>3. Cardinality(A) \in Nat /\ Cardinality(B) \in Nat
    BY <2>1, <2>2, FS_CardinalityType
  <2> QED
    BY <1>1, <1>3, <1>4, <2>2, <2>3
<1> QED
  BY <1>4, <1>5, SameCount DEF Cutting!Fills

-----------------------------------------------------------------------------
Making == {"cut", "add", "register", "probe"}

LeavesTypes ==
    /\ groupPc \in [Group -> Making \cup {"down", "up", "fini"}]
    /\ pos \in [Group -> 1 .. Len(Descs) + 1]
    /\ DOMAIN grp_dtb = Group /\ DOMAIN dtb = Group /\ DOMAIN lost = Group
    /\ DOMAIN leaves = Group /\ DOMAIN inst = Group /\ DOMAIN failed = Group

\* No number of a driver is used twice.
OneNumberEach ==
    /\ \A d, e \in devices : d.drv = e.drv /\ d.inst = e.inst => d = e
    /\ \A g, h \in Cutting!Registering :
          Cutting!DrvOf(g) = Cutting!DrvOf(h) /\ inst[g] = inst[h] => g = h
    /\ \A d \in devices : \A g \in Cutting!Registering :
          ~ (d.drv = Cutting!DrvOf(g) /\ d.inst = inst[g])

\* A group holds a number while it probes, and its leaves are its devices.
Numbers ==
    /\ \A g \in Group : inst[g] # Cutting!NoInstance <=> groupPc[g] = "probe"
    /\ \A g \in Group : leaves[g] = {d \in devices : d.grp = g}
    /\ IsFiniteSet(devices) /\ IsFiniteSet(ida)
    /\ OneNumberEach
    /\ Cutting!InstancesExact

\* The endpoints of a group are apart: those left, those in hand, those of each
\* leaf, and those given up.
Apart(g) ==
    /\ grp_dtb[g] \cap dtb[g] = {} /\ grp_dtb[g] \cap lost[g] = {}
    /\ dtb[g] \cap lost[g] = {}
    /\ \A d \in leaves[g] : d.eps \cap (grp_dtb[g] \cup dtb[g] \cup lost[g]) = {}

Homes(g) ==
    /\ \A d, e \in leaves[g] : d # e => d.eps \cap e.eps = {}
    /\ groupPc[g] = "down" => leaves[g] = {}
    /\ groupPc[g] \notin {"add", "register", "probe"} => dtb[g] = {}
    /\ groupPc[g] \in Making =>
          /\ EpsOf[g] = grp_dtb[g] \cup dtb[g] \cup lost[g] \cup Cutting!EpsOfLeaves(g)
          /\ Apart(g)

\* No descriptor the group is past could be filled.
Tried(g) ==
    groupPc[g] \in Making /\ failed[g] = 0 =>
        \A i \in 1 .. pos[g] - 1 :
            Descs[i].drv \in registered => ~ Cutting!Fills(grp_dtb[g], Descs[i])

LeavesInv == LeavesTypes /\ Numbers /\ \A g \in Group : Homes(g) /\ Tried(g)

-----------------------------------------------------------------------------
\* xrt_drv_get_instance takes a number that is free, the least one.
LEMMA FirstFree ==
    ASSUME NEW S, S \subseteq Nat, S # {}
    PROVE  Cutting!Min(S) \in S
<1>1. \E x \in S : \A y \in S : x <= y
  <2> DEFINE I == {n \in Nat : \A m \in 0 .. n : m \notin S}
  <2>1. SUFFICES ASSUME \A x \in S : \E y \in S : ~ (x <= y) PROVE FALSE
    OBVIOUS
  <2>2. 0 \in I
    BY <2>1
  <2>3. ASSUME NEW n \in Nat, n \in I PROVE n + 1 \in I
    <3>1. ASSUME n + 1 \in S PROVE FALSE
      <4>1. PICK y \in S : ~ (n + 1 <= y)
        BY <2>1, <3>1
      <4> QED
        BY <2>3, <4>1
    <3> QED
      BY <2>3, <3>1
  <2>4. Nat \subseteq I
    <3> HIDE DEF I
    <3> QED
      BY <2>2, <2>3, SetInduction
  <2>5. PICK x \in S : x \in Nat
    OBVIOUS
  <2>6. x \in I /\ x \in 0 .. x
    BY <2>4, <2>5
  <2> QED
    BY <2>5, <2>6
<1> QED
  BY <1>1 DEF Cutting!Min

\* The numbers of the devices, and those groups hold for a device they register.
Owned == {<<d.drv, d.inst>> : d \in devices}
Held  == {<<Cutting!DrvOf(g), inst[g]>> : g \in Cutting!Registering}

\* The instances in use, told by their owners and by their number.
LEMMA Exactly ==
    Cutting!InstancesExact <=>
        /\ ida = Owned \cup Held
        /\ Cardinality(ida) = Cardinality(devices) + Cardinality(Cutting!Registering)
BY SameCount DEF Cutting!InstancesExact, Owned, Held

\* Only finitely many instances are in use, so they can be counted.
LEMMA CountsAreNumbers ==
    ASSUME Numbers
    PROVE  /\ IsFiniteSet(Cutting!Registering)
           /\ Cardinality(ida) \in Nat /\ Cardinality(devices) \in Nat
           /\ Cardinality(Cutting!Registering) \in Nat
<1>1. IsFiniteSet(Cutting!Registering)
  <2>1. Cutting!Registering \subseteq Group
    BY DEF Cutting!Registering
  <2> QED
    BY <2>1, LeavesAssumption, FS_Subset
<1> QED
  BY <1>1, FS_CardinalityType DEF Numbers

\* Most steps touch no number and no device.
LEMMA NumbersQuiet ==
    ASSUME Numbers, UNCHANGED <<ida, devices, leaves, inst>>,
           \A g \in Group : groupPc'[g] = "probe" <=> groupPc[g] = "probe",
           \A g \in Group : groupPc[g] = "probe" => pos'[g] = pos[g]
    PROVE  Numbers'
<1>1. /\ Cutting!Registering' = Cutting!Registering
      /\ \A g \in Cutting!Registering : Cutting!DrvOf(g)' = Cutting!DrvOf(g)
  BY DEF Numbers, Cutting!Registering, Cutting!DrvOf
<1>2. Owned' = Owned /\ Held' = Held
  BY <1>1 DEF Owned, Held
<1>3. Cutting!InstancesExact'
  BY <1>1, <1>2, Exactly, SameCount DEF Numbers, Cutting!InstancesExact, Owned, Held
<1>4. OneNumberEach'
  BY <1>1 DEF Numbers, OneNumberEach
<1> QED
  BY <1>3, <1>4 DEF Numbers, Cutting!NoInstance

\* xrt_drv_get_instance.
LEMMA NumbersGetInstance ==
    ASSUME LeavesTypes, Numbers, NEW g \in Group, Cutting!GetInstance(g)
    PROVE  Numbers'
<1> USE DEF Cutting!GetInstance, Cutting!Goto
<1>1. PICK d, i, u : d = Cutting!DrvOf(g) /\ i = inst'[g] /\ u = <<d, i>>
  OBVIOUS
<1>2. i \in 0 .. MaxNodes /\ u \notin ida /\ i # Cutting!NoInstance
  <2>1. i = Cutting!Min(Cutting!FreeInstances(d)) /\ Cutting!FreeInstances(d) # {}
    BY <1>1 DEF LeavesTypes
  <2>2. i \in Cutting!FreeInstances(d)
    <3>1. Cutting!FreeInstances(d) \subseteq Nat
      BY LeavesAssumption DEF Cutting!FreeInstances, Cutting!Instances
    <3> QED
      BY <2>1, <3>1, FirstFree
  <2> QED
    BY <1>1, <2>2, LeavesAssumption
    DEF Cutting!FreeInstances, Cutting!Instances, Cutting!NoInstance
<1>3. /\ ida' = ida \cup {u} /\ devices' = devices /\ leaves' = leaves
      /\ \A h \in Group : h # g => inst'[h] = inst[h]
      /\ \A h \in Group : Cutting!DrvOf(h)' = Cutting!DrvOf(h)
      /\ groupPc[g] = "register" /\ groupPc'[g] = "probe"
      /\ \A h \in Group : h # g => groupPc'[h] = groupPc[h]
  BY <1>1 DEF LeavesTypes, Cutting!DrvOf
<1>4. /\ Cutting!Registering' = Cutting!Registering \cup {g}
      /\ g \notin Cutting!Registering
  BY <1>1, <1>2, <1>3 DEF Numbers, Cutting!Registering
<1>5. Owned' = Owned /\ Held' = Held \cup {u}
  <2>1. \A h \in Cutting!Registering : h \in Group /\ h # g
    BY <1>4 DEF Cutting!Registering
  <2> QED
    BY <1>1, <1>3, <1>4, <2>1 DEF Owned, Held
<1>6. ida = Owned \cup Held
  BY Exactly DEF Numbers
<1>7. Cardinality(ida') = Cardinality(devices') + Cardinality(Cutting!Registering')
  <2>1. Cardinality(ida) = Cardinality(devices) + Cardinality(Cutting!Registering)
    BY Exactly DEF Numbers
  <2>2. PICK n, m, k : /\ n = Cardinality(ida) /\ m = Cardinality(devices)
                       /\ k = Cardinality(Cutting!Registering)
                       /\ n \in Nat /\ m \in Nat /\ k \in Nat /\ n = m + k
    BY <2>1, CountsAreNumbers
  <2>3. Cardinality(ida') = n + 1
    BY <1>2, <1>3, <2>2, FS_AddElement DEF Numbers
  <2>4. Cardinality(Cutting!Registering') = k + 1
    BY <1>4, <2>2, CountsAreNumbers, FS_AddElement
  <2>5. Cardinality(devices') = m
    BY <1>3, <2>2
  <2> QED
    BY <2>2, <2>3, <2>4, <2>5
<1>8. Cutting!InstancesExact'
  <2>1. ida' = Owned' \cup Held'
    BY <1>3, <1>5, <1>6
  <2> QED
    BY <1>7, <2>1, SameCount DEF Cutting!InstancesExact, Owned, Held
<1>9. OneNumberEach'
  <2>1. \A e \in devices : ~ (e.drv = d /\ e.inst = i)
    BY <1>1, <1>2, <1>6 DEF Owned
  <2>2. \A h \in Cutting!Registering : ~ (Cutting!DrvOf(h) = d /\ inst[h] = i)
    BY <1>1, <1>2, <1>6 DEF Held
  <2>3. \A h \in Cutting!Registering : h \in Group /\ h # g
    BY <1>4 DEF Cutting!Registering
  <2>4. /\ Cutting!DrvOf(g)' = d /\ inst'[g] = i
        /\ \A h \in Cutting!Registering : Cutting!DrvOf(h)' = Cutting!DrvOf(h) /\ inst'[h] = inst[h]
    BY <1>1, <1>3, <2>3
  <2> QED
    BY <1>3, <1>4, <2>1, <2>2, <2>4 DEF Numbers, OneNumberEach
<1>10. IsFiniteSet(ida')
  BY <1>3, FS_AddElement DEF Numbers
<1>11. \A h \in Group : inst'[h] # Cutting!NoInstance <=> groupPc'[h] = "probe"
  BY <1>1, <1>2, <1>3 DEF Numbers
<1> QED
  BY <1>3, <1>8, <1>9, <1>10, <1>11 DEF Numbers, Cutting!NoInstance

\* A probe that ends: the group holds its number no more, whoever has it then.
LEMMA NoLongerHeld ==
    ASSUME LeavesTypes, Numbers, NEW g \in Group, groupPc[g] = "probe",
           inst' = [inst EXCEPT ![g] = Cutting!NoInstance], pos' = pos
    PROVE  /\ g \in Cutting!Registering
           /\ Cutting!Registering' = Cutting!Registering \ {g}
           /\ Held' = Held \ {<<Cutting!DrvOf(g), inst[g]>>}
           /\ \A h \in Cutting!Registering \ {g} :
                  inst'[h] = inst[h] /\ Cutting!DrvOf(h)' = Cutting!DrvOf(h)
           /\ Cardinality(Cutting!Registering') = Cardinality(Cutting!Registering) - 1
<1>1. /\ inst'[g] = Cutting!NoInstance /\ \A h \in Group : h # g => inst'[h] = inst[h]
      /\ \A h \in Group : Cutting!DrvOf(h)' = Cutting!DrvOf(h)
  BY DEF LeavesTypes, Cutting!DrvOf
<1>2. /\ g \in Cutting!Registering
      /\ Cutting!Registering' = Cutting!Registering \ {g}
  BY <1>1 DEF Numbers, Cutting!Registering, Cutting!NoInstance
<1>3. \A h \in Cutting!Registering \ {g} :
          inst'[h] = inst[h] /\ Cutting!DrvOf(h)' = Cutting!DrvOf(h)
  BY <1>1 DEF Cutting!Registering
<1>4. \A h \in Cutting!Registering \ {g} :
          <<Cutting!DrvOf(h), inst[h]>> # <<Cutting!DrvOf(g), inst[g]>>
  BY <1>2 DEF Numbers, OneNumberEach
<1>5. Held' = Held \ {<<Cutting!DrvOf(g), inst[g]>>}
  BY <1>2, <1>3, <1>4 DEF Held
<1>6. Cardinality(Cutting!Registering') = Cardinality(Cutting!Registering) - 1
  BY <1>2, CountsAreNumbers, FS_RemoveElement
<1> QED
  BY <1>2, <1>3, <1>5, <1>6

\* xrt_device_register succeeds: the number is the device's.
LEMMA NumbersDeviceAdd ==
    ASSUME LeavesTypes, Numbers, NEW g \in Group, Cutting!DeviceAdd(g)
    PROVE  Numbers'
<1> USE DEF Cutting!DeviceAdd, Cutting!Goto
<1>1. PICK d, u : d = Cutting!TheDevice(g) /\ u = <<Cutting!DrvOf(g), inst[g]>>
  OBVIOUS
<1>2. d.grp = g /\ d.drv = Cutting!DrvOf(g) /\ d.inst = inst[g] /\ u = <<d.drv, d.inst>>
  BY <1>1 DEF Cutting!TheDevice
<1>3. /\ ida' = ida /\ devices' = devices \cup {d} /\ pos' = pos
      /\ leaves' = [leaves EXCEPT ![g] = @ \cup {d}]
      /\ inst' = [inst EXCEPT ![g] = Cutting!NoInstance]
      /\ groupPc[g] = "probe" /\ groupPc' = [groupPc EXCEPT ![g] = "cut"]
  BY <1>1
<1>4. /\ g \in Cutting!Registering
      /\ Cutting!Registering' = Cutting!Registering \ {g}
      /\ Held' = Held \ {u} /\ u \in Held
      /\ \A h \in Cutting!Registering \ {g} :
             inst'[h] = inst[h] /\ Cutting!DrvOf(h)' = Cutting!DrvOf(h)
      /\ Cardinality(Cutting!Registering') = Cardinality(Cutting!Registering) - 1
  BY <1>1, <1>3, NoLongerHeld DEF Held
<1>5. d \notin devices /\ \A e \in devices : ~ (e.drv = d.drv /\ e.inst = d.inst)
  BY <1>2, <1>4 DEF Numbers, OneNumberEach
<1>6. Owned' = Owned \cup {u}
  BY <1>2, <1>3 DEF Owned
<1>7. ida = Owned \cup Held
  BY Exactly DEF Numbers
<1>8. Cardinality(ida') = Cardinality(devices') + Cardinality(Cutting!Registering')
  <2>1. Cardinality(ida) = Cardinality(devices) + Cardinality(Cutting!Registering)
    BY Exactly DEF Numbers
  <2>2. PICK n, m, k : /\ n = Cardinality(ida) /\ m = Cardinality(devices)
                       /\ k = Cardinality(Cutting!Registering)
                       /\ n \in Nat /\ m \in Nat /\ k \in Nat /\ n = m + k
    BY <2>1, CountsAreNumbers
  <2>3. Cardinality(devices') = m + 1
    BY <1>3, <1>5, <2>2, FS_AddElement DEF Numbers
  <2>4. Cardinality(Cutting!Registering') = k - 1 /\ Cardinality(ida') = n
    BY <1>3, <1>4, <2>2
  <2> QED
    BY <2>2, <2>3, <2>4
<1>9. Cutting!InstancesExact'
  <2>1. ida' = Owned' \cup Held'
    BY <1>3, <1>4, <1>6, <1>7
  <2> QED
    BY <1>8, <2>1, SameCount DEF Cutting!InstancesExact, Owned, Held
<1>10. OneNumberEach'
  <2>1. \A h \in Cutting!Registering \ {g} : ~ (Cutting!DrvOf(h) = d.drv /\ inst[h] = d.inst)
    BY <1>2, <1>4 DEF Numbers, OneNumberEach
  <2> QED
    BY <1>3, <1>4, <1>5, <2>1 DEF Numbers, OneNumberEach
<1>11. IsFiniteSet(devices')
  BY <1>3, FS_AddElement DEF Numbers
<1>12. \A h \in Group : leaves'[h] = {e \in devices' : e.grp = h}
  BY <1>2, <1>3 DEF Numbers, LeavesTypes
<1>13. \A h \in Group : inst'[h] # Cutting!NoInstance <=> groupPc'[h] = "probe"
  BY <1>3 DEF Numbers, LeavesTypes
<1> QED
  BY <1>3, <1>9, <1>10, <1>11, <1>12, <1>13 DEF Numbers, Cutting!NoInstance

\* It does not: the number is free again.
LEMMA NumbersDeviceFails ==
    ASSUME LeavesTypes, Numbers, NEW g \in Group, Cutting!DeviceFails(g)
    PROVE  Numbers'
<1> USE DEF Cutting!DeviceFails, Cutting!Goto, Cutting!PutInstance
<1>1. PICK u : u = <<Cutting!DrvOf(g), inst[g]>>
  OBVIOUS
<1>2. /\ ida' = ida \ {u} /\ devices' = devices /\ pos' = pos /\ leaves' = leaves
      /\ inst' = [inst EXCEPT ![g] = Cutting!NoInstance]
      /\ groupPc[g] = "probe" /\ groupPc' = [groupPc EXCEPT ![g] = "cut"]
  BY <1>1
<1>3. /\ g \in Cutting!Registering
      /\ Cutting!Registering' = Cutting!Registering \ {g}
      /\ Held' = Held \ {u} /\ u \in Held
      /\ \A h \in Cutting!Registering \ {g} :
             inst'[h] = inst[h] /\ Cutting!DrvOf(h)' = Cutting!DrvOf(h)
      /\ Cardinality(Cutting!Registering') = Cardinality(Cutting!Registering) - 1
  BY <1>1, <1>2, NoLongerHeld DEF Held
<1>4. Owned' = Owned /\ u \notin Owned
  BY <1>1, <1>2, <1>3 DEF Owned, Numbers, OneNumberEach
<1>5. ida = Owned \cup Held
  BY Exactly DEF Numbers
<1>6. Cardinality(ida') = Cardinality(devices') + Cardinality(Cutting!Registering')
  <2>1. Cardinality(ida) = Cardinality(devices) + Cardinality(Cutting!Registering)
    BY Exactly DEF Numbers
  <2>2. PICK n, m, k : /\ n = Cardinality(ida) /\ m = Cardinality(devices)
                       /\ k = Cardinality(Cutting!Registering)
                       /\ n \in Nat /\ m \in Nat /\ k \in Nat /\ n = m + k
    BY <2>1, CountsAreNumbers
  <2>3. Cardinality(ida') = n - 1
    BY <1>2, <1>3, <1>5, <2>2, FS_RemoveElement DEF Numbers
  <2>4. Cardinality(Cutting!Registering') = k - 1 /\ Cardinality(devices') = m
    BY <1>2, <1>3, <2>2
  <2> QED
    BY <2>2, <2>3, <2>4
<1>7. Cutting!InstancesExact'
  <2>1. ida' = Owned' \cup Held'
    BY <1>2, <1>3, <1>4, <1>5
  <2> QED
    BY <1>6, <2>1, SameCount DEF Cutting!InstancesExact, Owned, Held
<1>8. OneNumberEach'
  BY <1>2, <1>3 DEF Numbers, OneNumberEach
<1>9. IsFiniteSet(ida')
  BY <1>2, FS_RemoveElement DEF Numbers
<1>10. \A h \in Group : inst'[h] # Cutting!NoInstance <=> groupPc'[h] = "probe"
  BY <1>2 DEF Numbers, LeavesTypes
<1> QED
  BY <1>2, <1>7, <1>8, <1>9, <1>10 DEF Numbers, Cutting!NoInstance

\* xrt_device_unregister: a device goes with its number.
LEMMA NumbersUnregister ==
    ASSUME LeavesTypes, Numbers, NEW g \in Group, Cutting!Unregister(g)
    PROVE  Numbers'
<1>1. PICK d \in leaves[g] :
          /\ devices' = devices \ {d} /\ ida' = ida \ {<<d.drv, d.inst>>}
          /\ leaves' = [leaves EXCEPT ![g] = @ \ {d}]
          /\ inst' = inst /\ pos' = pos /\ groupPc' = groupPc
  BY DEF Cutting!Unregister
<1>2. d \in devices /\ d.grp = g
  BY <1>1 DEF Numbers
<1>3. PICK u : u = <<d.drv, d.inst>>
  OBVIOUS
<1>4. Cutting!Registering' = Cutting!Registering /\ Held' = Held
  BY <1>1 DEF Cutting!Registering, Held, Cutting!NoInstance, Cutting!DrvOf
<1>5. /\ Owned' = Owned \ {u} /\ u \in Owned
  BY <1>1, <1>2, <1>3 DEF Owned, Numbers, OneNumberEach
<1>6. u \notin Held
  BY <1>2, <1>3 DEF Held, Numbers, OneNumberEach
<1>7. ida = Owned \cup Held
  BY Exactly DEF Numbers
<1>8. Cardinality(ida') = Cardinality(devices') + Cardinality(Cutting!Registering')
  <2>1. Cardinality(ida) = Cardinality(devices) + Cardinality(Cutting!Registering)
    BY Exactly DEF Numbers
  <2>2. PICK n, m, k : /\ n = Cardinality(ida) /\ m = Cardinality(devices)
                       /\ k = Cardinality(Cutting!Registering)
                       /\ n \in Nat /\ m \in Nat /\ k \in Nat /\ n = m + k
    BY <2>1, CountsAreNumbers
  <2>3. Cardinality(ida') = n - 1
    BY <1>1, <1>3, <1>5, <1>7, <2>2, FS_RemoveElement DEF Numbers
  <2>4. Cardinality(devices') = m - 1
    BY <1>1, <1>2, <2>2, FS_RemoveElement DEF Numbers
  <2>5. Cardinality(Cutting!Registering') = k
    BY <1>4, <2>2
  <2> QED
    BY <2>2, <2>3, <2>4, <2>5
<1>9. Cutting!InstancesExact'
  <2>1. ida' = Owned' \cup Held'
    BY <1>1, <1>3, <1>4, <1>5, <1>6, <1>7
  <2> QED
    BY <1>8, <2>1, SameCount DEF Cutting!InstancesExact, Owned, Held
<1>10. OneNumberEach'
  BY <1>1, <1>4 DEF Numbers, OneNumberEach, Cutting!DrvOf
<1>11. IsFiniteSet(ida') /\ IsFiniteSet(devices')
  BY <1>1, FS_RemoveElement DEF Numbers
<1>12. \A h \in Group : leaves'[h] = {e \in devices' : e.grp = h}
  BY <1>1, <1>2 DEF Numbers, LeavesTypes
<1> QED
  BY <1>1, <1>9, <1>10, <1>11, <1>12 DEF Numbers, Cutting!NoInstance

-----------------------------------------------------------------------------
\* A step of one group.
StepOf(g) == Cutting!CreateBegin(g) \/ Cutting!Work(g) \/ Cutting!RemoveBegin(g)

\* Every step keeps the types.
LEMMA LeavesTypesKept ==
    ASSUME LeavesTypes, NEW g \in Group, StepOf(g)
    PROVE  LeavesTypes'
<1> USE LeavesAssumption DEF LeavesTypes, Making, Cutting!Goto, Cutting!GiveUp, Cutting!NextDesc,
        Cutting!Stay
<1>1. CASE Cutting!CreateBegin(g)
  BY <1>1 DEF Cutting!CreateBegin
<1>2. CASE Cutting!RemoveBegin(g)
  BY <1>2 DEF Cutting!RemoveBegin
<1>3. CASE Cutting!Cut(g)
  <2>1. pos'[g] = pos[g] \/ (pos'[g] = pos[g] + 1 /\ pos[g] <= Len(Descs))
    BY <1>3 DEF Cutting!Cut
  <2>2. pos' = [pos EXCEPT ![g] = pos'[g]]
    BY <1>3 DEF Cutting!Cut
  <2>3. pos' \in [Group -> 1 .. Len(Descs) + 1]
    BY <2>1, <2>2
  <2> QED
    BY <1>3, <2>3 DEF Cutting!Cut
<1>4. CASE Cutting!CutFails(g)
  BY <1>4 DEF Cutting!CutFails
<1>5. CASE Cutting!GetRes(g)
  BY <1>5 DEF Cutting!GetRes
<1>6. CASE Cutting!ResConflict(g)
  BY <1>6 DEF Cutting!ResConflict
<1>7. CASE Cutting!GetInstance(g)
  BY <1>7 DEF Cutting!GetInstance
<1>8. CASE Cutting!NoDevice(g)
  BY <1>8 DEF Cutting!NoDevice
<1>9. CASE Cutting!DeviceAdd(g)
  BY <1>9 DEF Cutting!DeviceAdd
<1>10. CASE Cutting!DeviceFails(g)
  BY <1>10 DEF Cutting!DeviceFails
<1>11. CASE Cutting!CreateEnd(g)
  BY <1>11 DEF Cutting!CreateEnd
<1>12. CASE Cutting!Unregister(g)
  BY <1>12 DEF Cutting!Unregister
<1>13. CASE Cutting!RemoveEnd(g)
  BY <1>13 DEF Cutting!RemoveEnd
<1> QED
  BY <1>1, <1>2, <1>3, <1>4, <1>5, <1>6, <1>7, <1>8, <1>9, <1>10, <1>11, <1>12, <1>13 DEF StepOf, Cutting!Work

\* What belongs to another group.
LEMMA OthersKeep ==
    ASSUME LeavesTypes, NEW g \in Group, StepOf(g), NEW h \in Group, h # g
    PROVE  /\ groupPc'[h] = groupPc[h] /\ pos'[h] = pos[h] /\ failed'[h] = failed[h]
           /\ grp_dtb'[h] = grp_dtb[h] /\ dtb'[h] = dtb[h] /\ lost'[h] = lost[h]
           /\ leaves'[h] = leaves[h] /\ registered' = registered
<1> USE DEF LeavesTypes, Cutting!Goto, Cutting!GiveUp, Cutting!NextDesc, Cutting!Stay
<1>1. CASE Cutting!CreateBegin(g)
  BY <1>1 DEF Cutting!CreateBegin
<1>2. CASE Cutting!RemoveBegin(g)
  BY <1>2 DEF Cutting!RemoveBegin
<1>3. CASE Cutting!Cut(g)
  BY <1>3 DEF Cutting!Cut
<1>4. CASE Cutting!CutFails(g)
  BY <1>4 DEF Cutting!CutFails
<1>5. CASE Cutting!GetRes(g)
  BY <1>5 DEF Cutting!GetRes
<1>6. CASE Cutting!ResConflict(g)
  BY <1>6 DEF Cutting!ResConflict
<1>7. CASE Cutting!GetInstance(g)
  BY <1>7 DEF Cutting!GetInstance
<1>8. CASE Cutting!NoDevice(g)
  BY <1>8 DEF Cutting!NoDevice
<1>9. CASE Cutting!DeviceAdd(g)
  BY <1>9 DEF Cutting!DeviceAdd
<1>10. CASE Cutting!DeviceFails(g)
  BY <1>10 DEF Cutting!DeviceFails
<1>11. CASE Cutting!CreateEnd(g)
  BY <1>11 DEF Cutting!CreateEnd
<1>12. CASE Cutting!Unregister(g)
  BY <1>12 DEF Cutting!Unregister
<1>13. CASE Cutting!RemoveEnd(g)
  BY <1>13 DEF Cutting!RemoveEnd
<1> QED
  BY <1>1, <1>2, <1>3, <1>4, <1>5, <1>6, <1>7, <1>8, <1>9, <1>10, <1>11, <1>12, <1>13 DEF StepOf, Cutting!Work

\* The numbers stay those of the devices.
LEMMA NumbersKept ==
    ASSUME LeavesTypes, Numbers, NEW g \in Group, StepOf(g)
    PROVE  Numbers'
<1> DEFINE Quiet == /\ UNCHANGED <<ida, devices, leaves, inst>>
                    /\ \A h \in Group : groupPc'[h] = "probe" <=> groupPc[h] = "probe"
                    /\ \A h \in Group : groupPc[h] = "probe" => pos'[h] = pos[h]
<1> USE DEF LeavesTypes, Cutting!Goto, Cutting!GiveUp, Cutting!NextDesc, Cutting!Stay, Cutting!bus
<1>1. ASSUME Cutting!CreateBegin(g) PROVE Quiet
  BY <1>1 DEF Cutting!CreateBegin
<1>2. ASSUME Cutting!RemoveBegin(g) PROVE Quiet
  BY <1>2 DEF Cutting!RemoveBegin
<1>3. ASSUME Cutting!Cut(g) PROVE Quiet
  BY <1>3 DEF Cutting!Cut
<1>4. ASSUME Cutting!CutFails(g) PROVE Quiet
  BY <1>4 DEF Cutting!CutFails
<1>5. ASSUME Cutting!GetRes(g) PROVE Quiet
  BY <1>5 DEF Cutting!GetRes
<1>6. ASSUME Cutting!ResConflict(g) PROVE Quiet
  BY <1>6 DEF Cutting!ResConflict
<1>7. ASSUME Cutting!NoDevice(g) PROVE Quiet
  BY <1>7 DEF Cutting!NoDevice
<1>8. ASSUME Cutting!CreateEnd(g) PROVE Quiet
  BY <1>8 DEF Cutting!CreateEnd
<1>9. ASSUME Cutting!RemoveEnd(g) PROVE Quiet
  BY <1>9 DEF Cutting!RemoveEnd
<1>10. Quiet => Numbers'
  BY NumbersQuiet
<1> HIDE DEF Quiet
<1> QED
  BY <1>1, <1>2, <1>3, <1>4, <1>5, <1>6, <1>7, <1>8, <1>9, <1>10,
     NumbersGetInstance, NumbersDeviceAdd, NumbersDeviceFails, NumbersUnregister
  DEF StepOf, Cutting!Work

\* What a cut does to the group that makes it.
CutOf(g, rest, took) ==
    /\ Parts([rest |-> rest, took |-> took], grp_dtb[g])
    /\ grp_dtb'[g] = rest /\ dtb'[g] = took
    /\ took = {} => /\ rest = grp_dtb[g] /\ groupPc'[g] = "cut" /\ pos'[g] = pos[g] + 1
                    /\ Descs[pos[g]].drv \in registered =>
                           ~ Cutting!Fills(grp_dtb[g], Descs[pos[g]])
    /\ took # {} => groupPc'[g] = "add" /\ pos'[g] = pos[g]

\* Cutting one driver's endpoints out takes some of them and leaves the rest.
LEMMA CutStep ==
    ASSUME LeavesTypes, NEW g \in Group, Homes(g), Cutting!Cut(g)
    PROVE  \E rest, took : CutOf(g, rest, took)
<1>1. PICK blob, d, c : /\ blob = grp_dtb[g] /\ d = Descs[pos[g]]
                        /\ c = Cutting!CutDtb(blob, d)
  OBVIOUS
<1>2. pos[g] \in DOMAIN Descs /\ DescOf(d)
  BY <1>1, LeavesAssumption DEF LeavesTypes, Cutting!Cut
<1>3. IsFiniteSet(blob)
  <2>1. IsFiniteSet(EpsOf[g]) /\ blob \subseteq EpsOf[g]
    BY <1>1, LeavesAssumption DEF Homes, Making, Cutting!Cut, Cutting!Goto
  <2> QED
    BY <2>1, FS_Subset
<1>4. Parts(c, blob) /\ (c.took = {} => c.rest = blob /\ ~ Cutting!Fills(blob, d))
  BY <1>1, <1>2, <1>3, CutResult
<1>5. CASE d.drv \in registered
  <2>1. /\ grp_dtb'[g] = c.rest /\ dtb'[g] = c.took
        /\ c.took = {} => pos'[g] = pos[g] + 1
        /\ c.took # {} => pos'[g] = pos[g]
    BY <1>1, <1>5 DEF LeavesTypes, Cutting!Cut, Cutting!NextDesc, Cutting!Stay
  <2>2. groupPc'[g] = IF c.took # {} THEN "add" ELSE "cut"
    BY <1>1, <1>5 DEF LeavesTypes, Cutting!Cut, Cutting!Goto
  <2>3. CutOf(g, c.rest, c.took)
    BY <1>1, <1>4, <2>1, <2>2 DEF CutOf, Parts
  <2> QED
    BY <2>3
<1>6. CASE d.drv \notin registered
  <2>1. /\ grp_dtb'[g] = blob /\ dtb'[g] = {} /\ pos'[g] = pos[g] + 1
    BY <1>1, <1>6 DEF LeavesTypes, Cutting!Cut, Cutting!NextDesc
  <2>2. groupPc'[g] = "cut"
    BY <1>1, <1>6 DEF LeavesTypes, Cutting!Cut, Cutting!Goto
  <2>3. CutOf(g, blob, {})
    BY <1>1, <1>6, <2>1, <2>2 DEF CutOf, Parts
  <2> QED
    BY <2>3
<1> QED
  BY <1>5, <1>6

\* Every endpoint keeps one home.
LEMMA HomesKept ==
    ASSUME LeavesTypes, NEW g \in Group, Homes(g), StepOf(g)
    PROVE  Homes(g)'
<1> USE DEF LeavesTypes, Making, Cutting!Goto, Cutting!EpsOfLeaves
<1>1. CASE Cutting!CreateBegin(g)
  BY <1>1 DEF Cutting!CreateBegin, Homes, Apart
<1>2. CASE Cutting!RemoveBegin(g)
  BY <1>2 DEF Cutting!RemoveBegin, Homes
<1>3. CASE Cutting!Cut(g)
  <2>1. PICK rest, took : CutOf(g, rest, took)
    BY <1>3, CutStep
  <2>2. /\ groupPc[g] = "cut" /\ groupPc'[g] \in {"cut", "add"}
        /\ groupPc'[g] = "cut" => took = {}
        /\ lost' = lost /\ leaves' = leaves
    BY <1>3, <2>1 DEF Cutting!Cut, CutOf
  <2>3. dtb[g] = {} /\ grp_dtb[g] = rest \cup took /\ rest \cap took = {}
    BY <2>1, <2>2 DEF Homes, CutOf, Parts
  <2>4. Apart(g)'
    BY <2>1, <2>2, <2>3 DEF Homes, Apart, CutOf
  <2>5. EpsOf[g] = grp_dtb'[g] \cup dtb'[g] \cup lost'[g] \cup Cutting!EpsOfLeaves(g)'
    BY <2>1, <2>2, <2>3 DEF Homes, CutOf
  <2> QED
    BY <2>1, <2>2, <2>4, <2>5 DEF Homes, CutOf
<1>4. CASE Cutting!CutFails(g)
  BY <1>4 DEF Cutting!CutFails, Homes, Apart
<1>5. CASE Cutting!GetRes(g)
  BY <1>5 DEF Cutting!GetRes, Homes, Apart
<1>6. CASE Cutting!GetInstance(g)
  BY <1>6 DEF Cutting!GetInstance, Homes, Apart
<1>7. CASE Cutting!ResConflict(g) \/ Cutting!NoDevice(g) \/ Cutting!DeviceFails(g)
  <2>1. /\ groupPc[g] \in {"add", "register", "probe"} /\ groupPc'[g] = "cut"
        /\ grp_dtb' = grp_dtb /\ leaves' = leaves
        /\ dtb'[g] = {} /\ lost'[g] = lost[g] \cup dtb[g]
    BY <1>7 DEF Cutting!ResConflict, Cutting!NoDevice, Cutting!DeviceFails, Cutting!GiveUp
  <2>2. Apart(g)'
    BY <2>1 DEF Homes, Apart
  <2> QED
    BY <2>1, <2>2 DEF Homes
<1>8. CASE Cutting!DeviceAdd(g)
  <2>1. PICK d : d = Cutting!TheDevice(g)
    OBVIOUS
  <2>2. /\ groupPc[g] = "probe" /\ groupPc'[g] = "cut" /\ d.eps = dtb[g]
        /\ grp_dtb' = grp_dtb /\ lost' = lost
        /\ dtb'[g] = {} /\ leaves'[g] = leaves[g] \cup {d}
    BY <1>8, <2>1 DEF Cutting!DeviceAdd, Cutting!TheDevice
  <2>3. Apart(g)'
    BY <2>2 DEF Homes, Apart
  <2>4. \A e, f \in leaves'[g] : e # f => e.eps \cap f.eps = {}
    BY <2>2 DEF Homes, Apart
  <2>5. Cutting!EpsOfLeaves(g)' = Cutting!EpsOfLeaves(g) \cup dtb[g]
    BY <2>2
  <2>6. EpsOf[g] = grp_dtb'[g] \cup dtb'[g] \cup lost'[g] \cup Cutting!EpsOfLeaves(g)'
    BY <2>2, <2>5 DEF Homes
  <2> QED
    BY <2>2, <2>3, <2>4, <2>6 DEF Homes
<1>9. CASE Cutting!CreateEnd(g)
  BY <1>9 DEF Cutting!CreateEnd, Homes
<1>10. CASE Cutting!Unregister(g)
  BY <1>10 DEF Cutting!Unregister, Homes
<1>11. CASE Cutting!RemoveEnd(g)
  BY <1>11 DEF Cutting!RemoveEnd, Homes
<1> QED
  BY <1>1, <1>2, <1>3, <1>4, <1>5, <1>6, <1>7, <1>8, <1>9, <1>10, <1>11
  DEF StepOf, Cutting!Work

\* No descriptor is passed that could be filled.
LEMMA TriedKept ==
    ASSUME LeavesTypes, NEW g \in Group, Homes(g), Tried(g), StepOf(g)
    PROVE  Tried(g)'
<1> USE DEF LeavesTypes, Making, Cutting!Goto
<1>1. CASE Cutting!CreateBegin(g)
  <2>1. pos'[g] = 1
    BY <1>1 DEF Cutting!CreateBegin
  <2> QED
    BY <2>1 DEF Tried
<1>2. CASE Cutting!RemoveBegin(g) \/ Cutting!CreateEnd(g) \/ Cutting!Unregister(g) \/ Cutting!RemoveEnd(g)
  <2>1. groupPc'[g] \notin Making
    BY <1>2 DEF Cutting!RemoveBegin, Cutting!CreateEnd, Cutting!Unregister, Cutting!RemoveEnd
  <2> QED
    BY <2>1 DEF Tried
<1>3. CASE Cutting!Cut(g)
  <2>1. PICK rest, took : CutOf(g, rest, took)
    BY <1>3, CutStep
  <2>2. groupPc[g] = "cut" /\ failed' = failed /\ registered' = registered
    BY <1>3 DEF Cutting!Cut
  <2>3. SUFFICES ASSUME failed[g] = 0, NEW i \in 1 .. pos'[g] - 1,
                        Descs[i].drv \in registered, Cutting!Fills(grp_dtb'[g], Descs[i])
                 PROVE  FALSE
    BY <2>2 DEF Tried, Cutting!Fills
  <2>4. rest \subseteq grp_dtb[g] /\ grp_dtb'[g] = rest
    BY <2>1 DEF CutOf, Parts
  <2>5. i \in DOMAIN Descs /\ DescOf(Descs[i])
    <3>1. pos'[g] - 1 \in 0 .. Len(Descs)
      BY <1>3, LeavesTypesKept, LeavesAssumption DEF StepOf, Cutting!Work
    <3> QED
      BY <3>1, LeavesAssumption
  <2>6. Cutting!Fills(grp_dtb[g], Descs[i])
    BY <2>3, <2>4, <2>5, FillsLess
  <2>7. i \notin 1 .. pos[g] - 1
    BY <2>2, <2>3, <2>6 DEF Tried
  <2>8. took = {} /\ i = pos[g]
    BY <2>1, <2>7 DEF CutOf
  <2> QED
    BY <2>1, <2>3, <2>6, <2>8 DEF CutOf
<1>4. CASE \/ Cutting!CutFails(g) \/ Cutting!ResConflict(g) \/ Cutting!NoDevice(g)
           \/ Cutting!DeviceFails(g)
  <2>1. failed'[g] = 1
    BY <1>4 DEF Cutting!CutFails, Cutting!ResConflict, Cutting!NoDevice, Cutting!DeviceFails,
                Cutting!GiveUp
  <2> QED
    BY <2>1 DEF Tried
<1>5. CASE Cutting!GetRes(g) \/ Cutting!GetInstance(g) \/ Cutting!DeviceAdd(g)
  <2>1. /\ groupPc[g] \in Making /\ failed' = failed /\ registered' = registered
        /\ pos' = pos /\ grp_dtb' = grp_dtb
    BY <1>5 DEF Cutting!GetRes, Cutting!GetInstance, Cutting!DeviceAdd
  <2> QED
    BY <2>1 DEF Tried, Cutting!Fills
<1> QED
  BY <1>1, <1>2, <1>3, <1>4, <1>5 DEF StepOf, Cutting!Work

\* The steps of the groups keep the invariant.
LEMMA LeavesStep ==
    ASSUME LeavesInv, Cutting!Next PROVE LeavesInv'
<1>1. PICK g \in Group : StepOf(g)
  BY DEF Cutting!Next, StepOf
<1>2. LeavesTypes' /\ Numbers'
  BY <1>1, LeavesTypesKept, NumbersKept DEF LeavesInv
<1>3. ASSUME NEW h \in Group PROVE Homes(h)' /\ Tried(h)'
  <2>1. CASE h = g
    BY <1>1, <2>1, HomesKept, TriedKept DEF LeavesInv
  <2>2. CASE h # g
    <3>1. /\ groupPc'[h] = groupPc[h] /\ pos'[h] = pos[h] /\ failed'[h] = failed[h]
          /\ grp_dtb'[h] = grp_dtb[h] /\ dtb'[h] = dtb[h] /\ lost'[h] = lost[h]
          /\ leaves'[h] = leaves[h] /\ registered' = registered
      BY <1>1, <2>2, OthersKeep DEF LeavesInv
    <3>2. Homes(h) /\ Tried(h)
      BY DEF LeavesInv
    <3>3. Homes(h)'
      BY <3>1, <3>2 DEF Homes, Apart, Cutting!EpsOfLeaves
    <3>4. Tried(h)'
      BY <3>1, <3>2 DEF Tried, Cutting!Fills
    <3> QED
      BY <3>3, <3>4
  <2> QED
    BY <2>1, <2>2
<1> QED
  BY <1>2, <1>3 DEF LeavesInv

\* The other drivers touch no group.
LEMMA LeavesAlone ==
    ASSUME LeavesInv, UNCHANGED leavesVars PROVE LeavesInv'
<1> USE DEF leavesVars
<1>1. LeavesTypes'
  BY DEF LeavesInv, LeavesTypes
<1>2. Numbers'
  BY NumbersQuiet DEF LeavesInv
<1>3. ASSUME NEW h \in Group PROVE Homes(h)' /\ Tried(h)'
  <2>1. Homes(h) /\ Tried(h)
    BY DEF LeavesInv
  <2>2. Homes(h)'
    BY <2>1 DEF Homes, Apart, Cutting!EpsOfLeaves
  <2>3. Tried(h)'
    BY <2>1 DEF Tried, Cutting!Fills
  <2> QED
    BY <2>2, <2>3
<1> QED
  BY <1>1, <1>2, <1>3 DEF LeavesInv

\* No group has leaves when the root starts, and no number is in use.
LEMMA LeavesInit ==
    ASSUME Cutting!Init PROVE LeavesInv
<1> USE DEF Cutting!Init
<1>1. LeavesTypes
  BY LeavesAssumption DEF LeavesTypes
<1>2. Cutting!Registering = {}
  BY DEF Cutting!Registering
<1>3. Cutting!InstancesExact
  <2>1. Owned = {} /\ Held = {}
    BY <1>2 DEF Owned, Held
  <2>2. Cardinality({}) = 0
    BY FS_EmptySet
  <2>3. Cardinality(ida) = Cardinality(devices) + Cardinality(Cutting!Registering)
    BY <1>2, <2>2
  <2> QED
    BY <2>1, <2>3, Exactly
<1>4. Numbers
  BY <1>2, <1>3, FS_EmptySet DEF Numbers, OneNumberEach
<1>5. \A g \in Group : Homes(g) /\ Tried(g)
  BY DEF Homes, Tried, Making
<1> QED
  BY <1>1, <1>4, <1>5 DEF LeavesInv

\* A step of the whole is one of a group or leaves the groups alone.
LEMMA LeavesMoveOrNot ==
    ASSUME [Next]_vars PROVE Cutting!Next \/ UNCHANGED leavesVars
BY DEF Next, vars, FlashMoves, CmcMoves, ClocksMove, IcapMoves, LeavesMove

\* Two sets that are apart.
LEMMA TwoApart ==
    ASSUME NEW A, IsFiniteSet(A), NEW B, IsFiniteSet(B), A \cap B = {}
    PROVE  IsFiniteSet(A \cup B) /\ Cardinality(A \cup B) = Cardinality(A) + Cardinality(B)
<1>1. Cardinality(A \cap B) = 0
  BY FS_EmptySet
<1>2. Cardinality(A) \in Nat /\ Cardinality(B) \in Nat
  BY FS_CardinalityType
<1>3. IsFiniteSet(A \cup B)
      /\ Cardinality(A \cup B) = Cardinality(A) + Cardinality(B) - Cardinality(A \cap B)
  BY FS_Union
<1> QED
  BY <1>1, <1>2, <1>3

\* Sets that are apart have together as many members as one after the other.
LEMMA FourApart ==
    ASSUME NEW S, IsFiniteSet(S), NEW A, NEW B, NEW C, NEW D, S = A \cup B \cup C \cup D,
           A \cap B = {}, A \cap C = {}, A \cap D = {}, B \cap C = {}, B \cap D = {}, C \cap D = {}
    PROVE  Cardinality(S) = Cardinality(A) + Cardinality(B) + Cardinality(C) + Cardinality(D)
<1>1. IsFiniteSet(A) /\ IsFiniteSet(B) /\ IsFiniteSet(C) /\ IsFiniteSet(D)
  BY FS_Subset
<1>2. PICK AB, ABC : AB = A \cup B /\ ABC = AB \cup C
  OBVIOUS
<1>3. AB \cap C = {} /\ ABC \cap D = {} /\ S = ABC \cup D
  BY <1>2
<1>4. IsFiniteSet(AB) /\ Cardinality(AB) = Cardinality(A) + Cardinality(B)
  BY <1>1, <1>2, TwoApart
<1>5. IsFiniteSet(ABC) /\ Cardinality(ABC) = Cardinality(AB) + Cardinality(C)
  BY <1>1, <1>2, <1>3, <1>4, TwoApart
<1>6. Cardinality(S) = Cardinality(ABC) + Cardinality(D)
  BY <1>1, <1>3, <1>5, TwoApart
<1> QED
  BY <1>4, <1>5, <1>6

\* One home for every endpoint, from what is apart.
LEMMA HomesAreOne ==
    ASSUME LeavesInv PROVE Cutting!OneHome
<1>1. ASSUME NEW g \in Group, groupPc[g] \in Making
      PROVE  Cardinality(EpsOf[g]) =
                 Cardinality(grp_dtb[g]) + Cardinality(dtb[g])
                 + Cardinality(lost[g]) + Cardinality(Cutting!EpsOfLeaves(g))
  <2>1. PICK A, B, C, D : /\ A = grp_dtb[g] /\ B = dtb[g] /\ C = lost[g]
                          /\ D = Cutting!EpsOfLeaves(g)
    OBVIOUS
  <2>2. Apart(g) /\ EpsOf[g] = A \cup B \cup C \cup D
    BY <1>1, <2>1 DEF LeavesInv, Homes
  <2>3. /\ A \cap B = {} /\ A \cap C = {} /\ B \cap C = {}
        /\ A \cap D = {} /\ B \cap D = {} /\ C \cap D = {}
    BY <2>1, <2>2 DEF Apart, Cutting!EpsOfLeaves
  <2>4. IsFiniteSet(EpsOf[g])
    BY LeavesAssumption
  <2> QED
    BY <2>1, <2>2, <2>3, <2>4, FourApart
<1> QED
  BY <1>1, SameCount DEF Cutting!OneHome, LeavesInv, Homes, Making

\* At the end of the descriptors, from those that were tried.
LEMMA TriedThemAll ==
    ASSUME LeavesInv PROVE Cutting!NoLeafForgotten
<1> SUFFICES ASSUME NEW g \in Group, groupPc[g] = "cut", pos[g] > Len(Descs), failed[g] = 0,
                    NEW i \in DOMAIN Descs, Descs[i].drv \in registered
             PROVE  ~ Cutting!Fills(grp_dtb[g], Descs[i])
  BY DEF Cutting!NoLeafForgotten
<1>1. i \in 1 .. pos[g] - 1
  BY LeavesAssumption DEF LeavesInv, LeavesTypes
<1> QED
  BY <1>1 DEF LeavesInv, Tried, Making

\* xrt_grp_create_leaves, xrt_device_register, xrt_drv_get_instance.  Whatever
\* fails and however groups come and go at the same time: an endpoint is in one
\* place, a group that has tried all descriptors without a failure has left no
\* leaf out that its metadata could make, and the instance numbers in use are
\* those of the devices and of the ones being registered.  For descriptors as
\* LeavesAssumption has them: of no entry can one endpoint be copied and another
\* not (group.c:73-79 forgets the leaf of such an entry).
THEOREM LeavesStayExact == FairSpec => []LeavesExact
<1>1. Init => LeavesInv
  BY LeavesInit DEF Init
<1>2. LeavesInv /\ [Next]_vars => LeavesInv'
  BY LeavesStep, LeavesAlone, LeavesMoveOrNot
<1>3. LeavesInv => LeavesExact
  BY HomesAreOne, TriedThemAll DEF LeavesExact, LeavesInv, Numbers
<1> QED
  BY <1>1, <1>2, <1>3, PTL DEF FairSpec

-----------------------------------------------------------------------------
(* The clocks: lib/xleaf/clock.c, clkfreq.c                                 *)

\* Who holds clock_lock, and who holds clkfreq_lock.
HasClock(t) == clocksPc[t] \in {"busy", "write0", "write2", "load", "read",
                                "count", "start", "poll", "unlock"}
HasCounter(t) == clocksPc[t] \in {"start", "poll"}

ClocksTypes ==
    /\ clocksPc \in [Clock!Thread -> {"idle", "lock", "busy", "write0", "write2", "load",
                                      "read", "count", "start", "poll", "unlock"}]
    /\ DOMAIN got = Clock!Thread
    /\ asked \in Freq \cup {100}
    /\ clocksPc["set"] \notin {"read", "count", "start", "poll"}
    /\ \A t \in {"get", "ucs"} : clocksPc[t] \notin {"busy", "write0", "write2", "load"}

\* clock_lock is held over a call, clkfreq_lock over a count.
LocksHeld ==
    /\ \A t \in {"set", "get", "ucs"} : HasClock(t) => clk = t
    /\ \A t \in {"get", "ucs", "show"} : HasCounter(t) => ctr = t

\* Both registers hold the row of what was asked for, but while they are written.
RowsWritten ==
    /\ clocksPc["set"] # "write0" => cfg0 = Clock!FindRow(asked)
    /\ clocksPc["set"] \notin {"write0", "write2"} => cfg2 = Clock!FindRow(asked)

\* What was read is what the registers hold, until the clock is given up; and a
\* count that is done is of what the clock runs at.
ReadHolds ==
    /\ \A t \in {"get", "ucs"} : clocksPc[t] \in {"count", "start", "poll"} =>
           got[t] = Clock!ReadFreq(cfg0, cfg2)
    /\ clocksPc["ucs"] = "poll" /\ status = "done" => meas = pll

ClocksInv == ClocksTypes /\ LocksHeld /\ RowsWritten /\ ReadHolds

\* Every step keeps the types.
LEMMA ClocksTypesKept ==
    ASSUME ClocksTypes, Clock!Next PROVE ClocksTypes'
<1> USE DEF ClocksTypes, Clock!Goto, Clock!Thread, Clock!clockVars, Clock!countVars
<1>1. CASE \E t \in Clock!Thread : Clock!Call(t)
  BY <1>1 DEF Clock!Call
<1>2. CASE \E t \in Clock!Thread \ {"show"} : Clock!Lock(t)
  BY <1>2 DEF Clock!Lock
<1>3. CASE \E t \in Clock!Thread \ {"show"} : Clock!Unlock(t)
  BY <1>3 DEF Clock!Unlock
<1>4. CASE Clock!Busy
  BY <1>4 DEF Clock!Busy
<1>5. CASE Clock!Write0
  BY <1>5 DEF Clock!Write0
<1>6. CASE Clock!Write2
  BY <1>6 DEF Clock!Write2
<1>7. CASE Clock!Load
  BY <1>7 DEF Clock!Load
<1>8. CASE \E t \in {"get", "ucs"} : Clock!Read(t)
  BY <1>8 DEF Clock!Read
<1>9. CASE \E t \in Clock!Thread \ {"set"} : Clock!CountLock(t)
  BY <1>9 DEF Clock!CountLock
<1>10. CASE \E t \in Clock!Thread \ {"set"} : Clock!CountStart(t)
  BY <1>10 DEF Clock!CountStart
<1>11. CASE \E t \in Clock!Thread \ {"set"} : Clock!CountDone(t)
  BY <1>11 DEF Clock!CountDone
<1>12. CASE \E t \in Clock!Thread \ {"set"} : Clock!CountTimesOut(t)
  BY <1>12 DEF Clock!CountTimesOut
<1>13. CASE Clock!Counted
  BY <1>13 DEF Clock!Counted
<1>14. CASE Clock!CalibEvent
  BY <1>14 DEF Clock!CalibEvent
<1> QED
  BY <1>1, <1>2, <1>3, <1>4, <1>5, <1>6, <1>7, <1>8, <1>9, <1>10, <1>11, <1>12, <1>13, <1>14
  DEF Clock!Next, Clock!SetStep, Clock!CountStep

\* Nobody enters a lock that is held.
LEMMA LocksKept ==
    ASSUME ClocksTypes, LocksHeld, Clock!Next PROVE LocksHeld'
<1> USE DEF ClocksTypes, LocksHeld, HasClock, HasCounter, Clock!Goto, Clock!Thread, Clock!clockVars, Clock!countVars
<1>1. CASE \E t \in Clock!Thread : Clock!Call(t)
  BY <1>1 DEF Clock!Call
<1>2. CASE \E t \in Clock!Thread \ {"show"} : Clock!Lock(t)
  BY <1>2, ClocksAssumption DEF Clock!Lock
<1>3. CASE \E t \in Clock!Thread \ {"show"} : Clock!Unlock(t)
  BY <1>3 DEF Clock!Unlock
<1>4. CASE Clock!Busy
  BY <1>4 DEF Clock!Busy
<1>5. CASE Clock!Write0
  BY <1>5 DEF Clock!Write0
<1>6. CASE Clock!Write2
  BY <1>6 DEF Clock!Write2
<1>7. CASE Clock!Load
  BY <1>7 DEF Clock!Load
<1>8. CASE \E t \in {"get", "ucs"} : Clock!Read(t)
  BY <1>8 DEF Clock!Read
<1>9. CASE \E t \in Clock!Thread \ {"set"} : Clock!CountLock(t)
  BY <1>9, ClocksAssumption DEF Clock!CountLock
<1>10. CASE \E t \in Clock!Thread \ {"set"} : Clock!CountStart(t)
  BY <1>10 DEF Clock!CountStart
<1>11. CASE \E t \in Clock!Thread \ {"set"} : Clock!CountDone(t)
  BY <1>11 DEF Clock!CountDone
<1>12. CASE \E t \in Clock!Thread \ {"set"} : Clock!CountTimesOut(t)
  BY <1>12 DEF Clock!CountTimesOut
<1>13. CASE Clock!Counted
  BY <1>13 DEF Clock!Counted
<1>14. CASE Clock!CalibEvent
  BY <1>14 DEF Clock!CalibEvent
<1> QED
  BY <1>1, <1>2, <1>3, <1>4, <1>5, <1>6, <1>7, <1>8, <1>9, <1>10, <1>11, <1>12, <1>13, <1>14
  DEF Clock!Next, Clock!SetStep, Clock!CountStep

\* Only set_freq writes the registers, both with what was asked for.
LEMMA RowsKept ==
    ASSUME ClocksTypes, RowsWritten, Clock!Next PROVE RowsWritten'
<1> USE DEF ClocksTypes, RowsWritten, Clock!Goto, Clock!Thread, Clock!clockVars, Clock!countVars
<1>1. CASE \E t \in Clock!Thread : Clock!Call(t)
  BY <1>1 DEF Clock!Call
<1>2. CASE \E t \in Clock!Thread \ {"show"} : Clock!Lock(t)
  BY <1>2 DEF Clock!Lock
<1>3. CASE \E t \in Clock!Thread \ {"show"} : Clock!Unlock(t)
  BY <1>3 DEF Clock!Unlock
<1>4. CASE Clock!Busy
  BY <1>4 DEF Clock!Busy
<1>5. CASE Clock!Write0
  BY <1>5 DEF Clock!Write0
<1>6. CASE Clock!Write2
  BY <1>6 DEF Clock!Write2
<1>7. CASE Clock!Load
  BY <1>7 DEF Clock!Load
<1>8. CASE \E t \in {"get", "ucs"} : Clock!Read(t)
  BY <1>8 DEF Clock!Read
<1>9. CASE \E t \in Clock!Thread \ {"set"} : Clock!CountLock(t)
  BY <1>9 DEF Clock!CountLock
<1>10. CASE \E t \in Clock!Thread \ {"set"} : Clock!CountStart(t)
  BY <1>10 DEF Clock!CountStart
<1>11. CASE \E t \in Clock!Thread \ {"set"} : Clock!CountDone(t)
  BY <1>11 DEF Clock!CountDone
<1>12. CASE \E t \in Clock!Thread \ {"set"} : Clock!CountTimesOut(t)
  BY <1>12 DEF Clock!CountTimesOut
<1>13. CASE Clock!Counted
  BY <1>13 DEF Clock!Counted
<1>14. CASE Clock!CalibEvent
  BY <1>14 DEF Clock!CalibEvent
<1> QED
  BY <1>1, <1>2, <1>3, <1>4, <1>5, <1>6, <1>7, <1>8, <1>9, <1>10, <1>11, <1>12, <1>13, <1>14
  DEF Clock!Next, Clock!SetStep, Clock!CountStep

\* What was read and counted is not overtaken, since the clock is held.
LEMMA ReadKept ==
    ASSUME ClocksTypes, LocksHeld, ReadHolds, Clock!Next PROVE ReadHolds'
<1> USE DEF ClocksTypes, LocksHeld, HasClock, HasCounter, ReadHolds, Clock!Goto, Clock!Thread, Clock!clockVars, Clock!countVars
<1>1. CASE \E t \in Clock!Thread : Clock!Call(t)
  BY <1>1 DEF Clock!Call
<1>2. CASE \E t \in Clock!Thread \ {"show"} : Clock!Lock(t)
  BY <1>2 DEF Clock!Lock
<1>3. CASE \E t \in Clock!Thread \ {"show"} : Clock!Unlock(t)
  BY <1>3 DEF Clock!Unlock
<1>4. CASE Clock!Busy
  BY <1>4 DEF Clock!Busy
<1>5. CASE Clock!Write0
  BY <1>5 DEF Clock!Write0
<1>6. CASE Clock!Write2
  BY <1>6 DEF Clock!Write2
<1>7. CASE Clock!Load
  BY <1>7 DEF Clock!Load
<1>8. CASE \E t \in {"get", "ucs"} : Clock!Read(t)
  BY <1>8 DEF Clock!Read
<1>9. CASE \E t \in Clock!Thread \ {"set"} : Clock!CountLock(t)
  BY <1>9 DEF Clock!CountLock
<1>10. CASE \E t \in Clock!Thread \ {"set"} : Clock!CountStart(t)
  BY <1>10 DEF Clock!CountStart
<1>11. CASE \E t \in Clock!Thread \ {"set"} : Clock!CountDone(t)
  BY <1>11 DEF Clock!CountDone
<1>12. CASE \E t \in Clock!Thread \ {"set"} : Clock!CountTimesOut(t)
  BY <1>12 DEF Clock!CountTimesOut
<1>13. CASE Clock!Counted
  BY <1>13 DEF Clock!Counted
<1>14. CASE Clock!CalibEvent
  BY <1>14 DEF Clock!CalibEvent
<1> QED
  BY <1>1, <1>2, <1>3, <1>4, <1>5, <1>6, <1>7, <1>8, <1>9, <1>10, <1>11, <1>12, <1>13, <1>14
  DEF Clock!Next, Clock!SetStep, Clock!CountStep

\* The steps of the clocks keep what ties their state to their rows.
LEMMA ClocksStep ==
    ASSUME ClocksInv, Clock!Next PROVE ClocksInv'
BY ClocksTypesKept, LocksKept, RowsKept, ReadKept DEF ClocksInv

\* The other drivers leave the clocks alone.
LEMMA ClocksAlone ==
    ASSUME ClocksInv, UNCHANGED clockVars PROVE ClocksInv'
BY DEF ClocksInv, ClocksTypes, LocksHeld, HasClock, HasCounter, RowsWritten, ReadHolds, clockVars

\* A step of the whole is one of the clocks or leaves them alone.
LEMMA ClocksMoveOrNot ==
    ASSUME [Next]_vars PROVE Clock!Next \/ UNCHANGED clockVars
BY DEF Next, vars, FlashMoves, CmcMoves, ClocksMove, IcapMoves, LeavesMove

\* The clock runs at 100 MHz from the start.
LEMMA ClocksInit ==
    ASSUME TableTrue, Clock!Init PROVE ClocksInv
BY DEF TableTrue, Clock!Init, ClocksInv, ClocksTypes, LocksHeld, HasClock, HasCounter, RowsWritten,
       ReadHolds, Clock!Thread

\* What was read is the row of the frequency asked for, which both registers hold.
LEMMA ReadIsWritten ==
    ASSUME ClocksInv, NEW t \in {"get", "ucs"}, clocksPc[t] \in {"count", "start", "poll"}
    PROVE  /\ cfg0 = Clock!FindRow(asked)
           /\ got[t] = Clock!ReadFreq(Clock!FindRow(asked), Clock!FindRow(asked))
<1>1. clocksPc["set"] \notin {"write0", "write2"}
  BY DEF ClocksInv, LocksHeld, HasClock
<1>2. cfg0 = Clock!FindRow(asked) /\ cfg2 = Clock!FindRow(asked)
  BY <1>1 DEF ClocksInv, RowsWritten
<1>3. got[t] = Clock!ReadFreq(cfg0, cfg2)
  BY DEF ClocksInv, ReadHolds
<1> QED
  BY <1>2, <1>3

\* And the frequency of that row, unless it is misread.
LEMMA ReadIsRow ==
    ASSUME TableTrue, ClocksInv, NEW t \in {"get", "ucs"}, clocksPc[t] \in {"count", "start", "poll"},
           ~Clock!Misread(asked)
    PROVE  got[t] = Clock!Ocl(cfg0) /\ got[t] = Clock!Offered(asked)
<1>1. /\ cfg0 = Clock!FindRow(asked)
      /\ got[t] = Clock!ReadFreq(Clock!FindRow(asked), Clock!FindRow(asked))
  BY ReadIsWritten
<1>2. asked \in Freq \cup {100}
  BY DEF ClocksInv, ClocksTypes
<1>3. Clock!Offered(asked) = Clock!Ocl(Clock!FindRow(asked))
  BY <1>2 DEF TableTrue
<1>4. Clock!ReadFreq(Clock!FindRow(asked), Clock!FindRow(asked)) = Clock!Offered(asked)
  BY DEF Clock!Misread
<1> QED BY <1>1, <1>3, <1>4

\* clock_verify_freq: the count and the frequency it is compared with are those of now.
LEMMA VerdictStep ==
    ASSUME TableTrue, ClocksInv, Clock!Next, clocksPc["ucs"] = "poll", clocksPc'["ucs"] = "unlock",
           ~Clock!Misread(asked)
    PROVE  /\ verdict' = "verified" => Clock!Close(1000 * Clock!Ocl(pll), Clock!Ocl(cfg0))
           /\ verdict' = "mismatch" => ~ Clock!Close(1000 * Clock!Ocl(pll), Clock!Ocl(cfg0))
<1>1. got["ucs"] = Clock!Ocl(cfg0)
  BY ReadIsRow
<1>2. Clock!CountDone("ucs") \/ Clock!CountTimesOut("ucs")
  <2> USE DEF ClocksInv, ClocksTypes, Clock!Goto, Clock!Thread, Clock!clockVars, Clock!countVars
  <2>1. ASSUME \E t \in Clock!Thread : Clock!Call(t) PROVE FALSE
    BY <2>1 DEF Clock!Call
  <2>2. ASSUME \E t \in Clock!Thread \ {"show"} : Clock!Lock(t) PROVE FALSE
    BY <2>2 DEF Clock!Lock
  <2>3. ASSUME \E t \in Clock!Thread \ {"show"} : Clock!Unlock(t) PROVE FALSE
    BY <2>3 DEF Clock!Unlock
  <2>4. ASSUME Clock!Busy PROVE FALSE
    BY <2>4 DEF Clock!Busy
  <2>5. ASSUME Clock!Write0 PROVE FALSE
    BY <2>5 DEF Clock!Write0
  <2>6. ASSUME Clock!Write2 PROVE FALSE
    BY <2>6 DEF Clock!Write2
  <2>7. ASSUME Clock!Load PROVE FALSE
    BY <2>7 DEF Clock!Load
  <2>8. ASSUME \E t \in {"get", "ucs"} : Clock!Read(t) PROVE FALSE
    BY <2>8 DEF Clock!Read
  <2>9. ASSUME \E t \in Clock!Thread \ {"set"} : Clock!CountLock(t) PROVE FALSE
    BY <2>9 DEF Clock!CountLock
  <2>10. ASSUME \E t \in Clock!Thread \ {"set"} : Clock!CountStart(t) PROVE FALSE
    BY <2>10 DEF Clock!CountStart
  <2>11. ASSUME \E t \in Clock!Thread \ {"set"} : Clock!CountDone(t) PROVE Clock!CountDone("ucs")
    <3>1. PICK t \in Clock!Thread \ {"set"} : Clock!CountDone(t)
      BY <2>11
    <3>2. t = "ucs"
      BY <3>1 DEF Clock!CountDone
    <3> QED
      BY <3>1, <3>2
  <2>12. ASSUME \E t \in Clock!Thread \ {"set"} : Clock!CountTimesOut(t) PROVE Clock!CountTimesOut("ucs")
    BY <2>12 DEF Clock!CountTimesOut
  <2>13. ASSUME Clock!Counted PROVE FALSE
    BY <2>13 DEF Clock!Counted
  <2>14. ASSUME Clock!CalibEvent PROVE FALSE
    BY <2>14 DEF Clock!CalibEvent
  <2> QED
    BY <2>1, <2>2, <2>3, <2>4, <2>5, <2>6, <2>7, <2>8, <2>9, <2>10, <2>11, <2>12, <2>13, <2>14
    DEF Clock!Next, Clock!SetStep, Clock!CountStep
<1>3. CASE Clock!CountTimesOut("ucs")
  <2>1. verdict' = "failed"
    BY <1>3 DEF Clock!CountTimesOut
  <2> QED
    BY <2>1
<1>4. CASE Clock!CountDone("ucs")
  <2>1. /\ meas = pll
        /\ verdict' = IF Clock!Close(1000 * Clock!Ocl(meas), got["ucs"]) THEN "verified"
                      ELSE "mismatch"
    BY <1>4 DEF Clock!CountDone, ClocksInv, ReadHolds
  <2>2. verdict' = IF Clock!Close(1000 * Clock!Ocl(pll), Clock!Ocl(cfg0)) THEN "verified"
                  ELSE "mismatch"
    BY <1>1, <2>1
  <2> HIDE DEF Clock!Close
  <2> QED
    BY <2>2
<1> QED
  BY <1>2, <1>3, <1>4

\* clock_set_freq, get_freq, clock_verify_freq.  A frequency that was set is read
\* back as its row is, both registers of one setting, and where get_freq reads
\* that row as what it is, the verdict of a verification is about the frequency
\* the clock runs at and the one its registers hold at that time, whoever sets,
\* reads and counts beside.
THEOREM ClocksStayTrue == TableTrue => (FairSpec => VerdictTrue)
<1> SUFFICES ASSUME TableTrue PROVE FairSpec => VerdictTrue
  OBVIOUS
<1>1. Init => ClocksInv
  BY ClocksInit DEF Init
<1>2. ClocksInv /\ [Next]_vars => ClocksInv'
  BY ClocksStep, ClocksAlone, ClocksMoveOrNot
<1>3. ClocksInv => Clock!ReadsTheSet
  BY ReadIsRow, ReadIsWritten DEF Clock!ReadsTheSet
<1>4. ClocksInv /\ [Next]_vars =>
          [clocksPc["ucs"] = "poll" /\ clocksPc'["ucs"] = "unlock" /\ ~Clock!Misread(asked) =>
              /\ verdict' = "verified" => Clock!Close(1000 * Clock!Ocl(pll), Clock!Ocl(cfg0))
              /\ verdict' = "mismatch" => ~ Clock!Close(1000 * Clock!Ocl(pll), Clock!Ocl(cfg0))]_(Clock!vars)
  <2> SUFFICES ASSUME ClocksInv, [Next]_vars, clocksPc["ucs"] = "poll", clocksPc'["ucs"] = "unlock",
                      ~Clock!Misread(asked)
               PROVE  /\ verdict' = "verified" => Clock!Close(1000 * Clock!Ocl(pll), Clock!Ocl(cfg0))
                      /\ verdict' = "mismatch" => ~ Clock!Close(1000 * Clock!Ocl(pll), Clock!Ocl(cfg0))
    OBVIOUS
  <2>1. ~ UNCHANGED clockVars
    BY DEF clockVars
  <2> QED
    BY <2>1, ClocksMoveOrNot, VerdictStep
<1> QED
  BY <1>1, <1>2, <1>3, <1>4, PTL DEF FairSpec, VerdictTrue, Clock!VerdictTrue

=============================================================================
