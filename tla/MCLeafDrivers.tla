--------------------------- MODULE MCLeafDrivers ----------------------------
(***************************************************************************)
(* The parts of the driver that only meet through calls the other modules  *)
(* model, side by side: the flash, the CMC, the clocks, the bitstream and  *)
(* the making of leaves.  They share no state, so one of them moves in a   *)
(* behaviour, chosen at the start, and the others stay in an initial       *)
(* state.                                                                  *)
(***************************************************************************)
EXTENDS Integers, Sequences, FiniteSets

CONSTANTS
    Slave, Page, Large, Huge, Sector, Size, MaxFaults, FlashCalls,
    Writer, Mishaps, NoPacket, CmcCalls,
    Freq, NoThread, Fractions, ClocksCalls,
    BufSz, MaxSize, Two32, Two64, Depth, IdWords, Word, IcapCalls,
    Drv, Mapped, Broken, MaxNodes, MaxRounds

\* Flash: pages that are read or written in whole, in part and in turn.
Spans == {<<0, 1>>, <<1, 4>>, <<4, 9>>, <<3, 1>>}

\* Leaves: a group with a gate, a controller of two endpoints and two clocks
\* that share a compatible string, and one with half of a controller.
Group == {"plp", "ulp"}
EpsOf == [g \in Group |->
            IF g = "plp" THEN {"gate", "cmc_reg", "cmc_reset", "clk_a", "clk_b"}
            ELSE {"cmc_reg", "clk_a", "deep"}]
Descs == << [drv |-> "axigate", names |-> <<{"gate"}>>, min |-> 1],
            [drv |-> "cmc", names |-> <<{"cmc_reg"}, {"cmc_reset"}>>, min |-> 2],
            [drv |-> "clock", names |-> <<{"clk_a", "clk_b"}>>, min |-> 1],
            [drv |-> "clock", names |-> <<{"deep"}>>, min |-> 1] >>

\* Icap: a file that is right, with a bitstream of two buffers, and files that
\* differ from it in one thing each.
Plain == [length |-> 160, mdSize |-> 20,
          sections |-> << [kind |-> "metadata", offset |-> 10, size |-> 20],
                          [kind |-> "bitstream", offset |-> 40, size |-> 80],
                          [kind |-> "clocks", offset |-> 120, size |-> 12] >>,
          head |-> [magic |-> 4, strings |-> <<2, 1, 1, 2>>, wrong |-> FALSE, bits |-> 44],
          eps |-> {"kernel1", "kernel2"},
          clocks |-> << [type |-> "data", freq |-> 300], [type |-> "unused", freq |-> 1],
                        [type |-> "kernel", freq |-> 500], [type |-> "data", freq |-> 250] >>]

File == { Plain,
          [Plain EXCEPT !.head.bits = 0],
          [Plain EXCEPT !.head.bits = 32],
          [Plain EXCEPT !.head.bits = 46],
          [Plain EXCEPT !.head.bits = 52],
          [Plain EXCEPT !.head.wrong = TRUE],
          [Plain EXCEPT !.head.magic = 0],
          [Plain EXCEPT !.head.strings = <<2, 1, 1, 3>>],
          [Plain EXCEPT !.sections = SubSeq(@, 1, 2), !.head.bits = 16],
          [Plain EXCEPT !.sections[2].size = 16, !.head.bits = 4],
          [Plain EXCEPT !.sections = <<@[1], @[3]>>],
          [Plain EXCEPT !.length = 100],
          [Plain EXCEPT !.mdSize = 21],
          [Plain EXCEPT !.head.bits = 228],
          [Plain EXCEPT !.sections[2].offset = 1000],
          [Plain EXCEPT !.eps = {"kernel1"}] }

VARIABLES
    part,
    mem, sector, latch, busy, select, current, cached, ioOwner, op, at, end,
    start, commands, pages, result, flashCalls, faults, stale, astray, writeLost,
    life, hdl, mb, image, ulp, sem, gen, buf, owner, taken, err, last, blank,
    version, erased, scgen, bdlock, info, fresh, opened, upset, cmcPc, kind,
    todo, ret, cmcCalls,
    cfg0, cfg2, pll, clk, ctr, status, meas, asked, setok, got, verdict, calib,
    clocksPc, clocksCalls,
    leaf, icapPc, file, fifo, running, fedTo, upto, fed, icapRet, icapCalls,
    registered, ida, devices, groupPc, pos, grp_dtb, dtb, inst, leaves, failed,
    lost, rounds

flashVars ==
    <<mem, sector, latch, busy, select, current, cached, ioOwner, op, at,
    end, start, commands, pages, result, flashCalls, faults, stale, astray, writeLost>>
cmcVars ==
    <<life, hdl, mb, image, ulp, sem, gen, buf, owner, taken, err, last,
    blank, version, erased, scgen, bdlock, info, fresh, opened, upset,
    cmcPc, kind, todo, ret, cmcCalls>>
clockVars ==
    <<cfg0, cfg2, pll, clk, ctr, status, meas, asked, setok, got, verdict,
    calib, clocksPc, clocksCalls>>
icapVars ==
    <<leaf, icapPc, file, fifo, running, fedTo, upto, fed, icapRet, icapCalls>>
leavesVars ==
    <<registered, ida, devices, groupPc, pos, grp_dtb, dtb, inst, leaves,
    failed, lost, rounds>>
vars == <<part, flashVars, cmcVars, clockVars, icapVars, leavesVars>>

Qspi    == INSTANCE Flash WITH MaxCalls <- FlashCalls, owner <- ioOwner,
              todo <- commands, buf <- pages, calls <- flashCalls, lost <- writeLost
CmcLeaf == INSTANCE Cmc WITH MaxCalls <- CmcCalls, pc <- cmcPc, calls <- cmcCalls
Clock   == INSTANCE Clocks WITH MaxCalls <- ClocksCalls, pc <- clocksPc, calls <- clocksCalls
Hwicap  == INSTANCE Icap WITH MaxCalls <- IcapCalls, pc <- icapPc, at <- fedTo,
              result <- icapRet, calls <- icapCalls
Cutting == INSTANCE Leaves WITH pc <- groupPc

\* The probe is no thread of a client, and no packet is none.
ASSUME CmcAssumption == "probe" \notin Writer /\ NoPacket \notin CmcLeaf!Packet

\* Buffers are whole words, and what a file says of itself are numbers.
ASSUME IcapAssumption ==
    /\ {BufSz, Word} \subseteq Nat \ {0} /\ BufSz % Word = 0
    /\ {Depth, IdWords} \subseteq Nat /\ {Two32, Two64} \subseteq Nat \ {0}
    /\ \A x \in File :
           /\ x.length \in Nat /\ x.head.bits \in Nat
           /\ Hwicap!HeaderLength(x.head) \in Nat
           /\ LET s == Hwicap!Section(x, "bitstream") IN
              s.err = "ok" => {s.offset, s.size} \subseteq Nat

\* The clocks of each of the files are found in its metadata.
ASSUME InstanceClocks == \A x \in File : Hwicap!ClocksAsNamed(x)

\* Nobody is no thread.
ASSUME ClocksAssumption == NoThread \notin Clock!Thread /\ Fractions \in BOOLEAN

\* The search of the table finds the row that is offered for a frequency that is
\* asked for, where that row is read back as what it is.
TableTrue ==
    /\ Clock!FindRow(100) = 18
    /\ \A f \in Freq \cup {100} :
           Clock!Misread(f) \/ Clock!Offered(f) = Clock!Ocl(Clock!FindRow(f))

ASSUME InstanceTable == TableTrue

\* A driver's descriptor names different endpoints (metadata.h), and either all
\* the endpoints an entry matches can be copied or none.
DescOf(d) ==
    /\ d.min \in Nat \ {0}
    /\ Len(d.names) \in Nat /\ DOMAIN d.names = 1 .. Len(d.names)
    /\ \A j, k \in DOMAIN d.names : j # k => d.names[j] \cap d.names[k] = {}
    /\ \A j \in DOMAIN d.names : \/ d.names[j] \subseteq Broken
                                 \/ d.names[j] \cap Broken = {}

ASSUME LeavesAssumption ==
    /\ IsFiniteSet(Group) /\ \A g \in Group : IsFiniteSet(EpsOf[g])
    /\ MaxNodes \in Nat
    /\ Len(Descs) \in Nat /\ DOMAIN Descs = 1 .. Len(Descs)
    /\ \A i \in DOMAIN Descs : DescOf(Descs[i])

parts == {"flash", "cmc", "clocks", "icap", "leaves"}

Init ==
    /\ part \in parts
    /\ Qspi!Init /\ CmcLeaf!Init /\ Clock!Init /\ Hwicap!Init /\ Cutting!Init
    /\ part # "leaves" => registered = Drv
    /\ part # "icap" => file = Plain
    /\ part # "flash" => sector = [s \in Slave |-> 0]
    /\ part # "cmc" => mb = "runs" /\ ulp = TRUE

FlashMoves == part = "flash" /\ Qspi!Next
    /\ UNCHANGED <<part, cmcVars, clockVars, icapVars, leavesVars>>
CmcMoves(step) == part = "cmc" /\ step
    /\ UNCHANGED <<part, flashVars, clockVars, icapVars, leavesVars>>
ClocksMove == part = "clocks" /\ Clock!Next
    /\ UNCHANGED <<part, flashVars, cmcVars, icapVars, leavesVars>>
LeavesMove(step) == part = "leaves" /\ step
    /\ UNCHANGED <<part, flashVars, cmcVars, clockVars, icapVars>>
IcapMoves == part = "icap" /\ Hwicap!Next
    /\ UNCHANGED <<part, flashVars, cmcVars, clockVars, leavesVars>>

Next ==
    \/ FlashMoves \/ CmcMoves(CmcLeaf!Next)
    \/ ClocksMove \/ IcapMoves \/ LeavesMove(Cutting!Next)

\* The fairness of the parts, each of the part that moves.
CmcFairness ==
    /\ WF_vars(CmcMoves(CmcLeaf!Take \/ CmcLeaf!Answer))
    /\ \A t \in Writer : WF_vars(CmcMoves(CmcLeaf!WriteStep(t)))
    /\ \A t \in Writer \cup {"probe"} : WF_vars(CmcMoves(CmcLeaf!Refresh(t)))

LeavesFairness == \A g \in Group : WF_vars(LeavesMove(Cutting!Work(g)))

FairSpec == Init /\ [][Next]_vars /\ CmcFairness /\ LeavesFairness

-----------------------------------------------------------------------------
(* Their properties                                                         *)

\* Every variable of every part has its type.
TypeOK ==
    /\ part \in parts
    /\ Qspi!TypeOK /\ CmcLeaf!TypeOK /\ Clock!TypeOK /\ Hwicap!TypeOK /\ Cutting!TypeOK

\* qspi.c:855-1024.  A read gives what the chip holds where it was asked for,
\* a write that succeeded is there, whole, with the bytes around it kept, and
\* no write touches a cell outside the pages it spans; of calls that do not move
\* data while qspi_curr_sector is stale, because another chip was used or a
\* transaction that failed was obeyed, and do not run over the end of a chip.
FlashTrue == [](Qspi!ReadTrue /\ Qspi!WriteTrue) /\ Qspi!OnlyItsPages

\* cmc-sc.c:89-246, cmc-ctrl.c:95-179.  Firmware of the SC is written whole and
\* into an erased flash as long as no packet was answered late, what is known of
\* the board follows the firmware it boots, and the controller's own firmware is
\* loaded while it is in reset.
FirmwareSound ==
    /\ CmcLeaf!WrittenErased /\ CmcLeaf!SectionsWhole /\ CmcLeaf!LoadedInReset
    /\ []CmcLeaf!InfoFollowsBoot

\* cmc-mailbox.c:243-273.  The mailbox of the CMC does not stay
\* taken.
HoldEnds == CmcLeaf!HoldEnds

\* clock.c:264-490.  What is verified and what is read are the frequency that was
\* set, where get_freq reads the row of that frequency as what it is.
VerdictTrue == Clock!VerdictTrue /\ []Clock!ReadsTheSet

\* icap.c:106-202, xrt-mgr.c:32-87, xclbin.c.  A bitstream reaches the FPGA whole
\* and in order, from the section it is in unless the file's lengths wrap, and
\* the clocks get the frequencies the file names.
BitstreamTrue ==
    /\ Hwicap!FedInOrder /\ Hwicap!FifoFits /\ Hwicap!FromTheBitstream
    /\ Hwicap!ClocksAsNamed(file)

\* group.c:58-178, lib-drv.c:152-260.  Every endpoint finds one leaf, no leaf is
\* forgotten, and instance numbers are those of the devices there are; of
\* descriptors as LeavesAssumption has them.
LeavesExact == Cutting!OneHome /\ Cutting!NoLeafForgotten /\ Cutting!InstancesExact

\* group.c:131-171.  The making of leaves ends.
CreateEnds == Cutting!CreateEnds
=============================================================================
