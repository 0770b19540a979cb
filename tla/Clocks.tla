------------------------------ MODULE Clocks ------------------------------
\* The clock leaf, the frequency counter it is checked with, the UCS leaf that
\* has it checked, and the calibration leaf that hears of the same events
\* (lib/xleaf/clock.c, clkfreq.c, ucs.c, ddr_calibration.c).
\*
\* A caller sets the frequency; others read it back from the registers of the
\* clock wizard, count it, and compare.  clock_lock is held over a whole call,
\* clkfreq_lock over one count.
EXTENDS Integers, Sequences, FiniteSets

CONSTANTS
    Freq,        \* the frequencies (MHz) that are asked for
    MaxCalls,    \* calls made in all
    NoThread,    \* nobody
    Fractions    \* whether the wizard sets, in what is read back from it, the bits
                 \* that tell of a fraction, which no word of the table has set

VARIABLES
    cfg0, cfg2,  \* CLKFBOUT and CLKOUT0: the rows of the table they hold
    pll,         \* the row the clock runs at
    clk, ctr,    \* who has clock_lock and clkfreq_lock
    status, meas,\* the counter: its control register, and the row it counted
    asked,       \* the frequency asked for last
    setok,       \* whether it was set
    got, verdict,\* what get_freq returned, and what clock_verify_freq
    calib,       \* struct calib: result
    pc, calls

clockVars == <<cfg0, cfg2, pll, asked, setok>>
countVars == <<ctr, status, meas>>
vars == <<clockVars, clk, countVars, got, verdict, calib, pc, calls>>

\* The callers: who sets the frequency (the probe of the leaf or XRT_CLOCK_SET),
\* who asks for it (XRT_CLOCK_GET), the event of a new clock leaf, and a reader
\* of the counter's sysfs file.
Thread == {"set", "get", "ucs", "show"}
----------------------------------------------------------------------------
\* frequency_table: multiplier and its thousandths, divider, output divider and
\* its thousandths; 5 MHz from row to row.
Table == <<
    <<12,750,1,127,500>>, <<15,750,1,105,0>>, <<16,0,1,80,0>>, <<16,0,1,64,0>>, <<15,750,1,52,500>>,
    <<15,750,1,45,0>>, <<16,0,1,40,0>>, <<15,750,1,35,0>>, <<16,0,1,32,0>>, <<15,125,1,27,500>>,
    <<15,750,1,26,250>>, <<14,625,1,22,500>>, <<15,750,1,22,500>>, <<15,750,1,21,0>>,
    <<16,0,1,20,0>>, <<14,875,1,17,500>>, <<15,750,1,17,500>>, <<14,250,1,15,0>>, <<16,0,1,16,0>>,
    <<15,750,1,15,0>>, <<15,125,1,13,750>>, <<14,375,1,12,500>>, <<15,750,1,13,125>>,
    <<15,625,1,12,500>>, <<14,625,1,11,250>>, <<13,500,1,10,0>>, <<15,750,1,11,250>>,
    <<14,500,1,10,0>>, <<15,750,1,10,500>>, <<15,500,1,10,0>>, <<16,0,1,10,0>>, <<12,375,1,7,500>>,
    <<14,875,1,8,750>>, <<15,750,1,9,0>>, <<15,750,1,8,750>>, <<13,875,1,7,500>>,
    <<14,250,1,7,500>>, <<14,625,1,7,500>>, <<16,0,1,8,0>>, <<15,375,1,7,500>>, <<15,750,1,7,500>>,
    <<10,750,1,5,0>>, <<15,125,1,6,875>>, <<15,750,1,7,0>>, <<14,375,1,6,250>>, <<11,750,1,5,0>>,
    <<15,0,1,6,250>>, <<12,250,1,5,0>>, <<15,625,1,6,250>>, <<12,750,1,5,0>>, <<14,625,1,5,625>>,
    <<13,250,1,5,0>>, <<13,500,1,5,0>>, <<15,125,1,5,500>>, <<15,750,1,5,625>>, <<14,250,1,5,0>>,
    <<14,500,1,5,0>>, <<14,750,1,5,0>>, <<15,750,1,5,250>>, <<15,250,1,5,0>>, <<15,500,1,5,0>>,
    <<15,750,1,5,0>>, <<16,0,1,5,0>>, <<14,625,1,4,500>>, <<12,375,1,3,750>>, <<8,375,1,2,500>>,
    <<14,875,1,4,375>>, <<8,625,1,2,500>>, <<15,750,1,4,500>>, <<8,875,1,2,500>>,
    <<15,750,1,4,375>>, <<9,125,1,2,500>>, <<13,875,1,3,750>>, <<15,0,1,4,0>>, <<14,250,1,3,750>>,
    <<9,625,1,2,500>>, <<14,625,1,3,750>>, <<9,875,1,2,500>>, <<16,0,1,4,0>>, <<10,125,1,2,500>>,
    <<15,375,1,3,750>>, <<10,375,1,2,500>>, <<15,750,1,3,750>>, <<14,875,1,3,500>>,
    <<10,750,1,2,500>>, <<10,875,1,2,500>>, <<13,750,1,3,125>>, <<11,125,1,2,500>>,
    <<15,750,1,3,500>>, <<11,375,1,2,500>>, <<14,375,1,3,125>>, <<11,625,1,2,500>>,
    <<11,750,1,2,500>>, <<14,250,1,3,0>>, <<15,0,1,3,125>>, <<12,125,1,2,500>>, <<12,250,1,2,500>>,
    <<12,375,1,2,500>>, <<15,625,1,3,125>>, <<12,625,1,2,500>>, <<12,750,1,2,500>>,
    <<12,875,1,2,500>>, <<13,0,1,2,500>>, <<15,750,1,3,0>>, <<13,250,1,2,500>>, <<13,375,1,2,500>>,
    <<13,500,1,2,500>>, <<13,625,1,2,500>>, <<15,125,1,2,750>>, <<13,875,1,2,500>>,
    <<14,0,1,2,500>>, <<14,125,1,2,500>>, <<14,250,1,2,500>>, <<14,375,1,2,500>>,
    <<14,500,1,2,500>>, <<14,625,1,2,500>>, <<14,750,1,2,500>>, <<14,875,1,2,500>>,
    <<15,750,1,2,625>>, <<15,125,1,2,500>>, <<15,250,1,2,500>>, <<15,375,1,2,500>>,
    <<15,500,1,2,500>>, <<15,625,1,2,500>>, <<15,750,1,2,500>>, <<15,875,1,2,500>>,
    <<16,0,1,2,500>>, <<64,500,5,2,0>>, <<14,625,1,2,250>> >>

Rows == 0 .. Len(Table) - 1
Ocl(i) == 10 + 5 * i

\* The loop of find_matching_freq_config: what it leaves in idx.
SearchRow(freq) ==
    LET search[s \in Rows, e \in Rows, idx \in Rows] ==
            LET mid == (s + e) \div 2 IN
            IF s >= e THEN idx
            ELSE IF freq = Ocl(mid) THEN mid
            ELSE IF freq < Ocl(mid) THEN search[s, mid, mid]
            ELSE search[mid + 1, e, mid]
    IN  search[0, Len(Table) - 1, 0]

\* find_matching_freq_config.
FindRow(freq) ==
    CASE freq < Ocl(0) -> 0
      [] freq > Ocl(Len(Table) - 1) -> Len(Table) - 1
      [] OTHER -> LET idx == SearchRow(freq) IN IF freq < Ocl(idx) THEN idx - 1 ELSE idx

\* BIT(26) of CLKFBOUT, BIT(18) of CLKOUT0: without it the fraction is 0.
Fraction(thousandths) == IF Fractions THEN thousandths ELSE 0

\* get_freq: 100 MHz times the multiplier by the dividers, all in thousandths.
\* Numerator and denominator are u32 (both are kept divided by 8 here), the
\* result u16.
ReadFreq(i, j) ==
    LET mul == 1000 * Table[i + 1][1] + Fraction(Table[i + 1][2])
        div == Table[i + 1][3] * (1000 * Table[j + 1][4] + Fraction(Table[j + 1][5]))
    IN  ((4 * ((3125 * mul) % (2 ^ 27))) \div (125 * div)) % (2 ^ 16)

\* clock_verify_freq: 5 percent.
Close(count, freq) ==
    LET lookup == Ocl(FindRow(freq))
        diff == count - 1000 * lookup
    IN  diff <= 50 * lookup /\ 0 - diff <= 50 * lookup
----------------------------------------------------------------------------
Goto(t, l) == pc' = [pc EXCEPT ![t] = l]

Init ==
    /\ cfg0 = 18 /\ cfg2 = 18 /\ pll = 18
    /\ clk = NoThread /\ ctr = NoThread /\ status = "idle" /\ meas = 18
    /\ asked = 100 /\ setok = TRUE
    /\ got = [t \in Thread |-> 0] /\ verdict = "none" /\ calib = "unknown"
    /\ pc = [t \in Thread |-> "idle"] /\ calls = 0

\* A call comes in.  xrt_ucs_event_cb calls the clock leaf that was created.
Call(t) ==
    /\ pc[t] = "idle" /\ calls < MaxCalls /\ calls' = calls + 1
    /\ Goto(t, IF t = "show" THEN "count" ELSE "lock")
    /\ UNCHANGED <<clockVars, clk, countVars, got, verdict, calib>>

\* mutex_lock(&clock->clock_lock).
Lock(t) ==
    /\ pc[t] = "lock" /\ clk = NoThread /\ clk' = t
    /\ Goto(t, IF t = "set" THEN "busy" ELSE "read")
    /\ UNCHANGED <<clockVars, countVars, got, verdict, calib, calls>>

Unlock(t) ==
    /\ pc[t] = "unlock" /\ clk' = NoThread
    /\ Goto(t, "idle")
    /\ UNCHANGED <<clockVars, countVars, got, verdict, calib, calls>>

\* set_freq: a wizard that stays busy ends the call with nothing written.
Busy ==
    /\ pc["set"] = "busy"
    /\ \E f \in Freq, ready \in BOOLEAN :
          IF ready
          THEN asked' = f /\ setok' = FALSE /\ Goto("set", "write0")
          ELSE Goto("set", "unlock") /\ UNCHANGED <<asked, setok>>
    /\ UNCHANGED <<cfg0, cfg2, pll, clk, countVars, got, verdict, calib, calls>>

Write0 ==
    /\ pc["set"] = "write0" /\ cfg0' = FindRow(asked)
    /\ Goto("set", "write2")
    /\ UNCHANGED <<cfg2, pll, asked, setok, clk, countVars, got, verdict, calib, calls>>

Write2 ==
    /\ pc["set"] = "write2" /\ cfg2' = FindRow(asked)
    /\ Goto("set", "load")
    /\ UNCHANGED <<cfg0, pll, asked, setok, clk, countVars, got, verdict, calib, calls>>

\* The new configuration is loaded; if the PLL does not lock, the one it ran at
\* is restored, and the registers keep what was written.
Load ==
    /\ pc["set"] = "load"
    /\ \/ pll' = cfg0 /\ setok' = TRUE
       \/ UNCHANGED <<pll, setok>>
    /\ Goto("set", "unlock")
    /\ UNCHANGED <<cfg0, cfg2, asked, clk, countVars, got, verdict, calib, calls>>

\* get_freq, of XRT_CLOCK_GET and of clock_verify_freq.
Read(t) ==
    /\ pc[t] = "read"
    /\ got' = [got EXCEPT ![t] = ReadFreq(cfg0, cfg2)]
    /\ Goto(t, "count")
    /\ UNCHANGED <<clockVars, clk, countVars, verdict, calib, calls>>

\* clkfreq_read: start a count, poll for its end, read it.
CountLock(t) ==
    /\ pc[t] = "count" /\ ctr = NoThread /\ ctr' = t
    /\ Goto(t, "start")
    /\ UNCHANGED <<clockVars, clk, status, meas, got, verdict, calib, calls>>

\* Mutant of CountStart: the control register keeps what it says.
CountStartDone(t) ==
    /\ pc[t] = "start"
    /\ status' = IF status = "idle" THEN "started" ELSE status
    /\ Goto(t, "poll")
    /\ UNCHANGED <<clockVars, clk, ctr, meas, got, verdict, calib, calls>>

CountStart(t) ==
    /\ pc[t] = "start" /\ status' = "started"
    /\ Goto(t, "poll")
    /\ UNCHANGED <<clockVars, clk, ctr, meas, got, verdict, calib, calls>>

\* clock_verify_freq compares the count with the row that was read.
CountDone(t) ==
    /\ pc[t] = "poll" /\ status = "done" /\ ctr' = NoThread
    /\ verdict' = IF t # "ucs" THEN verdict
                  ELSE IF Close(1000 * Ocl(meas), got[t]) THEN "verified" ELSE "mismatch"
    /\ Goto(t, IF t = "show" THEN "idle" ELSE "unlock")
    /\ UNCHANGED <<clockVars, clk, status, meas, got, calib, calls>>

\* The count is not done after the last poll.
CountTimesOut(t) ==
    /\ pc[t] = "poll" /\ status = "started" /\ ctr' = NoThread
    /\ verdict' = IF t = "ucs" THEN "failed" ELSE verdict
    /\ Goto(t, IF t = "show" THEN "idle" ELSE "unlock")
    /\ UNCHANGED <<clockVars, clk, status, meas, got, calib, calls>>

\* The counter counts what the clock runs at.
Counted ==
    /\ status = "started" /\ status' = "done" /\ meas' = pll
    /\ UNCHANGED <<clockVars, clk, ctr, got, verdict, calib, pc, calls>>

\* xrt_calib_event_cb: the creation of the UCS leaf has the memory calibrated;
\* that of any leaf but UCS and SRSR sets the result from a variable nobody set.
CalibEvent ==
    /\ calls < MaxCalls /\ calls' = calls + 1
    /\ calib' \in {"failed", "succeeded"}
    /\ UNCHANGED <<clockVars, clk, countVars, got, verdict, pc>>

SetStep == Busy \/ Write0 \/ Write2 \/ Load
CountStep(t) == CountLock(t) \/ CountStart(t) \/ CountDone(t) \/ CountTimesOut(t)

Next ==
    \/ SetStep \/ Counted \/ CalibEvent
    \/ \E t \in {"get", "ucs"} : Read(t)
    \/ \E t \in Thread \ {"show"} : Lock(t) \/ Unlock(t)
    \/ \E t \in Thread \ {"set"} : CountStep(t)
    \/ \E t \in Thread : Call(t)

Spec == Init /\ [][Next]_vars
----------------------------------------------------------------------------
TypeOK ==
    /\ {cfg0, cfg2, pll, meas} \subseteq Rows /\ asked \in Freq
    /\ {clk, ctr} \subseteq Thread \cup {NoThread}
    /\ status \in {"idle", "started", "done"} /\ setok \in BOOLEAN
    /\ verdict \in {"none", "verified", "mismatch", "failed"}
    /\ calib \in {"unknown", "failed", "succeeded"}

\* What the table offers for a frequency: the fastest row that is not faster,
\* or the slowest there is.
Offered(freq) ==
    LET below == {i \in Rows : Ocl(i) <= freq}
    IN  IF below = {} THEN Ocl(0) ELSE Ocl(CHOOSE i \in below : \A j \in below : j <= i)

\* A frequency whose row get_freq does not read back as what it is.  Without the
\* bits that tell of fractions (clock.c:296, 316) that is nearly every row that has
\* one; and with them still 645 MHz, whose multiplier, 64, overflows the product,
\* and 650 MHz, the last row, which the search takes for the row before.
Misread(freq) == ReadFreq(FindRow(freq), FindRow(freq)) # Offered(freq)

\* A frequency that was set is read back as its row is, which is the one the
\* table offers for it unless get_freq misreads that row.  No reader sees one
\* register of the old configuration and one of the new.
ReadsTheSet ==
    \A t \in {"get", "ucs"} :
        pc[t] = "count" /\ setok =>
            /\ got[t] = ReadFreq(FindRow(asked), FindRow(asked))
            /\ ~Misread(asked) => got[t] = Offered(asked)

\* A clock is found to run at the frequency that was set only if it does: the
\* count the verdict rests on was taken while the clock ran as it does now, not
\* by an earlier caller of the counter (clock_verify_freq, clkfreq_read).  Not
\* where get_freq misreads the row: the verdict is then about another frequency.
VerdictTrue ==
    [][pc["ucs"] = "poll" /\ pc'["ucs"] = "unlock" /\ ~Misread(asked) =>
          /\ verdict' = "verified" => Close(1000 * Ocl(pll), Ocl(cfg0))
          /\ verdict' = "mismatch" => ~Close(1000 * Ocl(pll), Ocl(cfg0))]_vars
============================================================================
