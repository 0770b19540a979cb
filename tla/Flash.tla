------------------------------- MODULE Flash --------------------------------
(***************************************************************************)
(* The flash leaf, lib/xleaf/qspi.c: what a process reads and writes       *)
(* through its device node, and what other leaves read, on flash chips     *)
(* that are reached a byte at a time through a controller's FIFO, a sector *)
(* (16 MB) of a chip at a time.                                            *)
(*                                                                         *)
(* A call is a loop over pages; each page is a list of commands to the     *)
(* chip, todo, that the driver works through.  Addresses count cells, as   *)
(* much as one FIFO transfer moves; what is in a cell is the call that     *)
(* wrote it and the address it was written for.                            *)
(***************************************************************************)
EXTENDS Integers, Sequences, FiniteSets

CONSTANTS
    Slave,      \* the flash chips
    Page, Large, Huge,  \* cells of the units that can be erased
    Sector,     \* cells of a sector
    Size,       \* flash_size
    Spans,      \* what is read or written: offsets and lengths
    MaxCalls,   \* bound: calls in all
    MaxFaults   \* bound: transactions that fail

Caller == {"user", "kernel"}
Cell == 0 .. Size - 1
Address == Slave \X Cell
Erased == [by |-> 0, at |-> <<>>]
Garbage == [by |-> 0, at |-> <<0>>]
Data == [by : 0 .. MaxCalls, at : Address] \cup {Erased, Garbage}
Unknown == 255

VARIABLES
    mem,        \* what is in each cell of each chip
    sector,     \* the extended address register of each chip
    latch,      \* whether a chip's writing is enabled
    busy,       \* whether a chip erases or programs
    select,     \* the slave select register: chips that are selected
    current,    \* qspi_curr_slave
    cached,     \* qspi_curr_sector
    owner,      \* the owner of io_lock, or "none"
    op,         \* what it does: "read" or "write"
    at, end,    \* where it is, and where it will be done
    start,      \* where it began
    todo,       \* the commands of this page that are left
    buf,        \* the pages' buffer, by address
    result,     \* of the last call: "ok", "err", or "busy" while it runs
    calls, faults,  \* calls made, and failures
    stale,      \* history: since the cache was set, another chip was taken up,
                \* or a transaction that failed changed a sector
    astray,     \* history: the call runs over the end of a chip, or moved data
                \* while the cache was stale
    lost        \* history: a write failed or went astray

chips == <<mem, sector, latch, busy>>
call == <<owner, op, at, end, start, buf>>
count == <<calls, faults, stale, astray, lost>>
vars == <<chips, select, current, cached, call, todo, result, count>>

TypeOK ==
    /\ mem \in [Address -> Data]
    /\ sector \in [Slave -> 0 .. Unknown]
    /\ {latch, busy} \subseteq [Slave -> BOOLEAN]
    /\ select \subseteq Slave /\ current \in Slave
    /\ cached \in 0 .. Unknown
    /\ owner \in Caller \cup {"none"} /\ op \in {"read", "write"}
    /\ {at, end, start} \subseteq Nat
    /\ todo \in Seq({"ready", "sector", "register", "enable", "read", "program"} \X Nat
                    \cup {"erase"} \X Nat \X Nat)
    /\ buf \in [Address -> Data]
    /\ result \in {"ok", "err", "busy"}
    /\ calls \in 0 .. MaxCalls /\ faults \in 0 .. MaxFaults
    /\ {stale, astray, lost} \subseteq BOOLEAN

\* qspi_probe.  Which sector a chip is at is not known.
Init ==
    /\ mem = [a \in Address |-> [by |-> 0, at |-> a]]
    /\ sector \in [Slave -> 0 .. (Size \div Sector) - 1]
    /\ latch = [s \in Slave |-> FALSE] /\ busy = [s \in Slave |-> FALSE]
    /\ select = {} /\ current = 0 /\ cached = Unknown
    /\ owner = "none" /\ op = "read" /\ at = 0 /\ end = 0 /\ start = 0
    /\ todo = <<>>
    /\ buf = [a \in Address |-> Garbage]
    /\ result = "ok" /\ calls = 0 /\ faults = 0
    /\ stale = FALSE /\ astray = FALSE /\ lost = FALSE

-----------------------------------------------------------------------------
(* Commands                                                                 *)

SectorOf(a) == a \div Sector

\* The chip adds its own sector to the 24 bits of the address it is given.
Reached(a) == <<current, (sector[current] * Sector + (a % Sector)) % Size>>

\* qspi_buf_rdwr: a transfer after the other; each sets the sector, then
\* qspi_fifo_rd reads, and qspi_fifo_wr enables writing, writes and waits.
Reads(from, n) ==
    [k \in 1 .. 2 * n |-> IF k % 2 = 1 THEN <<"sector", from + (k - 1) \div 2>>
                                       ELSE <<"read", from + (k - 1) \div 2>>]

Programs(from, n) ==
    [k \in 1 .. 4 * n |->
        << <<"sector", "enable", "program", "ready">>[1 + ((k - 1) % 4)], from + (k - 1) \div 4 >>]

\* qspi_page_erase
Erases(from, n) ==
    << <<"ready", from>>, <<"sector", from>>, <<"enable", from>>,
       <<"erase", from, n>>, <<"ready", from>> >>

\* qspi_get_page_io_size: the largest unit that starts here and is covered.
Unit(a, n) ==
    LET fits == {u \in {Page, Large, Huge} : a % u = 0 /\ n >= u}
    IN  IF fits = {} THEN 0 ELSE CHOOSE u \in fits : \A v \in fits : v <= u

Least(m, n) == IF m <= n THEN m ELSE n

\* qspi_page_rmw: what is in front of the data and behind it is read first.
RMW(a, n) ==
    LET first == a - (a % Page)
    IN  Reads(first, a - first) \o Reads(a + n, first + Page - a - n)
            \o Erases(first, Page) \o Programs(first, Page)

-----------------------------------------------------------------------------
(* Calls: qspi_read, qspi_kernel_read and qspi_write                        *)

\* An offset has its chip in the high byte, and is taken off the size of the
\* flash with that byte in it, which wraps but for chip 0 and leaves any length.
Clamp(s, off, n) == IF s = 0 THEN Least(n, Size - off) ELSE n

\* The caller waits for io_lock; nothing is sent before the chip is ready.
Begin(c, o) ==
    /\ owner = "none" /\ owner' = c
    /\ calls < MaxCalls /\ calls' = calls + 1
    /\ c = "kernel" => o = "read"
    /\ op' = o
    /\ \E s \in Slave, span \in Spans :
           /\ current' = s
           /\ start' = span[1] /\ at' = span[1]
           /\ end' = span[1] + Clamp(s, span[1], span[2])
           /\ todo' = << <<"ready", span[1]>> >>
    /\ buf' = [a \in Address |-> Garbage]
    /\ result' = "busy"
    /\ stale' = (stale \/ current' # current)
    /\ astray' = (end' > Size)
    /\ UNCHANGED <<chips, select, cached, faults, lost>>

\* qspi_do_read: up to the end of the page.
ReadPage ==
    /\ owner # "none" /\ op = "read" /\ todo = <<>> /\ result = "busy" /\ at < end
    /\ LET n == Least(end - at, Page - (at % Page))
       IN  todo' = Reads(at, n) /\ at' = at + n
    /\ UNCHANGED <<chips, select, current, cached, owner, op, end, start, buf, result, count>>

\* qspi_write: qspi_page_wr if a unit fits, or else qspi_page_rmw.  The data is
\* copied from the process.
WritePage ==
    /\ owner # "none" /\ op = "write" /\ todo = <<>> /\ result = "busy" /\ at < end
    /\ LET unit == Unit(at, end - at)
           n == IF unit # 0 THEN unit ELSE Least(end - at, Page - (at % Page))
       IN  /\ todo' = IF unit # 0 THEN Erases(at, unit) \o Programs(at, unit) ELSE RMW(at, n)
           /\ at' = at + n
           /\ buf' = [a \in Address |->
                         IF a[1] = current /\ a[2] \in at .. at + n - 1
                         THEN [by |-> calls, at |-> a] ELSE buf[a]]
    /\ UNCHANGED <<chips, select, current, cached, owner, op, end, start, result, count>>

Done ==
    /\ owner # "none" /\ todo = <<>> /\ result = "busy" /\ at >= end
    /\ result' = "ok" /\ owner' = "none"
    /\ lost' = (lost \/ (op = "write" /\ astray))
    /\ UNCHANGED <<chips, select, current, cached, op, at, end, start, buf, todo, calls,
                   faults, stale, astray>>

Failed ==
    /\ owner # "none" /\ result = "err"
    /\ owner' = "none" /\ todo' = <<>>
    /\ lost' = (lost \/ op = "write")
    /\ UNCHANGED <<chips, select, current, cached, op, at, end, start, buf, result, calls,
                   faults, stale, astray>>

-----------------------------------------------------------------------------
(* Transactions with the chip: qspi_transaction                             *)

Cmd == Head(todo)[1]
Where == Head(todo)[2]
Running == owner # "none" /\ result = "busy" /\ todo # <<>>

\* What a command does to a chip, which ignores all but the status register
\* while it is busy, and changes nothing that was not enabled.
Takes == ~ busy[current]

Effect ==
    /\ \/ /\ Cmd = "enable" /\ Takes
          /\ latch' = [latch EXCEPT ![current] = TRUE]
          /\ UNCHANGED <<mem, sector, busy>>
       \/ /\ Cmd = "register" /\ Takes /\ latch[current]
          /\ sector' = [sector EXCEPT ![current] = SectorOf(Where)]
          /\ latch' = [latch EXCEPT ![current] = FALSE]
          /\ UNCHANGED <<mem, busy>>
       \/ /\ Cmd = "erase" /\ Takes /\ latch[current]
          /\ LET n == Head(todo)[3]
                 first == Reached(Where - (Where % n))[2]
             IN  mem' = [a \in Address |-> IF a[1] = current /\ a[2] \in first .. first + n - 1
                                           THEN Erased ELSE mem[a]]
          /\ latch' = [latch EXCEPT ![current] = FALSE]
          /\ busy' = [busy EXCEPT ![current] = TRUE]
          /\ UNCHANGED sector
       \/ /\ Cmd = "program" /\ Takes /\ latch[current]
          /\ mem' = [mem EXCEPT ![Reached(Where)] =
                        IF @ = Erased THEN buf[<<current, Where % Size>>] ELSE Garbage]
          /\ latch' = [latch EXCEPT ![current] = FALSE]
          /\ busy' = [busy EXCEPT ![current] = TRUE]
          /\ UNCHANGED sector
       \/ /\ ~ (Cmd \in {"enable", "register", "erase", "program"} /\ Takes)
             \/ (Cmd # "enable" /\ ~ latch[current])
          /\ UNCHANGED chips

\* The chip is deselected when the transaction is over.
Transact ==
    /\ Running /\ Cmd \in {"enable", "register", "erase", "program"}
    /\ Effect
    /\ todo' = Tail(todo)
    /\ cached' = IF Cmd = "register" THEN SectorOf(Where) ELSE cached
    /\ select' = {}
    /\ stale' = (stale /\ Cmd # "register")
    /\ astray' = (astray \/ (stale /\ Cmd \in {"erase", "program"}))
    /\ UNCHANGED <<current, call, result, calls, faults, lost>>

Read ==
    /\ Running /\ Cmd = "read"
    /\ buf' = [buf EXCEPT ![<<current, Where % Size>>] =
                  IF Takes THEN mem[Reached(Where)] ELSE Garbage]
    /\ todo' = Tail(todo)
    /\ select' = {}
    /\ astray' = (astray \/ stale)
    /\ UNCHANGED <<chips, current, cached, owner, op, at, end, start, result, calls, faults,
                   stale, lost>>

\* Mutant of SetSector: a sector is only ever set once.
SetSectorOnce ==
    /\ Running /\ Cmd = "sector"
    /\ todo' = IF cached # Unknown THEN Tail(todo)
               ELSE << <<"enable", Where>>, <<"register", Where>> >> \o Tail(todo)
    /\ UNCHANGED <<chips, select, current, cached, call, result, count>>

\* qspi_set_sector sends nothing if it is the last it has set.
SetSector ==
    /\ Running /\ Cmd = "sector"
    /\ todo' = IF SectorOf(Where) = cached THEN Tail(todo)
               ELSE << <<"enable", Where>>, <<"register", Where>> >> \o Tail(todo)
    /\ UNCHANGED <<chips, select, current, cached, call, result, count>>

\* qspi_wait_until_ready
Ready ==
    /\ Running /\ Cmd = "ready" /\ Takes
    /\ todo' = Tail(todo)
    /\ select' = {}
    /\ UNCHANGED <<chips, current, cached, call, result, count>>

\* The FIFO cannot be reset, or the transfer times out, or the controller has
\* an error.  The transfer's errors leave the chip selected; the chip may
\* have done what it was told all the same.  A chip that is not ready in a second is an error.
Fault ==
    /\ Running /\ Cmd # "sector"
    /\ faults < MaxFaults /\ faults' = faults + 1
    /\ UNCHANGED chips \/ Effect
    /\ stale' = (stale \/ sector' # sector)
    /\ select' \in {select, {current}}
    /\ result' = "err"
    /\ UNCHANGED <<current, cached, call, todo, calls, astray, lost>>

ChipDone ==
    \E s \in Slave :
        /\ busy[s]
        /\ busy' = [busy EXCEPT ![s] = FALSE]
        /\ UNCHANGED <<mem, sector, latch, select, current, cached, call, todo, result, count>>

Next ==
    \/ \E c \in Caller, o \in {"read", "write"} : Begin(c, o)
    \/ ReadPage \/ WritePage \/ Done \/ Failed
    \/ Transact \/ Read \/ SetSector \/ Ready \/ Fault \/ ChipDone

Spec == Init /\ [][Next]_vars

-----------------------------------------------------------------------------
(* Properties                                                               *)

InCall(n) == {<<current, k>> : k \in start .. n - 1}

\* A call goes astray where the code lets it: qspi_curr_sector is one for all
\* chips and is set when a transaction succeeds, and a length is not cut to
\* what is left of the second chip (539, 867, 987).

\* qspi.c:814.  A read that succeeds and does not go astray returns what is in
\* the flash, at each of its addresses.
ReadTrue ==
    owner = "none" /\ result = "ok" /\ op = "read" /\ ~ astray =>
        \A a \in InCall(end) \cap Address : buf[a] = mem[a]

\* qspi.c:973.  What a write that succeeds and does not go astray has written is
\* in the flash, and as long as no write fails or goes astray nothing else is,
\* erased or in another's place.
WriteTrue ==
    owner = "none" =>
        /\ result = "ok" /\ op = "write" /\ ~ astray => \A a \in InCall(end) \cap Address : mem[a].by = calls
        /\ ~ lost => \A a \in Address : mem[a].at = a

\* qspi.c:926.  Whatever fails, a call that does not go astray changes only pages
\* it was to write.
OnlyItsPages ==
    [][\A a \in Address : mem'[a] # mem[a] /\ ~ (stale \/ astray) =>
           /\ op = "write" /\ a[1] = current
           /\ a[2] \div Page \in start \div Page .. (end - 1) \div Page]_vars

\* qspi.c:458.  "Always need to reset slave select register after each
\* transaction".
Deselected == select = {}
=============================================================================
