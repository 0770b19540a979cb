-------------------------------- MODULE Icap --------------------------------
(***************************************************************************)
(* A bitstream on its way into the FPGA: the FPGA manager of mgmt/xrt-mgr.c *)
(* finds it in the xclbin, the ICAP leaf of lib/xleaf/icap.c feeds it into  *)
(* the FIFO of the configuration port, buffer by buffer, each as the FIFO   *)
(* has room.  The port empties its FIFO at its own pace, also after the     *)
(* driver has given up waiting.  The fpga manager runs one download at a    *)
(* time, and icap_lock is held over it.                                     *)
(***************************************************************************)
EXTENDS Xclbin

CONSTANTS
    File,       \* the xclbins
    Depth,      \* words the FIFO holds
    IdWords,    \* words of idcode_stream
    Word,       \* bytes of a word
    MaxCalls    \* bound: downloads

\* A buffer is a whole number of words: BufSz % Word = 0.

VARIABLES
    leaf,       \* the leaf: "new", "up", or "none" when its probe failed
    pc,         \* where the call is
    file,       \* the file that is loaded
    fifo,       \* the FIFO: words as the call and the byte of the file
    running,    \* bit 0 of the control register: the port takes the FIFO
    at, upto,   \* byte of the bitstream the driver is at; where this load ends
    fed,        \* history: the words of this call the port took
    result,     \* what the call returned
    calls

vars == <<leaf, pc, file, fifo, running, at, upto, fed, result, calls>>
port == <<fifo, running, fed>>

Init ==
    /\ leaf = "new" /\ pc = "idle" /\ file \in File
    /\ fifo = <<>> /\ running = FALSE /\ fed = <<>>
    /\ at = 0 /\ upto = 0 /\ result = "none" /\ calls = 0

Goto(from, to) == pc = from /\ pc' = to
Return(r) == pc' = "idle" /\ result' = r

(***************************************************************************)
(* The configuration port                                                  *)
(***************************************************************************)
\* A word of call 0 is one of idcode_stream.
Take ==
    /\ running /\ fifo # <<>>
    /\ fifo' = Tail(fifo)
    /\ fed' = IF Head(fifo).call = calls THEN Append(fed, Head(fifo).byte) ELSE fed
    /\ UNCHANGED <<leaf, pc, file, running, at, upto, result, calls>>

Rest ==
    /\ running /\ fifo = <<>>
    /\ running' = FALSE
    /\ UNCHANGED <<leaf, pc, file, fifo, fed, at, upto, result, calls>>

Vacancy == Depth - Len(fifo)
Put(byte) == fifo' = Append(fifo, [call |-> calls, byte |-> byte])

(***************************************************************************)
(* The probe of the leaf: icap_probe_chip                                  *)
(***************************************************************************)
\* One look at the vacancy is enough for all of idcode_stream.
Probe ==
    /\ leaf = "new" /\ Goto("idle", "write")
    /\ Vacancy > IdWords
    /\ at' = 0 /\ upto' = IdWords * Word
    /\ UNCHANGED <<leaf, file, port, result, calls>>

ProbeFails ==
    /\ leaf = "new" /\ pc = "idle"
    /\ leaf' = "none"
    /\ UNCHANGED <<pc, file, port, at, upto, result, calls>>

(***************************************************************************)
(* A download: xmgmt_pr_write, xmgmt_download_bitstream                    *)
(***************************************************************************)
Bitstream == Section(file, "bitstream")

\* The header's idea of the length, a sum of two u32, against the section's.
Fits(x, s) == (HeaderLength(x.head) + x.head.bits) % Two32 <= s.size

\* A file gets here only with metadata.  xmgmt_region_program passes all of it,
\* as its header says.
Download ==
    /\ pc = "idle" /\ leaf # "new" /\ calls < MaxCalls
    /\ calls' = calls + 1
    /\ file' \in File
    /\ fed' = <<>> /\ at' = 0
    /\ LET s == Section(file', "bitstream") IN
       IF /\ Metadata(file').ok
          /\ s.err = "ok"
          /\ ParseHeader(file'.head)
          /\ Fits(file', s)
          /\ leaf = "up"
          /\ file'.head.bits % Word = 0
       THEN pc' = "buffer" /\ UNCHANGED result
       ELSE Return("err")
    /\ UNCHANGED <<leaf, fifo, running, upto>>

\* icap_download: the next buffer, up to BufSz bytes, or none that is left.
Bits == file.head.bits
BufferEnd == LET end == (at \div BufSz + 1) * BufSz IN IF Bits < end THEN Bits ELSE end

Buffer ==
    /\ Goto("buffer", IF at < Bits THEN "vacancy" ELSE "wait")
    /\ UNCHANGED <<leaf, file, port, at, upto, result, calls>>

\* bitstream_helper: a load of the FIFO, as many words as it has room for.
Load(end) ==
    upto' = IF at + Vacancy * Word < end THEN at + Vacancy * Word ELSE end

ReadVacancy ==
    /\ Goto("vacancy", "write")
    /\ Vacancy > 0
    /\ Load(BufferEnd)
    /\ UNCHANGED <<leaf, file, port, at, result, calls>>

NoVacancy ==
    /\ pc = "vacancy" /\ Vacancy = 0
    /\ Return("err")
    /\ UNCHANGED <<leaf, file, port, at, upto, calls>>

\* icap_write: the words, the start of the port, and the wait for it.
WriteWord ==
    /\ pc = "write" /\ at < upto
    /\ Put(IF leaf = "new" THEN at ELSE Bitstream.offset + HeaderLength(file.head) + at)
    /\ at' = at + Word
    /\ UNCHANGED <<leaf, pc, file, running, fed, upto, result, calls>>

Commit ==
    /\ at = upto /\ Goto("write", "commit")
    /\ running' = TRUE
    /\ UNCHANGED <<leaf, file, fifo, fed, at, upto, result, calls>>

\* Mutant of Loaded: the wait for the port is left out.
LoadedAtOnce == TRUE

Loaded == ~running

LoadDone ==
    /\ Loaded
    /\ Goto("commit", IF leaf = "new" THEN "wait"
                      ELSE IF at = Bits \/ at % BufSz = 0 THEN "buffer" ELSE "vacancy")
    /\ UNCHANGED <<leaf, file, port, at, upto, result, calls>>

\* wait_for_done, and for the probe the reading of the IDCODE.
Done ==
    /\ pc = "wait"
    /\ IF leaf = "new" THEN leaf' = "up" /\ pc' = "idle" /\ UNCHANGED result
       ELSE Return("ok") /\ UNCHANGED leaf
    /\ UNCHANGED <<file, port, at, upto, calls>>

\* A register cannot be accessed, or the port takes too long.  What is in the
\* FIFO stays there.
Fails ==
    /\ pc \in {"vacancy", "write", "commit", "wait"}
    /\ IF leaf = "new" THEN leaf' = "none" /\ pc' = "idle" /\ UNCHANGED result
       ELSE Return("err") /\ UNCHANGED leaf
    /\ UNCHANGED <<file, port, at, upto, calls>>

Next ==
    \/ Take \/ Rest \/ Probe \/ ProbeFails \/ Download
    \/ Buffer \/ ReadVacancy \/ NoVacancy \/ WriteWord \/ Commit \/ LoadDone
    \/ Done \/ Fails

Spec == Init /\ [][Next]_vars

-----------------------------------------------------------------------------
(* Properties                                                               *)

\* Every variable has its type.
TypeOK ==
    /\ leaf \in {"new", "up", "none"} /\ file \in File
    /\ pc \in {"idle", "buffer", "vacancy", "write", "commit", "wait"}
    /\ running \in BOOLEAN /\ at \in Nat /\ upto \in Nat
    /\ fed \in Seq(Nat) /\ \A i \in DOMAIN fifo : fifo[i].byte \in Nat
    /\ result \in {"none", "ok", "err"} /\ calls \in 0 .. MaxCalls

\* The words of the bitstream, by the byte of the file they are at.
Words == [k \in 1 .. Bits \div Word |->
             Bitstream.offset + HeaderLength(file.head) + Word * (k - 1)]

\* What the port took of this download is the beginning of the bitstream, each
\* word once and in order, and all of it when the download succeeded, whatever
\* an earlier one left in the FIFO (icap.c:106-202).
FedInOrder ==
    /\ calls > 0 /\ fed # <<>> => IsPrefix(fed, Words)
    /\ pc = "idle" /\ result = "ok" => fed = Words

\* The FIFO is never given more than it has room for: the vacancy that was read
\* is still there when the words are written (icap.c:137-169).
FifoFits == Len(fifo) <= Depth

\* The sums that are compared with what there is (xrt-mgr.c:56, xclbin.c:41) are
\* more than their types hold.
SumsWrap(x) ==
    LET s == Section(x, "bitstream") IN
    \/ HeaderLength(x.head) + x.head.bits >= Two32
    \/ s.offset + s.size >= Two64

\* Nothing but the bitstream is written: every word of a download comes from
\* behind the header, from inside the section, from inside the file, though the
\* header was parsed without knowing where the section ends
\* (xrt-mgr.c:47-62, xclbin.c:20-46).  Except for a file whose lengths are so
\* large that a sum of them wraps: it passes the comparisons.
FromTheBitstream ==
    \A i \in DOMAIN fifo :
        fifo[i].call = calls /\ calls > 0 /\ ~SumsWrap(file) =>
            LET s == Bitstream IN
            /\ s.offset + HeaderLength(file.head) <= fifo[i].byte
            /\ fifo[i].byte + Word <= s.offset + s.size
            /\ s.offset + s.size <= file.length
=============================================================================
