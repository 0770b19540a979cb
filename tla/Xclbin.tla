------------------------------- MODULE Xclbin -------------------------------
(***************************************************************************)
(* What lib/xclbin.c takes out of an xclbin: a section, the header in      *)
(* front of a bitstream, and the metadata of the leaves with the           *)
(* frequencies of their clocks.                                            *)
(*                                                                         *)
(* An xclbin is its length, its table of sections, and what the BITSTREAM, *)
(* PARTITION_METADATA and CLOCK_FREQ_TOPOLOGY sections say where they are  *)
(* read.  Lengths and offsets are in bytes and as wide as the code has     *)
(* them: sums of them wrap.                                                *)
(***************************************************************************)
EXTENDS Integers, Sequences, FiniteSets, SequencesExt

CONSTANTS
    MaxSize,    \* XCLBIN_MAX_SIZE
    BufSz,      \* XCLBIN_HWICAP_BITFILE_BUF_SZ
    Two32,      \* where a u32 wraps ...
    Two64       \* ... and where a u64 does

\* xrt_xclbin_get_section_hdr and its callers: the first section of a kind, if
\* all of it is in the file, where the sum of offset and size does not wrap.  A
\* buffer for it is allocated.
Section(x, kind) ==
    LET i == SelectInSeq(x.sections, LAMBDA s : s.kind = kind) IN
    IF i = 0 THEN [err |-> "ENOENT"]
    ELSE LET s == x.sections[i] IN
         IF x.length > MaxSize \/ (s.offset + s.size) % Two64 > x.length THEN [err |-> "EINVAL"]
         ELSE [err |-> "ok", offset |-> s.offset, size |-> s.size]

(***************************************************************************)
(* xrt_xclbin_parse_bitstream_header                                       *)
(***************************************************************************)
\* The magic, its NUL and a half word; then four strings, each behind a letter
\* and two bytes of length; then a letter and the four bytes of the length of
\* the bitstream.  h.wrong tells that one of the marks is not what it should be.
\* A magic of no bytes is read as one of 2^32 - 1, and never ends well.
MagicEnd(h)   == 2 + (h.magic - 1) + 3
GetString(from, len) == from + 3 + len              \* xclbin_bit_get_string
StringsEnd(h) == FoldLeft(GetString, MagicEnd(h), h.strings)
HeaderLength(h) == StringsEnd(h) + 5

\* The parser is not told the size of the section but that of the buffer.  What
\* it reads behind a section that is shorter makes no difference to the end of
\* the call: a header that gets there is longer than the section.
ParseHeader(h) ==
    /\ ~h.wrong /\ h.magic > 0
    /\ 2 + h.magic <= BufSz /\ MagicEnd(h) <= BufSz
    /\ StringsEnd(h) <= BufSz
    /\ StringsEnd(h) + 5 < BufSz

(***************************************************************************)
(* xrt_xclbin_get_metadata                                                 *)
(***************************************************************************)
\* clock_desc: the endpoint of each type of clock, and its counter's.  Other
\* types have none.
ClockEp == [data |-> "kernel1", kernel |-> "kernel2", system |-> "kernel3"]
Counter == [data |-> "freq_k1", kernel |-> "freq_k2", system |-> "freq_hbm"]

\* be16_to_cpu of a 16 bit number on the machines this is built for.
SwapBytes(n) == (n % 256) * 256 + n \div 256

\* xrt_md_set_prop fails where the metadata has no such endpoint.  The number
\* of the file is the machine's (xclbin.h), the one of the metadata is swapped.
NoDefault == [freq |-> 0, counter |-> "none"]

SetClock(md, clock) ==
    IF clock.type \notin DOMAIN ClockEp THEN md
    ELSE IF ~md.ok \/ ClockEp[clock.type] \notin DOMAIN md.eps
    THEN [md EXCEPT !.ok = FALSE]
    ELSE [md EXCEPT !.eps[ClockEp[clock.type]] =
             [freq |-> SwapBytes(clock.freq), counter |-> Counter[clock.type]]]

\* xrt_xclbin_add_clock_metadata: no section of clocks, nothing to add.
AddClocks(x, md) ==
    CASE Section(x, "clocks").err = "ENOENT" -> md
      [] Section(x, "clocks").err = "EINVAL" -> [md EXCEPT !.ok = FALSE]
      [] OTHER -> FoldLeft(SetClock, md, x.clocks)

\* The blob says its own size, and may not say more than the section has.
Metadata(x) ==
    LET s == Section(x, "metadata")
        none == [ok |-> FALSE, eps |-> <<>>]
    IN  IF s.err # "ok" THEN none
        ELSE IF x.mdSize > s.size THEN none
        ELSE AddClocks(x, [ok |-> TRUE, eps |-> [e \in x.eps |-> NoDefault]])

\* clock_init: the frequency a clock leaf sets when it is probed, 0 for none.
ClockInit(eps, ep) == SwapBytes(eps[ep].freq)

-----------------------------------------------------------------------------
(* What the metadata of an xclbin is for                                    *)

\* The clock leaves made from the metadata of a file run at the frequency the
\* file names for them last, and the others keep theirs: a file for which a
\* clock cannot be told its frequency gives no metadata at all
\* (xclbin.c:289-368 with clock.c:492-508).
Named(x, ep) ==
    {i \in DOMAIN x.clocks : x.clocks[i].type \in DOMAIN ClockEp
                             /\ ClockEp[x.clocks[i].type] = ep}

ClocksAsNamed(x) ==
    Metadata(x).ok =>
        LET eps == Metadata(x).eps IN
        IF Section(x, "clocks").err = "ENOENT"
        THEN \A ep \in x.eps : eps[ep] = NoDefault
        ELSE /\ \A i \in DOMAIN x.clocks :
                  x.clocks[i].type \in DOMAIN ClockEp => ClockEp[x.clocks[i].type] \in x.eps
             /\ \A ep \in x.eps :
                  IF Named(x, ep) = {} THEN eps[ep] = NoDefault
                  ELSE LET last == CHOOSE i \in Named(x, ep) : \A j \in Named(x, ep) : j <= i
                       IN  /\ ClockInit(eps, ep) = x.clocks[last].freq
                           /\ eps[ep].counter = Counter[x.clocks[last].type]
=============================================================================
