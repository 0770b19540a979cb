---------------------------- MODULE MailboxProps ----------------------------
(***************************************************************************)
(* What the mailbox must guarantee.                                        *)
(***************************************************************************)
EXTENDS Mailbox, SequencesExt

Fills(t) == rxcur # NoMsg /\ rxcur.flag = "response" /\ rxcur.by = <<t, num[t]>>

\* mailbox.c:1295-1313.  A message on a queue belongs to a caller that has not
\* returned and freed it, and is there once.
QueuesOwned ==
    /\ \A t \in rxq : pc[t] \in {"queueing", "sending", "waiting"} /\ kind[t] = "request"
    /\ \A t \in ToSet(txq) : pc[t] = "sending" /\ txcur # t
    /\ IsInjective(txq)

\* mailbox.c:1302-1319.  Whoever waits for a message to be sent or filled has
\* it in exactly one place: on the queue, with the worker, or completed.
NoLostCompletion ==
    \A t \in Caller :
        /\ pc[t] = "sending" =>
               (sent[t] = "no" <=> t \in ToSet(txq) \cup {txcur})
        /\ pc[t] = "waiting" => (answer[t] = "no" <=> t \in rxq \/ Fills(t))

\* mailbox.c:443, 1391-1396.  The listener does not sleep on requests.
NoRequestStranded == lpc = "wait" /\ reqs # <<>> => comp > 0

\* mailbox.c:1473-1481.  When everything is stopped, no request is left.
StoppedClean == stopped = "all" => reqs = <<>> /\ rxcur = NoMsg /\ txcur = NoMsg

\* Hardware that does not answer, or that has kept a packet of a message that
\* timed out when it did not.
Stuck == dead \/ (hwtx # NoMsg /\ ~txttl)

\* mailbox.c:71-74, 495-531.  Whatever peer and daemon do, a call ends, unless
\* the hardware is stuck while the call waits for its message to be sent: one
\* that has made no progress yet has no ttl that would run down.
CallsEnd ==
    \A t \in Caller :
        pc[t] # "idle" ~> pc[t] = "idle" \/ (pc[t] = "sending" /\ Stuck)

\* mailbox.c:71-74, "A TX message is considered as time'd out when it's transmit
\* is not done within 1 seconds. [...] The error will be simply propagated back
\* to the upper layer", also when the hardware has stopped to answer for good.
SendTimesOut ==
    <>[]dead => \A t \in Caller : pc[t] = "sending" ~> sent[t] # "no"

\* mailbox.c:1313.  The message a response is put into is still there.
ResponseHasWaiter ==
    rxcur # NoMsg /\ rxcur.flag = "response" =>
        /\ pc[rxcur.by[1]] # "idle" /\ num[rxcur.by[1]] = rxcur.by[2]

\* mailbox.c:54, 807-839.  What is delivered is a full message: the packets of
\* one, all of them, in order.  Except for a message whose first packet met an
\* unfinished one, of which the peer had given up on the rest, while its second
\* packet was in the FIFO: the reset for the unfinished one took that packet.
WholeMessages ==
    [][rxpc = "fill" /\ rxcur # NoMsg /\ rxcur' = NoMsg /\ ~lost =>
           parts = [i \in 1 .. RxLen - 1 |-> <<rxpkt.msg.of, i>>]]_vars

\* mailbox.c:58, 98.  The response a request gets is the response to it.
OwnResponse ==
    \A t \in Caller :
        pc[t] = "waiting" /\ answer[t] = "ok" => got[t] = <<t, num[t]>>

\* mailbox.c:1123.  A message is read by the daemon once.
ReadOnce == [][ReadTake /\ kind[swtx[1]] = "request" => swtx \notin heard]_vars

\* mailbox.c:1646.  What the daemon could write is received.
WriteReceived == [][swrx # NoMsg /\ swrx' = NoMsg /\ stopped = "no" => head = swrx]_vars

(***************************************************************************)
(* Why no completion is lost: the inductive invariant of the two queues,   *)
(* of what their workers have in hand, and of what their callers wait for. *)
(***************************************************************************)
\* A message that is to be sent is on the queue or with the worker until it is
\* completed, and its caller stays with it until then.
InTx(t) == t \in ToSet(txq) \cup {txcur}
TxOwned ==
    /\ IsInjective(txq) /\ txcur \notin ToSet(txq)
    /\ \A t \in Caller :
          /\ InTx(t) => pc[t] = "sending"
          /\ pc[t] = "sending" => (sent[t] = "no" <=> InTx(t))
          /\ pc[t] \in {"idle", "queueing"} => sent[t] = "no"

\* A request that has no answer is on the queue or being filled, until its
\* caller gives up on it.
RxOwned ==
    /\ rxpc = "match" => rxcur = NoMsg
    /\ \A t \in Caller :
          /\ t \in rxq => pc[t] # "idle" /\ kind[t] = "request" /\ ~Fills(t)
          /\ t \in rxq => num[t] \in 1 .. MaxCalls
          /\ pc[t] \in {"queueing", "waiting"} => kind[t] = "request"
          /\ pc[t] # "idle" /\ kind[t] = "request" =>
                 (answer[t] = "no" <=> t \in rxq \/ Fills(t))
          /\ pc[t] = "idle" => answer[t] = "no"

\* What is being filled was asked for by a call that was made.
FillsCall ==
    rxcur # NoMsg /\ rxcur.flag = "response" =>
        \E t \in Caller : \E n \in 1 .. num[t] : rxcur.by = <<t, n>>

\* A mailbox is stopped when nobody calls it.
StoppedIdle == stopped # "no" => \A t \in Caller : pc[t] = "idle"

MailboxInv == TxOwned /\ RxOwned /\ FillsCall /\ StoppedIdle /\ NoRequestStranded
=============================================================================
