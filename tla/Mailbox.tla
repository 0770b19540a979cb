------------------------------ MODULE Mailbox ------------------------------
(***************************************************************************)
(* The mailbox leaf, lib/xleaf/mailbox.c: requests, notifications and      *)
(* responses that are cut into packets for a hardware channel, or handed   *)
(* as a whole to a daemon that reads and writes the device node.  Each of  *)
(* the two channels has a worker; a third one calls the listener.          *)
(*                                                                         *)
(* What is sent is known by who sent it and the how-manieth call it was:   *)
(* <<t, n>>, and <<Peer, n>> for the peer's own requests.  An id is the    *)
(* address of the buffer that is sent.  A ttl that runs down is a choice,  *)
(* from when it was set until there is progress.                           *)
(***************************************************************************)
EXTENDS Integers, Sequences, FiniteSets

CONSTANTS
    Caller,     \* threads that request and post
    Listener,   \* the one that calls the registered callback
    Peer,       \* the mailbox at the other end
    NoMsg,      \* no message, no packet, an empty channel
    Sws,        \* the values of mbm_chan_sw in use
    MaxCalls,   \* bound: calls of a thread
    PeerAsks,   \* bound: requests of the peer
    TxLen,      \* packets of a message that is sent ...
    RxLen,      \* ... and received
    Again,      \* bound: how often a message is sent on when it was complete
    Bigs,       \* whether a response can exceed its buffer
    SameBuffer, \* whether a thread's requests are in one buffer
    GivesUp,    \* whether messages of the peer can time out
    MaxQueue    \* MAX_MSG_QUEUE_LEN

ASSUME MailboxAssumption ==
    /\ Listener \in Caller /\ Peer \notin Caller
    /\ MaxCalls \in Nat /\ PeerAsks \in Nat /\ MaxQueue \in Nat \ {0}
    /\ TxLen \in Nat \ {0} /\ RxLen \in Nat \ {0} /\ Again \in Nat
    /\ Sws \subseteq BOOLEAN /\ Bigs \subseteq BOOLEAN /\ {SameBuffer, GivesUp} \subseteq BOOLEAN

VARIABLES
    pc,         \* where a caller is in mailbox_request or mailbox_post
    num,        \* how many calls it made
    kind,       \* "request", "notify" or "respond"
    sw,         \* mbm_chan_sw of its messages
    sent,       \* mbm_error of the one that is sent, "no" until completed
    answer,     \* and of the one that takes the response
    got,        \* history: what that one was filled with
    timed,      \* whether msg_timer_on was called for it
    rxq, txq,   \* mbc_msgs: who waits for a response, and to be sent
    txpc, txcur, txdone, txttl, txprog,         \* the TX worker
    rxpc, rxcur, parts, rxpkt, head, rxprog,    \* the RX worker
    hwtx, hwrx, \* the packet in the FIFO to and from the peer
    swtx, swrx, \* sw_chan_buf, _msg_id, _msg_flags of TX and RX
    reqs, comp, \* mbx_req_list and mbx_comp.done
    lpc,        \* where mailbox_recv_request is
    stopped,    \* how far mailbox_stop has come
    rpc, wpc,   \* whether the daemon saw a message, or room for one
    heard,      \* the requests that the peer, or the daemon for it, received
    replied,    \* and those it has answered
    asks,       \* how many requests the peer made
    asm,        \* the message the peer receives
    out, outk,  \* the message the peer sends, and the packets of it so far
    dead,       \* whether the status register reads all ones
    lost        \* history: a reset took a packet of the message being filled

calls == <<pc, num, kind, sw>>
tx == <<txpc, txcur, txdone, txttl, txprog>>
rx == <<rxpc, rxcur, parts, rxpkt, head, rxprog, lost>>
listen == <<reqs, comp, lpc>>
daemon == <<rpc, wpc>>
peer == <<heard, replied, asks, asm, out, outk, dead>>
vars == <<calls, sent, answer, got, timed, rxq, txq, tx, rx, hwtx, hwrx,
          swtx, swrx, listen, stopped, daemon, peer>>

Call == (Caller \cup {Peer}) \X (1 .. MaxCalls + PeerAsks)
Incoming == [flag : {"request", "response"}, of : Call, big : BOOLEAN]
Packet == [msg : Incoming, k : 1 .. RxLen]
Filling == [flag : {"request", "response"}, by : Call, sw : BOOLEAN]

ASSUME NoMsgAssumption == NoMsg \notin Caller /\ NoMsg \notin Filling

TypeOK ==
    /\ pc \in [Caller -> {"idle", "queueing", "sending", "waiting"}]
    /\ num \in [Caller -> 0 .. MaxCalls + PeerAsks]
    /\ kind \in [Caller -> {"request", "notify", "respond"}]
    /\ sw \in [Caller -> BOOLEAN]
    /\ {sent[t] : t \in Caller} \cup {answer[t] : t \in Caller} \subseteq {"no", "ok", "err"}
    /\ got \in [Caller -> Call \cup {NoMsg}]
    /\ timed \subseteq Caller /\ rxq \subseteq Caller /\ txq \in Seq(Caller)
    /\ txpc \in {"check", "send", "timer", "off"}
    /\ txcur \in Caller \cup {NoMsg} /\ txdone \in 0 .. TxLen + Again
    /\ {txttl, txprog, rxprog, dead, lost} \subseteq BOOLEAN
    /\ rxpc \in {"peek", "match", "take", "hw", "handle", "fill", "timer", "off"}
    /\ rxcur \in Filling \cup {NoMsg}
    /\ parts \in Seq(Call \X (1 .. RxLen))
    /\ {rxpkt, hwrx} \subseteq Packet \cup {NoMsg}
    /\ {head, swrx, out} \subseteq Incoming \cup {NoMsg}
    /\ hwtx \in (Call \X (1 .. TxLen + Again)) \cup {NoMsg}
    /\ {swtx, asm} \subseteq Call \cup {NoMsg}
    /\ reqs \in Seq(Call) /\ comp \in Nat
    /\ lpc \in {"wait", "next", "busy", "called", "off"}
    /\ stopped \in {"no", "tx", "rx", "all"}
    /\ {rpc, wpc} \subseteq {"idle", "found"}
    /\ replied \subseteq heard /\ heard \subseteq Call
    /\ asks \in 0 .. PeerAsks /\ outk \in 0 .. RxLen

Init ==
    /\ pc = [t \in Caller |-> "idle"] /\ num = [t \in Caller |-> 0]
    /\ kind = [t \in Caller |-> "notify"] /\ sw = [t \in Caller |-> FALSE]
    /\ sent = [t \in Caller |-> "no"] /\ answer = [t \in Caller |-> "no"]
    /\ got = [t \in Caller |-> NoMsg]
    /\ timed = {} /\ rxq = {} /\ txq = <<>>
    /\ txpc = "check" /\ txcur = NoMsg /\ txdone = 0 /\ txttl = FALSE /\ txprog = FALSE
    /\ rxpc = "peek" /\ rxcur = NoMsg /\ parts = <<>> /\ rxpkt = NoMsg
    /\ head = NoMsg /\ rxprog = FALSE /\ lost = FALSE /\ dead = FALSE
    /\ hwtx = NoMsg /\ hwrx = NoMsg /\ swtx = NoMsg /\ swrx = NoMsg
    /\ reqs = <<>> /\ comp = 0 /\ lpc = "wait" /\ stopped = "no"
    /\ rpc = "idle" /\ wpc = "idle"
    /\ heard = {} /\ replied = {} /\ asks = 0 /\ asm = NoMsg
    /\ out = NoMsg /\ outk = 0

-----------------------------------------------------------------------------
(* mailbox_request and mailbox_post                                         *)

\* A client has the leaf while it calls it, so it is not being removed.
Begin(t, k, s) ==
    /\ pc[t] = "idle" /\ stopped = "no"
    /\ num' = [num EXCEPT ![t] = @ + 1]
    /\ kind' = [kind EXCEPT ![t] = k]
    /\ sw' = [sw EXCEPT ![t] = s]
    /\ UNCHANGED <<sent, answer, got, timed>>

\* It frees its messages and returns.
Return(t) ==
    /\ pc' = [pc EXCEPT ![t] = "idle"]
    /\ kind' = [kind EXCEPT ![t] = "notify"]
    /\ sw' = [sw EXCEPT ![t] = FALSE]
    /\ sent' = [sent EXCEPT ![t] = "no"]
    /\ answer' = [answer EXCEPT ![t] = "no"]
    /\ got' = [got EXCEPT ![t] = NoMsg]
    /\ timed' = timed \ {t}
    /\ UNCHANGED <<num, txq, tx, rx, hwtx, hwrx, swtx, swrx, listen, stopped, daemon, peer>>

\* chan_msg_enqueue on TX.  No client is here once the channel stops.
Enqueue(t) == txq' = Append(txq, t)

\* "Always enqueue RX msg before TX one to avoid race."
Request(t, s) ==
    /\ t # Listener /\ num[t] < MaxCalls
    /\ Begin(t, "request", s)
    /\ rxq' = rxq \cup {t}
    /\ pc' = [pc EXCEPT ![t] = "queueing"]
    /\ UNCHANGED <<txq, tx, rx, hwtx, hwrx, swtx, swrx, listen, stopped, daemon, peer>>

RequestQueue(t) ==
    /\ pc[t] = "queueing"
    /\ Enqueue(t)
    /\ pc' = [pc EXCEPT ![t] = "sending"]
    /\ UNCHANGED <<num, kind, sw, sent, answer, got, timed, rxq, tx, rx, hwtx, hwrx,
                   swtx, swrx, listen, stopped, daemon, peer>>

Post(t, k, s) ==
    /\ Begin(t, k, s)
    /\ Enqueue(t)
    /\ pc' = [pc EXCEPT ![t] = "sending"]
    /\ UNCHANGED <<rxq, tx, rx, hwtx, hwrx, swtx, swrx, reqs, comp, stopped, daemon, peer>>

Notify(t, s) ==
    /\ t # Listener /\ num[t] < MaxCalls
    /\ Post(t, "notify", s)
    /\ UNCHANGED lpc

\* Mutant of RequestSent: the clock for the response is not started.
RequestSentUntimed(t) ==
    /\ pc[t] = "sending" /\ kind[t] = "request" /\ sent[t] = "ok"
    /\ pc' = [pc EXCEPT ![t] = "waiting"]
    /\ UNCHANGED <<num, kind, sw, sent, answer, got, timed, rxq, txq, tx, rx, hwtx, hwrx,
                   swtx, swrx, listen, stopped, daemon, peer>>

\* The message was sent: a request now has as long as its caller said.
RequestSent(t) ==
    /\ pc[t] = "sending" /\ kind[t] = "request" /\ sent[t] = "ok"
    /\ timed' = timed \cup {t}
    /\ pc' = [pc EXCEPT ![t] = "waiting"]
    /\ UNCHANGED <<num, kind, sw, sent, answer, got, rxq, txq, tx, rx, hwtx, hwrx,
                   swtx, swrx, listen, stopped, daemon, peer>>

\* Or it was not: the message for the response is dequeued, if it is queued,
\* and both are freed.
RequestFailed(t) ==
    /\ pc[t] = "sending" /\ kind[t] = "request" /\ sent[t] = "err"
    /\ rxq' = rxq \ {t}
    /\ Return(t)

Answered(t) ==
    /\ pc[t] = "waiting" /\ answer[t] # "no"
    /\ Return(t)
    /\ UNCHANGED rxq

Posted(t) ==
    /\ pc[t] = "sending" /\ kind[t] # "request" /\ sent[t] # "no"
    /\ Return(t)
    /\ UNCHANGED rxq

Client(t) ==
    \/ RequestQueue(t) \/ RequestSent(t) \/ RequestFailed(t) \/ Answered(t) \/ Posted(t)

-----------------------------------------------------------------------------
(* The TX worker: chan_worker with chan_do_tx                               *)

txRest == <<calls, answer, got, timed, rxq, rx, hwrx, swrx, listen, stopped, daemon, peer>>

Ready(s) == IF s THEN swtx = NoMsg ELSE ~dead /\ hwtx = NoMsg

\* What a write of mbr_ctrl leaves in a FIFO with p in it.  It may not reach
\* the hardware when reads do not.
Cleared(p) == {NoMsg} \cup IF dead THEN {p} ELSE {}

\* chan_msg_done, without the reset of the channel.
TxDone(r) ==
    /\ sent' = [sent EXCEPT ![txcur] = r]
    /\ txcur' = NoMsg /\ txdone' = 0 /\ txttl' = FALSE

\* chan_send_pkt: the next packet goes into the FIFO.
SendPkt(c) ==
    /\ hwtx' = <<<<c, num[c]>>, txdone + 1>>
    /\ txdone' = txdone + 1

\* outstanding_msg_ttl_reset, after a round that made progress.
Waiting(c, progress) == txttl' = (c # NoMsg /\ (txttl \/ progress))

TxCheck ==
    /\ txpc = "check" /\ txpc' = "send"
    /\ IF txcur # NoMsg /\ Ready(sw[txcur])
       THEN /\ txprog' = TRUE
            /\ IF txdone >= TxLen
               THEN TxDone("ok")
               ELSE UNCHANGED <<sent, txcur, txdone, txttl>>
       ELSE UNCHANGED <<sent, txcur, txdone, txttl, txprog>>
    /\ UNCHANGED <<txq, hwtx, swtx, txRest>>

\* dequeue_tx_msg, then do_sw_tx or do_hw_tx of what is outstanding.  What is
\* sent out is not asked again whether it is complete: chan_msg2pkt makes
\* an empty packet of nothing.
TxSend ==
    /\ txpc = "send" /\ txpc' = "timer"
    /\ LET fresh == txcur = NoMsg /\ txq # <<>>
           cur == IF fresh THEN Head(txq) ELSE txcur
       IN  /\ txcur' = cur
           /\ txq' = IF fresh THEN Tail(txq) ELSE txq
           /\ IF cur # NoMsg /\ Ready(sw[cur])
              THEN /\ txprog' = TRUE /\ Waiting(cur, TRUE)
                   /\ IF sw[cur]
                      THEN /\ swtx' = <<cur, num[cur]>>
                           /\ txdone' = IF txdone = 0 THEN TxLen ELSE txdone + 1
                           /\ UNCHANGED hwtx
                      ELSE SendPkt(cur) /\ UNCHANGED swtx
              ELSE /\ Waiting(cur, txprog)
                   /\ UNCHANGED <<hwtx, swtx, txdone, txprog>>
    /\ UNCHANGED <<sent, txRest>>

\* handle_timer_event: the outstanding message made no progress for a second.
\* Those that are queued have no ttl, and neither has one that was dequeued
\* when nothing could be sent: alloc_msg gave it MSG_MAX_TTL.
TxExpire ==
    /\ txpc = "timer" /\ txttl /\ ~txprog
    /\ TxDone("err")
    /\ IF sw[txcur] THEN swtx' = NoMsg /\ UNCHANGED hwtx
                    ELSE hwtx' \in Cleared(hwtx) /\ UNCHANGED swtx
    /\ UNCHANGED <<txpc, txprog, txq, txRest>>

TxTimer ==
    /\ txpc = "timer" /\ txpc' = "check"
    /\ txprog' = FALSE
    /\ UNCHANGED <<sent, txcur, txdone, txttl, txq, hwtx, swtx, txRest>>

TxWorker == TxCheck \/ TxSend \/ TxTimer

-----------------------------------------------------------------------------
(* The RX worker: chan_worker with chan_do_rx                               *)

rxRest == <<calls, sent, timed, txq, tx, hwtx, swtx, lpc, stopped, daemon, peer>>

\* The id of an incoming response is that of the message for it.
Expects(t, m) == m.of[1] = t /\ (SameBuffer \/ m.of[2] = num[t])

\* The message being filled is still the one its caller waits with.
Waits(c) ==
    c.flag = "response" /\ pc[c.by[1]] # "idle" /\ num[c.by[1]] = c.by[2]

\* reset_sw_ch or reset_hw_ch, whichever mbm_chan_sw says.
Reset(s) == IF s THEN swrx' = NoMsg /\ UNCHANGED hwrx
                 ELSE hwrx' \in Cleared(hwrx) /\ UNCHANGED swrx

\* Mutant of RxDone: mbx_comp is not completed.
RxDoneSilent(r) ==
    /\ rxcur' = NoMsg /\ parts' = <<>>
    /\ answer' = IF Waits(rxcur) THEN [answer EXCEPT ![rxcur.by[1]] = r] ELSE answer
    /\ reqs' = IF rxcur.flag = "request" /\ r = "ok" /\ Len(reqs) < MaxQueue
               THEN Append(reqs, rxcur.by) ELSE reqs
    /\ UNCHANGED comp

\* chan_msg_done, without the reset of the channel: a response wakes its
\* caller, a request is listed, or dropped when there are too many.
RxDone(r) ==
    /\ rxcur' = NoMsg /\ parts' = <<>>
    /\ answer' = IF Waits(rxcur) THEN [answer EXCEPT ![rxcur.by[1]] = r] ELSE answer
    /\ IF rxcur.flag = "request" /\ r = "ok" /\ Len(reqs) < MaxQueue
       THEN reqs' = Append(reqs, rxcur.by) /\ comp' = comp + 1
       ELSE UNCHANGED <<reqs, comp>>

\* dequeue_rx_msg: a response without a message for it, and a request that
\* cannot be allocated, are of no use; a response that is too big fails.
Match(m, s) ==
    \/ /\ m.flag = "response"
       /\ \E t \in rxq :
              /\ Expects(t, m) /\ ~m.big
              /\ rxq' = rxq \ {t}
              /\ rxcur' = [flag |-> "response", by |-> <<t, num[t]>>, sw |-> sw[t]]
              /\ got' = [got EXCEPT ![t] = m.of]
       /\ UNCHANGED <<answer, swrx, hwrx>>
    \/ /\ m.flag = "response"
       /\ \E t \in rxq :
              /\ Expects(t, m) /\ m.big
              /\ rxq' = rxq \ {t}
              /\ answer' = [answer EXCEPT ![t] = "err"]
              /\ Reset(sw[t])
       /\ UNCHANGED <<rxcur, got>>
    \/ /\ m.flag = "response" => ~ \E t \in rxq : Expects(t, m)
       /\ UNCHANGED <<rxq, rxcur, got, answer, swrx, hwrx>>
    \/ /\ m.flag = "request"
       /\ rxcur' = [flag |-> "request", by |-> m.of, sw |-> s]
       /\ UNCHANGED <<rxq, got, answer, swrx, hwrx>>

\* do_sw_rx: look, dequeue, and take what is there, with the lock dropped
\* in between.
SwPeek ==
    /\ rxpc = "peek"
    /\ IF rxcur = NoMsg /\ swrx # NoMsg
       THEN rxpc' = "match" /\ head' = swrx
       ELSE rxpc' = "hw" /\ UNCHANGED head
    /\ UNCHANGED <<rxcur, parts, rxpkt, rxprog, lost, rxq, got, answer, swrx, hwrx, reqs, comp, rxRest>>

SwMatch ==
    /\ rxpc = "match" /\ rxpc' = "take"
    /\ Match(head, TRUE)
    /\ UNCHANGED <<parts, rxpkt, head, rxprog, lost, reqs, comp, rxRest>>

SwTake ==
    /\ rxpc = "take" /\ rxpc' = "hw"
    /\ swrx' = NoMsg /\ head' = NoMsg /\ rxprog' = TRUE
    /\ IF rxcur = NoMsg THEN UNCHANGED <<rxcur, parts, answer, reqs, comp>> ELSE RxDone("ok")
    /\ UNCHANGED <<rxpkt, lost, rxq, got, hwrx, rxRest>>

\* chan_recv_pkt: the packet leaves the FIFO, and the peer writes the next one.
RecvPkt == rxpkt' = hwrx /\ hwrx' = NoMsg

\* do_hw_rx: read a packet if there is one and the status is valid.
HwRecv ==
    /\ rxpc = "hw"
    /\ IF dead \/ hwrx = NoMsg
       THEN rxpc' = "timer" /\ UNCHANGED <<rxpkt, hwrx>>
       ELSE rxpc' = "handle" /\ RecvPkt
    /\ UNCHANGED <<rxcur, parts, head, rxprog, lost, rxq, got, answer, swrx, reqs, comp, rxRest>>

\* PKT_MSG_START while a message is outstanding, of which the rest is missing.
HwPartial ==
    /\ rxpc = "handle" /\ rxpkt.k = 1 /\ rxcur # NoMsg
    /\ RxDone("err")
    /\ Reset(rxcur.sw)
    /\ lost' = (hwrx' # hwrx)
    /\ UNCHANGED <<rxpc, rxpkt, head, rxprog, rxq, got, rxRest>>

HwStart ==
    /\ rxpc = "handle" /\ rxpc' = "fill" /\ rxpkt.k = 1 /\ rxcur = NoMsg
    /\ Match(rxpkt.msg, FALSE)
    /\ UNCHANGED <<parts, rxpkt, head, rxprog, lost, reqs, comp, rxRest>>

HwBody ==
    /\ rxpc = "handle" /\ rxpc' = "fill" /\ rxpkt.k > 1
    /\ UNCHANGED <<rxcur, parts, rxpkt, head, rxprog, lost, rxq, got, answer, swrx, hwrx, reqs, comp, rxRest>>

\* Mutant of HwFill: the packet before the last one completes the message.
HwFillShort ==
    /\ rxpc = "fill" /\ rxpc' = "timer" /\ rxpkt' = NoMsg
    /\ IF rxcur = NoMsg
       THEN UNCHANGED <<rxcur, parts, rxprog, answer, reqs, comp>> /\ lost' = FALSE
       ELSE /\ rxprog' = TRUE
            /\ IF rxpkt.k >= RxLen - 1
               THEN RxDone("ok") /\ lost' = FALSE
               ELSE /\ parts' = Append(parts, <<rxpkt.msg.of, rxpkt.k>>)
                    /\ UNCHANGED <<rxcur, lost, answer, reqs, comp>>
    /\ UNCHANGED <<head, rxq, got, swrx, hwrx, rxRest>>

\* chan_pkt2msg.  The packet that says it is the last one completes the message.
HwFill ==
    /\ rxpc = "fill" /\ rxpc' = "timer" /\ rxpkt' = NoMsg
    /\ IF rxcur = NoMsg
       THEN UNCHANGED <<rxcur, parts, rxprog, answer, reqs, comp>> /\ lost' = FALSE
       ELSE /\ rxprog' = TRUE
            /\ IF rxpkt.k = RxLen
               THEN RxDone("ok") /\ lost' = FALSE
               ELSE /\ parts' = Append(parts, <<rxpkt.msg.of, rxpkt.k>>)
                    /\ UNCHANGED <<rxcur, lost, answer, reqs, comp>>
    /\ UNCHANGED <<head, rxq, got, swrx, hwrx, rxRest>>

\* timeout_msg: the outstanding message, and then queued ones whose callers
\* have started the clock.
RxExpireCur ==
    /\ rxpc = "timer" /\ rxcur # NoMsg /\ ~rxprog
    /\ RxDone("err")
    /\ Reset(rxcur.sw)
    /\ lost' = FALSE
    /\ UNCHANGED <<rxpc, rxpkt, head, rxprog, rxq, got, rxRest>>

\* Mutant of RxExpire: what timed out is taken off the queue and not completed.
RxExpireSilent(t) ==
    /\ rxpc = "timer" /\ t \in rxq \cap timed
    /\ rxq' = rxq \ {t}
    /\ UNCHANGED <<answer, rxpc, rxcur, parts, rxpkt, head, rxprog, lost, got, swrx, hwrx, reqs, comp, rxRest>>

RxExpire(t) ==
    /\ rxpc = "timer" /\ t \in rxq \cap timed
    /\ rxq' = rxq \ {t}
    /\ answer' = [answer EXCEPT ![t] = "err"]
    /\ UNCHANGED <<rxpc, rxcur, parts, rxpkt, head, rxprog, lost, got, swrx, hwrx, reqs, comp, rxRest>>

RxTimer ==
    /\ rxpc = "timer" /\ rxpc' = "peek"
    /\ rxprog' = FALSE
    /\ UNCHANGED <<rxcur, parts, rxpkt, head, lost, rxq, got, answer, swrx, hwrx, reqs, comp, rxRest>>

RxWorker ==
    \/ SwPeek \/ SwMatch \/ SwTake
    \/ HwRecv \/ HwPartial \/ HwStart \/ HwBody \/ HwFill
    \/ RxTimer

-----------------------------------------------------------------------------
(* mailbox_recv_request, with a callback that may respond                   *)

listenRest == <<rxq, txq, tx, rx, hwtx, hwrx, swtx, swrx, daemon, peer>>
idle == <<calls, sent, answer, got, timed, listenRest>>

ListenWake ==
    /\ lpc = "wait" /\ comp > 0
    /\ comp' = comp - 1 /\ lpc' = "next"
    /\ UNCHANGED <<reqs, stopped, idle>>

ListenTake ==
    /\ lpc = "next" /\ reqs # <<>>
    /\ reqs' = Tail(reqs) /\ lpc' = "busy"
    /\ UNCHANGED <<comp, stopped, idle>>

ListenRespond(s) ==
    /\ lpc = "busy" /\ lpc' = "called"
    /\ Post(Listener, "respond", s)

ListenReturn ==
    /\ lpc \in {"busy", "called"} /\ pc[Listener] = "idle"
    /\ lpc' = "next"
    /\ UNCHANGED <<reqs, comp, stopped, idle>>

ListenSleep ==
    /\ lpc = "next" /\ reqs = <<>>
    /\ lpc' = IF stopped = "rx" THEN "off" ELSE "wait"
    /\ stopped' = IF stopped = "rx" THEN "all" ELSE stopped
    /\ UNCHANGED <<reqs, comp, idle>>

Listen == ListenWake \/ ListenTake \/ ListenReturn \/ ListenSleep

-----------------------------------------------------------------------------
(* mailbox_stop, when no client has the leaf and no daemon its node open    *)

\* chan_fini of TX: the worker leaves its loop.
StopTx ==
    /\ stopped = "no" /\ \A t \in Caller : pc[t] = "idle"
    /\ lpc \in {"wait", "next"} /\ rpc = "idle" /\ wpc = "idle"
    /\ txpc = "check" /\ txpc' = "off" /\ stopped' = "tx"
    /\ swtx' = NoMsg
    /\ UNCHANGED <<calls, sent, answer, got, timed, rxq, txq, txcur, txdone, txttl, txprog,
                   rx, hwtx, hwrx, swrx, listen, daemon, peer>>

\* chan_fini of RX: a request that is outstanding is freed, and the channel
\* reset.  Then
\* listen_wq_fini wakes the listener, and waits for it.
StopRx ==
    /\ stopped = "tx" /\ rxpc = "peek"
    /\ rxpc' = "off" /\ stopped' = "rx"
    /\ swrx' = NoMsg /\ parts' = <<>> /\ rxcur' = NoMsg
    /\ hwrx' = IF rxcur # NoMsg /\ ~rxcur.sw THEN NoMsg ELSE hwrx
    /\ comp' = comp + 1
    /\ UNCHANGED <<calls, sent, answer, got, timed, rxq, txq, tx, rxpkt, head, rxprog,
                   lost, hwtx, swtx, reqs, lpc, daemon, peer>>

-----------------------------------------------------------------------------
(* The daemon: mailbox_read and mailbox_write                               *)

daemonRest == <<calls, sent, answer, got, timed, rxq, txq, tx, rx, hwtx, hwrx, listen, stopped, dead>>

\* A request, or a response to one, that comes from the peer.
Arriving ==
    {[flag |-> "response", of |-> h, big |-> b] : h \in heard \ replied, b \in Bigs}
    \cup {[flag |-> "request", of |-> <<Peer, n>>, big |-> FALSE] :
              n \in {asks + 1} \cap 1 .. PeerAsks}

Arrives(m) ==
    IF m.flag = "response"
    THEN replied' = replied \cup {m.of} /\ UNCHANGED asks
    ELSE asks' = asks + 1 /\ UNCHANGED replied

\* What is complete is taken while the TX worker is between two looks at the
\* channel, of which the second has it send again.
SoonEnough == txpc = "send" => txdone < TxLen + Again

Hears(c) == heard' = IF kind[c[1]] = "request" THEN heard \cup {c} ELSE heard

ReadWait ==
    /\ TRUE \in Sws /\ stopped = "no"
    /\ rpc = "idle" /\ swtx # NoMsg
    /\ rpc' = "found"
    /\ UNCHANGED <<wpc, swtx, swrx, peer, daemonRest>>

ReadTake ==
    /\ rpc = "found" /\ swtx # NoMsg /\ SoonEnough
    /\ rpc' = "idle"
    /\ Hears(swtx) /\ swtx' = NoMsg
    /\ UNCHANGED <<wpc, swrx, replied, asks, asm, out, outk, daemonRest>>

\* Nothing there any more, or a buffer that is too small or not writable.
ReadFail ==
    /\ rpc = "found" /\ rpc' = "idle"
    /\ UNCHANGED <<wpc, swtx, swrx, peer, daemonRest>>

WriteWait ==
    /\ TRUE \in Sws /\ stopped = "no"
    /\ wpc = "idle" /\ swrx = NoMsg
    /\ wpc' = "found"
    /\ UNCHANGED <<rpc, swtx, swrx, peer, daemonRest>>

WritePut ==
    /\ wpc = "found" /\ swrx = NoMsg
    /\ wpc' = "idle"
    /\ \E m \in Arriving : swrx' = m /\ Arrives(m)
    /\ UNCHANGED <<rpc, swtx, heard, asm, out, outk, daemonRest>>

\* The channel is busy, or the message malformed.
WriteFail ==
    /\ wpc = "found" /\ wpc' = "idle"
    /\ UNCHANGED <<rpc, swtx, swrx, peer, daemonRest>>

Daemon == ReadWait \/ ReadTake \/ ReadFail \/ WriteWait \/ WritePut \/ WriteFail

-----------------------------------------------------------------------------
(* The peer behind the hardware channel                                     *)

peerRest == <<calls, sent, answer, got, timed, rxq, txq, tx, rx, swtx, swrx, listen, stopped, daemon, dead>>

\* It reads a packet, and has a message with the last packet of it.
PeerRecv ==
    /\ hwtx # NoMsg /\ hwtx' = NoMsg /\ SoonEnough
    /\ LET c == hwtx[1]  k == hwtx[2]
           cur == IF k = 1 THEN c ELSE asm
       IN  IF k >= TxLen /\ cur # NoMsg
           THEN Hears(c) /\ asm' = NoMsg
           ELSE asm' = cur /\ UNCHANGED heard
    /\ UNCHANGED <<hwrx, replied, asks, out, outk, peerRest>>

\* It gives up on the rest of a message, and resets its end of the channel.
PeerReset ==
    /\ asm # NoMsg /\ SoonEnough
    /\ asm' = NoMsg /\ hwtx' = NoMsg
    /\ UNCHANGED <<hwrx, heard, replied, asks, out, outk, peerRest>>

PeerBegin ==
    /\ FALSE \in Sws /\ out = NoMsg /\ hwrx = NoMsg
    /\ \E m \in Arriving : out' = m /\ Arrives(m)
    /\ outk' = 0
    /\ UNCHANGED <<hwtx, hwrx, heard, asm, peerRest>>

PeerSend ==
    /\ out # NoMsg /\ outk < RxLen /\ hwrx = NoMsg
    /\ outk' = outk + 1
    /\ hwrx' = [msg |-> out, k |-> outk + 1]
    /\ UNCHANGED <<hwtx, heard, replied, asks, asm, out, peerRest>>

PeerSent ==
    /\ out # NoMsg /\ outk = RxLen /\ hwrx = NoMsg
    /\ out' = NoMsg /\ outk' = 0
    /\ UNCHANGED <<hwtx, hwrx, heard, replied, asks, asm, peerRest>>

\* A message of it times out, and it resets its end of the channel.
PeerExpire ==
    /\ GivesUp /\ out # NoMsg
    /\ out' = NoMsg /\ outk' = 0 /\ hwrx' = NoMsg
    /\ UNCHANGED <<hwtx, heard, replied, asks, asm, peerRest>>

(* The device is reset or a firewall trips, and is cleared again.            *)
Status ==
    /\ FALSE \in Sws /\ SoonEnough
    /\ dead' = ~dead
    /\ UNCHANGED <<calls, sent, answer, got, timed, rxq, txq, tx, rx, hwtx, hwrx, swtx, swrx,
                   listen, stopped, daemon, heard, replied, asks, asm, out, outk>>

PeerActs == PeerRecv \/ PeerReset \/ PeerBegin \/ PeerSend \/ PeerSent \/ PeerExpire

-----------------------------------------------------------------------------
Next ==
    \/ \E t \in Caller, s \in Sws : Request(t, s) \/ Notify(t, s)
    \/ \E t \in Caller : Client(t)
    \/ TxWorker \/ TxExpire
    \/ RxWorker \/ RxExpireCur \/ \E t \in Caller : RxExpire(t)
    \/ \E s \in Sws : ListenRespond(s)
    \/ Listen
    \/ StopTx \/ StopRx
    \/ Daemon \/ PeerActs \/ Status

Spec == Init /\ [][Next]_vars

\* The workers run, and so does a caller whose message is completed.  A ttl
\* that is set runs down unless there is progress.  Nothing is asked of the
\* peer or the daemon.
FairSpec ==
    /\ Spec
    /\ \A t \in Caller : WF_vars(Client(t))
    /\ WF_vars(TxWorker) /\ SF_vars(TxExpire)
    /\ WF_vars(RxWorker) /\ SF_vars(RxExpireCur)
    /\ \A t \in Caller : SF_vars(RxExpire(t))
    /\ WF_vars(Listen)
=============================================================================
