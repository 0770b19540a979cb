---------------------------- MODULE MailboxProofs ----------------------------
(***************************************************************************)
(* Theorems about the mailbox leaf, for any callers, message lengths and   *)
(* peer.                                                                   *)
(***************************************************************************)
EXTENDS MailboxProps, SequenceTheorems, TLAPS

\* What the proofs need of the types.
MailboxTypes ==
    /\ pc \in [Caller -> {"idle", "queueing", "sending", "waiting"}]
    /\ num \in [Caller -> Nat]
    /\ kind \in [Caller -> {"request", "notify", "respond"}]
    /\ sw \in [Caller -> BOOLEAN]
    /\ sent \in [Caller -> {"no", "ok", "err"}]
    /\ answer \in [Caller -> {"no", "ok", "err"}]
    /\ rxq \subseteq Caller /\ txq \in Seq(Caller)
    /\ txcur \in Caller \cup {NoMsg}
    /\ comp \in Nat

Inv == MailboxTypes /\ MailboxInv

-----------------------------------------------------------------------------
(* The queue to be sent.                                                    *)

LEMMA QueueAppend ==
    ASSUME NEW S, NEW q \in Seq(S), NEW e \in S
    PROVE  /\ Append(q, e) \in Seq(S)
           /\ ToSet(Append(q, e)) = ToSet(q) \cup {e}
           /\ IsInjective(q) /\ e \notin ToSet(q) => IsInjective(Append(q, e))
<1> DEFINE r == Append(q, e)
<1>1. /\ r \in Seq(S) /\ Len(r) = Len(q) + 1 /\ Len(q) \in Nat
      /\ \A i \in 1 .. Len(q) : r[i] = q[i]
      /\ r[Len(q) + 1] = e
  BY AppendProperties, LenProperties
<1>2. DOMAIN r = 1 .. Len(q) + 1 /\ DOMAIN q = 1 .. Len(q)
  BY <1>1, LenProperties
<1> HIDE DEF r
<1>3. ToSet(r) = ToSet(q) \cup {e}
  <2>1. ASSUME NEW x \in ToSet(r) PROVE x \in ToSet(q) \cup {e}
    <3>1. PICK i \in 1 .. Len(q) + 1 : x = r[i]
      BY <1>2 DEF ToSet
    <3>2. i \in 1 .. Len(q) \/ i = Len(q) + 1
      BY <1>1
    <3> QED
      BY <1>1, <1>2, <3>1, <3>2 DEF ToSet
  <2>2. ASSUME NEW x \in ToSet(q) PROVE x \in ToSet(r)
    <3>1. PICK i \in 1 .. Len(q) : x = q[i]
      BY <1>2 DEF ToSet
    <3>2. i \in DOMAIN r /\ r[i] = x
      BY <1>1, <1>2, <3>1
    <3> QED
      BY <3>2 DEF ToSet
  <2>3. e \in ToSet(r)
    <3>1. Len(q) + 1 \in DOMAIN r
      BY <1>1, <1>2
    <3> QED
      BY <1>1, <3>1 DEF ToSet
  <2> QED
    BY <2>1, <2>2, <2>3
<1>4. ASSUME IsInjective(q), e \notin ToSet(q), NEW i \in DOMAIN r, NEW j \in DOMAIN r,
             r[i] = r[j]
      PROVE  i = j
  <2>1. \A k \in 1 .. Len(q) : q[k] # e
    BY <1>2, <1>4 DEF ToSet
  <2>2. /\ i \in 1 .. Len(q) \/ i = Len(q) + 1
        /\ j \in 1 .. Len(q) \/ j = Len(q) + 1
    BY <1>1, <1>2
  <2> QED
    BY <1>1, <1>2, <1>4, <2>1, <2>2 DEF IsInjective
<1>5. IsInjective(q) /\ e \notin ToSet(q) => IsInjective(r)
  BY <1>4 DEF IsInjective
<1> QED
  BY <1>1, <1>3, <1>5 DEF r

\* What taking the head off a queue without repetition leaves (list_first_entry, list_del).
LEMMA QueueHead ==
    ASSUME NEW S, NEW q \in Seq(S), q # <<>>
    PROVE  /\ Head(q) \in S /\ Tail(q) \in Seq(S)
           /\ ToSet(q) = ToSet(Tail(q)) \cup {Head(q)}
           /\ IsInjective(q) => IsInjective(Tail(q)) /\ Head(q) \notin ToSet(Tail(q))
<1> DEFINE r == Tail(q)
           h == Head(q)
<1>1. /\ h \in S /\ r \in Seq(S) /\ Len(q) \in Nat \ {0} /\ Len(r) = Len(q) - 1
      /\ \A i \in 1 .. Len(q) - 1 : r[i] = q[i + 1]
      /\ h = q[1]
  BY HeadTailProperties, EmptySeq
<1>2. DOMAIN r = 1 .. Len(q) - 1 /\ DOMAIN q = 1 .. Len(q)
  BY <1>1, LenProperties
<1> HIDE DEF r, h
<1>3. ToSet(q) = ToSet(r) \cup {h}
  <2>1. ASSUME NEW x \in ToSet(q) PROVE x \in ToSet(r) \cup {h}
    <3>1. PICK i \in 1 .. Len(q) : x = q[i]
      BY <1>2 DEF ToSet
    <3>2. CASE i = 1
      BY <1>1, <3>1, <3>2
    <3>3. CASE i # 1
      <4>1. i - 1 \in DOMAIN r /\ r[i - 1] = q[(i - 1) + 1] /\ (i - 1) + 1 = i
        BY <1>1, <1>2, <3>3
      <4> QED
        BY <3>1, <4>1 DEF ToSet
    <3> QED
      BY <3>2, <3>3
  <2>2. ASSUME NEW x \in ToSet(r) PROVE x \in ToSet(q)
    <3>1. PICK i \in 1 .. Len(q) - 1 : x = r[i]
      BY <1>2 DEF ToSet
    <3>2. i + 1 \in DOMAIN q /\ q[i + 1] = x
      BY <1>1, <1>2, <3>1
    <3> QED
      BY <3>2 DEF ToSet
  <2>3. h \in ToSet(q)
    <3>1. 1 \in DOMAIN q
      BY <1>1, <1>2
    <3> QED
      BY <1>1, <3>1 DEF ToSet
  <2> QED
    BY <2>1, <2>2, <2>3
<1>4. ASSUME IsInjective(q) PROVE IsInjective(r) /\ h \notin ToSet(r)
  <2>1. ASSUME NEW i \in DOMAIN r, NEW j \in DOMAIN r, r[i] = r[j] PROVE i = j
    <3>1. /\ i + 1 \in DOMAIN q /\ j + 1 \in DOMAIN q
          /\ q[i + 1] = q[j + 1] /\ i \in Nat /\ j \in Nat
      BY <1>1, <1>2, <2>1
    <3>2. i + 1 = j + 1
      BY <1>4, <3>1 DEF IsInjective
    <3> QED
      BY <3>1, <3>2
  <2>2. ASSUME NEW i \in DOMAIN r PROVE r[i] # h
    <3>1. 1 \in DOMAIN q /\ i + 1 \in DOMAIN q /\ r[i] = q[i + 1] /\ i + 1 # 1
      BY <1>1, <1>2
    <3> QED
      BY <1>1, <1>4, <3>1 DEF IsInjective
  <2> QED
    BY <2>1, <2>2 DEF IsInjective, ToSet
<1> QED
  BY <1>1, <1>3, <1>4 DEF r, h
-----------------------------------------------------------------------------
(* What is sent.                                                            *)

LEMMA TxQuiet ==
    ASSUME TxOwned, UNCHANGED <<pc, sent, txq, txcur>>
    PROVE  TxOwned'
  BY DEF TxOwned, InTx

\* chan_msg_enqueue on TX, mailbox.c:617.
LEMMA TxEnqueue ==
    ASSUME MailboxTypes, TxOwned, NEW t \in Caller, Enqueue(t),
           pc[t] \in {"idle", "queueing"}, pc' = [pc EXCEPT ![t] = "sending"],
           UNCHANGED <<sent, txcur>>
    PROVE  TxOwned' /\ txq' \in Seq(Caller)
<1> USE DEF MailboxTypes
<1>1. ~ InTx(t) /\ sent[t] = "no"
  BY DEF TxOwned
<1>2. t \notin ToSet(txq) /\ txcur # t
  BY <1>1 DEF InTx
<1>3. /\ txq' \in Seq(Caller) /\ ToSet(txq') = ToSet(txq) \cup {t}
      /\ IsInjective(txq')
  BY <1>2, QueueAppend DEF Enqueue, TxOwned
<1>4. ASSUME NEW u \in Caller PROVE InTx(u)' <=> InTx(u) \/ u = t
  BY <1>3 DEF InTx
<1>5. txcur' \notin ToSet(txq')
  BY <1>2, <1>3 DEF TxOwned
<1> QED
  BY <1>1, <1>3, <1>4, <1>5 DEF TxOwned

\* chan_msg_done of the TX worker.
LEMMA TxCompletes ==
    ASSUME MailboxTypes, TxOwned, NEW r \in {"ok", "err"}, TxDone(r),
           UNCHANGED <<pc, txq>>
    PROVE  TxOwned'
<1> USE DEF MailboxTypes
<1>1. sent' = [sent EXCEPT ![txcur] = r] /\ txcur' = NoMsg
  BY DEF TxDone
<1>2. ToSet(txq') = ToSet(txq) /\ ToSet(txq) \subseteq Caller
  BY DEF ToSet
<1>3. NoMsg \notin ToSet(txq')
  BY <1>2, NoMsgAssumption
<1>4. ASSUME NEW u \in Caller
      PROVE  /\ InTx(u)' <=> InTx(u) /\ u # txcur
             /\ sent'[u] = IF u = txcur THEN r ELSE sent[u]
  BY <1>1, <1>2, NoMsgAssumption DEF InTx, TxOwned
<1>5. \A u \in Caller : u = txcur => InTx(u)
  BY DEF InTx
<1> QED
  BY <1>1, <1>3, <1>4, <1>5 DEF TxOwned

\* A caller whose message was completed frees it.
LEMMA TxReturns ==
    ASSUME MailboxTypes, TxOwned, NEW t \in Caller, ~ InTx(t), Return(t)
    PROVE  TxOwned'
<1> USE DEF MailboxTypes
<1>1. /\ pc' = [pc EXCEPT ![t] = "idle"] /\ sent' = [sent EXCEPT ![t] = "no"]
      /\ UNCHANGED <<txq, txcur>>
  BY DEF Return, tx
<1>2. \A u : InTx(u)' <=> InTx(u)
  BY <1>1 DEF InTx
<1> QED
  BY <1>1, <1>2 DEF TxOwned

\* A caller of the mailbox leaves the TX channel with one owner of each message.
LEMMA TxClient ==
    ASSUME MailboxTypes, TxOwned, NEW t \in Caller, Client(t)
    PROVE  TxOwned'
<1> USE DEF MailboxTypes
<1>1. CASE RequestQueue(t)
  BY <1>1, TxEnqueue DEF RequestQueue, tx
<1>2. CASE RequestSent(t)
  <2>1. /\ pc[t] = "sending" /\ sent[t] = "ok" /\ pc' = [pc EXCEPT ![t] = "waiting"]
        /\ UNCHANGED <<sent, txq, txcur>>
    BY <1>2 DEF RequestSent, tx
  <2>2. ~ InTx(t)
    BY <2>1 DEF TxOwned
  <2>3. \A u : InTx(u)' <=> InTx(u)
    BY <2>1 DEF InTx
  <2>4. IsInjective(txq)' /\ (txcur \notin ToSet(txq))'
    BY <2>1 DEF TxOwned
  <2>5. ASSUME NEW u \in Caller
        PROVE  /\ InTx(u)' => pc'[u] = "sending"
               /\ pc'[u] = "sending" => (sent'[u] = "no" <=> InTx(u)')
               /\ pc'[u] \in {"idle", "queueing"} => sent'[u] = "no"
    BY <2>1, <2>2, <2>3 DEF TxOwned
  <2> QED
    BY <2>4, <2>5 DEF TxOwned
<1>3. CASE RequestFailed(t) \/ Answered(t) \/ Posted(t)
  <2>1. Return(t)
    BY <1>3 DEF RequestFailed, Answered, Posted
  <2>2. pc[t] = "waiting" \/ (pc[t] = "sending" /\ sent[t] # "no")
    BY <1>3 DEF RequestFailed, Answered, Posted
  <2>3. ~ InTx(t)
    BY <2>2 DEF TxOwned
  <2> QED
    BY <2>1, <2>3, TxReturns
<1> QED
  BY <1>1, <1>2, <1>3 DEF Client

\* The TX worker and its timer do too (chan_do_tx, mbx_timer).
LEMMA TxWork ==
    ASSUME MailboxTypes, TxOwned, TxWorker \/ TxExpire
    PROVE  TxOwned'
<1> USE DEF MailboxTypes, txRest, calls
<1>1. CASE TxCheck
  <2>1. UNCHANGED <<pc, txq>>
    BY <1>1 DEF TxCheck
  <2>2. TxDone("ok") \/ UNCHANGED <<sent, txcur>>
    BY <1>1 DEF TxCheck
  <2> QED
    BY <2>1, <2>2, TxCompletes, TxQuiet
<1>2. CASE TxSend
  <2>1. UNCHANGED <<pc, sent>>
    BY <1>2 DEF TxSend
  <2>2. CASE txcur = NoMsg /\ txq # <<>>
    <3>1. txcur' = Head(txq) /\ txq' = Tail(txq)
      BY <1>2, <2>2 DEF TxSend
    <3>2. /\ ToSet(txq) = ToSet(txq') \cup {txcur'} /\ txcur' \in Caller
          /\ IsInjective(txq') /\ txcur' \notin ToSet(txq')
      BY <2>2, <3>1, QueueHead DEF TxOwned
    <3>3. \A u \in Caller : InTx(u)' <=> InTx(u)
      BY <2>2, <3>2, NoMsgAssumption DEF InTx
    <3> QED
      BY <2>1, <3>2, <3>3 DEF TxOwned
  <2>3. CASE ~ (txcur = NoMsg /\ txq # <<>>)
    <3>1. UNCHANGED <<txcur, txq>>
      BY <1>2, <2>3 DEF TxSend
    <3> QED
      BY <2>1, <3>1, TxQuiet
  <2> QED
    BY <2>2, <2>3
<1>3. CASE TxTimer
  BY <1>3, TxQuiet DEF TxTimer
<1>4. CASE TxExpire
  BY <1>4, TxCompletes DEF TxExpire
<1> QED
  BY <1>1, <1>2, <1>3, <1>4 DEF TxWorker

\* So does every step.
LEMMA TxStep ==
    ASSUME MailboxTypes, TxOwned, [Next]_vars
    PROVE  TxOwned'
<1> USE DEF MailboxTypes, calls, tx, rx, listen, peer, daemon
<1>1. ASSUME NEW t \in Caller, NEW s \in Sws, Request(t, s) PROVE TxOwned'
  <2>1. /\ pc[t] = "idle" /\ pc' = [pc EXCEPT ![t] = "queueing"]
        /\ UNCHANGED <<sent, txq, txcur>>
    BY <1>1 DEF Request, Begin
  <2>2. \A u : InTx(u)' <=> InTx(u)
    BY <2>1 DEF InTx
  <2> QED
    BY <2>1, <2>2 DEF TxOwned
<1>2. ASSUME NEW t \in Caller, NEW s, NEW k, Post(t, k, s) PROVE TxOwned'
  BY <1>2, TxEnqueue DEF Post, Begin
<1>3. ASSUME NEW s, ListenRespond(s) PROVE TxOwned'
  BY <1>2, <1>3, MailboxAssumption DEF ListenRespond
<1>4. ASSUME NEW t \in Caller, NEW s, Notify(t, s) PROVE TxOwned'
  BY <1>2, <1>4 DEF Notify
<1>5. CASE RxWorker \/ RxExpireCur \/ \E t \in Caller : RxExpire(t)
  BY <1>5, TxQuiet DEF RxWorker, SwPeek, SwMatch, SwTake, HwRecv, HwPartial, HwStart, HwBody,
     HwFill, RxTimer, RxExpireCur, RxExpire, rxRest
<1>6. CASE Listen \/ StopTx \/ StopRx
  BY <1>6, TxQuiet DEF Listen, ListenWake, ListenTake, ListenReturn, ListenSleep, idle,
     listenRest, StopTx, StopRx
<1>7. CASE Daemon
  BY <1>7, TxQuiet DEF Daemon, ReadWait, ReadTake, ReadFail, WriteWait, WritePut, WriteFail,
     daemonRest
<1>8. CASE PeerActs \/ Status
  BY <1>8, TxQuiet DEF PeerActs, PeerRecv, PeerReset, PeerBegin, PeerSend, PeerSent,
     PeerExpire, Status, peerRest
<1>9. CASE UNCHANGED vars
  BY <1>9, TxQuiet DEF vars
<1> QED
  BY <1>1, <1>3, <1>4, <1>5, <1>6, <1>7, <1>8, <1>9, TxClient, TxWork DEF Next

-----------------------------------------------------------------------------
(* What is awaited.                                                         *)

LEMMA RxQuiet ==
    ASSUME RxOwned, FillsCall, UNCHANGED <<pc, num, kind, answer, rxq, rxcur>>,
           rxpc' = "match" => rxcur = NoMsg
    PROVE  RxOwned' /\ FillsCall'
  BY DEF RxOwned, FillsCall, Fills

\* A call that begins has a number that nothing on the way has.
LEMMA RxBegins ==
    ASSUME MailboxTypes, RxOwned, FillsCall, NEW t \in Caller,
           NEW k \in {"request", "notify", "respond"}, pc[t] = "idle",
           pc' = [pc EXCEPT ![t] = IF k = "request" THEN "queueing" ELSE "sending"],
           num' = [num EXCEPT ![t] = @ + 1], kind' = [kind EXCEPT ![t] = k],
           k = "request" => num[t] < MaxCalls,
           rxq' = IF k = "request" THEN rxq \cup {t} ELSE rxq,
           UNCHANGED <<answer, rxcur, rxpc>>
    PROVE  RxOwned' /\ FillsCall'
<1> USE MailboxAssumption DEF MailboxTypes
<1>1. ASSUME NEW u \in Caller PROVE Fills(u)' <=> Fills(u) /\ u # t
  <2>1. CASE u # t
    BY <2>1 DEF Fills
  <2>2. CASE u = t
    <3>1. ASSUME Fills(u)' PROVE FALSE
      <4>1. rxcur # NoMsg /\ rxcur.flag = "response" /\ rxcur.by = <<t, num[t] + 1>>
        BY <2>2, <3>1 DEF Fills
      <4>2. num[t] + 1 \in 1 .. num[t]
        BY <4>1 DEF FillsCall
      <4> QED
        BY <4>2
    <3> QED
      BY <2>2, <3>1
  <2> QED
    BY <2>1, <2>2
<1>2. t \notin rxq /\ answer[t] = "no"
  BY DEF RxOwned
<1>3. FillsCall'
  <2>1. \A u \in Caller : 1 .. num[u] \subseteq 1 .. num'[u]
    OBVIOUS
  <2> QED
    BY <2>1 DEF FillsCall
<1>4. ASSUME NEW u \in Caller, u # t
      PROVE  /\ u \in rxq' <=> u \in rxq
             /\ UNCHANGED <<pc[u], num[u], kind[u], answer[u]>>
  BY <1>4
<1>5. /\ num'[t] = num[t] + 1 /\ kind'[t] = k /\ answer'[t] = "no"
      /\ pc'[t] = (IF k = "request" THEN "queueing" ELSE "sending")
      /\ t \in rxq' <=> k = "request"
      /\ k = "request" => num'[t] \in 1 .. MaxCalls
  BY <1>2
<1>6. rxpc' = "match" => rxcur' = NoMsg
  BY DEF RxOwned
<1> QED
  BY <1>1, <1>3, <1>4, <1>5, <1>6 DEF RxOwned

\* A caller that returns leaves nothing of its own on the queue.
LEMMA RxReturns ==
    ASSUME MailboxTypes, RxOwned, FillsCall, NEW t \in Caller, Return(t),
           rxq' = rxq \ {t}
    PROVE  RxOwned' /\ FillsCall'
<1> USE DEF MailboxTypes
<1>1. /\ pc' = [pc EXCEPT ![t] = "idle"] /\ kind' = [kind EXCEPT ![t] = "notify"]
      /\ answer' = [answer EXCEPT ![t] = "no"] /\ num' = num
      /\ rxcur' = rxcur /\ rxpc' = rxpc
  BY DEF Return, rx
<1>2. \A u : Fills(u)' <=> Fills(u)
  BY <1>1 DEF Fills
<1>3. FillsCall'
  BY <1>1 DEF FillsCall
<1> QED
  BY <1>1, <1>2, <1>3 DEF RxOwned

\* A caller leaves the RX channel with one owner of each message.
LEMMA RxClient ==
    ASSUME MailboxTypes, RxOwned, FillsCall, NEW t \in Caller, Client(t)
    PROVE  RxOwned' /\ FillsCall'
<1> USE DEF MailboxTypes
<1>1. CASE RequestQueue(t) \/ RequestSent(t)
  <2>1. /\ pc[t] \in {"queueing", "sending"} /\ kind[t] = "request"
        /\ pc'[t] \in {"sending", "waiting"}
        /\ \A u \in Caller : u # t => pc'[u] = pc[u]
        /\ UNCHANGED <<num, kind, answer, rxq, rxcur, rxpc>>
    BY <1>1 DEF RequestQueue, RequestSent, RxOwned, rx
  <2>2. \A u : Fills(u)' <=> Fills(u)
    BY <2>1 DEF Fills
  <2>3. FillsCall'
    BY <2>1 DEF FillsCall
  <2> QED
    BY <2>1, <2>2, <2>3 DEF RxOwned
<1>2. CASE RequestFailed(t)
  BY <1>2, RxReturns DEF RequestFailed
<1>3. CASE Answered(t) \/ Posted(t)
  <2>1. Return(t)
    BY <1>3 DEF Answered, Posted
  <2>2. t \notin rxq /\ rxq' = rxq
    BY <1>3 DEF Answered, Posted, RxOwned
  <2> QED
    BY <2>1, <2>2, RxReturns
<1> QED
  BY <1>1, <1>2, <1>3 DEF Client

\* chan_msg_done of the RX worker: the one whose message it was is answered,
\* if it has not given up.
LEMMA RxCompletes ==
    ASSUME MailboxTypes, RxOwned, FillsCall, NEW r \in {"ok", "err"}, RxDone(r),
           rxcur # NoMsg, UNCHANGED <<pc, num, kind, rxq>>
    PROVE  RxOwned' /\ FillsCall'
<1> USE DEF MailboxTypes
<1>0. rxcur # NoMsg
  OBVIOUS
<1>1. /\ rxcur' = NoMsg
      /\ answer' = IF Waits(rxcur) THEN [answer EXCEPT ![rxcur.by[1]] = r] ELSE answer
  BY DEF RxDone
<1>2. FillsCall' /\ \A u : ~ Fills(u)'
  BY <1>1 DEF FillsCall, Fills
<1>3. ASSUME NEW u \in Caller
      PROVE  answer'[u] = IF Fills(u) /\ pc[u] # "idle" THEN r ELSE answer[u]
  <2>1. CASE Fills(u) /\ pc[u] # "idle"
    <3>1. Waits(rxcur) /\ rxcur.by[1] = u
      BY <2>1 DEF Fills, Waits
    <3> QED
      BY <1>1, <2>1, <3>1
  <2>2. CASE ~ (Fills(u) /\ pc[u] # "idle")
    <3>1. ASSUME Waits(rxcur) PROVE rxcur.by[1] # u
      <4>1. PICK v \in Caller : \E n \in 1 .. num[v] : rxcur.by = <<v, n>>
        BY <3>1, <1>0 DEF Waits, FillsCall
      <4>2. PICK n \in 1 .. num[v] : rxcur.by = <<v, n>>
        BY <4>1
      <4>3. Fills(v) /\ pc[v] # "idle" /\ rxcur.by[1] = v
        BY <1>0, <3>1, <4>2 DEF Waits, Fills
      <4> QED
        BY <2>2, <4>3
    <3>2. CASE Waits(rxcur)
      BY <1>1, <2>2, <3>1, <3>2
    <3>3. CASE ~ Waits(rxcur)
      BY <1>1, <2>2, <3>3
    <3> QED
      BY <3>2, <3>3
  <2> QED
    BY <2>1, <2>2
<1> QED
  BY <1>1, <1>2, <1>3 DEF RxOwned

\* dequeue_rx_msg, mailbox.c:825: a response is for one of those that wait.
LEMMA RxMatches ==
    ASSUME MailboxTypes, RxOwned, FillsCall, NEW m, NEW s, Match(m, s), rxcur = NoMsg,
           UNCHANGED <<pc, num, kind, sw>>, rxpc' # "match"
    PROVE  RxOwned' /\ FillsCall'
<1> USE DEF MailboxTypes
<1>1. \A u : ~ Fills(u)
  BY DEF Fills
<1>2. CASE \E t \in rxq :
               /\ rxq' = rxq \ {t} /\ answer' = answer
               /\ rxcur' = [flag |-> "response", by |-> <<t, num[t]>>, sw |-> sw[t]]
  <2>1. PICK t \in rxq :
               /\ rxq' = rxq \ {t} /\ answer' = answer
               /\ rxcur' = [flag |-> "response", by |-> <<t, num[t]>>, sw |-> sw[t]]
    BY <1>2
  <2>2. t \in Caller /\ num[t] \in 1 .. MaxCalls /\ sw[t] \in BOOLEAN
    BY DEF RxOwned
  <2>3. num[t] \in 1 .. MaxCalls + PeerAsks
    BY <2>2, MailboxAssumption
  <2>4. rxcur' # NoMsg
    BY <2>1, <2>2, <2>3, NoMsgAssumption DEF Filling, Call
  <2>5. \A u \in Caller : Fills(u)' <=> u = t
    BY <2>1, <2>4 DEF Fills
  <2>6. FillsCall'
    <3>1. num'[t] = num[t] /\ num[t] \in 1 .. num[t] /\ rxcur'.by = <<t, num[t]>>
      BY <2>1, <2>2
    <3> QED
      BY <2>2, <3>1 DEF FillsCall
  <2> QED
    BY <1>1, <2>1, <2>5, <2>6 DEF RxOwned
<1>3. CASE \E t \in rxq :
               /\ rxq' = rxq \ {t} /\ answer' = [answer EXCEPT ![t] = "err"]
               /\ rxcur' = rxcur
  <2>1. PICK t \in rxq :
               /\ rxq' = rxq \ {t} /\ answer' = [answer EXCEPT ![t] = "err"]
               /\ rxcur' = NoMsg
    BY <1>3
  <2>2. (\A u : ~ Fills(u)') /\ FillsCall'
    BY <2>1 DEF Fills, FillsCall
  <2> QED
    BY <1>1, <2>1, <2>2 DEF RxOwned
<1>4. CASE UNCHANGED <<rxq, answer, rxcur>>
  BY <1>4, RxQuiet
<1>5. CASE UNCHANGED <<rxq, answer>> /\ rxcur' = [flag |-> "request", by |-> m.of, sw |-> s]
  <2>1. (\A u : ~ Fills(u)') /\ FillsCall'
    BY <1>5 DEF Fills, FillsCall
  <2> QED
    BY <1>1, <1>5, <2>1 DEF RxOwned
<1>6. \/ \E t \in rxq :
             /\ rxq' = rxq \ {t} /\ answer' = answer
             /\ rxcur' = [flag |-> "response", by |-> <<t, num[t]>>, sw |-> sw[t]]
      \/ \E t \in rxq :
             /\ rxq' = rxq \ {t} /\ answer' = [answer EXCEPT ![t] = "err"]
             /\ rxcur' = rxcur
      \/ UNCHANGED <<rxq, answer, rxcur>>
      \/ UNCHANGED <<rxq, answer>> /\ rxcur' = [flag |-> "request", by |-> m.of, sw |-> s]
  BY DEF Match
<1> QED
  BY <1>2, <1>3, <1>4, <1>5, <1>6

\* timeout_msg: a caller whose response does not come is told so.
LEMMA RxExpires ==
    ASSUME MailboxTypes, RxOwned, FillsCall, NEW t \in Caller, RxExpire(t)
    PROVE  RxOwned' /\ FillsCall'
<1> USE DEF MailboxTypes
<1>1. /\ t \in rxq /\ rxq' = rxq \ {t} /\ answer' = [answer EXCEPT ![t] = "err"]
      /\ UNCHANGED <<pc, num, kind, rxcur, rxpc>>
  BY DEF RxExpire, rxRest, calls
<1>2. (\A u : Fills(u)' <=> Fills(u)) /\ FillsCall'
  BY <1>1 DEF Fills, FillsCall
<1> QED
  BY <1>1, <1>2 DEF RxOwned

\* The RX worker and its timer do too (chan_do_rx, mbx_timer).
LEMMA RxWork ==
    ASSUME MailboxTypes, RxOwned, FillsCall, RxWorker \/ RxExpireCur
    PROVE  RxOwned' /\ FillsCall'
<1> USE DEF rxRest, calls
<1>1. CASE SwPeek \/ HwRecv \/ HwBody \/ RxTimer
  BY <1>1, RxQuiet DEF SwPeek, HwRecv, HwBody, RxTimer
<1>2. CASE SwMatch
  <2>1. Match(head, TRUE)
    BY <1>2 DEF SwMatch
  <2>2. rxcur = NoMsg /\ UNCHANGED <<pc, num, kind, sw>> /\ rxpc' # "match"
    BY <1>2 DEF SwMatch, RxOwned
  <2> QED
    BY <2>1, <2>2, RxMatches
<1>3. CASE HwStart
  <2>1. Match(rxpkt.msg, FALSE)
    BY <1>3 DEF HwStart
  <2>2. rxcur = NoMsg /\ UNCHANGED <<pc, num, kind, sw>> /\ rxpc' # "match"
    BY <1>3 DEF HwStart
  <2> QED
    BY <2>1, <2>2, RxMatches
<1>4. CASE SwTake
  <2>1. UNCHANGED <<pc, num, kind, rxq>> /\ rxpc' # "match"
    BY <1>4 DEF SwTake
  <2>2. CASE rxcur = NoMsg
    BY <1>4, <2>1, <2>2, RxQuiet DEF SwTake
  <2>3. CASE rxcur # NoMsg
    <3>1. RxDone("ok")
      BY <1>4, <2>3 DEF SwTake
    <3> QED
      BY <2>1, <2>3, <3>1, RxCompletes
  <2> QED
    BY <2>2, <2>3
<1>5. CASE HwFill
  <2>1. UNCHANGED <<pc, num, kind, rxq>> /\ rxpc' # "match"
    BY <1>5 DEF HwFill
  <2>2. (RxDone("ok") /\ rxcur # NoMsg) \/ UNCHANGED <<rxcur, answer>>
    BY <1>5 DEF HwFill
  <2>3. CASE RxDone("ok") /\ rxcur # NoMsg
    BY <2>1, <2>3, RxCompletes
  <2>4. CASE UNCHANGED <<rxcur, answer>>
    BY <2>1, <2>4, RxQuiet
  <2> QED
    BY <2>2, <2>3, <2>4
<1>6. CASE HwPartial
  <2>1. RxDone("err") /\ rxcur # NoMsg
    BY <1>6 DEF HwPartial
  <2>2. UNCHANGED <<pc, num, kind, rxq>>
    BY <1>6 DEF HwPartial
  <2> QED
    BY <2>1, <2>2, RxCompletes
<1>7. CASE RxExpireCur
  <2>1. RxDone("err") /\ rxcur # NoMsg
    BY <1>7 DEF RxExpireCur
  <2>2. UNCHANGED <<pc, num, kind, rxq>>
    BY <1>7 DEF RxExpireCur
  <2> QED
    BY <2>1, <2>2, RxCompletes
<1> QED
  BY <1>1, <1>2, <1>3, <1>4, <1>5, <1>6, <1>7 DEF RxWorker

\* So does every step.
LEMMA RxStep ==
    ASSUME MailboxTypes, RxOwned, FillsCall, StoppedIdle, [Next]_vars
    PROVE  RxOwned' /\ FillsCall'
<1> USE DEF MailboxTypes, calls, tx, rx, listen, peer, daemon
<1>0. rxpc = "match" => rxcur = NoMsg
  BY DEF RxOwned
<1>1. ASSUME NEW t \in Caller, NEW s \in Sws, Request(t, s) PROVE RxOwned' /\ FillsCall'
  BY <1>1, RxBegins DEF Request, Begin
<1>2. ASSUME NEW t \in Caller, NEW s, NEW k \in {"notify", "respond"}, Post(t, k, s),
             rxq' = rxq
      PROVE  RxOwned' /\ FillsCall'
  BY <1>2, RxBegins DEF Post, Begin
<1>3. ASSUME NEW s, ListenRespond(s) PROVE RxOwned' /\ FillsCall'
  <2>1. Post(Listener, "respond", s) /\ Listener \in Caller
    BY <1>3, MailboxAssumption DEF ListenRespond
  <2> QED
    BY <1>2, <2>1 DEF Post
<1>4. ASSUME NEW t \in Caller, NEW s, Notify(t, s) PROVE RxOwned' /\ FillsCall'
  <2>1. Post(t, "notify", s)
    BY <1>4 DEF Notify
  <2> QED
    BY <1>2, <2>1 DEF Post
<1>5. CASE TxWorker \/ TxExpire
  BY <1>0, <1>5, RxQuiet DEF TxWorker, TxCheck, TxSend, TxTimer, TxExpire, txRest
<1>6. CASE Listen \/ StopTx
  BY <1>0, <1>6, RxQuiet DEF Listen, ListenWake, ListenTake, ListenReturn, ListenSleep, idle,
     listenRest, StopTx
<1>7. CASE StopRx
  <2>1. rxcur' = NoMsg /\ rxpc' = "off" /\ UNCHANGED <<pc, num, kind, answer, rxq>>
    BY <1>7 DEF StopRx
  <2>2. \A t \in Caller : pc[t] = "idle"
    BY <1>7 DEF StopRx, StoppedIdle
  <2>3. \A u : ~ Fills(u)'
    BY <2>1 DEF Fills
  <2> QED
    BY <2>1, <2>2, <2>3 DEF RxOwned, FillsCall
<1>8. CASE Daemon
  BY <1>0, <1>8, RxQuiet DEF Daemon, ReadWait, ReadTake, ReadFail, WriteWait, WritePut,
     WriteFail, daemonRest
<1>9. CASE PeerActs \/ Status
  BY <1>0, <1>9, RxQuiet DEF PeerActs, PeerRecv, PeerReset, PeerBegin, PeerSend, PeerSent,
     PeerExpire, Status, peerRest
<1>10. CASE UNCHANGED vars
  BY <1>0, <1>10, RxQuiet DEF vars
<1> QED
  BY <1>1, <1>3, <1>4, <1>5, <1>6, <1>7, <1>8, <1>9, <1>10, RxClient, RxWork, RxExpires
     DEF Next

-----------------------------------------------------------------------------
(* The listener, and the stop.                                              *)

\* A request is listed and the listener woken in one step, chan_msg_done.
LEMMA Stranded ==
    ASSUME MailboxTypes, NoRequestStranded, lpc' = lpc,
           \/ reqs' = reqs /\ comp' = comp
           \/ comp' = comp + 1
    PROVE  NoRequestStranded'
  BY DEF NoRequestStranded, MailboxTypes

\* No step leaves a request queued without a worker to come.
LEMMA StrandedStep ==
    ASSUME MailboxTypes, NoRequestStranded, [Next]_vars
    PROVE  NoRequestStranded'
<1> USE DEF calls, tx, rx, listen, peer, daemon
<1>1. ASSUME NEW t \in Caller, NEW s \in Sws, Request(t, s) \/ Notify(t, s)
      PROVE  NoRequestStranded'
  BY <1>1, Stranded DEF Request, Notify, Post
<1>2. ASSUME NEW t \in Caller, Client(t) PROVE NoRequestStranded'
  BY <1>2, Stranded DEF Client, RequestQueue, RequestSent, RequestFailed, Answered, Posted,
     Return
<1>3. CASE TxWorker \/ TxExpire
  BY <1>3, Stranded DEF TxWorker, TxCheck, TxSend, TxTimer, TxExpire, txRest
<1>4. CASE RxWorker \/ RxExpireCur
  BY <1>4, Stranded DEF RxWorker, SwPeek, SwMatch, SwTake, HwRecv, HwPartial, HwStart, HwBody,
     HwFill, RxTimer, RxExpireCur, RxDone, rxRest
<1>5. ASSUME NEW t \in Caller, RxExpire(t) PROVE NoRequestStranded'
  BY <1>5, Stranded DEF RxExpire, rxRest
<1>6. ASSUME NEW s, ListenRespond(s) PROVE NoRequestStranded'
  BY <1>6 DEF ListenRespond, NoRequestStranded
<1>7. CASE Listen
  BY <1>7 DEF Listen, ListenWake, ListenTake, ListenReturn, ListenSleep, NoRequestStranded
<1>8. CASE StopTx \/ StopRx
  BY <1>8, Stranded DEF StopTx, StopRx
<1>9. CASE Daemon
  BY <1>9, Stranded DEF Daemon, ReadWait, ReadTake, ReadFail, WriteWait, WritePut, WriteFail,
     daemonRest
<1>10. CASE PeerActs \/ Status
  BY <1>10, Stranded DEF PeerActs, PeerRecv, PeerReset, PeerBegin, PeerSend, PeerSent,
     PeerExpire, Status, peerRest
<1>11. CASE UNCHANGED vars
  BY <1>11, Stranded DEF vars
<1> QED
  BY <1>1, <1>2, <1>3, <1>4, <1>5, <1>6, <1>7, <1>8, <1>9, <1>10, <1>11 DEF Next

\* No step gives work to a channel that has been stopped (stop_worker).
LEMMA StoppedStep ==
    ASSUME MailboxTypes, StoppedIdle, [Next]_vars
    PROVE  StoppedIdle'
<1> USE DEF calls, tx, rx, listen, peer, daemon
<1>1. ASSUME NEW t \in Caller, NEW s \in Sws, Request(t, s) \/ Notify(t, s)
      PROVE  StoppedIdle'
  BY <1>1 DEF Request, Notify, Post, Begin, StoppedIdle
<1>2. ASSUME NEW t \in Caller, Client(t) PROVE StoppedIdle'
  BY <1>2 DEF Client, RequestQueue, RequestSent, RequestFailed, Answered, Posted,
     Return, StoppedIdle, MailboxTypes
<1>3. ASSUME NEW s, ListenRespond(s) PROVE StoppedIdle'
  BY <1>3 DEF ListenRespond, Post, Begin, StoppedIdle
<1>4. CASE TxWorker \/ TxExpire
  BY <1>4 DEF TxWorker, TxCheck, TxSend, TxTimer, TxExpire, txRest, StoppedIdle
<1>5. CASE RxWorker \/ RxExpireCur \/ \E t \in Caller : RxExpire(t)
  BY <1>5 DEF RxWorker, SwPeek, SwMatch, SwTake, HwRecv, HwPartial, HwStart, HwBody,
     HwFill, RxTimer, RxExpireCur, RxExpire, rxRest, StoppedIdle
<1>6. CASE Listen \/ StopTx \/ StopRx
  BY <1>6 DEF Listen, ListenWake, ListenTake, ListenReturn, ListenSleep, idle,
     listenRest, StopTx, StopRx, StoppedIdle
<1>7. CASE Daemon
  BY <1>7 DEF Daemon, ReadWait, ReadTake, ReadFail, WriteWait, WritePut, WriteFail,
     daemonRest, StoppedIdle
<1>8. CASE PeerActs \/ Status
  BY <1>8 DEF PeerActs, PeerRecv, PeerReset, PeerBegin, PeerSend, PeerSent,
     PeerExpire, Status, peerRest, StoppedIdle
<1>9. CASE UNCHANGED vars
  BY <1>9 DEF vars, StoppedIdle
<1> QED
  BY <1>1, <1>2, <1>3, <1>4, <1>5, <1>6, <1>7, <1>8, <1>9 DEF Next

-----------------------------------------------------------------------------
(* The types, and what follows.                                             *)

LEMMA TypesStep ==
    ASSUME MailboxTypes, TxOwned, [Next]_vars
    PROVE  MailboxTypes'
<1> USE DEF calls, tx, rx, listen, peer, daemon
<1>1. ASSUME NEW t \in Caller, NEW s \in Sws, Request(t, s) PROVE MailboxTypes'
  BY <1>1, MailboxAssumption DEF Request, Begin, MailboxTypes
<1>2. ASSUME NEW t \in Caller, NEW s \in Sws, NEW k \in {"notify", "respond"}, Post(t, k, s)
      PROVE  MailboxTypes'
  <2>1. txq' \in Seq(Caller)
    BY <1>2 DEF Post, Enqueue, MailboxTypes
  <2> QED
    BY <1>2, <2>1, MailboxAssumption DEF Post, Begin, MailboxTypes
<1>3. ASSUME NEW s \in Sws, ListenRespond(s) PROVE MailboxTypes'
  <2>1. Post(Listener, "respond", s) /\ Listener \in Caller
    BY <1>3, MailboxAssumption DEF ListenRespond
  <2> QED
    BY <1>2, <2>1
<1>4. ASSUME NEW t \in Caller, NEW s \in Sws, Notify(t, s) PROVE MailboxTypes'
  <2>1. Post(t, "notify", s)
    BY <1>4 DEF Notify
  <2> QED
    BY <1>2, <2>1
<1>5. ASSUME NEW t \in Caller, Client(t) PROVE MailboxTypes'
  <2>1. CASE RequestQueue(t)
    <3>1. txq' \in Seq(Caller)
      BY <2>1 DEF RequestQueue, Enqueue, MailboxTypes
    <3> QED
      BY <2>1, <3>1 DEF RequestQueue, MailboxTypes
  <2>2. CASE RequestSent(t)
    BY <2>2 DEF RequestSent, MailboxTypes
  <2>3. CASE RequestFailed(t) \/ Answered(t) \/ Posted(t)
    <3>1. Return(t) /\ rxq' \subseteq rxq
      BY <2>3 DEF RequestFailed, Answered, Posted
    <3> QED
      BY <3>1 DEF Return, MailboxTypes
  <2> QED
    BY <1>5, <2>1, <2>2, <2>3 DEF Client
<1>6. CASE TxCheck \/ TxTimer \/ TxExpire
  BY <1>6 DEF TxCheck, TxTimer, TxExpire, TxDone, txRest, MailboxTypes
<1>7. CASE TxSend
  <2>1. txq # <<>> => Head(txq) \in Caller /\ Tail(txq) \in Seq(Caller)
    BY QueueHead DEF MailboxTypes
  <2>2. txcur' \in Caller \cup {NoMsg} /\ txq' \in Seq(Caller)
    BY <1>7, <2>1 DEF TxSend, MailboxTypes
  <2> QED
    BY <1>7, <2>2 DEF TxSend, txRest, MailboxTypes
<1>8. CASE SwPeek \/ HwRecv \/ HwBody \/ RxTimer
  BY <1>8 DEF SwPeek, HwRecv, HwBody, RxTimer, rxRest, MailboxTypes
<1>9. ASSUME NEW m, NEW s, Match(m, s) PROVE
        rxq' \subseteq rxq /\ (MailboxTypes => answer' \in [Caller -> {"no", "ok", "err"}])
  BY <1>9 DEF Match, MailboxTypes
<1>10. CASE SwMatch
  <2>1. Match(head, TRUE)
    BY <1>10 DEF SwMatch
  <2>2. rxq' \subseteq rxq /\ answer' \in [Caller -> {"no", "ok", "err"}]
    BY <1>9, <2>1
  <2> QED
    BY <1>10, <2>2 DEF SwMatch, rxRest, MailboxTypes
<1>11. CASE HwStart
  <2>1. Match(rxpkt.msg, FALSE)
    BY <1>11 DEF HwStart
  <2>2. rxq' \subseteq rxq /\ answer' \in [Caller -> {"no", "ok", "err"}]
    BY <1>9, <2>1
  <2> QED
    BY <1>11, <2>2 DEF HwStart, rxRest, MailboxTypes
<1>12. CASE SwTake \/ HwFill \/ HwPartial \/ RxExpireCur
  <2>1. UNCHANGED <<pc, num, kind, sw, sent, rxq, txq, txcur>>
    BY <1>12 DEF SwTake, HwFill, HwPartial, RxExpireCur, rxRest
  <2>2. RxDone("ok") \/ RxDone("err") \/ UNCHANGED <<answer, comp>>
    BY <1>12 DEF SwTake, HwFill, HwPartial, RxExpireCur
  <2>3. comp' = comp \/ comp' = comp + 1
    BY <2>2 DEF RxDone
  <2>4. \/ answer' = answer
        \/ answer' = [answer EXCEPT ![rxcur.by[1]] = "ok"]
        \/ answer' = [answer EXCEPT ![rxcur.by[1]] = "err"]
    BY <2>2 DEF RxDone
  <2>5. answer' \in [Caller -> {"no", "ok", "err"}]
    BY <2>4 DEF MailboxTypes
  <2> QED
    BY <2>1, <2>3, <2>5 DEF MailboxTypes
<1>13. ASSUME NEW t \in Caller, RxExpire(t) PROVE MailboxTypes'
  BY <1>13 DEF RxExpire, rxRest, MailboxTypes
<1>14. CASE Listen \/ StopTx \/ StopRx
  BY <1>14 DEF Listen, ListenWake, ListenTake, ListenReturn, ListenSleep, idle,
     listenRest, StopTx, StopRx, MailboxTypes
<1>15. CASE Daemon
  BY <1>15 DEF Daemon, ReadWait, ReadTake, ReadFail, WriteWait, WritePut, WriteFail,
     daemonRest, MailboxTypes
<1>16. CASE PeerActs \/ Status
  BY <1>16 DEF PeerActs, PeerRecv, PeerReset, PeerBegin, PeerSend, PeerSent,
     PeerExpire, Status, peerRest, MailboxTypes
<1>17. CASE UNCHANGED vars
  BY <1>17 DEF vars, MailboxTypes
<1> QED
  BY <1>1, <1>3, <1>4, <1>5, <1>6, <1>7, <1>8, <1>10, <1>11, <1>12, <1>13, <1>14, <1>15,
     <1>16, <1>17 DEF Next, TxWorker, RxWorker

\* A mailbox that has just been probed satisfies the invariant.
LEMMA InvInit == Init => Inv
<1> SUFFICES ASSUME Init PROVE Inv
  OBVIOUS
<1> USE DEF Init
<1>1. MailboxTypes
  BY EmptySeq DEF MailboxTypes
<1>2. ToSet(txq) = {} /\ IsInjective(txq)
  BY EmptySeq DEF ToSet, IsInjective
<1>3. TxOwned
  BY <1>2, NoMsgAssumption DEF TxOwned, InTx
<1>4. RxOwned /\ FillsCall /\ StoppedIdle /\ NoRequestStranded
  BY DEF RxOwned, FillsCall, Fills, StoppedIdle, NoRequestStranded
<1> QED
  BY <1>1, <1>3, <1>4 DEF Inv, MailboxInv

\* The inductive invariant of the two channels: who owns each message between
\* its caller, its queue and its worker (lib/xleaf/mailbox.c:417-960, 1284-1410).
THEOREM MailboxInvariant == Spec => []Inv
<1>1. Init => Inv
  BY InvInit
<1>2. Inv /\ [Next]_vars => Inv'
  BY TypesStep, TxStep, RxStep, StoppedStep, StrandedStep DEF Inv, MailboxInv
<1> QED
  BY <1>1, <1>2, PTL DEF Spec

\* mailbox.c:1302-1319.  Whoever waits for a message to be sent, or for the
\* response to it, has it in exactly one place, queue or worker, or has been
\* completed: no completion is lost and none comes twice.
THEOREM CompletionsKept == Spec => []NoLostCompletion
<1>1. Inv => NoLostCompletion
  <2>1. ASSUME Inv, NEW t \in Caller, pc[t] = "sending"
        PROVE  sent[t] = "no" <=> t \in ToSet(txq) \cup {txcur}
    BY <2>1 DEF Inv, MailboxInv, TxOwned, InTx
  <2>2. ASSUME Inv, NEW t \in Caller, pc[t] = "waiting"
        PROVE  answer[t] = "no" <=> t \in rxq \/ Fills(t)
    BY <2>2 DEF Inv, MailboxInv, RxOwned
  <2> QED
    BY <2>1, <2>2 DEF NoLostCompletion
<1> QED
  BY <1>1, MailboxInvariant, PTL

\* mailbox.c:443, 1391-1396.  The listener does not sleep while a request of
\* the peer is listed.
THEOREM RequestsHeard == Spec => []NoRequestStranded
<1>1. Inv => NoRequestStranded
  BY DEF Inv, MailboxInv
<1> QED
  BY <1>1, MailboxInvariant, PTL

\* mailbox.c:1295-1313.  What is on a queue belongs to a caller that has not
\* returned, and freed it, and is there once.
THEOREM QueuesAlwaysOwned == Spec => []QueuesOwned
<1>1. ASSUME Inv PROVE QueuesOwned
  <2>1. \A t \in rxq : pc[t] \in {"queueing", "sending", "waiting"} /\ kind[t] = "request"
    BY <1>1 DEF Inv, MailboxInv, MailboxTypes, RxOwned
  <2>2. ASSUME NEW t \in ToSet(txq) PROVE pc[t] = "sending" /\ txcur # t
    <3>1. t \in Caller
      BY <1>1 DEF Inv, MailboxTypes, ToSet
    <3> QED
      BY <1>1, <3>1 DEF Inv, MailboxInv, TxOwned, InTx
  <2>3. IsInjective(txq)
    BY <1>1 DEF Inv, MailboxInv, TxOwned
  <2> QED
    BY <2>1, <2>2, <2>3 DEF QueuesOwned
<1> QED
  BY <1>1, MailboxInvariant, PTL
=============================================================================
