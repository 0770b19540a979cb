--------------------------- MODULE MgmtMainProofs ---------------------------
(***************************************************************************)
(* Theorems of the main leaf of xrt-mgmt and of its mailbox service, for   *)
(* any packages, loaders, requests and test messages: the tree of regions  *)
(* while images are loaded and taken down, and the messages of the service. *)
(***************************************************************************)
EXTENDS MCMgmtMain, TLAPS

-----------------------------------------------------------------------------
(* The mailbox service: mgmt/xmgmt-main-mailbox.c                           *)

\* The listener runs under the lock of its callback, which is set as long as
\* the leaf is held.
ListenerLocked ==
    /\ held = listening
    /\ threads["listener"] # "idle" => cblock = "listener" /\ listening

\* A message is with nobody, set, or with the listener; it was sent only when
\* it left the listener, and what is freed is neither.
MessagesApart ==
    /\ test <= tests /\ msg <= tests
    /\ \A m \in 1 .. MaxTests : m > tests => told[m] = 0
    /\ \A m \in {test, msg} : m # 0 => told[m] = 0
    /\ test = msg => test = 0
    /\ freed \subseteq 1 .. tests /\ {test, msg} \cap freed = {}
    /\ \A m \in 1 .. MaxTests : told[m] <= 1

MessageTypes ==
    /\ test \in 0 .. MaxTests /\ tests \in 0 .. MaxTests /\ msg \in 0 .. MaxTests
    /\ told \in [1 .. MaxTests -> Nat]
    /\ DOMAIN threads = Service!Thread

ServiceInv == MessageTypes /\ ListenerLocked /\ MessagesApart

\* What the messages are after a step that leaves them alone.
LEMMA SameMessages ==
    ASSUME MessageTypes, MessagesApart, UNCHANGED <<test, tests, told, freed, msg>>
    PROVE  MessagesApart'
  BY DEF MessagesApart

\* xmgmt_mailbox_set_test_msg: a new message takes the place of the one that
\* is set, which is freed.
LEMMA SetTestKeepsApart ==
    ASSUME MessageTypes, MessagesApart, Service!SetTest
    PROVE  MessagesApart' /\ tests' \in 0 .. MaxTests /\ test' \in 0 .. MaxTests
  BY ServiceAssumption DEF MessageTypes, MessagesApart, Service!SetTest

\* xmgmt_mailbox_resp_test_msg: the message goes from the service to the
\* listener.
LEMMA TakeTestKeepsApart ==
    ASSUME MessageTypes, MessagesApart, Service!TakeTest
    PROVE  MessagesApart' /\ msg' \in 0 .. MaxTests /\ test' \in 0 .. MaxTests
  BY ServiceAssumption DEF MessageTypes, MessagesApart, Service!TakeTest

\* xmgmt_mailbox_respond: what the listener has is sent and freed.
LEMMA TellKeepsApart ==
    ASSUME MessageTypes, MessagesApart, Service!Tell, UNCHANGED <<test, tests>>
    PROVE  /\ MessagesApart' /\ msg' \in 0 .. MaxTests
           /\ told' \in [1 .. MaxTests -> Nat]
  <1>1. CASE msg = 0
    BY <1>1, ServiceAssumption DEF MessageTypes, MessagesApart, Service!Tell
  <1>2. CASE msg # 0
    <2>1. /\ told' = [told EXCEPT ![msg] = 1] /\ msg \in 1 .. MaxTests
          /\ freed' = freed \cup {msg} /\ msg' = 0
      BY <1>2, ServiceAssumption DEF MessageTypes, MessagesApart, Service!Tell
    <2> QED
      BY <2>1, ServiceAssumption DEF MessageTypes, MessagesApart
  <1> QED
    BY <1>1, <1>2

\* Threads other than the listener and evt_work leave the lock, the callback
\* and the leaf alone, so what the service promises of a closed leaf stays.
LEMMA OthersLeaveListener ==
    ASSUME MessageTypes, ListenerLocked, UNCHANGED <<held, listening, cblock>>,
           NEW t \in Service!Thread \ {"listener"}, NEW to,
           threads' = [threads EXCEPT ![t] = to]
    PROVE  ListenerLocked'
  BY DEF MessageTypes, ListenerLocked, Service!Thread

\* xmgmt_mailbox_listener: from its start to its end the listener has the lock
\* of its callback.
LEMMA ListenerKeepsLock ==
    ASSUME MessageTypes, ListenerLocked, UNCHANGED <<held, listening, cblock>>,
           threads["listener"] # "idle", NEW to,
           threads' = [threads EXCEPT !["listener"] = to]
    PROVE  ListenerLocked'
  BY DEF MessageTypes, ListenerLocked, Service!Thread

\* Every step of the service keeps its invariant.
LEMMA ServiceStep ==
    ASSUME ServiceInv, Service!Next
    PROVE  ServiceInv'
  <1> USE DEF ServiceInv, Service!Goto, Service!leaf, Service!locks, Service!messages
  <1>0. ASSUME NEW t, NEW to, threads' = [threads EXCEPT ![t] = to]
        PROVE  DOMAIN threads' = Service!Thread
    BY <1>0 DEF MessageTypes
  <1>same. ASSUME UNCHANGED <<test, tests, told, freed, msg>>,
                  DOMAIN threads' = Service!Thread, ListenerLocked'
           PROVE  ServiceInv'
    BY <1>same, SameMessages DEF MessageTypes
  <1>1. CASE Service!Take
    <2>1. PICK to : threads' = [threads EXCEPT !["work"] = to]
      BY <1>1 DEF Service!Take
    <2> QED
      BY <1>1, <2>1, <1>0, <1>same, OthersLeaveListener DEF Service!Take, Service!Thread
  <1>2. CASE Service!Register \/ Service!Unregister
    <2>1. threads' = [threads EXCEPT !["work"] = "idle"] /\ cblock = "none"
      BY <1>2 DEF Service!Register, Service!Unregister
    <2>2. ListenerLocked'
      BY <1>2, <2>1 DEF Service!Register, Service!Unregister, ListenerLocked, MessageTypes, Service!Thread
    <2> QED
      BY <1>2, <2>1, <2>2, <1>0, <1>same DEF Service!Register, Service!Unregister
  <1>3. CASE Service!Notify
    BY <1>3, <1>0, <1>same, OthersLeaveListener DEF Service!Notify, Service!Thread
  <1>4. CASE Service!Detach \/ Service!Ask
    <2>1. UNCHANGED <<held, listening, cblock, threads, test, tests, told, freed, msg>>
      BY <1>4 DEF Service!Detach, Service!Ask
    <2> QED
      BY <2>1, <1>same DEF ListenerLocked, MessageTypes
  <1>5. CASE Service!Drop
    <2>1. threads["listener"] = "idle" /\ threads' = [threads EXCEPT !["listener"] = "idle"]
      BY <1>5 DEF Service!Drop
    <2>2. ListenerLocked'
      BY <1>5, <2>1 DEF Service!Drop, ListenerLocked, MessageTypes, Service!Thread
    <2> QED
      BY <1>5, <2>1, <2>2, <1>0, <1>same DEF Service!Drop
  <1>6. CASE Service!Receive
    <2>1. PICK to : threads' = [threads EXCEPT !["listener"] = to]
      BY <1>6 DEF Service!Receive
    <2>2. ListenerLocked'
      BY <1>6, <2>1 DEF Service!Receive, ListenerLocked, MessageTypes, Service!Thread
    <2> QED
      BY <1>6, <2>1, <2>2, <1>0, <1>same DEF Service!Receive
  <1>7. CASE Service!TakeTest
    BY <1>7, <1>0, TakeTestKeepsApart, ListenerKeepsLock DEF Service!TakeTest, MessageTypes
  <1>8. CASE Service!Respond
    <2>1. PICK to : threads' = [threads EXCEPT !["listener"] = to]
      BY <1>8 DEF Service!Respond
    <2>2. ListenerLocked'
      BY <1>8, <2>1, ListenerKeepsLock DEF Service!Respond
    <2>3. /\ MessagesApart' /\ msg' \in 0 .. MaxTests
          /\ told' \in [1 .. MaxTests -> Nat]
      BY <1>8, TellKeepsApart DEF Service!Respond
    <2> QED
      BY <1>8, <2>1, <2>2, <2>3, <1>0 DEF Service!Respond, MessageTypes
  <1>9. CASE Service!RespondNothing
    BY <1>9, <1>0, <1>same, ListenerKeepsLock DEF Service!RespondNothing
  <1>10. CASE Service!UseMain
    <2>1. PICK to : threads' = [threads EXCEPT !["listener"] = to]
      BY <1>10 DEF Service!UseMain
    <2>2. ListenerLocked'
      BY <1>10, <2>1, ListenerKeepsLock DEF Service!UseMain
    <2> QED
      BY <1>10, <2>1, <2>2, <1>0, <1>same DEF Service!UseMain
  <1>11. CASE Service!Loaded
    BY <1>11, <1>0, <1>same, ListenerKeepsLock DEF Service!Loaded
  <1>12. CASE Service!EndRequest
    <2>1. ListenerLocked'
      BY <1>12 DEF Service!EndRequest, ListenerLocked, MessageTypes, Service!Thread
    <2> QED
      BY <1>12, <2>1, <1>0, <1>same DEF Service!EndRequest
  <1>13. ASSUME NEW t \in {"listener", "resetter"}, Service!Resets(t)
         PROVE  ServiceInv'
    <2>1. PICK to : threads' = [threads EXCEPT ![t] = to]
      BY <1>13 DEF Service!Resets, Service!ResetEvent, Service!ResetDone
    <2>2. /\ threads[t] # "idle"
          /\ UNCHANGED <<held, listening, cblock, test, tests, told, freed, msg>>
      BY <1>13 DEF Service!Resets, Service!ResetEvent, Service!ResetDone
    <2>3. ListenerLocked'
      <3>1. CASE t = "listener"
        BY <2>1, <2>2, <3>1, ListenerKeepsLock
      <3>2. CASE t = "resetter"
        BY <2>1, <2>2, <3>2, OthersLeaveListener DEF Service!Thread
      <3> QED
        BY <3>1, <3>2
    <2> QED
      BY <2>1, <2>2, <2>3, <1>0, <1>same
  <1>14. CASE Service!SetTest
    <2>1. ListenerLocked'
      BY <1>14 DEF Service!SetTest, ListenerLocked
    <2> QED
      BY <1>14, <2>1, SetTestKeepsApart DEF Service!SetTest, MessageTypes
  <1>15. CASE Service!BeginReset \/ Service!AskTest \/ Service!Download
    <2>1. PICK t \in Service!Thread \ {"listener"} :
              \E to : threads' = [threads EXCEPT ![t] = to]
      BY <1>15 DEF Service!BeginReset, Service!AskTest, Service!Download, Service!Thread
    <2>2. UNCHANGED <<held, listening, cblock, test, tests, told, freed, msg>>
      BY <1>15 DEF Service!BeginReset, Service!AskTest, Service!Download
    <2> QED
      BY <2>1, <2>2, <1>0, <1>same, OthersLeaveListener
  <1>16. CASE Service!Answered \/ Service!Downloaded
    <2>1. PICK t \in Service!Thread \ {"listener"} :
              \E to : threads' = [threads EXCEPT ![t] = to]
      BY <1>16 DEF Service!Answered, Service!Downloaded, Service!Thread
    <2>2. UNCHANGED <<held, listening, cblock, test, tests, told, freed, msg>>
      BY <1>16 DEF Service!Answered, Service!Downloaded
    <2> QED
      BY <2>1, <2>2, <1>0, <1>same, OthersLeaveListener
  <1> QED
    BY <1>1, <1>2, <1>3, <1>4, <1>5, <1>6, <1>7, <1>8, <1>9, <1>10, <1>11,
       <1>12, <1>13, <1>14, <1>15, <1>16
    DEF Service!Next, Service!Work, Service!Serve, Service!Process

\* xmgmt-main-mailbox.c:114-133, 704-713.  A test message is sent at most once
\* and is not freed while it is in use, and a service that let go of the mailbox
\* is not called any more, beside any requests, resets, downloads and writes of
\* the sysfs nodes.
THEOREM ServiceStaysSafe == MCSpec => []ServiceSafe
  <1>1. MCInit => ServiceInv
    <2> SUFFICES ASSUME Service!Init PROVE ServiceInv
      BY DEF MCInit
    <2>1. MessageTypes
      BY ServiceAssumption DEF Service!Init, MessageTypes
    <2>2. ListenerLocked
      BY DEF Service!Init, ListenerLocked, Service!Thread
    <2>3. MessagesApart
      BY ServiceAssumption DEF Service!Init, MessagesApart
    <2> QED
      BY <2>1, <2>2, <2>3 DEF ServiceInv
  <1>2. ServiceInv /\ [MCNext]_allVars => ServiceInv'
    <2> SUFFICES ASSUME ServiceInv, [MCNext]_allVars PROVE ServiceInv'
      OBVIOUS
    <2>1. CASE Serves(Service!Next)
      BY <2>1, ServiceStep DEF Serves
    <2>2. CASE UNCHANGED serviceVars
      BY <2>2 DEF serviceVars, ServiceInv, MessageTypes, ListenerLocked, MessagesApart
    <2> QED
      BY <2>1, <2>2 DEF MCNext, Downloads, allVars
  <1>3. ServiceInv => ServiceSafe
    BY DEF ServiceInv, ServiceSafe, ListenerLocked, MessagesApart, Service!TestMessageOnce,
           Service!QuietWhenGone
  <1> QED
    BY <1>1, <1>2, <1>3, PTL DEF MCSpec

-----------------------------------------------------------------------------
(* Regions and downloads: mgmt/xmgmt-main.c, mgmt/xmgmt-main-region.c       *)

\* Ids name regions; a region of the shell depends on none, another one was
\* made by a package beside the older region of the shell it depends on.
Made(r) == \E i \in Packages : {r.uuid, r.dep} \subseteq Lists(i)

RegionsTree ==
    /\ \A r \in regions : r.id \in 1 .. made
    /\ \A r, s \in regions : r.id = s.id => r = s
    /\ \A r \in regions : r.uuid \in Top => r.dep = NoUuid
    /\ \A r \in regions : r.uuid \notin Top =>
           /\ r.dep \in Top /\ Made(r)
           /\ \E b \in regions : b.uuid = r.dep /\ b.id < r.id

\* What a clean-up that walks its list has left to do: every dependent of the
\* region, and nothing but dependents, is on it.
ExactlyBelow(r, ids) == \A k \in regions : k.dep = r.uuid <=> k.id \in ids

\* The region r that the image of t goes into, while t is in xmgmt_process_xclbin.
InRegion(t, r) ==
    /\ r.id = base[t] /\ r.uuid \in Lists(img[t])
    /\ r.uuid \notin Top => Lists(img[t]) \cap Top = {}
    /\ pc[t] \in {"clean", "failed"} => ExactlyBelow(r, doomed[t])
    /\ pc[t] \in {"program", "group", "wait"} \/ (pc[t] = "return" /\ rc[t] = "err") =>
           ExactlyBelow(r, {})
    /\ pc[t] = "program" \/ (pc[t] = "return" /\ rc[t] = "err") =>
           ~ r.group /\ r.info = NoImage
    /\ pc[t] \in {"group", "wait", "rooms"} \/ (pc[t] = "return" /\ rc[t] = "ok") =>
           r.info = img[t]
    /\ pc[t] \in {"wait", "rooms"} \/ (pc[t] = "return" /\ rc[t] = "ok") => r.group

Loading(t) ==
    /\ pc[t] # "idle" => lock = t /\ img[t] \in Packages
    /\ pc[t] \in {"idle", "find", "clean", "program", "group", "wait", "rooms", "failed", "return"}
    /\ pc[t] \notin {"failed", "return"} => rc[t] = "ok"
    /\ pc[t] \in {"idle", "find"} => base[t] = NoRegion
    /\ pc[t] \notin {"idle", "find"} /\ rc[t] = "ok" => base[t] # NoRegion
    /\ pc[t] = "failed" => base[t] # NoRegion /\ rc[t] = "err"
    /\ pc[t] \notin {"clean", "failed"} => doomed[t] = {}
    /\ doomed[t] \subseteq 1 .. made
    /\ pc[t] \notin {"idle", "find", "return"} =>
           \A k \in 1 .. Len(rooms[t]) : rooms[t][k] \in Lists(img[t])
    /\ base[t] # NoRegion => \E r \in regions : InRegion(t, r)

\* evt_work makes the shell's regions, and in the end takes all of them down.
Evented ==
    /\ pc["event"] \in {"idle", "load", "find", "rooms", "return", "remove", "gone"}
    /\ pc["event"] = "find" => img["event"] \in Valid
    /\ pc["event"] = "rooms" => \A k \in 1 .. Len(rooms["event"]) : rooms["event"][k] \in Top
    /\ pc["event"] # "remove" => doomed["event"] = {}
    /\ pc["event"] = "remove" =>
           /\ \A b \in Oldest(Bases) : ExactlyBelow(b, doomed["event"])
           /\ \A id \in doomed["event"] : \E k \in regions : k.id = id /\ k.dep # NoUuid
    /\ pc["event"] = "gone" => regions = {}
    /\ pc["event"] \in {"remove", "gone"} => \A t \in Loader : pc[t] = "idle"

\* The image of a download that succeeded stays where it is: nobody is at work
\* until the next one or the removal forgets it.
Cached ==
    ulp # NoImage =>
        /\ pc["event"] \notin {"remove", "gone"}
        /\ \A t \in Loader : pc[t] = "idle"
        /\ \E r \in regions : r.info = ulp /\ r.group

MainInv ==
    /\ TypeOK /\ RegionsTree /\ Evented /\ Cached
    /\ \A t \in Loader : Loading(t)

\* A region is found by its id.
LEMMA FoundById ==
    ASSUME RegionsTree, NEW r \in regions
    PROVE  The(r.id) = r
  BY DEF RegionsTree, The

\* The ids of a region's dependents.
LEMMA DependentsBelow ==
    ASSUME RegionsTree, NEW r \in regions
    PROVE  /\ ExactlyBelow(r, Dependents(r.id))
           /\ Dependents(r.id) = {} <=> ExactlyBelow(r, {})
           /\ Dependents(r.id) \subseteq 1 .. made
  BY FoundById DEF Dependents, ExactlyBelow, RegionsTree

\* What a region carries may change: what it is and what it depends on do not.
LEMMA ChangeKeepsTree ==
    ASSUME TypeOK, RegionsTree, NEW r \in regions, NEW q \in Region,
           q.id = r.id, q.uuid = r.uuid, q.dep = r.dep,
           Change(r.id, q), UNCHANGED made
    PROVE  /\ regions' = (regions \ {r}) \cup {q}
           /\ regions' \subseteq Region
           /\ RegionsTree'
           /\ \A ids : ExactlyBelow(r, ids) => ExactlyBelow(q, ids)'
  <1>1. regions' = (regions \ {r}) \cup {q}
    BY DEF Change, RegionsTree
  <1>2. regions' \subseteq Region
    BY <1>1 DEF TypeOK
  <1>3. \A k \in regions' : \E o \in regions : k.id = o.id /\ k.uuid = o.uuid /\ k.dep = o.dep
    BY <1>1
  <1>4. \A o \in regions : \E k \in regions' : k.id = o.id /\ k.uuid = o.uuid /\ k.dep = o.dep
    BY <1>1
  <1>5. \A k, l \in regions' : k.id = l.id => k = l
    BY <1>1 DEF RegionsTree
  <1>6. RegionsTree'
    BY <1>3, <1>4, <1>5 DEF RegionsTree, Made
  <1>7. \A ids : ExactlyBelow(r, ids) => ExactlyBelow(q, ids)'
    BY <1>3 DEF ExactlyBelow
  <1> QED
    BY <1>1, <1>2, <1>6, <1>7

\* What every worker but t has stays.
OnlyMoves(t) ==
    \A u \in Worker \ {t} :
        /\ pc'[u] = pc[u] /\ img'[u] = img[u] /\ base'[u] = base[u]
        /\ doomed'[u] = doomed[u] /\ rooms'[u] = rooms[u] /\ rc'[u] = rc[u]

\* xmm->lock: the other loader is idle while one is at work, the leaf is not
\* being removed, and no image is cached.
LEMMA LoaderAlone ==
    ASSUME MainInv, NEW t \in Loader, pc[t] # "idle"
    PROVE  /\ ulp = NoImage /\ pc["event"] \notin {"remove", "gone"}
           /\ \A u \in Loader \ {t} : pc[u] = "idle"
  BY DEF MainInv, Loading, Evented, Cached, TypeOK, Loader

\* So a step of it is its own concern.
LEMMA OthersNotConcerned ==
    ASSUME MainInv, NEW t \in Loader, pc[t] # "idle", OnlyMoves(t), ulp' = NoImage
    PROVE  Evented' /\ Cached' /\ \A u \in Loader \ {t} : Loading(u)'
  <1> USE LoaderAlone
  <1>1. "event" \in Worker \ {t} /\ \A u \in Loader \ {t} : u \in Worker \ {t}
    BY DEF Worker, Loader
  <1>2. Evented'
    BY <1>1 DEF MainInv, Evented, OnlyMoves
  <1>3. ASSUME NEW u \in Loader \ {t}
        PROVE  Loading(u)'
    BY <1>1, <1>3 DEF MainInv, Loading, OnlyMoves
  <1> QED
    BY <1>2, <1>3 DEF Cached

\* The steps of a loader that leave the regions alone.
LEMMA NotProcessedKeeps ==
    ASSUME MainInv, NEW t \in Loader, NotProcessed(t)
    PROVE  MainInv'
  <1> USE DEF Goto, Fail, tree, call, rest, cache, board
  <1>1. pc[t] = "find" /\ OnlyMoves(t) /\ ulp' = NoImage
    BY LoaderAlone DEF NotProcessed, OnlyMoves, MainInv, TypeOK
  <1>2. TypeOK'
    BY DEF NotProcessed, MainInv, TypeOK, Worker
  <1>3. Loading(t)'
    BY <1>1 DEF NotProcessed, MainInv, TypeOK, Loading, Worker
  <1> QED
    BY <1>1, <1>2, <1>3, OthersNotConcerned DEF NotProcessed, MainInv, RegionsTree

\* The oldest region with one of the image's uuids is the one of the shell that
\* the image fills, or, for an image without room for others, one below.
LEMMA OldestFits ==
    ASSUME TwoLevels, RegionsTree, NEW i \in Packages, NEW found \in Oldest(Matching(i))
    PROVE  found.uuid \notin Top => Lists(i) \cap Top = {}
  <1> SUFFICES ASSUME found.uuid \notin Top, NEW a \in Lists(i) \cap Top
               PROVE  FALSE
    OBVIOUS
  <1>1. found \in regions /\ found.uuid \in Lists(i)
    BY DEF Oldest, Matching, Lists
  <1>2. PICK j \in Packages : {found.uuid, found.dep} \subseteq Lists(j)
    BY <1>1 DEF RegionsTree, Made
  <1>3. found.dep \in Lists(j) \cap Top
    BY <1>1, <1>2 DEF RegionsTree
  <1>4. a = found.dep
    BY <1>1, <1>2, <1>3 DEF TwoLevels
  <1>5. PICK b \in regions : b.uuid = a /\ b.id < found.id
    BY <1>1, <1>4 DEF RegionsTree
  <1>6. b \in Matching(i)
    BY <1>5 DEF Matching, Lists
  <1>7. found.id <= b.id /\ b.id \in 1 .. made /\ found.id \in 1 .. made
    BY <1>1, <1>5, <1>6 DEF Oldest, RegionsTree
  <1> QED
    BY <1>5, <1>7

\* Looking a region up in the list changes only where the download is.
LEMMA FindRegionKeeps ==
    ASSUME MainAssumption, TwoLevels, MainInv, NEW t \in Loader, FindRegion(t)
    PROVE  MainInv'
  <1> USE DEF Goto, Fail, tree, call, rest, cache, board
  <1>1. pc[t] = "find" /\ OnlyMoves(t) /\ ulp' = NoImage
    BY LoaderAlone DEF FindRegion, OnlyMoves, MainInv, TypeOK, CollectDependents
  <1>2. PICK found \in Oldest(Matching(img[t])) :
           base' = [base EXCEPT ![t] = found.id] /\ CollectDependents(t, found.id)
    BY DEF FindRegion
  <1>3. img[t] \in Packages /\ img[t] \in Image
    BY <1>1 DEF MainInv, Loading, MainAssumption
  <1>4. found \in regions /\ found \in Region /\ found.uuid \in Lists(img[t])
    BY <1>2 DEF Oldest, Matching, Lists, MainInv, TypeOK
  <1>5. /\ found.id \in 1 .. MaxRegions /\ Dependents(found.id) \subseteq 1 .. MaxRegions
        /\ Dependents(found.id) \subseteq 1 .. made
    <2>1. found.id \in 1 .. MaxRegions /\ Dependents(found.id) \subseteq 1 .. MaxRegions
      BY <1>4 DEF Region, Dependents, MainInv, TypeOK
    <2>2. Dependents(found.id) \subseteq 1 .. made
      BY <1>4, DependentsBelow DEF MainInv
    <2> QED
      BY <2>1, <2>2
  <1>6. TypeOK'
    BY <1>2, <1>3, <1>5 DEF FindRegion, CollectDependents, MainInv, TypeOK, Worker, MainAssumption
  <1>7. InRegion(t, found)'
    <2>1. ExactlyBelow(found, Dependents(found.id))
      BY <1>4, DependentsBelow DEF MainInv
    <2>2. found.uuid \notin Top => Lists(img[t]) \cap Top = {}
      BY <1>2, <1>3, OldestFits DEF MainInv
    <2> QED
      BY <1>1, <1>2, <1>4, <2>1, <2>2
      DEF FindRegion, CollectDependents, InRegion, ExactlyBelow, MainInv, TypeOK, Worker
  <1>8. \A k \in 1 .. Len(rooms'[t]) : rooms'[t][k] \in Lists(img'[t])
    BY <1>3 DEF FindRegion, MainInv, TypeOK, Worker, MainAssumption, Lists, ToSet
  <1>9. Loading(t)'
    BY <1>1, <1>2, <1>4, <1>5, <1>7, <1>8
    DEF FindRegion, CollectDependents, MainInv, TypeOK, Loading, Worker, NoRegion
  <1> QED
    BY <1>1, <1>6, <1>9, OthersNotConcerned DEF FindRegion, MainInv, RegionsTree

\* The wait for the group changes only where the download is.
LEMMA GroupUpKeeps ==
    ASSUME MainInv, NEW t \in Loader, GroupUp(t)
    PROVE  MainInv'
  <1> USE DEF Goto, Fail, tree, call, rest, cache, board
  <1>1. pc[t] = "wait" /\ OnlyMoves(t) /\ ulp' = NoImage
    BY LoaderAlone DEF GroupUp, OnlyMoves, MainInv, TypeOK
  <1>2. TypeOK'
    BY DEF GroupUp, MainInv, TypeOK, Worker
  <1>3. PICK r \in regions : InRegion(t, r)
    BY <1>1 DEF MainInv, Loading
  <1>4. InRegion(t, r)'
    BY <1>1, <1>3 DEF GroupUp, InRegion, MainInv, TypeOK, Worker
  <1>5. Loading(t)'
    BY <1>1, <1>3, <1>4 DEF GroupUp, MainInv, TypeOK, Loading, Worker
  <1> QED
    BY <1>1, <1>2, <1>5, OthersNotConcerned DEF GroupUp, MainInv, RegionsTree

\* Having gone through the list changes only where the download is.
LEMMA ProcessedKeeps ==
    ASSUME MainInv, NEW t \in Loader, Processed(t)
    PROVE  MainInv'
  <1> USE DEF Goto, Fail, tree, call, rest, cache, board
  <1>1. pc[t] = "rooms" /\ OnlyMoves(t) /\ ulp' = NoImage
    BY LoaderAlone DEF Processed, OnlyMoves, MainInv, TypeOK
  <1>2. TypeOK'
    BY DEF Processed, MainInv, TypeOK, Worker
  <1>3. PICK r \in regions : InRegion(t, r)
    BY <1>1 DEF MainInv, Loading
  <1>4. InRegion(t, r)'
    BY <1>1, <1>3 DEF Processed, InRegion, MainInv, TypeOK, Worker, Loading
  <1>5. Loading(t)'
    BY <1>1, <1>3, <1>4 DEF Processed, MainInv, TypeOK, Loading, Worker
  <1> QED
    BY <1>1, <1>2, <1>5, OthersNotConcerned DEF Processed, MainInv, RegionsTree

\* Passing over a region of the list changes only where the download is.
LEMMA SkipOwnKeeps ==
    ASSUME MainInv, NEW t \in Loader, SkipOwn(t)
    PROVE  MainInv'
  <1> USE DEF Goto, Fail, tree, call, rest, cache, board
  <1>1. pc[t] = "rooms" /\ OnlyMoves(t) /\ ulp' = NoImage
    BY LoaderAlone DEF SkipOwn, OnlyMoves, MainInv, TypeOK
  <1>2. /\ rooms[t] \in Seq(Uuid) /\ rooms[t] # <<>>
        /\ rooms' = [rooms EXCEPT ![t] = Tail(rooms[t])]
    BY DEF SkipOwn, MainInv, TypeOK, Worker
  <1>3. TypeOK'
    BY <1>2 DEF SkipOwn, MainInv, TypeOK, Worker
  <1>4. PICK r \in regions : InRegion(t, r)
    BY <1>1 DEF MainInv, Loading
  <1>5. InRegion(t, r)'
    BY <1>1, <1>4 DEF SkipOwn, InRegion, MainInv, TypeOK, Worker, ExactlyBelow
  <1>6. \A k \in 1 .. Len(Tail(rooms[t])) : Tail(rooms[t])[k] \in Lists(img[t])
    BY <1>1, <1>2 DEF MainInv, Loading
  <1>7. Loading(t)'
    BY <1>1, <1>2, <1>4, <1>5, <1>6 DEF SkipOwn, MainInv, TypeOK, Loading, Worker
  <1> QED
    BY <1>1, <1>3, <1>7, OthersNotConcerned DEF SkipOwn, MainInv, RegionsTree

\* "failed": the clean-up's list is what depends on the region.
LEMMA CollapseKeeps ==
    ASSUME MainInv, NEW t \in Loader, NEW from,
           Goto(t, from, "failed"), from \in {"program", "group", "wait", "rooms"},
           Collapse(t), UNCHANGED <<tree, img, base, rooms, rest>>
    PROVE  MainInv'
  <1> USE DEF Goto, Fail, tree, call, rest, cache, board
  <1>1. OnlyMoves(t) /\ ulp' = NoImage
    BY LoaderAlone DEF Collapse, CollectDependents, OnlyMoves, MainInv, TypeOK
  <1>2. PICK r \in regions : InRegion(t, r)
    BY DEF MainInv, Loading
  <1>3. ExactlyBelow(r, Dependents(base[t])) /\ Dependents(base[t]) \subseteq 1 .. made
    BY <1>2, DependentsBelow DEF MainInv, InRegion
  <1>4. Dependents(base[t]) \subseteq 1 .. MaxRegions
    BY DEF Dependents, MainInv, TypeOK, Region
  <1>5. TypeOK'
    BY <1>4 DEF Collapse, CollectDependents, MainInv, TypeOK, Worker
  <1>6. InRegion(t, r)'
    BY <1>1, <1>2, <1>3
    DEF Collapse, CollectDependents, InRegion, MainInv, TypeOK, Worker, ExactlyBelow
  <1>7. Loading(t)'
    BY <1>1, <1>2, <1>3, <1>6
    DEF Collapse, CollectDependents, MainInv, TypeOK, Loading, Worker
  <1> QED
    BY <1>1, <1>5, <1>7, OthersNotConcerned DEF MainInv, RegionsTree

\* xmgmt_main_ioctl, bitstream_axlf_mailbox: what was cached is forgotten first.
LEMMA DownloadKeeps ==
    ASSUME MainAssumption, MainInv, NEW t \in Loader, Alive, Download(t)
    PROVE  MainInv'
  <1> USE DEF Goto, tree, call, rest, cache, board
  <1>1. pc[t] = "idle" /\ OnlyMoves(t) /\ ulp' = NoImage /\ lock = "none" /\ lock' = t
    BY DEF Download, OnlyMoves, MainInv, TypeOK
  <1>2. \A u \in Loader : pc[u] = "idle"
    BY <1>1 DEF MainInv, Loading, Loader
  <1>3. TypeOK'
    BY DEF Download, MainInv, TypeOK, Worker, MainAssumption
  <1>4. "event" \in Worker \ {t} /\ \A u \in Loader \ {t} : u \in Worker \ {t}
    BY DEF Worker, Loader
  <1>5. Evented'
    BY <1>1, <1>4 DEF Alive, MainInv, Evented, OnlyMoves
  <1>6. ASSUME NEW u \in Loader \ {t}
        PROVE  Loading(u)'
    BY <1>1, <1>2, <1>4 DEF MainInv, Loading, OnlyMoves
  <1>7. Loading(t)'
    <2>1. pc'[t] = "find" /\ img'[t] \in Packages /\ lock' = t
      BY <1>1 DEF Download, MainInv, TypeOK, Worker
    <2>2. rc[t] = "ok" /\ base[t] = NoRegion /\ doomed[t] = {}
      BY <1>1 DEF MainInv, Loading
    <2>3. UNCHANGED <<rc, base, doomed>>
      BY DEF Download
    <2> QED
      BY <2>1, <2>2, <2>3 DEF Loading
  <1>8. Cached'
    BY <1>1 DEF Cached
  <1> QED
    BY <1>3, <1>5, <1>6, <1>7, <1>8 DEF Download, MainInv, RegionsTree

\* The end of a download, whether its image stays or not.
LEMMA DownloadDoneKeeps ==
    ASSUME MainAssumption, MainInv, NEW t \in Loader, DownloadDone(t)
    PROVE  MainInv'
  <1> USE DEF Goto, tree, call, rest, cache, board
  <1>1. /\ pc[t] = "return" /\ OnlyMoves(t) /\ pc' = [pc EXCEPT ![t] = "idle"]
        /\ ulp' = IF rc[t] = "ok" THEN img[t] ELSE NoImage
    BY DEF DownloadDone, OnlyMoves, MainInv, TypeOK
  <1>2. \A u \in Loader : pc'[u] = "idle"
    BY <1>1, LoaderAlone DEF MainInv, TypeOK, Worker
  <1>3. TypeOK'
    BY <1>1 DEF DownloadDone, MainInv, TypeOK, Worker, NoRegion, MainAssumption
  <1>4. "event" \in Worker \ {t} /\ \A u \in Loader \ {t} : u \in Worker \ {t}
    BY DEF Worker, Loader
  <1>5. Evented' /\ pc'["event"] \notin {"remove", "gone"}
    BY <1>1, <1>4, LoaderAlone DEF MainInv, Evented, OnlyMoves
  <1>6. ASSUME NEW u \in Loader \ {t}
        PROVE  Loading(u)'
    BY <1>1, <1>4, LoaderAlone DEF MainInv, Loading, OnlyMoves
  <1>7. Loading(t)'
    BY <1>1 DEF DownloadDone, MainInv, TypeOK, Loading, Worker
  <1>8. ulp' # NoImage => \E r \in regions : r.info = ulp' /\ r.group
    BY <1>1 DEF MainInv, Loading, InRegion
  <1>9. Cached'
    BY <1>2, <1>5, <1>8 DEF DownloadDone, Cached
  <1> QED
    BY <1>3, <1>5, <1>6, <1>7, <1>9 DEF DownloadDone, MainInv, RegionsTree

\* What a region carries, its group and its image, and what becomes of it.
Stripped(r) == [r EXCEPT !.group = FALSE, !.info = NoImage]
Programmed(r, i) == [r EXCEPT !.info = i]
Grouped(r) == [r EXCEPT !.group = TRUE]
SameRegion(q, r) == q.id = r.id /\ q.uuid = r.uuid /\ q.dep = r.dep

\* A region without its group and its image is the same region.
LEMMA StrippedIsRegion ==
    ASSUME NEW r \in Region, NoImage \notin Image
    PROVE  /\ Stripped(r) \in Region /\ SameRegion(Stripped(r), r)
           /\ ~ Stripped(r).group /\ Stripped(r).info = NoImage
  BY DEF Stripped, SameRegion, Region

\* A region with another image is the same region.
LEMMA ProgrammedIsRegion ==
    ASSUME NEW r \in Region, NEW i \in Image
    PROVE  /\ Programmed(r, i) \in Region /\ SameRegion(Programmed(r, i), r)
           /\ Programmed(r, i).info = i
  BY DEF Programmed, SameRegion, Region

\* A region with a group is the same region, with the same image.
LEMMA GroupedIsRegion ==
    ASSUME NEW r \in Region
    PROVE  /\ Grouped(r) \in Region /\ SameRegion(Grouped(r), r)
           /\ Grouped(r).info = r.info /\ Grouped(r).group
  <1>1. Grouped(r) \in Region /\ SameRegion(Grouped(r), r) /\ Grouped(r).info = r.info
    BY DEF Grouped, SameRegion, Region
  <1>2. Grouped(r).group
    BY DEF Grouped, Region
  <1> QED
    BY <1>1, <1>2

\* The steps that change what the region of the image carries.
LEMMA CleanRegionKeeps ==
    ASSUME MainAssumption, MainInv, NEW t \in Loader, CleanRegion(t)
    PROVE  MainInv'
  <1> USE DEF Goto, tree, call, rest, cache, board
  <1>1. /\ pc[t] \in {"clean", "failed"} /\ OnlyMoves(t) /\ ulp' = NoImage
        /\ pc'[t] = IF pc[t] = "clean" THEN "program" ELSE "return"
    BY LoaderAlone DEF CleanRegion, OnlyMoves, MainInv, TypeOK, Worker
  <1>2. PICK r \in regions : InRegion(t, r)
    BY <1>1 DEF MainInv, Loading
  <1> DEFINE q == Stripped(r)
  <1>3. /\ q \in Region /\ q.id = r.id /\ q.uuid = r.uuid /\ q.dep = r.dep
        /\ ~ q.group /\ q.info = NoImage
    <2>1. r \in Region
      BY DEF MainInv, TypeOK
    <2> QED
      BY <2>1, StrippedIsRegion, MainAssumption, <1>1 DEF SameRegion, MainInv, Loading
  <1>4. The(base[t]) = r /\ r.id = base[t]
    BY <1>2, FoundById DEF InRegion, MainInv
  <1>41. Change(r.id, q)
    BY <1>4 DEF CleanRegion, Strip, Stripped
  <1> HIDE DEF q
  <1>5. /\ regions' = (regions \ {r}) \cup {q} /\ regions' \subseteq Region /\ RegionsTree'
        /\ \A ids : ExactlyBelow(r, ids) => ExactlyBelow(q, ids)'
    BY <1>3, <1>41, ChangeKeepsTree DEF CleanRegion, MainInv
  <1>6. TypeOK'
    BY <1>1, <1>5 DEF CleanRegion, MainInv, TypeOK, Worker
  <1>7. ExactlyBelow(q, {})'
    BY <1>1, <1>2, <1>5 DEF CleanRegion, InRegion
  <1>8. pc'[t] = "return" => rc'[t] = "err"
    BY <1>1 DEF CleanRegion, MainInv, Loading
  <1>9. InRegion(t, q)'
    BY <1>1, <1>2, <1>3, <1>4, <1>7, <1>8 DEF CleanRegion, InRegion
  <1>10. Loading(t)'
    BY <1>1, <1>5, <1>8, <1>9 DEF CleanRegion, MainInv, Loading
  <1> QED
    BY <1>1, <1>5, <1>6, <1>10, OthersNotConcerned DEF MainInv

\* xmgmt_region_program: the image is put into the region.
LEMMA ProgramKeeps ==
    ASSUME MainAssumption, MainInv, NEW t \in Loader, Program(t)
    PROVE  MainInv'
  <1> USE DEF Goto, tree, call, rest, cache, board
  <1>1. /\ pc[t] = "program" /\ pc'[t] = "group" /\ OnlyMoves(t) /\ ulp' = NoImage
        /\ UNCHANGED <<img, base, doomed, rooms, rc, lock>>
    BY LoaderAlone DEF Program, OnlyMoves, MainInv, TypeOK, Worker
  <1>2. PICK r \in regions : InRegion(t, r)
    BY <1>1 DEF MainInv, Loading
  <1>0. PICK i : i = img[t]
    OBVIOUS
  <1> DEFINE q == Programmed(r, i)
  <1>3. r \in Region /\ img[t] \in Image
    BY <1>1, MainAssumption DEF MainInv, TypeOK, Loading
  <1>4. /\ q \in Region /\ q.id = r.id /\ q.uuid = r.uuid /\ q.dep = r.dep
        /\ q.info = img[t]
    <2>1. i \in Image
      BY <1>0, <1>3
    <2>2. SameRegion(q, r) /\ q \in Region /\ q.info = i
      BY <1>3, <2>1, ProgrammedIsRegion
    <2> QED
      BY <1>0, <2>2 DEF SameRegion
  <1>5. The(base[t]) = r /\ r.id = base[t]
    BY <1>2, FoundById DEF InRegion, MainInv
  <1>6. Change(r.id, q)
    BY <1>0, <1>5 DEF Program, Programmed
  <1> HIDE DEF q
  <1>7. /\ regions' = (regions \ {r}) \cup {q} /\ regions' \subseteq Region /\ RegionsTree'
        /\ \A ids : ExactlyBelow(r, ids) => ExactlyBelow(q, ids)'
    <2>1. UNCHANGED made /\ TypeOK /\ RegionsTree
      BY DEF Program, MainInv
    <2> QED
      BY <1>4, <1>6, <2>1, ChangeKeepsTree
  <1>8. TypeOK'
    BY <1>1, <1>7 DEF Program, OpenGate, MainInv, TypeOK, Worker
  <1>9. ExactlyBelow(q, {})'
    BY <1>1, <1>2, <1>7 DEF InRegion
  <1>10. InRegion(t, q)'
    BY <1>1, <1>2, <1>4, <1>5, <1>9 DEF InRegion
  <1>11. Loading(t)'
    BY <1>1, <1>7, <1>10 DEF MainInv, Loading
  <1> QED
    BY <1>1, <1>7, <1>8, <1>11, OthersNotConcerned DEF MainInv

\* xmgmt_pr_write does not: the region has the image all the same, until the
\* clean-up that follows.
LEMMA ProgramFailsKeeps ==
    ASSUME MainAssumption, MainInv, NEW t \in Loader, ProgramFails(t)
    PROVE  MainInv'
  <1> USE DEF Goto, tree, call, rest, cache, board
  <1>1. /\ pc[t] = "program" /\ pc'[t] = "failed" /\ OnlyMoves(t) /\ ulp' = NoImage
        /\ rc' = [rc EXCEPT ![t] = "err"] /\ UNCHANGED <<img, base, rooms, lock>>
    BY LoaderAlone DEF ProgramFails, Collapse, CollectDependents, Fail, OnlyMoves, MainInv,
       TypeOK, Worker
  <1>2. PICK r \in regions : InRegion(t, r)
    BY <1>1 DEF MainInv, Loading
  <1>0. PICK i : i = img[t]
    OBVIOUS
  <1> DEFINE q == Programmed(r, i)
  <1>3. r \in Region /\ img[t] \in Image
    BY <1>1, MainAssumption DEF MainInv, TypeOK, Loading
  <1>4. q \in Region /\ q.id = r.id /\ q.uuid = r.uuid /\ q.dep = r.dep
    <2>1. i \in Image
      BY <1>0, <1>3
    <2>2. SameRegion(q, r) /\ q \in Region /\ q.info = i
      BY <1>3, <2>1, ProgrammedIsRegion
    <2> QED
      BY <1>0, <2>2 DEF SameRegion
  <1>5. The(base[t]) = r /\ r.id = base[t]
    BY <1>2, FoundById DEF InRegion, MainInv
  <1>6. Change(r.id, q)
    BY <1>0, <1>5 DEF ProgramFails, Programmed
  <1> HIDE DEF q
  <1>7. /\ regions' = (regions \ {r}) \cup {q} /\ regions' \subseteq Region /\ RegionsTree'
        /\ \A ids : ExactlyBelow(r, ids) => ExactlyBelow(q, ids)'
    <2>1. UNCHANGED made /\ TypeOK /\ RegionsTree
      BY DEF ProgramFails, MainInv
    <2> QED
      BY <1>4, <1>6, <2>1, ChangeKeepsTree
  <1>8. Dependents(base[t]) = {} /\ ExactlyBelow(q, {})'
    BY <1>1, <1>2, <1>5, <1>7, DependentsBelow DEF InRegion, MainInv
  <1>9. doomed' = [doomed EXCEPT ![t] = {}] /\ doomed'[t] = {} /\ rc'[t] = "err"
    BY <1>1, <1>8 DEF ProgramFails, Collapse, CollectDependents, MainInv, TypeOK, Worker
  <1>10. TypeOK'
    BY <1>1, <1>7, <1>9 DEF ProgramFails, MainInv, TypeOK, Worker
  <1>11. InRegion(t, q)'
    BY <1>1, <1>2, <1>4, <1>5, <1>8, <1>9 DEF InRegion
  <1>12. Loading(t)'
    BY <1>1, <1>7, <1>9, <1>11 DEF MainInv, Loading
  <1> QED
    BY <1>1, <1>7, <1>10, <1>12, OthersNotConcerned DEF MainInv

\* xleaf_create_group: the region has the group of its image.
LEMMA CreateGroupKeeps ==
    ASSUME MainAssumption, MainInv, NEW t \in Loader, CreateGroup(t)
    PROVE  MainInv'
  <1> USE DEF Goto, tree, call, rest, cache, board
  <1>1. /\ pc[t] = "group" /\ pc'[t] = "wait" /\ OnlyMoves(t) /\ ulp' = NoImage
        /\ UNCHANGED <<img, base, doomed, rooms, rc, lock>>
    BY LoaderAlone DEF CreateGroup, OnlyMoves, MainInv, TypeOK, Worker
  <1>2. PICK r \in regions : InRegion(t, r)
    BY <1>1 DEF MainInv, Loading
  <1> DEFINE q == Grouped(r)
  <1>3. r \in Region /\ img[t] \in Image
    BY <1>1, MainAssumption DEF MainInv, TypeOK, Loading
  <1>4. /\ q \in Region /\ q.id = r.id /\ q.uuid = r.uuid /\ q.dep = r.dep
        /\ q.info = r.info /\ q.group
    BY <1>3, GroupedIsRegion DEF SameRegion
  <1>5. The(base[t]) = r /\ r.id = base[t]
    BY <1>2, FoundById DEF InRegion, MainInv
  <1>6. Change(r.id, q)
    BY <1>5 DEF CreateGroup, Grouped
  <1> HIDE DEF q
  <1>7. /\ regions' = (regions \ {r}) \cup {q} /\ regions' \subseteq Region /\ RegionsTree'
        /\ \A ids : ExactlyBelow(r, ids) => ExactlyBelow(q, ids)'
    <2>1. UNCHANGED made /\ TypeOK /\ RegionsTree
      BY DEF CreateGroup, MainInv
    <2> QED
      BY <1>4, <1>6, <2>1, ChangeKeepsTree
  <1>8. TypeOK'
    BY <1>1, <1>7 DEF CreateGroup, MainInv, TypeOK, Worker
  <1>9. ExactlyBelow(q, {})'
    BY <1>1, <1>2, <1>7 DEF InRegion
  <1>10. InRegion(t, q)'
    BY <1>1, <1>2, <1>4, <1>5, <1>9 DEF InRegion
  <1>11. Loading(t)'
    BY <1>1, <1>7, <1>10 DEF MainInv, Loading
  <1> QED
    BY <1>1, <1>7, <1>8, <1>11, OthersNotConcerned DEF MainInv

\* A region that others may depend on stays when one that depends on another
\* goes.
LEMMA BelowGoes ==
    ASSUME TypeOK, RegionsTree, NEW id, \A k \in regions : k.id = id => k.dep # NoUuid,
           Destroy(id), UNCHANGED made
    PROVE  /\ RegionsTree' /\ regions' \subseteq regions
           /\ \A k \in regions : k.dep = NoUuid => k \in regions'
  <1>1. regions' \subseteq regions /\ \A k \in regions : k.id # id => k \in regions'
    BY DEF Destroy
  <1>2. \A k \in regions : k.uuid \in Top \/ k.dep = NoUuid => k \in regions'
    BY <1>1 DEF RegionsTree
  <1>3. RegionsTree'
    BY <1>1, <1>2 DEF RegionsTree, Made
  <1> QED
    BY <1>1, <1>2, <1>3

\* xmgmt_region_cleanup: one of what depends on the region goes.
LEMMA DestroyDependentKeeps ==
    ASSUME MainAssumption, MainInv, NEW t \in Loader, DestroyDependent(t)
    PROVE  MainInv'
  <1> USE DEF tree, call, rest, cache, board
  <1>1. PICK id \in doomed[t] :
           Destroy(id) /\ doomed' = [doomed EXCEPT ![t] = doomed[t] \ {id}]
    BY DEF DestroyDependent
  <1>2. /\ pc[t] \in {"clean", "failed"} /\ OnlyMoves(t) /\ ulp' = NoImage
        /\ doomed'[t] = doomed[t] \ {id}
        /\ UNCHANGED <<pc, img, base, rooms, rc, lock, made>>
    BY <1>1, LoaderAlone DEF DestroyDependent, OnlyMoves, MainInv, TypeOK, Worker, Loading
  <1>3. PICK r \in regions : InRegion(t, r)
    BY <1>2 DEF MainInv, Loading
  <1>4. r.uuid \in Uuid /\ r.uuid # NoUuid
    BY MainAssumption DEF MainInv, TypeOK, Region
  <1>5. \A k \in regions : k.id = id => k.dep = r.uuid
    BY <1>1, <1>2, <1>3 DEF InRegion, ExactlyBelow
  <1>6. /\ RegionsTree' /\ regions' \subseteq regions
        /\ \A k \in regions : k.id # id => k \in regions'
    BY <1>1, <1>2, <1>4, <1>5, BelowGoes DEF MainInv, Destroy
  <1>7. r.dep # r.uuid
    BY <1>4 DEF MainInv, RegionsTree
  <1>8. r \in regions'
    BY <1>5, <1>6, <1>7
  <1>9. (ExactlyBelow(r, doomed[t]))'
    BY <1>1, <1>2, <1>3, <1>6 DEF InRegion, ExactlyBelow, Destroy
  <1>10. InRegion(t, r)'
    BY <1>2, <1>3, <1>9 DEF InRegion
  <1>11. Loading(t)'
    BY <1>2, <1>8, <1>10 DEF MainInv, Loading
  <1>12. TypeOK'
    BY <1>1, <1>2, <1>6 DEF DestroyDependent, MainInv, TypeOK, Worker
  <1> QED
    BY <1>2, <1>6, <1>11, <1>12, OthersNotConcerned DEF MainInv

\* The image of a loader that makes regions is in one of the shell, and what it
\* makes is not one of the shell.
LEMMA RoomsBelow ==
    ASSUME TwoLevels, RegionsTree, NEW t \in Loader, img[t] \in Packages,
           NEW r \in regions, InRegion(t, r),
           NEW u \in Lists(img[t]), u # r.uuid
    PROVE  r.uuid \in Top /\ u \notin Top
  <1>1. r.uuid \in Top
    BY DEF TwoLevels, InRegion
  <1> QED
    BY <1>1 DEF TwoLevels, InRegion

\* fpga_region_create: a region for a uuid the image has room for.
LEMMA CreateRegionKeeps ==
    ASSUME MainAssumption, TwoLevels, MainInv, NEW t \in Loader, CreateRegion(t)
    PROVE  MainInv'
  <1> USE DEF tree, call, rest, cache, board
  <1>1. /\ pc[t] = "rooms" /\ OnlyMoves(t) /\ ulp' = NoImage /\ img[t] \in Packages
        /\ UNCHANGED <<pc, img, base, doomed, rc, lock>>
        /\ made < MaxRegions /\ made' = made + 1 /\ made \in Nat
    BY LoaderAlone DEF CreateRegion, OnlyMoves, MainInv, TypeOK, Worker, Loading
  <1>2. /\ rooms[t] \in Seq(Uuid) /\ rooms[t] # <<>>
        /\ rooms' = [rooms EXCEPT ![t] = Tail(rooms[t])]
    BY DEF CreateRegion, MainInv, TypeOK, Worker
  <1>3. PICK r \in regions : InRegion(t, r)
    BY <1>1 DEF MainInv, Loading
  <1>4. The(base[t]) = r /\ r.id = base[t]
    BY <1>3, FoundById DEF InRegion, MainInv
  <1>5. PICK n : n = [id |-> made + 1, uuid |-> Head(rooms[t]), group |-> FALSE,
                      info |-> NoImage, dep |-> r.uuid]
    OBVIOUS
  <1>6. regions' = regions \cup {n} /\ t # "event"
    BY <1>4, <1>5 DEF CreateRegion, Loader
  <1>7. Head(rooms[t]) \in Lists(img[t]) /\ Head(rooms[t]) # r.uuid
    BY <1>1, <1>2, <1>4, <1>6 DEF CreateRegion, IsItsOwn, MainInv, Loading
  <1>8. r.uuid \in Top /\ Head(rooms[t]) \notin Top
    <2>1. PICK u : u = Head(rooms[t])
      OBVIOUS
    <2> QED
      BY <1>1, <1>3, <1>7, <2>1, RoomsBelow DEF MainInv
  <1>9. n \in Region
    <2>1. r.uuid \in Uuid /\ Head(rooms[t]) \in Uuid /\ made + 1 \in 1 .. MaxRegions
      BY <1>1, <1>2 DEF MainInv, TypeOK, Region
    <2> QED
      BY <1>5, <2>1 DEF Region
  <1>10. TypeOK'
    BY <1>1, <1>2, <1>6, <1>9, MainAssumption DEF CreateRegion, MainInv, TypeOK, Worker
  <1>11. Made(n) /\ r.id < n.id /\ r.uuid = n.dep /\ n.uuid \notin Top /\ n.id = made'
    BY <1>1, <1>3, <1>5, <1>7, <1>8 DEF Made, InRegion, MainInv, RegionsTree
  <1>12. RegionsTree'
    BY <1>1, <1>6, <1>8, <1>11 DEF MainInv, RegionsTree, Made
  <1>13. InRegion(t, r)'
    BY <1>1, <1>3 DEF InRegion
  <1>14. \A k \in 1 .. Len(Tail(rooms[t])) : Tail(rooms[t])[k] \in Lists(img[t])
    BY <1>1, <1>2 DEF MainInv, Loading
  <1>15. Loading(t)'
    BY <1>1, <1>2, <1>6, <1>13, <1>14 DEF MainInv, TypeOK, Loading, Worker
  <1> QED
    BY <1>1, <1>10, <1>12, <1>15, OthersNotConcerned DEF MainInv

\* Every step of a loader in xmgmt_process_xclbin.
LEMMA LoaderKeeps ==
    ASSUME MainAssumption, TwoLevels, MainInv, NEW t \in Loader, Process(t)
    PROVE  MainInv'
  <1>1. ~ ProcessShell(t) /\ t # "event"
    BY DEF ProcessShell, Loader
  <1>2. CASE GroupFails(t)
    BY <1>2, CollapseKeeps DEF GroupFails
  <1>3. CASE CreateRegionFails(t)
    BY <1>1, <1>3, CollapseKeeps DEF CreateRegionFails
  <1> QED
    BY <1>1, <1>2, <1>3, NotProcessedKeeps, FindRegionKeeps, DestroyDependentKeeps,
       CleanRegionKeeps, ProgramKeeps, ProgramFailsKeeps, CreateGroupKeeps, GroupUpKeeps,
       SkipOwnKeeps, CreateRegionKeeps, ProcessedKeeps DEF Process

\* What evt_work does leaves a loader's region and its dependents as they are,
\* as long as no region goes and those that come are the shell's.
LEMMA LoadersNotConcerned ==
    ASSUME MainAssumption, MainInv, OnlyMoves("event"), UNCHANGED <<lock, ulp>>,
           regions \subseteq regions', made' \in Nat, made <= made',
           \A k \in regions' \ regions : k.dep = NoUuid /\ k.id > made,
           pc'["event"] \notin {"remove", "gone"}
    PROVE  Cached' /\ \A t \in Loader : Loading(t)'
  <1>1. \A t \in Loader : t \in Worker \ {"event"}
    BY DEF Worker, Loader
  <1>2. Cached'
    BY <1>1 DEF MainInv, Cached, OnlyMoves
  <1>3. ASSUME NEW t \in Loader
        PROVE  Loading(t)'
    <2>1. /\ pc'[t] = pc[t] /\ img'[t] = img[t] /\ base'[t] = base[t]
          /\ doomed'[t] = doomed[t] /\ rooms'[t] = rooms[t] /\ rc'[t] = rc[t]
      BY <1>1 DEF OnlyMoves
    <2>2. made \in Nat /\ doomed[t] \subseteq 1 .. made
      BY DEF MainInv, TypeOK, Loading
    <2>3. ASSUME NEW r \in regions, NEW ids \in SUBSET (1 .. made), ExactlyBelow(r, ids)
          PROVE  ExactlyBelow(r, ids)'
      <3>1. r.uuid # NoUuid
        BY MainAssumption DEF MainInv, TypeOK, Region
      <3> QED
        BY <2>2, <2>3, <3>1 DEF ExactlyBelow
    <2>4. ASSUME NEW r \in regions, InRegion(t, r)
          PROVE  InRegion(t, r)'
      <3>1. pc[t] \in {"clean", "failed"} => (ExactlyBelow(r, doomed[t]))'
        BY <2>1, <2>2, <2>3, <2>4 DEF InRegion
      <3>2. pc[t] \in {"program", "group", "wait"} \/ (pc[t] = "return" /\ rc[t] = "err") =>
               (ExactlyBelow(r, {}))'
        BY <2>1, <2>3, <2>4 DEF InRegion
      <3> QED
        BY <2>1, <2>4, <3>1, <3>2 DEF InRegion
    <2> QED
      BY <2>1, <2>2, <2>4 DEF MainInv, Loading
  <1> QED
    BY <1>2, <1>3

\* The steps of evt_work that leave the regions alone.
LEMMA EventQuiet ==
    ASSUME MainAssumption, MainInv, OnlyMoves("event"),
           UNCHANGED <<lock, ulp, regions, made>>, TypeOK', Evented',
           pc'["event"] \notin {"remove", "gone"}
    PROVE  MainInv'
  <1>1. made \in Nat
    BY DEF MainInv, TypeOK
  <1>2. Cached' /\ \A t \in Loader : Loading(t)'
    BY <1>1, LoadersNotConcerned
  <1> QED
    BY <1>2 DEF MainInv, RegionsTree

\* xmgmt_process_xclbin of the shell.
LEMMA ShellProcessKeeps ==
    ASSUME MainAssumption, MainInv,
           \/ NotProcessed("event") \/ ProcessShell("event")
           \/ CreateRegionFails("event") \/ Processed("event")
    PROVE  MainInv'
  <1> USE DEF Goto, Fail, tree, call, rest, cache, board
  <1>1. /\ OnlyMoves("event") /\ UNCHANGED <<lock, ulp, regions, made, doomed>>
        /\ pc["event"] \in {"find", "rooms"} /\ pc'["event"] \in {"rooms", "return"}
        /\ \A t \in Loader : pc'[t] = pc[t]
    BY DEF NotProcessed, ProcessShell, CreateRegionFails, Processed, OnlyMoves, MainInv, TypeOK,
       Worker, Loader
  <1>2. TypeOK'
    <2>1. CASE NotProcessed("event") \/ CreateRegionFails("event") \/ Processed("event")
      BY <2>1 DEF NotProcessed, CreateRegionFails, Processed, MainInv, TypeOK, Worker
    <2>2. CASE ProcessShell("event")
      <3>1. img["event"] \in Image
        BY <2>2, MainAssumption DEF ProcessShell, MainInv, Evented
      <3> QED
        BY <2>2, <3>1, MainAssumption DEF ProcessShell, MainInv, TypeOK, Worker
    <2> QED
      BY <2>1, <2>2
  <1>3. pc'["event"] = "rooms" => \A k \in 1 .. Len(rooms'["event"]) : rooms'["event"][k] \in Top
    <2> SUFFICES ASSUME pc'["event"] = "rooms" PROVE
                 \A k \in 1 .. Len(rooms'["event"]) : rooms'["event"][k] \in Top
      OBVIOUS
    <2>1. ProcessShell("event")
      BY DEF NotProcessed, CreateRegionFails, Processed, MainInv, TypeOK, Worker
    <2>2. img["event"] \in Valid /\ img["event"] \in Image
      BY <2>1, MainAssumption DEF ProcessShell, MainInv, Evented
    <2>3. rooms'["event"] = Uuids[img["event"]] /\ Uuids[img["event"]] \in Seq(Uuid)
      BY <2>1, <2>2, MainAssumption DEF ProcessShell, MainInv, TypeOK, Worker
    <2>4. \A k \in 1 .. Len(Uuids[img["event"]]) : Uuids[img["event"]][k] \in ToSet(Uuids[img["event"]])
      BY <2>3 DEF ToSet
    <2> QED
      BY <2>2, <2>3, <2>4 DEF Top
  <1>4. Evented'
    BY <1>1, <1>3 DEF MainInv, Evented
  <1> QED
    BY <1>1, <1>2, <1>4, EventQuiet

\* xmgmt_main_event_cb, up to the image it finds.
LEMMA HandlerKeeps ==
    ASSUME MainAssumption, MainInv,
           DevctlUp \/ FlashUp \/ GateOpened \/ LoadFirmware \/ ShellCreated
    PROVE  MainInv'
  <1> USE DEF Goto, Fail, tree, call, rest, cache, board, idle
  <1>1. OnlyMoves("event")
    BY DEF DevctlUp, FlashUp, GateOpened, LoadFirmware, ShellCreated, OnlyMoves, MainInv, TypeOK
  <1>2. UNCHANGED <<lock, ulp, regions, made, doomed>> /\ pc["event"] \in {"idle", "load", "return"}
    BY DEF DevctlUp, FlashUp, GateOpened, LoadFirmware, ShellCreated
  <1>3. TypeOK' /\ pc'["event"] \in {"idle", "load", "find"}
    <2>1. CASE DevctlUp
      BY <2>1 DEF DevctlUp, MainInv, TypeOK, Worker
    <2>2. CASE FlashUp
      BY <2>2 DEF FlashUp, MainInv, TypeOK, Worker
    <2>3. CASE GateOpened
      BY <2>3 DEF GateOpened, Unblock, MainInv, TypeOK, Worker
    <2>4. CASE ShellCreated
      BY <2>4 DEF ShellCreated, MainInv, TypeOK, Worker
    <2>5. CASE LoadFirmware
      <3>1. PICK i \in Firmware :
               /\ blp' = IF i = NoImage THEN blp ELSE i
               /\ IF IsValid(i)
                  THEN Goto("event", "load", "find") /\ img' = [img EXCEPT !["event"] = i]
                  ELSE Goto("event", "load", "idle") /\ UNCHANGED img
               /\ UNCHANGED <<board, rooms, rc, idle>>
        BY <2>5 DEF LoadFirmware
      <3>2. i \in Image \cup {NoImage}
        BY MainAssumption DEF Firmware
      <3> QED
        BY <3>1, <3>2 DEF MainInv, TypeOK, Worker
    <2> QED
      BY <2>1, <2>2, <2>3, <2>4, <2>5
  <1>4. pc'["event"] = "find" => img'["event"] \in Valid
    BY DEF DevctlUp, FlashUp, GateOpened, LoadFirmware, ShellCreated, IsValid, MainInv, TypeOK, Worker
  <1>5. Evented'
    BY <1>2, <1>3, <1>4 DEF MainInv, Evented
  <1> QED
    BY <1>1, <1>2, <1>3, <1>5, EventQuiet

\* A region for a uuid of the shell.
LEMMA ShellRegionKeeps ==
    ASSUME MainAssumption, MainInv, CreateRegion("event")
    PROVE  MainInv'
  <1> USE DEF tree, call, rest, cache, board
  <1>1. /\ pc["event"] = "rooms" /\ OnlyMoves("event")
        /\ UNCHANGED <<pc, img, base, doomed, rc, lock, ulp>>
        /\ made < MaxRegions /\ made' = made + 1 /\ made \in Nat
    BY DEF CreateRegion, OnlyMoves, MainInv, TypeOK
  <1>2. /\ rooms["event"] \in Seq(Uuid) /\ rooms["event"] # <<>>
        /\ rooms' = [rooms EXCEPT !["event"] = Tail(rooms["event"])]
    BY DEF CreateRegion, MainInv, TypeOK, Worker
  <1>3. Head(rooms["event"]) \in Top /\ Head(rooms["event"]) \in Uuid
    BY <1>1, <1>2 DEF MainInv, Evented
  <1>4. PICK n : n = [id |-> made + 1, uuid |-> Head(rooms["event"]), group |-> FALSE,
                      info |-> NoImage, dep |-> NoUuid]
    OBVIOUS
  <1>5. regions' = regions \cup {n}
    BY <1>4 DEF CreateRegion
  <1>6. n \in Region
    <2>1. made + 1 \in 1 .. MaxRegions
      BY <1>1 DEF MainInv, TypeOK
    <2> QED
      BY <1>3, <1>4, <2>1 DEF Region
  <1>7. TypeOK'
    BY <1>1, <1>2, <1>5, <1>6, MainAssumption DEF CreateRegion, MainInv, TypeOK, Worker
  <1>8. n.id = made' /\ n.uuid \in Top /\ n.dep = NoUuid
    BY <1>1, <1>3, <1>4
  <1>9. RegionsTree'
    BY <1>1, <1>5, <1>8 DEF MainInv, RegionsTree, Made
  <1>10. \A k \in 1 .. Len(Tail(rooms["event"])) : Tail(rooms["event"])[k] \in Top
    BY <1>1, <1>2 DEF MainInv, Evented
  <1>11. Evented'
    BY <1>1, <1>2, <1>10 DEF MainInv, Evented, TypeOK, Worker
  <1>12. Cached' /\ \A t \in Loader : Loading(t)'
    <2>1. \A k \in regions' \ regions : k.dep = NoUuid /\ k.id > made
      BY <1>1, <1>5, <1>8
    <2> QED
      BY <1>1, <1>5, <2>1, LoadersNotConcerned DEF MainInv, Evented
  <1> QED
    BY <1>7, <1>9, <1>11, <1>12 DEF MainInv

\* While the leaf is removed nobody loads, and no image is cached.
LEMMA RemovalQuiet ==
    ASSUME MainInv, pc'["event"] \in {"remove", "gone"}, \A t \in Loader : pc[t] = "idle",
           OnlyMoves("event"), ulp' = NoImage, UNCHANGED made
    PROVE  Cached' /\ \A t \in Loader : Loading(t)' /\ pc'[t] = "idle"
  <1>1. \A t \in Loader : t \in Worker \ {"event"}
    BY DEF Worker, Loader
  <1> QED
    BY <1>1 DEF MainInv, Cached, Loading, OnlyMoves

\* What the clean-up of the next base region collects.
LEMMA CleanNextCollects ==
    ASSUME MainAssumption, TypeOK, RegionsTree, NEW bases \in SUBSET Bases, CleanNext(bases),
           doomed["event"] = {}
    PROVE  /\ doomed' = [doomed EXCEPT !["event"] = doomed'["event"]]
           /\ doomed' \in [Worker -> SUBSET (1 .. MaxRegions)]
           /\ \A b \in Oldest(bases) : ExactlyBelow(b, doomed'["event"])
           /\ \A id \in doomed'["event"] : \E k \in regions : k.id = id /\ k.dep # NoUuid
  <1>0. doomed \in [Worker -> SUBSET (1 .. MaxRegions)] /\ "event" \in Worker
    BY DEF TypeOK, Worker
  <1>1. CASE bases = {}
    BY <1>0, <1>1 DEF CleanNext, Oldest
  <1>2. CASE bases # {}
    <2>1. PICK b \in Oldest(bases) : doomed' = [doomed EXCEPT !["event"] = Dependents(b.id)]
      BY <1>2 DEF CleanNext, CollectDependents
    <2>2. b \in regions /\ b \in Region /\ b.uuid # NoUuid
      BY <2>1, MainAssumption DEF Oldest, Bases, TypeOK, Region
    <2>3. ExactlyBelow(b, Dependents(b.id)) /\ The(b.id) = b
      BY <2>2, DependentsBelow, FoundById
    <2>4. \A c \in Oldest(bases) : c = b
      BY <2>1 DEF Oldest, Bases, RegionsTree
    <2>5. Dependents(b.id) \subseteq 1 .. MaxRegions
      BY DEF Dependents, TypeOK, Region
    <2>6. doomed'["event"] = Dependents(b.id)
      BY <1>0, <2>1
    <2>7. \A id \in Dependents(b.id) : \E k \in regions : k.id = id /\ k.dep # NoUuid
      BY <2>2, <2>3 DEF Dependents
    <2> QED
      BY <1>0, <2>1, <2>3, <2>4, <2>5, <2>6, <2>7
  <1> QED
    BY <1>1, <1>2

\* xmgmt_main_remove
LEMMA RemoveLeafKeeps ==
    ASSUME MainAssumption, MainInv, RemoveLeaf
    PROVE  MainInv'
  <1> USE DEF Goto, tree
  <1>1. /\ pc["event"] = "idle" /\ pc'["event"] = "remove" /\ ulp' = NoImage
        /\ UNCHANGED <<regions, made>> /\ \A t \in Loader : pc[t] = "idle"
    BY DEF RemoveLeaf, MainInv, TypeOK, Worker
  <1>2. /\ doomed' = [doomed EXCEPT !["event"] = doomed'["event"]]
        /\ doomed' \in [Worker -> SUBSET (1 .. MaxRegions)]
        /\ \A b \in Oldest(Bases) : ExactlyBelow(b, doomed'["event"])
        /\ \A id \in doomed'["event"] : \E k \in regions : k.id = id /\ k.dep # NoUuid
    BY <1>1, CleanNextCollects DEF RemoveLeaf, MainInv, Evented
  <1>3. OnlyMoves("event")
    BY <1>2 DEF RemoveLeaf, OnlyMoves, MainInv, TypeOK
  <1>4. Cached' /\ \A t \in Loader : Loading(t)' /\ pc'[t] = "idle"
    BY <1>1, <1>3, RemovalQuiet
  <1>5. TypeOK'
    BY <1>2 DEF RemoveLeaf, MainInv, TypeOK, Worker
  <1>6. Evented'
    BY <1>1, <1>2, <1>4 DEF Evented, Oldest, Bases, ExactlyBelow
  <1> QED
    BY <1>1, <1>4, <1>5, <1>6 DEF MainInv, RegionsTree

\* xmgmt_region_cleanup of a base region: its dependents go,
LEMMA DestroyBelowKeeps ==
    ASSUME MainAssumption, MainInv, DestroyDependent("event")
    PROVE  MainInv'
  <1> USE DEF tree, call, rest, cache, board
  <1>1. PICK id \in doomed["event"] :
           Destroy(id) /\ doomed' = [doomed EXCEPT !["event"] = doomed["event"] \ {id}]
    BY DEF DestroyDependent
  <1>2. /\ pc["event"] = "remove" /\ OnlyMoves("event") /\ ulp' = NoImage
        /\ doomed'["event"] = doomed["event"] \ {id}
        /\ UNCHANGED <<pc, made>> /\ \A t \in Loader : pc[t] = "idle"
    BY <1>1 DEF DestroyDependent, OnlyMoves, MainInv, TypeOK, Worker, Evented, Cached
  <1>3. /\ RegionsTree' /\ regions' \subseteq regions
        /\ \A k \in regions : k.dep = NoUuid => k \in regions'
    <2>1. \A k \in regions : k.id = id => k.dep # NoUuid
      BY <1>1, <1>2 DEF MainInv, Evented, RegionsTree
    <2> QED
      BY <1>1, <1>2, <2>1, BelowGoes DEF MainInv
  <1>4. Bases' = Bases /\ Oldest(Bases)' = Oldest(Bases)
    BY <1>3 DEF Bases, Oldest
  <1>5. ASSUME NEW b \in Oldest(Bases)
        PROVE  (ExactlyBelow(b, doomed["event"]))'
    BY <1>1, <1>2, <1>3 DEF MainInv, Evented, ExactlyBelow, Destroy
  <1>6. Cached' /\ \A t \in Loader : Loading(t)' /\ pc'[t] = "idle"
    BY <1>2, RemovalQuiet
  <1>7. TypeOK'
    BY <1>1, <1>2, <1>3 DEF DestroyDependent, MainInv, TypeOK, Worker
  <1>8. \A other \in doomed'["event"] : \E k \in regions' : k.id = other /\ k.dep # NoUuid
    BY <1>1, <1>2 DEF MainInv, Evented, Destroy
  <1>9. Evented'
    BY <1>2, <1>3, <1>4, <1>5, <1>6, <1>8 DEF MainInv, Evented
  <1> QED
    BY <1>3, <1>6, <1>7, <1>9 DEF MainInv

\* and then the region.
LEMMA RemoveBaseKeeps ==
    ASSUME MainAssumption, MainInv, RemoveBase
    PROVE  MainInv'
  <1> USE DEF tree, call, rest, cache, board
  <1>1. PICK b \in Oldest(Bases) : Destroy(b.id) /\ CleanNext(Bases \ {b})
    BY DEF RemoveBase
  <1>2. /\ pc["event"] = "remove" /\ doomed["event"] = {} /\ ulp' = NoImage
        /\ UNCHANGED <<pc, made>> /\ \A t \in Loader : pc[t] = "idle"
    BY DEF RemoveBase, MainInv, Evented, Cached
  <1>3. /\ doomed' = [doomed EXCEPT !["event"] = doomed'["event"]]
        /\ doomed' \in [Worker -> SUBSET (1 .. MaxRegions)]
        /\ \A c \in Oldest(Bases \ {b}) : ExactlyBelow(c, doomed'["event"])
        /\ \A id \in doomed'["event"] : \E k \in regions : k.id = id /\ k.dep # NoUuid
    BY <1>1, <1>2, CleanNextCollects DEF MainInv
  <1>4. OnlyMoves("event")
    BY <1>3 DEF RemoveBase, OnlyMoves, MainInv, TypeOK
  <1>5. b \in regions /\ regions' = regions \ {b}
    BY <1>1 DEF Oldest, Bases, Destroy, MainInv, RegionsTree
  <1>6. Bases' = Bases \ {b} /\ Oldest(Bases)' = Oldest(Bases \ {b})
    BY <1>5 DEF Bases, Oldest
  <1>7. \A k \in regions : k.dep # b.uuid
    BY <1>1, <1>2 DEF MainInv, Evented, ExactlyBelow
  <1>8. RegionsTree'
    BY <1>2, <1>5, <1>7 DEF MainInv, RegionsTree, Made
  <1>9. Cached' /\ \A t \in Loader : Loading(t)' /\ pc'[t] = "idle"
    BY <1>2, <1>4, RemovalQuiet
  <1>10. TypeOK'
    BY <1>2, <1>3, <1>5 DEF RemoveBase, MainInv, TypeOK, Worker
  <1>11. \A c \in Oldest(Bases)' : (ExactlyBelow(c, doomed["event"]))'
    BY <1>3, <1>5, <1>6 DEF ExactlyBelow
  <1>12. \A id \in doomed'["event"] : \E k \in regions' : k.id = id /\ k.dep # NoUuid
    BY <1>1, <1>3, <1>5 DEF Oldest, Bases
  <1>13. Evented'
    BY <1>2, <1>9, <1>11, <1>12 DEF Evented
  <1> QED
    BY <1>8, <1>9, <1>10, <1>13 DEF MainInv

\* Every region depends on a base region or is one.
LEMMA RemovedKeeps ==
    ASSUME MainAssumption, MainInv, Removed
    PROVE  MainInv'
  <1> USE DEF Goto, tree, call, rest, cache, board
  <1>1. /\ pc["event"] = "remove" /\ pc'["event"] = "gone" /\ ulp' = NoImage
        /\ UNCHANGED <<regions, made>> /\ OnlyMoves("event")
        /\ \A t \in Loader : pc[t] = "idle"
    BY DEF Removed, OnlyMoves, MainInv, TypeOK, Worker, Evented, Cached
  <1>2. regions = {}
    BY DEF Removed, Bases, MainInv, RegionsTree
  <1>3. Cached' /\ \A t \in Loader : Loading(t)' /\ pc'[t] = "idle"
    BY <1>1, RemovalQuiet
  <1>4. TypeOK'
    BY DEF Removed, MainInv, TypeOK, Worker
  <1>5. doomed'["event"] = {}
    BY <1>1, <1>2 DEF Removed, MainInv, Evented
  <1>6. Evented' /\ RegionsTree'
    BY <1>1, <1>2, <1>3, <1>5 DEF Evented, MainInv, RegionsTree
  <1> QED
    BY <1>3, <1>4, <1>6 DEF MainInv

\* Every step of the main leaf.
LEMMA MainStep ==
    ASSUME MainAssumption, TwoLevels, MainInv, [Next]_vars
    PROVE  MainInv'
  <1>1. ASSUME NEW t \in Loader, Process(t)
        PROVE  MainInv'
    BY <1>1, LoaderKeeps
  <1>2. CASE Process("event")
    <2>1. pc["event"] \notin {"clean", "program", "group", "wait", "failed"}
      BY DEF MainInv, Evented
    <2>2. /\ ~ FindRegion("event") /\ ~ CleanRegion("event") /\ ~ Program("event")
          /\ ~ ProgramFails("event") /\ ~ CreateGroup("event") /\ ~ GroupUp("event")
          /\ ~ GroupFails("event") /\ ~ SkipOwn("event")
      BY <2>1 DEF FindRegion, CleanRegion, Program, ProgramFails, CreateGroup, GroupUp,
         GroupFails, SkipOwn, IsItsOwn, Goto
    <2> QED
      BY <1>2, <2>2, ShellProcessKeeps, DestroyBelowKeeps, ShellRegionKeeps DEF Process
  <1>3. ASSUME NEW t \in Loader, (Alive /\ Download(t)) \/ DownloadDone(t)
        PROVE  MainInv'
    BY <1>3, DownloadKeeps, DownloadDoneKeeps
  <1>4. CASE Handle
    BY <1>4, HandlerKeeps, RemoveBaseKeeps, RemovedKeeps DEF Handle
  <1>5. CASE RemoveLeaf
    BY <1>5, RemoveLeafKeeps
  <1>6. CASE UNCHANGED vars
    <2>1. TypeOK' /\ RegionsTree' /\ Cached'
      BY <1>6 DEF vars, MainInv, TypeOK, RegionsTree, Made, Cached
    <2>2. Evented'
      BY <1>6 DEF vars, MainInv, Evented, Oldest, Bases, ExactlyBelow
    <2>3. \A t \in Loader : Loading(t)'
      BY <1>6 DEF vars, MainInv, Loading, InRegion, ExactlyBelow
    <2> QED
      BY <2>1, <2>2, <2>3 DEF MainInv
  <1>7. Worker = Loader \cup {"event"}
    BY DEF Worker
  <1> QED
    BY <1>1, <1>2, <1>3, <1>4, <1>5, <1>6, <1>7 DEF Next

\* The leaf starts with the invariant: no image, no region, no call.
LEMMA MainStart == ASSUME MainAssumption, Init PROVE MainInv
  <1>1. TypeOK
    <2>1. /\ regions \subseteq Region /\ made \in 0 .. MaxRegions
          /\ {blp, ulp} \subseteq Image \cup {NoImage}
          /\ events \subseteq {"devctl", "qspi", "gate"} /\ reachable \subseteq Image
          /\ shells \in Nat /\ lock \in Loader \cup {"none"}
      BY DEF Init, MainAssumption
    <2>2. /\ base \in [Worker -> 0 .. MaxRegions] /\ done \in [Loader -> 0 .. MaxDownloads]
          /\ doomed \in [Worker -> SUBSET (1 .. MaxRegions)] /\ rooms \in [Worker -> Seq(Uuid)]
          /\ rc \in [Worker -> {"ok", "err"}] /\ img \in [Worker -> Image \cup {NoImage}]
      BY DEF Init, MainAssumption, NoRegion
    <2>3. pc \in [Worker -> {"idle", "load", "find", "clean", "program", "group",
                             "wait", "rooms", "failed", "return", "remove", "gone"}]
      BY DEF Init
    <2>4. {devctl, flash} \subseteq BOOLEAN
      BY Zenon DEF Init
    <2> QED
      BY <2>1, <2>2, <2>3, <2>4 DEF TypeOK
  <1>2. RegionsTree /\ Evented /\ Cached
    BY DEF Init, RegionsTree, Evented, Cached, Worker
  <1>3. ASSUME NEW t \in Loader
        PROVE  Loading(t)
    BY DEF Init, Loading, Worker
  <1> QED
    BY <1>1, <1>2, <1>3 DEF MainInv

\* The invariant of the main leaf, in trees of two levels: who is at work, the
\* region it works on, what its clean-up has left to do, and how regions depend
\* on each other.
THEOREM MainInvariant == TwoLevels /\ MCSpec => []MainInv
  <1> SUFFICES ASSUME TwoLevels PROVE MCSpec => []MainInv
    OBVIOUS
  <1>1. MCInit => MainInv
    BY MainAssumption, MainStart DEF MCInit
  <1>2. MainInv /\ [MCNext]_allVars => MainInv'
    <2> SUFFICES ASSUME MainInv, [MCNext]_allVars PROVE MainInv'
      OBVIOUS
    <2>1. [Next]_vars
      BY DEF MCNext, Downloads, Serves, allVars
    <2> QED
      BY <2>1, MainAssumption, MainStep
  <1> QED
    BY <1>1, <1>2, PTL DEF MCSpec

\* xmgmt-main-region.c.  In trees of two levels a region's base is always listed,
\* the image that is cached runs in some region, a download that failed leaves
\* nothing in its region or on it, and a removed leaf leaves no region.
THEOREM RegionsStayConsistent == TwoLevels /\ MCSpec => []RegionsConsistent
  <1> SUFFICES ASSUME TwoLevels PROVE MCSpec => []RegionsConsistent
    OBVIOUS
  <1>1. MainInv => RegionsConsistent
    <2> SUFFICES ASSUME MainInv PROVE RegionsConsistent
      OBVIOUS
    <2>1. NoOrphan /\ CachedRuns /\ RemovedLeavesNothing
      BY DEF MainInv, RegionsTree, Cached, Evented, NoOrphan, CachedRuns, RemovedLeavesNothing
    <2>2. ASSUME NEW t \in Loader, pc[t] = "return", rc[t] = "err", base[t] # NoRegion
          PROVE  /\ ~ The(base[t]).group /\ The(base[t]).info = NoImage
                 /\ Dependents(base[t]) = {}
      <3>1. PICK r \in regions : InRegion(t, r)
        BY <2>2 DEF MainInv, Loading
      <3> QED
        BY <2>2, <3>1, FoundById, DependentsBelow DEF InRegion, MainInv
    <2> QED
      BY <2>1, <2>2 DEF RegionsConsistent, FailedLeavesNothing
  <1> QED
    BY <1>1, MainInvariant, PTL

\* xmgmt-main-region.c:408-410.  In trees of two levels the gate of a region is
\* closed only when nothing is behind it any more: no group of the region, no
\* region that depends on it.
THEOREM GateClosesOnNothing == TwoLevels /\ MCSpec => NothingBehindGate
  <1> SUFFICES ASSUME TwoLevels PROVE MCSpec => NothingBehindGate
    OBVIOUS
  <1>1. MainInv /\ [MCNext]_allVars =>
           [\A t \in Loader : pc[t] = "program" /\ pc'[t] # "program" =>
               ~ The(base[t]).group /\ Dependents(base[t]) = {}]_vars
    <2> SUFFICES ASSUME MainInv, NEW t \in Loader, pc[t] = "program"
                 PROVE  ~ The(base[t]).group /\ Dependents(base[t]) = {}
      OBVIOUS
    <2>1. PICK r \in regions : InRegion(t, r)
      BY DEF MainInv, Loading
    <2> QED
      BY <2>1, FoundById, DependentsBelow DEF InRegion, MainInv
  <1> QED
    BY <1>1, MainInvariant, PTL DEF MCSpec, NothingBehindGate

=============================================================================
