# A TLA+ model of the XRT drivers (xoclv2)

Xilinx/xoclv2 holds the kernel drivers of Alveo boards. A *root* driver
(`mgmt/`, bound to the PCIe management function) enumerates a board from device
trees into *groups*, groups into *leaves* (one per function of the shell: AXI
gate, ICAP, clock, mailbox, CMC ...), and `lib/` is the infrastructure they
share. All paths below are relative to `src/src/drivers/fpga/xrt/`.

The project models the infrastructure, where several kernel threads meet, what
the management driver does on top of it, and the leaves whose own logic can go
wrong. TLC checks each part on a small instance; TLAPS proves the safety of the
pool, the device node, the root's groups and events, and the mailbox for any
number of threads, devices, groups and messages.

## 1. The system

### Components

| Component | Code | State | Operations |
|---|---|---|---|
| Subdev pool | `lib/subdev.c` | `xsp_dev_list`, `xsp_lock`, `xsp_closing`; of each child its list of holders with their krefs and a completion | `pool_init/fini/add/del/get/put`, `handle_event` |
| Device node | `lib/cdev.c` | `xsp_ref`, `xsp_excl_open`, `xsp_devnode_online`, `xsp_devnode_lock`, `xsp_devnode_comp`, the cdev and the device | `devnode_create/destroy/allowed/disallowed/open/open_excl/close` |
| Root | `lib/xroot.c` | the pool of groups; `bringup_pending_cnt`, `bringup_failed_cnt`, `bringup_comp`, `bringup_work`; the list of events, `evt_work` | probe/remove, create/destroy/lookup of groups, wait for bringup, event broadcast, requests of children |
| Group | `lib/group.c` | `leaves_created`, its lock, the pool of its leaves | `INIT_CHILDREN`, `FINI_CHILDREN`, trigger event, get/put leaf |
| Bus | `lib/lib-drv.c` | drivers, their endpoints, ids of instances | register, unregister, get and put an instance id |
| AXI gate | `lib/xleaf/axigate.c` | `gate_lock`, `gate_closed`, the register | open, close, event callback |
| CMC | `lib/xleaf/cmc*.c` | the controller and its image, access to what the gate isolates; its packet mailbox with a semaphore and a generation; the update of the satellite controller (SC); cached board information; sensors | gate events, probe (stop, load, start), holds of the mailbox, file operations |
| Mailbox | `lib/xleaf/mailbox.c` | two channels with their packet and message queues, request list, software channel | request, post, listen, poll timer, read/write/poll of the node |
| Mailbox service | `mgmt/xmgmt-main-mailbox.c` | the mailbox leaf it listens on, `test_msg`, `peer_in_same_domain` | requests of the user function, notifications of it, attributes |
| Regions | `mgmt/xmgmt-main-region.c` | list of regions, what each is based on, its image and its group | probe, program, clean-up, FPGA bridge |
| Main leaf | `mgmt/xmgmt-main.c` | firmware images, `lock`, `blp_interface_uuids`, devctl and flash readiness | load firmware, create the shell's group, ioctl, events, attributes |
| Management driver | `mgmt/root.c` | PCI state | probe, remove, hot reset |
| FPGA manager | `mgmt/xrt-mgr.c` | | checks and writes an image |
| QSPI flash | `lib/xleaf/qspi.c` | selected chip, cached sector, `io_lock`, page buffer | read and write, by a process and by other leaves |
| Clock, clkfreq, UCS | `lib/xleaf/clock.c`, `clkfreq.c`, `ucs.c` | wizard registers, counter, `clock_lock`, `clkfreq_lock` | set, read, count, verify |
| ICAP | `lib/xleaf/icap.c` | FIFO, `icap_lock` | download a bitstream |
| VSEC, SRSR, calibration, firewall, devctl | `lib/xleaf/` | registers, saved calibration | each leaf's ioctls |
| Metadata, xclbin | `metadata/`, `lib/xclbin.c` | none | queries and edits of device trees, sections of an image |
| Self tests, libfdt | `selftests/`, `../../scripts/dtc` | | a test driver; vendored |

### Interactions

* A parent owns a pool of children. Root and groups call a child through its
  driver's operations; a child calls its parent through a callback. A leaf that
  wants another leaf asks the root, which gets the group and has the group get
  the leaf: two pools, each with holders.
* A leaf's device node is opened by processes; the driver waits for them before
  it removes the node, inside the removal of the leaf, inside the teardown of
  the group's leaves, which has the group's lock.
* Groups are brought up by one work item, events are delivered by another.
  Bringing up a group posts POST_CREATION for each leaf and each group; handlers
  of events create groups, open gates and get leaves.
* A download closes the gates, writes the image, opens the gates, destroys the
  region's old group with everything on top of it, creates the new one and waits
  for its bringup.

### What is hard, and what makes each part correct

| Component | Hard | Correct when |
|---|---|---|
| Subdev pool | a wait for holders in the middle of a list walk; teardown tests and unlinks without the lock; kref of a holder shared by threads; killed waits | a held child stays listed, the counts are exact, no wake-up is lost, teardown leaves nothing, newest first |
| Device node | the closing user completes after it unlocked; `device_create` fails after `cdev_add` | exclusive use is alone, the node outlives its users, removal ends |
| Root, groups | counts and one completion for several waiters; two destructions of one group; a group that comes up while its root unbinds | the wait for bringup ends, and means that everything is up; groups go newest first; unbinding leaves nothing and ends |
| Events | delivery with a cursor it does not hold; who frees an event | every child is told, once; a synchronous poster returns after the last call |
| Gate | broadcast with a lock held; synchronous close and asynchronous open | flag, hardware and CMC's access agree; a close ends |
| Mailbox | timeouts against answers, three owners of a message, packets to messages | an answer goes to its request, a message has one owner, a timeout releases the channel |
| Regions, main leaf | a tree that is cleaned up level by level; half a download; downloads of a process, of the peer and the shell's firmware at once | no region stays whose base is gone, nothing is bound behind a gate that is reprogrammed, the image that is cached is the one that runs, downloads end |
| Mailbox service | four locks of three components; a leaf it listens on that goes | every request is served, a test message is sent once, no callback after letting go |
| CMC | holds of several packets by several threads; answers that come late, errors, killed waits | firmware is written whole, into an erased flash; the mailbox is let go of; the board information is that of the firmware that runs |
| Flash | a page that is read, erased and programmed around a failure; a sector register behind a cache | a read is true, a write that succeeds is whole, pages beside it are kept |
| Clocks | a table search, 32-bit products, a counter several threads share | what is read and verified is what was set |
| ICAP, xclbin | a FIFO filled as it empties; lengths taken from the file | the FPGA gets the bitstream, whole and in order |
| Making leaves | endpoints cut out and put back; instance numbers that groups share | every endpoint has one home, no leaf is forgotten, the numbers are those of the devices |

The hazards behind this table are listed one by one, at their lines, in
`PROJECT.json` ("hazards").

## 2. Modules

| Module | Role |
|---|---|
| `PoolContract` | what a pool promises: who is listed, who is held, nobody who is held goes |
| `SubdevPool` | `lib/subdev.c`, every operation at the granularity of its lock |
| `SubdevPoolProps` | its properties and the refinement of `PoolContract` |
| `MCSubdevPool` | who holds under which name, for TLC |
| `SubdevPoolProofs` | proofs about it |
| `NodeAccess` | what a device node promises its users |
| `DevNode`, `DevNodeProps`, `DevNodeProofs` | `lib/cdev.c`, its properties and the refinement of `NodeAccess`, the proofs |
| `RootGroups`, `RootGroupsProps`, `RootGroupsProofs`, `RootUnbindProofs` | `lib/xroot.c` and `lib/group.c`: creation, bringup, destruction and unbinding of groups, with `mgmt/root.c` and a download as callers; its properties; the proofs |
| `EventQueue` | the root's list of events and `evt_work`'s end of it, extended by the next two |
| `RootEvents`, `RootEventsProofs` | delivery to one child after the other while children come and go; the proofs |
| `GateEvents` | an AXI gate, the events it posts, and CMC, which answers them |
| `Mailbox`, `MailboxProps`, `MailboxProofs` | `lib/xleaf/mailbox.c`: callers, the two channel workers, the listener, the daemon on the node and the peer; its properties; the proofs |
| `MgmtMain`, `MgmtMainProps` | `mgmt/xmgmt-main.c`, `mgmt/xmgmt-main-region.c` and what `mgmt/xrt-mgr.c` checks: the shell's firmware, the tree of regions, downloads |
| `MailboxService` | `mgmt/xmgmt-main-mailbox.c`, with the locks it takes of its own, of the mailbox leaf and of the main leaf |
| `MCMgmtMain`, `MgmtMainProofs` | the two above for TLC; the proofs about both |
| `Xclbin`, `Icap` | `lib/xclbin.c`: sections, the bitstream's header, the metadata with the clocks' frequencies; `mgmt/xrt-mgr.c` and `lib/xleaf/icap.c`: the bitstream on its way into the FPGA |
| `Flash` | `lib/xleaf/qspi.c` |
| `Cmc` | `lib/xleaf/cmc.c`, `cmc-ctrl.c`, `cmc-mailbox.c`, `cmc-sc.c`, `cmc-bdinfo.c` |
| `Clocks` | `lib/xleaf/clock.c`, `clkfreq.c`, `ucs.c`, `ddr_calibration.c` |
| `Leaves` | how a group makes leaves of its metadata: `lib/group.c`, `lib/subdev.c`, `lib/lib-drv.c`, `metadata/metadata.c` |
| `MCLeafDrivers`, `LeafDriversProofs` | the last six for TLC; the proofs about `Cmc`, `Icap`, `Leaves` and `Clocks` |

How the parts compose: `RootGroups` stands on the abstraction `PoolContract`
that `SubdevPool` is shown to implement (a get finds a listed group, a removal
waits until nobody holds the group); its download keeps a device node in use as
`NodeAccess` says. `RootEvents` and `GateEvents` both extend `EventQueue`: the
first details who is called, the second what one gate and one client do when
they are. `MgmtMain` rests on `RootGroups` (a region's group is created, waited
for and destroyed in a step each) and on `GateEvents` (its gate closes and opens
through `evt_work`, which the download waits for); `Icap` extends `Xclbin`.

`MCMgmtMain` and `MCLeafDrivers` put modules side by side that share no state:
a variable `part`, chosen in the initial state, says which of them moves, the
others stay in an initial state. The behaviours are the union of those of the
parts, not their product, so a run of them is a run of each part with its own
instance, and each property is about one part.

### From code to model

**SubdevPool.** A `Subdev` is a child, a `Thread` a kernel thread, and
`HolderOf` maps a thread to the struct device that it gets children for, so that
several threads share one holder, as threads of one driver do. `devList` is
`xsp_dev_list`, newest first; `lock` the owner of `xsp_lock`; `closing` is
`xsp_closing`; `refs` the kref of each holder of a child (0 is "not on
xs_holder_list"); `comp` the count of `xs_holder_comp`; `stage` where a child is
between creation and destruction. `owed` is what a client got and has not put,
which no variable of the code records and the properties compare with.
`AddCreate ... AddReturn` is `pool_add`; `DelCall, DelFound, DelAwaitHolders,
Woken/Interrupted, DelUnlink, Destroy` is `pool_del` with
`xrt_subdev_release_waiting`'s drop and retake of the lock; `Fini*` is
`pool_fini`, whose per-child steps run without the lock; `GetCall, GetHold` and
`PutCall, PutRelease` the other two. A step ends where the code blocks or
releases the lock. How a child is matched (by id, endpoint, position) is the
choice of the child.

**DevNode.** Each `File` is a process that finds, opens, uses and closes the
node; the driver creates it, with both failures, allows it, and destroys it.
`Close` and `Notify` are separate: the code completes after it unlocked. A creation that fails ends the
node there; that `xrt_subdev_pool_add`'s caller ignores it and destroys the node all the same
(`lib/subdev.c:339`, 362) is left out.

**RootGroups.** A group is the number of its creation. The bringup work has its
own program counter, `wpc`; probe, unbinding, a process's downloads and the
leaf code that the work calls are threads. Waiting for POST_CREATION and
PRE_REMOVAL handlers inside a step is part of that step, except for the
handlers that create groups, which are the thread "leaf". `met` and `spoilt`
(a download and the unbinding were both under way; a leaf did not come up) are
histories for properties.
A removal finds a group, waits for its holders without looking it up again
(`SingleDel`, `SingleAwait`), and unlinks and frees it (`SingleFreed`). Two removers of
one group, a download and the unbinding, both get there: the second uses what the
first freed, which is the end of the modelled behaviour (`"oops"`, `Sane`). A remover
that is killed while it waits is in `SubdevPool` only.

**EventQueue, RootEvents, GateEvents.** `queue` groups the list (events are
added and taken at the same end, as list_add with list_first_entry does), the
state of each event, and the event `evt_work` is at. `RootEvents` collapses the
nested pools of groups and leaves to one walk, in the order the nested walk
has; any child may leave, also the one the walk has come to. In `GateEvents`, an event's
delivery is one call to the only leaf that matters for it. Its bridge closes the gate
of a region when the groups above are destroyed (`TopDestroyed`), as the only caller of
close does (`mgmt/xmgmt-main-region.c:405`, under the main leaf's lock), so the gates of
other groups are created before it or after the download.

**Mailbox.** A thread is in at most one call, so a `Caller` names the message it
sends and, for a request, the message that takes the response: `txq` and `rxq`
are the two `mbc_msgs`, `txcur` and `rxcur` the two `mbc_cur_msg`, `sent` and
`answer` the two completions. `txdone` and `parts` are `mbc_bytes_done`, in
packets; `hwtx` and `hwrx` what is in the FIFOs, `swtx` and `swrx` the software
channels' buffers. Each worker is a loop: `TxCheck, TxSend` and the timer event
for TX, `SwPeek` to `HwFill` and the timer event for RX; a step ends where
another thread can see the difference (a lock is dropped, a packet leaves the
FIFO). `chan_msg_done` is `TxDone` and `RxDone`, `chan_worker`'s handling of a timer event
`TxTimer` and `RxTimer` with the expiries before them. A request's
`msg_timer_on` is membership of `timed`: a ttl that is set may run out at the
next timer event, one that is not cannot, and an outstanding message has its ttl
set anew by progress (`txprog`, `rxprog`). With `SameBuffer`, the requests of a caller are in one
buffer, hence have one id, which is how the service calls it
(`mgmt/xmgmt-main-mailbox.c:768-801`). The registers are an external FIFO of one packet
in each direction; they may stop to answer at any time and answer again (`dead`: the
status register reads all ones): nothing is sent or received then, and a
write to them may be lost. `lost` is a history: the reset for a packet out of order
took another packet out of the FIFO. The peer runs the same driver, and is modelled by what its
packets look like from here: it sends the packets of a message in order, gives
up (`PeerExpire`) when the model says so, and may stop reading; it may take so
many packets between two looks of the TX worker that a message is sent on
`Again` times after it was complete.

**MgmtMain.** An image is the list of interface uuids in its device tree, the
first the region it goes into, the others those it makes room for. `regions` is
the list of `struct xmgmt_region` as a set, numbered in the order they were made, with,
of each, its uuid, the uuid it depends on, the image in it and whether its group is
there; a walk over the list takes the region with the least number first. The loaders (a process in
`XMGMT_IOCICAPDOWNLOAD_AXLF`, the peer through `bitstream_axlf_mailbox`) and `evt_work`'s
thread run the same code, `xmgmt_process_xclbin`; `pc` and the other functions of a worker are its
locals, and a step ends where it takes or drops `lock`, posts or waits for an event,
or could fail. `doomed` is the list of dependents that a clean-up collects and then destroys one
by one. `Program` needs `evt_work` to be idle, as the close of a
gate waits for it (`GateEvents`), and leaves an event of the opened gate for it. `evt_work`
makes the shell's regions without `lock`, which it does not take. What an allocation, a gate or
a group that fails does is a choice.

**MailboxService.** The threads are the listener of the mailbox leaf, with the
request it has, `evt_work`, a process at the attributes, a hot reset and a download.
The service's lock, the listener's, the main leaf's and the wait for `evt_work` are each taken
and released in a step. What the peer
asks is one of `Kinds`, told apart by what answering takes: nothing ("data", "probe"), the
main leaf's lock ("icap", "load"), a hot reset ("reset"), the test message.

**Flash.** A cell is what one transfer through the FIFO moves; a call of the
node or of a leaf is a loop over pages, and a page is the list `todo` of
commands to the chip: select, sector, write enable, erase, program, poll, read.
A cell holds who wrote it and the address it was meant for, so that a read of
the wrong place shows. A transaction may fail (`MaxFaults`), and the chip may or may not have
obeyed it. There are two chips with one cache of the sector register, and calls may run over the end of a
chip, which the code notices for the first chip only (`Clamp`). Two histories say
where the code goes wrong by itself: `stale`, the cached sector is not that of the chip in
use, and `astray`, the call moved data in that state or runs over a chip's end.

**Cmc.** `life` is how far probe has come, `mb` and `image` the controller and
what is in its memory; `sem`, `gen`, `taken` and `owner` are the packet mailbox:
its semaphore, its generation, and who may touch the registers. A writer's call is
the list `todo` of packets it sends in one hold; the controller takes a packet,
obeys it and answers. `upset` is the one thing that goes wrong in a behaviour: an
error, an answer after the driver gave up, a killed wait. `Acquire` stores
`mbx_generation` and tests it in one step (`lib/xleaf/cmc-sc.c:206`, 207); the store of
another thread in between is left out.

**Clocks.** `cfg0`, `cfg2` are the registers that hold the row of the table, `pll`
the row the clock runs at (they differ while a setting is under way), `ctr` the
owner of `clkfreq_lock`, `meas` what the counter saw. The table, the search and the
arithmetic of `get_freq` modulo 2^32 are those of the source. `get_freq` adds the fractions of
a row only if two bits of the registers say so (`lib/xleaf/clock.c:296`, 316), which no row of
the table sets: `Fractions` says whether the wizard reports them by itself, and the instance has one
that does not.

**Icap, Xclbin.** An xclbin is its length, its table of sections and what the
sections say. The operators of `Xclbin` are the functions of `lib/xclbin.c` with
their checks; a download writes words, each named by the call and the byte of the file it is
from, into a FIFO that the port drains at its pace, also after a wait timed out. The sums the
checks compare wrap, at 2^32 for the header and the bitstream (`mgmt/xrt-mgr.c:56`) and at 2^64
for a section (`lib/xclbin.c:41`); `Two32` and `Two64` are these bounds, small for TLC. A read beyond
a section's buffer gives some word.

**Leaves.** A metadata blob is the set of its endpoints. `Cut` is
`xrt_grp_cut_subdev_dtb` with `PutBack`; `GetRes`, `GetInstance`, `DeviceAdd` and their
failures are `xrt_subdev_pool_add` and `xrt_device_register`.

Definitions marked "Mutant of X" in the modules are not part of the model. Each
is a mistake that could be made in the code (an unlock too early, a test of the
wrong end of a list, a missing wake-up), and shows that the property it is
paired with in `PROJECT.json` is able to fail.

## 3. What is checked

Runs that pass, with the number of distinct states:

| Run | Instance | States | Shows |
|---|---|---|---|
| `pool_groups` | 2 children, 3 threads with one holder: one adds, two get and put, one removes | 71 k | counts exact, held children listed, no completion lost, removal ends, refinement of `PoolContract` |
| `pool_teardown` | 2 children, 4 threads, 2 holders, teardown and removal, waits can be killed | 3.3 M | teardown leaves nothing; a closing pool loses children newest first and never gains one |
| `devnode_access` | 3 processes, each opens twice | 6 k | exclusive is alone, counts exact, the node outlives its users, the driver's wait is always answered and removal ends, refinement of `NodeAccess` |
| `root_bringup` | 3 groups, two created by leaves of others, in vain or not; any leaf may fail | 575 | `bringup_pending_cnt` counts what is outstanding, the wait returns, when all is up |
| `root_teardown` | 4 groups, 2 downloads that may give up, unbinding at any time | 1.3 M | whoever is at a group finds it listed, also a remover that slept, unless a download overlaps the unbinding (`UsedIsListed`); nobody removes a group on which others depend, with the same exception (`DependentsFirst`); an unbinding that no download meets ends, and one that ends leaves nothing |
| `events_delivery` | 2 events, 3 children that join, any of which leaves | 113 k | every child present from posting to the end is called, but those older than a child that left while the walk had come to it (`EveryoneTold`); posters of synchronous events return after it |
| `gate_cycles` | a gate closed and opened twice beside the creation of another gate between downloads | 0.3 M | an open gate gives CMC its access in the end, a close ends |
| `mailbox_hw` | hardware channel, hardware that may stop to answer, one request or notification, a listener that may respond, a peer with 2 requests that may give up, responses that may be too big | 2.6 M | whoever waits is completed; the listener sleeps on no request |
| `mailbox_both` | both channels, 2 calls of one packet, responses of 3 packets, hardware that may stop to answer, a peer and a daemon that may stop, the peer in the middle of a message too | 0.3 M | what is delivered is the packets of one message, all of them, in order, unless a reset of the FIFO took one (`WholeMessages`); every call ends, unless it waits to be sent by hardware that does not answer (`CallsEnd`) |
| `download` | two parts: 2 downloads each by a process and by the peer, of a package for the shell's region or for one of its own, beside the shell's bringup, twice, and an unbinding; and the mailbox service with 2 requests of any kind beside the attributes, a hot reset, a download and an unbinding | 0.2 M | the regions are a tree, the cached image is the one that runs, no half of a download stays (`RegionsConsistent`); nothing is bound behind a gate that is reprogrammed (`NothingBehindGate`); downloads end; the test message is sent at most once and is not freed while in use, no callback after letting go (`ServiceSafe`); every request, reset and download ends while the driver stays (`RequestsServed`) |
| `leaf_drivers` | five parts: 2 calls on two flash chips, also over their ends, with one transaction that fails, obeyed or not; 2 writes of SC firmware by two threads with one mishap; 3 calls on the clocks, with frequencies at the edges of the table; 2 downloads into the ICAP of 16 xclbins that differ in one thing each, two of them with lengths whose sum wraps; two groups that make their leaves with three drivers, any of which may fail | 0.3 M | reads are true, writes are whole and stay in their pages, of calls that do not go astray (`FlashTrue`); SC firmware is written whole into an erased flash, and the board information follows it (`FirmwareSound`); the CMC's mailbox is let go of (`HoldEnds`); a clock that is read or verified is the one that was set, where `get_freq` reads its row right (`VerdictTrue`); the port takes the bitstream, in order, from inside the section and the file unless their lengths wrap (`BitstreamTrue`); each endpoint has one home, none is forgotten, instance numbers are exact (`LeavesExact`); making and removing leaves ends (`CreateEnds`) |

The run in which TLC finds a behaviour that a comment of the repository excludes:

| Run | Behaviour |
|---|---|
| `mailbox_dead` | a message that is taken off the queue when the hardware has stopped to answer has the ttl of its allocation, INT_MAX, and keeps it: it never times out (`lib/xleaf/mailbox.c:669`, 524-533, 1104), where lines 71-74 say it does within a second (`SendTimesOut`) |

Where the code does not keep a property in some case, the property itself names the case,
by a history variable or a condition on the state, and the case stays in the run: an
unbinding that overlaps a download (`met`), a walk whose child left (`CutShort`), hardware that
is stuck (`Stuck`), a packet lost to a reset (`lost`), a flash call that goes astray, a late or a
killed answer of the CMC (`upset`), lengths that wrap (`SumsWrap`), a row that is misread (`Misread`).

### What else the models show

The following are not runs. Each is a behaviour of the code, found while a
property or a bound was tried; the definition in parentheses is in the modules,
and TLC shows the behaviour with the change that is named.

In the infrastructure:

* `pool_fini` tests a child's holders and unlinks it without the lock; a
  client's get comes between and holds a destroyed child (`lib/subdev.c:502`;
  `HeldStaysListed` in `pool_teardown.cfg` with `Subdev = {d1}`, `Deleters = {}`,
  `Killable = FALSE`, `MaxDone = 2`).
* Two removals of one held child at once: the first frees what the second waits
  on (`lib/subdev.c:615`). No caller in the repository does this to a leaf, and the
  proofs about the pool name the assumption. A download and the unbinding do it to a
  group: `UsedIsListed` without `met` fails in `root_teardown`, and the step after
  it unlinks freed memory (`SingleFreed`).
* The cursor of a delivery is a child that was removed meanwhile: the delivery
  ends, and older children are not told (`lib/subdev.c:759`). This is the case
  that `EveryoneTold` leaves out, by `CutShort`; pools are torn down newest first, so
  it is met by any event that is delivered beside a teardown.
* A close waits for `evt_work` with `gate_lock` held, which a handler of another
  gate's creation wants in `evt_work` (`lib/xleaf/axigate.c:144`). Without
  `TopDestroyed` the two wait for each other for ever; the one caller of close keeps
  to it.
* The second loop over the endpoints of a device goes on without advancing at one
  that has no address range (`lib/subdev.c:192`), and never ends for a device with endpoints of both
  kinds. `GetRes` in `Leaves` has that as its guard, and `leaf_drivers` has no such device.
* The creation of the only pending group fails: its count is undone without
  completing `bringup_comp`, and probe waits for ever (`lib/xroot.c:165`; `WaitEnds`
  in `root_bringup.cfg` with `MaxGroups = 1`, `Spawners = {}`, `LeavesFail = {}`,
  `Failing = {"probe"}`). `Documentation/fpga/xrt.rst:185`
  has the driver "come online but with limited functionality".
* `bringup_failed_cnt` is never reset, so a leaf that failed at probe fails every
  later download (`lib/xroot.c:477`; `DownloadJudgedAlone` in `root_bringup.cfg`
  with `MaxGroups = 2`, `Spawners = {}`, `LeavesFail = {0, 1}`, `Downloads = 1`).
* `EarlyIoctl = TRUE`: probe and a download both wait on `bringup_comp`, a
  completion wakes one of them (`lib/xroot.c:435`, 476).
* The work meets a group whose leaves were just torn down, brings them up again
  and counts the group down a second time (`lib/xroot.c:423-436`,
  `lib/group.c:184-191`). The same happens after an early -ENOMEM in
  `lib/group.c:131`.
* An unbinding during a download: the walk for the newest dependent group
  (`lib/xroot.c:215-224`) and the removal are two steps, a group that comes to
  the list between them is torn down after its base. `met` remembers whether a
  download and the unbinding were ever both under way, and `DependentsFirst` is
  about behaviours in which they were not. And the unbinding, which has the lock of
  the group while it waits for the node's users (`lib/group.c:182`,
  `lib/cdev.c:44`), can meet an ioctl that waits for a bringup that waits for
  that lock. `RemoveEnds` makes the same exception.
* An open that is refused before `device_create` returned or after
  `device_destroy` prints through a null `xsp_sysdev` (`lib/cdev.c:62`, 174, 207).
* The range of instance numbers includes its end, the region of minors does not
  (`lib/lib-drv.c:150`, 157; `MinorsInRegion` in `Leaves`).
* `gate_cycles` without `OpenMeansGranted`'s "in the end": events are last in,
  first out (`lib/xroot.c:113`), so a synchronous PRE_GATE_CLOSE overtakes a
  pending POST_GATE_OPEN, and CMC is given access to a closed gate until the
  next event.

In the mailbox and its service:

* The daemon reads a request between the two looks of `chan_do_tx`, and is given
  it again (`lib/xleaf/mailbox.c:1127`, 1143; `ReadOnce` in `mailbox_both.cfg` with
  `SPECIFICATION Spec`, `Sws = {TRUE}`, `MaxCalls = 1`, `RxLen = 2`). With
  `Bigs = {TRUE}` and `PeerAsks = 1` besides, a response that is too big resets the software channel
  twice, lines 483 and 923, and what the daemon wrote in between is lost
  (`WriteReceived`).
* A message of the peer that times out half way: a start packet that meets an unfinished message resets the
  FIFO (`lib/xleaf/mailbox.c:966`, 479-488), which can hold the packet after it by then. The message
  that is put together lacks it, or has another's in its place, and is delivered as complete
  (`WholeMessages` without `lost`; line 54 says a "full message").
* Hardware that answers again after a message timed out has kept that message's packet: the next
  one waits behind it, and if nobody takes it, for ever (`Stuck`, in `CallsEnd`).
* A request whose sending fails when its response has begun to arrive is freed
  with the response's message, which the RX worker goes on filling
  (`ResponseHasWaiter` in `mailbox_hw.cfg`; `lib/xleaf/mailbox.c:1313-1333`).
* In `mailbox_both.cfg`, the second request of a caller has the id of the first one if it
  is in the same buffer, and takes a late answer to the first (`OwnResponse`;
  line 58 says "a unique temporary u64 ID").
* The service takes its own lock and then the listener's to let go of the mailbox
  leaf, a callback has the listener's and takes the service's: when the leaf is removed under a request the two can wait
  for each other (`mgmt/xmgmt-main-mailbox.c:109`, 704; `LeafLetGo`). `RequestsServed` asks
  nothing once the driver is leaving.
* The peer is told that the driver is online when it has finished attaching
  (`mgmt/xmgmt-main.c:549`), but the mailbox leaf may not have been taken yet, and then nothing is sent
  (`OnlineIsSent`).

In the main leaf and the other leaves:

* The flash goes and comes back while devctl is there: the shell's group is
  created a second time, which the source's WARN_ON excludes (`mgmt/xmgmt-main.c:503`; `ShellOnce`).
* One `qspi_curr_sector` serves all chips (`lib/xleaf/qspi.c:539`): the cache
  filled for one chip is believed of the other, and a read or write is of the wrong sector
  (`ReadTrue`, `WriteTrue` and `OnlyItsPages` without `stale` and `astray`). A transaction that fails after
  the chip has obeyed it does the same to one chip. And a chip may stay selected after a failure,
  where line 458 says that it is always reset (`Deselected`).
* The clamp of a call's length to the flash subtracts the offset from the size of one chip
  (`lib/xleaf/qspi.c:800-811`), and wraps for the second: a call may run over its end (`Clamp`).
* A thread whose write of SC firmware failed clears `sc_fw_erased` after it released the mailbox, under
  the write of another (`lib/xleaf/cmc-sc.c:240`; `ErasedKnown`, after the WARN_ONs). A thread killed
  while it waits stores a negative `mbx_generation`, the release is then taken
  for a stale one and the mailbox is never free again (`HoldEnds` leaves it
  out); an answer that comes after its packet was given up is taken for the next one's
  (`WrittenErased` and `SectionsWhole` leave it out).
* When the CMC's resources or its controller fail at probe, `cmc_remove` runs on parts that
  were never made (`lib/xleaf/cmc.c:160`); and `cmc_sc_open` uses what
  an exclusive open returned although it may be NULL, when it was refused.
* `get_freq` reads the fraction of a row only when bit 26 of one register and bit 18 of the
  other are set (`lib/xleaf/clock.c:296`, 316). No row of the table sets them, so that a wizard that gives back what
  was written has 10 MHz read as 9 and 335 as 400. With the bits, 645 MHz still overflows the 32-bit
  product of `get_freq`, and the search gives 650 MHz the row before its own
  (line 223). `Misread` computes these frequencies, and the properties of `Clocks` say what holds of them. The
  frequency from an xclbin is swapped to big-endian twice, which is right on a
  little-endian host only (`lib/xclbin.c:314`, `lib/xleaf/clock.c:508`).
* The sum of a bitstream's header and length is taken in 32 bits
  (`mgmt/xrt-mgr.c:56`), that of a section's offset and size in 64 (`lib/xclbin.c:41`). Lengths whose sum wraps
  pass the check, and words from beyond the section go to the ICAP (`FromTheBitstream` without `SumsWrap`).
* A group takes the first endpoint of a driver's entry and goes on after one that could not be copied
  (`lib/group.c:73-79`): an entry that matches endpoints of both kinds leaves its leaf out without an error. `LeavesAssumption` excludes
  such entries; `Broken` has an endpoint that nobody can copy.
* After the creation of a leaf that is neither SRSR nor UCS, the calibration's
  result is set from an uninitialized `ret` (`lib/xleaf/ddr_calibration.c:183`; a choice in `Clocks`).
* Seen while reading, outside the models: the cache entry of a fast calibration never gets
  the name it is looked up by; `lib/xleaf/srsr.c:194` takes a lock where it should release it;
  the firewall's unblock returns with its lock held when a register access fails
  (`lib/xleaf/pcie-firewall.c:72`).

### Bounds

Two children are enough for the pool's order and the walk past a child, two
clients and one holder for a shared kref, and a second holder for a holder list
that is not empty after one leaves; `MaxDone` bounds how often a thread repeats
a call. Three processes make an exclusive user, a shared one and one that comes
late. Four groups are probe's, one of a leaf and two of downloads, of which the
second destroys what the first created. Two events show overtaking and three
children a cursor with one on either side. Two cycles of the gate let an open's
event be pending at the next close; `Cycles`, `Gates` fix how many events there
can be.

In the mailbox two packets are a start and an end, three add one in between
that can be lost without being the first or last. A request of a caller meets a notification of
the listener and two requests of the peer, of which the second finds the list
full (`MaxQueue = 1`). Two calls let the first one's late response meet the
second. `mailbox_both` has calls of one packet and answers that fit, so that both channels, hardware that
stops to answer, and a peer that gives up fit in one run; `mailbox_hw` has the rest.

In `download`, the shell has one region, `plp` fills it and makes room for two,
`ulp1` fills one of these: the tree has two levels, and a clean-up of the first
meets images in the second. Two downloads of each loader let each undo what the
other did; six regions are what they can create before the tree is complete again
(`MaxRegions`). Two requests with `MaxTests = 1` and `MaxCalls = 1` let every kind
meet every other thread, and a second request follow a reset.

In `leaf_drivers`, a chip has two sectors of two pages of two cells, so that a
call starts in a page's middle and crosses a sector; `Large` and `Huge` are the
erase units. There are two chips, and two calls: the second meets the cache of the first. Two writers with two writes are enough for one to fail under the
other. The frequencies are those at both ends and in the middle of the table,
between rows, and beyond, with rows whose fraction matters and rows without one. The FIFO of 5 words, 3 of which the IDCODE takes, is
filled and drained several times by a bitstream of two buffers. `Two32` is 256, above the sums of
the files that are right and below that of the one which wraps; the same of `Two64`, 1024. `MaxNodes = 1`
makes two groups compete for instance numbers.

### Fairness

* Work items and the code in a call run on: weak fairness of every step that
  does not begin a call. In `MgmtMain` these are `Process` and `DownloadDone` of each
  loader and `Handle`; in the service `Work`, `Serve`, the resets, the end of a download
  and of an attribute's read, and the listener, which takes a request or drops it; in
  `Cmc` a writer's steps, the refresh, and the controller, which takes and answers
  packets; in `Leaves` the work of each group.
* A mutex is handed to each waiter in time: strong fairness of the steps that
  acquire one (a kernel mutex does not starve a waiter for ever).
* Clients put what they got: strong fairness of `PutCall` of each client. That
  is the rule the code states for holders, and removal can not end without it.
* A process closes its file (at the latest at exit): weak fairness of `Close`.
* The mailbox's workers and listener run, and its timer fires: a message whose
  ttl is set and which makes no progress expires in the end (strong fairness of
  `TxExpire`, `RxExpire`, `RxExpireCur`: progress and the look at the timer alternate). The peer and
  the daemon need not do anything, and hardware that stopped to answer need not start again.
* A remover goes on, but nothing is assumed about one that uses freed memory (`SingleFreed` in
  `RootGroups`).
* Nobody has to call, open, download, unbind or be killed.

Deadlock is not checked where the system stops for good: all calls are made,
the driver is gone.

## 4. What is proved

`tlapm` checks these for every set of threads, children, groups, events, files,
callers and holders, and every bound. TLC checks the inductive invariants too,
on the instances of section 3 or smaller ones, before they are proved.

**SubdevPoolProofs, a pool in use.** `TypeCorrect` needs nothing but the types of the
constants. The others assume `Orderly`: no teardown (with one beside, a get can
hold what is destroyed, see above), no killed waits, at most one remover. They follow from the
inductive invariant

    PoolInv == TypeOK /\ HeldStaysListed /\ KrefExact /\ PoolLockOwned
            /\ AwaitedStaysListed /\ NoLostWakeup
            /\ ListExact /\ AddingPrivate /\ FreshUnheld /\ CallsInOrder

The last four are the strengthening: the list names each listed child once, a
child in creation is known to its creator only and has no holders, and a client
gets what it does not owe and puts what it owes. Without `KrefExact` a put could be the last
one while another client still counts on the holder, and `HeldStaysListed` is
not inductive; `AwaitedStaysListed` needs the single remover. `HeldNeverRemoved`, `CountsExact`, `WakeupNeverLost`
and `Implementation` (the refinement of `PoolContract`) are its consequences.

**SubdevPoolProofs, teardown.** Killed waits and any number of holders are allowed; the
assumption is `OneRemover`, that one thread removes children or tears the pool
down. The inductive invariant is

    TeardownInv == ListExact /\ AddingPrivate /\ UnlinkedInHand
                /\ ClosedByFini /\ FiniAtNewest

An unlinked child is in the hands of the thread that unlinked it; a pool is closed
from its teardown on, and what is listed then is being torn down; and the teardown
works on the newest child, which stays the newest while it waits, because nobody
adds to a closed pool and nobody else removes. `TeardownLeavesNothing` and
`TeardownNewestFirst` follow.

**DevNodeProofs.** `NodeInv` joins the count of users, the exclusive flag
(set exactly when its one user is there), that the node is online exactly when
the driver is in its phase of use, that the node is there while anybody uses it,
and the wake-up of the waiting driver. `RefAlwaysExact`, `ExclusiveUse`,
`NodeStays`, `CloseNeverLost` and `Implementation` (of `NodeAccess`) follow.
No assumption beyond a finite set of files.

**RootGroupsProofs.** The lemma `HeldGroupsStay` (a group somebody holds is listed) needs
no assumptions and serves the proofs below. The proofs about bringup assume `AtBringup`: nobody downloads or
unbinds, and no group's bringup fails for memory; otherwise the count is not kept up, as
section 3 shows. Leaves may fail and create groups, in vain or not.

    BringupInv == Shape /\ WorkAtGroup /\ RoomLeft /\ ProbeFirst
               /\ CompletedUp /\ PendingExact

`Shape` says who can act at all, `WorkAtGroup` that the work is at a listed group which
has its leaves just when they were created, `RoomLeft` that there is a number for
each group that is still to come, `ProbeFirst` that leaves create groups only after the
probe did, and `CompletedUp` that when bringup is completed nothing is outstanding. The last is
what `WaitSeesAllUp` needs (`WaitMeansUp`: a wait that ends means that all is up), and
`PendingAlwaysExact` is the last conjunct.

**RootUnbindProofs.** `UnbindLeavesNothing`: for any number of groups, downloads and
creations by leaves, and an unbinding whenever it likes, `xroot_remove` ends with no
group, no leaf, no hold, no work and no user of the device node left
(`RemoveLeavesNothing`). Such an unbinding need not end: when a download overlaps it the two may
remove one group, and the model stops where freed memory is used. `UsedGroupsListed` is about the way
there: whoever works at a group, or is removing it, finds it listed, but a remover of an
overlap that has slept. Both assume `MainSafe`, that the bringup of the group with the
main leaf does not run out of memory; without it that leaf is never there to take its
node away, a history the invariant does not describe.

    UnbindInv == Types /\ Places /\ NumbersLeft /\ ReleaseAtTarget /\ HoldExact
              /\ LeavesListed /\ FirstFresh /\ FirstStays /\ ProcessGone
              /\ UnbindingDone

The argument: `HoldExact` says who holds each group, the work that is at it or a thread that
destroys it or others on the way to it, so that with `HeldGroupsStay` whoever is at a
group finds it listed. `FirstFresh` and `FirstStays` follow the group of the main leaf:
nobody destroys anything until it has its leaves, downloads never destroy it (the
newest group is above the one they are after), and the unbinding, which begins with
the oldest group, is after no other. `ProcessGone` is why the end is one: when the
unbinding is past that group, its node was taken away, which waited for the process,
and no process comes back; so `UnbindingDone`, the flushed work stays flushed, since
nobody is left to queue it. `NumbersLeft` (a number for each group still to come)
keeps the added groups distinct from those listed.

`DependentsGoFirst`, from the same invariant: groups are torn down newest first unless a download
and the unbinding overlap (`DependentsFirst`), early downloads included. Two steps lead
there. `TeardownInOrder` is about behaviours in which leaves have created their groups
before any is destroyed (`CreatedBefore`): what destroys a group has found it the newest
(`Apart`), and nobody is left to add another. That the premise holds when only leaves of
the main group create groups (`MainSpawns`) is `SpawnInv`: until the work has been through
that group no wait for bringup can end (`FirstPass`), a download has waited before it destroys
(`Waited`), and from then on the group is not brought up again (`MainDone`). This
needs no count of pending bringups, which is not exact once groups are destroyed. A leaf that
creates a group later, xmgmt-main for the shell when VSEC's group comes up, is covered by
`TeardownInOrder`; a group of a download that had such a leaf would not be, since that count
can let its wait end early.

**RootEventsProofs.** `ToldWhileListed`: whoever was listed when an event was
posted, and still is when it has been handled, has been called, whatever joins and whoever
leaves meanwhile, unless it is older than a child the walk had come to and that left
(`CutShort`). There is no assumption about who leaves. The invariant's core is `WalkOwes`: the
walk is at the last child it called, and those to whom it owes the event are older than that
child, or it is being called. `MaxMember`, that the newest of some children is one
of them, is proved from the well-foundedness of strict inclusion on finite sets.

**MailboxProofs.** For any number of callers, message lengths and bounds, with
timeouts, giving up, stopping and hardware that does not answer, and no assumption but that the "no message" of the
model is none (`NoMsgAssumption`):

    MailboxInv == TxOwned /\ RxOwned /\ FillsCall /\ StoppedIdle
               /\ NoRequestStranded

A message that is to be sent is on the queue or with the worker until it is
completed, and its caller stays with it (`TxOwned`); a request that has no answer
is on the queue or being filled until its caller gives up (`RxOwned`); the
response being filled is that of a call that was made (`FillsCall`), as two calls of one
caller are told apart by their number only; and a mailbox is stopped when nobody calls it.
`CompletionsKept`, `RequestsHeard` and `QueuesAlwaysOwned` (a message is on one queue at most, and belongs
to a caller that waits for it) follow.

**MgmtMainProofs, regions and downloads.** `RegionsStayConsistent` and
`GateClosesOnNothing` (the property `NothingBehindGate`) hold for any number of requests,
loaders, packages and valid images. They assume `TwoLevels`, that the packages make two
levels of regions, the shell's and those beside them, as the platforms have: a clean-up
collects the regions that depend on the one it empties, and not those that depend on
them in turn, so that a third level would be left behind. The inductive invariant is

    MainInv == TypeOK /\ RegionsTree /\ Evented /\ Cached
            /\ \A t \in Loader : Loading(t)

`RegionsTree` says that ids name regions and that a region is younger than the one it
depends on; `Loading` follows a download through `xmgmt_process_xclbin`: which region it is at, that
the region has lost image and group when the FPGA is programmed, and, through `ExactlyBelow`,
that what a clean-up still has to destroy is exactly what depends on the region. That is
why nothing is behind the gate when it closes. `Cached` is why a download that is
repeated may be skipped: nobody is at work while the image of the last one is remembered, and
its region has it. `Evented` is the same for `evt_work`, which makes the shell's regions and
takes all regions down.

**MgmtMainProofs, the mailbox service.** `ServiceStaysSafe`, for any number of test
messages and threads, rests on

    ServiceInv == MessageTypes /\ ListenerLocked /\ MessagesApart

A test message is with nobody, is set, or is with the listener, and one that is freed is neither
set nor with the listener; the listener runs under the lock its callback is set under.

**LeafDriversProofs, the CMC.** `FirmwareStaysSound`, for any threads, packets and calls,
with errors, killed writers and late answers, of which the last void what is said of the SC's flash
but not of the board information and of the controller's own firmware:

    CmcInv == CmcTypes /\ LifeInOrder /\ OneHolder
           /\ (upset # "late" => SlotServesHolder /\ FlashKnown) /\ InfoKept

One thread at most has the packet mailbox, and what it still has to send is the rest of
what it planned; the packet in the slot, or the last answer, is the one the holder waits for;
`FlashKnown` says what is known of the SC's flash from what was answered, `InfoKept`
that the board information is read again before it is used after a boot. An answer that is late
breaks what is known of the slot, which is why those two stand under `upset # "late"`, as the
property does.

**LeafDriversProofs, the bitstream.** `BitstreamStaysTrue`, for any files, sizes of the
buffer and of the FIFO, where the words are from inside the section unless the file's lengths wrap (`SumsWrap`):

    IcapInv == DownloadInOrder /\ IcapTypes /\ Feed

`Feed` says that there is a position such that the words before it are in the FPGA and those
from it on, up to what was written, in the FIFO, which has room for them, and what
a download that timed out left in the FIFO comes first. The arithmetic of words and buffers
is in four lemmas. What the clocks get is a fold over the file's topology; that it is right
of each file is the theorem's hypothesis (`ClocksAsNamed`), which TLC evaluates.

**LeafDriversProofs, the leaves.** `LeavesStayExact`, for any groups, metadata and
descriptors; `LeavesAssumption` says that a descriptor's entries match different
endpoints, as those of all drivers do, and that all endpoints of an entry can be copied, or none:
with an entry that has both kinds the code forgets a leaf (section 3).

    LeavesInv == LeavesTypes /\ Numbers /\ \A g \in Group : Homes(g) /\ Tried(g)

`Numbers` is `InstancesExact` with what makes it inductive: no number of a driver is used
twice, by devices or by groups that register one, and a group's leaves are its
devices on the bus. `Homes` keeps the endpoints left, in hand, given up and in each leaf
apart. `Tried` is `NoLeafForgotten` on the way: no descriptor the group is past could still be filled,
since a blob only gets smaller (`FillsLess`). It rests on `CutResult`: a cut that gives nothing
found too little. The cut is a recursive function, whose equation (`CutUnfolds`) and results
(`CutParts`, `CutCounts`) are proved with `SetInduction`, induction over the naturals as a fact
about a set, which follows from the well-foundedness of strict inclusion.

**LeafDriversProofs, the clocks.** `ClocksStayTrue`, for any calls of those who set,
read and count:

    ClocksInv == ClocksTypes /\ LocksHeld /\ RowsWritten /\ ReadHolds

Both registers hold the row of what was asked for, but while they are written
(`RowsWritten`), and what a holder of `clock_lock` read, and what was counted for it, is
of now (`ReadHolds`), since nobody sets the clock until it lets go. What is read is then the row
that was written, and the verdict is about it, except at the frequencies of `Misread`, whose row `get_freq` does not
read as what it is. That the table has a row for each frequency is the hypothesis (`TableTrue`), which TLC
evaluates on the source's table.

**Only model-checked:** everything under fairness (`DelTerminates`,
`DestroyEnds`, `WaitEnds`, `RemoveEnds`, `EventsHandled`, `CloseEnds`,
`OpenMeansGranted`, `CallsEnd`, `DownloadsEnd`, `RequestsServed`, `HoldEnds`,
`CreateEnds`), which the provers do not reach; `WholeMessages` of `Mailbox`; and `FlashTrue`
of `Flash`.

## 5. Not modelled, and what is left

Registers, PCI configuration space, sysfs text, and the parsing of firmware are
I/O and appear as choices of their outcome. libfdt is vendored, the self tests
are a test driver. Left out are, of the components that are modelled in part,

* of the mailbox, test packets and messages, the attribute files, poll, message
  lengths below a packet, a failing allocation of a software message, a status register that goes dead in
  the middle of a packet, and a device reset that empties the FIFOs; the
  three event callbacks of the poll timer are one;
* of the gates, their order by name: which handler opens which gate is a choice;
* of the CMC, the sensors, which read registers and keep nothing;
* of the calibration, the fast one with SRSR, which the missing name makes
  unreachable;
* of the management driver, what a hot reset saves and restores in PCI
  configuration space; VSEC's table and devctl's ROM are values;
* of the bus, the minors of device nodes;
* of the flash, the words in the controller's FIFO and the probe's checks of the
  chips; of the metadata, how a device tree is encoded.

What would add most from here:

1. a download in `MgmtMain` composed with `RootGroups`' destruction and bringup instead
   of the step that stands for them, with a leaf that fails;
2. the mailbox's peer as a second `Mailbox`, in place of the sender of packets;
3. proofs: `WholeMessages` of `Mailbox`, `FlashTrue` of `Flash`.
