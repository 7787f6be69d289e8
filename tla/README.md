# MVS-Xinu TCP/IP: a TLA+ model

MVS-Xinu (mvs38j-ip) is a port of the Xinu kernel and of its Internet protocols to one task of
MVS 3.8j, with a pair of channel-to-channel (CTC) devices as its network interface. This directory
holds TLA+ modules for its parts, TLC configurations that check them on small instances, and TLAPS
proofs about the kernel, the CTC driver, IP reassembly, routing, UDP, ARP and IP output, the fast
timers, the sleep list, host groups, the heap and start-up.
Paths below are relative to `src/src/`; `arch/s370/` is written `s370/`.

## 1. Inventory

The program is many Xinu processes in one MVS task. `SCHED_NO_PREEMPT` is defined and
`disable/restore` and `memlock` generate nothing, so a process keeps the CPU until it calls `resched()`
itself, directly or in `wait`, `signal`, `send`, `sreset`, `suspend`, `sleep10`, ... Two things run
asynchronously: the STIMER exit `MVSTMPOP` and the channel-end appendage. The checked-in
configuration (`h/conf.h`) starts IP, ARP and UDP; TCP, RIP and `slowtimer` are compiled or kept in the
tree but not started. They are modelled all the same: the code is the program's, and what it would do
when switched on is what nobody has tested.

| Part | State | Operations | Hard behaviour | What makes it correct |
|---|---|---|---|---|
| process manager `s370/process`, `s370/queue` | `proctab[]`, ready list, `q[]`, `currpid`, `numproc` | create, ready, resched, suspend, resume, chprio, killpid, userret, nulluser | kill in any state; order among equals; quantum | a process is on exactly the list its state names; the highest priority runs; equals in turn |
| semaphores `s370/sem` | `semaph[]`, queues | screate, wait, signal, signaln, sreset, sdelete | kill and reset of waiters; loops that ready many | count and queue agree; first in, first out |
| messages `s370/memory/send.c` ... | `pmsg`, `phasmsg` | send, sendf, receive, recvclr, recvtim | message against timeout | receive finds a message; none is left beside a waiting receiver |
| clock `s370/clock`, `mvsclkinit.asm` | delta list, `sltop`, `slnempty` | sleep10, recvtim, wakeup, unsleep, MVSTMPOP | the exit interrupts between any two stores | nobody wakes early, everybody wakes |
| CTC driver `s370/ctc`, `iohook` | `ctreadstat`, `ctwritestat`, device semaphores, pools | ctci_ioread/read, ctci_iowrite/write, channel ends | suspend against wake-up; device released inside a call; ring and pool limits | no frame or buffer lost, in order, no sleeping with work |
| buffer pools, heap `s370/memory` | `bptab[]`, free list | getbuf, freebuf, mkpool, getmem, freemem | getbuf blocks with locks held | a buffer has one owner |
| ports `s370/memory/p*.c` | `ports[]`, nodes | pcreate, psend, preceive, preset, pdelete | clear and delete under a blocked sender; node limit | semaphores agree with the queue |
| gpq `s370/queue/gpq.c` | `Q[]` | newq, enq, deq, seeq, freeq | test before lock | bounds, key order |
| network input `net`, `ip/ip_in.c`, `ip/ipproc.c` | `nif[]` input queues | netproc, ni_in, ip_in, ipgetp, ipproc | message and queue together | no packet waits while ipproc sleeps |
| ARP `arp`, `net/netwrite.c` | `arptable[]`, queues of packets | arpfind, arpalloc, arpsend, arp_in, arptimer | yield between look-up and enqueue | a queued packet is sent or freed |
| IP fragments `ip/ipf*.c`, `ip/ipreass.c` | `ipfqt[]`, `ipfmutex` | ipreass, ipfadd, ipfjoin, ipfcons, ipftimer | loss, duplication, order, time-out, large pool | delivered = cut; nothing leaks; the table drains |
| UDP, datagram devices `udp`, `dgram` | `upqs[]`, `dgtab[]`, `udpmutex` | udp_in, dgmopen, dgread, dgwrite, dgcntl, dgclose | open/close/clear against input; timed read | a datagram reaches the device that has its port |
| routing `route` | `rttable[]`, reference counts | rtadd, rtdel, rtget, rtfree, rttimer | use after delete | a route in use is not freed; most specific first |
| ICMP, IGMP `igmp` | host groups, delay timers | icmp, icmp_in, hgjoin, hgleave, igmp_in, igmp_update | buffer reuse; a timer message for a group left meanwhile | one owner of each buffer; references count the joins |
| RIP `rip` | routes to announce, `riplock`, ripout's message | ripin, riprecv, riprepl, ripout, ripsend | messages dropped while one is pending | every change is announced |
| TCP `tcp`, `tcpd` | `tcbtab[]`, timer delta list, listen queues | tcp_in, tcpout, tcptimer, device calls | block found, lock, deallocation; lost events | no block used after it is freed; data in order |
| start-up `s370/kernel`, `s370/mvs`, `s370/device` | SGD, XGD, `Config`, `devtab[]`, chain of CTC halves | sysinit, xconfig, xdevinit, ctci_init, IGG019X8, xdone, panic | a job dies and the next finds what it left; statics of the parser | the SGD never points to freed storage; the file means what it says |
| console, display commands, configuration program, applications | - | - | - | not modelled (section 8) |

Interaction: the driver hands frames to `netproc` (`read`), which queues IP packets per interface and
sends `ipproc` a message; `ipproc` reassembles and calls `udp_in`, which queues on a port and sends a
message to a timed reader; output goes down by calls, `udpsend`, `ipsend`, `netwrite`, `ctci_write`.
All of it shares the pools of network buffers, and all of it blocks and yields in the kernel.

The hazards of each part, at their lines, are in `PROJECT.json`.

## 2. Modules

| Module | Models | Checked by |
|---|---|---|
| `Kernel` | process table, lists, semaphores, messages, sleep list, scheduler | `MCKernel` |
| `QueueFacts` | lemmas about queues, and about sequences as lists of a set | |
| `KernelProof` | the proofs about `Kernel`: lists and counts; priorities, messages, order of release | |
| `CtcReadProof`, `CtcWriteProof`, `UdpDgramProof`, `NetIoProof` | the proofs about the module each is named after | |
| `IpProof` | the proofs about `IpReass` and `RtRip`, with the refinement of `RouteMap` | |
| `TablesProof` | the proofs about `TcpTimer`, `Heap`, `Startup` and `Igmp`, of which `MCTables` checks instances | |
| `SleepQueue` | delta list and timer exit, load by load and store by store | `MCTables` |
| `CtcRead`, `CtcWrite` | the two halves of the CTC driver | `MCCtcRead`, `MCCtcWrite` |
| `IpReass` | fragmentation, reassembly and its timer | `MCIpReass` |
| `UdpDgram` | UDP input, datagram devices, ports | `MCUdpDgram` |
| `NetIo` | netstart, netproc, ipproc, slowtimer, IP output, ARP | `MCNetIo` |
| `TcpBlock`, `Tcp` | control block and state routines; the processes around them | `MCTcp` |
| `TcpTimer` | the delta list of fast timers, tcptimer and its clients | `MCTables` |
| `RtRip` | routing table, RIP, ICMP redirects | `MCTables` |
| `RouteMap` | what the routing table promises: the abstract specification `RtRip` implements | `MCTables` |
| `Igmp` | host groups | `MCTables` |
| `Heap` | free list and buffer pools | `MCTables` |
| `Startup` | a job from `sysinit()` to its end, configuration file, devices | `MCTables` |

**Kernel.** `pstate`, `pprio`, `psem`, `pmsg`, `phasmsg` are the columns of `proctab[]`; `sstate`,
`semcnt`, `semq` of `semaph[]`; `rdyq`, `clockq` the lists of `q[]`, with `qkey`. Each kernel call
is one action up to its `resched()`; `kpc` is where the current process stands, the loops of
`signaln`, `sreset`, `sdelete` and `insertd` take a step per iteration. What a call does after it
gets the CPU back is `cont`. `wakeup()` is part of `resched()`, as in the source. `NullDisp` is the
process that runs when no other does; `NULLPROC` the entry MVS started us in. A killed or
ended process stays `PRDEAD` (`MVS_PROC_KEEP_FINI`) when it was the current one, and its entry is
not used again.

**SleepQueue** has the same list, but the exit may interrupt anywhere: every load or store of
`slnempty`, `sltop` or a `qkey` is a step. `left` is a history variable, the pops a sleeper is still
owed. `MaxRaces` bounds the pops in the middle of operations.

**CtcRead, CtcWrite** model the driver processes, a reader or several senders, `iohook()` inside
`resched()` and the appendage that posts a completed I/O. Scheduling is cooperative and the driver's
priority (300) above the others (100), as the code has it. Frames are numbers in order of arrival.
`SegStep` is what `pseg += pseg->seglen` amounts to, in segments, when all have one length: six.
A frame that is longer than netproc's buffer (`TooLong`) is refused by `ctci_read` and stays in its slot;
netproc, the only reader, ends at that (`netproc.c:42`), so `FramesReturned` is until then. On the
write side `ctwfresh` waits in `getbuf` without the device when the pool is empty, and goes on
with what it finds afterwards; `dry` is the history variable that remembers the first such wait.

**IpReass**: a peer cuts each datagram (`Fragments`, as `ipputp` does), the network delivers any
fragment any number of times in any order or never, `ipproc` runs `ipreass`, `slowtimer` runs
`ipftimer`, both under `ipfmutex` (a queue whose head holds it). Payload is in units of 8 octets.
`seen` is the position `seeq()` keeps in a queue between calls.

**UdpDgram**: `ipproc` in `udp_in()`/`psend()` (`ipc`), and the applications in the calls of the
datagram devices (`apc`). Steps end where the code can lose the CPU, so the mutex released between
port check and `upalloc()`, the reset of a port without the mutex, and the clearing of `up_pid`
after `send()` are seen as they are. A Xinu port lives and dies with its entry of `upqs[]` in one
hold of `udpmutex` and is named by it. Destination port 0, which matches free entries
because `udp_in()` does not look at `up_valid`, is not among the inputs.

**NetIo**: the process that runs `netstart()`, `netproc`, `ipproc` and `slowtimer`, one CTC interface
and the ARP cache. `pc` says where each process is; a step goes from one place where another process
can get the CPU to the next, and `cpu` names a process that goes on without such a place. A packet is
the address of its next hop; what `ipproc` finds in it is chosen when it is taken from the input queue.
`getbuf` waits (`waits`, first come first served) when the pool is empty. `inuse` counts the buffers that
were given out and not freed. The code frees neither what it has written to the device nor what
`netwrite` forgets, with the queue of a reused entry or for a class D next hop: these stay in `inuse` for
ever, and `spent` and `lost` count them. `held` are the buffers a protocol keeps. `arpdq` frees a
queue packet by packet and may lose the CPU between two; `arpqsend` and `netwrite` take from and add to
the queue of one entry.

**TcpBlock, Tcp**: an operator of `TcpBlock` takes the control block a routine is called with and
gives the block it leaves, with the events and answers it asks for (`kick`, `re`). `Tcp` adds `tcpinp`
and `tcpout` (priority 100, above the applications), timers, the device calls of two applications and
an honest peer whose segments are lost, repeated, overlapping, early or late, and who may reset or
start anew. Sequence numbers count from 0 and a byte of the peer is its sequence number, so that
`TcpStream` sees which byte lies where. Left out: the wrap of sequence numbers, urgent data and PSH of
the peer, durations of timers (one may run out at any moment, at any yield of the others) and round
trip estimation, checksums, statistics. Of `tcpcntl`, TCPC_SENDURG is left out with urgent data, and
calls of the wrong type are the same as TCPC_STATUS, which only reads. `reused` is a history variable:
a block was given out again while a process was still in a call on it. `CloseAlone`: no other process
uses the device that is closed; `Crossing` (a SYN that crosses ours) is off. The congestion window is
cut off at what the send buffer can fill.

**TcpTimer**: the delta list under `tqmutex`, the process that serves it, `tmset`/`tmclear` of two
clients, and the port expired timers go to. `tmDue` is the history variable the deltas are compared
with. In `Tcp` and `Igmp` a timer is just pending; here its time is kept.

**RtRip**: a call is the list of table operations it still has to do; each is one critical section of
`ri_mutex` and the CPU may be lost between two. Addresses have `RtW` bits, a mask is its number of one
bits; the broadcast address has a host part of ones (`BSDBRC` is 0 in `conf.h`). `RtImplements` is the
refinement: under the map `map <- routes of the chains`, `got <- networks of the routes held`, `asked
<- pending rtget`, every step of hash chains, buffers and reference counts is a step of `RouteMap` or
stutters, so `rtget` answers with the longest match for the address it was asked for, a route only
yields to its own gateway or to a better metric, and ageing never adds life.

**Igmp**: two applications, `ipproc` and `igmp_update` under `hi_mutex`; `hgTimer` holds the timers
that run, `hgPort` the messages of those that have run out.

**Heap**: addresses and lengths in words; the free list in address order, first fit from the low end,
`freemem` with its refusals, stacks from the high end, pools with their chain and semaphore. A process
can lose the CPU between `wait(bpsem)` and the chain, and between the chain and `signal`.

**Startup**: `sgd` and `xgds` survive a job, everything else is private to it, so that a job that
abends, is killed or leaves through `shutxinu` leaves behind what the code leaves behind. The lines of
the configuration file are sequences of tokens; `suParse` has the statics of `xfig_iface`. `devtab`,
`xdevinit` and `ctci_init` build the chain that `iohook()` and IGG019X8 walk; a unit that no device of
the chain has abends the job, as `BUGDIE` does.

**MCTables** checks the six modules whose components share no state in one state space: `part` chooses
one and only that one moves. This is a sum, not a product, and every property is about one part.

Mutants (operators commented "Mutant of ..." or "Mutant: ...") stand before the definition they vary:
each is a plausible error in that code, and the property it is listed with in `PROJECT.json` catches it.

## 3. Runs that pass

| Run | Shows | Bounds, and why they are enough |
|---|---|---|
| `kernel_ipc` | every process is on the list its state names; counts and queues agree; `receive()` never returns without a message and none is left beside a waiting receiver; waiters join their queue at its end and leave it from its front | 3 user processes, 1 semaphore: a holder and two waiters, with kill, reset, delete, suspend and messages in every order; one priority, for this run is about lists, not order |
| `kernel_scheduling` | the ready list is sorted by current priorities and nobody runs while a higher priority is ready; sleepers wake, ready processes run | 2 user processes beside the null process and `NullDisp`, priorities 0, 1, 2, a quantum of 1, sleeps up to 2, a late `resched()`: equals, zero, an expired quantum and a timed receive all occur |
| `ctc_read` | no "logic error" panic, no buffer lost, order, every channel end noticed and its first frame returned, unless netproc ended at a frame it was refused | the code's 3 buffers, buffers of one and of seven segments, I/O errors, frames too long for the caller; enough frames to wrap the ring |
| `ctc_write` | until `ctwfresh` first meets an empty pool: order, each buffer in one place, every frame written or dropped after an I/O error | 2 senders, the code's 3 buffers, of one frame each, 5 frames: the pool runs dry, which the run `ctc_write_dry` is about; in behaviours where it does not, buffers are reused |
| `ip_reass` | no buffer lost or freed twice; delivered = cut; joined by the completing fragment; the table drains | datagrams of three, two and one fragment and one too big, 3 slots with queues of 3, 1 large buffer, 5 arrivals: duplicates overflow a queue, the table fills, the large pool runs dry |
| `udp_dgram` | buffers in one place; datagrams at the owner of their port; timed readers are told; `udp_in()` returns | 2 processes, 2 devices, ports of one datagram, one node for all ports (the code's proportion: both are 50), 2 buffers: `psend()` blocks, is reset under, and panics |
| `net_io` | every buffer the pool gave out is in one place, or counted as written or forgotten, through ARP queues, fragments and forwarding; no packet waits unseen | 2 ARP entries for two next hops and a third address that asks, so entries are reused under waiting packets; queues of one, an input queue of one, one retry, 6 buffers: written ones do not come back, so the pool runs dry and processes wait; every start-up configuration |
| `tcp` | readers get the peer's bytes in order; nobody sleeps on what has come; `tcb_mutex` passes from holder to holder; unacknowledged data keeps a timer or an event | a client or a server and a second process, 2 blocks (a listener and its child), buffers of 2 bytes for a stream of 3, so that windows close, segments are cut and the ring wraps, 1 early fragment, 1 retry, 3 segments from the peer, a call more than the shortest session; a random simulation with 7 calls and 9 segments (26 million states) met no violation of `MutexHanded` or `TcpWakeups` |
| `tables`, sleep | nobody wakes early, everybody wakes, with pops between any two loads or stores | 2 processes, intervals to 3, 3 pops inside operations: an insertion before and behind another sleeper, interrupted twice |
| `tables`, timer | each timer's time left is right whatever was set, cleared or sent around it | 3 messages, 3 calls of `tmset`, a port of one event: `tcptimer` blocks |
| `tables`, route | `RtRip` implements `RouteMap`; reference counts are exact; RIP announces every change | addresses of 5 bits, 2 chains, 5 route buffers, 2 gateways, 3 advertised networks, 2 messages, ageing: routes are replaced, expire and are deleted in use, `rtadd` waits for a buffer |
| `tables`, igmp | references count the joins; a delayed report is not forgotten | 2 processes that join twice, one query or report |
| `tables`, heap | memory is divided without overlap or hole; a pool's chain is as long as its semaphore says | 12 words, 2 processes, 4 allocations, 1 pool of 2 buffers |
| `tables`, start | the SGD is valid across jobs; the chain serves every I/O; the configuration is what the last token said | 2 jobs, files of 2 lines out of ten that have every keyword and every way to go wrong that stays in bounds, 3 CTCs, 4 DDs |

The type invariants are checked as the first conjunct of `ListsOK`, `BuffersConserved`, `OnePlace` and
`BuffersAccounted`.

`CHECK_DEADLOCK FALSE` stands where the system may stop: all frames, calls, messages or jobs of the
bound used, a reader with nothing to read, a panic, network buffers used up by transmissions.

Fairness: MVS gives the task the CPU, so a process inside a call that can go on does (weak fairness);
the STIMER exit re-arms itself (strong fairness of a pop, since it must also come between operations);
`resched()` serves equals in turn, which `kernel_scheduling` shows of the kernel and the driver and
network modules assume (strong fairness of dispatching a ready process); processes are cooperative and
keep calling `resched()`; the channel ends the writes it has begun. Nothing is assumed of applications
between calls, of the arrival of packets, or of reads ending.

`ip_reass` and `net_io` have a slowtimer. The checked-in `h/conf.h` undefines `NETSTART_SLOWTIMER`:
incomplete datagrams then keep their slots, and unanswered addresses their entries, for ever.

## 4. Runs that show a disagreement

| Run | The code | What it says |
|---|---|---|
| `tcp_close_early` | `tcplastack` and `tcpfin1` take a `tcb_code` without FIN for an acknowledged FIN; an ACK that comes before the FIN is sent lets the closer go | `tcpd/tcpclose.c:43` "wait for FIN to be ACKed" |
| `ctc_write_dry` | with an empty pool `ctwfresh` gives the device up and waits with `fillbuf` on the full buffer that was just queued; the next sender or `ctci_iowrite` takes it for one being filled, and it is queued or written a second time | `s370/h/ctcwrite.h:17` "NULL or @ buffer ctci_write is filling" |
| `arp_in_loop` | `arpqsend` empties the queue of an entry that `ipproc`'s `arpalloc` takes over, during a device write, for another next hop; a packet for that hop is then dequeued and queued again on the same entry without end | `arp/arp_in.c:11` "SHOULD NOT BLOCK" |

## 5. Proofs

`KernelProof` proves, for every number of processes and semaphores, every set of priorities and
messages and every mix of calls, from `KernelAssumption` (at least a null process, `NullDisp` and
one user process; a semaphore; natural bounds):

* `KernelInvariant`: `Spec => []IInv`, and from it
* `TypeCorrect`, `ReadyListCorrect`, `SemQueuesCorrect`, `SleepListCorrect`, `CurrentCorrect`, together
  `ListsCorrect` (`Spec => []ListsOK`), and `SemCountCorrect` (`Spec => []SemCountOK`), the invariants
  that `kernel_ipc` checks.

`IInv == TypeOK /\ ReadyQ /\ SleepQ /\ WaitQ /\ SemCountOK /\ CurrentOK /\ LoopOK`. Each part needs
the others. That the ready list holds exactly the ready processes is preserved by `signal()` only
because the head of a semaphore's queue is a waiting process (`WaitQ`), hence on no other list; it
is a head at all because a negative count means a queue that is not empty (`SemCountOK`);
`resched()` has somebody to dispatch because of `CurrentOK`; and the loops, which ready many
processes before the next `resched()`, need what they know about their semaphore and position
(`LoopOK`). The proof has a lemma per action (`WaitStep`, `SendStep`, `KillWaitingStep`, ...), over
facts that are common to many (`ToReady`, `OffReady`, `ReadyFirstFact`). `QueueFacts` says what
inserting, removing, taking the first or last and appending do to "this queue lists this set, each
once" (`Lists`), so that no proof of an action opens a sequence.

From `IInv` it goes on to

* `HighestPriorityCorrect` (`[]HighestPriorityRuns`). The ready list is sorted by `qkey`, a ready
  entry's key is its priority, and while no `resched()` is owed nobody ready is above the current
  process. `insert` keeps the order, taking the last entry gives a highest one, and `chprio` is the
  case that would break it: it takes the entry out and puts it back.
* `MessagesCorrect` (`[]MessagesOK`). For each process, `Move` is what one step can do to its state,
  message flag and continuation; every action is shown to make only such moves, for all processes at
  once, and such moves keep the property.
* `FifoWakeCorrect` (the action property `FifoWake`). From `WaitQ` and `SemCountOK`: who begins to wait
  is the last of its queue, and a release takes the head, so the head is who came first.

`CtcReadProof` (any number of buffers and segments; from `CtcReadAssumption`): `CtcReadInvariant`, and
from it `NoLogicErrorCorrect`, `BuffersCorrect` (`BuffersConserved`) and `InOrderCorrect`. The
invariant says who owns the device (`Owner`: once ready, the I/O process is the next to run, so the
reader never waits for it), that a read's outcome is awaited (`Awaited`), that the hung slots are a
window of the ring which starts at `avail` and grows at `bufndx` (`Window`), and that frame numbers
grow along what was returned, the window and the channel (`Grows`). `InOrder` needs `Window` to know
that the slot `ctci_read` takes next is the oldest, and `Window` needs `Owner`: a slot published while
the reader steps through the ring would not be where the ring ends.

`CtcWriteProof` (any number of senders, buffers and frames to a buffer, with or without a `resched()`
between two writes; from `CtcWriteAssumption`): `CtcWriteInvariant` (`[](dry \/ IInv)`), and from it
`WriteOrderCorrect` (`InOrder`) and `OnePlaceCorrect` (`OnePlace`). There is no hypothesis on the
load: the model may empty the pool, and the two properties say of themselves that they are until
`ctwfresh` first finds it empty, for after that the code does not keep them (section 4). Until then
nobody gives up the CPU while it holds the device or wants a buffer, so both queues stay empty
(`Control`); a buffer has one place (`Places`); frames grow inside a buffer (`Inside`), from one to
the next in the order `ctci_iowrite` takes them (`Between`), and everything written or dropped is
older than they are (`Gone`).

`IpProof`, reassembly (any datagrams and way of cutting them, any table and pool sizes; from
`ReassAssumption`): `ReassInvariant`, and from it `ReassBuffersCorrect` (`BuffersConserved`),
`WholeDatagramCorrect` (`WholeDatagram`) and `JoinedCorrect` (`JoinedWhenComplete`). A slot in use
holds fragments of one datagram in the order of their offsets (`SlotOK`, `InOrderOf`), which `enq()`
keeps (`EnqOrder`). A gap, or IP_MF on the last fragment, means that a fragment of the datagram is not
in the queue (`GapLacks`, `MoreLacks`): so what `ipfjoin()` leaves is incomplete (`Waiting`), and what it
takes has neither. For that, each fragment extends the copy of `ipfcons()` exactly to its own end
(`WholeData`); as this is about a recursive function, the proof takes the first fragment that would
not, and shows that there is none. `Mutex` relates where the two processes are to the line at
`ipfmutex`, so that what `ipproc` knows of its slot while it waits for a large buffer stays true.

`IpProof`, routing (any width of addresses, class, masks, chains, buffers, lifetimes and inputs; from
`RtRipAssumption`: a mask leaves a host part, the interface's own network is not 0 under any of the
masks, a lifetime is shorter than RT_INF, and the pool's routes fit an update): `RtInvariant`, and
from it `RtRefsCorrect` (`RtRefs`), `RipAnnouncedCorrect` (`RipAnnounced`) and `RtRefines`
(`RtImplements`). A process between two table operations is described by what it still has to do:
`RtPlan` says that it asks first if it asks at all, uses what it got once, and holds a route exactly
while it is to use one; without it `rtfree` could meet a process that holds nothing. A linked route is
in the chain of its network, once (`RtPlaces`), which is what `rtdel` and `rtadd` rely on. For
`RtCounts` a step is an exchange between the table and one process: what it releases leaves both
(`RtReleaseStep`), what `rtadd` links moves from the process to the table (`RtAddStep`), and everyone
else's references stay (`RtRefsStep`). That a chain stays sorted is a fact about inserting, replacing,
removing and, for `rttimer`, keeping a subset in order (`RtChainInsert`, `RtChainReplace`,
`RtChainRemove`, `RtChainsKeep`).

`RtRefines` has one hypothesis more, `RtSubnetted`: no mask is shorter than that of the address's
class. `icmp_in.c:66` passes `setmask` any mask, and without the hypothesis the statement is false
(section 6); the other three theorems hold without it. The refinement needs the invariant on both
sides of a step. `RmStepGet` is its heart: `rtget` looks into one chain only and stops at the first
live match, and `RmBest` shows that this is a longest match over the whole table, because a route that
matches an address agrees with it in the network part of the class, so it hashes to the same chain
(`RtCoarser`: parts under a longer mask decide parts under a shorter one), and because the chain is
sorted. `RmKeysApart` (two routes of the table differ in network or mask) makes `rtdel` take one route
out of the map and `rtadd` replace the one it should. What a process was given keeps its network and
mask until it is returned (`RmGotStep`), since `rtnew` writes only into buffers nobody reaches;
`rttimer` makes routes older and never younger (`RmAging`).

`UdpDgramProof` (any finite set of processes, any number of devices, ports and buffers; from
`UdpAssumption`): `UdpInvariant`, and from it `QueuedCorrect` (`QueuedAtOwner`), `TimedReaderCorrect`
(`TimedReaderTold`) and `UdpBuffersCorrect` (`BuffersConserved`). Each device, entry of `upqs[]` and
port belongs to one process (`Devices`, `Entries`), and `udp_in()` holds `udpmutex` from the look-up
to the message, so the entry it found is still that of the port number (`Sender`). `PortOK` is then a
statement about one process and its port: the two semaphores count what is queued less what a reader
waits for or was granted, and the room less what `psend()` waits for or was granted, with the port in
LIMBO and a sender that was thrown out (`stale`) as separate cases. Buffers are counted as pairs (port,
place in its queue), so that adding or taking one is a cardinality fact.

`NetIoProof` (any table and queue sizes, any set of next hops, any number of frames; from
`NetIoSizes`): `NetInvariant`, and from it `BuffersAccountedCorrect` (`BuffersAccounted`) and
`InputSeenCorrect` (`InputSeen`). `Memory` is what a process inside `netwrite` remembers across the
places where it loses the processor (entry, next hop, destination), which must still be good when it
queues the packet; `Slack`, the buffers in use that are on no ARP queue, is what each step changes by
a known amount (`Count`), with what was written or forgotten taken off, and no queue grows past
`QSize`; `Pool` has who waits for a buffer, and that no more are out than there are. `StartUp` (each
process is created once) is needed because a second `ipproc` would hold a second packet. That
`arpalloc` and `arpfind` find an entry rests on the least element of a set of naturals (`Smallest`).
The proof showed two overlapping guards in the model of `arptimer`, which TLC had resolved in the
intended order; they are disjoint now.

`TablesProof` has the proofs about five parts that share no state. The fast timers (any messages,
times and rounds; from `TmAssumption`): `TimerInvariant` and `TimersCorrect` (`[]TmOnTime`). A delta
list is hard to reason about through its sums, so the invariant (`TmDated`) says that an entry holds
the difference of two due dates, the first one's against now and what a round of `tcptimer` has not
yet taken off; `TmSums` derives the sums that `tmleft()` computes from that. Setting or clearing a
timer then changes two differences, sending one or taking the rest of a round off changes the first.
That a message is not in the list when `tmset` inserts it, although `tmset` let go of `tqmutex` after
clearing it, is because nobody else works on it meanwhile (`TmCallsOK`).

The heap (from `HeapAssumption`): `HeapCorrect` (`[]HeapDivided`), in two halves: free, used and
lost pieces of memory are disjoint, ordered and within the heap (`MemInv`, with the fact that blocks
handed out are whole `mblock`s, so `freemem` rounds nothing and cannot reach into a neighbour), and
each buffer of a pool is on its chain or held, once, with the semaphore accounting for those who are
between the two steps of `getbuf` or `freebuf` (`PoolInv`).

Start-up (any configuration lines, DDs and sequence of jobs; from `SuAssumption`): `SgdCorrect`
(`[]SgdValid`), `ChainCorrect` (`[]ChainServed`) and `FigCorrect` (`[]FigMeaning`). For the second,
whatever the lines say `Config` keeps its shape (`ConfigInv`), and the devices are initialised in the
order of `devtab`, each CTC half entering the chain once and only with a DD that was opened
(`ChainInv`). For the third, `FigInv` says while the file is read what `FigMeaning` says at its end: the
tokens of the lines before this one, and those of this line before the rest that `xfig_iface` has still
to look at, have had their effect (`FigAtWork`), and the statics of `xfig_iface` name the interface and
the half that the last `iface` and `read` or `write` chose (`FigStatics`); a further token then settles
its own fields and no others (`FigExtend`). `FigMeaning` is about files that are plain (`FigPlain`): an
operand is not a keyword and an interface number is one of 0..3. An operand that is a keyword is read as
the operand by the code, while "the last `iface` before it" would take it for a statement, so the
property would mean something else.

Host groups (any table, applications, groups and messages; from `HgAssumption`): `HgInvariant` and
`HgCorrect` (`[]HgAccounted`). `HgWork` says who keeps `hi_mutex` and the slot it is at work on, so that
nobody else is inside a call when `hgjoin`, `hgadd` or `hgleave` change a slot. References and joins are
counted as sets of pairs, so that a join or a leave changes both by one (`HgSumUp`); that `hgleave` finds
a slot at all (`HgMemberHasSlot`) follows from their being equal.

The sleep list (any number of processes, all intervals, pops between any two loads and stores; from
`SleepAssumption`): `SleepInvariant` and from it `NeverEarlyCorrect` (`NeverEarly`). The invariant gives
each place in the delta list the sum of the keys up to it (`SqSums`, the sums under a quantifier, so
that no recursive function is reasoned about) and says that it is at least what its sleeper has still to
sleep (`SqEnough`). Half through an operation that is not so: behind a process that `insertd` has just
linked the sums are too large by its key, and behind one that `unsleep` is taking out the successor has
inherited already. `SqCredit` is what the rest of the operation does to those sums, with the values it
has loaded and not with those it would find now; `SqWalked` is the same for the process `insertd` is
still walking with. A pop takes one from everybody's time and at most one from a sum, wherever
`sltop` points, and a pop lost between a load and a store only makes a sum larger: so races make
sleepers late and never early. `SqInv` holds in TLC on the instance of the run as well.

Assumptions on constants are those of the modules (sizes are naturals, usually positive; `SuLines`
holds sequences of strings; `Resend <= Timeout` in ARP; process sets whose members are counted are
finite). TLC evaluates each of them in a run.

Only model-checked: liveness (`SleepersWake`, `Served` of `kernel_scheduling`, and others), which the
prover does not do; and everything about `TcpBlock` and `Tcp`. There, `TcpStream` and `OutputScheduled`
rest on what `tfcoalesce` and the loop of `tcpxmit` compute, which are folds, so their proofs would be
inductions over data. `MutexHanded` and `TcpWakeups` are invariants until a block is given out again under
a process in a call on it (`reused`): that can happen, in behaviours longer than those of the run (section
6), and the formulas say so. `MutexHanded` includes the two calls of `tcbdealloc` that are made
without the mutex (`tcpclose.c:46`, `tcpcon.c:43`): they are made while nobody holds it.

## 6. Findings without a run

Seen while modelling, by reading or in counterexamples. The models do what the code does here, and the
properties are stated so that they hold beside it.

* Kernel: `process/killpid.c:37` counts a dead process off again. `recvtim.c:24` sets `slnempty` before
  `sltop`, against `sleep10.c:24` "don't set slnempty until sltop is set"; a pop between the two can
  abend the task.
* CTC: `ctci_read.c:177` steps over the segments behind the first, against `ctci_read.c:175` and
  `ctci.h:19`; `ctci_write.c:204` may ready a driver that is ready already, against `ctcwrite.h:19`;
  after a frame that `ctci_read.c:159` refuses as too long, `netproc` ends and nothing is read any more.
* IP and UDP: a transmitted packet's network buffer is never freed (`net/netwrite.c:74`);
  `ip/ipputp.c:52` compares a length with `OK`, so fragmentation of output stops behind the first
  fragment; `ip/ipfjoin.c:36` leaves the headers out of its bound; `udp/udp_in.c:31` matches free
  entries; a packet queued on an ARP entry after its queue was sent stays there until the entry is
  reused, and is then forgotten, not freed (`net/netwrite.c:89`).
* Routing: a route with a mask shorter than that of its class (`icmp/icmp_in.c:66` accepts one from an
  ICMP mask reply) is in the chain of one network; for an address of another network that the mask
  covers, `rtget` looks into another chain and misses it. TLC refutes `RtImplements` in a few steps
  with `RtMasks = {1, 3}` and `RtDests = {8, 24}`; reference counts and RIP stay right. `ni_nbrc` is
  the subnet's broadcast address, not the network's, since `setmask.c:73` asks `netmask` after
  `ni_svalid` is set.
* Heap: `freemem` refuses every block below the first free one (`s370/memory/freemem.c:18`), which is
  where `getmem` cuts; such a block is lost, against `freemem.c:8` "returning it to memlist".
* TCP: `tcpread` may return 0, which `tcpgetc.c:20` takes for the end, on an open connection;
  `tcpsndlen` wraps past the FIN; `tcpkilltimers` leaves the DELETE timer to the block's next user
  (below); `tcbdealloc` assumes its mutex held, `tcpclose.c:46` and `tcpcon.c:43` call it without;
  data of a simultaneous open is stuck; a lost FIN is not retransmitted; SYNRCVD accepts an old ACK;
  blocks aborted in FINWAIT or SYNRCVD are not given back; `tcpok` refuses everything but empty
  segments while the window is closed; `tcptimer.c:51` lets in one event more than the port takes;
  `tcpout.c:28` goes on without `signal`.
* TCP, the DELETE timer: `tcpkilltimers.c:18` clears three of the four timers, against its comments
  "kill all outstanding timers for a TCB" (`tcpkilltimers.c:8`) and "clear all possible pending
  timers" (`tcpkilltimers.c:16`). A client that has closed gets a RST in FINWAIT2, which aborts the
  connection and sets RDONE, then an ACK, which takes the block to TIMEWAIT and sets DELETE, and a
  second RST, which gives the block up with DELETE pending. The block is opened again, a reader waits
  on it, DELETE fires and gives it up, another process opens it, and the reader and the new owner both
  hold `tcb_mutex`. TLC finds this when guided to it, with two processes, five calls and six segments
  (SYN+ACK, ACK, RST, ACK, RST, SYN+ACK), more than the run `tcp` explores. A closer that loses the
  CPU between `signal(tcb_mutex)` and `wait(tcb_ocsem)`, while its block goes through TIMEWAIT and is
  opened again, waits on the new connection's semaphore likewise. In both cases `reused` is set from
  there on.
* `igmp/hgjoin.c:30` gives the mutex up between look-up and `hgadd`, so two joins can make two entries;
  `rip/ripstart.c:25` waits for a network buffer with `ri_mutex` held.
* Start-up: `shutxinu` (`net/netproc.c:42`), `exit(69)` and every abend end a job without `xdone()`:
  no OKSWAP, and an XGD left in common storage with the SGD pointing to it (`sysinit.c:65` leaves both
  to `xdone`); a second job overwrites the pointer unchecked; a keyword without operand reads past the
  end of the tokens; `tokenize` takes one token more than its limit; a CTC that is disabled counts as
  initialised with semaphore 0; a `cuu` that is not the DD's unit abends the job or completes another
  device's I/O.

## 7. Plan

Done: kernel, sleep list, CTC driver, reassembly, UDP, network input and ARP, TCP, timers, routing and
RIP with its abstract map, IGMP, heap, start-up; proofs of the safety properties of the kernel, the CTC
driver, reassembly, UDP, network input with ARP, the fast timers, the sleep list, the heap, start-up
with the meaning of its configuration file, the host groups, and the routing table with the refinement
of its abstract map. Next:

1. Theorems: the mutex and wake-up invariants of `Tcp`, which `reused` now lets one state for all bounds.
2. Abstract specifications: a counting semaphore for `Kernel`, a lossless queue for the CTC halves.

## 8. Not modelled

Register save areas, environments and supervisor calls (most of `s370/mvs`, `s370/mvsasm`), the
console, formatting and traces, checksums and byte order, header layouts and IP options, time of day,
the host-side configuration program (lex and yacc output), C library helpers, network applications and
display commands: they keep no state the properties are about, or only present it. Of the network
code: RARP requests and `getiaddr` (the address is configured), interfaces going down, gateway mode,
name look-up at start-up, the limit on general queues, datagrams with a bad checksum (freed at once),
`bsdbrc` routes. Of the kernel: the wrap of the counter `phasmsg` after 256 unreceived `sendf`s, and
the second pass through `resched()` that a resume inside `iohook()` nests. The peer of `IpReass`
fragments as `ipputp` is meant to, not as it does (section 6). Of TCP: what section 2 lists. Of
start-up: interface numbers outside 0..3 and DD names longer than a field, which write outside their
tables. OSPF, SNMP and rwho have headers only.
