# network-encryptor in TLA+

TLA+ models, model-checking runs and machine-checked proofs for the
`network-encryptor` appliance: an AF_XDP program that sits between one LAN and
one WAN interface, encrypts IPv4 traffic at layer 2 and decrypts it on the
other side, at MTU 9000. All paths are relative to the repository root
(`main.c`, `src/core/...`, `src/crypto/...`, `bpf/...`).

1. [Inventory](#1-inventory)
2. [Modules](#2-modules-and-how-they-correspond-to-the-code)
3. [Runs](#3-runs-bounds-and-fairness)
4. [Proofs](#4-proofs)
5. [Findings](#5-findings)
6. [Not modelled](#6-not-modelled)
7. [Plan](#7-plan)

## 1. Inventory

### Threads and data flow

    LAN NIC -> LAN RX thread -> local_to_mid[w] -> crypto worker w -> mid_to_wan[slot]   -> TX thread slot -> WAN NIC
    WAN NIC -> WAN RX thread -> wan_to_mid[w]   -> crypto worker w -> mid_to_local[slot] -> TX thread slot -> LAN NIC

One LAN RX thread, one WAN RX thread, six crypto workers (`NE_CRYPTO_WORKERS`)
and up to four TX threads (`NE_TX_SLOTS`, never more than the queues of the two
interfaces), each pinned to a CPU; the main thread only starts and joins them.
Packets are chains of up to four 4 KiB UMEM frames; rings carry descriptions of
packets, never bytes.

### Components

| component | state | operations | correct when |
|---|---|---|---|
| software rings, `struct ne_ring` (`xdp_interface.c`) | `head`, `tail`, `buf`, `push_lock` | try_push, try_push_pair, try_pop, count | a bounded FIFO; pairs indivisible; no slot is read and written at once |
| UMEM pool and AF_XDP rings (`xdp_interface.c`, `forwarder.c`, `local_egress.c`, `wan_ingress.c`, `packet_util.c`) | free pool, fill, RX, TX, completion rings, partial chain, packets under way | refill, receive, release, dispatch, write, split, push, drain TX, drain completions, free | every frame has one owner; the kernel gets whole chains; frames come back |
| xsk.h rings and kernel wake-up (`include/xdp/xsk.h`, `xdp_interface.c`) | shared and cached indices, entries, `NEED_WAKEUP` | reserve, fill, submit, peek, release, look at the flag, kick | no entry is lost, repeated or reordered; a sleeping kernel is woken |
| XDP programs (`bpf/lan.c`, `bpf/wan.c`) | the map of sockets | drop, pass, redirect or abort | nothing longer than the RX threads can handle reaches them; no packet is aborted for long |
| flow routing (`crypto_route.c`, thread loops of `forwarder.c`) | route table (8192 x 8), load counters, round-robin cursors, per-thread fallback sequences, per-thread output ring | look up, insert, choose least loaded, next sequence, hand over, push | a flow has one worker and one TX slot for ever, and its packets stay in order |
| idle and wake-up (`idle.c`, loops of `forwarder.c`) | `g_sleeping`, eventfds, `running` | arm, recheck, poll, disarm, wake, wake_all | no packet stays behind a sleeping thread; stop reaches everyone |
| wire fragments (`pqc_l2_option.c`) | sender's epoch, datagram clocks and nonce counters; receiver's tables (256 per worker) | classify, split, number, seal, store half, join, evict, expire, collect | a joined packet is one that was sent, once, in time; no nonce is used twice |
| packet bytes (`eth_parse.c`, `packet_util.c`, `pqc_l2_option.c`, `wan_ingress.c`) | a worker's buffers | parse, clamp the MSS, encrypt, split, decrypt and join in place | what goes in comes out, byte for byte; a clamped SYN is a valid one |
| wire sizes (`pqc_l2_option.c`, `eth_parse.c`, `local_egress.c`) | none | length arithmetic | encrypted frames and fragments fit the WAN |
| life cycle (`main.c`, `forwarder.c`, `xdp_interface.c`, `xdp_attach.c`) | what the process holds, attached programs and their maps, threads, `running` | init, open, attach, run, join, cleanup, stop | threads never outlive their resources; stop leaves nothing attached |
| CPU map, NIC queues, static configuration (`cpu_map.c`, `xdp_interface.c`, `static_config.c`) | tables, queue counts, the cpuset | validate, resolve, assign, prefill | each queue, ring, wake-up and CPU has one thread |
| traffic cryptography (`traffic_crypto.c`, `packet_crypto.c`) | key, nonce counter and salt | init, cleanup, next nonce, AES-256-GCM | a nonce is used once; AES itself is assumed |
| statistics, logging | counters, messages | pure I/O | not modelled |
| libxdp, libbpf (vendored headers) | - | - | external, except the inline functions of `xsk.h` |

### How the components interact

* RX, crypto and TX threads share the **pool** (spin lock) and the **software
  rings** (spin lock for producers, nothing for the consumer). Crypto workers
  are the several producers of a TX ring; the RX thread is the only producer of
  a worker ring.
* A producer **wakes** a consumer through a flag and an eventfd, after it has
  published. RX threads sleep on the XSK sockets, which nobody can signal.
* A thread and the **kernel** share the four rings of a socket; the kernel says
  with `NEED_WAKEUP` that it must be woken by a system call.
* The **route table** is written by the LAN RX thread (first packet from the
  LAN) and by crypto workers (first packet from the WAN), and read by all of
  them without a lock.
* The two appliances meet only on the WAN, through the **fragment** formats. A
  frame names the worker that must handle it.
* The **signal handler** runs `forwarder_stop` in the main thread, at any point
  of initialisation, run or cleanup.
* systemd (`Restart=always`, `TimeoutStopSec=5s`) restarts a process that died;
  an attached XDP program survives it.

### What is hard

Lock-free readers against locked writers (rings, route table); counters that
wrap; a count taken without the lock and used under it; a flag and a ring each
stored before the other is loaded (idle, and again towards the kernel); indices
cached and refreshed only when they seem to need it; a pool that runs empty in the middle
of a packet; chains cut by a batch; table sets, windows and rings at their
limit; a WAN that loses, duplicates and reorders; a timeout racing the second
half; a restart between two fragments; a send that fails after it used up its numbers;
buffers rewritten in place; queue counts nobody tried; a signal or a failing call between any
two steps of initialisation. `PROJECT.json` lists each at its line under
`hazards`, with the properties aimed at it.

## 2. Modules, and how they correspond to the code

`PROJECT.json` maps each definition to its lines. Definitions keep the source's
names where TLA+ allows it. Operators introduced by a comment "Mutant" are
deliberately wrong forms of the definition that follows them, used to confirm
that a property notices the mistake; no specification uses them.

**`BoundedFifo`** is the abstract specification: what a ring promises. State:
the sequences of accepted and of delivered packets. `Put` accepts one packet or
a pair if all of it fits, `Get` delivers the oldest.

**`NeRing`** is `struct ne_ring`, one action per access to shared memory: the
unlocked count of `push_split_to_wan` (`CountHead`, `CountTail`), `Lock`,
`LoadTail` with the bound test, the slot writes, the release store `Publish`,
`Unlock`; the consumer's count and the three steps of `ne_ring_try_pop`.
Counters wrap at `Cap * Laps` instead of 2^32. History variables record what
was accepted and delivered. `Fifo == INSTANCE BoundedFifo` is the refinement
mapping. `ne_ring_init`'s `mpsc_pop = 1` variant is never used by the program
and is left out.

**`Umem`** follows frames from the pool through fill ring, RX ring, worker, TX
ring and completion ring back to the pool, in one or both directions. Kernel
rings are sequences here; `XskRing` shows that they may be.
`Refill`, `Recv`, `Dispatch`, `Release` are the body of an RX thread; `Take`,
`WriteAlloc`, `WriteFail`, `WriteFill`, `PushOut` a crypto worker
(`WriteAlloc` is one `ne_frame_alloc`, so that other threads may empty the pool
between two of them); `TxDrain` and `DrainCq` a TX thread. The loop of
`recv_queue` over the descriptors of a batch is a fold (`RecvDesc`, `RecvLoop`).
`ne_packet_write` refuses lengths it cannot hold (`Writable`) and gives the
segments from the first empty one on back to the pool (`NUsed`, `Unused`). An address is a frame
and an offset, since recycled addresses keep the receive headroom. What the
crypto code does to a packet is a choice over lengths (`Plans`): dropped,
encrypted, split, decrypted, joined. Software rings are plain sequences here,
which `RingImplementsFifo` justifies. `KernelRx`, `KernelTx` and their helper
`ChunkLens` are external: the kernel fills chunks behind the headroom, publishes
whole chains, and drops a chain with a descriptor outside its chunk for good
(`lost`). One queue per interface.

**`XskRing`** is one socket's pair of rings index by index: the inline functions
of `xsk.h` (`NbFree`, `NbAvail`, `Reserve`, `Peek`, ...) as operators on a ring
with shared and cached indices, and the loops that call them: `CqPeek`,
`CqRelease`, `TxPop`, `TxEnd` for a TX thread, `RefillPop`, `RxPeek`,
`RxRelease` for an RX thread, `ReserveHeld`, `FillHeld`, `Submit`, `LookAtFlag`,
`Kick` for both. The store of the producer index waits in a store buffer. What
the kernel does (`KernelTake`, `KernelPut`, `KernelFlag`, `KernelSleep`) is
external: it sets its flag, looks at the ring once more and sleeps.

**`FlowRoute`** is `crypto_route.c` with the threads that use it. The route table
is a set of ways, way w of set s being number w * `SetCount` + s, and so is the
fallback table of each worker: a key is looked for in the ways of its set only
(`SetFor`, `FallbackSetFor`). Both are found by the low bits of one hash, and the
fallback table has fewer sets (256, not 8192), so that flows of 32 route sets
meet in one fallback set. Sequence numbers and stamps wrap at `SeqMod` instead of
2^32.
`RxTakes` and `HandOver` are the LAN RX thread, `TakeLocal` and `TakeWan` a
worker, which binds its output ring anew for each packet (`Bind`, `RingFor`) and
pushes it (`Push`). In between, the lookup: `Scan` without the lock;
`InsertLock`, `Rescan`, `WriteKey`, `WriteFields`, `PublishEntry`,
`InsertUnlock`; `SeqLookup` and `SeqRetry` for the wire sequence, with the
worker's fallback table. Keys are built from 5-tuples of both directions
(`KeyOf`, `Swapped`); only the mixing function of the hash is a parameter. A
scan of the ways is one step because ways only ever become valid. The second
lookup of `SeqRetry` never succeeds: the RX thread routed every LAN packet
before the worker sees it, so a flow it could not insert stays out.

**`IdleWake`** is a pipeline of threads 0 (RX), 1 (crypto), .., `Last` (TX), each
with the loop of `forwarder.c` and the arm / recheck / poll / disarm protocol of
`idle.c`. Stores to the flag and the ring go through a store buffer of `bufCap`
entries (x86-TSO), 0 being sequential consistency; a behaviour picks its size
at the start. Eventfd creation may have failed (`efdOk`), busy polling may be
on. `StopSignal` and `WakeAll` are `forwarder_stop`.

**`MCWake`** puts `IdleWake` and `XskRing` side by side, the two places where a
thread may sleep on work it was given. They share no memory, and a behaviour
follows one of the two.

**`WireFrag`** joins two appliances by a WAN on which a frame has up to
`MaxCopies` copies that may arrive in any order, or never. `SendSequenced`,
`SendAborted`, `SendData`, `SendFails` are `encrypt_to_wan`: a send may fail
after its sequence number, its datagram id and its nonces are used. `Seal` is
`trf_pqc_generate_nonce`. Datagram ids wrap at `IdMod` and nonce counters at
`NonceMod` instead of 2^32. `ReceiveFragment` is `l2_reassemble` with
`opt_pick_slot` (which expires what it walks over, up to the datagram's own live
entry: `Walked`), `opt_prepare_entry`, `opt_store_*`, `opt_emit_join`; `Gc` is
the collector, whose clock may be one tick ahead of the coarse clock that stamps
entries. Payloads are tags: two different tags in one output is a packet nobody
sent.

**`WireSizes`** is the arithmetic of lengths: overheads, split threshold, sizes
of both fragments, MSS clamp. Its behaviours walk through frame lengths, IPv4
header lengths and protocols.

**`Codec`** extends that walk with bytes. A buffer is a function from offsets to
bytes, and a byte that no code looks at is a number that tells where it came
from; ciphertext tells its plaintext and its nonce (`Seal`, `Opened`: GCM as a
symbolic cipher; `Span` is more than any plaintext byte or length, so that
ciphertexts under different nonces have no byte in common). `LanRedirects`, `ParseFlow`, `ClampMss`, `Egress` (with
`DoEncrypt`, `EncryptUdp`, `Split`), `WanRedirects`, `PickWanWorker`, `Ingress`
(with `DoDecrypt`, `DecryptUdp`, `Join`) are the functions a packet meets from
one LAN to the other, each with the memory moves it makes in a worker's buffer.

**`QueuePlan`** answers who serves what, as functions of the queue counts: queues
of an RX slot (`RxServes`, `PollFds`), of a TX slot (`TxPrimary`), rings
(`RingOrder`, `TxRings`), wake-up identifiers, CPUs and their validation
(`CpuMapValid`), prefill shares (`PrefillOf`).

**`Lifecycle`** extends `QueuePlan`. It is the main thread from `main` to exit, one
action per call that can fail or that a signal can separate from the next:
queue by queue (`OpenQueue`, `OpenQueueFails` with `Rollback`), map entry by map
entry (`MapQueue`), ring by ring (`RingInit`), thread by thread (`Create`,
`CreateFails`, `Join`), and the cleanup in its order (`DestroyRings`,
`DeleteSockets`, `CloseBpf`, `Detach`, `FreeUmem`, `IdleShutdown`,
`CryptoCleanup`). Threads exit when they see `running` cleared (that they do is
`IdleWake!StopReachesAll`); `Kill` is a crash or SIGKILL; `Start` is systemd, on
NICs and under a cpuset chosen anew. `Fate` says what an attached program does
with a packet: to a socket, or aborted when its map has none.
`pthread_join` on a handle that was never filled is a choice between an error
and a fault. It is assumed that `ip link set dev .. xdp off` does what it says
and that `update_wan_fake_ethertype`, whose result nobody tests, succeeds.

**`MCNeRing`, `MCUmem`, `MCFlowRoute`** add symmetry sets and constants for TLC.
**`NeRing_proofs`, `Umem_proofs`, `XskRing_proofs`, `IdleWake_proofs`,
`FlowRoute_proofs`, `WireFrag_proofs`, `Codec_proofs`, `Lifecycle_proofs`** hold
the theorems; those about `WireSizes` are in `Codec_proofs`.

## 3. Runs, bounds and fairness

`tlc -workers 2 -config X.cfg M`; module and configuration of every run are in
`PROJECT.json`. All passing runs finish within about two minutes on two cores.

| run | checks | shows | bounds |
|---|---|---|---|
| `NeRing` | `CountExact`, `NoSlotRace`, `DeliveredInOrder`, `PairTogether`, `CountThenPop`, `ImplementsFifo` | the ring is exact, ordered and race free under every interleaving, and refines `BoundedFifo` | 2 producers, capacity 2, counters of 4, 6 packets: slots wrap three times, counters once, and a pair meets an almost full ring |
| `UmemEgress` | `TxWholeChains`, `FramesComeBack` | LAN to WAN: splits, full rings, an empty pool; frames come to rest again and again | 4 frames of 4 units, 3 usable on reception; packets of 1 and 2 segments, the longer is split |
| `UmemBoth` | `OneOwner`, `LengthsAgree`, `RxReleased` | both directions compete for one pool and one worker: splits, reassembled packets longer than the fragment that completes them, the double free of a refused packet, lengths only the XDP program keeps out | 4 frames; ingress lengths 1, 4 and 6 of at most 5; a batch of 2 descriptors cuts chains |
| `FlowRoute` | `Sticky`, `FlowInOrder`, `SlotsBalanced`, `SeqMonotonicWhileRoom` | the RX thread and two workers race on new flows, from the LAN and from the WAN, in sets that saturate and share a fallback set | a TCP and a UDP flow in one route set, two UDP flows in another, a flow without ports; route sets of 1 way, a fallback set of 1 way for both, numbers wrap at 3, 2 live slots of 4; 5 packets, answers among the first 2 |
| `Idle` | `NoLostWakeup`, `PipelineDrains`, `StopReachesAll`; `FramesOnce`, `TakenInOrder`, `KernelWoken` | between threads: no wake-up is lost under sequential consistency, and with store buffers, with or without eventfds, packets drain and stop reaches all; towards the kernel: stale indices lose nothing and a sleeping kernel is woken | 3 threads, 2 packets, store buffer of 0 or 1, enough for both stores to be delayed past both loads; socket rings of 2 entries, indices wrapping at 4, 4 frames, packets of 1 and 2 segments |
| `WireDup` | `JoinSound`, `JoinConsumes`, `JoinFresh`, `NonceOnce` | duplicates, reordering, eviction, timeout, every format, sends that fail half way, ids that wrap at once, restart of either side | 2 workers, table of 1, 2 datagrams, 2 copies, 1 restart each; `IdMod` 1, `NonceMod` 3 |
| `WireCrowd` | `OneEntryPerDatagram`, `HalfKept`, `HalvesExpire` | overlapping probe windows; a half whose other half is lost is collected | table of 3, probe 2, timeout 1 of 2 ticks, 4 datagrams: two share a first slot |
| `Codec` | `FragmentsFit`, `SplitOnlyIfNeeded`, `ClampedTcpFits`, `Transparent`, `SynClamped` | packets of each class, of each IPv4 header length and of each length around the split threshold cross both appliances; SYNs with options before the MSS, or options that hide it | MTU 660 (above the clamp's floor), lengths from 540 to the longest frame, which hold every threshold; buffers keep a margin over the wire length, as the program's do; 6 workers on CPUs 3 to 8 |
| `Life` | `ThreadsHaveAll`, `UmemLast`, `CleanStop`, `BindClean`, `DataplaneComplete`, `StopEnds`, `BlackholeEnds` | every failing call, a signal anywhere, two kills, three starts, missing interfaces, fewer queues than TX slots and more than `MAX_QUEUES`, a cpuset without one of the CPUs | NICs of 0, 1 or 3 queues of at most 2; 1 LAN and 2 WAN RX slots, 2 TX slots, 2 workers; 32 frames, of which the fill rings may take 24 |

Three more runs end in a counterexample: `UmemHeadroom`, `WireIcmp`,
`LifeStop` (section 5).

One crypto worker is enough in `Umem`: a worker's packet is its own, pool and
rings are used one locked operation at a time, and the two RX threads and the TX
thread already take and return frames between any two of its steps.

The properties are stated and explained in the modules. Some remarks:

* **`RxReleased`.** The RX threads release a batch only if it held a packet. A
  batch of nothing but rejected descriptors would not be released; the length
  test of the XDP programs is what keeps such chains away, so the reject path of
  `recv_queue` is purely defensive. The run includes a length only that test
  stops.
* **`KernelWoken`.** The thread stores the producer index and then loads the
  flag with no barrier between; the kernel does it the other way round. A kernel
  can therefore go to sleep on an entry whose producer saw no flag. Both loops
  look at the flag again in rounds in which they submit nothing, and that is what
  the property needs: its mutant looks only after a submission.
* **`JoinSound`** holds although ids wrap at once and both sides restart, because
  entries also carry the sender's epoch and the flow's sequence number. Assumed:
  two lives of an appliance draw different epochs and salts (they are random),
  and two flows whose sequence numbers agree do not meet with one id inside
  200 ms, which takes 2^32 datagrams of one worker.
* **`NonceOnce`** stops at the wrap of the counter, because the code does: the
  salt is drawn once per thread and run, so after 2^32 packets of one worker in
  one run its nonces repeat. The run reaches the wrap and shows that nothing
  else repeats one.
* **`Transparent`** is stated for a header whose bytes the code looks at and
  payload it does not. Its precondition of length is the code's: what is neither
  UDP nor short enough is dropped whole.
* **`DataplaneComplete`** says "each queue" of those the program uses, at most
  `MAX_QUEUES`; of the frames it says what the prefill leaves. `RxWan` = 2 is the table of another build: with the program's own
  tables of one CPU each, the assignment of queues to several RX slots would not
  be exercised.
* **`NoLostWakeup`** is about sequential consistency. With store buffers it is
  false: the flag and the ring index are release stores followed by acquire
  loads, and both may be delayed. The 1 ms poll timeout is the repair, which
  `PipelineDrains` shows under TSO.
* **`HalfKept`** excludes the last tick before the timeout, because the
  collector's clock may be ahead of the clock that stamps entries.
* **`CleanStop`** speaks of runs that return from `main` and got past
  `xdp_attach_prepare_init`: a run that is stopped before that leaves attached
  what an earlier, killed run left, and a fault in the final joins (section 5)
  leaves everything attached.
* **`FramesComeBack`** is checked where descriptors stay inside their chunks;
  what happens otherwise is finding 1.
* **`SeqMonotonicWhileRoom`** states the condition under which the
  header's claim of a monotonic sequence is true (section 5): the flow has an
  entry, or the flows without one that meet in its fallback set, of all route
  sets that share it, fit in it (`Rivals`, `SeqRoom`). Counting only the flows of
  its own route set is not enough: in this instance one flow of each of the two
  sets is left without an entry, and they evict each other from the single
  fallback way. Numbers are compared as a receiver of wrapping numbers does: a
  later one is ahead by at least 1 and by no more than the packets that arrived
  since. All keys hash to worker 0, so that the flows meet in one table.
* **`OneOwner`** counts a frame that the kernel refused as owned by the kernel
  (`lost`). That such frames exist is finding 1, which `OneOwner` does not exclude.

Deadlock is checked in every run except those of `WireFrag` and `Codec`,
where the bounds on datagrams, copies and time, or the longest frame, end the
behaviour. `FlowRoute` and `Lifecycle` end in an explicit final
state.

### Fairness

Only weak fairness, only of steps the program or the hardware always makes.

* `Umem`: the threads (busy loops, or polls that time out after 1 ms) and the
  NIC's transmission. No packet need ever arrive.
* `IdleWake`: each thread has its own CPU; store buffers drain; a poll returns
  after 1 ms; the signal handler finishes. Neither arrivals nor a signal.
* `XskRing`: the thread's loop; the store buffer drains; a kernel that is awake
  takes entries and completes them. It may sleep whenever its flag is set, even
  with entries in the ring that it was not kicked for.
* `WireFrag`: the collector, which every worker calls in its loop. Nothing on
  the WAN.
* `Lifecycle`: the main thread, and threads that see the cleared flag. No
  signal, kill or start.

## 4. Proofs

Each `*_proofs` module extends the module it is about; `tlapm M.tla` checks it
(`Codec_proofs`, `Umem_proofs` and `FlowRoute_proofs` take several minutes, the others less). The
theorems hold for every value of the constants that the module's `ASSUME`s
allow; the runs are instances. Every inductive invariant below was also checked
by TLC as an invariant of the module's run.

Every safety property of a passing run has a theorem. Several definitions are
folds or recursive functions (the loops of `recv_queue`, of the option parser,
of the checksum, of the prefill). The library's induction theorems cannot be
instantiated by the installed provers, so these proofs use the least element of
a set of numbers instead (`LeastNumber`, `UpTo`): a set that holds 0, and with n
also n + 1, holds every number. With it a fold becomes a function that satisfies
its equation, which is all that the rest of a proof uses.

### The ring, for any set of producers and packets, any `Cap >= 2`, any number of laps

Assumption `RingAssumption`: `Cap >= 2` (the pair test subtracts 2), counters
wrap after a multiple of at least twice `Cap`, and `NoOne` is neither a producer
nor a packet. The program (`Cap` = 16384, 2^32) is an instance.

`CountExact` is not inductive: to know that a publish keeps the count within
`Cap` one needs that the bound test, made earlier and on an older tail, still
holds. The inductive invariant `IInv` is the conjunction of

* `TypeOK`;
* `LockInv`: exactly the producer between lock and unlock holds `push_lock`;
* `JobInv`: the size of a job agrees with where its producer is;
* `RoomInv`: a producer that passed the test has a current copy of `head` and
  room for its whole job - the consumer can only have made more;
* `CountExact`: the unsigned difference is the number of packets in the ring;
* `ContentInv`: the occupied slots hold the accepted, undelivered packets in
  order;
* `WrittenInv`: the slots behind `head` already hold the written part of the job;
* `ConsumerInv`: a consumer that saw a packet still has one, and its copy is that
  packet;
* `DeliveredInOrder`.

There is one lemma per action. The arithmetic is isolated in `SlotsDiffer`:
positions less than `Cap` apart, also across the wrap of the counters, lie in
different slots, because `Cap` divides the wrap and no multiple of `Cap` lies
strictly between 0 and `Cap`.

| theorem | statement |
|---|---|
| `Invariance` | `Spec => []IInv` |
| `TypeCorrect` | `Spec => []TypeOK` |
| `RingNeverOverflows` | `Spec => []CountExact` |
| `SlotsNeverRace` | `Spec => []NoSlotRace` |
| `RingIsFifo` | `Spec => []DeliveredInOrder` |
| `CountPromisesPop` | `Spec => []CountThenPop` |
| `PairsStayTogether` | `Spec => []PairTogether`, with the further invariant `PairInv`: packets are used once, and in the accepted sequence a pair's second fragment follows its first |
| `RingImplementsFifo` | `Spec => ImplementsFifo`: `Publish` is a `Put`, `PopCommit` a `Get`, every other step a stutter |

### Frames, for any number of frames and workers, any sizes, one or both directions

`UmemAssumption`: finitely many frames and workers; the headroom leaves room in a
frame; the longest frame on the wire fits the packet buffer, which fits
`MaxSegs` frames (`_Static_assert` of `interface.h`); a packet fits a TX ring and
a pair fits a software ring. `BatchAssumption`: a packet that the XDP program
redirects arrives in a chain that fits a batch and a packet.

`IInv` is `OneOwner` together with `Safe`, which says what the parts of the
system hold:

* `TypeInv`, which includes that nothing was ever rejected: given `RxInv`, the
  reject path of `recv_queue` is shown not to be taken;
* `RxInv`: the chain in `recv_queue`'s hand, continued by the unread part of the
  RX ring, is made of chains of packets that were let in, each ending within a
  batch (`Chained`); what is peeked and not released belongs to the batch being
  dispatched (`RxTaken`);
* `WorkerInv`: which packets a worker holds at which place of `ne_packet_write`;
* `TxInv`: every chain of the TX ring ends within `MaxSegs` descriptors;
* `OutInv`: a packet on its way out carries its length in segments none of which
  is empty (`Carries`).

Ownership is a sum, over pool, rings, workers and lost frames, of how often a
frame occurs. Each action moves a sequence from one term of the sum to another.
`OneOwner` and the other parts need each other: `ne_pool_push` drops an address
when the pool is full, and it is because every frame has one owner that the pool
never holds more than all frames.

| theorem | statement |
|---|---|
| `UmemInvariance` | `Spec => []IInv` |
| `OneOwnerAlways` | `Spec => []OneOwner` |
| `TxWholeChainsAlways` | `Spec => []TxWholeChains` |
| `LengthsAgreeAlways` | `Spec => []LengthsAgree` |
| `RxReleasedAlways` | `Spec => []RxReleased` |

### The rings of a socket, for every ring size, batch size and number of frames

`XskAssumption`: the indices wrap after at least two turns, a packet has no more
segments than a ring has entries, and batches are not empty. The theorems are
about `XskSpec`, the ring's specification without fairness, which the kernel's
side of `WakeSpec` satisfies.

Neither property is inductive: what a step may overwrite depends on cached
indices that lag behind. All indices are measured from the one the other end
owns, with `Sub`, so that the wrap disappears (`SubFrom`). `IInv` is

* `PSide`: from the kernel's index, the producer index in memory is at most the
  program's own (the store buffer is between them), the cached one is ahead of that
  by the entries reserved for the frames in hand, the cached consumer index at
  least as far and at most a whole turn; the entries up to the program's index hold
  what was submitted, in order;
* `Written`: between fill and submit, the entries behind hold the frames in hand;
* `CSide`: from the released index, what was peeked is within what was seen, that
  within what was written, and what the kernel holds still has a place;
* `InHand`, `Buffered`: frames and peeked entries are held only at the places that
  say so, and one store at most is in the buffer;
* `Placed`: pool, hand, P, kernel and C hold all frames, and together no more
  entries than there are frames. Each action moves a piece of one of them to
  another (`Joins`).

`AtDiffer` and `AtReach` carry the arithmetic: as long as the ring's size divides the
wrap, entries less than a turn apart have different places.

| theorem | statement |
|---|---|
| `RingsAgree` | `XskSpec => []IInv` |
| `SubmitsStayInOrder` | `XskSpec => []TakenInOrder` |
| `FramesNeverLost` | `XskSpec => []FramesOnce` |

### Sleeping and waking, for any number of threads and packets

`IdleAssumption` only types the constants. `NoLostWakeup` is about a thread that
is in `poll`; the invariant must say how it came there. `IInv` adds `NoBuffer`
(without store buffers nothing is buffered) and `Armed` (a thread between its
recheck and its poll has set its flag, and does not poll busily). Every
producer that publishes behind the recheck then finds the flag set.

| theorem | statement |
|---|---|
| `WakeupsNeverLost` | `Spec => []NoLostWakeup` |

The property, hence the theorem, is about sequential consistency (`bufCap = 0`).
With store buffers a wake-up can be lost, and what helps is the timeout of the
poll: `PipelineDrains`, checked by TLC.

### Flow routing, for any number of workers, slots, ways and flows

`RouteAssumption`: finitely many flows, workers, ways and fallback ways, the last
three numbered, in any number of route sets and fallback sets; the fallback set
of a flow has a way (the program's has four). `HashAssumption`: addresses, ports and hashes are unsigned,
and a packet without ports hashes alike in both directions (`dp_flow_hash_mix`
mixes `src ^ dst`). Nothing else is assumed of the hash.

`Sticky` speaks of routes already given to packets. `RouteInv` says why they do
not change: `Exclusive` (the spin lock), `OneWayPerKey`, `WayInHand` (the way
being written is invalid and nobody has inserted its key since the second scan),
`Returns` (what each thread will return is what the table says, or the hash,
and a set that was full when a key was not found stays without it) and `Routed`
(every packet handed over or pushed is on the route of its flow).

`FlowInOrder` needs further that packets are numbered alike everywhere:
`Ordered` says that the packet in the RX thread is the youngest, each ring to a
worker is ascending and younger than what the worker holds, what was pushed is
older than what is still on its way, and the answers of a flow come through one
worker. `SlotsBalanced` needs `BalanceInv`: the counters equal the valid entries
plus the insertion in progress, and differ by one at most.

`SeqMonotonicWhileRoom` needs `SeqInv`: only LAN packets of UDP are numbered
(`Unnumbered`, `OnlyUdp`); a fallback table has one way per flow, in the
fallback set of the flow, and only for flows that their full route set has no
entry for (`OwnWays`); and for each flow with room (`Room`), the next number, in
its entry or in its way, is ahead of every one that was pushed by at most the
packets that arrived since (`AllAhead`), and so is each pushed number of the ones
before it (`Rising`), modulo `SeqMod`. Room is monotonic backwards: a flow that a
full set has no entry for never gets one, so the rivals only ever become more
(`UnservedGrow`, `RoomBefore`). While there is room no way is taken from a rival,
whichever route set the packet at hand belongs to: by counting over all rivals,
one of the ways of the fallback set is free or the flow's own (`FreeWay`).
The distances rest on the order of arrival, hence on `IInv` (`OrderHolds`).

| theorem | statement |
|---|---|
| `RoutesHold` | `Spec => [](RouteInv /\ arrived \in Nat)` |
| `FlowsAreSticky` | `Spec => []Sticky` |
| `OrderHolds` | `Spec => []IInv` |
| `FlowsStayInOrder` | `Spec => []FlowInOrder` |
| `SlotsStayBalanced` | `Spec => []SlotsBalanced` |
| `SequencesRise` | `Spec => []SeqMonotonicWhileRoom` |

### Fragments, for any table, window, timeout and number of workers

`FragAssumption` types the constants and puts the probe window inside the
table. The invariants, one on top of the other:

* `NonceInv`: a nonce is used twice only once all of a worker's run are used; until
  then the counters used are 1 to the current one;
* `SenderInv`: tags count the datagrams sent, and the frames of one datagram agree
  on worker, epoch, id and sequence number;
* `TableInv`: an entry lies in its window, each half it holds is on the WAN with
  the entry's key, it never holds both, and there is one entry per key;
* `UseInv`: a datagram was delivered at most as often as either half arrived, and
  less often while a half of it waits;
* `PendInv`, `KeptInv`: the history variables agree with the table.

| theorem | statement |
|---|---|
| `NoncesAreFresh` | `Spec => []NonceOnce` |
| `DatagramsHaveOneEntry` | `Spec => []OneEntryPerDatagram` |
| `JoinsAreSound` | `ASSUME IdsSuffice PROVE Spec => []JoinSound` |
| `JoinsConsume` | `Spec => []JoinConsumes` |
| `JoinsAreFresh` | `ASSUME IdsSuffice PROVE Spec => []JoinFresh` |
| `HalvesAreKept` | `ASSUME MaxSends <= IdMod PROVE Spec => []HalfKept` |

Three theorems have a hypothesis, because the key of an entry does not name a
datagram for ever. `IdsSuffice`: ids do not come round in a behaviour
(`MaxSends <= IdMod`; in the program 2^32 datagrams of a worker's run, since the
epoch is part of the key), or all packets are of one flow, whose sequence number
then tells datagrams apart even when every id is the same (that is the run
`WireDup`, with `IdMod` 1). When ids come round and two flows that met the same
worker happen to be at the same sequence number within one timeout, the code
would join their halves. `WireCrowd` is an instance of the first case.

### The process, for any queue counts, slots, workers and frames

`LifeAssumption` types the constants. So does `PlanAssumption`, which adds what
the program's constants satisfy: no more TX slots than workers, no more queues
than an RX thread can poll, and enough frames for a batch in each fill ring.
`IInv` follows the main
thread: `Held` (what was acquired on the way up is there), `Sockets` (open
sockets are known to the cleanup, are the queues wanted, and have their UMEM),
`Programs` (attached programs and their maps), `Scrubs` (where nothing may be
attached), `Rings`, `ThreadsJoined` (threads live between creation and join,
and each one alive has a join ahead), `ResShape` (the shape of the record).

`DataplaneComplete` needs `PlanInv` besides: the pool is full until the prefill;
from then on every fill ring has got the same share and a quarter of the frames
is left; the CPU map of a process with threads was validated against its cpuset,
and every thread is pinned where that map says. Together with the arithmetic of
`QueuePlan` (a queue has one residue, hence one slot; a validated map gives no CPU
twice) this makes every queue, ring and CPU the business of one thread.

| theorem | statement |
|---|---|
| `LifeInvariance` | `Spec => []IInv` |
| `ThreadsAlwaysHaveAll` | `Spec => []ThreadsHaveAll` |
| `UmemOutlivesSockets` | `Spec => []UmemLast` |
| `StopsAreClean` | `Spec => []CleanStop` |
| `BindsAreClean` | `Spec => []BindClean` |
| `PlanInvariance` | `Spec => []PlanInv` |
| `DataplaneAlwaysComplete` | `Spec => []DataplaneComplete` |

### Lengths and bytes, for every MTU from 576

`SizesAssumption`: `Mtu >= 576`, and the walk starts at no less than the shortest
frame. `CodecAssumption`: a buffer has a margin over the longest frame, and the
CPUs of the workers are bytes.

The lengths follow from type correctness of the walk, by arithmetic. For
`Transparent` the proof follows a packet. `WriteIs` and `SliceIs` say what a copy
leaves and what a read sees; `DataSealed` and `ShimSealed` what is in the
worker's buffer after each form of encryption; `DataOpened` and `ShimOpened` what
the other appliance makes of exactly that; `Joins` what two halves become.

For `SynClamped`, `FindMssLoop` and `LoopEnds` turn the loop over the options into
a function that satisfies its equation: it always advances, so it ends. `SumOfMss` splits the checksum of a segment into the word of the MSS and
the sum of all others. `FoldTwice`, `Congruent` and `UpdateIs` show that the
incremental update (RFC 1624) equals the full computation over the changed
segment: both are folded sums, which are never 0, and they agree modulo 65535.

| theorem | statement |
|---|---|
| `SizesTypeCorrect` | `Spec => []TypeOK` of the walk |
| `FragmentsAlwaysFit` | `Spec => []FragmentsFit`: both fragments of a packet that is split fit the wire, and neither is short enough to be padded |
| `SplitExact` | `Spec => []SplitOnlyIfNeeded`: a packet is split exactly when its encrypted form would not fit |
| `ClampedTcpAlwaysFits` | `ASSUME Mtu >= 647 PROVE Spec => []ClampedTcpFits`: a TCP segment within the clamped MSS is never too long |
| `TransparentAlways` | `ASSUME FirstLen >= EthHeader + 80 PROVE Spec => []Transparent` |
| `SynAlwaysClamped` | `ASSUME WireMax <= 65535 PROVE Spec => []SynClamped` |

The hypotheses: below an MTU of 647 the clamp's floor of 536 wins over the MTU;
a packet of `Transparent` has room for the longest IP header and a TCP header,
since the model gives every packet these headers (shorter ones, with shorter IP
headers, are not covered by the theorem); an MSS has 16 bits, so that a larger
wire could not be stated in it. The program's MTU of 9000 satisfies them, and so
does the run.

### Only model-checked

All liveness properties (`FramesComeBack`, `PipelineDrains`, `StopReachesAll`,
`KernelWoken`, `HalvesExpire`, `StopEnds`, `BlackholeEnds`): fairness and ENABLED
are out of the prover's reach.

## 5. Findings

Three runs state what a comment or a document says and end in a counterexample.

1. **`UmemHeadroom`** (`DescsInsideChunk`). `ne_packet_write` gives a frame from
   the pool the capacity of a whole chunk, but recycled addresses include the
   receive headroom. When a reassembled datagram is written over the frames of
   its short fragment, which arrived last, the added segment runs past the end
   of its chunk; the kernel refuses the descriptor and the frames are lost.
2. **`WireIcmp`** (`IcmpCarried`). Oversized ICMP has no route key, gets no
   sequence number and is dropped, against `CORE.md`.
3. **`LifeStop`** (`StopAlwaysEnds`). `forwarder_init` ends with `running = 1`; a
   signal since the last test is lost.

Seen while modelling, without a run of their own:

* `forwarder_run` joins `NE_TX_SLOTS` handles although fewer TX threads exist on
  interfaces with fewer queues. `Lifecycle!JoinUnstarted` lets such a join fail
  or fault; the properties hold when it fails, and a fault skips the cleanup.
* Prefilling keeps a quarter of the frames out of the fill rings, as its comment
  says; refilling takes whatever ring and pool allow. With the program's
  constants the reserve is only touched with more than 24 queues.
* `crypto_route.h` calls the wire sequence monotonic. When more than four flows
  whose route sets are saturated (8 flows each) meet in one fallback set of a
  worker, an evicted flow's sequence starts at 0 again. These flows may come from
  any of the 32 route sets that share the fallback set, so a flow may be evicted
  although it is the only one its own route set has no way for. The number also wraps at 2^32.
* Promiscuous mode is switched on and never off; a stop at the second test of
  `forwarder_init` leaves the eventfds to the kernel. Both end with the process
  or harm nobody.
* A data frame whose first four bytes of ciphertext equal the UDP marker is taken
  for a fragment and dropped: `is_udp_wire` accepts both EtherTypes. One frame in
  2^32; the symbolic cipher of `Codec` never produces it.

## 6. Not modelled

* AES-256-GCM itself: an external library. Assumed: what does not authenticate
  yields nothing, and ciphertext says nothing of the plaintext's bytes.
* Statistics and logging, and functions nobody calls: `ne_pair_xdp_socket_stats`
  with `collect_xdp_stats`, `ne_dp_warn_*`, `ne_dp_tx_ctx`, the data path with
  worker -1, `dp_pick_tx_slot`, `ne_pool_free_count`, `l2_udp_decrypt`, and
  `interface_set_queue_count`, since `NE_QUEUE_OVERRIDE` is 0.
* The kernel, libxdp and libbpf (`include/` is vendored): external. libxdp's
  retry of a socket with the UMEM's descriptor is inside one `OpenQueue`.
* The mixing function of the flow hash: a parameter of `FlowRoute`, which also
  stands for the zero ports of a packet that could not be parsed.
* Several queues per interface in `Umem`: queues share nothing but the pool. Which
  thread serves which queue is `QueuePlan`'s.
* A NIC whose queue count changes while the process lives.
* An MSS option at an odd offset, which straddles two words of the checksum:
  hosts align it, and `SynClamped` is stated for even offsets.
* The merge of `IdleWake` and `XskRing` into one state space, and of `Umem` with
  either: they meet in operations that are atomic here and proved or checked
  there.

## 7. Plan

Order: what everything else rests on first.

1. `BoundedFifo`, `NeRing` with refinement and proofs - done.
2. `Umem` on top of the proved FIFO - done, proved.
3. `FlowRoute`, `IdleWake`, `WireFrag`, `WireSizes`, `Lifecycle` - done, proved.
4. Extend: the way of a packet through routing and rings (`FlowRoute`), nonces,
   wrapping ids and half-failed sends (`WireFrag`), bytes (`Codec`), the kernel's
   rings (`XskRing`, `MCWake`), queues, CPUs and maps (`QueuePlan`, `Lifecycle`) -
   done, proved.
5. Prove the safety invariants of all modules - done: first those whose
   definitions are first-order, then those over folds and recursive functions
   (ownership in `Umem`, the prefill of `QueuePlan`, the bytes and checksums of
   `Codec`).
6. Left for whoever changes the code next:
   * several queues per interface in `Umem`, should they ever share more than the
     pool;
   * an MSS option at an odd offset in `Codec`, should a peer ever send one;
   * one state space for `IdleWake`, `XskRing` and `Umem`, to state that a packet
     which entered the appliance leaves it: liveness, so for TLC, and too large
     for it today.
