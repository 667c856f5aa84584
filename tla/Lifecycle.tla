------------------------------ MODULE Lifecycle ------------------------------
(***************************************************************************)
(* The life of the process: main.c, static_config.c, forwarder_init / run  *)
(* / cleanup / stop of forwarder.c, ne_pair_open / ne_pair_close of        *)
(* xdp_interface.c and xdp_attach.c, under signals, failing calls, crashes *)
(* and systemd's Restart=always, on NICs with any number of queues.        *)
(*                                                                         *)
(* The kernel frees what a dead process held, except an XDP program that   *)
(* was attached to an interface: that stays until someone detaches it, and *)
(* its map loses the sockets that die.                                     *)
(***************************************************************************)
EXTENDS QueuePlan

CONSTANTS
  HwQueues,    \* receive queues a NIC may have; 0: the interface is not there
  MaxRuns,     \* bound: starts of the process
  MaxKills     \* bound: crashes and SIGKILLs

ASSUME LifeAssumption ==
  /\ HwQueues \subseteq Nat /\ HwQueues # {}
  /\ MaxRuns \in Nat /\ MaxKills \in Nat

Ifaces == {"lan", "wan"}

VARIABLES
  pc,          \* where the main thread is
  running,     \* the flag of forwarder.c
  nic,         \* queues of each interface, fixed while the process lives
  xdp,         \* interfaces with a program attached (kernel state)
  res,         \* what the process holds
  retried,     \* the interface's one retry was used
  allowed,     \* what sched_getaffinity returned
  created,     \* threads created so far, in CreateOrder
  alive,       \* threads still in their loops
  pinned,      \* the CPU each of them got, -1: none
  joins,       \* handles still to be joined
  signalled,   \* a stop signal reached this run
  overwritten, \* history: forwarder_init stored running = 1 over a stop
  scrubbed,    \* history: this run got past xdp_attach_prepare_init
  ended,       \* how the last run ended: "exit", "fault" or "killed"
  runs, kills

threads == <<allowed, created, alive, pinned, joins>>
history == <<signalled, overwritten, scrubbed, ended, runs, kills>>
vars == <<pc, running, nic, xdp, res, retried, threads, history>>

\* xsk: sockets open on queues 0, 1, ...; xmap: queues 0, 1, ... put into the
\* program's map; qcount: ne_iface.queue_count; live: local_live, wan_live; fill:
\* frames in the fill ring of each of its queues; pool: frames in the pool, -1 if
\* there is none; rings: software rings initialised, in RingOrder; key: the crypto
\* context is initialised.
Nothing ==
  [xsk |-> [i \in Ifaces |-> 0], xmap |-> [i \in Ifaces |-> 0], qcount |-> [i \in Ifaces |-> 0],
   fill |-> [i \in Ifaces |-> {}], live |-> {}, bpf |-> {}, umem |-> FALSE, pool |-> -1,
   rings |-> 0, efds |-> FALSE, crypto |-> FALSE, key |-> FALSE]

Init ==
  /\ pc = "down" /\ running = TRUE /\ nic \in [Ifaces -> HwQueues] /\ xdp = {}
  /\ res = Nothing /\ retried = FALSE
  /\ allowed = Cpus /\ created = 0 /\ alive = {} /\ pinned = <<>> /\ joins = <<>>
  /\ signalled = FALSE /\ overwritten = FALSE /\ scrubbed = FALSE /\ ended = "exit"
  /\ runs = 0 /\ kills = 0

\* What the kernel takes back when a process is gone.
Released ==
  /\ res' = Nothing /\ retried' = FALSE
  /\ allowed' = Cpus /\ created' = 0 /\ alive' = {} /\ pinned' = <<>> /\ joins' = <<>>

Goto(l) == pc' = l

\* The main thread moves on, or fails, changing only what the process holds.
Step(here, there, newRes) ==
  /\ pc = here /\ Goto(there) /\ res' = newRes
  /\ UNCHANGED <<running, nic, xdp, retried, threads, history>>

Fails(here, there) == Step(here, there, res)

\* systemd starts the process, on NICs that may have been reconfigured.
Start ==
  /\ pc = "down" /\ runs < MaxRuns /\ Goto("config") /\ nic' \in [Ifaces -> HwQueues]
  /\ running' = TRUE /\ runs' = runs + 1 /\ signalled' = FALSE /\ overwritten' = FALSE
  /\ scrubbed' = FALSE
  /\ UNCHANGED <<xdp, res, retried, threads, ended, kills>>

-----------------------------------------------------------------------------
(* main, forwarder_init                                                    *)

\* require_mtu_9000, interface_is_up, if_nametoindex: none of them succeeds on an
\* interface that is not there.
Present(i) == nic[i] > 0

\* static_config_build: the MTU of the LAN, then of the WAN, must be 9000.
Config ==
  \/ (\A i \in Ifaces : Present(i)) /\ Step("config", "crypto_init", res)
  \/ Fails("config", "exit")

\* trf_pqc_init_global
CryptoInit ==
  \/ Step("crypto_init", "init", [res EXCEPT !.crypto = TRUE])
  \/ Fails("crypto_init", "exit")

\* The first test of the flag; ne_dp_idle_init, whose eventfds may fail one by
\* one (IdleWake).
InitBegin ==
  \/ running /\ Step("init", "prepare", [res EXCEPT !.efds = TRUE])
  \/ ~running /\ Fails("init", "crypto_out")

\* xdp_attach_link_off, xdp_attach_detach_ifname of each interface of S.
LinkOff(S) == xdp \ S

\* Mutant: only the LAN is detached.
DetachLanOnly == xdp' = LinkOff({"lan"})

\* xdp_attach_detach_config
DetachConfig == xdp' = LinkOff(Ifaces)

\* xdp_attach_prepare_init scrubs what a crashed run left behind.
Prepare ==
  /\ pc = "prepare" /\ DetachConfig /\ Goto("check")
  /\ scrubbed' = TRUE
  /\ UNCHANGED <<running, nic, res, retried, threads, signalled, overwritten, ended, runs, kills>>

\* The second test; a stop here leaves the eventfds open until the process ends.
CheckAgain ==
  \/ running /\ Step("check", "key", res)
  \/ ~running /\ Fails("check", "crypto_out")

\* packet_crypto_init, which fails only without a key.
PacketCryptoInit == Step("key", "preflight_lan", [res EXCEPT !.key = TRUE])

\* interface_preflight; the queues are counted.
Preflight(i, here, next) ==
  \/ Present(i) /\ Step(here, next, [res EXCEPT !.qcount[i] = ResolveQueues(nic[i])])
  \/ Fails(here, "fail")

\* mmap, pool_init, and every frame into the pool.
PoolInit ==
  \/ Step("pool", "promisc", [res EXCEPT !.pool = NFrames])
  \/ Fails("pool", "fail")

\* interface_set_promisc of both; nobody ever turns it off again.
Promisc == Step("promisc", "scrub", res) \/ Fails("promisc", "fail")

\* "Scrub stale XDP before AF_XDP bind"
Scrub ==
  /\ pc = "scrub" /\ Goto("umem") /\ DetachConfig
  /\ UNCHANGED <<running, nic, res, retried, threads, history>>

UmemCreate ==
  \/ Step("umem", "xsk_lan", [res EXCEPT !.umem = TRUE])
  \/ Fails("umem", "fail")

\* Mutant: the sockets opened before the failing queue are forgotten.
RollbackForgets(i) == [res EXCEPT !.qcount[i] = 0]

\* open_iface_queues_rollback
Rollback(i) == [res EXCEPT !.xsk[i] = 0, !.qcount[i] = 0]

\* open_iface_queues, one queue: a program that is still attached makes the bind
\* fail.
OpenQueue(i, here, next) ==
  LET want == ResolveQueues(nic[i]) IN
  /\ pc = here /\ i \notin xdp
  /\ res' = [res EXCEPT !.qcount[i] = want, !.xsk[i] = @ + 1]
  /\ IF res.xsk[i] + 1 = want THEN Goto(next) /\ retried' = FALSE ELSE UNCHANGED <<pc, retried>>
  /\ UNCHANGED <<running, nic, xdp, threads, history>>

\* A queue fails: roll back, then scrub and retry once.
OpenQueueFails(i, here) ==
  /\ pc = here /\ res' = Rollback(i)
  /\ IF retried THEN Goto("fail") /\ UNCHANGED <<retried, xdp>>
     ELSE retried' = TRUE /\ xdp' = LinkOff({i}) /\ UNCHANGED pc
  /\ UNCHANGED <<running, nic, threads, history>>

\* prefill_iface, prefill_queue: each queue takes its share of what the pool has
\* left, a batch at a time; then the interface is live.
PrefillQueues(r, i) ==
  LET per == PrefillOf(r.qcount["lan"], r.qcount["wan"])
      left[q \in 0 .. r.qcount[i]] ==
        IF q = 0 THEN r.pool ELSE left[q - 1] - Lesser(per, left[q - 1])
  IN  [r EXCEPT !.pool = left[r.qcount[i]], !.live = @ \cup {i},
                !.fill[i] = {Lesser(per, left[q - 1]) : q \in 1 .. r.qcount[i]}]

Prefill == Step("prefill", "load_lan", PrefillQueues(PrefillQueues(res, "lan"), "wan"))

\* xdp_attach_ifindex and open_bpf_object, with an empty map.
LoadBpf(i, here, next) ==
  \/ Present(i) /\ Step(here, next, [res EXCEPT !.bpf = @ \cup {i}, !.xmap[i] = 0])
  \/ Fails(here, "close_rings")

\* xdp_attach_prog
Attached(i) == LinkOff({i}) \cup {i}

\* xdp_attach_link_off, then xdp_attach_prog; the WAN program's EtherType is in
\* its map before it runs.
AttachProg(i, here, next) ==
  /\ pc = here
  /\ \/ xdp' = Attached(i) /\ Goto(next) /\ UNCHANGED res
     \/ xdp' = LinkOff({i}) /\ Goto("close_rings") /\ res' = [res EXCEPT !.bpf = @ \ {i}]
  /\ UNCHANGED <<running, nic, retried, threads, history>>

\* Mutant: the last queue is left out of the map.
MapFullEarly(i) == res.xmap[i] >= res.qcount[i] - 1

\* update_xsk_map_iface is done.
MapFull(i) == res.xmap[i] = res.qcount[i]

\* update_xsk_map_iface, one queue; without a socket, or if the update fails, the
\* whole attachment fails.
MapQueue(i, here, next) ==
  \/ MapFull(i) /\ Step(here, next, res)
  \/ ~MapFull(i) /\ res.xmap[i] < res.xsk[i] /\ Step(here, here, [res EXCEPT !.xmap[i] = @ + 1])
  \/ ~MapFull(i) /\ Fails(here, "close_rings")

\* The third test of the flag.
CheckAttached ==
  \/ running /\ Step("attached", "rings", res)
  \/ ~running /\ Fails("attached", "close_rings")

\* ne_ring_init, one ring.
RingInit ==
  LET last == res.rings + 1 = Len(RingOrder) IN
  \/ Step("rings", IF last THEN "set_running" ELSE "rings", [res EXCEPT !.rings = @ + 1])
  \/ Fails("rings", "close_rings")

\* running = 1, whatever it was.
SetRunning ==
  /\ pc = "set_running" /\ Goto("run")
  /\ running' = TRUE /\ overwritten' = (overwritten \/ ~running)
  /\ UNCHANGED <<nic, xdp, res, retried, threads, signalled, scrubbed, ended, runs, kills>>

-----------------------------------------------------------------------------
(* forwarder_run                                                           *)

Creating == CreateOrder(res.qcount["lan"], res.qcount["wan"])
Joining == JoinOrder(res.qcount["lan"], res.qcount["wan"])

\* sched_getaffinity: every CPU, or a cpuset that lacks one.
CpuSets == {Cpus} \cup {Cpus \ {c} : c \in Cpus}

\* Mutant: forwarder_run stores running = 1 again.
RunBeginRestarts ==
  /\ pc = "run"
  /\ \E set \in CpuSets :
       allowed' = set /\ Goto(IF CpuMapValid(set) THEN "create" ELSE "close_rings")
  /\ running' = TRUE
  /\ UNCHANGED <<nic, xdp, res, retried, created, alive, pinned, joins, history>>

\* The test of the flag, then ne_cpu_map_validate.
RunBegin ==
  /\ pc = "run"
  /\ \E set \in CpuSets :
       /\ allowed' = set
       /\ Goto(IF running /\ CpuMapValid(set) THEN "create" ELSE "close_rings")
  /\ UNCHANGED <<running, nic, xdp, res, retried, created, alive, pinned, joins, history>>

\* pthread_create succeeds and the thread pins itself; after the last one main
\* joins them all.
Create ==
  LET t == Creating[created + 1] IN
  /\ pc = "create"
  /\ created' = created + 1 /\ alive' = alive \cup {t}
  /\ pinned' = [u \in alive' |-> IF u = t THEN PinnedTo(t, allowed) ELSE pinned[u]]
  /\ IF created' = Len(Creating) THEN joins' = Joining /\ Goto("join") ELSE UNCHANGED <<joins, pc>>
  /\ UNCHANGED <<running, nic, xdp, res, retried, allowed, history>>

\* Mutant: forwarder_join_started forgets the thread created last.
CreateFailsJoinsFewer ==
  /\ pc = "create" /\ Goto("join")
  /\ running' = FALSE
  /\ joins' = IF created = 0 THEN <<>> ELSE SubSeq(Creating, 1, created - 1)
  /\ UNCHANGED <<nic, xdp, res, retried, allowed, created, alive, pinned, history>>

\* pthread_create fails: forwarder_join_started stops and joins what exists.
CreateFails ==
  /\ pc = "create" /\ Goto("join")
  /\ running' = FALSE
  /\ joins' = SubSeq(Creating, 1, created)
  /\ UNCHANGED <<nic, xdp, res, retried, allowed, created, alive, pinned, history>>

\* A dataplane thread sees the flag (IdleWake: every thread does).
ThreadExit(t) ==
  /\ t \in alive /\ ~running
  /\ alive' = alive \ {t} /\ pinned' = [u \in alive' |-> pinned[u]]
  /\ UNCHANGED <<pc, running, nic, xdp, res, retried, allowed, created, joins, history>>

Started(t) == t \in Range(SubSeq(Creating, 1, created))

Join ==
  /\ pc = "join" /\ joins # <<>> /\ Started(Head(joins)) /\ Head(joins) \notin alive
  /\ joins' = Tail(joins)
  /\ UNCHANGED <<pc, running, nic, xdp, res, retried, allowed, created, alive, pinned, history>>

\* pthread_join on a handle that no pthread_create filled is undefined: it
\* returns an error, or the process faults.
JoinUnstarted ==
  /\ pc = "join" /\ joins # <<>> /\ ~Started(Head(joins))
  /\ \/ joins' = Tail(joins) /\ UNCHANGED <<pc, res, retried, allowed, created, alive, pinned, ended>>
     \/ Released /\ Goto("down") /\ ended' = "fault"
  /\ UNCHANGED <<running, nic, xdp, signalled, overwritten, scrubbed, runs, kills>>

JoinDone == joins = <<>> /\ Step("join", "close_rings", res)

-----------------------------------------------------------------------------
(* forwarder_cleanup, the failure path of ne_pair_open, ne_pair_close       *)

OpenFailed ==
  /\ pc = "fail" /\ DetachConfig /\ Goto("close_xsk")
  /\ UNCHANGED <<running, nic, res, retried, threads, history>>

\* ne_ring_destroy of all of them, the ones never initialised too.
DestroyRings == Step("close_rings", "close_xsk", [res EXCEPT !.rings = 0])

\* delete_all_live_xsks reaches the queues that queue_count knows of.
DeleteSockets ==
  Step("close_xsk", "close_bpf",
       [res EXCEPT !.xsk = [i \in Ifaces |-> IF i \in res.live \/ res.qcount[i] > 0
                                             THEN Max({0, @[i] - res.qcount[i]}) ELSE @[i]]])

CloseBpf == Step("close_bpf", "close_xdp", [res EXCEPT !.bpf = {}])

Detach ==
  /\ pc = "close_xdp" /\ DetachConfig /\ Goto("close_umem")
  /\ UNCHANGED <<running, nic, res, retried, threads, history>>

\* xsk_umem__delete, pool_destroy, munmap and the memset of ne_pair_close.
FreeUmem ==
  Step("close_umem", "idle_down",
       [Nothing EXCEPT !.xsk = res.xsk, !.rings = res.rings, !.efds = res.efds,
                       !.crypto = res.crypto, !.key = res.key])

\* ne_dp_idle_shutdown, of forwarder_cleanup or of forwarder_init after a failed
\* ne_pair_open.
IdleShutdown == Step("idle_down", "crypto_out", [res EXCEPT !.efds = FALSE])

\* trf_pqc_cleanup
CryptoCleanup == Step("crypto_out", "exit", [res EXCEPT !.crypto = FALSE])

\* main returns.
Exit ==
  /\ pc = "exit" /\ Released /\ Goto("down") /\ ended' = "exit"
  /\ UNCHANGED <<running, nic, xdp, signalled, overwritten, scrubbed, runs, kills>>

-----------------------------------------------------------------------------
\* SIGTERM or SIGINT: forwarder_stop.
Signal ==
  /\ pc # "down" /\ running
  /\ running' = FALSE /\ signalled' = TRUE
  /\ UNCHANGED <<pc, nic, xdp, res, retried, threads, overwritten, scrubbed, ended, runs, kills>>

\* A crash, or SIGKILL when TimeoutStopSec is over.
Kill ==
  /\ pc # "down" /\ kills < MaxKills
  /\ kills' = kills + 1 /\ Released /\ Goto("down") /\ ended' = "killed"
  /\ UNCHANGED <<running, nic, xdp, signalled, overwritten, scrubbed, runs>>

\* No more starts within the bound.
Over == pc = "down" /\ runs = MaxRuns /\ UNCHANGED vars

PairOpen ==
  \/ Preflight("lan", "preflight_lan", "preflight_wan") \/ Preflight("wan", "preflight_wan", "pool")
  \/ PoolInit \/ Promisc \/ Scrub \/ UmemCreate
  \/ OpenQueue("lan", "xsk_lan", "xsk_wan") \/ OpenQueue("wan", "xsk_wan", "prefill")
  \/ OpenQueueFails("lan", "xsk_lan") \/ OpenQueueFails("wan", "xsk_wan")
  \/ Prefill \/ OpenFailed

AttachAll ==
  \/ LoadBpf("lan", "load_lan", "attach_lan") \/ LoadBpf("wan", "load_wan", "attach_wan")
  \/ AttachProg("lan", "attach_lan", "map_lan") \/ AttachProg("wan", "attach_wan", "map_wan")
  \/ MapQueue("lan", "map_lan", "load_wan") \/ MapQueue("wan", "map_wan", "attached")

ForwarderInit ==
  \/ InitBegin \/ Prepare \/ CheckAgain \/ PacketCryptoInit \/ PairOpen \/ AttachAll \/ CheckAttached
  \/ RingInit \/ SetRunning

ForwarderRun == RunBegin \/ Create \/ CreateFails \/ Join \/ JoinUnstarted \/ JoinDone

PairClose == DeleteSockets \/ CloseBpf \/ Detach \/ FreeUmem

ForwarderCleanup == DestroyRings \/ PairClose \/ IdleShutdown

MainStep ==
  \/ Config \/ CryptoInit \/ ForwarderInit \/ ForwarderRun \/ ForwarderCleanup
  \/ CryptoCleanup \/ Exit

Next == Start \/ MainStep \/ Signal \/ Kill \/ Over \/ \E t \in alive : ThreadExit(t)

Spec == Init /\ [][Next]_vars

\* The main thread and the dataplane threads run; nobody owes a signal, a
\* crash or a restart.
FairSpec ==
  /\ Spec /\ WF_vars(MainStep)
  /\ \A t \in Range(CpuTable) : WF_vars(ThreadExit(t))

-----------------------------------------------------------------------------
(* Properties.                                                             *)

\* What bpf_redirect_map does with a packet the program of interface i selects on
\* queue q: to the socket in the map, XDP_ABORTED where there is none.
Fate(i, q) ==
  CASE i \notin xdp                            -> "kernel"
    [] i \in xdp /\ q < res.xmap[i] /\ q < res.xsk[i] -> "socket"
    [] OTHER                                   -> "aborted"

Queues(i) == 0 .. ResolveQueues(nic[i]) - 1

\* No thread outlives what it works on: while one is in its loop the rings, the
\* UMEM, the eventfds, the cipher library and its key, every socket and both programs are
\* there, whichever call failed and whenever the stop came.
ThreadsHaveAll ==
  alive # {} => /\ res.rings = Len(RingOrder) /\ res.umem /\ res.efds
                /\ res.crypto /\ res.key
                /\ xdp = Ifaces /\ res.live = Ifaces
                /\ \A i \in Ifaces : \A q \in Queues(i) : Fate(i, q) = "socket"

\* xsk_umem__delete never runs while a socket is open (libxdp refuses it then).
UmemLast == (\E i \in Ifaces : res.xsk[i] > 0) => res.umem

\* A run that ends by itself leaves no program on an interface, its own or one
\* of a crashed run: the traffic goes through the kernel again.  Only a run that
\* is told to stop before xdp_attach_prepare_init leaves what it found.
CleanStop == pc = "down" /\ ended = "exit" /\ scrubbed => xdp = {}

\* What a crashed run left attached is gone before the next run binds a socket.
BindClean == pc \in {"xsk_lan", "xsk_wan"} => xdp = {}

AllUp == pc = "join" /\ alive = Range(Creating)

\* Every queue is read, refilled and slept on by exactly one RX thread, has frames
\* to fill and the quarter of the pool kept for TX is there.
RxServed ==
  /\ \A q \in Queues("lan") : Quantify(alive, LAMBDA t :
       t[1] = "lan_rx" /\ q \in PollFds(t[2], res.qcount["lan"], RxLan, res.xsk["lan"])) = 1
  /\ \A q \in Queues("wan") : Quantify(alive, LAMBDA t :
       t[1] = "wan_rx" /\ q \in PollFds(t[2], res.qcount["wan"], RxWan, res.xsk["wan"])) = 1
  /\ \A i \in Ifaces : \A f \in res.fill[i] : f >= BatchSize
  /\ Cardinality(res.fill["lan"] \cup res.fill["wan"]) = 1
  /\ 4 * res.pool >= NFrames

\* The slots a flow may be given are the TX threads; each has a queue of its own
\* on both interfaces, whose completions it collects, and rings that exist; a
\* push to its rings wakes it and no other.
TxOwned ==
  /\ {s \in 0 .. TxSlots - 1 : <<"tx", s>> \in alive}
       = 0 .. ActiveTx(res.qcount["lan"], res.qcount["wan"]) - 1
  /\ \A s, u \in 0 .. TxSlots - 1 : {<<"tx", s>>, <<"tx", u>>} \subseteq alive =>
       /\ WakeOfRing(s) = WakeId(<<"tx", s>>)
       /\ TxRings(s) \subseteq Range(SubSeq(RingOrder, 1, res.rings))
       /\ \A i \in Ifaces :
            /\ TxPrimary(s, res.qcount[i]) \in 0 .. res.xsk[i] - 1
            /\ TxPrimary(s, res.qcount[i]) = TxPrimary(u, res.qcount[i]) => s = u

\* No two threads share a CPU or a wake-up, and none runs where it pleases.
OwnCpus ==
  \A t, u \in alive : /\ pinned[t] # -1
                      /\ t # u => pinned[t] # pinned[u]
                      /\ t # u /\ WakeId(t) = WakeId(u) => WakeId(t) = -1

\* Once every thread is up, each queue of the NICs (up to MAX_QUEUES) and each TX
\* slot is served by one thread, alone on its CPU, whatever the queue counts.
DataplaneComplete == AllUp => RxServed /\ TxOwned /\ OwnCpus

\* A packet is aborted by a program whose map has no socket for it only for a
\* while: between attachment and map fill, between the deletion of the sockets
\* and the detachment, and after a crash until the next run scrubs.
BlackholeEnds ==
  \A i \in Ifaces : (pc # "down" /\ (\E q \in Queues(i) : Fate(i, q) = "aborted"))
                      ~> (pc = "down" \/ \A q \in Queues(i) : Fate(i, q) # "aborted")

\* A stop signal ends the process, unless forwarder_init stored over it.
StopEnds == signalled ~> (pc = "down" \/ overwritten)

\* A stop signal ends the process.
StopAlwaysEnds == signalled ~> pc = "down"
=============================================================================
