--------------------------- MODULE Lifecycle_proofs ---------------------------
(***************************************************************************)
(* What the process holds at every point of its life, for any tables of    *)
(* threads, any queues of the NICs, and any number of starts and kills.    *)
(***************************************************************************)
EXTENDS Lifecycle, SequenceTheorems, FiniteSetTheorems, NaturalsInduction, WellFoundedInduction, TLAPS

-----------------------------------------------------------------------------
(* The way up, as nested sets of places: from which place on a resource is *)
(* there, until the first step of a cleanup or the end of the process.     *)

WithThreads == {"create", "join"}
WithRings   == {"set_running", "run"} \cup WithThreads
WithMaps    == {"attached", "rings"} \cup WithRings
WithBoth    == {"map_wan"} \cup WithMaps
WithLanMap  == {"load_wan", "attach_wan"} \cup WithBoth
WithLan     == {"map_lan"} \cup WithLanMap
WithLive    == {"load_lan", "attach_lan"} \cup WithLan
WithSockets == {"prefill"} \cup WithLive
WithLanXsk  == {"xsk_wan"} \cup WithSockets
WithUmem    == {"xsk_lan"} \cup WithLanXsk
WithKey     == {"preflight_lan", "preflight_wan", "pool", "promisc", "scrub", "umem"} \cup WithUmem
WithEfds    == {"prepare", "check", "key"} \cup WithKey
WithCrypto  == {"init"} \cup WithEfds

\* All of the way up.
Ahead == {"down", "config", "crypto_init"} \cup WithCrypto

\* The places without a socket on the way up, and on the way down.
NoSockets == {"down", "config", "crypto_init", "init", "prepare", "check", "key",
              "preflight_lan", "preflight_wan", "pool", "promisc", "scrub", "umem",
              "close_bpf", "close_xdp", "close_umem", "idle_down", "crypto_out", "exit"}

\* The places at which the programs may be attached by this run.
MayAttach == {"attach_lan", "map_lan", "load_wan", "attach_wan", "map_wan", "attached", "rings",
              "set_running", "run", "create", "join", "close_rings", "close_xsk", "close_bpf",
              "close_xdp", "fail", "prefill", "load_lan"}

\* The places a run can be at that has not reached xdp_attach_prepare_init.
NotScrubbed == {"down", "config", "crypto_init", "init", "prepare", "crypto_out", "exit"}

Want(i) == ResolveQueues(nic[i])

Roles == {"lan_rx", "tx", "crypto", "wan_rx"}
AllThreads == Roles \X Int

-----------------------------------------------------------------------------
(* The inductive invariant.                                                *)

\* The record keeps its fields; pool and fill rings are PlanInv's.
ResShape ==
  /\ res = [xsk |-> res.xsk, xmap |-> res.xmap, qcount |-> res.qcount, fill |-> res.fill,
            live |-> res.live, bpf |-> res.bpf, umem |-> res.umem, pool |-> res.pool,
            rings |-> res.rings, efds |-> res.efds, crypto |-> res.crypto, key |-> res.key]
  /\ res.xsk \in [Ifaces -> Nat] /\ res.xmap \in [Ifaces -> Nat] /\ res.qcount \in [Ifaces -> Nat]
  /\ res.fill = [i \in Ifaces |-> res.fill[i]] /\ res.rings \in Nat /\ res.live \subseteq Ifaces
  /\ nic \in [Ifaces -> Nat] /\ xdp \subseteq Ifaces

\* What was acquired on the way up is still there.
Held ==
  /\ pc \in WithCrypto => res.crypto
  /\ pc \in WithEfds => res.efds
  /\ pc \in WithKey => res.key
  /\ pc \in WithUmem => res.umem
  /\ pc \in WithLive => res.live = Ifaces

\* Each interface has opened the queues it wants, or is about to; delete_all_live_xsks
\* knows them all, and the UMEM is still there.
Sockets ==
  /\ \A i \in Ifaces : res.xsk[i] <= res.qcount[i] /\ (res.xsk[i] > 0 => res.umem)
  /\ pc \in NoSockets => \A i \in Ifaces : res.xsk[i] = 0
  /\ pc = "xsk_lan" => res.xsk["lan"] < Want("lan") /\ res.xsk["wan"] = 0
  /\ pc = "xsk_wan" => res.xsk["wan"] < Want("wan")
  /\ pc \in WithLanXsk => res.xsk["lan"] = Want("lan") /\ res.qcount["lan"] = Want("lan")
  /\ pc \in WithSockets => res.xsk["wan"] = Want("wan") /\ res.qcount["wan"] = Want("wan")

\* Programs and their maps.
Programs ==
  /\ pc \in {"umem", "xsk_lan", "xsk_wan"} => xdp = {}
  /\ pc \in WithLan => "lan" \in xdp
  /\ pc \in WithBoth => "wan" \in xdp
  /\ pc \in WithLanMap => res.xmap["lan"] = res.qcount["lan"]
  /\ pc \in WithMaps => res.xmap["wan"] = res.qcount["wan"]

\* Nothing of this run or an earlier one stays attached where main may return.
Scrubs ==
  /\ ~scrubbed => pc \in NotScrubbed
  /\ scrubbed /\ pc \notin MayAttach /\ (pc = "down" => ended = "exit") => xdp = {}

\* Rings are initialised one by one, after everything else.
Rings ==
  /\ pc = "rings" => res.rings < Len(RingOrder)
  /\ pc \in WithRings => res.rings = Len(RingOrder)
  /\ pc \in Ahead => pc \in {"rings"} \cup WithRings \/ res.rings = 0

\* Threads exist only between their creation and their join, and each one that
\* still runs has a join ahead of it.
ThreadsJoined ==
  /\ alive # {} => pc \in WithThreads
  /\ pc \in WithThreads => created \in 0 .. Len(Creating)
  /\ pc = "create" => created < Len(Creating)
  /\ pc \in Ahead \ WithThreads => created = 0
  /\ pc \in WithThreads => alive \subseteq {Creating[k] : k \in 1 .. created}
  /\ pc = "join" => joins \in Seq(AllThreads) /\ alive \subseteq Range(joins)

IInv == ResShape /\ Held /\ Sockets /\ Programs /\ Scrubs /\ Rings /\ ThreadsJoined

-----------------------------------------------------------------------------
(* Facts about the plan.                                                   *)

\* An interface wants at least one queue.
LEMMA WantPositive ==
  ASSUME ResShape, NEW i \in Ifaces
  PROVE  Want(i) \in Nat /\ Want(i) > 0
BY PlanAssumption DEF ResShape, Want, ResolveQueues, GetQueueCount, Lesser

\* There are rings to initialise.
LEMMA RingsToInit == Len(RingOrder) \in Nat /\ Len(RingOrder) > 0
<1>1. Crypto \in Nat /\ Crypto > 0
  BY PlanAssumption
<1>2. InputRings \in Seq({"local_to_mid", "wan_to_mid"} \X Int) /\ Len(InputRings) = 2 * Crypto
  BY <1>1 DEF InputRings
<1>3. OutputRings("mid_to_local") \in Seq({"mid_to_local"} \X Int)
      /\ OutputRings("mid_to_wan") \in Seq({"mid_to_wan"} \X Int)
      /\ Len(OutputRings("mid_to_local")) = Crypto /\ Len(OutputRings("mid_to_wan")) = Crypto
  BY <1>1 DEF OutputRings
<1> QED BY <1>1, <1>2, <1>3 DEF RingOrder

\* A group of threads is a sequence of threads.
LEMMA GroupSeq ==
  ASSUME NEW r \in Roles, NEW n \in Nat
  PROVE  /\ Group(r, n) \in Seq(AllThreads) /\ Len(Group(r, n)) = n
         /\ Range(Group(r, n)) = {<<r, k - 1>> : k \in 1 .. n}
<1>1. ASSUME NEW k \in 1 .. n PROVE <<r, k - 1>> \in AllThreads
  <2>1. k - 1 \in Int
    OBVIOUS
  <2> QED BY <2>1 DEF AllThreads
<1>2. Group(r, n) \in [1 .. n -> AllThreads]
  BY <1>1 DEF Group
<1>3. Group(r, n) \in Seq(AllThreads)
  BY <1>2, SeqDef
<1>4. Len(Group(r, n)) = n
  BY <1>2, <1>3, LenProperties
<1> QED BY <1>3, <1>4 DEF Group, Range

\* Concatenation adds lengths and unites ranges.
LEMMA Concat ==
  ASSUME NEW S, NEW s1 \in Seq(S), NEW s2 \in Seq(S)
  PROVE  /\ s1 \o s2 \in Seq(S) /\ Range(s1 \o s2) = Range(s1) \cup Range(s2)
         /\ Len(s1) > 0 \/ Len(s2) > 0 => Len(s1 \o s2) > 0
<1>1. Len(s1) \in Nat /\ Len(s2) \in Nat
  BY LenProperties
<1> QED BY <1>1, RangeConcatenation, ConcatProperties

\* At least the workers are created, and every created thread is joined.
LEMMA AllJoined ==
  ASSUME NEW l \in Nat, l > 0, NEW w \in Nat, w > 0
  PROVE  /\ CreateOrder(l, w) \in Seq(AllThreads) /\ JoinOrder(l, w) \in Seq(AllThreads)
         /\ Len(CreateOrder(l, w)) > 0
         /\ Range(CreateOrder(l, w)) \subseteq Range(JoinOrder(l, w))
<1> DEFINE a == RxSlotsFor(l, RxLan)
           b == ActiveTx(l, w)
           d == RxSlotsFor(w, RxWan)
           A == Group("lan_rx", a)
           B == Group("tx", b)
           C == Group("crypto", Crypto)
           D == Group("wan_rx", d)
           E == Group("tx", TxSlots)
<1>1. /\ a \in Nat /\ b \in Nat /\ Crypto \in Nat /\ d \in Nat /\ TxSlots \in Nat
      /\ b <= TxSlots /\ Crypto > 0
  BY PlanAssumption DEF RxSlotsFor, ActiveTx, Lesser
<1> HIDE DEF a, b, d
<1>2. /\ A \in Seq(AllThreads) /\ B \in Seq(AllThreads) /\ C \in Seq(AllThreads)
      /\ D \in Seq(AllThreads) /\ E \in Seq(AllThreads) /\ Len(C) > 0
  BY <1>1, GroupSeq DEF Roles
<1>3. Range(B) \subseteq Range(E)
  <2>1. Range(B) = {<<"tx", k - 1>> : k \in 1 .. b} /\ Range(E) = {<<"tx", k - 1>> : k \in 1 .. TxSlots}
    BY <1>1, GroupSeq DEF Roles
  <2>2. 1 .. b \subseteq 1 .. TxSlots
    BY <1>1
  <2> QED BY <2>1, <2>2
<1>4. CreateOrder(l, w) = A \o B \o C \o D /\ JoinOrder(l, w) = A \o E \o C \o D
  BY DEF CreateOrder, JoinOrder, a, b, d
<1> HIDE DEF A, B, C, D, E
<1> DEFINE AB == A \o B
           AE == A \o E
<1>5. AB \in Seq(AllThreads) /\ Range(AB) = Range(A) \cup Range(B)
  BY <1>2, Concat
<1>6. AE \in Seq(AllThreads) /\ Range(AE) = Range(A) \cup Range(E)
  BY <1>2, Concat
<1>7. CreateOrder(l, w) = AB \o C \o D /\ JoinOrder(l, w) = AE \o C \o D
  BY <1>4
<1> HIDE DEF AB, AE
<1> DEFINE ABC == AB \o C
           AEC == AE \o C
<1>8. ABC \in Seq(AllThreads) /\ Len(ABC) > 0 /\ Range(ABC) = Range(AB) \cup Range(C)
  BY <1>2, <1>5, Concat
<1>9. AEC \in Seq(AllThreads) /\ Range(AEC) = Range(AE) \cup Range(C)
  BY <1>2, <1>6, Concat
<1>10. CreateOrder(l, w) = ABC \o D /\ JoinOrder(l, w) = AEC \o D
  BY <1>7
<1> HIDE DEF ABC, AEC
<1>11. /\ ABC \o D \in Seq(AllThreads) /\ Len(ABC \o D) > 0
       /\ Range(ABC \o D) = Range(ABC) \cup Range(D)
  BY <1>2, <1>8, Concat, SMTT(40)
<1>12. AEC \o D \in Seq(AllThreads) /\ Range(AEC \o D) = Range(AEC) \cup Range(D)
  BY <1>2, <1>9, Concat
<1>13. Range(ABC \o D) \subseteq Range(AEC \o D)
  BY <1>3, <1>5, <1>6, <1>8, <1>9, <1>11, <1>12
<1> QED BY <1>10, <1>11, <1>12, <1>13

-----------------------------------------------------------------------------
(* Every step keeps the invariant.                                         *)

USE DEF WithThreads, WithRings, WithMaps, WithBoth, WithLanMap, WithLan, WithLive, WithSockets,
        WithLanXsk, WithUmem, WithKey, WithEfds, WithCrypto, Ahead, NoSockets, MayAttach,
        NotScrubbed, Goto, Step, Fails, threads, history

LEMMA InitIInv == Init => IInv
<1> SUFFICES ASSUME Init PROVE IInv
  OBVIOUS
<1> USE DEF Init, Nothing
<1>1. ResShape
  BY LifeAssumption DEF ResShape, Ifaces
<1>2. Held /\ Sockets /\ Programs /\ Scrubs
  BY DEF Held, Sockets, Programs, Scrubs, Ifaces
<1>3. Rings /\ ThreadsJoined
  BY DEF Rings, ThreadsJoined
<1> QED BY <1>1, <1>2, <1>3 DEF IInv


(* forwarder_init before ne_pair_open, and main before it. *)
LEMMA BeginKeeps ==
  ASSUME IInv, \/ Config \/ CryptoInit \/ InitBegin \/ Prepare \/ CheckAgain \/ PacketCryptoInit
  PROVE  IInv'
<1> USE DEF IInv, ResShape, Held, Sockets, Want, Programs, Scrubs, Rings, ThreadsJoined, Creating
<1>1. CASE Config
  BY <1>1 DEF Config
<1>2. CASE CryptoInit
  <2>1. CASE Step("crypto_init", "init", [res EXCEPT !.crypto = TRUE])
    BY <2>1
  <2>2. CASE Fails("crypto_init", "exit")
    BY <2>2
  <2> QED BY <1>2, <2>1, <2>2 DEF CryptoInit
<1>3. CASE InitBegin
  <2>1. CASE running /\ Step("init", "prepare", [res EXCEPT !.efds = TRUE])
    BY <2>1
  <2>2. CASE ~running /\ Fails("init", "crypto_out")
    BY <2>2
  <2> QED BY <1>3, <2>1, <2>2 DEF InitBegin
<1>4. CASE Prepare
  BY <1>4 DEF Prepare, DetachConfig, LinkOff
<1>5. CASE CheckAgain
  BY <1>5 DEF CheckAgain
<1>6. CASE PacketCryptoInit
  BY <1>6 DEF PacketCryptoInit
<1> QED BY <1>1, <1>2, <1>3, <1>4, <1>5, <1>6

(* ne_pair_open up to the sockets. *)
LEMMA OpenKeeps ==
  ASSUME IInv, \/ Preflight("lan", "preflight_lan", "preflight_wan")
               \/ Preflight("wan", "preflight_wan", "pool")
               \/ PoolInit \/ Promisc \/ Scrub \/ UmemCreate \/ OpenFailed
  PROVE  IInv'
<1> USE DEF IInv, ResShape, Held, Sockets, Want, Programs, Scrubs, Rings, ThreadsJoined, Creating
<1>1. CASE Preflight("lan", "preflight_lan", "preflight_wan")
  BY <1>1, WantPositive, SMTT(40) DEF Preflight, Ifaces
<1>2. CASE Preflight("wan", "preflight_wan", "pool")
  BY <1>2, WantPositive DEF Preflight, Ifaces
<1>3. CASE PoolInit
  BY <1>3, ZenonT(60) DEF PoolInit
<1>4. CASE Promisc
  BY <1>4 DEF Promisc
<1>5. CASE Scrub
  BY <1>5 DEF Scrub, DetachConfig, LinkOff
<1>6. CASE UmemCreate
  BY <1>6, WantPositive, SMTT(30) DEF UmemCreate, Ifaces
<1>7. CASE OpenFailed
  BY <1>7, SMTT(30) DEF OpenFailed, DetachConfig, LinkOff
<1> QED BY <1>1, <1>2, <1>3, <1>4, <1>5, <1>6, <1>7

(* open_iface_queues of each interface, one queue. *)
LEMMA OpenLanKeeps ==
  ASSUME IInv, OpenQueue("lan", "xsk_lan", "xsk_wan")
  PROVE  IInv'
<1> USE DEF OpenQueue, IInv, Ifaces
<1>1. Want("lan") \in Nat /\ Want("lan") > 0 /\ Want("wan") \in Nat /\ Want("wan") > 0
  BY WantPositive
<1>2. ResShape' /\ Want("lan")' = Want("lan") /\ Want("wan")' = Want("wan")
  <2> DEFINE n == ResolveQueues(nic["lan"])
  <2>1. n = Want("lan") /\ Want("lan")' = Want("lan") /\ Want("wan")' = Want("wan")
    BY DEF Want
  <2>2. /\ res' = [res EXCEPT !.qcount["lan"] = n, !.xsk["lan"] = @ + 1]
        /\ nic' = nic /\ xdp' = xdp /\ ResShape
    OBVIOUS
  <2> HIDE DEF n, OpenQueue, IInv
  <2>3. /\ res'.qcount = [res.qcount EXCEPT !["lan"] = n] /\ res'.xsk = [res.xsk EXCEPT !["lan"] = @ + 1]
        /\ res' = [xsk |-> res'.xsk, xmap |-> res.xmap, qcount |-> res'.qcount, fill |-> res.fill,
                   live |-> res.live, bpf |-> res.bpf, umem |-> res.umem, pool |-> res.pool,
                   rings |-> res.rings, efds |-> res.efds, crypto |-> res.crypto, key |-> res.key]
    BY <2>2 DEF ResShape
  <2>4. res'.qcount \in [Ifaces -> Nat] /\ res'.xsk \in [Ifaces -> Nat]
    BY <1>1, <2>1, <2>2, <2>3 DEF ResShape
  <2> QED BY <2>1, <2>2, <2>3, <2>4 DEF ResShape
<1>3. Held'
  BY DEF ResShape, Held
<1>4. Sockets'
  <2>1. res'.xsk["lan"] = res.xsk["lan"] + 1 /\ res'.xsk["wan"] = res.xsk["wan"]
    BY DEF ResShape
  <2>2. res'.qcount["lan"] = Want("lan") /\ res'.qcount["wan"] = res.qcount["wan"]
    BY DEF ResShape, Want
  <2>3. pc' = pc \/ (pc' = "xsk_wan" /\ res.xsk["lan"] + 1 = Want("lan"))
    BY DEF Want
  <2>4. pc' = pc => res.xsk["lan"] + 1 # Want("lan")
    BY DEF Want
  <2>5. res'.umem = res.umem /\ res.umem /\ pc = "xsk_lan" /\ Sockets /\ ResShape
    BY DEF ResShape, Held
  <2> HIDE DEF OpenQueue, IInv
  <2>6. \A j \in Ifaces : res'.xsk[j] <= res'.qcount[j] /\ (res'.xsk[j] > 0 => res'.umem)
    BY <1>1, <2>1, <2>2, <2>5 DEF ResShape, Sockets
  <2> QED BY <1>1, <1>2, <2>1, <2>2, <2>3, <2>4, <2>5, <2>6 DEF ResShape, Sockets
<1>5. Programs' /\ Scrubs'
  BY DEF ResShape, Programs, Scrubs
<1>6. Rings'
  BY DEF ResShape, Rings
<1>7. ThreadsJoined'
  BY DEF ResShape, ThreadsJoined, Creating
<1> QED BY <1>2, <1>3, <1>4, <1>5, <1>6, <1>7

LEMMA OpenWanKeeps ==
  ASSUME IInv, OpenQueue("wan", "xsk_wan", "prefill")
  PROVE  IInv'
<1> USE DEF OpenQueue, IInv, Ifaces
<1>1. Want("lan") \in Nat /\ Want("lan") > 0 /\ Want("wan") \in Nat /\ Want("wan") > 0
  BY WantPositive
<1>2. ResShape' /\ Want("lan")' = Want("lan") /\ Want("wan")' = Want("wan")
  <2> DEFINE n == ResolveQueues(nic["wan"])
  <2>1. n = Want("wan") /\ Want("lan")' = Want("lan") /\ Want("wan")' = Want("wan")
    BY DEF Want
  <2>2. /\ res' = [res EXCEPT !.qcount["wan"] = n, !.xsk["wan"] = @ + 1]
        /\ nic' = nic /\ xdp' = xdp /\ ResShape
    OBVIOUS
  <2> HIDE DEF n, OpenQueue, IInv
  <2>3. /\ res'.qcount = [res.qcount EXCEPT !["wan"] = n] /\ res'.xsk = [res.xsk EXCEPT !["wan"] = @ + 1]
        /\ res' = [xsk |-> res'.xsk, xmap |-> res.xmap, qcount |-> res'.qcount, fill |-> res.fill,
                   live |-> res.live, bpf |-> res.bpf, umem |-> res.umem, pool |-> res.pool,
                   rings |-> res.rings, efds |-> res.efds, crypto |-> res.crypto, key |-> res.key]
    BY <2>2 DEF ResShape
  <2>4. res'.qcount \in [Ifaces -> Nat] /\ res'.xsk \in [Ifaces -> Nat]
    BY <1>1, <2>1, <2>2, <2>3 DEF ResShape
  <2> QED BY <2>1, <2>2, <2>3, <2>4 DEF ResShape
<1>3. Held'
  BY DEF ResShape, Held
<1>4. Sockets'
  <2>1. res'.xsk["wan"] = res.xsk["wan"] + 1 /\ res'.xsk["lan"] = res.xsk["lan"]
    BY DEF ResShape
  <2>2. res'.qcount["wan"] = Want("wan") /\ res'.qcount["lan"] = res.qcount["lan"]
    BY DEF ResShape, Want
  <2>3. pc' = pc \/ (pc' = "prefill" /\ res.xsk["wan"] + 1 = Want("wan"))
    BY DEF Want
  <2>4. pc' = pc => res.xsk["wan"] + 1 # Want("wan")
    BY DEF Want
  <2>5. res'.umem = res.umem /\ res.umem /\ pc = "xsk_wan" /\ Sockets /\ ResShape
    BY DEF ResShape, Held
  <2> HIDE DEF OpenQueue, IInv
  <2>6. \A j \in Ifaces : res'.xsk[j] <= res'.qcount[j] /\ (res'.xsk[j] > 0 => res'.umem)
    BY <1>1, <2>1, <2>2, <2>5 DEF ResShape, Sockets
  <2> QED BY <1>1, <1>2, <2>1, <2>2, <2>3, <2>4, <2>5, <2>6 DEF ResShape, Sockets
<1>5. Programs' /\ Scrubs'
  BY DEF ResShape, Programs, Scrubs
<1>6. Rings'
  BY DEF ResShape, Rings
<1>7. ThreadsJoined'
  BY DEF ResShape, ThreadsJoined, Creating
<1> QED BY <1>2, <1>3, <1>4, <1>5, <1>6, <1>7

(* open_iface_queues_rollback of each interface. *)
LEMMA RollbackLanKeeps ==
  ASSUME IInv, OpenQueueFails("lan", "xsk_lan")
  PROVE  IInv'
<1> USE DEF OpenQueueFails, Rollback, LinkOff, IInv, Ifaces
<1>1. Want("lan") \in Nat /\ Want("lan") > 0 /\ Want("wan") \in Nat /\ Want("wan") > 0
  BY WantPositive
<1>2. ResShape' /\ Want("lan")' = Want("lan") /\ Want("wan")' = Want("wan")
  BY DEF ResShape, Want
<1>3. Held'
  BY DEF ResShape, Held
<1>4. Sockets'
  <2>1. res'.xsk["lan"] = 0 /\ res'.xsk["wan"] = res.xsk["wan"]
    BY DEF ResShape
  <2>2. res'.qcount["lan"] = 0 /\ res'.qcount["wan"] = res.qcount["wan"]
    BY DEF ResShape
  <2> QED BY <1>1, <1>2, <2>1, <2>2 DEF ResShape, Sockets
<1>5. Programs' /\ Scrubs'
  BY DEF ResShape, Programs, Scrubs
<1>6. Rings'
  BY DEF ResShape, Rings
<1>7. ThreadsJoined'
  BY DEF ResShape, ThreadsJoined, Creating
<1> QED BY <1>2, <1>3, <1>4, <1>5, <1>6, <1>7

LEMMA RollbackWanKeeps ==
  ASSUME IInv, OpenQueueFails("wan", "xsk_wan")
  PROVE  IInv'
<1> USE DEF OpenQueueFails, Rollback, LinkOff, IInv, Ifaces
<1>1. Want("lan") \in Nat /\ Want("lan") > 0 /\ Want("wan") \in Nat /\ Want("wan") > 0
  BY WantPositive
<1>2. ResShape' /\ Want("lan")' = Want("lan") /\ Want("wan")' = Want("wan")
  BY DEF ResShape, Want
<1>3. Held'
  BY DEF ResShape, Held
<1>4. Sockets'
  <2>1. res'.xsk["wan"] = 0 /\ res'.xsk["lan"] = res.xsk["lan"]
    BY DEF ResShape
  <2>2. res'.qcount["wan"] = 0 /\ res'.qcount["lan"] = res.qcount["lan"]
    BY DEF ResShape
  <2> QED BY <1>1, <1>2, <2>1, <2>2 DEF ResShape, Sockets
<1>5. Programs' /\ Scrubs'
  BY DEF ResShape, Programs, Scrubs
<1>6. Rings'
  BY DEF ResShape, Rings
<1>7. ThreadsJoined'
  BY DEF ResShape, ThreadsJoined, Creating
<1> QED BY <1>2, <1>3, <1>4, <1>5, <1>6, <1>7

(* The programs and their maps. *)
LEMMA AttachKeeps ==
  ASSUME IInv, AttachAll
  PROVE  IInv'
<1> USE DEF IInv, ResShape, Held, Sockets, Want, Programs, Scrubs, Rings, ThreadsJoined, Creating, Ifaces
<1>1. CASE LoadBpf("lan", "load_lan", "attach_lan")
  <2>1. CASE Step("load_lan", "attach_lan", [res EXCEPT !.bpf = @ \cup {"lan"}, !.xmap["lan"] = 0])
    <3> HIDE DEF IInv, ResShape, Held, Sockets, Want, Programs, Scrubs, Rings, ThreadsJoined, Creating
    <3>1. ResShape' /\ Held'
      BY <2>1 DEF IInv, ResShape, Held
    <3>2. Sockets' /\ Programs' /\ Scrubs'
      BY <2>1 DEF IInv, ResShape, Sockets, Want, Programs, Scrubs
    <3>3. Rings' /\ ThreadsJoined'
      BY <2>1 DEF IInv, ResShape, Rings, ThreadsJoined, Creating
    <3> QED BY <3>1, <3>2, <3>3 DEF IInv
  <2>2. CASE Fails("load_lan", "close_rings")
    BY <2>2
  <2> QED BY <1>1, <2>1, <2>2 DEF LoadBpf
<1>2. CASE LoadBpf("wan", "load_wan", "attach_wan")
  <2>1. CASE Step("load_wan", "attach_wan", [res EXCEPT !.bpf = @ \cup {"wan"}, !.xmap["wan"] = 0])
    <3> HIDE DEF IInv, ResShape, Held, Sockets, Want, Programs, Scrubs, Rings, ThreadsJoined, Creating
    <3>1. ResShape' /\ Held'
      BY <2>1 DEF IInv, ResShape, Held
    <3>2. Sockets' /\ Programs' /\ Scrubs'
      BY <2>1 DEF IInv, ResShape, Sockets, Want, Programs, Scrubs
    <3>3. Rings' /\ ThreadsJoined'
      BY <2>1 DEF IInv, ResShape, Rings, ThreadsJoined, Creating
    <3> QED BY <3>1, <3>2, <3>3 DEF IInv
  <2>2. CASE Fails("load_wan", "close_rings")
    BY <2>2
  <2> QED BY <1>2, <2>1, <2>2 DEF LoadBpf
<1>3. CASE AttachProg("lan", "attach_lan", "map_lan")
  BY <1>3 DEF AttachProg, Attached, LinkOff
<1>4. CASE AttachProg("wan", "attach_wan", "map_wan")
  BY <1>4 DEF AttachProg, Attached, LinkOff
<1>5. CASE MapQueue("lan", "map_lan", "load_wan")
  BY <1>5, SMTT(40) DEF MapQueue, MapFull
<1>6. CASE MapQueue("wan", "map_wan", "attached")
  BY <1>6, SMTT(40) DEF MapQueue, MapFull
<1> QED BY <1>1, <1>2, <1>3, <1>4, <1>5, <1>6 DEF AttachAll

(* The rings and the flag. *)
LEMMA RingsKeep ==
  ASSUME IInv, \/ CheckAttached \/ RingInit \/ SetRunning
  PROVE  IInv'
<1> USE DEF IInv, ResShape, Held, Sockets, Want, Programs, Scrubs, Rings, ThreadsJoined, Creating
<1>1. CASE CheckAttached
  BY <1>1, RingsToInit DEF CheckAttached
<1>2. CASE RingInit
  <2>1. CASE Step("rings", IF res.rings + 1 = Len(RingOrder) THEN "set_running" ELSE "rings",
                  [res EXCEPT !.rings = @ + 1])
    <3> HIDE DEF IInv, ResShape, Held, Sockets, Want, Programs, Scrubs, Rings, ThreadsJoined, Creating
    <3>1. ResShape' /\ Held'
      <4>1. ResShape'
        <5>1. /\ res' = [res EXCEPT !.rings = res.rings + 1] /\ ResShape
              /\ nic' = nic /\ xdp' = xdp
          BY <2>1 DEF IInv
        <5> QED BY ONLY <5>1 DEF ResShape
      <4>2. Held'
        BY <2>1 DEF IInv, ResShape, Held
      <4> QED BY <4>1, <4>2
    <3>2. Sockets' /\ Programs' /\ Scrubs'
      BY <2>1 DEF IInv, ResShape, Sockets, Want, Programs, Scrubs
    <3>3. Rings'
      BY <2>1, RingsToInit DEF IInv, ResShape, Rings
    <3>4. ThreadsJoined'
      BY <2>1 DEF IInv, ResShape, ThreadsJoined, Creating
    <3> QED BY <3>1, <3>2, <3>3, <3>4 DEF IInv
  <2>2. CASE Fails("rings", "close_rings")
    BY <2>2
  <2> QED BY <1>2, <2>1, <2>2 DEF RingInit
<1>3. CASE SetRunning
  BY <1>3 DEF SetRunning
<1> QED BY <1>1, <1>2, <1>3

(* What prefill_iface leaves of the record; the shares are in SharesTaken. *)
LEMMA PrefillOnly ==
  ASSUME NEW r, r = [xsk |-> r.xsk, xmap |-> r.xmap, qcount |-> r.qcount, fill |-> r.fill,
                     live |-> r.live, bpf |-> r.bpf, umem |-> r.umem, pool |-> r.pool,
                     rings |-> r.rings, efds |-> r.efds, crypto |-> r.crypto, key |-> r.key],
         r.fill = [j \in Ifaces |-> r.fill[j]], NEW i \in Ifaces
  PROVE  /\ PrefillQueues(r, i) =
              [xsk |-> r.xsk, xmap |-> r.xmap, qcount |-> r.qcount, fill |-> PrefillQueues(r, i).fill,
               live |-> r.live \cup {i}, bpf |-> r.bpf, umem |-> r.umem, pool |-> PrefillQueues(r, i).pool,
               rings |-> r.rings, efds |-> r.efds, crypto |-> r.crypto, key |-> r.key]
         /\ PrefillQueues(r, i).fill = [j \in Ifaces |-> PrefillQueues(r, i).fill[j]]
<1>1. PICK p, f : PrefillQueues(r, i) = [r EXCEPT !.pool = p, !.live = @ \cup {i}, !.fill[i] = f]
  BY DEF PrefillQueues
<1> QED BY <1>1

LEMMA PrefillKeeps ==
  ASSUME IInv, Prefill
  PROVE  IInv'
<1> DEFINE r == PrefillQueues(res, "lan")
           z == PrefillQueues(r, "wan")
<1>1. res' = z /\ pc = "prefill" /\ pc' = "load_lan" /\ UNCHANGED <<nic, xdp, threads, history>>
  BY DEF Prefill
<1>2. ResShape /\ "lan" \in Ifaces /\ "wan" \in Ifaces
  BY DEF IInv, Ifaces
<1>3. /\ r = [xsk |-> res.xsk, xmap |-> res.xmap, qcount |-> res.qcount, fill |-> r.fill,
              live |-> res.live \cup {"lan"}, bpf |-> res.bpf, umem |-> res.umem, pool |-> r.pool,
              rings |-> res.rings, efds |-> res.efds, crypto |-> res.crypto, key |-> res.key]
      /\ r.fill = [j \in Ifaces |-> r.fill[j]]
  BY <1>2, PrefillOnly DEF ResShape
<1> HIDE DEF r
<1>4. r = [xsk |-> r.xsk, xmap |-> r.xmap, qcount |-> r.qcount, fill |-> r.fill,
           live |-> r.live, bpf |-> r.bpf, umem |-> r.umem, pool |-> r.pool,
           rings |-> r.rings, efds |-> r.efds, crypto |-> r.crypto, key |-> r.key]
  BY <1>3
<1>5. /\ z = [xsk |-> r.xsk, xmap |-> r.xmap, qcount |-> r.qcount, fill |-> z.fill,
              live |-> r.live \cup {"wan"}, bpf |-> r.bpf, umem |-> r.umem, pool |-> z.pool,
              rings |-> r.rings, efds |-> r.efds, crypto |-> r.crypto, key |-> r.key]
      /\ z.fill = [j \in Ifaces |-> z.fill[j]]
  BY <1>2, <1>3, <1>4, PrefillOnly
<1> HIDE DEF z
<1>6. /\ z = [xsk |-> res.xsk, xmap |-> res.xmap, qcount |-> res.qcount, fill |-> z.fill,
              live |-> (res.live \cup {"lan"}) \cup {"wan"}, bpf |-> res.bpf, umem |-> res.umem,
              pool |-> z.pool, rings |-> res.rings, efds |-> res.efds, crypto |-> res.crypto,
              key |-> res.key]
  BY <1>3, <1>5
<1>7. res'.live = Ifaces
  BY <1>1, <1>2, <1>6 DEF ResShape, Ifaces
<1>8. ResShape'
  BY <1>1, <1>2, <1>5, <1>6, <1>7 DEF ResShape
<1>9. Held' /\ Sockets' /\ Programs'
  BY <1>1, <1>2, <1>6, <1>7 DEF IInv, Held, Sockets, Programs, Want
<1>10. Scrubs' /\ Rings' /\ ThreadsJoined'
  BY <1>1, <1>6 DEF IInv, Scrubs, Rings, ThreadsJoined, Creating
<1> QED BY <1>8, <1>9, <1>10 DEF IInv

(* Socket counts go down to what delete_all_live_xsks does not know of. *)
LEMMA MaxZero == ASSUME NEW n \in Int, n <= 0 PROVE Max({0, n}) = 0
BY DEF Max

LEMMA CleanupKeeps ==
  ASSUME IInv, ForwarderCleanup \/ CryptoCleanup
  PROVE  IInv'
<1> USE DEF IInv, ResShape, Held, Sockets, Want, Programs, Scrubs, Rings, ThreadsJoined, Creating
<1>1. CASE DestroyRings
  BY <1>1 DEF DestroyRings
<1>2. CASE DeleteSockets
  <2> DEFINE new == [i \in Ifaces |-> IF i \in res.live \/ res.qcount[i] > 0
                                      THEN Max({0, res.xsk[i] - res.qcount[i]}) ELSE res.xsk[i]]
  <2>1. res' = [res EXCEPT !.xsk = new]
    BY <1>2 DEF DeleteSockets
  <2>2. ASSUME NEW i \in Ifaces PROVE new[i] = 0
    <3>1. res.xsk[i] - res.qcount[i] \in Int /\ res.xsk[i] - res.qcount[i] <= 0
      OBVIOUS
    <3>2. Max({0, res.xsk[i] - res.qcount[i]}) = 0
      BY <3>1, MaxZero
    <3>3. res.qcount[i] > 0 \/ res.xsk[i] = 0
      OBVIOUS
    <3> QED BY <3>2, <3>3
  <2>3. new = [i \in Ifaces |-> 0]
    BY <2>2
  <2> HIDE DEF new
  <2>4. res' = [res EXCEPT !.xsk = [i \in Ifaces |-> 0]]
    BY <2>1, <2>3
  <2>5. pc = "close_xsk" /\ pc' = "close_bpf" /\ UNCHANGED <<nic, xdp, threads, history>>
    BY <1>2 DEF DeleteSockets
  <2> QED BY <2>4, <2>5
<1>3. CASE CloseBpf
  BY <1>3 DEF CloseBpf
<1>4. CASE Detach
  BY <1>4 DEF Detach, DetachConfig, LinkOff
<1>5. CASE FreeUmem
  <2>1. res' = [xsk |-> res.xsk, xmap |-> [i \in Ifaces |-> 0], qcount |-> [i \in Ifaces |-> 0],
                fill |-> [i \in Ifaces |-> {}], live |-> {}, bpf |-> {}, umem |-> FALSE, pool |-> -1,
                rings |-> res.rings, efds |-> res.efds, crypto |-> res.crypto, key |-> res.key]
    BY <1>5 DEF FreeUmem, Nothing
  <2>2. pc = "close_umem" /\ pc' = "idle_down" /\ UNCHANGED <<nic, xdp, threads, history>>
    BY <1>5 DEF FreeUmem
  <2> QED BY <2>1, <2>2
<1>6. CASE IdleShutdown
  BY <1>6 DEF IdleShutdown
<1>7. CASE CryptoCleanup
  BY <1>7 DEF CryptoCleanup
<1> QED BY <1>1, <1>2, <1>3, <1>4, <1>5, <1>6, <1>7 DEF ForwarderCleanup, PairClose

(* forwarder_run. *)
LEMMA CreatingFacts ==
  ASSUME IInv, pc \in WithThreads
  PROVE  /\ Creating \in Seq(AllThreads) /\ Joining \in Seq(AllThreads)
         /\ Len(Creating) \in Nat /\ Len(Creating) > 0
         /\ Range(Creating) \subseteq Range(Joining)
<1>1. /\ res.qcount["lan"] \in Nat /\ res.qcount["lan"] > 0
      /\ res.qcount["wan"] \in Nat /\ res.qcount["wan"] > 0
  BY WantPositive DEF IInv, Sockets, Ifaces
<1>2. Creating \in Seq(AllThreads) /\ Joining \in Seq(AllThreads) /\ Len(Creating) > 0
      /\ Range(Creating) \subseteq Range(Joining)
  BY <1>1, AllJoined DEF Creating, Joining
<1> QED BY <1>2, LenProperties

LEMMA RunKeeps ==
  ASSUME IInv, RunBegin \/ JoinDone
  PROVE  IInv'
<1> USE DEF IInv, ResShape, Held, Sockets, Want, Programs, Scrubs, Rings
<1>1. CASE RunBegin
  <2>1. Creating' = Creating /\ Len(Creating) \in Nat /\ Len(Creating) > 0
    <3>1. /\ res.qcount["lan"] \in Nat /\ res.qcount["lan"] > 0
          /\ res.qcount["wan"] \in Nat /\ res.qcount["wan"] > 0
      BY <1>1, WantPositive DEF RunBegin, Ifaces
    <3>2. Creating \in Seq(AllThreads) /\ Len(Creating) > 0
      BY <3>1, AllJoined DEF Creating
    <3> QED BY <1>1, <3>2, LenProperties DEF RunBegin, Creating
  <2>2. /\ pc = "run" /\ pc' \in {"create", "close_rings"} /\ res' = res
        /\ UNCHANGED <<nic, xdp, created, alive, joins, history>>
    BY <1>1 DEF RunBegin
  <2>3. ThreadsJoined'
    BY <2>1, <2>2 DEF ThreadsJoined
  <2> QED BY <2>2, <2>3
<1>2. CASE JoinDone
  BY <1>2 DEF JoinDone, ThreadsJoined, Range, Creating
<1> QED BY <1>1, <1>2

LEMMA CreateKeeps ==
  ASSUME IInv, Create
  PROVE  IInv'
<1>1. /\ pc = "create" /\ pc' \in {"create", "join"} /\ res' = res
      /\ created' = created + 1 /\ alive' = alive \cup {Creating[created + 1]}
      /\ UNCHANGED <<nic, xdp, history>>
      /\ created' = Len(Creating) => pc' = "join" /\ joins' = Joining
      /\ created' # Len(Creating) => pc' = "create"
  BY DEF Create
<1>2. ResShape' /\ Held' /\ Sockets' /\ Programs' /\ Scrubs' /\ Rings'
  BY <1>1 DEF IInv, ResShape, Held, Sockets, Want, Programs, Scrubs, Rings
<1>3. /\ Creating \in Seq(AllThreads) /\ Joining \in Seq(AllThreads) /\ Len(Creating) \in Nat
      /\ Range(Creating) \subseteq Range(Joining)
  BY <1>1, CreatingFacts
<1>4. Creating' = Creating
  BY <1>1 DEF Creating
<1>5. /\ created \in Nat /\ created < Len(Creating) /\ alive \subseteq {Creating[k] : k \in 1 .. created}
  BY <1>1, <1>3 DEF IInv, ThreadsJoined
<1> HIDE DEF Step
<1>6. alive' \subseteq {Creating[k] : k \in 1 .. created + 1}
  BY <1>1, <1>5
<1>7. created + 1 = Len(Creating) => alive' \subseteq Range(Joining)
  <2>1. {Creating[k] : k \in 1 .. Len(Creating)} = Range(Creating)
    BY <1>3, RangeEquality
  <2> QED BY <1>3, <1>6, <2>1
<1>8. ThreadsJoined'
  BY <1>1, <1>3, <1>4, <1>5, <1>6, <1>7 DEF ThreadsJoined
<1> QED BY <1>2, <1>8 DEF IInv

(* The handles forwarder_join_started knows of. *)
LEMMA CreatedRange ==
  ASSUME NEW s \in Seq(AllThreads), NEW n \in Nat, n <= Len(s)
  PROVE  {s[k] : k \in 1 .. n} = Range(SubSeq(s, 1, n)) /\ SubSeq(s, 1, n) \in Seq(AllThreads)
<1>1. /\ SubSeq(s, 1, n) \in Seq(AllThreads) /\ Len(SubSeq(s, 1, n)) = n
      /\ \A k \in 1 .. n : SubSeq(s, 1, n)[k] = s[k]
  OBVIOUS
<1>2. Range(SubSeq(s, 1, n)) = {SubSeq(s, 1, n)[k] : k \in 1 .. n}
  BY <1>1, RangeEquality
<1> QED BY <1>1, <1>2

LEMMA CreateFailsKeeps ==
  ASSUME IInv, CreateFails
  PROVE  IInv'
<1>1. /\ pc = "create" /\ pc' = "join" /\ res' = res /\ joins' = SubSeq(Creating, 1, created)
      /\ UNCHANGED <<nic, xdp, created, alive, history>>
  BY DEF CreateFails
<1>2. ResShape' /\ Held' /\ Sockets' /\ Programs' /\ Scrubs' /\ Rings'
  BY <1>1 DEF IInv, ResShape, Held, Sockets, Want, Programs, Scrubs, Rings
<1>3. Creating \in Seq(AllThreads) /\ Len(Creating) \in Nat
  BY <1>1, CreatingFacts
<1>4. Creating' = Creating
  BY <1>1 DEF Creating
<1>5. created \in Nat /\ created < Len(Creating) /\ alive \subseteq {Creating[k] : k \in 1 .. created}
  BY <1>1, <1>3 DEF IInv, ThreadsJoined
<1>6. /\ {Creating[k] : k \in 1 .. created} = Range(SubSeq(Creating, 1, created))
      /\ SubSeq(Creating, 1, created) \in Seq(AllThreads)
  BY <1>3, <1>5, CreatedRange
<1>7. ThreadsJoined'
  BY <1>1, <1>3, <1>4, <1>5, <1>6 DEF ThreadsJoined
<1> QED BY <1>2, <1>7 DEF IInv

(* A join returns for a thread that has left, or for one never created. *)
LEMMA HandleIsJoined ==
  ASSUME IInv, pc = "join", joins # <<>>, Head(joins) \notin alive
  PROVE  Tail(joins) \in Seq(AllThreads) /\ alive \subseteq Range(Tail(joins))
<1>0. joins \in Seq(AllThreads)
  BY DEF IInv, ThreadsJoined
<1>1. Len(joins) \in Nat /\ Len(joins) > 0 /\ Head(joins) = joins[1]
  BY <1>0, EmptySeq, LenProperties
<1>2. Range(joins) = {joins[k] : k \in 1 .. Len(joins)}
  BY <1>0, RangeEquality
<1>3. /\ Tail(joins) \in Seq(AllThreads) /\ Len(Tail(joins)) = Len(joins) - 1
      /\ \A k \in 1 .. Len(joins) - 1 : Tail(joins)[k] = joins[k + 1]
  BY <1>0, HeadTailProperties
<1>4. Range(Tail(joins)) = {Tail(joins)[k] : k \in 1 .. Len(Tail(joins))}
  BY <1>3, RangeEquality
<1> SUFFICES ASSUME NEW t \in alive PROVE t \in Range(Tail(joins))
  BY <1>3
<1>5. PICK k \in 1 .. Len(joins) : t = joins[k]
  BY <1>2 DEF IInv, ThreadsJoined
<1>6. k # 1
  BY <1>1, <1>5
<1>7. k - 1 \in 1 .. Len(joins) - 1 /\ Tail(joins)[k - 1] = t
  BY <1>1, <1>3, <1>5, <1>6
<1> QED BY <1>3, <1>4, <1>7

LEMMA JoinKeeps ==
  ASSUME IInv, Join
  PROVE  IInv'
<1>1. /\ pc = "join" /\ pc' = "join" /\ res' = res /\ joins' = Tail(joins)
      /\ UNCHANGED <<nic, xdp, created, alive, history>>
  BY DEF Join
<1>2. Tail(joins) \in Seq(AllThreads) /\ alive \subseteq Range(Tail(joins))
  BY HandleIsJoined DEF Join
<1>3. ResShape' /\ Held' /\ Sockets' /\ Programs' /\ Scrubs' /\ Rings'
  BY <1>1 DEF IInv, ResShape, Held, Sockets, Want, Programs, Scrubs, Rings
<1>4. ThreadsJoined'
  BY <1>1, <1>2 DEF IInv, ThreadsJoined, Creating
<1> QED BY <1>3, <1>4 DEF IInv

(* A dead process holds nothing; its programs stay. *)
LEMMA ReleasedKeeps ==
  ASSUME IInv, Released, pc' = "down", xdp' = xdp, nic' = nic, scrubbed' = scrubbed,
         ended' = "exit" => pc = "exit"
  PROVE  IInv'
<1> USE DEF Released, Nothing
<1>1. ResShape'
  BY DEF IInv, ResShape, Ifaces
<1>2. Held' /\ Sockets' /\ Programs' /\ Rings'
  BY DEF Held, Sockets, Programs, Rings
<1>3. Scrubs' /\ ThreadsJoined'
  BY DEF IInv, Scrubs, ThreadsJoined
<1> QED BY <1>1, <1>2, <1>3 DEF IInv

LEMMA JoinUnstartedKeeps ==
  ASSUME IInv, JoinUnstarted
  PROVE  IInv'
<1>1. CASE joins' = Tail(joins) /\ UNCHANGED <<pc, res, retried, allowed, created, alive, pinned, ended>>
  <2>1. /\ pc = "join" /\ pc' = "join" /\ res' = res /\ joins' = Tail(joins)
        /\ UNCHANGED <<nic, xdp, created, alive, history>> /\ joins # <<>> /\ ~Started(Head(joins))
    BY <1>1 DEF JoinUnstarted
  <2>2. Creating \in Seq(AllThreads) /\ Len(Creating) \in Nat
    BY <2>1, CreatingFacts
  <2>3. created \in Nat /\ created <= Len(Creating) /\ alive \subseteq {Creating[k] : k \in 1 .. created}
    BY <2>1, <2>2 DEF IInv, ThreadsJoined
  <2>4. Head(joins) \notin alive
    BY <2>1, <2>2, <2>3, CreatedRange DEF Started
  <2>5. Tail(joins) \in Seq(AllThreads) /\ alive \subseteq Range(Tail(joins))
    BY <2>1, <2>4, HandleIsJoined
  <2>6. ResShape' /\ Held' /\ Sockets' /\ Programs' /\ Scrubs' /\ Rings'
    BY <2>1 DEF IInv, ResShape, Held, Sockets, Want, Programs, Scrubs, Rings
  <2>7. ThreadsJoined'
    BY <2>1, <2>5 DEF IInv, ThreadsJoined, Creating
  <2> QED BY <2>6, <2>7 DEF IInv
<1>2. CASE Released /\ pc' = "down" /\ ended' = "fault"
  <2>1. xdp' = xdp /\ nic' = nic /\ scrubbed' = scrubbed /\ ~(ended' = "exit")
    BY <1>2 DEF JoinUnstarted
  <2> QED BY <1>2, <2>1, ReleasedKeeps
<1> QED BY <1>1, <1>2 DEF JoinUnstarted

(* The environment, and the threads. *)
LEMMA OutsideKeeps ==
  ASSUME IInv, \/ Start \/ Exit \/ Signal \/ Kill \/ Over \/ (\E t \in alive : ThreadExit(t))
  PROVE  IInv'
<1>1. CASE Start
  <2>1. /\ pc = "down" /\ pc' = "config" /\ nic' \in [Ifaces -> Nat] /\ res' = res /\ xdp' = xdp
        /\ scrubbed' = FALSE /\ UNCHANGED <<created, alive, joins, ended>>
    BY <1>1, LifeAssumption DEF Start
  <2>2. ResShape' /\ Held' /\ Sockets' /\ Programs' /\ Scrubs' /\ Rings' /\ ThreadsJoined'
    BY <2>1 DEF IInv, ResShape, Held, Sockets, Programs, Scrubs, Rings, ThreadsJoined, Creating
  <2> QED BY <2>2 DEF IInv
<1>2. CASE Exit
  BY <1>2, ReleasedKeeps DEF Exit
<1>3. CASE Kill
  BY <1>3, ReleasedKeeps DEF Kill
<1>4. CASE Signal \/ Over
  <2>1. UNCHANGED <<pc, nic, xdp, res, created, alive, joins, scrubbed, ended>>
    BY <1>4 DEF Signal, Over, vars
  <2>2. ResShape' /\ Held' /\ Sockets' /\ Programs' /\ Scrubs' /\ Rings' /\ ThreadsJoined'
    <3>1. ResShape' /\ Held' /\ Scrubs' /\ Rings'
      BY <2>1 DEF IInv, ResShape, Held, Scrubs, Rings
    <3>2. Sockets' /\ Programs'
      BY <2>1 DEF IInv, Sockets, Programs, Want
    <3>3. ThreadsJoined'
      BY <2>1 DEF IInv, ThreadsJoined, Creating
    <3> QED BY <3>1, <3>2, <3>3
  <2> QED BY <2>2 DEF IInv
<1>5. ASSUME NEW t \in alive, ThreadExit(t) PROVE IInv'
  <2>1. /\ UNCHANGED <<pc, nic, xdp, res, created, joins, scrubbed, ended>>
        /\ alive' \subseteq alive
    BY <1>5 DEF ThreadExit
  <2>2. ResShape' /\ Held' /\ Sockets' /\ Programs' /\ Scrubs' /\ Rings'
    BY <2>1 DEF IInv, ResShape, Held, Sockets, Want, Programs, Scrubs, Rings
  <2>3. ThreadsJoined'
    BY <2>1 DEF IInv, ThreadsJoined, Creating
  <2> QED BY <2>2, <2>3 DEF IInv
<1> QED BY <1>1, <1>2, <1>3, <1>4, <1>5

LEMMA StutterKeeps == ASSUME IInv, UNCHANGED vars PROVE IInv'
<1>1. UNCHANGED <<pc, nic, xdp, res, created, alive, joins, scrubbed, ended>>
  BY DEF vars
<1>2. ResShape' /\ Held' /\ Sockets' /\ Programs' /\ Scrubs' /\ Rings' /\ ThreadsJoined'
  <2>1. ResShape' /\ Held' /\ Scrubs' /\ Rings'
    BY <1>1 DEF IInv, ResShape, Held, Scrubs, Rings
  <2>2. Sockets' /\ Programs'
    BY <1>1 DEF IInv, Sockets, Programs, Want
  <2>3. ThreadsJoined'
    BY <1>1 DEF IInv, ThreadsJoined, Creating
  <2> QED BY <2>1, <2>2, <2>3
<1> QED BY <1>2 DEF IInv

\* The state invariant of the whole life of the process: what is held at each
\* place, which sockets, programs and map entries are there, which threads run.
THEOREM LifeInvariance == Spec => []IInv
<1>1. ASSUME IInv, Next PROVE IInv'
  <2>1. CASE MainStep
    <3>1. CASE ForwarderInit
      BY <1>1, <3>1, BeginKeeps, OpenKeeps, OpenLanKeeps, OpenWanKeeps, RollbackLanKeeps, RollbackWanKeeps,
         PrefillKeeps, AttachKeeps, RingsKeep DEF ForwarderInit, PairOpen
    <3>2. CASE ForwarderRun
      BY <1>1, <3>2, RunKeeps, CreateKeeps, CreateFailsKeeps, JoinKeeps, JoinUnstartedKeeps DEF ForwarderRun
    <3>3. CASE ForwarderCleanup \/ CryptoCleanup
      BY <1>1, <3>3, CleanupKeeps
    <3>4. CASE Config \/ CryptoInit
      BY <1>1, <3>4, BeginKeeps
    <3>5. CASE Exit
      BY <1>1, <3>5, OutsideKeeps
    <3> QED BY <2>1, <3>1, <3>2, <3>3, <3>4, <3>5 DEF MainStep
  <2>2. CASE Start \/ Signal \/ Kill \/ Over \/ \E t \in alive : ThreadExit(t)
    BY <1>1, <2>2, OutsideKeeps
  <2> QED BY <1>1, <2>1, <2>2 DEF Next
<1>2. IInv /\ [Next]_vars => IInv'
  BY <1>1, StutterKeeps
<1> QED BY InitIInv, <1>2, PTL DEF Spec

-----------------------------------------------------------------------------
(* What it means.                                                          *)

\* No thread outlives what it works on, whichever call failed, wherever the stop
\* signal or a failed pthread_create came (forwarder_run, forwarder_cleanup).
THEOREM ThreadsAlwaysHaveAll == Spec => []ThreadsHaveAll
<1>1. IInv => ThreadsHaveAll
  <2> SUFFICES ASSUME IInv, alive # {} PROVE ThreadsHaveAll
    BY DEF ThreadsHaveAll
  <2>1. pc \in WithThreads
    BY DEF IInv, ThreadsJoined
  <2>2. res.rings = Len(RingOrder) /\ res.umem /\ res.efds /\ res.crypto /\ res.key /\ res.live = Ifaces
    BY <2>1 DEF IInv, Held, Rings
  <2>3. xdp = Ifaces
    BY <2>1 DEF IInv, Programs, ResShape, Ifaces
  <2>4. ASSUME NEW i \in Ifaces, NEW q \in Queues(i) PROVE Fate(i, q) = "socket"
    <3>1. res.xsk[i] = Want(i) /\ res.qcount[i] = Want(i) /\ res.xmap[i] = Want(i)
      BY <2>1 DEF IInv, Sockets, Programs, Ifaces
    <3>2. q < Want(i)
      BY WantPositive DEF IInv, Queues, Want
    <3> QED BY <2>3, <3>1, <3>2 DEF Fate
  <2> QED BY <2>2, <2>3, <2>4 DEF ThreadsHaveAll
<1> QED BY <1>1, LifeInvariance, PTL

\* xsk_umem__delete of ne_pair_close never meets an open socket.
THEOREM UmemOutlivesSockets == Spec => []UmemLast
<1>1. IInv => UmemLast
  BY DEF IInv, UmemLast, Sockets
<1> QED BY <1>1, LifeInvariance, PTL

\* A run that ends by itself after xdp_attach_prepare_init leaves no program
\* behind, its own or a crashed run's (xdp_attach_detach_config).
THEOREM StopsAreClean == Spec => []CleanStop
<1>1. IInv => CleanStop
  BY DEF IInv, CleanStop, Scrubs
<1> QED BY <1>1, LifeInvariance, PTL

\* open_iface_queues never binds a socket under a program an earlier run left.
THEOREM BindsAreClean == Spec => []BindClean
<1>1. IInv => BindClean
  BY DEF IInv, BindClean, Programs
<1> QED BY <1>1, LifeInvariance, PTL

-----------------------------------------------------------------------------
(* Arithmetic.                                                             *)

\* Products grow with their factors.
LEMMA MulMono ==
  ASSUME NEW a \in Nat, NEW b \in Nat, a <= b, NEW c \in Nat
  PROVE  a * c <= b * c /\ c * a <= c * b
<1>1. PICK e \in Nat : b = a + e
  <2>1. b - a \in Nat /\ b = a + (b - a)
    OBVIOUS
  <2> QED BY <2>1
<1>2. b * c = a * c + e * c /\ c * b = c * a + c * e
  BY <1>1
<1>3. a * c \in Nat /\ e * c \in Nat /\ c * a \in Nat /\ c * e \in Nat
  OBVIOUS
<1> QED BY <1>2, <1>3

\* A quotient times its divisor.
LEMMA DivBelow ==
  ASSUME NEW a \in Nat, NEW n \in Nat, n > 0
  PROVE  a \div n \in Nat /\ n * (a \div n) <= a
OBVIOUS

\* A set of numbers has a least one.
LEMMA LeastNumber ==
  ASSUME NEW S \in SUBSET Nat, S # {}
  PROVE  \E x \in S : \A y \in S : x <= y
<1> DEFINE R == OpToRel(<, Nat)
<1>1. IsWellFoundedOn(R, Nat)
  BY NatLessThanWellFounded
<1>2. PICK x \in S : \A y \in S : ~(<<y, x>> \in R)
  <2> HIDE DEF R
  <2> QED BY <1>1, WFMin
<1>3. \A y \in S : ~(y < x)
  BY <1>2 DEF OpToRel
<1> HIDE DEF R
<1>4. \A y \in S : x <= y
  BY <1>3
<1> QED BY <1>4

\* Induction on the numbers up to a bound, with a set for the predicate.
LEMMA UpTo ==
  ASSUME NEW n \in Nat, NEW S, 0 \in S, \A i \in 0 .. n - 1 : i \in S => i + 1 \in S
  PROVE  0 .. n \subseteq S
<1> DEFINE B == (0 .. n) \ S
<1>1. SUFFICES ASSUME B # {} PROVE FALSE
  OBVIOUS
<1>2. PICK x \in B : \A y \in B : x <= y
  <2>1. B \in SUBSET Nat
    OBVIOUS
  <2> QED BY <1>1, <2>1, LeastNumber
<1>3. x # 0 /\ x - 1 \in 0 .. n - 1
  BY <1>2
<1>4. x - 1 \in S
  BY <1>2, <1>3
<1> QED BY <1>2, <1>3, <1>4

-----------------------------------------------------------------------------
(* Who serves what, once all threads are up.                               *)

\* The places with a full pool, before the fill rings are filled.
WithPool == {"promisc", "scrub", "umem", "xsk_lan", "xsk_wan", "prefill"}

Share == PrefillOf(res.qcount["lan"], res.qcount["wan"])

\* The shares that the fill rings got, and the CPUs that the threads got.
PlanInv ==
  /\ pc \in WithPool => res.pool = NFrames
  /\ pc \in WithLive => (\A i \in Ifaces : res.fill[i] = {Share}) /\ 4 * res.pool >= NFrames
  /\ pc \in WithThreads => CpuMapValid(allowed) /\ allowed \subseteq Cpus
  /\ \A t \in alive : pinned[t] = PinnedTo(t, allowed)

\* The frames that all queues take together leave a quarter of the UMEM.
LEMMA ShareFits ==
  ASSUME NEW l \in 1 .. MaxQueues, NEW w \in 1 .. MaxQueues
  PROVE  /\ PrefillOf(l, w) \in Nat /\ PrefillOf(l, w) >= BatchSize
         /\ (l + w) * PrefillOf(l, w) <= (3 * NFrames) \div 4
<1> DEFINE b == (3 * NFrames) \div 4
           n == l + w
           d == b \div n
<1>1. /\ MaxQueues \in Nat /\ NFrames \in Nat /\ FqPrefill \in Nat /\ BatchSize \in Nat /\ BatchSize > 0
      /\ 2 * MaxQueues * BatchSize <= b
  BY PlanAssumption
<1>2. b \in Nat /\ n \in Nat /\ n > 0 /\ n <= 2 * MaxQueues
  BY <1>1
<1>3. PrefillOf(l, w) = LET per == Lesser(d, FqPrefill) IN IF per < BatchSize THEN BatchSize ELSE per
  BY DEF PrefillOf
<1>4. n * BatchSize <= b
  <2>1. n * BatchSize <= (2 * MaxQueues) * BatchSize
    BY <1>1, <1>2, MulMono
  <2> QED BY <1>1, <1>2, <2>1
<1> HIDE DEF b, n
<1>5. d \in Nat /\ n * d <= b
  BY <1>2, DivBelow
<1> HIDE DEF d
<1>6. CASE PrefillOf(l, w) = BatchSize
  BY <1>1, <1>4, <1>6 DEF n, b
<1>7. CASE PrefillOf(l, w) \in Nat /\ PrefillOf(l, w) >= BatchSize /\ PrefillOf(l, w) <= d
  <2>1. n * PrefillOf(l, w) <= n * d
    BY <1>2, <1>5, <1>7, MulMono
  <2>2. n * PrefillOf(l, w) \in Nat /\ n * d \in Nat
    BY <1>2, <1>5, <1>7
  <2> QED BY <1>2, <1>5, <1>7, <2>1, <2>2 DEF n, b
<1> QED BY <1>1, <1>3, <1>5, <1>6, <1>7 DEF Lesser

\* Interface i is live, each of its n queues with a share of per frames.
Filled(r, i, n, per) == [r EXCEPT !.pool = r.pool - n * per, !.live = @ \cup {i}, !.fill[i] = {per}]

\* Every queue of an interface gets its share, as long as there is enough.
LEMMA SharesTaken ==
  ASSUME NEW r, NEW i \in Ifaces, NEW n \in Nat, n > 0, r.qcount[i] = n, NEW per \in Nat,
         PrefillOf(r.qcount["lan"], r.qcount["wan"]) = per, r.pool \in Nat, n * per <= r.pool
  PROVE  PrefillQueues(r, i) = Filled(r, i, n, per)
<1> DEFINE P == r.pool
           F(f) == [q \in 0 .. n |-> IF q = 0 THEN P ELSE f[q - 1] - Lesser(per, f[q - 1])]
           g == [q \in 0 .. n |-> P - q * per]
           left == CHOOSE f : f = F(f)
<1>1. PrefillQueues(r, i) = [r EXCEPT !.pool = left[n], !.live = @ \cup {i},
                                      !.fill[i] = {Lesser(per, left[q - 1]) : q \in 1 .. n}]
  BY DEF PrefillQueues
<1>2. \A q \in 0 .. n : q * per \in Nat /\ q * per <= n * per
  BY MulMono
<1>3. ASSUME NEW q \in 0 .. n, q # 0
      PROVE  /\ q - 1 \in 0 .. n /\ g[q - 1] = P - q * per + per /\ Lesser(per, g[q - 1]) = per
             /\ g[q - 1] - per = P - q * per
  <2>1. q - 1 \in 0 .. n /\ (q - 1) * per = q * per - per
    BY <1>3
  <2>2. q * per \in Nat /\ q * per <= n * per /\ n * per \in Nat
    BY <1>2
  <2>3. g[q - 1] = P - (q - 1) * per
    BY <2>1
  <2> HIDE DEF g
  <2>4. g[q - 1] = P - q * per + per
    BY <2>1, <2>2, <2>3
  <2>5. q * per <= P
    BY <2>2
  <2>6. g[q - 1] \in Nat /\ g[q - 1] >= per
    BY <2>2, <2>4, <2>5
  <2> QED BY <2>1, <2>2, <2>4, <2>6 DEF Lesser
<1>4. g = F(g)
  <2>1. ASSUME NEW q \in 0 .. n PROVE g[q] = IF q = 0 THEN P ELSE g[q - 1] - Lesser(per, g[q - 1])
    <3>1. g[q] = P - q * per
      OBVIOUS
    <3>2. CASE q = 0
      BY <3>1, <3>2
    <3>3. CASE q # 0
      <4> HIDE DEF g
      <4> QED BY <1>3, <3>1, <3>3
    <3> QED BY <3>2, <3>3
  <2>2. g = [q \in 0 .. n |-> g[q]]
    OBVIOUS
  <2> HIDE DEF g
  <2> QED BY <2>1, <2>2
<1>5. left = F(left)
  <2> HIDE DEF g
  <2> QED BY <1>4
<1> HIDE DEF left
<1>6. 0 .. n \subseteq {q \in 0 .. n : left[q] = g[q]}
  <2> DEFINE S == {q \in 0 .. n : left[q] = g[q]}
  <2>1. \A q \in 0 .. n : left[q] = IF q = 0 THEN P ELSE left[q - 1] - Lesser(per, left[q - 1])
    BY <1>5
  <2>2. \A q \in 0 .. n : g[q] = IF q = 0 THEN P ELSE g[q - 1] - Lesser(per, g[q - 1])
    <3> HIDE DEF g
    <3> QED BY <1>4
  <2> HIDE DEF g
  <2>3. 0 \in S
    BY <2>1, <2>2
  <2>4. ASSUME NEW q \in 0 .. n - 1, q \in S PROVE q + 1 \in S
    <3>1. q + 1 \in 0 .. n /\ q + 1 # 0 /\ (q + 1) - 1 = q
      BY <2>4
    <3>2. left[q + 1] = left[q] - Lesser(per, left[q]) /\ g[q + 1] = g[q] - Lesser(per, g[q])
      BY <2>1, <2>2, <3>1
    <3> QED BY <2>4, <3>1, <3>2
  <2> HIDE DEF S
  <2>5. 0 .. n \subseteq S
    BY <2>3, <2>4, UpTo
  <2> QED BY <2>5 DEF S
<1>7. left[n] = P - n * per
  BY <1>6
<1>8. \A q \in 1 .. n : Lesser(per, left[q - 1]) = per
  <2> SUFFICES ASSUME NEW q \in 1 .. n PROVE Lesser(per, left[q - 1]) = per
    OBVIOUS
  <2>1. q \in 0 .. n /\ q # 0
    OBVIOUS
  <2>2. q - 1 \in 0 .. n /\ Lesser(per, g[q - 1]) = per
    BY <1>3, <2>1
  <2> HIDE DEF g
  <2>3. left[q - 1] = g[q - 1]
    BY <1>6, <2>2
  <2> QED BY <2>2, <2>3
<1>9. {Lesser(per, left[q - 1]) : q \in 1 .. n} = {per}
  <2>1. 1 \in 1 .. n
    OBVIOUS
  <2> QED BY <1>8, <2>1
<1> QED BY <1>1, <1>7, <1>9 DEF Filled

\* A record of what the process holds.
Shaped(r) ==
  /\ r.fill = [j \in Ifaces |-> r.fill[j]]
  /\ r = [xsk |-> r.xsk, xmap |-> r.xmap, qcount |-> r.qcount, fill |-> r.fill,
          live |-> r.live, bpf |-> r.bpf, umem |-> r.umem, pool |-> r.pool,
          rings |-> r.rings, efds |-> r.efds, crypto |-> r.crypto, key |-> r.key]

\* What that leaves of the other fields.
LEMMA FilledFields ==
  ASSUME NEW i \in Ifaces, NEW n, NEW per, NEW r, Shaped(r), NEW f, f = Filled(r, i, n, per)
  PROVE  /\ Shaped(f) /\ f.qcount = r.qcount /\ f.pool = r.pool - n * per
         /\ f.fill[i] = {per} /\ \A j \in Ifaces \ {i} : f.fill[j] = r.fill[j]
<1>1. f = [xsk |-> r.xsk, xmap |-> r.xmap, qcount |-> r.qcount, fill |-> [r.fill EXCEPT ![i] = {per}],
           live |-> r.live \cup {i}, bpf |-> r.bpf, umem |-> r.umem, pool |-> r.pool - n * per,
           rings |-> r.rings, efds |-> r.efds, crypto |-> r.crypto, key |-> r.key]
  BY DEF Filled, Shaped
<1>2. f.fill = [r.fill EXCEPT ![i] = {per}] /\ f.qcount = r.qcount /\ f.pool = r.pool - n * per
  BY <1>1
<1>3. /\ f.fill[i] = {per} /\ \A j \in Ifaces \ {i} : f.fill[j] = r.fill[j]
      /\ f.fill = [j \in Ifaces |-> f.fill[j]]
  BY <1>2 DEF Shaped
<1>4. f = [xsk |-> f.xsk, xmap |-> f.xmap, qcount |-> f.qcount, fill |-> f.fill,
           live |-> f.live, bpf |-> f.bpf, umem |-> f.umem, pool |-> f.pool,
           rings |-> f.rings, efds |-> f.efds, crypto |-> f.crypto, key |-> f.key]
  BY <1>1
<1> QED BY <1>2, <1>3, <1>4 DEF Shaped

USE DEF WithPool

\* prefill_iface of both interfaces: a quarter of the frames stays in the pool.
LEMMA PrefillPlan ==
  ASSUME IInv, PlanInv, Prefill
  PROVE  PlanInv'
<1> DEFINE l == res.qcount["lan"]
           w == res.qcount["wan"]
           per == PrefillOf(l, w)
           a == Filled(res, "lan", l, per)
           z == Filled(a, "wan", w, per)
<1>1. /\ pc = "prefill" /\ pc' = "load_lan" /\ res' = PrefillQueues(PrefillQueues(res, "lan"), "wan")
      /\ UNCHANGED <<alive, allowed, pinned>>
  BY DEF Prefill
<1>2. l \in 1 .. MaxQueues /\ w \in 1 .. MaxQueues
  <2>1. l = Want("lan") /\ w = Want("wan")
    BY <1>1 DEF IInv, Sockets
  <2>2. MaxQueues \in Nat /\ MaxQueues > 0 /\ nic["lan"] \in Nat /\ nic["wan"] \in Nat
    BY PlanAssumption DEF IInv, ResShape, Ifaces
  <2> QED BY <2>1, <2>2 DEF Want, ResolveQueues, GetQueueCount, Lesser
<1>3. /\ MaxQueues \in Nat /\ NFrames \in Nat /\ per \in Nat /\ (l + w) * per <= (3 * NFrames) \div 4
      /\ l \in Nat /\ w \in Nat /\ l > 0 /\ w > 0
  BY <1>2, ShareFits, PlanAssumption
<1>4. res.pool = NFrames
  BY <1>1 DEF PlanInv
<1> HIDE DEF per
<1>5. l * per \in Nat /\ w * per \in Nat /\ (l + w) * per = l * per + w * per
  BY <1>3
<1>6. 4 * (l * per + w * per) <= 3 * NFrames
  <2> DEFINE x == l * per + w * per
  <2>1. x \in Nat /\ x <= (3 * NFrames) \div 4
    BY <1>3, <1>5
  <2> HIDE DEF x
  <2>2. 4 * x <= 3 * NFrames
    BY <1>3, <2>1
  <2> QED BY <2>2 DEF x
<1>7. PrefillQueues(res, "lan") = a
  <2>1. l * per <= res.pool
    BY <1>3, <1>4, <1>5, <1>6
  <2>2. "lan" \in Ifaces /\ res.pool \in Nat
    BY <1>3, <1>4 DEF Ifaces
  <2>3. PrefillOf(res.qcount["lan"], res.qcount["wan"]) = per /\ res.qcount["lan"] = l
    BY DEF per
  <2> HIDE DEF l, w
  <2> QED BY <1>3, <2>1, <2>2, <2>3, SharesTaken
<1>8. a.qcount = res.qcount /\ a.pool = NFrames - l * per /\ a.fill["lan"] = {per} /\ Shaped(a)
  <2>1. Shaped(res) /\ "lan" \in Ifaces
    BY DEF IInv, ResShape, Ifaces, Shaped
  <2> HIDE DEF a, l, w
  <2>2. a = Filled(res, "lan", l, per)
    BY DEF a
  <2> QED BY <1>4, <2>1, <2>2, FilledFields
<1> HIDE DEF a
<1>9. PrefillQueues(a, "wan") = z
  <2>1. a.pool \in Nat /\ w * per <= a.pool
    BY <1>3, <1>5, <1>6, <1>8
  <2>2. "wan" \in Ifaces /\ a.qcount["wan"] = w /\ PrefillOf(a.qcount["lan"], a.qcount["wan"]) = per
    BY <1>8 DEF Ifaces, per
  <2> HIDE DEF l, w
  <2> QED BY <1>3, <2>1, <2>2, SharesTaken
<1>10. /\ z.qcount = a.qcount /\ z.pool = a.pool - w * per
       /\ z.fill["wan"] = {per} /\ z.fill["lan"] = a.fill["lan"]
  <2>1. "wan" \in Ifaces /\ "lan" \in Ifaces \ {"wan"}
    BY DEF Ifaces
  <2> HIDE DEF z, l, w
  <2>2. z = Filled(a, "wan", w, per)
    BY DEF z
  <2>3. "wan" \in Ifaces /\ Shaped(a)
    BY <1>8, <2>1
  <2>4. /\ Shaped(z) /\ z.qcount = a.qcount /\ z.pool = a.pool - w * per
        /\ z.fill["wan"] = {per} /\ \A j \in Ifaces \ {"wan"} : z.fill[j] = a.fill[j]
    BY <2>2, <2>3, FilledFields
  <2> QED BY <2>1, <2>4
<1>11. res' = z
  BY <1>1, <1>7, <1>9
<1> HIDE DEF z
<1>12. 4 * res'.pool >= NFrames
  <2>1. res'.pool = (NFrames - l * per) - w * per
    BY <1>8, <1>10, <1>11
  <2> QED BY <1>3, <1>5, <1>6, <2>1
<1>13. \A i \in Ifaces : res'.fill[i] = {per}
  BY <1>8, <1>10, <1>11 DEF Ifaces
<1>14. Share' = per
  BY <1>8, <1>10, <1>11 DEF Share, per
<1> QED BY <1>1, <1>12, <1>13, <1>14 DEF PlanInv

\* A step that leaves pool, shares and CPUs alone, or goes where none are needed.
LEMMA PlanKept ==
  ASSUME PlanInv, pc' \in WithPool => pc \in WithPool /\ res'.pool = res.pool,
         pc' \in WithLive => pc \in WithLive /\ res'.pool = res.pool /\ res'.fill = res.fill
                             /\ res'.qcount = res.qcount,
         pc' \in WithThreads => pc \in WithThreads, allowed' = allowed, alive' \subseteq alive,
         \A t \in alive' : pinned'[t] = pinned[t]
  PROVE  PlanInv'
<1>1. pc' \in WithLive => Share' = Share
  BY DEF Share
<1>2. /\ pc' \in WithPool => res'.pool = NFrames
      /\ pc' \in WithThreads => CpuMapValid(allowed') /\ allowed' \subseteq Cpus
      /\ \A t \in alive' : pinned'[t] = PinnedTo(t, allowed')
  BY DEF PlanInv
<1>3. pc' \in WithLive => (\A i \in Ifaces : res'.fill[i] = {Share'}) /\ 4 * res'.pool >= NFrames
  BY <1>1 DEF PlanInv
<1> QED BY <1>2, <1>3 DEF PlanInv

\* ResShape, for a change of one field.
LEMMA OtherFields ==
  ASSUME ResShape, NEW x
  PROVE  /\ \A r \in {[res EXCEPT !.efds = x], [res EXCEPT !.crypto = x], [res EXCEPT !.key = x],
                      [res EXCEPT !.umem = x], [res EXCEPT !.bpf = x], [res EXCEPT !.rings = x],
                      [res EXCEPT !.xmap = x], [res EXCEPT !.xsk = x]} :
              r.pool = res.pool /\ r.fill = res.fill /\ r.qcount = res.qcount
BY DEF ResShape

\* The steps of main that touch no thread.
LEMMA WayUpPlan ==
  ASSUME IInv, PlanInv,
         \/ Config \/ CryptoInit \/ InitBegin \/ Prepare \/ CheckAgain \/ PacketCryptoInit
         \/ Preflight("lan", "preflight_lan", "preflight_wan") \/ Preflight("wan", "preflight_wan", "pool")
  PROVE  PlanInv'
<1>1. UNCHANGED threads /\ pc' \notin WithPool /\ pc' \notin WithLive
  BY DEF Config, CryptoInit, InitBegin, Prepare, CheckAgain, PacketCryptoInit, Preflight, threads
<1> QED BY <1>1, PlanKept DEF threads

\* ne_pair_open takes no frame from the pool before prefill_iface.
LEMMA OpenPlan ==
  ASSUME IInv, PlanInv,
         \/ Promisc \/ Scrub \/ UmemCreate \/ OpenFailed
         \/ OpenQueue("lan", "xsk_lan", "xsk_wan") \/ OpenQueue("wan", "xsk_wan", "prefill")
         \/ OpenQueueFails("lan", "xsk_lan") \/ OpenQueueFails("wan", "xsk_wan")
  PROVE  PlanInv'
<1>1. UNCHANGED threads /\ pc' \notin WithLive /\ (pc' \in WithPool => pc \in WithPool)
  BY DEF Promisc, Scrub, UmemCreate, OpenFailed, OpenQueue, OpenQueueFails, threads
<1>2. res'.pool = res.pool
  BY DEF Promisc, Scrub, UmemCreate, OpenFailed, OpenQueue, OpenQueueFails, Rollback, IInv, ResShape
<1> QED BY <1>1, <1>2, PlanKept DEF threads

\* pool_init puts every frame into the pool.
LEMMA PoolPlan ==
  ASSUME IInv, PlanInv, PoolInit
  PROVE  PlanInv'
<1>1. CASE Step("pool", "promisc", [res EXCEPT !.pool = NFrames])
  <2>1. pc' = "promisc" /\ res'.pool = NFrames /\ UNCHANGED <<allowed, alive, pinned>>
    BY <1>1 DEF IInv, ResShape, threads
  <2> QED BY <2>1 DEF PlanInv
<1>2. CASE Fails("pool", "fail")
  <2>1. UNCHANGED threads /\ pc' \notin WithPool /\ pc' \notin WithLive
    BY <1>2 DEF threads
  <2> QED BY <2>1, PlanKept DEF threads
<1> QED BY <1>1, <1>2 DEF PoolInit

\* From the attachment on nobody refills or reopens a queue.
LEMMA AttachPlan ==
  ASSUME IInv, PlanInv, AttachAll \/ CheckAttached \/ RingInit \/ SetRunning
  PROVE  PlanInv'
<1>1. UNCHANGED threads /\ pc' \notin WithPool /\ pc' \notin WithThreads /\ pc \in WithLive
  BY DEF AttachAll, LoadBpf, AttachProg, MapQueue, CheckAttached, RingInit, SetRunning, threads
<1>2. res'.pool = res.pool /\ res'.fill = res.fill /\ res'.qcount = res.qcount
  BY DEF AttachAll, LoadBpf, AttachProg, MapQueue, CheckAttached, RingInit, SetRunning, IInv, ResShape
<1> QED BY <1>1, <1>2, PlanKept DEF threads

\* After the joins nothing is promised any more.
LEMMA WayDownPlan ==
  ASSUME IInv, PlanInv, JoinDone \/ ForwarderCleanup \/ CryptoCleanup
  PROVE  PlanInv'
<1>1. UNCHANGED threads /\ pc' \notin WithPool /\ pc' \notin WithLive
  BY DEF JoinDone, ForwarderCleanup, PairClose, DestroyRings, DeleteSockets, CloseBpf, Detach, FreeUmem,
         IdleShutdown, CryptoCleanup, threads
<1> QED BY <1>1, PlanKept DEF threads

\* What a process that is gone leaves to the next one.
LEMMA ReleasedPlan ==
  ASSUME Released, pc' = "down"
  PROVE  PlanInv'
BY DEF Released, PlanInv

\* forwarder_run starts no thread before ne_cpu_map_validate accepted the CPUs.
LEMMA RunPlan ==
  ASSUME IInv, PlanInv, RunBegin
  PROVE  PlanInv'
<1>1. PICK set \in CpuSets :
        allowed' = set /\ pc' = IF running /\ CpuMapValid(set) THEN "create" ELSE "close_rings"
  BY DEF RunBegin
<1>2. pc = "run" /\ UNCHANGED <<res, alive, pinned>>
  BY DEF RunBegin
<1>3. set \subseteq Cpus
  BY DEF CpuSets
<1>4. alive = {}
  BY <1>2 DEF IInv, ThreadsJoined
<1>5. pc' \in WithThreads => CpuMapValid(allowed') /\ allowed' \subseteq Cpus
  BY <1>1, <1>3
<1>6. pc' \in WithLive => (\A i \in Ifaces : res'.fill[i] = {Share'}) /\ 4 * res'.pool >= NFrames
  <2>1. Share' = Share
    BY <1>2 DEF Share
  <2> QED BY <1>2, <2>1 DEF PlanInv
<1>7. pc' \notin WithPool
  BY <1>1
<1> QED BY <1>2, <1>4, <1>5, <1>6, <1>7 DEF PlanInv

\* A new thread pins itself.
LEMMA CreatePlan ==
  ASSUME IInv, PlanInv, Create
  PROVE  PlanInv'
<1> DEFINE t == Creating[created + 1]
<1>1. /\ pc = "create" /\ pc' \in {"create", "join"} /\ res' = res /\ allowed' = allowed
      /\ alive' = alive \cup {t}
      /\ pinned' = [u \in alive' |-> IF u = t THEN PinnedTo(t, allowed) ELSE pinned[u]]
  BY DEF Create
<1> HIDE DEF t
<1>2. \A u \in alive' : pinned'[u] = PinnedTo(u, allowed')
  BY <1>1 DEF PlanInv
<1>3. Share' = Share
  BY <1>1 DEF Share
<1> QED BY <1>1, <1>2, <1>3 DEF PlanInv

\* Threads that leave and joins change nobody's CPU.
LEMMA JoinPlan ==
  ASSUME IInv, PlanInv, CreateFails \/ Join \/ (\E t \in alive : ThreadExit(t))
  PROVE  PlanInv'
<1>1. res' = res /\ allowed' = allowed /\ alive' \subseteq alive
  BY DEF CreateFails, Join, ThreadExit
<1>2. \A u \in alive' : pinned'[u] = pinned[u]
  BY <1>1 DEF CreateFails, Join, ThreadExit
<1>3. pc' = pc \/ (pc = "create" /\ pc' = "join")
  BY DEF CreateFails, Join, ThreadExit
<1> QED BY <1>1, <1>2, <1>3, PlanKept

\* A join of a handle that was never filled returns, or ends the process.
LEMMA UnstartedPlan ==
  ASSUME IInv, PlanInv, JoinUnstarted
  PROVE  PlanInv'
<1>1. CASE Released /\ pc' = "down"
  BY <1>1, ReleasedPlan
<1>2. CASE UNCHANGED <<pc, res, allowed, alive, pinned>>
  BY <1>2, PlanKept
<1> QED BY <1>1, <1>2 DEF JoinUnstarted

\* Starts, signals, crashes and the end of main.
LEMMA OutsidePlan ==
  ASSUME IInv, PlanInv, Start \/ Exit \/ Signal \/ Kill \/ Over
  PROVE  PlanInv'
<1>1. CASE Exit \/ Kill
  BY <1>1, ReleasedPlan DEF Exit, Kill
<1>2. CASE Start
  <2>1. UNCHANGED threads /\ pc' \notin WithPool /\ pc' \notin WithLive
    BY <1>2 DEF Start
  <2> QED BY <2>1, PlanKept DEF threads
<1>3. CASE Signal \/ Over
  <2>1. UNCHANGED <<pc, res, allowed, alive, pinned>>
    BY <1>3 DEF Signal, Over, vars, threads
  <2> QED BY <2>1, PlanKept
<1> QED BY <1>1, <1>2, <1>3

\* Before the first start there is nothing to serve.
LEMMA PlanInit == Init => PlanInv
BY DEF Init, PlanInv

\* Every step keeps the plan.
LEMMA PlanStep ==
  ASSUME IInv, PlanInv, [Next]_vars
  PROVE  PlanInv'
<1>1. CASE UNCHANGED vars
  <2>1. UNCHANGED <<pc, res, allowed, alive, pinned>>
    BY <1>1 DEF vars, threads
  <2> QED BY <2>1, PlanKept
<1>2. CASE Start \/ Exit \/ Signal \/ Kill \/ Over
  BY <1>2, OutsidePlan
<1>3. CASE \E t \in alive : ThreadExit(t)
  BY <1>3, JoinPlan
<1>4. CASE ForwarderInit
  BY <1>4, WayUpPlan, OpenPlan, PoolPlan, PrefillPlan, AttachPlan DEF ForwarderInit, PairOpen
<1>5. CASE ForwarderRun
  BY <1>5, RunPlan, CreatePlan, JoinPlan, UnstartedPlan, WayDownPlan DEF ForwarderRun
<1>6. CASE Config \/ CryptoInit
  BY <1>6, WayUpPlan
<1>7. CASE ForwarderCleanup \/ CryptoCleanup
  BY <1>7, WayDownPlan
<1> QED BY <1>1, <1>2, <1>3, <1>4, <1>5, <1>6, <1>7 DEF Next, MainStep

\* Through the whole life of the process: after prefill_iface every fill ring has
\* its full share and a quarter of the frames is left; threads exist only on a CPU
\* map that ne_cpu_map_validate accepted, and each runs where pin_cpu put it.
THEOREM PlanInvariance == Spec => []PlanInv
<1>1. IInv /\ PlanInv /\ [Next]_vars => PlanInv'
  BY PlanStep
<1> QED BY <1>1, PlanInit, LifeInvariance, PTL DEF Spec

-----------------------------------------------------------------------------
(* What the plan gives once all threads are up.                            *)

\* The threads of a role.
Slots(role, n) == {<<role, k - 1>> : k \in 1 .. n}

\* The threads of four groups, in the order in which they are created and checked.
Team(a, b, c, d) == Group("lan_rx", a) \o Group("tx", b) \o Group("crypto", c) \o Group("wan_rx", d)

\* Nobody is lost between the groups.
LEMMA FourGroups ==
  ASSUME NEW a \in Nat, NEW b \in Nat, NEW c \in Nat, NEW d \in Nat
  PROVE  /\ Team(a, b, c, d) \in Seq(AllThreads)
         /\ Range(Team(a, b, c, d))
              = Slots("lan_rx", a) \cup Slots("tx", b) \cup Slots("crypto", c) \cup Slots("wan_rx", d)
<1> DEFINE A == Group("lan_rx", a)
           B == Group("tx", b)
           C == Group("crypto", c)
           D == Group("wan_rx", d)
           RA == Slots("lan_rx", a)
           RB == Slots("tx", b)
           RC == Slots("crypto", c)
           RD == Slots("wan_rx", d)
<1>1. /\ A \in Seq(AllThreads) /\ B \in Seq(AllThreads) /\ C \in Seq(AllThreads) /\ D \in Seq(AllThreads)
      /\ Range(A) = RA /\ Range(B) = RB /\ Range(C) = RC /\ Range(D) = RD
  BY GroupSeq DEF Roles, Slots
<1> HIDE DEF A, B, C, D, RA, RB, RC, RD
<1> DEFINE AB == A \o B
           ABC == AB \o C
           ABCD == ABC \o D
<1>2. AB \in Seq(AllThreads) /\ Range(AB) = RA \cup RB
  BY <1>1, Concat
<1> HIDE DEF AB
<1>3. ABC \in Seq(AllThreads) /\ Range(ABC) = RA \cup RB \cup RC
  BY <1>1, <1>2, Concat
<1> HIDE DEF ABC
<1>4. ABCD \in Seq(AllThreads) /\ Range(ABCD) = RA \cup RB \cup RC \cup RD
  BY <1>1, <1>3, Concat
<1> HIDE DEF ABCD
<1>5. Team(a, b, c, d) = ABCD
  BY DEF AB, ABC, ABCD, Team, A, B, C, D
<1> QED BY <1>4, <1>5 DEF RA, RB, RC, RD

\* How many slots an interface uses.
LEMMA SlotsUsed ==
  ASSUME NEW l \in 1 .. MaxQueues, NEW slots \in Nat \ {0}
  PROVE  /\ RxSlotsFor(l, slots) \in Nat /\ RxSlotsFor(l, slots) > 0
         /\ RxSlotsFor(l, slots) <= l /\ RxSlotsFor(l, slots) <= slots
         /\ RxSlotsFor(l, slots) = Lesser(l, slots)
BY PlanAssumption DEF RxSlotsFor, Lesser

\* The remainder of a queue number.
LEMMA ModFacts ==
  ASSUME NEW q \in Nat, NEW n \in Nat, n > 0
  PROVE  q % n \in 0 .. n - 1 /\ q % n <= q /\ (q < n => q % n = q)
OBVIOUS

\* A slot polls exactly the queues it reads: the poll set never overflows.
LEMMA Polled ==
  ASSUME NEW l \in 1 .. MaxQueues, NEW slots \in Nat \ {0}, NEW q \in 0 .. l - 1, NEW slot \in Nat
  PROVE  q \in PollFds(slot, l, slots, l) <=> slot < RxSlotsFor(l, slots) /\ q % RxSlotsFor(l, slots) = slot
<1> DEFINE mine == {p \in RxQueues(slot, l, slots) : p < l}
           less == {p \in mine : p < q}
<1>1. MaxQueues \in Nat /\ PollMax \in Nat /\ MaxQueues <= PollMax
  BY PlanAssumption
<1>2. less \subseteq 0 .. q - 1
  BY <1>1 DEF RxQueues
<1>3. IsFiniteSet(0 .. q - 1) /\ Cardinality(0 .. q - 1) = q
  <2>1. 0 \in Int /\ q - 1 \in Int
    BY <1>1
  <2>2. Cardinality(0 .. q - 1) = IF 0 > q - 1 THEN 0 ELSE (q - 1) - 0 + 1
    BY <2>1, FS_Interval
  <2> QED BY <1>1, <2>1, <2>2, FS_Interval
<1> HIDE DEF less
<1>4. Cardinality(less) \in Nat /\ Cardinality(less) <= q
  <2>1. IsFiniteSet(less) /\ Cardinality(less) <= Cardinality(0 .. q - 1)
    BY <1>2, <1>3, FS_Subset
  <2> QED BY <1>3, <2>1, FS_CardinalityType
<1>5. Cardinality(less) < PollMax
  BY <1>1, <1>4
<1>6. q \in PollFds(slot, l, slots, l) <=> q \in mine /\ Cardinality(less) < PollMax
  BY DEF PollFds, less
<1>7. q \in mine <=> RxServes(q, slot, l, slots)
  BY <1>1 DEF RxQueues
<1> HIDE DEF mine
<1> QED BY <1>5, <1>6, <1>7 DEF RxServes

\* The threads of T that read queue q of an interface.
Pollers(T, role, q, l, slots) == {t \in T : t[1] = role /\ q \in PollFds(t[2], l, slots, l)}

\* Exactly one thread of the interface's slots reads a queue.
LEMMA OnePoller ==
  ASSUME NEW l \in 1 .. MaxQueues, NEW slots \in Nat \ {0}, NEW q \in 0 .. l - 1, NEW role, NEW T,
         Slots(role, RxSlotsFor(l, slots)) \subseteq T,
         \A t \in T : t[1] = role => t \in Slots(role, RxSlotsFor(l, slots))
  PROVE  Cardinality(Pollers(T, role, q, l, slots)) = 1
<1> DEFINE n == RxSlotsFor(l, slots)
           s == q % n
           S == Pollers(T, role, q, l, slots)
<1>1. n \in Nat /\ n > 0 /\ q \in Nat /\ l \in Nat
  BY SlotsUsed, PlanAssumption
<1>2. s \in 0 .. n - 1
  BY <1>1, ModFacts
<1>3. \A k \in 1 .. n : q \in PollFds(k - 1, l, slots, l) <=> s = k - 1
  <2> SUFFICES ASSUME NEW k \in 1 .. n PROVE q \in PollFds(k - 1, l, slots, l) <=> s = k - 1
    OBVIOUS
  <2>1. k - 1 \in Nat /\ k - 1 < n
    BY <1>1
  <2> QED BY <2>1, Polled
<1>4. Slots(role, n) \subseteq T /\ \A t \in T : t[1] = role => t \in Slots(role, n)
  OBVIOUS
<1> HIDE DEF n, s
<1>5. s + 1 \in 1 .. n /\ (s + 1) - 1 = s /\ s \in Int
  BY <1>1, <1>2
<1>6. <<role, s>> \in S
  <2>1. <<role, s>> \in Slots(role, n)
    BY <1>5 DEF Slots
  <2>2. <<role, s>> \in T
    BY <1>4, <2>1
  <2>3. q \in PollFds(s, l, slots, l)
    BY <1>3, <1>5
  <2> QED BY <2>2, <2>3 DEF Pollers
<1>7. ASSUME NEW t \in S PROVE t = <<role, s>>
  <2>1. t \in T /\ t[1] = role /\ q \in PollFds(t[2], l, slots, l)
    BY <1>7 DEF Pollers
  <2>2. PICK k \in 1 .. n : t = <<role, k - 1>>
    BY <1>4, <2>1 DEF Slots
  <2>3. t[2] = k - 1
    BY <2>2
  <2>4. s = k - 1
    BY <1>3, <2>1, <2>3
  <2> QED BY <2>2, <2>4
<1> HIDE DEF S
<1>8. S = {<<role, s>>}
  BY <1>6, <1>7
<1>9. Cardinality(S) = 1
  BY <1>8, FS_Singleton
<1> QED BY <1>9 DEF S

\* The first queue that an active slot serves is the one of its own number.
LEMMA OwnQueue ==
  ASSUME NEW l \in 1 .. MaxQueues, NEW s \in Nat, s < l, s < TxSlots
  PROVE  TxPrimary(s, l) = s
<1> DEFINE n == RxSlotsFor(l, TxSlots)
           mine == {q \in 0 .. l - 1 : TxServes(q, s, l)}
<1>1. TxSlots \in Nat \ {0} /\ MaxQueues \in Nat /\ l \in Nat
  BY PlanAssumption
<1>2. n \in Nat /\ n > 0 /\ n = Lesser(l, TxSlots)
  BY <1>1, SlotsUsed
<1>3. s < n
  BY <1>1, <1>2 DEF Lesser
<1>4. \A q \in 0 .. l - 1 : TxServes(q, s, l) <=> q % n = s
  BY <1>3 DEF TxServes
<1> HIDE DEF n
<1>5. s \in mine
  <2>1. s % n = s /\ s \in 0 .. l - 1
    BY <1>1, <1>2, <1>3, ModFacts
  <2> QED BY <1>4, <2>1
<1>6. \A q \in mine : q \in Int /\ s <= q
  <2> SUFFICES ASSUME NEW q \in mine PROVE q \in Int /\ s <= q
    OBVIOUS
  <2>1. q \in Nat /\ q % n = s
    BY <1>1, <1>4
  <2> QED BY <1>2, <2>1, ModFacts
<1>7. TxPrimary(s, l) = IF mine = {} THEN -1 ELSE Min(mine)
  BY DEF TxPrimary
<1> HIDE DEF mine
<1>8. Min(mine) = s
  <2>1. Min(mine) \in mine /\ \A y \in mine : Min(mine) <= y
    <3>1. \E x \in mine : \A y \in mine : x <= y
      BY <1>5, <1>6
    <3> QED BY <3>1 DEF Min
  <2>2. Min(mine) \in Int /\ s <= Min(mine) /\ Min(mine) <= s
    BY <1>5, <1>6, <2>1
  <2> QED BY <2>2
<1> QED BY <1>5, <1>7, <1>8

\* Every output ring is one that forwarder_init initialises.
LEMMA OutputsExist ==
  ASSUME NEW s \in Nat, s < Crypto
  PROVE  TxRings(s) \subseteq Range(SubSeq(RingOrder, 1, Len(RingOrder)))
<1> DEFINE R == {"local_to_mid", "wan_to_mid", "mid_to_local", "mid_to_wan"} \X Int
           I == InputRings
           L == OutputRings("mid_to_local")
           W == OutputRings("mid_to_wan")
           IL == I \o L
<1>1. Crypto \in Nat /\ s + 1 \in 1 .. Crypto /\ (s + 1) - 1 = s
  BY PlanAssumption
<1>2. I \in Seq(R)
  <2>1. ASSUME NEW k \in 1 .. 2 * Crypto
        PROVE  <<IF k % 2 = 1 THEN "local_to_mid" ELSE "wan_to_mid", (k - 1) \div 2>> \in R
    BY <1>1, <2>1
  <2>2. I \in [1 .. 2 * Crypto -> R]
    BY <2>1 DEF InputRings
  <2>3. 2 * Crypto \in Nat
    BY <1>1
  <2> QED BY <2>2, <2>3, SeqDef
<1>3. ASSUME NEW kind \in {"mid_to_local", "mid_to_wan"}
      PROVE  OutputRings(kind) \in Seq(R) /\ <<kind, s>> \in Range(OutputRings(kind))
  <2>1. ASSUME NEW k \in 1 .. Crypto PROVE <<kind, k - 1>> \in R
    BY <1>1, <2>1
  <2>2. OutputRings(kind) \in [1 .. Crypto -> R]
    BY <2>1 DEF OutputRings
  <2>3. OutputRings(kind) \in Seq(R)
    BY <1>1, <2>2, SeqDef
  <2>4. OutputRings(kind)[s + 1] = <<kind, s>> /\ DOMAIN OutputRings(kind) = 1 .. Crypto
    BY <1>1 DEF OutputRings
  <2>5. <<kind, s>> \in Range(OutputRings(kind))
    BY <1>1, <2>4 DEF Range
  <2> QED BY <2>3, <2>5
<1>4. L \in Seq(R) /\ W \in Seq(R) /\ <<"mid_to_local", s>> \in Range(L) /\ <<"mid_to_wan", s>> \in Range(W)
  BY <1>3
<1> HIDE DEF R, I, L, W
<1>5. IL \in Seq(R) /\ Range(IL) = Range(I) \cup Range(L)
  BY <1>2, <1>4, Concat
<1> HIDE DEF IL
<1>6. IL \o W \in Seq(R) /\ Range(IL \o W) = Range(IL) \cup Range(W)
  BY <1>4, <1>5, Concat
<1>7. RingOrder = IL \o W
  BY DEF RingOrder, IL, I, L, W
<1>8. RingOrder \in Seq(R) /\ TxRings(s) \subseteq Range(RingOrder)
  BY <1>4, <1>5, <1>6, <1>7 DEF TxRings
<1>9. SubSeq(RingOrder, 1, Len(RingOrder)) = RingOrder
  <2> DEFINE o == RingOrder
  <2>1. o \in Seq(R)
    BY <1>8
  <2> HIDE DEF o
  <2>2. SubSeq(o, 1, Len(o)) = o
    BY <2>1
  <2> QED BY <2>2 DEF o
<1> QED BY <1>8, <1>9

\* The table of ne_cpu_map_validate gives its threads CPUs of their own.
LEMMA OwnCpu ==
  ASSUME NEW set \in SUBSET Cpus, CpuMapValid(set), NEW t \in Range(CpuTable), NEW u \in Range(CpuTable)
  PROVE  PinnedTo(t, set) # -1 /\ (t # u => PinnedTo(t, set) # PinnedTo(u, set))
<1>1. CpuTable \in Seq(AllThreads)
  <2>1. CpuTable = Team(RxLan, TxSlots, Crypto, RxWan)
    BY DEF CpuTable, Team
  <2>2. RxLan \in Nat /\ TxSlots \in Nat /\ Crypto \in Nat /\ RxWan \in Nat
    BY PlanAssumption
  <2> QED BY <2>1, <2>2, FourGroups
<1>2. Len(CpuTable) \in Nat /\ DOMAIN CpuTable = 1 .. Len(CpuTable)
  BY <1>1, LenProperties
<1>3. PICK j \in 1 .. Len(CpuTable), k \in 1 .. Len(CpuTable) : CpuTable[j] = t /\ CpuTable[k] = u
  BY <1>2 DEF Range
<1>4. ValidEntry(j, set) /\ ValidEntry(k, set)
  BY DEF CpuMapValid
<1>5. CpuOf(t) \in set /\ CpuOf(u) \in set
  BY <1>3, <1>4 DEF ValidEntry
<1>6. PinnedTo(t, set) = CpuOf(t) /\ PinnedTo(u, set) = CpuOf(u)
  BY <1>5 DEF PinnedTo
<1>7. CpuOf(t) # -1
  <2>1. CpuOf(t) \in 0 .. Len(CpuTable) - 1
    BY <1>5 DEF Cpus
  <2> HIDE DEF CpuOf
  <2> QED BY <1>2, <2>1
<1>8. t # u => CpuOf(t) # CpuOf(u)
  <2>1. j < k => CpuOf(t) # CpuOf(u)
    <3>1. j < k => j \in 1 .. k - 1
      BY <1>2
    <3> QED BY <1>3, <1>4, <3>1 DEF ValidEntry
  <2>2. k < j => CpuOf(t) # CpuOf(u)
    <3>1. k < j => k \in 1 .. j - 1
      BY <1>2
    <3> QED BY <1>3, <1>4, <3>1 DEF ValidEntry
  <2>3. t # u => j < k \/ k < j
    BY <1>2, <1>3
  <2> QED BY <2>1, <2>2, <2>3
<1> QED BY <1>6, <1>7, <1>8

\* The threads that are up, and what they find.
LEMMA WhenUp ==
  ASSUME IInv, AllUp
  PROVE  LET l == res.qcount["lan"]  w == res.qcount["wan"]  n == ActiveTx(l, w) IN
         /\ l \in 1 .. MaxQueues /\ w \in 1 .. MaxQueues
         /\ res.xsk["lan"] = l /\ res.xsk["wan"] = w
         /\ Queues("lan") = 0 .. l - 1 /\ Queues("wan") = 0 .. w - 1
         /\ n \in Nat /\ n <= TxSlots /\ n <= l /\ n <= w
         /\ alive = Slots("lan_rx", RxSlotsFor(l, RxLan))
                    \cup Slots("tx", n)
                    \cup Slots("crypto", Crypto)
                    \cup Slots("wan_rx", RxSlotsFor(w, RxWan))
         /\ alive \subseteq Range(CpuTable)
<1> DEFINE l == res.qcount["lan"]
           w == res.qcount["wan"]
           n == ActiveTx(l, w)
           a == RxSlotsFor(l, RxLan)
           d == RxSlotsFor(w, RxWan)
<1>1. pc = "join" /\ alive = Range(Creating)
  BY DEF AllUp
<1>2. /\ l = Want("lan") /\ w = Want("wan") /\ res.xsk["lan"] = l /\ res.xsk["wan"] = w
      /\ nic["lan"] \in Nat /\ nic["wan"] \in Nat
  BY <1>1 DEF IInv, Sockets, ResShape, Ifaces
<1>3. {RxLan, RxWan, TxSlots, Crypto, MaxQueues} \subseteq Nat \ {0}
  BY PlanAssumption
<1>4. l \in 1 .. MaxQueues /\ w \in 1 .. MaxQueues
  BY <1>2, <1>3 DEF Want, ResolveQueues, GetQueueCount, Lesser
<1>5. Queues("lan") = 0 .. l - 1 /\ Queues("wan") = 0 .. w - 1
  BY <1>2 DEF Queues, Want
<1>6. Creating = Team(a, n, Crypto, d)
  BY DEF Creating, CreateOrder, Team
<1> HIDE DEF l, w
<1>7. n \in Nat /\ n <= TxSlots /\ n <= l /\ n <= w
  BY <1>3, <1>4 DEF ActiveTx, Lesser
<1>8. a \in Nat /\ a <= RxLan /\ d \in Nat /\ d <= RxWan
  BY <1>3, <1>4, SlotsUsed
<1> HIDE DEF a, n, d
<1>9. alive = Slots("lan_rx", a) \cup Slots("tx", n)
              \cup Slots("crypto", Crypto) \cup Slots("wan_rx", d)
  <2>1. a \in Nat /\ n \in Nat /\ Crypto \in Nat /\ d \in Nat
    BY <1>3, <1>7, <1>8
  <2>2. Range(Team(a, n, Crypto, d))
          = Slots("lan_rx", a) \cup Slots("tx", n) \cup Slots("crypto", Crypto) \cup Slots("wan_rx", d)
    BY <2>1, FourGroups
  <2> QED BY <1>1, <1>6, <2>2, Zenon
<1>10. alive \subseteq Range(CpuTable)
  <2>1. Range(CpuTable)
          = Slots("lan_rx", RxLan) \cup Slots("tx", TxSlots)
            \cup Slots("crypto", Crypto) \cup Slots("wan_rx", RxWan)
    <3>1. CpuTable = Team(RxLan, TxSlots, Crypto, RxWan)
      BY DEF CpuTable, Team
    <3>2. RxLan \in Nat /\ TxSlots \in Nat /\ Crypto \in Nat /\ RxWan \in Nat
      BY <1>3
    <3>3. Range(Team(RxLan, TxSlots, Crypto, RxWan))
            = Slots("lan_rx", RxLan) \cup Slots("tx", TxSlots) \cup Slots("crypto", Crypto)
              \cup Slots("wan_rx", RxWan)
      BY <3>2, FourGroups
    <3> QED BY <3>1, <3>3, Zenon
  <2>2. 1 .. a \subseteq 1 .. RxLan /\ 1 .. n \subseteq 1 .. TxSlots /\ 1 .. d \subseteq 1 .. RxWan
    BY <1>3, <1>7, <1>8
  <2>3. /\ Slots("lan_rx", a) \subseteq Slots("lan_rx", RxLan) /\ Slots("tx", n) \subseteq Slots("tx", TxSlots)
        /\ Slots("wan_rx", d) \subseteq Slots("wan_rx", RxWan)
    BY <2>2 DEF Slots
  <2> QED BY <1>9, <2>1, <2>3
<1> QED BY <1>2, <1>4, <1>5, <1>7, <1>9, <1>10 DEF l, w, n, a, d

\* Each receive queue has one reader, frames to fill, and a quarter is left for TX.
LEMMA UpRxServed ==
  ASSUME IInv, PlanInv, AllUp
  PROVE  RxServed
<1> DEFINE l == res.qcount["lan"]
           w == res.qcount["wan"]
           n == ActiveTx(l, w)
<1>1. /\ l \in 1 .. MaxQueues /\ w \in 1 .. MaxQueues /\ res.xsk["lan"] = l /\ res.xsk["wan"] = w
      /\ Queues("lan") = 0 .. l - 1 /\ Queues("wan") = 0 .. w - 1
      /\ alive = Slots("lan_rx", RxSlotsFor(l, RxLan))
                 \cup Slots("tx", n)
                 \cup Slots("crypto", Crypto)
                 \cup Slots("wan_rx", RxSlotsFor(w, RxWan))
  BY WhenUp
<1>2. RxLan \in Nat \ {0} /\ RxWan \in Nat \ {0}
  BY PlanAssumption
<1>3. pc \in WithLive
  BY DEF AllUp
<1>4. (\A i \in Ifaces : res.fill[i] = {Share}) /\ 4 * res.pool >= NFrames
  BY <1>3 DEF PlanInv
<1>5. Share \in Nat /\ Share >= BatchSize
  BY <1>1, ShareFits DEF Share
<1>6. /\ \A i \in Ifaces : \A f \in res.fill[i] : f >= BatchSize
      /\ Cardinality(res.fill["lan"] \cup res.fill["wan"]) = 1
  <2>1. res.fill["lan"] \cup res.fill["wan"] = {Share}
    BY <1>4 DEF Ifaces
  <2> QED BY <1>4, <1>5, <2>1, FS_Singleton
<1> HIDE DEF l, w, n
<1>7. ASSUME NEW q \in Queues("lan")
      PROVE  Cardinality(Pollers(alive, "lan_rx", q, l, RxLan)) = 1
  <2>1. /\ Slots("lan_rx", RxSlotsFor(l, RxLan)) \subseteq alive
        /\ \A t \in alive : t[1] = "lan_rx" => t \in Slots("lan_rx", RxSlotsFor(l, RxLan))
    BY <1>1 DEF Slots
  <2>2. l \in 1 .. MaxQueues /\ q \in 0 .. l - 1
    BY <1>1
  <2> QED BY <1>2, <2>1, <2>2, OnePoller
<1>8. ASSUME NEW q \in Queues("wan")
      PROVE  Cardinality(Pollers(alive, "wan_rx", q, w, RxWan)) = 1
  <2>1. /\ Slots("wan_rx", RxSlotsFor(w, RxWan)) \subseteq alive
        /\ \A t \in alive : t[1] = "wan_rx" => t \in Slots("wan_rx", RxSlotsFor(w, RxWan))
    BY <1>1 DEF Slots
  <2>2. w \in 1 .. MaxQueues /\ q \in 0 .. w - 1
    BY <1>1
  <2> QED BY <1>2, <2>1, <2>2, OnePoller
<1>9. \A q \in Queues("lan") : Quantify(alive, LAMBDA t :
        t[1] = "lan_rx" /\ q \in PollFds(t[2], res.qcount["lan"], RxLan, res.xsk["lan"])) = 1
  BY <1>1, <1>7 DEF Quantify, Pollers, l
<1>10. \A q \in Queues("wan") : Quantify(alive, LAMBDA t :
         t[1] = "wan_rx" /\ q \in PollFds(t[2], res.qcount["wan"], RxWan, res.xsk["wan"])) = 1
  BY <1>1, <1>8 DEF Quantify, Pollers, w
<1> QED BY <1>4, <1>6, <1>9, <1>10 DEF RxServed

\* Each TX slot in use has a thread, a queue on both sides, rings and a wake-up.
LEMMA UpTxOwned ==
  ASSUME IInv, AllUp
  PROVE  TxOwned
<1> DEFINE l == res.qcount["lan"]
           w == res.qcount["wan"]
           n == ActiveTx(l, w)
<1>1. /\ l \in 1 .. MaxQueues /\ w \in 1 .. MaxQueues /\ res.xsk["lan"] = l /\ res.xsk["wan"] = w
      /\ n \in Nat /\ n <= TxSlots /\ n <= l /\ n <= w
      /\ alive = Slots("lan_rx", RxSlotsFor(l, RxLan))
                 \cup Slots("tx", n)
                 \cup Slots("crypto", Crypto)
                 \cup Slots("wan_rx", RxSlotsFor(w, RxWan))
  BY WhenUp
<1>2. TxSlots \in Nat \ {0} /\ Crypto \in Nat \ {0} /\ TxSlots <= Crypto /\ MaxQueues \in Nat
  BY PlanAssumption
<1>3. res.rings = Len(RingOrder)
  BY DEF IInv, Rings, AllUp
<1> HIDE DEF l, w, n
<1>4. \A s \in 0 .. TxSlots - 1 : <<"tx", s>> \in alive <=> s \in 0 .. n - 1
  <2> SUFFICES ASSUME NEW s \in 0 .. TxSlots - 1 PROVE <<"tx", s>> \in alive <=> s \in 0 .. n - 1
    OBVIOUS
  <2>1. <<"tx", s>> \in alive <=> \E k \in 1 .. n : s = k - 1
    BY <1>1 DEF Slots
  <2>2. (\E k \in 1 .. n : s = k - 1) => s \in 0 .. n - 1
    BY <1>1
  <2>3. s \in 0 .. n - 1 => s + 1 \in 1 .. n /\ s = (s + 1) - 1
    BY <1>1
  <2> QED BY <2>1, <2>2, <2>3
<1>5. {s \in 0 .. TxSlots - 1 : <<"tx", s>> \in alive} = 0 .. n - 1
  BY <1>1, <1>2, <1>4
<1>6. ASSUME NEW s \in 0 .. TxSlots - 1, <<"tx", s>> \in alive
      PROVE  /\ WakeOfRing(s) = WakeId(<<"tx", s>>)
             /\ TxRings(s) \subseteq Range(SubSeq(RingOrder, 1, res.rings))
             /\ \A i \in Ifaces : TxPrimary(s, res.qcount[i]) = s /\ s \in 0 .. res.xsk[i] - 1
  <2>1. s \in Nat /\ s < n /\ s < l /\ s < w /\ s < TxSlots /\ s < Crypto
    BY <1>1, <1>2, <1>4, <1>6
  <2>2. s % TxSlots = s
    BY <1>2, <2>1, ModFacts
  <2>3. WakeOfRing(s) = Crypto + s
    BY <2>2 DEF WakeOfRing
  <2>4. WakeId(<<"tx", s>>) = Crypto + s
    BY DEF WakeId
  <2>5. TxRings(s) \subseteq Range(SubSeq(RingOrder, 1, res.rings))
    BY <1>3, <2>1, OutputsExist
  <2>6. TxPrimary(s, l) = s /\ TxPrimary(s, w) = s
    BY <1>1, <2>1, OwnQueue
  <2>7. s \in 0 .. l - 1 /\ s \in 0 .. w - 1
    BY <1>1, <1>2, <2>1
  <2>8. \A i \in Ifaces : TxPrimary(s, res.qcount[i]) = s /\ s \in 0 .. res.xsk[i] - 1
    BY <1>1, <2>6, <2>7 DEF Ifaces, l, w
  <2> QED BY <2>3, <2>4, <2>5, <2>8
<1>7. \A s, u \in 0 .. TxSlots - 1 : {<<"tx", s>>, <<"tx", u>>} \subseteq alive =>
        /\ WakeOfRing(s) = WakeId(<<"tx", s>>)
        /\ TxRings(s) \subseteq Range(SubSeq(RingOrder, 1, res.rings))
        /\ \A i \in Ifaces :
             /\ TxPrimary(s, res.qcount[i]) \in 0 .. res.xsk[i] - 1
             /\ TxPrimary(s, res.qcount[i]) = TxPrimary(u, res.qcount[i]) => s = u
  <2> SUFFICES ASSUME NEW s \in 0 .. TxSlots - 1, NEW u \in 0 .. TxSlots - 1,
                      {<<"tx", s>>, <<"tx", u>>} \subseteq alive
               PROVE  /\ WakeOfRing(s) = WakeId(<<"tx", s>>)
                      /\ TxRings(s) \subseteq Range(SubSeq(RingOrder, 1, res.rings))
                      /\ \A i \in Ifaces :
                           /\ TxPrimary(s, res.qcount[i]) \in 0 .. res.xsk[i] - 1
                           /\ TxPrimary(s, res.qcount[i]) = TxPrimary(u, res.qcount[i]) => s = u
    OBVIOUS
  <2>1. <<"tx", s>> \in alive /\ <<"tx", u>> \in alive
    OBVIOUS
  <2>2. /\ WakeOfRing(s) = WakeId(<<"tx", s>>)
        /\ TxRings(s) \subseteq Range(SubSeq(RingOrder, 1, res.rings))
        /\ \A i \in Ifaces : TxPrimary(s, res.qcount[i]) = s /\ s \in 0 .. res.xsk[i] - 1
    BY <1>6, <2>1
  <2>3. \A i \in Ifaces : TxPrimary(u, res.qcount[i]) = u
    BY <1>6, <2>1
  <2> QED BY <2>2, <2>3
<1> QED BY <1>5, <1>7 DEF TxOwned, l, w, n

\* No two threads share a CPU or a wake-up.
LEMMA UpOwnCpus ==
  ASSUME IInv, PlanInv, AllUp
  PROVE  OwnCpus
<1> DEFINE l == res.qcount["lan"]
           w == res.qcount["wan"]
           n == ActiveTx(l, w)
<1>1. /\ alive \subseteq Range(CpuTable) /\ n \in Nat
      /\ alive = Slots("lan_rx", RxSlotsFor(l, RxLan))
                 \cup Slots("tx", n)
                 \cup Slots("crypto", Crypto)
                 \cup Slots("wan_rx", RxSlotsFor(w, RxWan))
  BY WhenUp
<1>2. pc \in WithThreads
  BY DEF AllUp
<1>3. CpuMapValid(allowed) /\ allowed \in SUBSET Cpus /\ \A t \in alive : pinned[t] = PinnedTo(t, allowed)
  BY <1>2 DEF PlanInv
<1>4. Crypto \in Nat /\ n \in Nat
  BY <1>1, PlanAssumption
<1> HIDE DEF l, w, n
<1>5. ASSUME NEW t \in alive
      PROVE  \/ WakeId(t) = -1
             \/ \E k \in 1 .. Crypto : t = <<"crypto", k - 1>> /\ WakeId(t) = k - 1
             \/ \E k \in 1 .. n : t = <<"tx", k - 1>> /\ WakeId(t) = Crypto + (k - 1)
  BY <1>1 DEF WakeId, Slots
<1>6. ASSUME NEW t \in alive, NEW u \in alive, t # u, WakeId(t) = WakeId(u)
      PROVE  WakeId(t) = -1
  <2> SUFFICES ASSUME WakeId(t) # -1 PROVE FALSE
    OBVIOUS
  <2>1. \A k \in 1 .. Crypto, j \in 1 .. n : k - 1 # Crypto + (j - 1)
    BY <1>4
  <2>2. \A j \in 1 .. n, k \in 1 .. n : Crypto + (j - 1) = Crypto + (k - 1) => j - 1 = k - 1
    BY <1>4
  <2>3. \/ \E k \in 1 .. Crypto : t = <<"crypto", k - 1>> /\ WakeId(t) = k - 1
        \/ \E k \in 1 .. n : t = <<"tx", k - 1>> /\ WakeId(t) = Crypto + (k - 1)
    BY <1>5
  <2>4. \/ \E k \in 1 .. Crypto : u = <<"crypto", k - 1>> /\ WakeId(u) = k - 1
        \/ \E k \in 1 .. n : u = <<"tx", k - 1>> /\ WakeId(u) = Crypto + (k - 1)
    BY <1>5, <1>6
  <2> QED BY <1>6, <2>1, <2>2, <2>3, <2>4, Zenon
<1>7. ASSUME NEW t \in alive, NEW u \in alive
      PROVE  pinned[t] # -1 /\ (t # u => pinned[t] # pinned[u])
  <2>1. t \in Range(CpuTable) /\ u \in Range(CpuTable)
    BY <1>1
  <2> QED BY <1>3, <2>1, OwnCpu
<1> QED BY <1>6, <1>7 DEF OwnCpus

\* Once every thread is up, each queue and each TX slot has exactly one thread,
\* alone on its CPU: for all tables and all queue counts the assumptions admit.
THEOREM DataplaneAlwaysComplete == Spec => []DataplaneComplete
<1>1. IInv /\ PlanInv => DataplaneComplete
  BY UpRxServed, UpTxOwned, UpOwnCpus DEF DataplaneComplete
<1> QED BY <1>1, LifeInvariance, PlanInvariance, PTL
=============================================================================
