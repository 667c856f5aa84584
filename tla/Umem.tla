-------------------------------- MODULE Umem --------------------------------
(***************************************************************************)
(* The life of a UMEM frame: free pool, fill ring, RX ring, software       *)
(* rings, crypto worker, TX ring, completion ring, free pool.  Modelled    *)
(* from core/iface/xdp_interface.c, core/forwarder/forwarder.c and         *)
(* core/dataplane/{local_egress,wan_ingress,packet_util}.c.                *)
(*                                                                         *)
(* A direction is "egress" (LAN RX, crypto, WAN TX) or "ingress" (WAN RX,  *)
(* crypto, LAN TX).  The two share the pool, the crypto workers and the TX *)
(* thread.  Software rings are the FIFO proved of them in NeRing_proofs;   *)
(* the pool operations hold its spin lock, so each is one step.  The four  *)
(* rings shared with the kernel and the kernel's side of them are external.*)
(*                                                                         *)
(* Lengths are in units; an address is a frame and an offset inside it.    *)
(***************************************************************************)
EXTENDS Integers, Sequences, FiniteSets, SequencesExt, FiniteSetsExt

CONSTANTS
  Frames,        \* UMEM chunks
  Dirs,          \* subset of {"egress", "ingress"}
  Workers,       \* crypto workers
  FrameSize,     \* NE_FRAME
  Headroom,      \* XDP_PACKET_HEADROOM: where the kernel puts received data
  MaxSegs,       \* NE_PACKET_MAX_SEGS
  JumboMax,      \* NE_JUMBO_FRAME_MAX
  WireMax,       \* ETH_HEADER_SIZE + L2_CRYPTO_MTU
  Overhead,      \* bytes added by encryption
  JoinLens,      \* lengths of reassembled datagrams
  RxLens,        \* lengths of packets reaching the NIC, per direction
  Batch,         \* NE_BATCH_SIZE
  RingCap,       \* NE_RING, software rings
  FqCap, RxCap, TxCap   \* XSK ring sizes

ASSUME UmemAssumption ==
  /\ Dirs \subseteq {"egress", "ingress"} /\ Dirs # {}
  /\ IsFiniteSet(Frames) /\ IsFiniteSet(Workers)
  /\ {FrameSize, Headroom, MaxSegs, JumboMax, WireMax, Overhead, Batch, RingCap} \subseteq Nat
  /\ {FqCap, RxCap, TxCap} \cup JoinLens \subseteq Nat
  /\ Headroom < FrameSize
  /\ WireMax <= JumboMax
  /\ FrameSize * MaxSegs >= JumboMax          \* _Static_assert of interface.h
  /\ MaxSegs <= TxCap /\ 2 <= RingCap
  /\ \A d \in Dirs : RxLens[d] \subseteq Nat \ {0}

NFrames == Cardinality(Frames)

VARIABLES
  pool,                      \* ne_pool: FIFO of free addresses
  fq, rx, tx, cq,            \* XSK rings, per direction
  taken,                     \* RX descriptors peeked and not released
  rxpc, batch,               \* RX thread: where it is, packets to dispatch
  rx_pending, rx_chain, rx_chain_invalid, rx_rejects,   \* struct ne_xsk_queue
  mid, out,                  \* [local|wan]_to_mid[w], mid_to_[wan|local]
  wpc, wdir, job, tail, plan,   \* crypto worker: packet(s) and lengths to write
  lost                       \* frames the kernel drops with a bad descriptor

rxVars == <<rxpc, batch, rx_pending, rx_chain, rx_chain_invalid, rx_rejects, taken>>
workerVars == <<wpc, wdir, job, tail, plan>>
vars == <<pool, fq, rx, tx, cq, rxVars, mid, out, workerVars, lost>>

-----------------------------------------------------------------------------
(* Packets and addresses.                                                  *)

Addr(f, off) == [f |-> f, off |-> off]
NoPacket == [len |-> 0, segs |-> <<>>]
AddrOf(seg) == Addr(seg.f, seg.off)
Addrs(pkt) == [i \in DOMAIN pkt.segs |-> AddrOf(pkt.segs[i])]
SumLen(segs) == FoldLeft(LAMBDA a, s : a + s.len, 0, segs)
SumCap(segs) == FoldLeft(LAMBDA a, s : a + s.cap, 0, segs)
Least(a, b) == IF a < b THEN a ELSE b

\* Mutant: ne_packet_free leaves the packet as it was.
ClearedNot(pkt) == pkt

\* pool_push: what does not fit is silently not put.
PoolPush(p, addrs) == p \o SubSeq(addrs, 1, Least(Len(addrs), NFrames - Len(p)))

\* pool_pop: up to n addresses from the front, and what is left.
PoolPop(p, n) == [got |-> SubSeq(p, 1, Least(n, Len(p))), left |-> SubSeq(p, n + 1, Len(p))]

\* ne_packet_free ends with memset(pkt, 0): freeing it again frees nothing.
Cleared(pkt) == NoPacket

\* ne_ring_try_push and ne_ring_try_push_pair accept n packets.
RingRoom(ring, n) == Len(ring) + n <= RingCap

\* prefill_per_queue: three quarters of the frames, shared by the queues.  Its
\* lower bound of one batch per queue is never active with NE_N_FRAMES frames.
PrefillPerQueue ==
  LET perQueue == ((NFrames * 3) \div 4) \div Cardinality(Dirs)
  IN  Least(perQueue, FqCap)

-----------------------------------------------------------------------------
\* ne_pair_open: every frame in the pool, then each fill ring prefilled.
Init ==
  LET all == [i \in 1 .. NFrames |-> Addr(SetToSeq(Frames)[i], 0)]
      n == PrefillPerQueue
      start == [d \in Dirs |-> IF d = "egress" \/ Cardinality(Dirs) = 1 THEN 0 ELSE n]
  IN  /\ fq = [d \in Dirs |-> SubSeq(all, start[d] + 1, start[d] + n)]
      /\ pool = SubSeq(all, n * Cardinality(Dirs) + 1, NFrames)
      /\ rx = [d \in Dirs |-> <<>>] /\ tx = [d \in Dirs |-> <<>>]
      /\ cq = [d \in Dirs |-> <<>>] /\ taken = [d \in Dirs |-> 0]
      /\ rxpc = [d \in Dirs |-> "refill"] /\ batch = [d \in Dirs |-> <<>>]
      /\ rx_pending = [d \in Dirs |-> 0] /\ rx_chain = [d \in Dirs |-> NoPacket]
      /\ rx_chain_invalid = [d \in Dirs |-> FALSE]
      /\ rx_rejects = [d \in Dirs |-> <<>>]
      /\ mid = [d \in Dirs |-> [w \in Workers |-> <<>>]]
      /\ out = [d \in Dirs |-> <<>>]
      /\ wpc = [w \in Workers |-> "idle"] /\ wdir \in [Workers -> {CHOOSE d \in Dirs : TRUE}]
      /\ job = [w \in Workers |-> NoPacket] /\ tail = [w \in Workers |-> NoPacket]
      /\ plan = [w \in Workers |-> <<>>]
      /\ lost = {}

-----------------------------------------------------------------------------
(* The kernel: external.                                                   *)

\* Lengths of the descriptors of a packet: chunks filled after the headroom.
ChunkLens(len) ==
  LET room == FrameSize - Headroom
      k == (len + room - 1) \div room
  IN  [i \in 1 .. k |-> IF i < k THEN room ELSE len - (k - 1) * room]

\* Mutant: the program redirects packets of any length.
RedirectsAny(len) == TRUE

\* The XDP programs (bpf/lan.c, bpf/wan.c) redirect to the socket only what is
\* no longer than an Ethernet header and 9000 bytes; the rest is XDP_DROP.
Redirects(len) == len <= WireMax

\* A batch and a packet have room for the longest chain that is let in.
ASSUME BatchAssumption ==
  \A d \in Dirs : \A len \in RxLens[d] :
    Redirects(len) => Len(ChunkLens(len)) <= Batch /\ Len(ChunkLens(len)) <= MaxSegs

\* A packet arrives: frames from the fill ring, the whole chain published.
KernelRx(d) ==
  \E len \in {l \in RxLens[d] : Redirects(l)} :
    LET ls == ChunkLens(len)
        k == Len(ls)
    IN  /\ Len(fq[d]) >= k /\ Len(rx[d]) + k <= RxCap
        /\ rx' = [rx EXCEPT ![d] = @ \o [i \in 1 .. k |->
                    [f |-> fq[d][i].f, off |-> Headroom, len |-> ls[i], contd |-> i < k]]]
        /\ fq' = [fq EXCEPT ![d] = SubSeq(@, k + 1, Len(@))]
        /\ UNCHANGED <<pool, tx, cq, rxVars, mid, out, workerVars, lost>>

\* The kernel sends the chain at the head of the TX ring and completes its
\* frames; a chain with a descriptor that crosses its chunk is invalid, is not
\* sent, and its frames never come back.
KernelTx(d) ==
  /\ tx[d] # <<>>
  /\ LET k == Min({i \in DOMAIN tx[d] : ~tx[d][i].contd})
         chain == SubSeq(tx[d], 1, k)
         valid == \A i \in 1 .. k : chain[i].off + chain[i].len <= FrameSize
     IN  /\ Len(cq[d]) + k <= TxCap
         /\ tx' = [tx EXCEPT ![d] = SubSeq(@, k + 1, Len(@))]
         /\ cq' = [cq EXCEPT ![d] = IF valid THEN @ \o [i \in 1 .. k |-> AddrOf(chain[i])] ELSE @]
         /\ lost' = IF valid THEN lost ELSE lost \cup {chain[i].f : i \in 1 .. k}
  /\ UNCHANGED <<pool, fq, rx, rxVars, mid, out, workerVars>>

-----------------------------------------------------------------------------
(* RX thread of the direction's source interface.                          *)

\* refill_fq_queue: as many frames as the ring and the pool have, up to a
\* batch.
Refill(d) ==
  /\ rxpc[d] = "refill"
  /\ LET pop == PoolPop(pool, Least(FqCap - Len(fq[d]), Batch))
     IN  /\ fq' = [fq EXCEPT ![d] = @ \o pop.got]
         /\ pool' = pop.left
  /\ rxpc' = [rxpc EXCEPT ![d] = "recv"]
  /\ UNCHANGED <<rx, tx, cq, batch, rx_pending, rx_chain, rx_chain_invalid, rx_rejects,
                 taken, mid, out, workerVars, lost>>

\* rx_reject_addrs has room for a batch and a chain; more are not recorded.
AddRejects(r, addrs) ==
  r \o SubSeq(addrs, 1, Least(Len(addrs), Batch + MaxSegs - Len(r)))

\* One descriptor in the loop of recv_queue: it joins the chain or makes it
\* invalid, and the last one of a chain ends it.
RecvDesc(st, desc) ==
  LET bad == \/ st.invalid \/ Len(st.chain.segs) >= MaxSegs
             \/ desc.len > JumboMax \/ st.chain.len + desc.len > JumboMax
      seg == [f |-> desc.f, off |-> desc.off, len |-> desc.len, cap |-> desc.len]
      chain == IF bad THEN st.chain
               ELSE [len |-> st.chain.len + desc.len, segs |-> Append(st.chain.segs, seg)]
      rejects == IF bad THEN AddRejects(st.rejects, <<AddrOf(desc)>>) ELSE st.rejects
      State(c, i, r, o) == [chain |-> c, invalid |-> i, rejects |-> r, out |-> o]
  IN  CASE desc.contd -> State(chain, bad, rejects, st.out)
        [] ~desc.contd /\ (bad \/ chain = NoPacket) ->
             State(NoPacket, FALSE, AddRejects(rejects, Addrs(chain)), st.out)
        [] OTHER -> State(NoPacket, FALSE, rejects, Append(st.out, chain))

\* The loop itself.
RecvLoop(st, descs) == FoldLeft(RecvDesc, st, descs)

\* ne_recv_{local,wan}_slot.  With no packet the thread starts over without
\* releasing what it peeked.
Recv(d) ==
  /\ rxpc[d] = "recv"
  /\ LET n == Least(Batch, Len(rx[d]) - taken[d])
         st == RecvLoop([chain |-> rx_chain[d], invalid |-> rx_chain_invalid[d],
                         rejects |-> rx_rejects[d], out |-> <<>>],
                        SubSeq(rx[d], taken[d] + 1, taken[d] + n))
     IN  /\ taken' = [taken EXCEPT ![d] = @ + n]
         /\ rx_pending' = [rx_pending EXCEPT ![d] = n]
         /\ rx_chain' = [rx_chain EXCEPT ![d] = st.chain]
         /\ rx_chain_invalid' = [rx_chain_invalid EXCEPT ![d] = st.invalid]
         /\ rx_rejects' = [rx_rejects EXCEPT ![d] = st.rejects]
         /\ batch' = [batch EXCEPT ![d] = st.out]
         /\ rxpc' = [rxpc EXCEPT ![d] = IF st.out = <<>> THEN "refill" ELSE "dispatch"]
  /\ UNCHANGED <<pool, fq, rx, tx, cq, mid, out, workerVars, lost>>

\* The dispatch loop of local_rx_thread and wan_rx_thread, one packet.
Dispatch(d) ==
  /\ rxpc[d] = "dispatch" /\ batch[d] # <<>>
  /\ \E w \in Workers :
       IF RingRoom(mid[d][w], 1)
       THEN mid' = [mid EXCEPT ![d][w] = Append(@, Head(batch[d]))] /\ UNCHANGED pool
       ELSE pool' = PoolPush(pool, Addrs(Head(batch[d]))) /\ UNCHANGED mid
  /\ batch' = [batch EXCEPT ![d] = Tail(@)]
  /\ UNCHANGED <<fq, rx, tx, cq, rxpc, rx_pending, rx_chain, rx_chain_invalid, rx_rejects,
                 taken, out, workerVars, lost>>

\* wan_rx_thread: a frame without the marker, or without a worker, is freed.
DispatchUnmarked(d) ==
  /\ d = "ingress" /\ rxpc[d] = "dispatch" /\ batch[d] # <<>>
  /\ pool' = PoolPush(pool, Addrs(Head(batch[d])))
  /\ batch' = [batch EXCEPT ![d] = Tail(@)]
  /\ UNCHANGED <<fq, rx, tx, cq, rxpc, rx_pending, rx_chain, rx_chain_invalid, rx_rejects,
                 taken, mid, out, workerVars, lost>>

\* release_rx_queue.
Release(d) ==
  /\ rxpc[d] = "dispatch" /\ batch[d] = <<>>
  /\ rx' = [rx EXCEPT ![d] = SubSeq(@, rx_pending[d] + 1, Len(@))]
  /\ taken' = [taken EXCEPT ![d] = @ - rx_pending[d]]
  /\ rx_pending' = [rx_pending EXCEPT ![d] = 0]
  /\ pool' = PoolPush(pool, rx_rejects[d])
  /\ rx_rejects' = [rx_rejects EXCEPT ![d] = <<>>]
  /\ rxpc' = [rxpc EXCEPT ![d] = "refill"]
  /\ UNCHANGED <<fq, tx, cq, batch, rx_chain, rx_chain_invalid, mid, out, workerVars,
                 lost>>

-----------------------------------------------------------------------------
(* Crypto workers.                                                         *)

\* ne_packet_linearize copies the segments into the worker's buffer, or fails.
Linearizes(pkt) ==
  /\ pkt.len <= JumboMax /\ Len(pkt.segs) <= MaxSegs
  /\ SumLen(pkt.segs) = pkt.len

\* What processing may make of a packet: no packet (a drop, or a first
\* fragment kept for reassembly), one of a given length, or two fragments.
Plans(d, len) ==
  {<<>>} \cup
  IF d = "egress"
  THEN IF len + Overhead <= WireMax THEN {<<len + Overhead>>}
       ELSE {<<WireMax, len + 3 * Overhead - WireMax>>}
  ELSE {<<l>> : l \in JoinLens \cup ({len - Overhead} \cap (Nat \ {0}))}

\* crypto_worker_thread pops a packet, dataplane_process_{local,wan} decides
\* its outcome on the linearised copy; a drop frees the frames.
Take(w) ==
  /\ wpc[w] = "idle"
  /\ \E d \in Dirs :
       /\ mid[d][w] # <<>>
       /\ mid' = [mid EXCEPT ![d][w] = Tail(@)]
       /\ wdir' = [wdir EXCEPT ![w] = d]
       /\ LET pkt == Head(mid[d][w])
          IN  \E pl \in IF Linearizes(pkt) THEN Plans(d, pkt.len) ELSE {<<>>} :
                IF pl = <<>>
                THEN /\ pool' = PoolPush(pool, Addrs(pkt))
                     /\ UNCHANGED <<wpc, job, plan>>
                ELSE /\ wpc' = [wpc EXCEPT ![w] = "write_job"]
                     /\ job' = [job EXCEPT ![w] = pkt]
                     /\ plan' = [plan EXCEPT ![w] = pl]
                     /\ UNCHANGED pool
  /\ UNCHANGED <<fq, rx, tx, cq, rxVars, out, tail, lost>>

\* The packet ne_packet_write works on, and the length it must get.
Target(w) == IF wpc[w] = "write_job" THEN job[w] ELSE tail[w]
TargetLen(w) == IF wpc[w] = "write_job" THEN plan[w][1] ELSE plan[w][2]
NeedsFrame(w) == SumCap(Target(w).segs) < TargetLen(w)

\* ne_packet_write refuses other lengths before it allocates anything.
Writable(w) == TargetLen(w) \in 1 .. JumboMax

\* ne_packet_write: one ne_frame_alloc; the segment gets the whole frame as
\* its capacity, whatever the offset of the address.
WriteAlloc(w) ==
  /\ wpc[w] \in {"write_job", "write_tail"}
  /\ Writable(w) /\ NeedsFrame(w) /\ Len(Target(w).segs) < MaxSegs /\ pool # <<>>
  /\ LET addr == PoolPop(pool, 1).got[1]
         seg == [f |-> addr.f, off |-> addr.off, len |-> 0, cap |-> FrameSize]
     IN  IF wpc[w] = "write_job"
         THEN job' = [job EXCEPT ![w].segs = Append(@, seg)] /\ UNCHANGED tail
         ELSE tail' = [tail EXCEPT ![w].segs = Append(@, seg)] /\ UNCHANGED job
  /\ pool' = PoolPop(pool, 1).left
  /\ UNCHANGED <<fq, rx, tx, cq, rxVars, mid, out, wpc, wdir, plan, lost>>

\* ne_packet_write fails (its length, no frame, or no segment left):
\* encrypt_to_wan frees the tail, dataplane_process_* the job.
WriteFail(w) ==
  /\ wpc[w] \in {"write_job", "write_tail"}
  /\ Writable(w) => NeedsFrame(w) /\ (Len(Target(w).segs) >= MaxSegs \/ pool = <<>>)
  /\ pool' = PoolPush(pool, Addrs(tail[w]) \o Addrs(job[w]))
  /\ job' = [job EXCEPT ![w] = NoPacket]
  /\ tail' = [tail EXCEPT ![w] = NoPacket]
  /\ wpc' = [wpc EXCEPT ![w] = "idle"]
  /\ UNCHANGED <<fq, rx, tx, cq, rxVars, mid, out, wdir, plan, lost>>

\* Mutant: every segment is taken to hold a whole frame.
FillLenWhole(segs, i, len) ==
  LET before == SumCap(SubSeq(segs, 1, i - 1))
  IN  IF before >= len THEN 0 ELSE Least(FrameSize, len - before)

\* The copy loop of ne_packet_write: segments filled in order up to capacity.
FillLen(segs, i, len) ==
  LET before == SumCap(SubSeq(segs, 1, i - 1))
  IN  IF before >= len THEN 0 ELSE Least(segs[i].cap, len - before)

Filled(pkt, len) ==
  [len |-> len,
   segs |-> [i \in DOMAIN pkt.segs |-> [pkt.segs[i] EXCEPT !.len = FillLen(pkt.segs, i, len)]]]

\* Its end: the segments from the first one left empty go back to the pool.
NUsed(segs) == Min({i \in DOMAIN segs : segs[i].len = 0} \cup {Len(segs) + 1}) - 1
Used(pkt) == SubSeq(pkt.segs, 1, NUsed(pkt.segs))
Unused(pkt) == SubSeq(pkt.segs, NUsed(pkt.segs) + 1, Len(pkt.segs))

\* ne_packet_write, once there is room.
WriteFill(w) ==
  /\ wpc[w] \in {"write_job", "write_tail"} /\ Writable(w) /\ ~NeedsFrame(w)
  /\ LET full == Filled(Target(w), TargetLen(w))
         kept == [len |-> full.len, segs |-> Used(full)]
     IN  /\ IF wpc[w] = "write_job"
            THEN job' = [job EXCEPT ![w] = kept] /\ UNCHANGED tail
            ELSE tail' = [tail EXCEPT ![w] = kept] /\ UNCHANGED job
         /\ pool' = PoolPush(pool, Addrs([full EXCEPT !.segs = Unused(full)]))
  /\ wpc' = [wpc EXCEPT ![w] =
               IF wpc[w] = "write_job" /\ Len(plan[w]) = 2 THEN "write_tail" ELSE "push"]
  /\ UNCHANGED <<fq, rx, tx, cq, rxVars, mid, out, wdir, plan, lost>>

\* push_to_wan, forward_local (dp_ring_push) and push_split_to_wan.  A refused
\* packet is freed by dp_ring_push; forward_local's caller then frees the
\* cleared packet once more.  A refused pair frees the tail, then the job.
PushOut(w) ==
  /\ wpc[w] = "push"
  /\ LET pkts == IF Len(plan[w]) = 2 THEN <<job[w], tail[w]>> ELSE <<job[w]>>
         d == wdir[w]
     IN  IF RingRoom(out[d], Len(pkts))
         THEN out' = [out EXCEPT ![d] = @ \o pkts] /\ UNCHANGED pool
         ELSE /\ pool' = PoolPush(pool, Addrs(tail[w]) \o Addrs(job[w]) \o
                                  (IF d = "ingress" THEN Addrs(Cleared(job[w])) ELSE <<>>))
              /\ UNCHANGED out
  /\ job' = [job EXCEPT ![w] = NoPacket]
  /\ tail' = [tail EXCEPT ![w] = NoPacket]
  /\ wpc' = [wpc EXCEPT ![w] = "idle"]
  /\ UNCHANGED <<fq, rx, tx, cq, rxVars, mid, wdir, plan, lost>>

-----------------------------------------------------------------------------
(* TX thread.                                                              *)

\* drain_cq_queue: completed addresses go back to the pool as they are.
DrainCq(d) ==
  /\ cq[d] # <<>>
  /\ pool' = PoolPush(pool, cq[d])
  /\ cq' = [cq EXCEPT ![d] = <<>>]
  /\ UNCHANGED <<fq, rx, tx, rxVars, mid, out, workerVars, lost>>

\* Mutant: every descriptor is marked as continued.
DescsAllContd(pkt) ==
  [i \in DOMAIN pkt.segs |->
     [f |-> pkt.segs[i].f, off |-> pkt.segs[i].off,
      len |-> Least(pkt.segs[i].len, FrameSize), contd |-> TRUE]]

\* The TX descriptors of a packet: all but the last are XDP_PKT_CONTD.
Descs(pkt) ==
  [i \in DOMAIN pkt.segs |->
     [f |-> pkt.segs[i].f, off |-> pkt.segs[i].off,
      len |-> Least(pkt.segs[i].len, FrameSize), contd |-> i < Len(pkt.segs)]]

\* Mutant: one descriptor more than needed is asked for.
TxRoomStrict(d) == TxCap - Len(tx[d]) > MaxSegs

\* Room for the largest logical packet is required before the pop.
TxRoom(d) == TxCap - Len(tx[d]) >= MaxSegs

\* tx_drain_queue, one packet: popped, reserved, described and submitted.
TxDrain(d) ==
  /\ out[d] # <<>> /\ TxRoom(d)
  /\ LET pkt == Head(out[d])
         room == TxCap - Len(tx[d])
     IN  IF pkt.len > JumboMax \/ Len(pkt.segs) > room
         THEN pool' = PoolPush(pool, Addrs(pkt)) /\ UNCHANGED tx
         ELSE tx' = [tx EXCEPT ![d] = @ \o Descs(pkt)] /\ UNCHANGED pool
  /\ out' = [out EXCEPT ![d] = Tail(@)]
  /\ UNCHANGED <<fq, rx, cq, rxVars, mid, workerVars, lost>>

-----------------------------------------------------------------------------
RxThread(d) == Refill(d) \/ Recv(d) \/ Dispatch(d) \/ DispatchUnmarked(d) \/ Release(d)
Worker(w) == Take(w) \/ WriteAlloc(w) \/ WriteFail(w) \/ WriteFill(w) \/ PushOut(w)
TxThread(d) == DrainCq(d) \/ TxDrain(d)

Next ==
  \/ \E d \in Dirs : KernelRx(d) \/ KernelTx(d) \/ RxThread(d) \/ TxThread(d)
  \/ \E w \in Workers : Worker(w)

Spec == Init /\ [][Next]_vars

\* Threads run (busy loops, or a poll that times out) and the NIC transmits;
\* no packet need ever arrive.
Fairness ==
  /\ \A d \in Dirs : WF_vars(RxThread(d)) /\ WF_vars(KernelTx(d))
  /\ \A d \in Dirs : WF_vars(DrainCq(d)) /\ WF_vars(TxDrain(d))
  /\ \A w \in Workers : WF_vars(Worker(w))

FairSpec == Spec /\ Fairness

-----------------------------------------------------------------------------
(* Properties.                                                             *)

Segs(pkts) == FlattenSeq([i \in DOMAIN pkts |-> pkts[i].segs])
RxUnread(d) == SubSeq(rx[d], taken[d] + 1, Len(rx[d]))

\* Everything of a direction, and of a worker, that owns frames.
InDirection(d) ==
  fq[d] \o RxUnread(d) \o rx_chain[d].segs \o rx_rejects[d] \o Segs(batch[d])
  \o Segs(out[d]) \o tx[d] \o cq[d]
InWorker(w) == job[w].segs \o tail[w].segs

Times(f, seq) == Cardinality({i \in DOMAIN seq : seq[i].f = f})

Owners(f) ==
  Times(f, pool) + (IF f \in lost THEN 1 ELSE 0)
  + SumFunction([d \in Dirs |-> Times(f, InDirection(d))])
  + SumFunction([w \in Workers |-> Times(f, InWorker(w))])
  + SumFunction([dw \in Dirs \X Workers |-> Times(f, Segs(mid[dw[1]][dw[2]]))])

\* Every frame has exactly one owner at every moment, through rejected chains,
\* full rings, failed allocations, split, reassembly and repeated frees: the
\* program drops none and hands none out twice (ne_packet_free, pool_push,
\* pool_pop).  A frame that the kernel refused stays with the kernel (lost).
OneOwner == \A f \in Frames : Owners(f) = 1

\* The TX ring always holds whole chains, each at most MaxSegs long and ending
\* in a descriptor without XDP_PKT_CONTD, however little room the ring had
\* (tx_drain_queue: "Reserve room for the largest logical packet").
TxWholeChains ==
  \A d \in Dirs :
    /\ tx[d] # <<>> => ~Last(tx[d]).contd
    /\ \A i \in DOMAIN tx[d] : \E k \in i .. Least(i + MaxSegs - 1, Len(tx[d])) : ~tx[d][k].contd

\* A packet in a software ring carries its length in its segments: what
\* ne_packet_write spread over old and new frames is what tx_drain_queue sends.
LengthsAgree ==
  \A d \in Dirs :
    /\ \A i \in DOMAIN out[d] :
         /\ out[d][i].len = SumLen(out[d][i].segs)
         /\ Len(out[d][i].segs) \in 1 .. MaxSegs
         /\ \A j \in DOMAIN out[d][i].segs : out[d][i].segs[j].len > 0

\* An RX thread that starts its loop again has released every descriptor it
\* peeked and recycled every rejected frame; of a chain cut by the end of a
\* batch the rest is already in the ring.  local_rx_thread and wan_rx_thread
\* release only after a batch with a packet in it, so this rests on the XDP
\* programs' length test: no chain recv_queue would reject ever arrives.
RxReleased ==
  \A d \in Dirs : rxpc[d] = "refill" =>
    /\ taken[d] = 0 /\ rx_rejects[d] = <<>>
    /\ rx_chain[d] # NoPacket => RxUnread(d) # <<>>

\* The frame is free, with the kernel for reception, or not yet dispatched.
AtRest(f) ==
  \/ \E i \in DOMAIN pool : pool[i].f = f
  \/ \E d \in Dirs :
       \/ \E i \in DOMAIN fq[d] : fq[d][i].f = f
       \/ \E i \in taken[d] + 1 .. Len(rx[d]) : rx[d][i].f = f
       \/ \E i \in DOMAIN rx_chain[d].segs : rx_chain[d].segs[i].f = f

\* Every frame taken from an RX ring comes to rest again, in the pool or in a
\* fill ring, whatever becomes of its packet: no thread waits for frames that
\* only it could free, even when the pool is empty.
FramesComeBack == \A f \in Frames : []<>AtRest(f)

\* interface.h: a packet "is carried by up to four 4K UMEM chunks"; each of its
\* descriptors therefore lies inside its chunk.
DescsInsideChunk ==
  \A d \in Dirs : \A i \in DOMAIN tx[d] : tx[d][i].off + tx[d][i].len <= FrameSize
=============================================================================
