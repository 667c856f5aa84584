------------------------------ MODULE FlowRoute ------------------------------
(***************************************************************************)
(* core/dataplane/crypto_route.c with the threads that call it: the sticky *)
(* flow table that gives every TCP/UDP flow a crypto worker and a TX slot, *)
(* the wire sequence of a UDP flow, and the way of a packet from the RX    *)
(* threads through a worker into the ring of a TX slot.  Flows of one      *)
(* route set compete for its ways.  Route sets meet in the load counters,  *)
(* in the lock, and in the workers' fallback tables, which have fewer sets *)
(* than the route table.  The LAN RX thread looks flows up without a hint, *)
(* a crypto worker that has decrypted a packet with itself as hint.        *)
(*                                                                         *)
(* A scan of the ways is one step: a way only ever goes from invalid to    *)
(* valid, so a scan that misses a key is a scan made when the key's way    *)
(* was read.  A push and the return before it are one step: each thread    *)
(* pushes its packets in order, and full rings are Umem's subject.         *)
(***************************************************************************)
EXTENDS Integers, Sequences, FiniteSets, FiniteSetsExt

CONSTANTS
  Packets,         \* 5-tuples that LAN hosts send; their peers answer with the reverse
  Workers,         \* 0 .. NE_CRYPTO_WORKERS - 1
  TxSlots,         \* NE_TX_SLOTS
  LiveSlots,       \* forwarder_active_tx_slots()
  SetCount,        \* DP_ROUTE_SET_COUNT
  Ways,            \* the ways of all sets: way w of set s is w * SetCount + s
  FallbackSets,    \* DP_UDP_SEQ_FALLBACK_SETS
  FallbackWays,    \* the ways of all fallback sets, numbered likewise
  SeqMod,          \* 2^32: sequence numbers and stamps are uint32_t
  Mix(_, _, _, _, _),    \* dp_flow_hash_mix
  PeerWorker,      \* the worker index the peer writes into the frames of a flow
  MaxPackets,      \* bound: packets in a behaviour
  MaxAnswers       \* bound: only among so many first packets are answers

Tcp == 6
Udp == 17
Reverse(p) == [src |-> p.dst, dst |-> p.src, sport |-> p.dport, dport |-> p.sport,
               proto |-> p.proto]

\* dp_route_key_from_tuple: the same key for both directions of a connection,
\* and which of the two a packet belongs to.
HasKey(p) == p.proto \in {Tcp, Udp}
Swapped(p) == p.src > p.dst \/ (p.src = p.dst /\ p.sport > p.dport)
KeyOf(p) == IF Swapped(p) THEN Reverse(p) ELSE p
Direction(p) == IF Swapped(p) THEN 1 ELSE 0

\* dp_pkt_flow_hash, dp_route_key_hash: the same mix, of the packet's own tuple
\* or of the key; ports are 0 where there is no key.
HashOf(p) == Mix(p.src, p.dst, p.sport, p.dport, p.proto)

\* dp_hash_to_n: for a power of two the mask is the remainder too.
HashToN(hash, n) == IF n = 0 THEN 0 ELSE hash % n

\* dp_route_set_active_tx_slots, dp_active_tx_slots
NSlots == IF LiveSlots = 0 THEN 1 ELSE IF LiveSlots > TxSlots THEN TxSlots ELSE LiveSlots
Slots == 0 .. NSlots - 1

\* g_route_table[hash & (DP_ROUTE_SET_COUNT - 1)]: the ways where a key can be.
SetFor(k) == {i \in Ways : i % SetCount = HashOf(k) % SetCount}

\* tls_udp_seq_fallback[hash & (DP_UDP_SEQ_FALLBACK_SETS - 1)], in each worker.
FallbackSetFor(k) == {i \in FallbackWays : i % FallbackSets = HashOf(k) % FallbackSets}

ASSUME RouteAssumption ==
  /\ IsFiniteSet(Packets) /\ IsFiniteSet(Workers) /\ IsFiniteSet(Ways) /\ IsFiniteSet(FallbackWays)
  /\ Workers = 0 .. Cardinality(Workers) - 1 /\ Workers # {}
  /\ Ways \cup FallbackWays \subseteq Nat
  /\ {TxSlots, SetCount, FallbackSets, SeqMod} \subseteq Nat \ {0} /\ LiveSlots \in Nat
  /\ PeerWorker \in [Packets -> Workers] /\ \A p \in Packets : Reverse(p) \notin Packets
  /\ \A p \in Packets : FallbackSetFor(KeyOf(p)) # {}

\* Addresses, ports and hashes are unsigned; the mix is of src ^ dst, so without
\* ports it is the same in both directions.
ASSUME HashAssumption ==
  /\ Packets \subseteq [src : Nat, dst : Nat, sport : Nat, dport : Nat, proto : Nat]
  /\ \A p \in Packets : /\ {HashOf(p), HashOf(Reverse(p))} \subseteq Nat
                        /\ ~HasKey(p) => HashOf(Reverse(p)) = HashOf(p)

Rx == Cardinality(Workers)       \* the LAN RX thread, next to workers 0, 1, ..
Threads == {Rx} \cup Workers
None == "none"

VARIABLES
  table,          \* g_route_table: way -> entry
  lock,           \* g_route_insert_lock
  wcount, tcount, \* g_worker_connection_count, g_tx_connection_count
  wrr, trr,       \* g_worker_rr, g_tx_rr
  pc, job, route, empty,     \* each thread's place, packet and locals
  fallback, stamp,           \* tls_udp_seq_fallback, tls_udp_seq_stamp
  outRing,        \* tls_out_ring_idx of each worker
  mid,            \* local_to_mid: what the RX thread handed to each worker
  out,            \* what was pushed to the rings of each TX slot, in order
  arrived         \* packets so far

shared == <<table, lock, wcount, tcount, wrr, trr>>
vars == <<shared, pc, job, route, empty, fallback, stamp, outRing, mid, out, arrived>>

\* Static and thread-local tables start zeroed.
ZeroKey == [src |-> 0, dst |-> 0, sport |-> 0, dport |-> 0, proto |-> 0]
EmptyEntry == [valid |-> FALSE, key |-> ZeroKey, worker |-> 0, slot |-> 0,
               seq |-> [d \in 0 .. 1 |-> 0]]
EmptyFallback == [valid |-> FALSE, key |-> ZeroKey, next |-> [d \in 0 .. 1 |-> 0], stamp |-> 0]
NewJob(p, n, slot) == [p |-> p, n |-> n, slot |-> slot, seq |-> -1]
NoJob == NewJob(None, 0, 0)

Key(t) == KeyOf(job[t].p)
Hits(k) == {i \in SetFor(k) : table[i].valid /\ table[i].key = k}
Invalid(k) == {i \in SetFor(k) : ~table[i].valid}
RouteOf(i) == [worker |-> table[i].worker, slot |-> table[i].slot]
HashRoute(p) == [worker |-> HashToN(HashOf(p), Cardinality(Workers)),
                 slot |-> HashToN(HashOf(p), NSlots)]

\* dp_crypto_worker_bind: the output ring of a worker that has seen no packet.
WorkerBind(w) == (IF w \in Workers THEN w ELSE 0) % NSlots

\* Empty tables, and every worker bound.
Init ==
  /\ table = [i \in Ways |-> EmptyEntry] /\ lock = FALSE
  /\ wcount = [w \in Workers |-> 0] /\ tcount = [s \in Slots |-> 0]
  /\ wrr = 0 /\ trr = 0
  /\ pc = [t \in Threads |-> "idle"] /\ job = [t \in Threads |-> NoJob]
  /\ route = [t \in Threads |-> [worker |-> 0, slot |-> 0]]
  /\ empty = [t \in Threads |-> 0]
  /\ fallback = [w \in Workers |-> [i \in FallbackWays |-> EmptyFallback]]
  /\ stamp = [w \in Workers |-> 0]
  /\ outRing = [w \in Workers |-> WorkerBind(w)]
  /\ mid = [w \in Workers |-> <<>>] /\ out = [s \in Slots |-> <<>>] /\ arrived = 0

Goto(t, l) == pc' = [pc EXCEPT ![t] = l]

-----------------------------------------------------------------------------
(* Packets on their way.                                                   *)

\* dp_out_ring_bind
Bind(s) == IF s \in Slots THEN s ELSE 0

\* Mutant: a LAN packet is pushed to the ring of the worker's previous packet.
RingKept(w, j) == outRing[w]

\* crypto_worker_thread binds the slot that the RX thread stored in the packet.
RingFor(w, j) == Bind(j.slot)

\* push_to_wan, forward_local: worker w's packet enters the ring of slot r.
Push(w, r, j) == out' = [out EXCEPT ![r] = Append(@, j)] /\ Goto(w, "idle")

\* local_rx_thread: the packet goes, with its TX slot, to the worker's ring.
HandOver(r, j) ==
  /\ mid' = [mid EXCEPT ![r.worker] = Append(@, [j EXCEPT !.slot = r.slot])]
  /\ Goto(Rx, "idle")

\* local_rx_thread, dp_crypto_pick_local_worker, dp_flow_route_get.
RxTakes(p) ==
  /\ pc[Rx] = "idle" /\ arrived < MaxPackets
  /\ arrived' = arrived + 1
  /\ LET j == NewJob(p, arrived', 0)
     IN  /\ job' = [job EXCEPT ![Rx] = j]
         /\ IF HasKey(p)
            THEN /\ route' = [route EXCEPT ![Rx] = HashRoute(KeyOf(p))]
                 /\ Goto(Rx, "scan") /\ UNCHANGED mid
            ELSE HandOver(HashRoute(p), j) /\ UNCHANGED route
  /\ UNCHANGED <<shared, empty, fallback, stamp, outRing, out>>

\* crypto_worker_thread pops a LAN packet; encrypt_to_wan asks for a sequence
\* number for UDP (dp_udp_next_tx_seq), and pushes.
TakeLocal(w) ==
  /\ pc[w] = "idle" /\ mid[w] # <<>>
  /\ LET j == Head(mid[w])
         r == RingFor(w, j)
     IN  /\ outRing' = [outRing EXCEPT ![w] = r]
         /\ job' = [job EXCEPT ![w] = j]
         /\ IF j.p.proto = Udp
            THEN Goto(w, "seq") /\ UNCHANGED out
            ELSE Push(w, r, j)
  /\ mid' = [mid EXCEPT ![w] = Tail(@)]
  /\ UNCHANGED <<shared, route, empty, fallback, stamp, arrived>>

\* dataplane_process_wan has decrypted an answer to p on the worker the peer
\* named, and looks up its TX slot (dp_flow_pick_tx_slot).
TakeWan(w, p) ==
  /\ pc[w] = "idle" /\ arrived < MaxPackets /\ arrived < MaxAnswers /\ PeerWorker[p] = w
  /\ arrived' = arrived + 1
  /\ LET q == Reverse(p)
         j == NewJob(q, arrived', HashRoute(q).slot)
         r == Bind(j.slot)
     IN  /\ job' = [job EXCEPT ![w] = j]
         /\ IF HasKey(q)
            THEN /\ route' = [route EXCEPT ![w] = HashRoute(KeyOf(q))]
                 /\ Goto(w, "scan") /\ UNCHANGED <<outRing, out>>
            ELSE /\ outRing' = [outRing EXCEPT ![w] = r]
                 /\ Push(w, r, j) /\ UNCHANGED route
  /\ UNCHANGED <<shared, empty, fallback, stamp, mid>>

\* dp_flow_route_get_key returns r: to local_rx_thread, to the sequence lookup
\* that retries, or to dataplane_process_wan.
FromLan(t) == job[t].p \in Packets
Return(t, r) ==
  CASE t = Rx -> HandOver(r, job[Rx]) /\ UNCHANGED <<outRing, out>>
    [] t # Rx /\ FromLan(t) -> Goto(t, "seq_retry") /\ UNCHANGED <<outRing, mid, out>>
    [] OTHER -> /\ outRing' = [outRing EXCEPT ![t] = Bind(r.slot)]
                /\ Push(t, Bind(r.slot), [job[t] EXCEPT !.slot = r.slot]) /\ UNCHANGED mid

-----------------------------------------------------------------------------
(* dp_flow_route_get_key                                                   *)

\* The lock-free lookup.
Scan(t) ==
  /\ pc[t] = "scan"
  /\ IF Hits(Key(t)) # {}
     THEN Return(t, RouteOf(Min(Hits(Key(t)))))
     ELSE Goto(t, "lock") /\ UNCHANGED <<outRing, mid, out>>
  /\ UNCHANGED <<shared, job, route, empty, fallback, stamp, arrived>>

InsertLock(t) ==
  /\ pc[t] = "lock" /\ ~lock
  /\ lock' = TRUE
  /\ Goto(t, "rescan")
  /\ UNCHANGED <<table, wcount, tcount, wrr, trr, job, route, empty, fallback, stamp,
                 outRing, mid, out, arrived>>

\* Under the lock: another thread may have inserted the flow; a full set falls
\* back to the hash; otherwise the first invalid way is taken.
Rescan(t) ==
  /\ pc[t] = "rescan"
  /\ \/ /\ Hits(Key(t)) # {}
        /\ route' = [route EXCEPT ![t] = RouteOf(Min(Hits(Key(t))))]
        /\ Goto(t, "unlock") /\ UNCHANGED empty
     \/ /\ Hits(Key(t)) = {} /\ Invalid(Key(t)) = {}
        /\ Goto(t, "unlock") /\ UNCHANGED <<route, empty>>
     \/ /\ Hits(Key(t)) = {} /\ Invalid(Key(t)) # {}
        /\ empty' = [empty EXCEPT ![t] = Min(Invalid(Key(t)))]
        /\ Goto(t, "write") /\ UNCHANGED route
  /\ UNCHANGED <<shared, job, fallback, stamp, outRing, mid, out, arrived>>

\* Mutant: the comparison is reversed.
MostLoaded(counts, n, cursor) ==
  CHOOSE i \in 0 .. n - 1 : \A j \in 0 .. n - 1 : counts[i] >= counts[j]

\* dp_route_least_loaded: the first least loaded index from the cursor on.
LeastLoaded(counts, n, cursor) ==
  LET at(off) == (cursor + off) % n
      best == CHOOSE off \in 0 .. n - 1 :
                /\ \A o \in 0 .. n - 1 : counts[at(off)] <= counts[at(o)]
                /\ \A o \in 0 .. off - 1 : counts[at(o)] > counts[at(off)]
  IN  at(best)

\* Mutant: valid is stored before the fields.
WriteKeyPublishes(t) ==
  /\ pc[t] = "write"
  /\ route' = [route EXCEPT ![t] =
                [worker |-> IF t \in Workers THEN t
                            ELSE LeastLoaded(wcount, Cardinality(Workers), wrr),
                 slot |-> LeastLoaded(tcount, NSlots, trr)]]
  /\ table' = [table EXCEPT ![empty[t]] = [@ EXCEPT !.key = Key(t), !.valid = TRUE]]
  /\ Goto(t, "fields")
  /\ UNCHANGED <<lock, wcount, tcount, wrr, trr, job, empty, fallback, stamp, outRing, mid,
                 out, arrived>>

\* The entry's worker (the hint, or the least loaded) and TX slot, then its key.
WriteKey(t) ==
  /\ pc[t] = "write"
  /\ LET hinted == t \in Workers
     IN  /\ route' = [route EXCEPT ![t] =
              [worker |-> IF hinted THEN t ELSE LeastLoaded(wcount, Cardinality(Workers), wrr),
               slot |-> LeastLoaded(tcount, NSlots, trr)]]
         /\ wrr' = IF hinted THEN wrr ELSE (wrr + 1) % Cardinality(Workers)
  /\ trr' = (trr + 1) % NSlots
  /\ table' = [table EXCEPT ![empty[t]].key = Key(t)]
  /\ Goto(t, "fields")
  /\ UNCHANGED <<lock, wcount, tcount, job, empty, fallback, stamp, outRing, mid, out, arrived>>

\* Its other fields and the load counters.
WriteFields(t) ==
  /\ pc[t] = "fields"
  /\ table' = [table EXCEPT ![empty[t]] =
                 [@ EXCEPT !.seq = EmptyEntry.seq, !.worker = route[t].worker,
                           !.slot = route[t].slot]]
  /\ wcount' = [wcount EXCEPT ![route[t].worker] = @ + 1]
  /\ tcount' = [tcount EXCEPT ![route[t].slot] = @ + 1]
  /\ Goto(t, "publish")
  /\ UNCHANGED <<lock, wrr, trr, job, route, empty, fallback, stamp, outRing, mid, out, arrived>>

\* The release store of valid makes the entry visible to lock-free readers.
PublishEntry(t) ==
  /\ pc[t] = "publish"
  /\ table' = [table EXCEPT ![empty[t]].valid = TRUE]
  /\ Goto(t, "unlock")
  /\ UNCHANGED <<lock, wcount, tcount, wrr, trr, job, route, empty, fallback, stamp, outRing,
                 mid, out, arrived>>

InsertUnlock(t) ==
  /\ pc[t] = "unlock"
  /\ lock' = FALSE
  /\ Return(t, route[t])
  /\ UNCHANGED <<table, wcount, tcount, wrr, trr, job, route, empty, fallback, stamp, arrived>>

-----------------------------------------------------------------------------
(* dp_next_udp_tx_seq                                                      *)

Dir(w) == Direction(job[w].p)

\* fetch_add on the entry's counter of the packet's direction, and the push.
SeqOfEntry(w) ==
  LET i == Min(Hits(Key(w)))
  IN  /\ Push(w, outRing[w], [job[w] EXCEPT !.seq = table[i].seq[Dir(w)]])
      /\ table' = [table EXCEPT ![i].seq[Dir(w)] = (@ + 1) % SeqMod]

\* The first lookup, or a detour through the route lookup in case nobody
\* inserted the flow.
SeqLookup(w) ==
  /\ pc[w] = "seq"
  /\ \/ Hits(Key(w)) # {} /\ SeqOfEntry(w) /\ UNCHANGED route
     \/ /\ Hits(Key(w)) = {} /\ Goto(w, "scan") /\ UNCHANGED <<out, table>>
        /\ route' = [route EXCEPT ![w] = HashRoute(Key(w))]
  /\ UNCHANGED <<lock, wcount, tcount, wrr, trr, job, empty, fallback, stamp, outRing, mid,
                 arrived>>

\* The fallback way to give up: the last invalid one, else the first of the oldest.
Victim(w) ==
  LET set == FallbackSetFor(Key(w))
      free == {i \in set : ~fallback[w][i].valid}
      oldest == {i \in set : \A j \in set : fallback[w][i].stamp <= fallback[w][j].stamp}
  IN  IF free # {} THEN Max(free) ELSE Min(oldest)

\* Mutant: the worker's own table is not searched.
MineForgotten(w) == {}

\* The flow's way in the worker's own table.
Mine(w) == {i \in FallbackSetFor(Key(w)) : fallback[w][i].valid /\ fallback[w][i].key = Key(w)}

\* The second lookup, then the worker's own table: a saturated route set "must
\* not disable UDP sequencing".
SeqRetry(w) ==
  /\ pc[w] = "seq_retry"
  /\ IF Hits(Key(w)) # {}
     THEN SeqOfEntry(w) /\ UNCHANGED <<fallback, stamp>>
     ELSE LET i == IF Mine(w) # {} THEN Min(Mine(w)) ELSE Victim(w)
              next == IF Mine(w) # {} THEN fallback[w][i].next ELSE EmptyFallback.next
          IN  /\ Push(w, outRing[w], [job[w] EXCEPT !.seq = next[Dir(w)]])
              /\ stamp' = [stamp EXCEPT ![w] = (@ + 1) % SeqMod]
              /\ fallback' = [fallback EXCEPT ![w][i] =
                    [valid |-> TRUE, key |-> Key(w), stamp |-> stamp'[w],
                     next |-> [next EXCEPT ![Dir(w)] = (@ + 1) % SeqMod]]]
              /\ UNCHANGED table
  /\ UNCHANGED <<lock, wcount, tcount, wrr, trr, job, route, empty, outRing, mid, arrived>>

-----------------------------------------------------------------------------
RouteStep(t) ==
  \/ Scan(t) \/ InsertLock(t) \/ Rescan(t) \/ WriteKey(t) \/ WriteFields(t)
  \/ PublishEntry(t) \/ InsertUnlock(t)

Next ==
  \/ \E t \in Threads : RouteStep(t)
  \/ \E p \in Packets : RxTakes(p)
  \/ \E w \in Workers : TakeLocal(w) \/ SeqLookup(w) \/ SeqRetry(w) \/ \E p \in Packets : TakeWan(w, p)

\* All packets sent on.
Done == arrived = MaxPackets /\ \A t \in Threads : pc[t] = "idle" /\ (t # Rx => mid[t] = <<>>)

Spec == Init /\ [][Next \/ (Done /\ UNCHANGED vars)]_vars

-----------------------------------------------------------------------------
(* Properties.                                                             *)

\* The packets a worker was given, and the ones in the ring of a TX slot.
Given(w) == {mid[w][i] : i \in DOMAIN mid[w]}
Gone(s) == {out[s][i] : i \in DOMAIN out[s]}

\* A flow keeps its TX slot, in both directions, and its worker: every lookup by
\* any thread, before, during or after the insertion, with or without a hint, in
\* a free or in a saturated set, returns the same route ("remapping an
\* established TCP flow can reorder packets").
Sticky ==
  LET seen == (UNION {Given(w) : w \in Workers}) \cup (UNION {Gone(s) : s \in Slots})
  IN  /\ \A x, y \in seen : x.p \in {y.p, Reverse(y.p)} => x.slot = y.slot
      /\ \A v, w \in Workers : \A x \in Given(v), y \in Given(w) : x.p = y.p => v = w

\* "Each TX slot has one MPSC ring and exactly one TX consumer, preserving order
\* within every sticky flow": the packets of a flow enter one ring, in the order
\* in which they came, though each worker serves two input rings in turn and
\* binds its output ring anew for each packet.
FlowInOrder ==
  \A s, r \in Slots : \A i \in DOMAIN out[s], j \in DOMAIN out[r] :
    out[s][i].p = out[r][j].p => s = r /\ (i < j => out[s][i].n < out[r][j].n)

\* "Independently balanced TX slot": outside an insertion no TX slot has more
\* than one flow more than another, whoever inserted them.
SlotsBalanced ==
  LET flows(s) == Cardinality({i \in Ways : table[i].valid /\ table[i].slot = s})
  IN  ~lock => \A s1, s2 \in Slots : flows(s1) <= flows(s2) + 1

\* The UDP flows, of any route set, that meet p in the fallback set of one worker:
\* their own route sets are full of other flows.
Rivals(p) ==
  {q \in Packets : /\ q.proto = Udp /\ Hits(KeyOf(q)) = {} /\ Invalid(KeyOf(q)) = {}
                   /\ HashRoute(KeyOf(q)).worker = HashRoute(KeyOf(p)).worker
                   /\ FallbackSetFor(KeyOf(q)) = FallbackSetFor(KeyOf(p))}

\* A flow has an entry, or all its rivals and itself fit in the fallback set.
SeqRoom(p) ==
  \/ Hits(KeyOf(p)) # {}
  \/ Cardinality(Rivals(p)) <= Cardinality(FallbackSetFor(KeyOf(p)))

\* crypto_route.h: "Monotonic wire sequence in one flow/direction".  It is, in the
\* arithmetic of uint32_t and as long as there is room: a later packet's number is
\* ahead of an earlier one's by no more than the packets that arrived meanwhile,
\* so that it is another one if those are fewer than SeqMod, through the entry,
\* the detour and the fallback alike and whatever other route sets do.
SeqMonotonicWhileRoom ==
  \A s \in Slots : \A i, j \in DOMAIN out[s] :
    /\ i < j /\ out[s][i].p = out[s][j].p /\ out[s][i].seq >= 0
    /\ SeqRoom(out[s][i].p)
    => \E k \in 1 .. out[s][j].n - out[s][i].n : out[s][j].seq = (out[s][i].seq + k) % SeqMod
=============================================================================
