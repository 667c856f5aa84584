------------------------------- MODULE NeRing -------------------------------
(***************************************************************************)
(* struct ne_ring of core/iface/xdp_interface.c: the software ring between *)
(* an RX thread and a crypto worker, or between the crypto workers and one *)
(* TX thread.  Any number of producers, serialised by push_lock; one       *)
(* consumer, which takes no lock (every ring is created with mpsc_pop = 0).*)
(*                                                                         *)
(* head and tail are free-running unsigned counters; here they wrap at     *)
(* Wrap = Cap * Laps instead of 2^32, which keeps what matters: Cap        *)
(* divides Wrap, so that "& mask" is the position modulo Cap.              *)
(*                                                                         *)
(* One action is one access to shared memory.  The accesses to head and    *)
(* tail are acquire/release, so a slot is seen as it was before the        *)
(* counter that published it; interleaving the accesses is therefore the   *)
(* whole of the concurrency.                                               *)
(***************************************************************************)
EXTENDS Integers, Sequences

CONSTANTS Producers,   \* threads that push: crypto workers (or the RX thread)
          Packets,     \* identities of packets, each pushed at most once
          Cap,         \* r->cap
          Laps,        \* the counters wrap after Laps turns of the ring
          NoOne        \* push_lock is free / an empty slot

\* ne_ring_init accepts a power of two; push_pair needs two slots.
ASSUME RingAssumption ==
  /\ Cap \in Nat /\ Cap >= 2
  /\ Laps \in Nat /\ Laps >= 2
  /\ NoOne \notin Producers
  /\ NoOne \notin Packets

Wrap == Cap * Laps
Index == 0 .. (Wrap - 1)

VARIABLES
  head, tail,          \* r->head, r->tail
  buf,                 \* r->buf
  push_lock,           \* r->push_lock: its holder, or NoOne
  pc,                  \* where each producer is in its push
  job,                 \* packets of the call in progress: one, or a pair
  h, t,                \* the producer's local copies of head and tail
  cpc, ch, got,        \* the consumer: where it is, its copy of head, *pkt
  seen,                \* the consumer's last ne_ring_count() was not zero
  fresh,               \* history: packets no call has used yet
  pairs,               \* history: fragment pairs handed to push_pair
  acc, out             \* history: packets accepted and delivered, in order

shared == <<head, tail, buf, push_lock>>
producer == <<pc, job, h, t>>
consumer == <<cpc, ch, got, seen>>
history == <<fresh, pairs, acc, out>>
vars == <<shared, producer, consumer, history>>

PcSet == {"idle", "count_head", "count_tail", "lock", "load", "write1",
          "write2", "publish", "unlock"}

\* x + n and x - y on the counters' unsigned type.
Plus(x, n) == IF x + n < Wrap THEN x + n ELSE x + n - Wrap
Minus(x, y) == IF x >= y THEN x - y ELSE x - y + Wrap
Slot(x) == x % Cap                                   \* x & r->mask

Count == Minus(head, tail)

-----------------------------------------------------------------------------
TypeOK ==
  /\ head \in Index /\ tail \in Index
  /\ buf \in [0 .. Cap - 1 -> Packets \cup {NoOne}]
  /\ push_lock \in Producers \cup {NoOne}
  /\ pc \in [Producers -> PcSet]
  /\ job \in [Producers -> Seq(Packets)]
  /\ \A p \in Producers : Len(job[p]) <= 2
  /\ h \in [Producers -> Index] /\ t \in [Producers -> Index]
  /\ cpc \in {"idle", "count", "copy", "commit"}
  /\ ch \in Index
  /\ got \in Packets \cup {NoOne}
  /\ seen \in BOOLEAN
  /\ fresh \in SUBSET Packets
  /\ pairs \in SUBSET (Packets \X Packets)
  /\ acc \in Seq(Packets) /\ out \in Seq(Packets)

\* ne_ring_init, and the threads before their first call.
Init ==
  /\ head = 0 /\ tail = 0
  /\ buf = [i \in 0 .. Cap - 1 |-> NoOne]
  /\ push_lock = NoOne
  /\ pc = [p \in Producers |-> "idle"]
  /\ job = [p \in Producers |-> <<>>]
  /\ h = [p \in Producers |-> 0] /\ t = [p \in Producers |-> 0]
  /\ cpc = "idle" /\ ch = 0 /\ got = NoOne /\ seen = FALSE
  /\ fresh = Packets /\ pairs = {} /\ acc = <<>> /\ out = <<>>

-----------------------------------------------------------------------------
(* Producers.                                                              *)

\* dp_ring_push and the RX threads: ne_ring_try_push of one packet.
TryPush(p) ==
  /\ pc[p] = "idle"
  /\ \E a \in fresh :
       /\ job' = [job EXCEPT ![p] = <<a>>]
       /\ fresh' = fresh \ {a}
  /\ pc' = [pc EXCEPT ![p] = "lock"]
  /\ UNCHANGED <<shared, h, t, consumer, pairs, acc, out>>

\* push_split_to_wan with the two fragments of one datagram: it looks at
\* ne_ring_count first, without the lock.
PushSplit(p) ==
  /\ pc[p] = "idle"
  /\ \E a \in fresh : \E b \in fresh \ {a} :
       /\ job' = [job EXCEPT ![p] = <<a, b>>]
       /\ fresh' = fresh \ {a, b}
       /\ pairs' = pairs \cup {<<a, b>>}
  /\ pc' = [pc EXCEPT ![p] = "count_head"]
  /\ UNCHANGED <<shared, h, t, consumer, acc, out>>

\* ne_ring_count, first load.
CountHead(p) ==
  /\ pc[p] = "count_head"
  /\ h' = [h EXCEPT ![p] = head]
  /\ pc' = [pc EXCEPT ![p] = "count_tail"]
  /\ UNCHANGED <<shared, job, t, consumer, history>>

\* ne_ring_count, second load, and the test "count + 2 > cap" of
\* push_split_to_wan, in unsigned arithmetic.  Other producers and the
\* consumer may have run since the first load, so the difference may have
\* wrapped: the answer is only a hint, and a full ring drops the pair.
CountTail(p) ==
  /\ pc[p] = "count_tail"
  /\ t' = [t EXCEPT ![p] = tail]
  /\ IF Plus(Minus(h[p], tail), 2) > Cap
     THEN pc' = [pc EXCEPT ![p] = "idle"] /\ job' = [job EXCEPT ![p] = <<>>]
     ELSE pc' = [pc EXCEPT ![p] = "lock"] /\ UNCHANGED job
  /\ UNCHANGED <<shared, h, consumer, history>>

\* Mutant: the lock is not taken.
LockIgnored(p) ==
  /\ pc[p] = "lock"
  /\ push_lock' = p
  /\ h' = [h EXCEPT ![p] = head]
  /\ pc' = [pc EXCEPT ![p] = "load"]
  /\ UNCHANGED <<head, tail, buf, job, t, consumer, history>>

\* pthread_spin_lock, then the load of head (only a lock holder changes it).
Lock(p) ==
  /\ pc[p] = "lock"
  /\ push_lock = NoOne
  /\ push_lock' = p
  /\ h' = [h EXCEPT ![p] = head]
  /\ pc' = [pc EXCEPT ![p] = "load"]
  /\ UNCHANGED <<head, tail, buf, job, t, consumer, history>>

\* Mutant: a pair is refused only by a full ring.
FullPairAsSingle(n, cnt) == cnt >= Cap

\* The test that refuses a push of n packets when cnt are in the ring.
Full(n, cnt) == IF n = 1 THEN cnt >= Cap ELSE cnt > Cap - 2

\* The load of tail under the lock, and the bound test.
LoadTail(p) ==
  /\ pc[p] = "load"
  /\ t' = [t EXCEPT ![p] = tail]
  /\ pc' = [pc EXCEPT ![p] =
              IF Full(Len(job[p]), Minus(h[p], tail)) THEN "unlock" ELSE "write1"]
  /\ UNCHANGED <<shared, job, h, consumer, history>>

\* r->buf[head & mask] = *first (or *pkt).
WriteFirst(p) ==
  /\ pc[p] = "write1"
  /\ buf' = [buf EXCEPT ![Slot(h[p])] = job[p][1]]
  /\ pc' = [pc EXCEPT ![p] = IF Len(job[p]) = 2 THEN "write2" ELSE "publish"]
  /\ UNCHANGED <<head, tail, push_lock, job, h, t, consumer, history>>

\* Mutant: both fragments go to the slot of head.
WriteSecondSameSlot(p) ==
  /\ pc[p] = "write2"
  /\ buf' = [buf EXCEPT ![Slot(h[p])] = job[p][2]]
  /\ pc' = [pc EXCEPT ![p] = "publish"]
  /\ UNCHANGED <<head, tail, push_lock, job, h, t, consumer, history>>

\* r->buf[(head + 1) & mask] = *second.
WriteSecond(p) ==
  /\ pc[p] = "write2"
  /\ buf' = [buf EXCEPT ![Slot(Plus(h[p], 1))] = job[p][2]]
  /\ pc' = [pc EXCEPT ![p] = "publish"]
  /\ UNCHANGED <<head, tail, push_lock, job, h, t, consumer, history>>

\* Mutant: the pair is published one fragment at a time.
PublishOneByOne(p) ==
  /\ pc[p] = "publish"
  /\ head' = Plus(h[p], 1)
  /\ acc' = Append(acc, job[p][1])
  /\ IF Len(job[p]) = 2
     THEN /\ job' = [job EXCEPT ![p] = Tail(job[p])]
          /\ h' = [h EXCEPT ![p] = Plus(h[p], 1)]
          /\ UNCHANGED pc
     ELSE /\ pc' = [pc EXCEPT ![p] = "unlock"]
          /\ UNCHANGED <<job, h>>
  /\ UNCHANGED <<tail, buf, push_lock, t, consumer, fresh, pairs, out>>

\* The release store of head: the whole call becomes visible at once.
Publish(p) ==
  /\ pc[p] = "publish"
  /\ head' = Plus(h[p], Len(job[p]))
  /\ acc' = acc \o job[p]
  /\ pc' = [pc EXCEPT ![p] = "unlock"]
  /\ UNCHANGED <<tail, buf, push_lock, job, h, t, consumer, fresh, pairs, out>>

\* pthread_spin_unlock and return, successful or not.
Unlock(p) ==
  /\ pc[p] = "unlock"
  /\ push_lock' = NoOne
  /\ pc' = [pc EXCEPT ![p] = "idle"]
  /\ job' = [job EXCEPT ![p] = <<>>]
  /\ UNCHANGED <<head, tail, buf, h, t, consumer, history>>

-----------------------------------------------------------------------------
(* The consumer: a crypto worker or a TX thread.                           *)

\* ne_ring_count by the consumer (tx_drain_queue, tx_slot_has_pending,
\* crypto_idle_pause): head is loaded first, then its own tail.
ConsumerCountHead ==
  /\ cpc = "idle" /\ ~seen
  /\ ch' = head
  /\ cpc' = "count"
  /\ UNCHANGED <<shared, producer, got, seen, history>>

ConsumerCountTail ==
  /\ cpc = "count"
  /\ seen' = (Minus(ch, tail) # 0)
  /\ cpc' = "idle"
  /\ UNCHANGED <<shared, producer, ch, got, history>>

\* Mutant: an empty ring is not recognised.
PopLoadUntested ==
  /\ cpc = "idle"
  /\ ch' = head
  /\ cpc' = "copy"
  /\ UNCHANGED <<shared, producer, got, seen, history>>

\* ne_ring_try_pop, the loads: tail is the consumer's own.
PopLoad ==
  /\ cpc = "idle"
  /\ ch' = head
  /\ cpc' = IF tail = head THEN "idle" ELSE "copy"
  /\ UNCHANGED <<shared, producer, got, seen, history>>

\* *pkt = r->buf[tail & mask].
PopCopy ==
  /\ cpc = "copy"
  /\ got' = buf[Slot(tail)]
  /\ cpc' = "commit"
  /\ UNCHANGED <<shared, producer, ch, seen, history>>

\* Mutant: the consumer believes one count for several pops.
PopCommitKeepsCount ==
  /\ cpc = "commit"
  /\ tail' = Plus(tail, 1)
  /\ out' = Append(out, got)
  /\ cpc' = "idle"
  /\ UNCHANGED <<head, buf, push_lock, producer, ch, got, seen, fresh, pairs, acc>>

\* The release store of tail: the slot is free, the packet delivered.
PopCommit ==
  /\ cpc = "commit"
  /\ tail' = Plus(tail, 1)
  /\ out' = Append(out, got)
  /\ seen' = FALSE
  /\ cpc' = "idle"
  /\ UNCHANGED <<head, buf, push_lock, producer, ch, got, fresh, pairs, acc>>

-----------------------------------------------------------------------------
ProducerStep(p) ==
  \/ TryPush(p) \/ PushSplit(p)
  \/ CountHead(p) \/ CountTail(p)
  \/ Lock(p) \/ LoadTail(p)
  \/ WriteFirst(p) \/ WriteSecond(p)
  \/ Publish(p) \/ Unlock(p)

ConsumerStep ==
  \/ ConsumerCountHead \/ ConsumerCountTail
  \/ PopLoad \/ PopCopy \/ PopCommit

Next == (\E p \in Producers : ProducerStep(p)) \/ ConsumerStep

Spec == Init /\ [][Next]_vars

-----------------------------------------------------------------------------
(* Properties.                                                             *)

Writing(p) == pc[p] \in {"write1", "write2"}
WriteSlot(p) == IF pc[p] = "write1" THEN Slot(h[p]) ELSE Slot(Plus(h[p], 1))

\* The ring never holds more than Cap packets although the test is made on
\* wrapping counters and, for a pair, repeated after an unlocked count: the
\* unsigned difference of the counters is always the number of packets
\* accepted and not delivered (ne_ring_try_push, try_push_pair, try_pop).
CountExact == Count <= Cap /\ Len(acc) = Len(out) + Count

\* No slot is written while it holds a packet the consumer has still to read,
\* and no two producers write at once (ne_ring_try_push[_pair] against
\* ne_ring_try_pop, which takes no lock).
NoSlotRace ==
  \A p \in Producers : Writing(p) =>
    /\ \A x \in Index : Minus(x, tail) < Count => WriteSlot(p) # Slot(x)
    /\ \A q \in Producers \ {p} : ~Writing(q)

\* What is delivered is what was accepted, in that order: nothing lost, torn,
\* duplicated or overtaken, across wrap-around of slots and counters.
DeliveredInOrder ==
  /\ Len(out) <= Len(acc)
  /\ \A i \in 1 .. Len(out) : out[i] = acc[i]

\* The comment of ne_ring_try_push_pair: no other producer's packet gets
\* between two fragments, and the consumer never observes only the first half:
\* once it has the first fragment the second is next, in the ring already.
PairTogether ==
  \A pr \in pairs : \A i \in 1 .. Len(out) :
    out[i] = pr[1] =>
      IF i < Len(out) THEN out[i + 1] = pr[2]
                      ELSE Count > 0 /\ buf[Slot(tail)] = pr[2]

\* A consumer that saw a non-zero ne_ring_count finds a packet when it pops:
\* tx_drain_queue reserves TX descriptors in between and relies on it.
CountThenPop == seen => Count > 0

Fifo == INSTANCE BoundedFifo WITH accepted <- acc, delivered <- out

\* The ring implements the bounded FIFO with indivisible pairs.
ImplementsFifo == Fifo!FifoSpec
=============================================================================
