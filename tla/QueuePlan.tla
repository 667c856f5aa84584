------------------------------ MODULE QueuePlan ------------------------------
(***************************************************************************)
(* Who serves what: which threads the program starts for the queues it     *)
(* found, which XSK queue each of them reads or writes, which software     *)
(* rings and wake-up identifiers they own, on which CPU they run, and how  *)
(* many frames each fill ring gets.                                        *)
(*                                                                         *)
(* The tables of cpu_map.h are the parameters: their lengths are the       *)
(* numbers of slots, and the CPUs are numbered here in the order in which  *)
(* the tables are validated.                                               *)
(***************************************************************************)
EXTENDS Integers, Sequences, SequencesExt, FiniteSetsExt

CONSTANTS
  RxLan, RxWan,   \* NE_RX_LAN_SLOTS, NE_RX_WAN_SLOTS
  TxSlots,        \* NE_TX_SLOTS
  Crypto,         \* NE_CRYPTO_WORKERS
  MaxQueues,      \* MAX_QUEUES, also the size of both XSK maps
  NFrames,        \* NE_N_FRAMES
  FqPrefill,      \* NE_FQ_PREFILL
  BatchSize,      \* NE_BATCH_SIZE
  PollMax         \* NE_DP_POLLFD_MAX

\* The output rings are arrays of NE_CRYPTO_WORKERS elements indexed by TX slot,
\* a poll set has room for every queue, and the smallest prefill must leave the
\* reserve alone on every queue.
ASSUME PlanAssumption ==
  /\ {RxLan, RxWan, TxSlots, Crypto, MaxQueues} \subseteq Nat \ {0}
  /\ {NFrames, FqPrefill, BatchSize, PollMax} \subseteq Nat \ {0}
  /\ TxSlots <= Crypto /\ MaxQueues <= PollMax
  /\ 2 * MaxQueues * BatchSize <= (3 * NFrames) \div 4

Lesser(a, b) == IF a < b THEN a ELSE b

-----------------------------------------------------------------------------
(* Queues                                                                  *)

\* interface_get_queue_count: the rx-* entries of sysfs; 1 when the directory
\* is not there.
GetQueueCount(hw) == IF hw > 0 THEN hw ELSE 1

\* resolve_iface_queue_count; NE_QUEUE_OVERRIDE is 0, so apply_iface_queue_count
\* leaves the NIC as it is.
ResolveQueues(hw) == Lesser(GetQueueCount(hw), MaxQueues)

\* Mutant: the budget is divided by one interface's queues only.
PrefillByOne(nlan, nwan) ==
  LET per == Lesser(((3 * NFrames) \div 4) \div nlan, FqPrefill)
  IN  IF per < BatchSize THEN BatchSize ELSE per

\* prefill_per_queue: a quarter of the UMEM stays outside the fill rings.
PrefillOf(nlan, nwan) ==
  LET per == Lesser(((3 * NFrames) \div 4) \div (nlan + nwan), FqPrefill)
  IN  IF per < BatchSize THEN BatchSize ELSE per

\* ne_rx_slots_for_queues
RxSlotsFor(nq, slotsMax) == IF nq <= 0 THEN 1 ELSE Lesser(nq, slotsMax)

\* xsk_queue_for_rx_slot
RxServes(q, slot, nq, slots) ==
  LET n == RxSlotsFor(nq, slots) IN slot < n /\ q % n = slot

\* The queues that recv, release, refill and kick of a slot walk.
RxQueues(slot, nq, slots) == {q \in 0 .. nq - 1 : RxServes(q, slot, nq, slots)}

\* collect_iface_rx_fds: the ones with a socket that the slot's poll set has room
\* for; sockets are open on queues 0 .. open - 1.
PollFds(slot, nq, slots, open) ==
  LET mine == {q \in RxQueues(slot, nq, slots) : q < open}
  IN  {q \in mine : Cardinality({p \in mine : p < q}) < PollMax}

\* xsk_queue_for_tx_slot
TxServes(q, slot, nq) ==
  LET n == RxSlotsFor(nq, TxSlots) IN slot < n /\ q % n = slot

\* tx_drain_iface_ring: a slot sends on the first queue it serves, -1 if none.
TxPrimary(slot, nq) ==
  LET mine == {q \in 0 .. nq - 1 : TxServes(q, slot, nq)} IN IF mine = {} THEN -1 ELSE Min(mine)

\* forwarder_active_tx_slots, once both interfaces are live.
ActiveTx(nlan, nwan) == Lesser(TxSlots, Lesser(nlan, nwan))

-----------------------------------------------------------------------------
(* Rings and wake-ups                                                      *)

\* forwarder_init's order: the two input rings of each worker, then the outputs.
InputRings == [k \in 1 .. 2 * Crypto |->
                 <<IF k % 2 = 1 THEN "local_to_mid" ELSE "wan_to_mid", (k - 1) \div 2>>]
OutputRings(kind) == [k \in 1 .. Crypto |-> <<kind, k - 1>>]
RingOrder == InputRings \o OutputRings("mid_to_local") \o OutputRings("mid_to_wan")

\* tx_collect_worker_rings: what a TX thread drains; tx_slot_has_pending looks at
\* the same two rings.
TxRings(slot) == {<<"mid_to_local", slot>>, <<"mid_to_wan", slot>>}
CryptoRings(w) == {<<"local_to_mid", w>>, <<"wan_to_mid", w>>}

\* NE_DP_WAKE_CRYPTO, NE_DP_WAKE_TX; RX threads have none.
WakeId(t) == CASE t[1] = "crypto" -> t[2]
               [] t[1] = "tx"     -> Crypto + t[2]
               [] OTHER           -> -1

\* ne_dp_idle_wake_tx_worker: whom a push to output ring r wakes.
WakeOfRing(r) == Crypto + (r % TxSlots)

-----------------------------------------------------------------------------
(* Threads and CPUs                                                        *)

\* A thread is its role and its slot; every CPU table in validation order.
Group(role, n) == [k \in 1 .. n |-> <<role, k - 1>>]
CpuTable == Group("lan_rx", RxLan) \o Group("tx", TxSlots) \o Group("crypto", Crypto)
            \o Group("wan_rx", RxWan)
Cpus == 0 .. Len(CpuTable) - 1

\* ne_cpu_rx_lan, ne_cpu_tx, ne_cpu_crypto, ne_cpu_rx_wan
CpuOf(t) == (CHOOSE k \in 1 .. Len(CpuTable) : CpuTable[k] = t) - 1

\* validate_group: allowed, and not seen in an earlier entry.
ValidEntry(k, allowed) ==
  /\ CpuOf(CpuTable[k]) \in allowed
  /\ \A j \in 1 .. k - 1 : CpuOf(CpuTable[j]) # CpuOf(CpuTable[k])

\* ne_cpu_map_validate
CpuMapValid(allowed) == \A k \in 1 .. Len(CpuTable) : ValidEntry(k, allowed)

\* pin_cpu: a refused affinity is only logged, and the thread runs anywhere.
PinnedTo(t, allowed) == IF CpuOf(t) \in allowed THEN CpuOf(t) ELSE -1

\* Threads in the order forwarder_run creates them.
CreateOrder(nlan, nwan) ==
  Group("lan_rx", RxSlotsFor(nlan, RxLan)) \o Group("tx", ActiveTx(nlan, nwan))
  \o Group("crypto", Crypto) \o Group("wan_rx", RxSlotsFor(nwan, RxWan))

\* The joins at its end cover every TX slot.
JoinOrder(nlan, nwan) ==
  Group("lan_rx", RxSlotsFor(nlan, RxLan)) \o Group("tx", TxSlots)
  \o Group("crypto", Crypto) \o Group("wan_rx", RxSlotsFor(nwan, RxWan))
=============================================================================
