------------------------------ MODULE XskRing ------------------------------
(***************************************************************************)
(* The rings of one AF_XDP socket, index by index: include/xdp/xsk.h and   *)
(* its callers in core/iface/xdp_interface.c.  The program produces into   *)
(* one ring P and consumes the other, C:                                   *)
(*   role "tx": a TX thread fills the TX ring and drains the completion    *)
(*              ring (tx_drain_queue, drain_cq_queue);                     *)
(*   role "rx": an RX thread fills the fill ring and drains the RX ring    *)
(*              (refill_fq_queue, recv_queue, kick_fq_queue).              *)
(* Both ends keep cached copies of the other end's index and refresh them  *)
(* only when they seem to need it.  The kernel sleeps and sets             *)
(* XDP_RING_NEED_WAKEUP before it does; it is external, modelled by the    *)
(* protocol of include/linux/if_xdp.h the code relies on.                  *)
(*                                                                         *)
(* Indices wrap at Size * Turns instead of 2^32.  The store of P's         *)
(* producer index waits in a store buffer of one entry (x86-TSO): the flag *)
(* is loaded after it with no barrier between.                             *)
(***************************************************************************)
EXTENDS Integers, Sequences, FiniteSets

CONSTANTS
  XskFrames,     \* number of frames of the socket's traffic
  Size,          \* entries of either ring
  Turns,         \* the indices wrap after so many turns
  SegMax,        \* NE_PACKET_MAX_SEGS
  RxBatch,       \* NE_BATCH_SIZE
  TxBatch        \* NE_XSK_COPY_TX_BATCH

ASSUME XskAssumption ==
  /\ XskFrames \in Nat /\ Size \in Nat /\ Turns \in Nat /\ Turns >= 2
  /\ SegMax \in 1 .. Size /\ RxBatch \in Nat \ {0} /\ TxBatch \in Nat \ {0}

VARIABLES
  role,          \* which thread and which pair of rings
  P, C,          \* the two rings
  unseen,        \* stores of P's producer index still in the store buffer
  flag,          \* NEED_WAKEUP of P
  xpc,           \* where the thread is
  spare,         \* ne_pool: free frames
  held,          \* frames of the packet, or of the refill, being produced
  got,           \* entries of C peeked and not released
  sent,          \* packets in this call of tx_drain_queue
  kernel,        \* "awake" or "asleep"
  owes,          \* the kernel was kicked and has not taken an entry since
  inside,        \* frames the kernel took from P and has not put into C
  order          \* history: frames submitted to P and not taken, in order

ring == <<P, C, unseen, flag>>
thread == <<role, xpc, spare, held, got, sent>>
outside == <<kernel, owes, inside>>
xskVars == <<ring, thread, outside, order>>

U32 == Size * Turns
Add(i, n) == (i + n) % U32
Sub(i, j) == (i - j) % U32
At(i) == i % Size                                    \* idx & ring->mask
SegMin(a, b) == IF a < b THEN a ELSE b

-----------------------------------------------------------------------------
(* xsk.h.  A ring has its two indices in shared memory, the program's       *)
(* cached copies of them, and its entries.  Operators that may refresh a    *)
(* cached copy return the ring and a count.                                 *)

\* xsk_ring_prod of a new socket: cached_cons is Size ahead of the consumer.
NewProd == [prod |-> 0, cons |-> 0, cprod |-> 0, ccons |-> Size,
            at |-> [i \in 0 .. Size - 1 |-> 0]]
NewCons == [NewProd EXCEPT !.ccons = 0]

\* Mutant: the cached consumer is refreshed without "+= r->size".
NbFreeNoSize(r, nb) ==
  IF Sub(r.ccons, r.cprod) >= nb THEN [r |-> r, n |-> Sub(r.ccons, r.cprod)]
  ELSE LET r1 == [r EXCEPT !.ccons = r.cons]
       IN  [r |-> r1, n |-> Sub(r1.ccons, r1.cprod)]

\* xsk_prod_nb_free
NbFree(r, nb) ==
  IF Sub(r.ccons, r.cprod) >= nb THEN [r |-> r, n |-> Sub(r.ccons, r.cprod)]
  ELSE LET r1 == [r EXCEPT !.ccons = Add(r.cons, Size)]
       IN  [r |-> r1, n |-> Sub(r1.ccons, r1.cprod)]

\* xsk_cons_nb_avail
NbAvail(r, nb) ==
  LET r1 == IF r.cprod = r.ccons THEN [r EXCEPT !.cprod = r.prod] ELSE r
  IN  [r |-> r1, n |-> SegMin(Sub(r1.cprod, r1.ccons), nb)]

\* xsk_ring_prod__reserve: all nb entries or none.
Reserve(r, nb) ==
  LET f == NbFree(r, nb)
  IN  IF f.n < nb THEN [r |-> f.r, n |-> 0]
      ELSE [r |-> [f.r EXCEPT !.cprod = Add(@, nb)], n |-> nb]

\* Mutant: entries are filled from the index after the reserved one.
FillShifted(r, frames) ==
  [r EXCEPT !.at = [i \in DOMAIN @ |->
     LET k == (i - At(Sub(r.cprod, Len(frames))) - 1) % Size
     IN  IF k < Len(frames) THEN frames[k + 1] ELSE @[i]]]

\* xsk_ring_prod__fill_addr / __tx_desc for the entries just reserved.
Fill(r, frames) ==
  [r EXCEPT !.at = [i \in DOMAIN @ |->
     LET k == (i - At(Sub(r.cprod, Len(frames)))) % Size
     IN  IF k < Len(frames) THEN frames[k + 1] ELSE @[i]]]

\* xsk_ring_cons__peek
Peek(r, nb) ==
  LET a == NbAvail(r, nb)
  IN  [r |-> [a.r EXCEPT !.ccons = Add(@, a.n)], n |-> a.n]

\* xsk_ring_cons__comp_addr / __rx_desc: the n entries from index i on.
Entries(r, i, n) == [k \in 1 .. n |-> r.at[At(Add(i, k - 1))]]

\* xsk_ring_cons__release
ReleaseCons(r, n) == [r EXCEPT !.cons = Add(@, n)]

\* The producer index in program order: the store buffer before memory.
OwnProd == IF unseen = <<>> THEN P.prod ELSE unseen[1]

-----------------------------------------------------------------------------
XskInit ==
  /\ role \in {"tx", "rx"}
  /\ P = NewProd /\ C = NewCons /\ unseen = <<>> /\ flag = FALSE
  /\ xpc = IF role = "tx" THEN "cq" ELSE "refill"
  /\ spare = [i \in 1 .. XskFrames |-> i]
  /\ held = <<>> /\ got = 0 /\ sent = 0
  /\ kernel = "awake" /\ owes = FALSE /\ inside = <<>> /\ order = <<>>

\* The hardware drains the store buffer.
StoreDrains ==
  /\ unseen # <<>>
  /\ P' = [P EXCEPT !.prod = unseen[1]] /\ unseen' = <<>>
  /\ UNCHANGED <<C, flag, thread, outside, order>>

-----------------------------------------------------------------------------
(* The TX thread: drain_cq_queue, then tx_drain_queue.                     *)

\* xsk_ring_cons__peek of the completion ring.
CqPeek ==
  /\ role = "tx" /\ xpc = "cq"
  /\ LET p == Peek(C, RxBatch)
     IN  C' = p.r /\ got' = p.n /\ xpc' = IF p.n = 0 THEN "free" ELSE "cqrel"
  /\ sent' = 0
  /\ UNCHANGED <<P, unseen, flag, role, spare, held, outside, order>>

\* The frames go back to the pool, the entries to the kernel; another round
\* only after a full batch.
CqRelease ==
  /\ role = "tx" /\ xpc = "cqrel"
  /\ spare' = spare \o Entries(C, Sub(C.ccons, got), got)
  /\ C' = ReleaseCons(C, got)
  /\ xpc' = IF got < RxBatch THEN "free" ELSE "cq"
  /\ got' = 0
  /\ UNCHANGED <<P, unseen, flag, role, held, sent, outside, order>>

\* A packet is queued (its frames left the pool when it was received) and the
\* ring has room for the longest: it is popped.
TxPop ==
  /\ role = "tx" /\ xpc = "free" /\ sent < TxBatch
  /\ LET f == NbFree(P, SegMax)
     IN  /\ f.n >= SegMax
         /\ P' = f.r
  /\ \E n \in 1 .. SegMin(SegMax, Len(spare)) :
       held' = SubSeq(spare, 1, n) /\ spare' = SubSeq(spare, n + 1, Len(spare))
  /\ xpc' = "reserve"
  /\ UNCHANGED <<C, unseen, flag, role, got, sent, outside, order>>

\* The loop ends: the batch is full or nothing is queued, or there is no room.
TxEnd ==
  /\ role = "tx" /\ xpc = "free"
  /\ \/ UNCHANGED P
     \/ LET f == NbFree(P, SegMax) IN f.n < SegMax /\ P' = f.r
  /\ xpc' = "flag"
  /\ UNCHANGED <<C, unseen, flag, role, spare, held, got, sent, outside, order>>

-----------------------------------------------------------------------------
(* The RX thread: refill_fq_queue, then recv_queue.                        *)

\* xsk_prod_nb_free, pool_pop; with nothing to give the flag is not looked at.
RefillPop ==
  /\ role = "rx" /\ xpc = "refill"
  /\ LET f == NbFree(P, RxBatch)
         n == SegMin(SegMin(f.n, RxBatch), Len(spare))
     IN  /\ P' = f.r
         /\ held' = SubSeq(spare, 1, n) /\ spare' = SubSeq(spare, n + 1, Len(spare))
         /\ xpc' = IF n = 0 THEN "recv" ELSE "reserve"
  /\ UNCHANGED <<C, unseen, flag, role, got, sent, outside, order>>

\* xsk_ring_cons__peek of the RX ring; without a packet the fill ring is
\* looked at (ne_kick_fq_{local,wan}_slot).
RxPeek ==
  /\ role = "rx" /\ xpc = "recv"
  /\ LET p == Peek(C, RxBatch)
     IN  C' = p.r /\ got' = p.n /\ xpc' = IF p.n = 0 THEN "flag" ELSE "rxrel"
  /\ sent' = 0
  /\ UNCHANGED <<P, unseen, flag, role, spare, held, outside, order>>

\* release_rx_queue; the packets' frames come back to the pool in time.
RxRelease ==
  /\ role = "rx" /\ xpc = "rxrel"
  /\ spare' = spare \o Entries(C, Sub(C.ccons, got), got)
  /\ C' = ReleaseCons(C, got)
  /\ got' = 0 /\ xpc' = "refill"
  /\ UNCHANGED <<P, unseen, flag, role, held, sent, outside, order>>

-----------------------------------------------------------------------------
(* Common to both: reserve, fill, submit, look at the flag.                *)

\* xsk_ring_prod__reserve.  If it refuses, the frames go back to the pool.
ReserveHeld ==
  /\ xpc = "reserve"
  /\ LET r == Reserve(P, Len(held))
     IN  /\ P' = r.r
         /\ IF r.n = Len(held)
            THEN xpc' = "fill" /\ UNCHANGED <<held, spare>>
            ELSE /\ spare' = spare \o held /\ held' = <<>>
                 /\ xpc' = IF role = "tx" THEN "flag" ELSE "recv"
  /\ UNCHANGED <<C, unseen, flag, role, got, sent, outside, order>>

FillHeld ==
  /\ xpc = "fill"
  /\ P' = Fill(P, held)
  /\ xpc' = "submit"
  /\ UNCHANGED <<C, unseen, flag, role, spare, held, got, sent, outside, order>>

\* xsk_ring_prod__submit: the store of the producer index, into the buffer.
Submit ==
  /\ xpc = "submit" /\ unseen = <<>>
  /\ unseen' = <<Add(OwnProd, Len(held))>>
  /\ order' = order \o held
  /\ held' = <<>>
  /\ sent' = sent + 1
  /\ xpc' = IF role = "tx" THEN "free" ELSE "flag"
  /\ UNCHANGED <<P, C, flag, role, spare, got, outside>>

\* Where the thread goes on after it looked at the flag: tx_drain_queue is
\* called again while it sent something, refill_fq_queue is followed by
\* recv_queue, kick_fq_queue by the next refill.
After == IF role = "tx" THEN IF sent > 0 THEN {"free", "cq"} ELSE {"cq"}
         ELSE IF sent > 0 THEN {"recv"} ELSE {"refill"}

\* Mutant: the kernel is woken only after something was submitted.
LookAtFlagIfSent ==
  /\ xpc = "flag"
  /\ IF flag /\ sent > 0 THEN xpc' = "kick" ELSE xpc' \in After
  /\ sent' = IF xpc' = "kick" THEN sent ELSE 0
  /\ UNCHANGED <<ring, role, spare, held, got, outside, order>>

\* xsk_ring_prod__needs_wakeup
LookAtFlag ==
  /\ xpc = "flag"
  /\ IF flag THEN xpc' = "kick" ELSE xpc' \in After
  /\ sent' = IF xpc' = "kick" THEN sent ELSE 0
  /\ UNCHANGED <<ring, role, spare, held, got, outside, order>>

\* sendto / recvfrom with MSG_DONTWAIT: the kernel runs, and may or may not
\* clear its flag (copy mode leaves it set).
Kick ==
  /\ xpc = "kick"
  /\ xpc' \in After /\ sent' = 0
  /\ kernel' = "awake" /\ owes' = TRUE
  /\ flag' \in {flag, FALSE}
  /\ UNCHANGED <<P, C, unseen, role, spare, held, got, inside, order>>

-----------------------------------------------------------------------------
(* The kernel and the NIC: external.                                       *)

\* An entry is taken only while its completion is sure of a place in C.
CanTake == P.prod # P.cons /\ Len(inside) + Sub(C.prod, C.cons) < Size

KernelTake ==
  /\ kernel = "awake" /\ CanTake
  /\ inside' = Append(inside, P.at[At(P.cons)])
  /\ P' = [P EXCEPT !.cons = Add(@, 1)]
  /\ order' = Tail(order)
  /\ owes' = FALSE
  /\ UNCHANGED <<C, unseen, flag, thread, kernel>>

\* A frame was sent, or filled with a packet from the wire.
KernelPut ==
  /\ inside # <<>>
  /\ C' = [C EXCEPT !.at[At(C.prod)] = Head(inside), !.prod = Add(@, 1)]
  /\ inside' = Tail(inside)
  /\ UNCHANGED <<P, unseen, flag, thread, kernel, owes, order>>

\* The flag is set first, then the ring is looked at for the last time; after
\* a kick at least one entry is taken.
KernelFlag ==
  /\ kernel = "awake" /\ ~flag
  /\ flag' = TRUE
  /\ UNCHANGED <<P, C, unseen, thread, outside, order>>

KernelSleep ==
  /\ kernel = "awake" /\ flag /\ (CanTake => ~owes)
  /\ kernel' = "asleep"
  /\ UNCHANGED <<ring, thread, owes, inside, order>>

-----------------------------------------------------------------------------
ThreadStep ==
  \/ CqPeek \/ CqRelease \/ TxPop \/ TxEnd
  \/ RefillPop \/ RxPeek \/ RxRelease
  \/ ReserveHeld \/ FillHeld \/ Submit \/ LookAtFlag \/ Kick

XskNext ==
  \/ ThreadStep \/ StoreDrains
  \/ KernelTake \/ KernelPut \/ KernelFlag \/ KernelSleep

XskSpec == XskInit /\ [][XskNext]_xskVars

-----------------------------------------------------------------------------
(* Properties.                                                             *)

\* Where every frame is, as the two ends see it: free, in the thread's hands,
\* in P between the kernel's index and the thread's, in the kernel, in C
\* between the thread's released index and the kernel's.
InP == Entries(P, P.cons, Sub(OwnProd, P.cons))
InC == Entries(C, C.cons, Sub(C.prod, C.cons))
Everywhere == spare \o held \o InP \o inside \o InC

\* However stale the cached indices are, and across their wrap-around, no entry
\* is overwritten before the other end has taken it and none is read before it
\* is written: every frame is in exactly one place (xsk_prod_nb_free,
\* xsk_cons_nb_avail, xsk_ring_prod__submit, xsk_ring_cons__release).
FramesOnce ==
  /\ Len(Everywhere) = XskFrames
  /\ {Everywhere[i] : i \in DOMAIN Everywhere} = 1 .. XskFrames

\* What the kernel will take is what was submitted, in that order, so the
\* segments of a packet stay together and in sequence.
TakenInOrder == InP = order

\* A kernel that sleeps although entries wait for it is woken, even when its
\* flag was set too late for the thread that submitted them: both threads look
\* at the flag again in rounds in which they submit nothing.
KernelWoken == (kernel = "asleep" /\ P.prod # P.cons) ~> kernel = "awake"
=============================================================================
