------------------------------ MODULE WireFrag ------------------------------
(***************************************************************************)
(* crypto/pqc/pqc_l2_option.c between two appliances: what encrypt_to_wan  *)
(* puts on the WAN for a packet, and the two-fragment reassembly tables of *)
(* the receiving workers.  The WAN loses, reorders and duplicates; either  *)
(* appliance may restart.                                                  *)
(*                                                                         *)
(* A datagram is a tag: the fragments carry it as their payload, so a join *)
(* of two different tags is a packet nobody sent.  GCM makes a frame       *)
(* arrive as it was sent or not at all.                                    *)
(***************************************************************************)
EXTENDS Integers, FiniteSets, FiniteSetsExt

CONSTANTS
  Workers,      \* crypto workers, the same on both appliances
  Flows,        \* flows of the sender; each has its own sequence
  Protos,       \* what l2_crypto_classify tells apart: subset of {"udp", "icmp", "data"}
  Sizes,        \* subset of {"fits", "oversize"}: the encrypted length against 14 + MTU
  TableSize,    \* L2_FRAG_TABLE_SIZE
  Probe,        \* slots opt_pick_slot looks at
  Timeout,      \* L2_FRAG_TIMEOUT_NS in clock ticks
  IdMod,        \* datagram ids before the worker's 32-bit clock wraps
  NonceMod,     \* nonces before the worker's 32-bit counter wraps
  MaxSends,     \* bound: datagrams sent
  MaxCopies,    \* bound: copies of one frame the WAN delivers
  MaxTime,      \* bound: clock ticks
  MaxRestarts   \* bound: restarts of the sender, and of the receiver

ASSUME FragAssumption ==
  /\ TableSize \in Nat /\ Probe \in 1 .. TableSize /\ Timeout \in Nat
  /\ IdMod \in Nat \ {0} /\ NonceMod \in Nat \ {0}
  /\ Protos \subseteq {"udp", "icmp", "data"} /\ Sizes \subseteq {"fits", "oversize"}
  /\ MaxSends \in Nat /\ MaxCopies \in Nat /\ MaxTime \in Nat /\ MaxRestarts \in Nat

None == 0                \* no payload; tags are 1, 2, ..
Slots == 0 .. TableSize - 1

VARIABLES
  epoch, clock, seq,   \* sender: g_udp_epoch, each worker's g_udp_tx_datagram_clock, flow sequences
  sent,                \* datagrams given to encrypt_to_wan so far; the last one's tag
  nonce,               \* sender: each worker's nonce_counter; its salt is drawn anew in every run
  used,                \* history: nonces used, [w, run, n] -> whether more than once
  dropped,             \* history: what encrypt_to_wan gave up, as [proto, size]
  wire,                \* frames on the WAN: frame -> copies that may still arrive
  table,               \* receiver: g_tables[worker]
  now,                 \* the receiver's clock
  out,                 \* history: packets handed to the LAN, [first, second] -> how often
  got,                 \* history: copies of each half a worker accepted
  pending,             \* history: received halves that no join has used, [w, tag, kind, at]
  crowded,             \* history: more than Probe datagrams were waiting at once
  spread,              \* history: longest time between the halves of a join
  restarts             \* restarts so far, of the sender and of the receiver

sender == <<epoch, clock, seq, nonce, used, sent, dropped>>
receiver == <<table, out, got, pending, crowded, spread>>
vars == <<sender, wire, receiver, now, restarts>>

Empty == [epoch |-> 0, id |-> 0, seq |-> 0, first |-> None, second |-> None, at |-> 0]
Occupied(e) == e.first # None \/ e.second # None

Init ==
  /\ epoch = 1 /\ clock = [w \in Workers |-> 0] /\ seq = [f \in Flows |-> 0]
  /\ nonce = [w \in Workers |-> 0] /\ used = <<>>
  /\ sent = 0 /\ dropped = {} /\ wire = <<>>
  /\ table = [w \in Workers |-> [i \in Slots |-> Empty]] /\ now = 0
  /\ out = <<>> /\ got = [d \in 1 .. MaxSends |-> [first |-> 0, second |-> 0]]
  /\ pending = {} /\ crowded = FALSE /\ spread = 0
  /\ restarts = [who \in {"sender", "receiver"} |-> 0]

-----------------------------------------------------------------------------
(* The sender: encrypt_to_wan.                                             *)

\* l2_crypto_need_split
NeedSplit(proto, size) == proto \in {"udp", "icmp"} /\ size = "oversize"

\* dp_udp_next_tx_seq finds no route key for ICMP, and numbers UDP only.
SeqAvailable(proto) == proto = "udp"

Frame(w, kind, f) ==
  [w |-> w, kind |-> kind, epoch |-> epoch, id |-> clock[w], seq |-> seq[f], tag |-> sent + 1]

\* The function f, and g where f is not defined.
Over(f, g) == [x \in DOMAIN f \cup DOMAIN g |-> IF x \in DOMAIN f THEN f[x] ELSE g[x]]

Transmit(frames) == wire' = Over([m \in frames |-> MaxCopies], wire)

\* Mutant: both fragments are sealed under one nonce.
SealOnce(w, k) ==
  /\ nonce' = [nonce EXCEPT ![w] = (@ + 1) % NonceMod]
  /\ used' = Over([n \in {[w |-> w, run |-> epoch, n |-> nonce'[w]]} |-> k > 1], used)

\* trf_pqc_generate_nonce, k times: the run's salt and the next counters.
Seal(w, k) ==
  LET next(i) == [w |-> w, run |-> epoch, n |-> (nonce[w] + i) % NonceMod]
      fresh == {next(i) : i \in 1 .. k}
      again(n) == n \in DOMAIN used \/ Cardinality({i \in 1 .. k : next(i) = n}) > 1
  IN  /\ nonce' = [nonce EXCEPT ![w] = (@ + k) % NonceMod]
      /\ used' = Over([n \in fresh |-> again(n)], used)

Sequenced(proto, size) == (proto = "udp" \/ NeedSplit(proto, size)) /\ SeqAvailable(proto)
Frames(proto, size) == IF NeedSplit(proto, size) THEN 2 ELSE 1

\* dp_udp_next_tx_seq, l2_crypto_udp_set_tx_seq: taken before anything can fail.
TakeSequence(w, f) ==
  clock' = [clock EXCEPT ![w] = (@ + 1) % IdMod] /\ seq' = [seq EXCEPT ![f] = @ + 1]

\* UDP, or anything to be split, takes a sequence number and a datagram id; a
\* split puts both fragments on the WAN, a packet that fits is sent whole.
SendSequenced(w, f, proto, size) ==
  /\ sent < MaxSends /\ Sequenced(proto, size)
  /\ Transmit(IF NeedSplit(proto, size)
              THEN {Frame(w, "first", f), Frame(w, "second", f)}
              ELSE {Frame(w, "full", f)})
  /\ sent' = sent + 1
  /\ TakeSequence(w, f) /\ Seal(w, Frames(proto, size))
  /\ UNCHANGED <<epoch, dropped, receiver, now, restarts>>

\* The cipher, the frame pool or the output ring fails after the sequence number
\* was taken, with k frames sealed: nothing is sent.
SendAborted(w, f, proto, size, k) ==
  /\ sent < MaxSends /\ Sequenced(proto, size) /\ k \in 0 .. Frames(proto, size)
  /\ sent' = sent + 1
  /\ TakeSequence(w, f) /\ Seal(w, k)
  /\ UNCHANGED <<epoch, dropped, wire, receiver, now, restarts>>

\* The other formats carry no sequence.
SendData(w, f, proto, size) ==
  /\ sent < MaxSends
  /\ proto # "udp" /\ ~NeedSplit(proto, size) /\ size = "fits"
  /\ Transmit({[Frame(w, "full", f) EXCEPT !.seq = 0, !.id = 0]})
  /\ sent' = sent + 1
  /\ Seal(w, 1)
  /\ UNCHANGED <<epoch, clock, seq, dropped, receiver, now, restarts>>

\* No sequence number, or too long for the WAN, which is found out after the
\* packet was encrypted: it is dropped.
SendFails(w, proto, size) ==
  /\ sent < MaxSends
  /\ IF NeedSplit(proto, size) THEN ~SeqAvailable(proto) ELSE proto # "udp" /\ size = "oversize"
  /\ sent' = sent + 1
  /\ dropped' = dropped \cup {[proto |-> proto, size |-> size]}
  /\ Seal(w, IF NeedSplit(proto, size) THEN 0 ELSE 1)
  /\ UNCHANGED <<epoch, clock, seq, wire, receiver, now, restarts>>

\* The sender restarts: a new random epoch, every counter from zero.
SenderRestart ==
  /\ restarts["sender"] < MaxRestarts
  /\ restarts' = [restarts EXCEPT !["sender"] = @ + 1]
  /\ epoch' = epoch + 1
  /\ clock' = [w \in Workers |-> 0] /\ seq' = [f \in Flows |-> 0]
  /\ nonce' = [w \in Workers |-> 0]
  /\ UNCHANGED <<used, sent, dropped, wire, receiver, now>>

-----------------------------------------------------------------------------
(* The receiver.                                                           *)

\* Mutant: entries never time out.
NeverExpired(e, t) == FALSE

Expired(e, t) == Occupied(e) /\ t - e.at > Timeout

\* The probed slots, in order, the ones that opt_pick_slot walks, up to the
\* datagram's own entry, and the table after expired ones are cleared.
Base(m) == (m.id + m.epoch) % TableSize
Window(m) == {(Base(m) + i) % TableSize : i \in 0 .. Probe - 1}
Order(m, i) == (i - Base(m)) % TableSize
FirstOf(m, S) == CHOOSE i \in S : \A j \in S : Order(m, i) <= Order(m, j)
Walked(tab, m) ==
  LET match == {i \in Window(m) : /\ Occupied(tab[i]) /\ ~Expired(tab[i], now)
                                  /\ tab[i].epoch = m.epoch /\ tab[i].id = m.id}
  IN  {i \in Window(m) : \A j \in match : Order(m, i) <= Order(m, j)}
Purged(tab, S, t) == [i \in Slots |-> IF i \in S /\ Expired(tab[i], t) THEN Empty ELSE tab[i]]

\* Mutant: the first free slot is taken before the datagram is looked for.
PickFirstFree(tab, m) ==
  LET free == {i \in Window(m) : ~Occupied(tab[i])}
      match == {i \in Window(m) : Occupied(tab[i]) /\ tab[i].epoch = m.epoch /\ tab[i].id = m.id}
  IN  IF free # {} THEN FirstOf(m, free)
      ELSE IF match # {} THEN FirstOf(m, match) ELSE Base(m)

\* Mutant: a full window gives up its youngest entry, even if there is room.
PickOverwrites(tab, m) ==
  LET match == {i \in Window(m) : Occupied(tab[i]) /\ tab[i].epoch = m.epoch /\ tab[i].id = m.id}
  IN  IF match # {} THEN FirstOf(m, match) ELSE Base(m)

\* opt_pick_slot, after it has purged what it walked: the datagram's entry, else
\* a free one, else the oldest.
PickSlot(tab, m) ==
  LET match == {i \in Window(m) : Occupied(tab[i]) /\ tab[i].epoch = m.epoch /\ tab[i].id = m.id}
      free == {i \in Window(m) : ~Occupied(tab[i])}
      oldest == {i \in Window(m) : \A j \in Window(m) : tab[i].at <= tab[j].at}
  IN  IF match # {} THEN FirstOf(m, match)
      ELSE IF free # {} THEN FirstOf(m, free)
      ELSE FirstOf(m, oldest)

\* Mutant: only the datagram id is compared.
PrepareById(e, m) ==
  [(IF e.epoch # m.epoch \/ e.id # m.id \/ Expired(e, now) THEN Empty ELSE e)
   EXCEPT !.epoch = m.epoch, !.id = m.id, !.seq = m.seq, !.at = now]

\* opt_prepare_entry
Prepare(e, m) ==
  [(IF e.epoch # m.epoch \/ e.id # m.id \/ e.seq # m.seq \/ Expired(e, now) THEN Empty ELSE e)
   EXCEPT !.epoch = m.epoch, !.id = m.id, !.seq = m.seq, !.at = now]

\* opt_store_first, opt_store_second
StoreHalf(e, m) ==
  IF m.kind = "first" THEN [Prepare(e, m) EXCEPT !.first = m.tag]
                      ELSE [Prepare(e, m) EXCEPT !.second = m.tag]

\* A copy of frame m reaches the receiver, which now has one less to come.
Arrives(m) == wire[m] > 0 /\ wire' = [wire EXCEPT ![m] = @ - 1]

Emit(first, second) ==
  LET p == [first |-> first, second |-> second]
  IN  out' = Over([q \in {p} |-> IF p \in DOMAIN out THEN out[p] + 1 ELSE 1], out)

\* A whole packet is handed to the LAN at once.
ReceiveFull(m) ==
  /\ m.kind = "full" /\ Arrives(m)
  /\ Emit(m.tag, m.tag)
  /\ got' = [got EXCEPT ![m.tag] = [first |-> @.first + 1, second |-> @.second + 1]]
  /\ UNCHANGED <<sender, table, pending, crowded, spread, now, restarts>>

Halves(w, tag) == {p \in pending : p.w = w /\ p.tag = tag}
Waiting(S, w, t) == {p.tag : p \in {q \in S : q.w = w /\ t - q.at <= Timeout}}

\* Mutant: the entry survives the join.
JoinKeeps(e) == e

\* opt_emit_join leaves the entry cleared.
Joined(e) == Empty

\* l2_reassemble on the table of the worker named in the frame: the half is
\* stored, and the packet is rebuilt when both are there.
ReceiveFragment(m) ==
  LET tab == Purged(table[m.w], Walked(table[m.w], m), now)
      i == PickSlot(tab, m)
      e == StoreHalf(tab[i], m)
      half == [w |-> m.w, tag |-> m.tag, kind |-> m.kind, at |-> now]
      old == {p \in Halves(m.w, m.tag) : p.kind = m.kind}
  IN  /\ m.kind # "full" /\ Arrives(m)
      /\ got' = [got EXCEPT ![m.tag][m.kind] = @ + 1]
      /\ IF e.first # None /\ e.second # None
         THEN /\ table' = [table EXCEPT ![m.w] = [tab EXCEPT ![i] = Joined(e)]]
              /\ Emit(e.first, e.second)
              /\ spread' = Max({spread} \cup {now - p.at : p \in Halves(m.w, m.tag) \ old})
              /\ pending' = pending \ Halves(m.w, m.tag)
              /\ UNCHANGED crowded
         ELSE /\ table' = [table EXCEPT ![m.w] = [tab EXCEPT ![i] = e]]
              /\ pending' = (pending \ old) \cup {half}
              /\ crowded' = (crowded \/ Cardinality(Waiting(pending', m.w, now)) > Probe)
              /\ UNCHANGED <<out, spread>>
      /\ UNCHANGED <<sender, now, restarts>>

\* Mutant: the slice ends one entry early.
GcSkipsLast(w, lead) ==
  /\ table' = [table EXCEPT ![w] = Purged(@, Slots \ {TableSize - 1}, now + lead)]
  /\ table' # table
  /\ UNCHANGED <<sender, wire, out, got, pending, crowded, spread, now, restarts>>

\* opt_frag_gc_table: its slice of 256 is the whole table.
GcTable(tab, t) == Purged(tab, Slots, t)

\* The worker loop's l2_crypto_frag_gc.  Its clock is finer than the coarse clock
\* of the entries and may be ahead.
Gc(w, lead) ==
  /\ table' = [table EXCEPT ![w] = GcTable(@, now + lead)]
  /\ table' # table
  /\ UNCHANGED <<sender, wire, out, got, pending, crowded, spread, now, restarts>>

Tick ==
  /\ now < MaxTime
  /\ now' = now + 1
  /\ UNCHANGED <<sender, wire, receiver, restarts>>

\* The receiver restarts with empty tables.
ReceiverRestart ==
  /\ restarts["receiver"] < MaxRestarts
  /\ restarts' = [restarts EXCEPT !["receiver"] = @ + 1]
  /\ table' = [w \in Workers |-> [i \in Slots |-> Empty]]
  /\ pending' = {}
  /\ UNCHANGED <<sender, wire, out, got, crowded, spread, now>>

-----------------------------------------------------------------------------
Send ==
  \E w \in Workers, f \in Flows, proto \in Protos, size \in Sizes :
    \/ SendSequenced(w, f, proto, size) \/ SendData(w, f, proto, size)
    \/ \E k \in 0 .. 2 : SendAborted(w, f, proto, size, k)

Refuse == \E w \in Workers, proto \in Protos, size \in Sizes : SendFails(w, proto, size)

Receive == \E m \in DOMAIN wire : ReceiveFull(m) \/ ReceiveFragment(m)

Next ==
  \/ Send \/ Refuse \/ Receive \/ SenderRestart \/ ReceiverRestart \/ Tick
  \/ \E w \in Workers, lead \in 0 .. 1 : Gc(w, lead)

Spec == Init /\ [][Next]_vars

\* Worker loops never stop, so they collect again and again.
FairSpec == Spec /\ \A w \in Workers : WF_vars(Gc(w, 0))

-----------------------------------------------------------------------------
(* Properties.                                                             *)

\* A rebuilt packet is one that was sent: its halves are of one datagram,
\* across workers whose ids coincide, ids that wrap around, evictions, timeouts,
\* duplicates and restarts of either side.
JoinSound == \A p \in DOMAIN out : p.first = p.second

\* A packet is delivered no more often than the rarer of its halves arrived:
\* a join uses up both, and a late duplicate joins nothing but a duplicate.
JoinConsumes ==
  \A p \in DOMAIN out : out[p] <= Min({got[p.first].first, got[p.second].second})

\* The halves of a join arrived within the timeout of each other.
JoinFresh == spread <= Timeout

\* The static key is never used twice with one nonce: by two workers, two
\* fragments, an aborted packet and its successor, or two runs of the process,
\* until the counter of one worker has gone round in one run.
NonceOnce ==
  \A n \in DOMAIN used :
    LET mine == {m \in DOMAIN used : m.w = n.w /\ m.run = n.run}
    IN  used[n] => \A c \in 0 .. NonceMod - 1 : [n EXCEPT !.n = c] \in mine

\* The halves of one datagram never sit in two entries waiting for each other.
OneEntryPerDatagram ==
  \A w \in Workers : \A i, j \in Slots :
    Occupied(table[w][i]) /\ Occupied(table[w][j])
    /\ table[w][i].epoch = table[w][j].epoch /\ table[w][i].id = table[w][j].id
    => i = j

\* As long as no worker has more than Probe datagrams waiting, a half that is
\* not too old is still in the table: hash collisions alone lose nothing.
HalfKept ==
  ~crowded =>
    \A p \in pending : now + 1 - p.at <= Timeout =>
      \E i \in Slots : table[p.w][i][p.kind] = p.tag

\* Half datagrams do not stay: the table holds nothing once its time is over.
HalvesExpire ==
  \A w \in Workers, i \in Slots :
    Expired(table[w][i], now) ~> ~Expired(table[w][i], now)

\* CORE.md: "oversized ICMP uses the same two-fragment authenticated format and
\* reassembly as UDP."
IcmpCarried == \A r \in dropped : r.proto # "icmp"
=============================================================================
