--------------------------- MODULE FlowRoute_proofs ---------------------------
(***************************************************************************)
(* Flows keep their worker, their TX slot and their order, for any number  *)
(* of workers, TX slots, sets, ways and flows, any hash and interleaving.  *)
(***************************************************************************)
EXTENDS FlowRoute, NaturalsInduction, WellFoundedInduction, FiniteSetTheorems, TLAPS

Wan == {Reverse(p) : p \in Packets}
Tuples == Packets \cup Wan
Routes == [worker : Workers, slot : Slots]
Entries == [valid : BOOLEAN, key : Tuples \cup {ZeroKey}, worker : Workers, slot : Slots,
            seq : [0 .. 1 -> Nat]]
Fallbacks == [valid : BOOLEAN, key : Tuples \cup {ZeroKey}, next : [0 .. 1 -> Nat], stamp : Nat]
Jobs == [p : Tuples, n : Nat, slot : Slots, seq : Int]

\* The places of dp_flow_route_get_key, under the insert lock, and with an entry
\* in hand.
Looking == {"scan", "lock", "rescan"}
Inserting == {"write", "fields", "publish"}
Locked == {"rescan", "unlock"} \cup Inserting
Routing == Looking \cup Inserting \cup {"unlock"}
Places == {"idle", "seq", "seq_retry"} \cup Routing

\* A key whose route will never change any more in the table T, and that route:
\* its entry's, or the hash in a full set.
HitsIn(T, k) == {i \in SetFor(k) : T[i].valid /\ T[i].key = k}
SettledIn(T, k) == HitsIn(T, k) # {} \/ \A i \in SetFor(k) : T[i].valid
RouteIn(T, k) ==
  IF HitsIn(T, k) # {} THEN [worker |-> T[Min(HitsIn(T, k))].worker, slot |-> T[Min(HitsIn(T, k))].slot]
                       ELSE HashRoute(k)

-----------------------------------------------------------------------------
(* The inductive invariant.                                                *)

TableTypes ==
  /\ table \in [Ways -> Entries]
  /\ lock \in BOOLEAN
  /\ wcount \in [Workers -> Nat] /\ tcount \in [Slots -> Nat] /\ wrr \in Nat /\ trr \in Nat

ThreadTypes ==
  /\ pc \in [Threads -> Places] /\ pc[Rx] \notin {"seq", "seq_retry"}
  /\ job = [t \in Threads |-> job[t]] /\ empty = [t \in Threads |-> empty[t]]
  /\ \A t \in Threads : pc[t] # "idle" => job[t] \in Jobs
  /\ \A t \in Threads : pc[t] \in Inserting => empty[t] \in Ways
  /\ route \in [Threads -> Routes]

RingTypes ==
  outRing \in [Workers -> Slots] /\ mid \in [Workers -> Seq(Jobs)] /\ out \in [Slots -> Seq(Jobs)]

SeqTypes ==
  fallback \in [Workers -> [FallbackWays -> Fallbacks]] /\ stamp \in [Workers -> Nat]

TypeOK == TableTypes /\ ThreadTypes /\ RingTypes

\* The spin lock excludes.
Exclusive ==
  /\ \A t \in Threads : pc[t] \in Locked => lock
  /\ \A t, u \in Threads : pc[t] \in Locked /\ pc[u] \in Locked => t = u

\* A key has one valid way in its set.
OneWayIn(T) == \A i \in Ways : \A j, l \in HitsIn(T, T[i].key) : j = l
OneWayPerKey == OneWayIn(table)

\* The way being written is an invalid one of its key's set, and nobody else has
\* inserted the key since the second scan.
WayInHand ==
  /\ \A t \in Threads : pc[t] \in Inserting =>
       empty[t] \in SetFor(Key(t)) /\ ~table[empty[t]].valid /\ Hits(Key(t)) = {}
  /\ \A t \in Threads : pc[t] \in {"fields", "publish"} => table[empty[t]].key = Key(t)
  /\ \A t \in Threads : pc[t] = "publish" => RouteOf(empty[t]) = route[t]

\* What a thread will return: the hash until it has found or made an entry.
ReturnsAt(t) ==
  /\ pc[t] # "idle" => HasKey(job[t].p)
  /\ pc[t] \in Looking => route[t] = HashRoute(Key(t))
  /\ pc[t] = "unlock" => SettledIn(table, Key(t)) /\ route[t] = RouteIn(table, Key(t))
Returns == \A t \in Threads : ReturnsAt(t)

\* A packet that has its slot has the one of its flow's final route.
OnRoute(T, p, s) ==
  IF HasKey(p) THEN SettledIn(T, KeyOf(p)) /\ s = RouteIn(T, KeyOf(p)).slot
               ELSE s = HashRoute(p).slot
OnWorker(T, p, w) == w = IF HasKey(p) THEN RouteIn(T, KeyOf(p)).worker ELSE HashRoute(p).worker

MidOk(T, m) ==
  \A w \in Workers : \A i \in 1 .. Len(m[w]) :
    m[w][i].p \in Packets /\ OnRoute(T, m[w][i].p, m[w][i].slot) /\ OnWorker(T, m[w][i].p, w)
OutOk(T, o) ==
  \A s \in Slots : \A i \in 1 .. Len(o[s]) : OnRoute(T, o[s][i].p, s) /\ o[s][i].slot = s
BusyOk(w) ==
  pc[w] # "idle" =>
    IF job[w].p \in Packets
    THEN /\ OnRoute(table, job[w].p, job[w].slot) /\ OnWorker(table, job[w].p, w)
         /\ outRing[w] = job[w].slot
    ELSE pc[w] \in Routing

Routed ==
  /\ MidOk(table, mid) /\ OutOk(table, out) /\ \A w \in Workers : BusyOk(w)
  /\ pc[Rx] # "idle" => job[Rx].p \in Packets

RouteInv == TypeOK /\ SeqTypes /\ Exclusive /\ OneWayPerKey /\ WayInHand /\ Returns /\ Routed

\* Packets of a flow are numbered in the order of their arrival at every point of
\* their way: the rings m to the workers, the jobs J of the busy threads B, the
\* rings o of the slots; a packets have come.
Numbered(m, o, B, J, a) ==
  /\ \A t \in B : J[t].n <= a
  /\ \A w \in Workers : \A i \in 1 .. Len(m[w]) : m[w][i].n <= a
  /\ \A s \in Slots : \A i \in 1 .. Len(o[s]) : o[s][i].n <= a

RxLast(m, o, B, J) ==
  Rx \in B =>
    /\ \A w \in Workers : \A i \in 1 .. Len(m[w]) : m[w][i].n < J[Rx].n
    /\ \A w \in Workers : w \in B /\ J[w].p \in Packets => J[w].n < J[Rx].n
    /\ \A s \in Slots : \A i \in 1 .. Len(o[s]) : o[s][i].p \in Packets => o[s][i].n < J[Rx].n

MidInOrder(m, B, J) ==
  \A w \in Workers :
    /\ \A i, k \in 1 .. Len(m[w]) : i < k => m[w][i].n < m[w][k].n
    /\ w \in B /\ J[w].p \in Packets => \A i \in 1 .. Len(m[w]) : J[w].n < m[w][i].n

OutFirst(m, o, B, J) ==
  \A s \in Slots : \A k \in 1 .. Len(o[s]) : \A w \in Workers :
    /\ \A i \in 1 .. Len(m[w]) : o[s][k].p = m[w][i].p => o[s][k].n < m[w][i].n
    /\ w \in B /\ o[s][k].p = J[w].p => o[s][k].n < J[w].n

OneWorkerPerAnswer(B, J) ==
  \A w \in Workers : w \in B => \A p \in Packets : J[w].p = Reverse(p) => PeerWorker[p] = w

OutInOrder(o) ==
  \A s \in Slots : \A i, k \in 1 .. Len(o[s]) : i < k /\ o[s][i].p = o[s][k].p => o[s][i].n < o[s][k].n

Ordered(m, o, B, J, a) ==
  /\ Numbered(m, o, B, J, a) /\ RxLast(m, o, B, J) /\ MidInOrder(m, B, J) /\ OutFirst(m, o, B, J)
  /\ OneWorkerPerAnswer(B, J) /\ OutInOrder(o)

Busy == {t \in Threads : pc[t] # "idle"}
IInv == RouteInv /\ arrived \in Nat /\ Ordered(mid, out, Busy, job, arrived)

-----------------------------------------------------------------------------
(* Facts about the constants and the operators.                            *)

\* A set of numbers has a least one.
LEMMA LeastNat ==
  ASSUME NEW S \in SUBSET Nat, S # {}
  PROVE  \E x \in S : \A y \in S : x <= y
<1> DEFINE R == OpToRel(<, Nat)
<1>1. IsWellFoundedOn(R, Nat)
  BY NatLessThanWellFounded
<1>2. PICK x \in S : \A y \in S : ~(<<y, x>> \in R)
  <2> HIDE DEF R
  <2> QED BY <1>1, WFMin
<1>3. \A y \in S : ~(y < x)
  BY <1>2 DEF OpToRel
<1> HIDE DEF R
<1>4. \A y \in S : x <= y
  BY <1>3
<1> QED BY <1>4

LEMMA MinIn ==
  ASSUME NEW S \in SUBSET Nat, S # {}
  PROVE  Min(S) \in S
BY LeastNat DEF Min

LEMMA Sizes ==
  /\ Cardinality(Workers) \in Nat /\ Cardinality(Workers) > 0
  /\ NSlots \in Nat /\ NSlots > 0 /\ 0 \in Slots
  /\ Rx \notin Workers
<1>1. Cardinality(Workers) \in Nat
  BY RouteAssumption, FS_CardinalityType
<1>2. Workers = 0 .. Cardinality(Workers) - 1 /\ Workers # {}
  BY RouteAssumption
<1>3. Cardinality(Workers) > 0
  BY <1>1, <1>2
<1>4. NSlots \in Nat /\ NSlots > 0
  BY RouteAssumption DEF NSlots
<1>5. Rx \notin Workers
  <2> DEFINE c == Cardinality(Workers)
  <2>1. Workers = 0 .. c - 1 /\ c \in Nat /\ Rx = c
    BY <1>1, <1>2 DEF Rx
  <2> HIDE DEF c
  <2> QED BY <2>1
<1> QED BY <1>1, <1>3, <1>4, <1>5 DEF Slots

LEMMA TuplesAre ==
  ASSUME NEW p \in Packets
  PROVE  /\ p = [src |-> p.src, dst |-> p.dst, sport |-> p.sport, dport |-> p.dport, proto |-> p.proto]
         /\ p.src \in Nat /\ p.dst \in Nat /\ p.sport \in Nat /\ p.dport \in Nat
         /\ Reverse(p) \notin Packets /\ Reverse(Reverse(p)) = p
BY RouteAssumption, HashAssumption DEF Reverse

\* Both directions of a connection have one key, one of the two tuples.
LEMMA OneKey ==
  ASSUME NEW p \in Packets
  PROVE  KeyOf(Reverse(p)) = KeyOf(p) /\ KeyOf(p) \in {p, Reverse(p)}
<1> p.src # p.dst \/ p.sport # p.dport
  BY TuplesAre DEF Reverse
<1> QED BY TuplesAre DEF KeyOf, Swapped, Reverse

LEMMA SameKey ==
  ASSUME NEW p \in Packets
  PROVE  HasKey(Reverse(p)) <=> HasKey(p)
BY DEF HasKey, Reverse

LEMMA HashesAre ==
  ASSUME NEW p \in Tuples
  PROVE  /\ HashOf(p) \in Nat /\ HashOf(KeyOf(p)) \in Nat /\ KeyOf(p) \in Tuples
         /\ HashRoute(p) \in Routes /\ HashRoute(KeyOf(p)) \in Routes
<1>1. HashOf(p) \in Nat /\ HashOf(KeyOf(p)) \in Nat /\ KeyOf(p) \in Tuples
  BY HashAssumption, OneKey DEF Tuples, Wan
<1>2. ASSUME NEW h \in Nat
      PROVE  HashToN(h, Cardinality(Workers)) \in Workers /\ HashToN(h, NSlots) \in Slots
  <2> DEFINE c == Cardinality(Workers)
  <2>1. c \in Nat /\ c > 0 /\ Workers = 0 .. c - 1 /\ NSlots \in Nat /\ NSlots > 0
    BY Sizes, RouteAssumption
  <2> HIDE DEF c
  <2>2. HashToN(h, c) \in 0 .. c - 1 /\ HashToN(h, NSlots) \in 0 .. NSlots - 1
    BY <2>1 DEF HashToN
  <2> QED BY <2>1, <2>2 DEF Slots, c
<1> QED BY <1>1, <1>2 DEF HashRoute, Routes

\* dp_route_least_loaded finds somebody.
LEMMA LeastLoadedIs ==
  ASSUME NEW n \in Nat, n > 0, NEW counts \in [0 .. n - 1 -> Nat], NEW cursor \in Nat
  PROVE  /\ LeastLoaded(counts, n, cursor) \in 0 .. n - 1
         /\ \A o \in 0 .. n - 1 : counts[LeastLoaded(counts, n, cursor)] <= counts[(cursor + o) % n]
<1> DEFINE at(off) == (cursor + off) % n
           T == {counts[at(off)] : off \in 0 .. n - 1}
           Best(off) == /\ \A o \in 0 .. n - 1 : counts[at(off)] <= counts[at(o)]
                        /\ \A o \in 0 .. off - 1 : counts[at(o)] > counts[at(off)]
<1>1. \A off \in Nat : at(off) \in 0 .. n - 1
  OBVIOUS
<1> HIDE DEF at
<1>2. T \in SUBSET Nat /\ T # {}
  <2>1. 0 \in 0 .. n - 1
    OBVIOUS
  <2>2. counts[at(0)] \in T
    BY <2>1
  <2>3. ASSUME NEW off \in 0 .. n - 1 PROVE counts[at(off)] \in Nat
    <3>1. at(off) \in 0 .. n - 1
      BY DEF at
    <3> QED BY <3>1
  <2> QED BY <2>2, <2>3
<1>3. PICK c \in T : \A y \in T : c <= y
  BY <1>2, LeastNat
<1> DEFINE O == {off \in 0 .. n - 1 : counts[at(off)] = c}
<1>4. O \in SUBSET Nat /\ O # {}
  BY <1>3
<1>5. PICK b \in O : \A y \in O : b <= y
  BY <1>4, LeastNat
<1>6. Best(b)
  <2>1. \A o \in 0 .. n - 1 : counts[at(b)] <= counts[at(o)]
    BY <1>3, <1>5
  <2>2. ASSUME NEW o \in 0 .. b - 1 PROVE counts[at(o)] > counts[at(b)]
    <3>1. o \in 0 .. n - 1 /\ o < b /\ b \in 0 .. n - 1 /\ o \in Nat /\ b \in Nat
      BY <1>5
    <3>2. counts[at(o)] # c
      BY <1>5, <3>1
    <3>3. counts[at(o)] \in Nat /\ counts[at(b)] \in Nat
      BY <1>1, <3>1
    <3> QED BY <2>1, <3>1, <3>2, <3>3, <1>5
  <2> QED BY <2>1, <2>2
<1>7. b \in 0 .. n - 1
  BY <1>5
<1> HIDE DEF O, T
<1> DEFINE best == CHOOSE off \in 0 .. n - 1 : Best(off)
<1>8. best \in 0 .. n - 1 /\ Best(best)
  <2> HIDE DEF Best
  <2> QED BY <1>6, <1>7
<1>9. LeastLoaded(counts, n, cursor) = at(best)
  BY DEF LeastLoaded, at
<1>10. \A o \in 0 .. n - 1 : counts[at(best)] <= counts[at(o)]
  BY <1>8
<1> HIDE DEF best
<1> QED BY <1>1, <1>8, <1>9, <1>10 DEF at

LEMMA LeastLoadedIn ==
  ASSUME NEW n \in Nat, n > 0, NEW counts \in [0 .. n - 1 -> Nat], NEW cursor \in Nat
  PROVE  LeastLoaded(counts, n, cursor) \in 0 .. n - 1
BY LeastLoadedIs

\* A walk of n steps from a cursor meets every index.
LEMMA Wraps ==
  ASSUME NEW n \in Nat, n > 0, NEW a \in 0 .. n - 1
  PROVE  a % n = a /\ (a + n) % n = a
OBVIOUS

LEMMA WalkMeetsAll ==
  ASSUME NEW n \in Nat, n > 0, NEW c \in 0 .. n - 1, NEW x \in 0 .. n - 1
  PROVE  \E o \in 0 .. n - 1 : (c + o) % n = x
<1>1. CASE x >= c
  <2>1. x - c \in 0 .. n - 1 /\ c + (x - c) = x
    BY <1>1
  <2> QED BY <2>1, Wraps
<1>2. CASE x < c
  <2>1. x - c + n \in 0 .. n - 1 /\ c + (x - c + n) = x + n
    BY <1>2
  <2> QED BY <2>1, Wraps
<1> QED BY <1>1, <1>2

LEMMA LeastLoadedLeast ==
  ASSUME NEW n \in Nat, n > 0, NEW counts \in [0 .. n - 1 -> Nat], NEW cursor \in 0 .. n - 1,
         NEW x \in 0 .. n - 1
  PROVE  counts[LeastLoaded(counts, n, cursor)] <= counts[x]
<1>1. PICK o \in 0 .. n - 1 : (cursor + o) % n = x
  BY WalkMeetsAll
<1> HIDE DEF LeastLoaded
<1>2. cursor \in Nat
  OBVIOUS
<1>3. counts[LeastLoaded(counts, n, cursor)] <= counts[(cursor + o) % n]
  BY <1>2, LeastLoadedIs
<1> QED BY <1>1, <1>3

-----------------------------------------------------------------------------
(* The table: an entry that is valid stays as it is.                       *)

EntriesKept ==
  \A i \in Ways : table[i].valid =>
    table'[i].valid /\ table'[i].key = table[i].key /\ RouteOf(i)' = RouteOf(i)

LEMMA SetsAre ==
  \A k : SetFor(k) \in SUBSET Ways /\ FallbackSetFor(k) \in SUBSET FallbackWays
BY DEF SetFor, FallbackSetFor

LEMMA HitIs ==
  ASSUME NEW k, Hits(k) # {}
  PROVE  Min(Hits(k)) \in Hits(k) /\ Min(Hits(k)) \in Ways
<1>1. Hits(k) \in SUBSET Nat /\ Hits(k) \in SUBSET Ways
  BY RouteAssumption, SetsAre DEF Hits
<1> QED BY <1>1, MinIn

LEMMA OneHit ==
  ASSUME NEW T, OneWayIn(T), NEW k, NEW i \in HitsIn(T, k), NEW j \in HitsIn(T, k)
  PROVE  i = j
<1>1. i \in Ways /\ T[i].key = k
  BY SetsAre DEF HitsIn
<1> QED BY <1>1 DEF OneWayIn

LEMMA NoNewHits ==
  ASSUME OneWayPerKey, \A k : \A i \in HitsIn(table', k) : i \in HitsIn(table, k)
  PROVE  OneWayPerKey'
<1>1. ASSUME NEW k, NEW i \in HitsIn(table', k), NEW j \in HitsIn(table', k) PROVE i = j
  <2>1. i \in HitsIn(table, k) /\ j \in HitsIn(table, k)
    OBVIOUS
  <2> QED BY <2>1, OneHit DEF OneWayPerKey
<1> QED BY <1>1 DEF OneWayPerKey, OneWayIn

\* With one way per key, the first hit is the only one.
LEMMA OnlyHit ==
  ASSUME NEW T, OneWayIn(T), NEW k, NEW i \in HitsIn(T, k)
  PROVE  RouteIn(T, k) = [worker |-> T[i].worker, slot |-> T[i].slot]
<1>1. HitsIn(T, k) \in SUBSET Nat
  BY RouteAssumption, SetsAre DEF HitsIn
<1>2. Min(HitsIn(T, k)) \in HitsIn(T, k)
  BY <1>1, MinIn
<1>3. Min(HitsIn(T, k)) = i
  BY <1>2, OneHit
<1> QED BY <1>3 DEF RouteIn

\* A settled route is for ever.
LEMMA SettledForEver ==
  ASSUME OneWayPerKey, OneWayPerKey', EntriesKept, NEW k, SettledIn(table, k)
  PROVE  SettledIn(table', k) /\ RouteIn(table', k) = RouteIn(table, k)
<1>0. OneWayIn(table) /\ OneWayIn(table')
  BY DEF OneWayPerKey
<1>1. CASE HitsIn(table, k) # {}
  <2>1. PICK i \in HitsIn(table, k) : TRUE
    BY <1>1
  <2>2. i \in HitsIn(table', k)
        /\ [worker |-> table'[i].worker, slot |-> table'[i].slot] = [worker |-> table[i].worker, slot |-> table[i].slot]
    BY SetsAre DEF HitsIn, EntriesKept, RouteOf
  <2> QED BY <1>0, <2>2, OnlyHit DEF SettledIn
<1>2. CASE HitsIn(table, k) = {}
  <2>1. \A i \in SetFor(k) : table[i].valid /\ table[i].key # k
    BY <1>2 DEF SettledIn, HitsIn
  <2>2. \A i \in SetFor(k) : table'[i].valid /\ table'[i].key # k
    BY <2>1, SetsAre DEF EntriesKept
  <2>3. HitsIn(table', k) = {}
    BY <2>2 DEF HitsIn
  <2> QED BY <1>2, <2>2, <2>3 DEF SettledIn, RouteIn
<1> QED BY <1>1, <1>2

\* A step that leaves the table alone.
LEMMA TableAlone ==
  ASSUME table' = table
  PROVE  /\ EntriesKept
         /\ \A i \in Ways : RouteOf(i)' = RouteOf(i)
BY DEF EntriesKept, RouteOf

\* Rings, as sequences: what a push and a pop do to one of them.
LEMMA PushAt ==
  ASSUME NEW S, NEW E, NEW f \in [S -> Seq(E)],
         NEW a \in S, NEW e \in E, NEW g, g = [f EXCEPT ![a] = Append(@, e)]
  PROVE  /\ g \in [S -> Seq(E)]
         /\ \A x \in S : x # a => g[x] = f[x]
         /\ Len(f[a]) \in Nat /\ Len(g[a]) = Len(f[a]) + 1 /\ g[a][Len(g[a])] = e
         /\ \A i \in 1 .. Len(f[a]) : g[a][i] = f[a][i]
<1>1. g[a] = Append(f[a], e) /\ f[a] \in Seq(E)
  OBVIOUS
<1>2. g[a] \in Seq(E) /\ Len(f[a]) \in Nat /\ Len(g[a]) = Len(f[a]) + 1 /\ g[a][Len(g[a])] = e
      /\ \A i \in 1 .. Len(f[a]) : g[a][i] = f[a][i]
  BY <1>1
<1>3. \A x \in S : x # a => g[x] = f[x]
  OBVIOUS
<1>4. g \in [S -> Seq(E)]
  BY <1>2
<1> QED BY <1>2, <1>3, <1>4

LEMMA PopAt ==
  ASSUME NEW S, NEW E, NEW f \in [S -> Seq(E)],
         NEW a \in S, f[a] # <<>>, NEW g, g = [f EXCEPT ![a] = Tail(@)]
  PROVE  /\ g \in [S -> Seq(E)]
         /\ \A x \in S : x # a => g[x] = f[x]
         /\ Len(g[a]) \in Nat /\ Len(f[a]) = Len(g[a]) + 1 /\ Head(f[a]) = f[a][1] /\ f[a][1] \in E
         /\ \A i \in 1 .. Len(g[a]) : g[a][i] = f[a][i + 1]
<1>1. g[a] = Tail(f[a]) /\ f[a] \in Seq(E)
  OBVIOUS
<1>2. g[a] \in Seq(E) /\ Len(g[a]) \in Nat /\ Len(f[a]) = Len(g[a]) + 1 /\ Head(f[a]) = f[a][1]
      /\ f[a][1] \in E /\ \A i \in 1 .. Len(g[a]) : g[a][i] = f[a][i + 1]
  BY <1>1
<1>3. \A x \in S : x # a => g[x] = f[x]
  OBVIOUS
<1>4. g \in [S -> Seq(E)]
  BY <1>2
<1> QED BY <1>2, <1>3, <1>4

LEMMA LastOrBefore ==
  ASSUME NEW n \in Nat, NEW k, k = n + 1, NEW i \in 1 .. k
  PROVE  i \in 1 .. n \/ i = k
OBVIOUS

LEMMA OneFurther ==
  ASSUME NEW n \in Nat, NEW k, k = n + 1, NEW i \in 1 .. n
  PROVE  i + 1 \in 1 .. k
OBVIOUS

LEMMA PushSplit ==
  ASSUME NEW S, NEW E, NEW f \in [S -> Seq(E)],
         NEW a \in S, NEW e \in E, NEW g, g = [f EXCEPT ![a] = Append(@, e)]
  PROVE  \A x \in S : \A i \in 1 .. Len(g[x]) :
           (i \in 1 .. Len(f[x]) /\ g[x][i] = f[x][i]) \/ (x = a /\ g[x][i] = e /\ i = Len(g[a]))
<1>1. /\ \A x \in S : x # a => g[x] = f[x]
      /\ Len(f[a]) \in Nat /\ Len(g[a]) = Len(f[a]) + 1 /\ g[a][Len(g[a])] = e
      /\ \A i \in 1 .. Len(f[a]) : g[a][i] = f[a][i]
  BY PushAt
<1>2. \A i \in 1 .. Len(g[a]) : i \in 1 .. Len(f[a]) \/ i = Len(g[a])
  BY <1>1, LastOrBefore, Zenon
<1>3. ASSUME NEW x \in S, NEW i \in 1 .. Len(g[x])
      PROVE  (i \in 1 .. Len(f[x]) /\ g[x][i] = f[x][i]) \/ (x = a /\ g[x][i] = e /\ i = Len(g[a]))
  <2>1. CASE x # a
    <3>1. g[x] = f[x]
      BY <1>1, <2>1, Zenon
    <3> QED BY <1>3, <3>1, Zenon
  <2>2. CASE x = a /\ i \in 1 .. Len(f[a])
    BY <1>1, <2>2, Zenon
  <2>3. CASE x = a /\ i = Len(g[a])
    BY <1>1, <2>3, Zenon
  <2> QED BY <1>2, <1>3, <2>1, <2>2, <2>3, Zenon
<1> QED BY <1>3, Zenon

LEMMA PushStays ==
  ASSUME NEW S, NEW E, NEW f \in [S -> Seq(E)],
         NEW a \in S, NEW e \in E, NEW g, g = [f EXCEPT ![a] = Append(@, e)]
  PROVE  /\ \A x \in S : \A i \in 1 .. Len(f[x]) : i \in 1 .. Len(g[x]) /\ g[x][i] = f[x][i]
         /\ Len(g[a]) \in 1 .. Len(g[a]) /\ g[a][Len(g[a])] = e
<1>1. /\ \A x \in S : x # a => g[x] = f[x]
      /\ Len(f[a]) \in Nat /\ Len(g[a]) = Len(f[a]) + 1 /\ g[a][Len(g[a])] = e
      /\ \A i \in 1 .. Len(f[a]) : g[a][i] = f[a][i]
  BY PushAt
<1>2. Len(g[a]) \in 1 .. Len(g[a]) /\ \A i \in 1 .. Len(f[a]) : i \in 1 .. Len(g[a])
  BY <1>1
<1> QED BY <1>1, <1>2, Zenon

LEMMA PopSplit ==
  ASSUME NEW S, NEW E, NEW f \in [S -> Seq(E)],
         NEW a \in S, f[a] # <<>>, NEW g, g = [f EXCEPT ![a] = Tail(@)]
  PROVE  \A x \in S : \A i \in 1 .. Len(g[x]) :
           \/ (x # a /\ i \in 1 .. Len(f[x]) /\ g[x][i] = f[x][i])
           \/ (x = a /\ i + 1 \in 1 .. Len(f[a]) /\ g[x][i] = f[a][i + 1])
<1>1. /\ \A x \in S : x # a => g[x] = f[x]
      /\ Len(g[a]) \in Nat /\ Len(f[a]) = Len(g[a]) + 1
      /\ \A i \in 1 .. Len(g[a]) : g[a][i] = f[a][i + 1]
  BY PopAt
<1>2. \A i \in 1 .. Len(g[a]) : i + 1 \in 1 .. Len(f[a])
  BY <1>1, OneFurther, Zenon
<1>3. ASSUME NEW x \in S, NEW i \in 1 .. Len(g[x])
      PROVE  \/ (x # a /\ i \in 1 .. Len(f[x]) /\ g[x][i] = f[x][i])
             \/ (x = a /\ i + 1 \in 1 .. Len(f[a]) /\ g[x][i] = f[a][i + 1])
  <2>1. CASE x # a
    <3>1. g[x] = f[x]
      BY <1>1, <2>1, Zenon
    <3> QED BY <1>3, <2>1, <3>1, Zenon
  <2>2. CASE x = a
    <3>1. i \in 1 .. Len(g[a])
      BY <1>3, <2>2, Zenon
    <3> QED BY <1>1, <1>2, <2>2, <3>1, Zenon
  <2> QED BY <2>1, <2>2, Zenon
<1> QED BY <1>3, Zenon

\* What a return changes.
LEMMA ReturnMoves ==
  ASSUME TypeOK, NEW t \in Threads, pc[t] \in Routing, NEW r \in Routes, Return(t, r)
  PROVE  /\ pc' = [pc EXCEPT ![t] = IF t # Rx /\ FromLan(t) THEN "seq_retry" ELSE "idle"]
         /\ \/ /\ t = Rx /\ outRing' = outRing /\ out' = out
               /\ mid' = [mid EXCEPT ![r.worker] = Append(@, [job[t] EXCEPT !.slot = r.slot])]
            \/ t # Rx /\ FromLan(t) /\ UNCHANGED <<outRing, mid, out>>
            \/ /\ t \in Workers /\ ~FromLan(t) /\ mid' = mid
               /\ outRing' = [outRing EXCEPT ![t] = r.slot]
               /\ out' = [out EXCEPT ![r.slot] = Append(@, [job[t] EXCEPT !.slot = r.slot])]
<1> USE DEF Return, HandOver, Goto, Push
<1>1. Bind(r.slot) = r.slot
  BY DEF Bind, Routes
<1>2. CASE t = Rx
  BY <1>2
<1>3. CASE t # Rx /\ FromLan(t)
  BY <1>3
<1>4. CASE t # Rx /\ ~FromLan(t)
  BY <1>1, <1>4 DEF Threads
<1> QED BY <1>2, <1>3, <1>4

LEMMA ReturnTypes ==
  ASSUME TypeOK, NEW t \in Threads, pc[t] \in Routing, NEW r \in Routes, Return(t, r)
  PROVE  outRing' \in [Workers -> Slots] /\ mid' \in [Workers -> Seq(Jobs)] /\ out' \in [Slots -> Seq(Jobs)]
<1> DEFINE j == [job[t] EXCEPT !.slot = r.slot]
<1>1. j \in Jobs /\ r.slot \in Slots /\ r.worker \in Workers
  BY DEF TypeOK, ThreadTypes, Routing, Looking, Inserting, Jobs, Routes
<1>2. outRing \in [Workers -> Slots] /\ mid \in [Workers -> Seq(Jobs)] /\ out \in [Slots -> Seq(Jobs)]
  BY DEF TypeOK, RingTypes
<1> HIDE DEF j
<1>3. CASE t = Rx /\ outRing' = outRing /\ out' = out /\ mid' = [mid EXCEPT ![r.worker] = Append(@, j)]
  BY <1>1, <1>2, <1>3, PushAt
<1>4. CASE UNCHANGED <<outRing, mid, out>>
  BY <1>2, <1>4
<1>5. CASE t \in Workers /\ mid' = mid /\ outRing' = [outRing EXCEPT ![t] = r.slot]
           /\ out' = [out EXCEPT ![r.slot] = Append(@, j)]
  <2>1. outRing' \in [Workers -> Slots]
    BY <1>1, <1>2, <1>5
  <2> QED BY <1>1, <1>2, <1>5, <2>1, PushAt
<1> QED BY <1>3, <1>4, <1>5, ReturnMoves DEF j

-----------------------------------------------------------------------------
(* Types, lock and table: one lemma per action.                            *)

Base == TypeOK /\ Exclusive /\ OneWayPerKey /\ WayInHand

USE DEF Goto, Inserting, Looking, Locked, Routing, Places

LEMMA InitBase == Init => Base
<1> SUFFICES ASSUME Init PROVE Base
  OBVIOUS
<1> USE DEF Init
<1>1. TableTypes
  <2>1. 0 \in Workers /\ 0 \in Slots
    BY Sizes, RouteAssumption
  <2>2. EmptyEntry \in Entries
    BY <2>1 DEF Entries, EmptyEntry
  <2> QED BY <2>2 DEF TableTypes
<1>2. ThreadTypes
  BY Sizes, RouteAssumption DEF ThreadTypes, Routes, Threads
<1>3. RingTypes
  <2>1. \A w \in Workers : WorkerBind(w) \in Slots
    BY Sizes, RouteAssumption DEF WorkerBind, Slots
  <2> QED BY <2>1 DEF RingTypes
<1>4. Exclusive /\ OneWayPerKey /\ WayInHand
  BY SetsAre DEF Exclusive, OneWayPerKey, OneWayIn, HitsIn, WayInHand, EmptyEntry
<1> QED BY <1>1, <1>2, <1>3, <1>4 DEF Base, TypeOK

\* A write to one way of the table.
LEMMA PutEntry ==
  ASSUME TableTypes, NEW a \in Ways, NEW e \in Entries, table' = [table EXCEPT ![a] = e]
  PROVE  /\ table' \in [Ways -> Entries]
         /\ table'[a] = e /\ \A i \in Ways : i # a => table'[i] = table[i]
<1>1. table'[a] = e /\ \A i \in Ways : i # a => table'[i] = table[i]
  BY DEF TableTypes
<1> QED BY <1>1 DEF TableTypes

LEMMA RouteTypes ==
  ASSUME TableTypes, NEW i \in Ways
  PROVE  RouteOf(i) \in Routes
BY DEF TableTypes, Entries, Routes, RouteOf

\* While one thread has the lock no other is at a locked place.
LEMMA Alone ==
  ASSUME TypeOK, Exclusive, NEW t \in Threads, pc[t] \in Locked, NEW l, pc' = [pc EXCEPT ![t] = l]
  PROVE  pc'[t] = l /\ \A u \in Threads : u # t => pc'[u] = pc[u] /\ pc[u] \notin Locked
BY DEF TypeOK, ThreadTypes, Exclusive

LEMMA KeyTypes ==
  ASSUME TypeOK, NEW t \in Threads, pc[t] # "idle"
  PROVE  job[t].p \in Tuples /\ Key(t) \in Tuples /\ HashRoute(Key(t)) \in Routes
<1>1. job[t].p \in Tuples
  BY DEF TypeOK, ThreadTypes, Jobs
<1> QED BY <1>1, HashesAre DEF Key

LEMMA InsertLockBase ==
  ASSUME Base, NEW t \in Threads, InsertLock(t)
  PROVE  Base' /\ EntriesKept
<1> USE DEF InsertLock
<1>1. TableTypes'
  BY DEF Base, TypeOK, TableTypes
<1>2. ThreadTypes'
  BY DEF Base, TypeOK, ThreadTypes
<1>3. RingTypes'
  BY DEF Base, TypeOK, RingTypes
<1>4. Exclusive'
  BY DEF Base, TypeOK, ThreadTypes, Exclusive
<1>5. OneWayPerKey' /\ WayInHand'
  BY DEF Base, TypeOK, ThreadTypes, OneWayPerKey, WayInHand, Hits, Key, RouteOf
<1> QED BY <1>1, <1>2, <1>3, <1>4, <1>5, TableAlone DEF Base, TypeOK

LEMMA RescanBase ==
  ASSUME Base, NEW t \in Threads, Rescan(t)
  PROVE  Base' /\ EntriesKept
<1>1. TableTypes'
  BY DEF Base, TypeOK, TableTypes, Rescan, shared
<1>2. ThreadTypes'
  <2>1. Hits(Key(t)) # {} => RouteOf(Min(Hits(Key(t)))) \in Routes
    <3> SUFFICES ASSUME Hits(Key(t)) # {} PROVE RouteOf(Min(Hits(Key(t)))) \in Routes
      OBVIOUS
    <3>1. Min(Hits(Key(t))) \in Ways
      BY HitIs
    <3> QED BY <3>1, RouteTypes DEF Base, TypeOK
  <2>2. Invalid(Key(t)) # {} => Min(Invalid(Key(t))) \in Ways
    BY MinIn, RouteAssumption, SetsAre DEF Invalid
  <2>3. CASE /\ Hits(Key(t)) # {} /\ route' = [route EXCEPT ![t] = RouteOf(Min(Hits(Key(t))))]
             /\ pc' = [pc EXCEPT ![t] = "unlock"] /\ empty' = empty
    BY <2>1, <2>3 DEF Base, TypeOK, ThreadTypes, Rescan
  <2>4. CASE route' = route /\ pc' = [pc EXCEPT ![t] = "unlock"] /\ empty' = empty
    BY <2>4 DEF Base, TypeOK, ThreadTypes, Rescan
  <2>5. CASE /\ Invalid(Key(t)) # {} /\ empty' = [empty EXCEPT ![t] = Min(Invalid(Key(t)))]
             /\ pc' = [pc EXCEPT ![t] = "write"] /\ route' = route
    BY <2>2, <2>5 DEF Base, TypeOK, ThreadTypes, Rescan
  <2> QED BY <2>3, <2>4, <2>5 DEF Rescan
<1>3. RingTypes'
  BY DEF Base, TypeOK, RingTypes, Rescan
<1>4. Exclusive'
  BY DEF Base, TypeOK, ThreadTypes, Exclusive, Rescan, shared
<1>5. OneWayPerKey' /\ WayInHand'
  <2>1. Invalid(Key(t)) # {} => Min(Invalid(Key(t))) \in Invalid(Key(t))
    BY MinIn, RouteAssumption, SetsAre DEF Invalid
  <2> QED BY <2>1 DEF Base, TypeOK, ThreadTypes, OneWayPerKey, WayInHand, Hits, Key, RouteOf, Invalid,
                      Rescan, shared
<1> QED BY <1>1, <1>2, <1>3, <1>4, <1>5, TableAlone DEF Base, TypeOK, Rescan, shared

LEMMA WriteKeyBase ==
  ASSUME Base, NEW t \in Threads, WriteKey(t)
  PROVE  Base' /\ EntriesKept
<1> DEFINE a == empty[t]
           e == [table[a] EXCEPT !.key = Key(t)]
<1>1. /\ a \in Ways /\ ~table[a].valid /\ table[a] \in Entries /\ Hits(Key(t)) = {} /\ pc[t] \in Inserting
      /\ TableTypes /\ TypeOK /\ Exclusive /\ OneWayPerKey /\ WayInHand
      /\ job' = job /\ empty' = empty
  BY DEF Base, TypeOK, TableTypes, ThreadTypes, WayInHand, WriteKey
<1>2. e \in Entries
  <2>1. Key(t) \in Tuples
    BY <1>1, KeyTypes
  <2> QED BY <1>1, <2>1 DEF Entries
<1>3. table' = [table EXCEPT ![a] = e]
  BY DEF WriteKey, EmptyEntry
<1>4. /\ table' \in [Ways -> Entries]
      /\ table'[a] = e /\ \A i \in Ways : i # a => table'[i] = table[i]
  <2> HIDE DEF a, e
  <2> QED BY <1>1, <1>2, <1>3, PutEntry
<1>5. TableTypes'
  BY <1>1, <1>4, Sizes DEF TableTypes, WriteKey
<1>6. ThreadTypes'
  <2>1. LeastLoaded(wcount, Cardinality(Workers), wrr) \in Workers
    BY Sizes, RouteAssumption, LeastLoadedIn DEF Base, TypeOK, TableTypes
  <2>2. LeastLoaded(tcount, NSlots, trr) \in Slots
    BY Sizes, LeastLoadedIn DEF Base, TypeOK, TableTypes, Slots
  <2> QED BY <2>1, <2>2 DEF Base, TypeOK, ThreadTypes, Routes, WriteKey
<1>7. RingTypes'
  BY DEF Base, TypeOK, RingTypes, WriteKey
<1>8. Exclusive'
  BY DEF Base, TypeOK, ThreadTypes, Exclusive, WriteKey
<1>9. EntriesKept
  BY <1>1, <1>4 DEF RouteOf, EntriesKept
<1>10. pc'[t] = "fields" /\ \A u \in Threads : u # t => pc'[u] = pc[u] /\ pc[u] \notin Locked
  BY <1>1, Alone DEF WriteKey
<1>11. OneWayPerKey'
  <2>1. \A k : \A i \in HitsIn(table', k) : i \in HitsIn(table, k)
    BY <1>1, <1>4, SetsAre DEF HitsIn, Entries
  <2> QED BY <1>1, <2>1, NoNewHits
<1>12. WayInHand'
  <2>1. Hits(Key(t))' = {} /\ Key(t)' = Key(t)
    BY <1>1, <1>4, SetsAre DEF Hits, Key, Entries
  <2>2. table'[a].key = Key(t) /\ ~table'[a].valid
    BY <1>1, <1>4 DEF Entries
  <2> QED BY <1>1, <1>10, <2>1, <2>2 DEF WayInHand
<1> QED BY <1>5, <1>6, <1>7, <1>8, <1>9, <1>11, <1>12 DEF Base, TypeOK

LEMMA WriteFieldsBase ==
  ASSUME Base, NEW t \in Threads, WriteFields(t)
  PROVE  Base' /\ EntriesKept
<1> DEFINE a == empty[t]
           e == [table[a] EXCEPT !.seq = EmptyEntry.seq, !.worker = route[t].worker, !.slot = route[t].slot]
<1>1. /\ a \in Ways /\ ~table[a].valid /\ table[a] \in Entries /\ Hits(Key(t)) = {} /\ pc[t] \in Inserting
      /\ TableTypes /\ TypeOK /\ Exclusive /\ OneWayPerKey /\ WayInHand
      /\ job' = job /\ empty' = empty
  BY DEF Base, TypeOK, TableTypes, ThreadTypes, WayInHand, WriteFields
<1>2. e \in Entries
  BY <1>1 DEF TypeOK, ThreadTypes, Routes, Entries, EmptyEntry
<1>3. table' = [table EXCEPT ![a] = e]
  BY DEF WriteFields, EmptyEntry
<1>4. /\ table' \in [Ways -> Entries]
      /\ table'[a] = e /\ \A i \in Ways : i # a => table'[i] = table[i]
  <2> HIDE DEF a, e
  <2> QED BY <1>1, <1>2, <1>3, PutEntry
<1>5. TableTypes'
  BY <1>1, <1>4 DEF TypeOK, ThreadTypes, Routes, TableTypes, WriteFields
<1>6. ThreadTypes'
  BY DEF Base, TypeOK, ThreadTypes, WriteFields
<1>7. RingTypes'
  BY DEF Base, TypeOK, RingTypes, WriteFields
<1>8. Exclusive'
  BY DEF Base, TypeOK, ThreadTypes, Exclusive, WriteFields
<1>9. EntriesKept
  BY <1>1, <1>4 DEF RouteOf, EntriesKept
<1>10. pc'[t] = "publish" /\ \A u \in Threads : u # t => pc'[u] = pc[u] /\ pc[u] \notin Locked
  BY <1>1, Alone DEF WriteFields
<1>11. OneWayPerKey'
  <2>1. \A k : \A i \in HitsIn(table', k) : i \in HitsIn(table, k)
    <3>1. ~table'[a].valid
      BY <1>1, <1>4 DEF Entries
    <3> HIDE DEF a, e
    <3> QED BY <1>4, <3>1, SetsAre DEF HitsIn
  <2> QED BY <1>1, <2>1, NoNewHits
<1>12. WayInHand'
  <2>0. route[t] \in Routes /\ route' = route /\ pc[t] = "fields"
    BY <1>1 DEF TypeOK, ThreadTypes, WriteFields
  <2>4. table'[a].valid = table[a].valid /\ table'[a].key = table[a].key
        /\ route[t] = [worker |-> table'[a].worker, slot |-> table'[a].slot]
    BY <1>1, <1>4, <2>0 DEF Routes, Entries
  <2>2. table'[a].key = Key(t) /\ ~table'[a].valid
    BY <1>1, <2>0, <2>4 DEF WayInHand
  <2>1. Hits(Key(t))' = {} /\ Key(t)' = Key(t)
    <3> HIDE DEF a, e
    <3> QED BY <1>1, <1>4, <2>2, SetsAre DEF Hits, Key
  <2>3. RouteOf(a)' = route'[t]
    BY <1>1, <2>0, <2>4 DEF RouteOf
  <2> QED BY <1>1, <1>10, <2>1, <2>2, <2>3 DEF WayInHand
<1> QED BY <1>5, <1>6, <1>7, <1>8, <1>9, <1>11, <1>12 DEF Base, TypeOK

LEMMA PublishBase ==
  ASSUME Base, NEW t \in Threads, PublishEntry(t)
  PROVE  Base' /\ EntriesKept
<1> DEFINE a == empty[t]
           e == [table[a] EXCEPT !.valid = TRUE]
<1>1. /\ a \in Ways /\ ~table[a].valid /\ table[a] \in Entries /\ Hits(Key(t)) = {} /\ pc[t] \in Inserting
      /\ TableTypes /\ TypeOK /\ Exclusive /\ OneWayPerKey /\ WayInHand
      /\ job' = job /\ empty' = empty
  BY DEF Base, TypeOK, TableTypes, ThreadTypes, WayInHand, PublishEntry
<1>2. e \in Entries
  BY <1>1 DEF TypeOK, ThreadTypes, Routes, Entries, EmptyEntry
<1>3. table' = [table EXCEPT ![a] = e]
  BY DEF PublishEntry, EmptyEntry
<1>4. /\ table' \in [Ways -> Entries]
      /\ table'[a] = e /\ \A i \in Ways : i # a => table'[i] = table[i]
  <2> HIDE DEF a, e
  <2> QED BY <1>1, <1>2, <1>3, PutEntry
<1>5. TableTypes'
  BY <1>1, <1>4 DEF TableTypes, PublishEntry
<1>6. ThreadTypes'
  BY DEF Base, TypeOK, ThreadTypes, PublishEntry
<1>7. RingTypes'
  BY DEF Base, TypeOK, RingTypes, PublishEntry
<1>8. Exclusive'
  BY DEF Base, TypeOK, ThreadTypes, Exclusive, PublishEntry
<1>9. EntriesKept
  BY <1>1, <1>4 DEF RouteOf, EntriesKept
<1>10. pc'[t] = "unlock" /\ \A u \in Threads : u # t => pc'[u] = pc[u] /\ pc[u] \notin Locked
  BY <1>1, Alone DEF PublishEntry
<1>11. OneWayPerKey'
  <2>1. table'[a].key = Key(t) /\ table[a].key = Key(t)
    BY <1>1, <1>4 DEF Entries, WayInHand, PublishEntry
  <2>2. HitsIn(table, Key(t)) = {}
    BY <1>1 DEF Hits, HitsIn
  <2> HIDE DEF a, e
  <2>3. ASSUME NEW k, NEW i \in HitsIn(table', k), NEW l \in HitsIn(table', k) PROVE i = l
    <3>1. CASE k = Key(t)
      BY <1>1, <1>4, <2>2, <3>1, SetsAre DEF HitsIn
    <3>2. CASE k # Key(t)
      <4>1. i \in HitsIn(table, k) /\ l \in HitsIn(table, k)
        BY <1>1, <1>4, <2>1, <3>2, SetsAre DEF HitsIn
      <4> QED BY <1>1, <4>1, OneHit DEF OneWayPerKey
    <3> QED BY <3>1, <3>2
  <2> QED BY <2>3 DEF OneWayPerKey, OneWayIn
<1>12. WayInHand'
  BY <1>1, <1>10 DEF WayInHand
<1> QED BY <1>5, <1>6, <1>7, <1>8, <1>9, <1>11, <1>12 DEF Base, TypeOK

\* A return keeps the types, at whatever place it is made.
LEMMA ReturnBase ==
  ASSUME Base, NEW t \in Threads, pc[t] \in Routing, NEW r \in Routes, Return(t, r),
         UNCHANGED <<job, route, empty>>
  PROVE  ThreadTypes' /\ RingTypes'
<1>1. RingTypes'
  BY ReturnTypes DEF Base, RingTypes
<1>2. pc' = [pc EXCEPT ![t] = IF t # Rx /\ FromLan(t) THEN "seq_retry" ELSE "idle"]
  BY ReturnMoves DEF Base
<1>3. ThreadTypes'
  BY <1>2, Sizes DEF Base, TypeOK, ThreadTypes
<1> QED BY <1>1, <1>3

LEMMA ScanBase ==
  ASSUME Base, NEW t \in Threads, Scan(t)
  PROVE  Base' /\ EntriesKept
<1>1. TableTypes'
  BY DEF Base, TypeOK, TableTypes, Scan, shared
<1>2. CASE Hits(Key(t)) # {}
  <2>1. Min(Hits(Key(t))) \in Ways
    BY <1>2, HitIs DEF Hits
  <2>2. RouteOf(Min(Hits(Key(t)))) \in Routes
    BY <2>1, RouteTypes DEF Base, TypeOK
  <2>3. Return(t, RouteOf(Min(Hits(Key(t))))) /\ pc[t] = "scan" /\ UNCHANGED <<job, route, empty>>
    BY <1>2 DEF Scan
  <2>4. ThreadTypes' /\ RingTypes'
    BY <2>2, <2>3, ReturnBase
  <2>5. pc' = [pc EXCEPT ![t] = IF t # Rx /\ FromLan(t) THEN "seq_retry" ELSE "idle"]
    BY <2>2, <2>3, ReturnMoves DEF Base
  <2>6. Exclusive'
    BY <2>3, <2>5 DEF Base, TypeOK, ThreadTypes, Exclusive, Scan, shared
  <2>7. OneWayPerKey' /\ WayInHand'
    BY <2>3, <2>5 DEF Base, TypeOK, ThreadTypes, OneWayPerKey, WayInHand, Hits, Key, RouteOf, Scan, shared
  <2> QED BY <1>1, <2>4, <2>6, <2>7, TableAlone DEF Base, TypeOK, Scan, shared
<1>3. CASE Hits(Key(t)) = {}
  <2>1. pc[t] = "scan" /\ pc' = [pc EXCEPT ![t] = "lock"]
        /\ UNCHANGED <<table, lock, job, route, empty, outRing, mid, out>>
    BY <1>3 DEF Scan, shared
  <2>2. ThreadTypes' /\ RingTypes' /\ Exclusive'
    BY <2>1 DEF Base, TypeOK, ThreadTypes, RingTypes, Exclusive
  <2>3. OneWayPerKey' /\ WayInHand'
    BY <2>1 DEF Base, TypeOK, ThreadTypes, OneWayPerKey, WayInHand, Hits, Key, RouteOf
  <2> QED BY <1>1, <2>1, <2>2, <2>3, TableAlone DEF Base, TypeOK
<1> QED BY <1>2, <1>3

LEMMA InsertUnlockBase ==
  ASSUME Base, NEW t \in Threads, InsertUnlock(t)
  PROVE  Base' /\ EntriesKept
<1>1. TableTypes'
  BY DEF Base, TypeOK, TableTypes, InsertUnlock
<1>2. route[t] \in Routes /\ Return(t, route[t]) /\ pc[t] = "unlock" /\ UNCHANGED <<job, route, empty>>
  BY DEF InsertUnlock, Base, TypeOK, ThreadTypes
<1>3. ThreadTypes' /\ RingTypes'
  BY <1>2, ReturnBase
<1>4. pc' = [pc EXCEPT ![t] = IF t # Rx /\ FromLan(t) THEN "seq_retry" ELSE "idle"]
  BY <1>2, ReturnMoves DEF Base
<1>5. pc'[t] \notin Locked /\ \A u \in Threads : u # t => pc'[u] = pc[u] /\ pc[u] \notin Locked
  BY <1>2, <1>4, Alone, ZenonT(60) DEF Base
<1>6. Exclusive'
  BY <1>5 DEF Exclusive
<1>7. OneWayPerKey' /\ WayInHand'
  BY <1>2, <1>5 DEF Base, OneWayPerKey, WayInHand, InsertUnlock
<1> QED BY <1>1, <1>3, <1>6, <1>7, TableAlone DEF Base, TypeOK, InsertUnlock

LEMMA RxTakesBase ==
  ASSUME Base, arrived \in Nat, NEW p \in Packets, RxTakes(p)
  PROVE  Base' /\ EntriesKept
<1> DEFINE j == NewJob(p, arrived', 0)
<1>1. TableTypes'
  BY DEF Base, TypeOK, TableTypes, RxTakes, shared
<1>2. p \in Tuples /\ HashRoute(p) \in Routes /\ HashRoute(KeyOf(p)) \in Routes /\ Rx \in Threads
  BY HashesAre DEF Tuples, Threads
<1>3. j \in Jobs
  <2>1. arrived' \in Nat /\ 0 \in Slots
    BY Sizes DEF RxTakes
  <2> QED BY <1>2, <2>1 DEF Jobs, NewJob
<1>4. /\ pc[Rx] = "idle" /\ job' = [job EXCEPT ![Rx] = j]
      /\ UNCHANGED <<table, lock, empty, outRing, out>>
  BY DEF RxTakes, shared
<1> HIDE DEF j
<1>5. CASE HasKey(p) /\ route' = [route EXCEPT ![Rx] = HashRoute(KeyOf(p))] /\ mid' = mid
           /\ pc' = [pc EXCEPT ![Rx] = "scan"]
  <2>1. ThreadTypes'
    BY <1>2, <1>3, <1>4, <1>5 DEF Base, TypeOK, ThreadTypes
  <2>2. RingTypes' /\ Exclusive'
    BY <1>4, <1>5 DEF Base, TypeOK, ThreadTypes, RingTypes, Exclusive
  <2>3. OneWayPerKey' /\ WayInHand'
    BY <1>4, <1>5 DEF Base, TypeOK, ThreadTypes, OneWayPerKey, WayInHand, Hits, Key, RouteOf
  <2> QED BY <1>1, <1>4, <2>1, <2>2, <2>3, TableAlone DEF Base, TypeOK
<1>6. CASE /\ mid' = [mid EXCEPT ![HashRoute(p).worker] = Append(@, [j EXCEPT !.slot = HashRoute(p).slot])]
           /\ pc' = [pc EXCEPT ![Rx] = "idle"] /\ route' = route
  <2>1. ThreadTypes' /\ Exclusive'
    BY <1>2, <1>3, <1>4, <1>6 DEF Base, TypeOK, ThreadTypes, Exclusive
  <2>2. mid' \in [Workers -> Seq(Jobs)]
    <3>1. [j EXCEPT !.slot = HashRoute(p).slot] \in Jobs /\ HashRoute(p).worker \in Workers
      BY <1>2, <1>3 DEF Jobs, Routes
    <3>2. mid \in [Workers -> Seq(Jobs)]
      BY DEF Base, TypeOK, RingTypes
    <3> QED BY <1>6, <3>1, <3>2, PushAt
  <2>3. RingTypes'
    BY <1>4, <2>2 DEF Base, TypeOK, RingTypes
  <2>4. OneWayPerKey' /\ WayInHand'
    BY <1>4, <1>6 DEF Base, TypeOK, ThreadTypes, OneWayPerKey, WayInHand, Hits, Key, RouteOf
  <2> QED BY <1>1, <1>4, <2>1, <2>3, <2>4, TableAlone DEF Base, TypeOK
<1> QED BY <1>5, <1>6 DEF RxTakes, HandOver, j

LEMMA TakeLocalBase ==
  ASSUME Base, NEW w \in Workers, TakeLocal(w)
  PROVE  Base' /\ EntriesKept
<1> DEFINE j == Head(mid[w])
<1>1. TableTypes'
  BY DEF Base, TypeOK, TableTypes, TakeLocal, shared
<1>2. mid \in [Workers -> Seq(Jobs)] /\ out \in [Slots -> Seq(Jobs)] /\ w \in Threads /\ mid[w] # <<>>
      /\ mid' = [mid EXCEPT ![w] = Tail(@)]
  BY DEF Base, TypeOK, RingTypes, Threads, TakeLocal
<1>3. j \in Jobs /\ mid' \in [Workers -> Seq(Jobs)]
  BY <1>2, PopAt
<1>4. j.slot \in Slots /\ RingFor(w, j) = j.slot
  BY <1>3 DEF Jobs, RingFor, Bind
<1>5. /\ pc[w] = "idle" /\ job' = [job EXCEPT ![w] = j] /\ outRing' = [outRing EXCEPT ![w] = j.slot]
      /\ UNCHANGED <<table, lock, empty, route>>
  BY <1>4 DEF TakeLocal, shared
<1> HIDE DEF j
<1>6. CASE pc' = [pc EXCEPT ![w] = "seq"] /\ out' = out
  <2>0. w # Rx
    BY Sizes
  <2>4. pc' \in [Threads -> Places] /\ pc'[Rx] = pc[Rx] /\ pc'[w] = "seq"
        /\ \A t \in Threads : t # w => pc'[t] = pc[t] /\ job'[t] = job[t]
    BY <1>2, <1>5, <1>6, <2>0 DEF Base, TypeOK, ThreadTypes, Threads
  <2>5. job'[w] = j
    BY <1>2, <1>5 DEF Base, TypeOK, ThreadTypes
  <2>1. ThreadTypes'
    BY <1>2, <1>3, <1>5, <2>4, <2>5 DEF Base, TypeOK, ThreadTypes
  <2>2. RingTypes'
    BY <1>2, <1>3, <1>4, <1>5, <1>6 DEF Base, TypeOK, RingTypes
  <2>3. Exclusive' /\ OneWayPerKey' /\ WayInHand'
    BY <1>2, <1>5, <1>6 DEF Base, TypeOK, ThreadTypes, Exclusive, OneWayPerKey, WayInHand, Hits, Key, RouteOf
  <2> QED BY <1>1, <1>5, <2>1, <2>2, <2>3, TableAlone DEF Base, TypeOK
<1>7. CASE pc' = [pc EXCEPT ![w] = "idle"] /\ out' = [out EXCEPT ![j.slot] = Append(@, j)]
  <2>1. ThreadTypes'
    BY <1>2, <1>3, <1>5, <1>7, Sizes DEF Base, TypeOK, ThreadTypes
  <2>2. out' \in [Slots -> Seq(Jobs)]
    BY <1>2, <1>3, <1>4, <1>7, PushAt
  <2>3. RingTypes'
    BY <1>2, <1>3, <1>4, <1>5, <2>2 DEF Base, TypeOK, RingTypes
  <2>4. Exclusive' /\ OneWayPerKey' /\ WayInHand'
    BY <1>2, <1>5, <1>7 DEF Base, TypeOK, ThreadTypes, Exclusive, OneWayPerKey, WayInHand, Hits, Key, RouteOf
  <2> QED BY <1>1, <1>5, <2>1, <2>3, <2>4, TableAlone DEF Base, TypeOK
<1> QED BY <1>4, <1>6, <1>7 DEF TakeLocal, Push, j
LEMMA TakeWanBase ==
  ASSUME Base, arrived \in Nat, NEW w \in Workers, NEW p \in Packets, TakeWan(w, p)
  PROVE  Base' /\ EntriesKept
<1> DEFINE q == Reverse(p)
           j == NewJob(q, arrived', HashRoute(q).slot)
<1>1. TableTypes'
  BY DEF Base, TypeOK, TableTypes, TakeWan, shared
<1>2. q \in Tuples /\ HashRoute(q) \in Routes /\ HashRoute(KeyOf(q)) \in Routes /\ w \in Threads /\ w # Rx
  BY HashesAre, Sizes DEF Tuples, Wan, Threads
<1>3. j \in Jobs /\ j.slot \in Slots /\ Bind(j.slot) = j.slot
  <2>1. arrived' \in Nat /\ HashRoute(q).slot \in Slots
    BY <1>2 DEF TakeWan, Routes
  <2> QED BY <1>2, <2>1 DEF Jobs, Bind, NewJob
<1>4. /\ pc[w] = "idle" /\ job' = [job EXCEPT ![w] = j]
      /\ UNCHANGED <<table, lock, empty, mid>>
  BY DEF TakeWan, shared
<1> HIDE DEF j, q
<1>5. CASE route' = [route EXCEPT ![w] = HashRoute(KeyOf(q))] /\ UNCHANGED <<outRing, out>>
           /\ pc' = [pc EXCEPT ![w] = "scan"]
  <2>1. ThreadTypes'
    BY <1>2, <1>3, <1>4, <1>5 DEF Base, TypeOK, ThreadTypes
  <2>2. RingTypes' /\ Exclusive'
    BY <1>2, <1>4, <1>5 DEF Base, TypeOK, ThreadTypes, RingTypes, Exclusive
  <2>3. OneWayPerKey' /\ WayInHand'
    BY <1>2, <1>4, <1>5 DEF Base, TypeOK, ThreadTypes, OneWayPerKey, WayInHand, Hits, Key, RouteOf
  <2> QED BY <1>1, <1>4, <2>1, <2>2, <2>3, TableAlone DEF Base, TypeOK
<1>6. CASE /\ outRing' = [outRing EXCEPT ![w] = j.slot] /\ out' = [out EXCEPT ![j.slot] = Append(@, j)]
           /\ pc' = [pc EXCEPT ![w] = "idle"] /\ route' = route
  <2>1. ThreadTypes' /\ Exclusive'
    BY <1>2, <1>3, <1>4, <1>6 DEF Base, TypeOK, ThreadTypes, Exclusive
  <2>2. out \in [Slots -> Seq(Jobs)]
    BY DEF Base, TypeOK, RingTypes
  <2>3. out' \in [Slots -> Seq(Jobs)]
    BY <1>3, <1>6, <2>2, PushAt
  <2>4. RingTypes'
    BY <1>3, <1>4, <1>6, <2>3 DEF Base, TypeOK, RingTypes
  <2>5. OneWayPerKey' /\ WayInHand'
    BY <1>2, <1>4, <1>6 DEF Base, TypeOK, ThreadTypes, OneWayPerKey, WayInHand, Hits, Key, RouteOf
  <2> QED BY <1>1, <1>4, <2>1, <2>4, <2>5, TableAlone DEF Base, TypeOK
<1> QED BY <1>3, <1>5, <1>6 DEF TakeWan, Push, j, q

\* Counters of uint32_t stay natural numbers.
LEMMA NextNat ==
  ASSUME NEW n \in Nat
  PROVE  (n + 1) % SeqMod \in Nat
BY RouteAssumption

\* A packet gets its sequence number: only the counter of a valid entry changes.
LEMMA SeqOfEntryBase ==
  ASSUME Base, NEW w \in Workers, pc[w] \in {"seq", "seq_retry"}, Hits(Key(w)) # {}, SeqOfEntry(w),
         UNCHANGED <<lock, wcount, tcount, wrr, trr, job, route, empty, outRing, mid>>
  PROVE  Base' /\ EntriesKept
<1> DEFINE a == Min(Hits(Key(w)))
           d == Dir(w)
           e == [table[a] EXCEPT !.seq[d] = (@ + 1) % SeqMod]
           j == [job[w] EXCEPT !.seq = table[a].seq[d]]
<1>1. a \in Ways /\ table[a].valid /\ table[a] \in Entries /\ d \in 0 .. 1 /\ w \in Threads /\ w # Rx
      /\ job[w] \in Jobs /\ outRing[w] \in Slots
  <2>1. a \in Hits(Key(w)) /\ a \in Ways
    BY HitIs
  <2>2. a \in Ways /\ table[a].valid
    BY <2>1 DEF Hits
  <2>3. w \in Threads /\ w # Rx /\ d \in 0 .. 1
    BY Sizes DEF Threads, Dir, Direction
  <2> HIDE DEF a
  <2>4. table[a] \in Entries
    BY <2>2 DEF Base, TypeOK, TableTypes
  <2>5. job[w] \in Jobs /\ outRing[w] \in Slots
    BY <2>3 DEF Base, TypeOK, ThreadTypes, RingTypes
  <2> QED BY <2>2, <2>3, <2>4, <2>5
<1>2. table' = [table EXCEPT ![a] = e] /\ out' = [out EXCEPT ![outRing[w]] = Append(@, j)]
      /\ pc' = [pc EXCEPT ![w] = "idle"]
  BY DEF SeqOfEntry, Push
<1>3. e \in Entries /\ e.valid = table[a].valid /\ e.key = table[a].key /\ e.worker = table[a].worker
      /\ e.slot = table[a].slot
  <2> DEFINE f == [table[a].seq EXCEPT ![d] = (table[a].seq[d] + 1) % SeqMod]
  <2>1. f \in [0 .. 1 -> Nat]
    <3>1. table[a].seq \in [0 .. 1 -> Nat] /\ table[a].seq[d] \in Nat
      BY <1>1 DEF Entries
    <3>2. (table[a].seq[d] + 1) % SeqMod \in Nat
      BY <3>1, NextNat
    <3> QED BY <3>1, <3>2
  <2>2. e = [table[a] EXCEPT !.seq = f]
    OBVIOUS
  <2> HIDE DEF a, d, e, f
  <2> QED BY <1>1, <2>1, <2>2 DEF Entries
<1>4. j \in Jobs
  <2>1. table[a].seq[d] \in Int
    BY <1>1 DEF Entries
  <2> QED BY <1>1, <2>1 DEF Jobs
<1> HIDE DEF a, d, e, j
<1>5. /\ table' \in [Ways -> Entries]
      /\ table'[a] = e /\ \A i \in Ways : i # a => table'[i] = table[i]
  BY <1>1, <1>2, <1>3, PutEntry DEF Base, TypeOK
<1>6. \A i \in Ways : table'[i].valid = table[i].valid /\ table'[i].key = table[i].key
                      /\ RouteOf(i)' = RouteOf(i)
  BY <1>1, <1>3, <1>5 DEF RouteOf
<1>7. EntriesKept
  BY <1>6 DEF EntriesKept
<1>8. TableTypes'
  BY <1>5 DEF Base, TypeOK, TableTypes
<1>9. ThreadTypes' /\ Exclusive'
  BY <1>1, <1>2 DEF Base, TypeOK, ThreadTypes, Exclusive
<1>10. out \in [Slots -> Seq(Jobs)]
  BY DEF Base, TypeOK, RingTypes
<1>11. out' \in [Slots -> Seq(Jobs)]
  BY <1>1, <1>2, <1>4, <1>10, PushAt
<1>12. RingTypes'
  BY <1>11 DEF Base, TypeOK, RingTypes
<1>13. OneWayPerKey'
  <2>1. \A k : HitsIn(table', k) = HitsIn(table, k)
    BY <1>6, SetsAre DEF HitsIn
  <2> QED BY <1>6, <2>1 DEF Base, OneWayPerKey, OneWayIn
<1>14. WayInHand'
  <2>1. \A t \in Threads : pc'[t] \in Routing => pc'[t] = pc[t]
    BY <1>1, <1>2 DEF Base, TypeOK, ThreadTypes
  <2>2. \A t \in Threads : Key(t)' = Key(t) /\ Hits(Key(t))' = Hits(Key(t))
    BY <1>6, SetsAre DEF Key, Hits
  <2>3. \A t \in Threads : pc[t] \in Inserting => empty[t] \in Ways
    BY DEF Base, TypeOK, ThreadTypes
  <2>4. WayInHand
    BY DEF Base
  <2> QED BY <1>6, <2>1, <2>2, <2>3, <2>4 DEF WayInHand
<1> QED BY <1>7, <1>8, <1>9, <1>12, <1>13, <1>14 DEF Base, TypeOK

LEMMA SeqLookupBase ==
  ASSUME Base, NEW w \in Workers, SeqLookup(w)
  PROVE  Base' /\ EntriesKept
<1>1. CASE Hits(Key(w)) # {} /\ SeqOfEntry(w) /\ route' = route
  BY <1>1, SeqOfEntryBase DEF SeqLookup
<1>2. CASE pc' = [pc EXCEPT ![w] = "scan"] /\ UNCHANGED <<out, table>>
           /\ route' = [route EXCEPT ![w] = HashRoute(Key(w))]
  <2>1. w \in Threads /\ w # Rx /\ pc[w] = "seq" /\ UNCHANGED <<lock, wcount, tcount, wrr, trr, job, empty, outRing, mid>>
    BY Sizes DEF Threads, SeqLookup
  <2>2. HashRoute(Key(w)) \in Routes
    BY <2>1, KeyTypes DEF Base
  <2>3. TableTypes' /\ RingTypes'
    BY <1>2, <2>1 DEF Base, TypeOK, TableTypes, RingTypes
  <2>4. ThreadTypes'
    BY <1>2, <2>1, <2>2 DEF Base, TypeOK, ThreadTypes
  <2>5. Exclusive' /\ OneWayPerKey' /\ WayInHand'
    BY <1>2, <2>1 DEF Base, TypeOK, ThreadTypes, Exclusive, OneWayPerKey, WayInHand, Hits, Key, RouteOf
  <2> QED BY <1>2, <2>3, <2>4, <2>5, TableAlone DEF Base, TypeOK
<1> QED BY <1>1, <1>2 DEF SeqLookup

LEMMA SeqRetryBase ==
  ASSUME Base, SeqTypes, NEW w \in Workers, SeqRetry(w)
  PROVE  Base' /\ EntriesKept /\ SeqTypes'
<1>1. CASE Hits(Key(w)) # {}
  <2>1. SeqTypes'
    BY <1>1 DEF SeqTypes, SeqRetry
  <2>2. Base' /\ EntriesKept
    BY <1>1, SeqOfEntryBase DEF SeqRetry
  <2> QED BY <2>1, <2>2
<1>2. CASE Hits(Key(w)) = {}
  <2> DEFINE i == IF Mine(w) # {} THEN Min(Mine(w)) ELSE Victim(w)
             next == IF Mine(w) # {} THEN fallback[w][i].next ELSE EmptyFallback.next
             d == Dir(w)
             j == [job[w] EXCEPT !.seq = next[d]]
             e == [valid |-> TRUE, key |-> Key(w), stamp |-> (stamp[w] + 1) % SeqMod,
                   next |-> [next EXCEPT ![d] = (@ + 1) % SeqMod]]
  <2>1. w \in Threads /\ w # Rx /\ d \in 0 .. 1 /\ pc[w] = "seq_retry"
        /\ UNCHANGED <<table, lock, wcount, tcount, wrr, trr, job, route, empty, outRing, mid>>
    <3>1. w \in Threads /\ w # Rx
      BY Sizes DEF Threads
    <3>2. d \in 0 .. 1
      BY DEF Dir, Direction
    <3>3. pc[w] = "seq_retry" /\ UNCHANGED table
          /\ UNCHANGED <<lock, wcount, tcount, wrr, trr, job, route, empty, outRing, mid>>
      BY <1>2 DEF SeqRetry
    <3> QED BY <3>1, <3>2, <3>3
  <2>2. out' = [out EXCEPT ![outRing[w]] = Append(@, j)] /\ pc' = [pc EXCEPT ![w] = "idle"]
        /\ fallback' = [fallback EXCEPT ![w][i] = e] /\ stamp' = [stamp EXCEPT ![w] = (@ + 1) % SeqMod]
    BY <1>2 DEF SeqRetry, Push, SeqTypes
  <2>3. job[w] \in Jobs /\ outRing[w] \in Slots /\ Key(w) \in Tuples
        /\ fallback[w] \in [FallbackWays -> Fallbacks] /\ stamp[w] \in Nat
    BY <2>1, KeyTypes DEF Base, TypeOK, ThreadTypes, RingTypes, SeqTypes
  <2>4. next \in [0 .. 1 -> Nat]
    <3>1. CASE Mine(w) # {}
      <4>1. Min(Mine(w)) \in Mine(w)
        BY <3>1, MinIn, RouteAssumption, SetsAre DEF Mine
      <4>2. i \in FallbackWays
        BY <3>1, <4>1, SetsAre DEF Mine
      <4> HIDE DEF i
      <4> QED BY <2>3, <3>1, <4>2 DEF Fallbacks
    <3>2. CASE Mine(w) = {}
      BY <3>2 DEF EmptyFallback
    <3> QED BY <3>1, <3>2
  <2> HIDE DEF next, i, d
  <2>5. j \in Jobs
    BY <2>1, <2>3, <2>4 DEF Jobs
  <2>6. e \in Fallbacks
    <3>1. (stamp[w] + 1) % SeqMod \in Nat /\ (next[d] + 1) % SeqMod \in Nat
      BY <2>1, <2>3, <2>4, NextNat
    <3> QED BY <2>1, <2>3, <2>4, <3>1 DEF Fallbacks
  <2> HIDE DEF j, e
  <2>11. SeqTypes'
    <3>1. [fallback[w] EXCEPT ![i] = e] \in [FallbackWays -> Fallbacks]
      BY <2>3, <2>6
    <3>2. fallback' = [fallback EXCEPT ![w] = [fallback[w] EXCEPT ![i] = e]]
      BY <2>2
    <3>3. (stamp[w] + 1) % SeqMod \in Nat
      BY <2>3, NextNat
    <3> QED BY <2>2, <2>3, <3>1, <3>2, <3>3 DEF SeqTypes
  <2>7. RingTypes'
    <3>2. out \in [Slots -> Seq(Jobs)]
      BY DEF Base, TypeOK, RingTypes
    <3>3. out' \in [Slots -> Seq(Jobs)]
      BY <2>2, <2>3, <2>5, <3>2, PushAt
    <3> QED BY <2>1, <3>3 DEF Base, TypeOK, RingTypes
  <2>8. TableTypes'
    BY <2>1 DEF Base, TypeOK, TableTypes
  <2>9. ThreadTypes' /\ Exclusive'
    BY <2>1, <2>2 DEF Base, TypeOK, ThreadTypes, Exclusive
  <2>10. OneWayPerKey' /\ WayInHand'
    BY <2>1, <2>2 DEF Base, TypeOK, ThreadTypes, OneWayPerKey, WayInHand, Hits, Key, RouteOf
  <2> QED BY <2>1, <2>7, <2>8, <2>9, <2>10, <2>11, TableAlone DEF Base, TypeOK
<1> QED BY <1>1, <1>2

Sound == Base /\ SeqTypes /\ arrived \in Nat

LEMMA SoundStep ==
  ASSUME Sound, Next
  PROVE  Sound' /\ EntriesKept
<1>1. ASSUME NEW t \in Threads, RouteStep(t)
      PROVE  Base' /\ EntriesKept /\ UNCHANGED <<fallback, stamp, arrived>>
  <2>1. CASE Scan(t)
    BY <2>1, ScanBase DEF Scan, Sound
  <2>2. CASE InsertLock(t)
    BY <2>2, InsertLockBase DEF InsertLock, Sound
  <2>3. CASE Rescan(t)
    BY <2>3, RescanBase DEF Rescan, Sound
  <2>4. CASE WriteKey(t)
    BY <2>4, WriteKeyBase DEF WriteKey, Sound
  <2>5. CASE WriteFields(t)
    BY <2>5, WriteFieldsBase DEF WriteFields, Sound
  <2>6. CASE PublishEntry(t)
    BY <2>6, PublishBase DEF PublishEntry, Sound
  <2>7. CASE InsertUnlock(t)
    BY <2>7, InsertUnlockBase DEF InsertUnlock, Sound
  <2> QED BY <1>1, <2>1, <2>2, <2>3, <2>4, <2>5, <2>6, <2>7 DEF RouteStep
<1>2. ASSUME NEW p \in Packets, RxTakes(p)
      PROVE  Base' /\ EntriesKept /\ UNCHANGED <<fallback, stamp>> /\ arrived' \in Nat
  <2>1. Base' /\ EntriesKept
    BY <1>2, RxTakesBase DEF Sound
  <2> QED BY <1>2, <2>1 DEF RxTakes, Sound
<1>3. ASSUME NEW w \in Workers, NEW p \in Packets, TakeWan(w, p)
      PROVE  Base' /\ EntriesKept /\ UNCHANGED <<fallback, stamp>> /\ arrived' \in Nat
  <2>1. Base' /\ EntriesKept
    BY <1>3, TakeWanBase DEF Sound
  <2> QED BY <1>3, <2>1 DEF TakeWan, Sound
<1>4. ASSUME NEW w \in Workers, TakeLocal(w)
      PROVE  Base' /\ EntriesKept /\ UNCHANGED <<fallback, stamp, arrived>>
  BY <1>4, TakeLocalBase DEF TakeLocal, Sound
<1>5. ASSUME NEW w \in Workers, SeqLookup(w)
      PROVE  Base' /\ EntriesKept /\ UNCHANGED <<fallback, stamp, arrived>>
  BY <1>5, SeqLookupBase DEF SeqLookup, Sound
<1>6. ASSUME NEW w \in Workers, SeqRetry(w)
      PROVE  Base' /\ EntriesKept /\ SeqTypes' /\ UNCHANGED arrived
  BY <1>6, SeqRetryBase DEF SeqRetry, Sound
<1>7. UNCHANGED <<fallback, stamp>> => SeqTypes'
  BY DEF Sound, SeqTypes
<1> QED BY <1>1, <1>2, <1>3, <1>4, <1>5, <1>6, <1>7 DEF Next, Sound
-----------------------------------------------------------------------------
(* What lookups return.                                                    *)

\* A thread that does nothing, while others work on the table.
LEMMA OthersReturn ==
  ASSUME OneWayPerKey, OneWayPerKey', EntriesKept, NEW t, ReturnsAt(t),
         pc'[t] = pc[t], job'[t] = job[t], route'[t] = route[t]
  PROVE  ReturnsAt(t)'
<1>1. Key(t)' = Key(t)
  BY DEF Key
<1>2. pc[t] = "unlock" => SettledIn(table', Key(t)) /\ RouteIn(table', Key(t)) = RouteIn(table, Key(t))
  BY SettledForEver DEF ReturnsAt
<1> QED BY <1>1, <1>2 DEF ReturnsAt

\* A thread that has left the lookup.
LEMMA GoneReturns ==
  ASSUME NEW t, pc'[t] \notin Routing, HasKey(job'[t].p)
  PROVE  ReturnsAt(t)'
BY DEF ReturnsAt

LEMMA LookupReturns ==
  ASSUME Sound, Sound', EntriesKept, Returns, NEW t \in Threads, RouteStep(t)
  PROVE  Returns'
<1>0. OneWayPerKey /\ OneWayPerKey' /\ pc \in [Threads -> Places] /\ route \in [Threads -> Routes]
  BY DEF Sound, Base, TypeOK, ThreadTypes
<1>1. job' = job /\ Key(t)' = Key(t)
  BY DEF RouteStep, Scan, InsertLock, Rescan, WriteKey, WriteFields, PublishEntry, InsertUnlock, Key
<1>2. ReturnsAt(t) /\ HasKey(job'[t].p)
  <2>1. pc[t] # "idle"
    BY DEF RouteStep, Scan, InsertLock, Rescan, WriteKey, WriteFields, PublishEntry, InsertUnlock
  <2> QED BY <1>1, <2>1 DEF Returns, ReturnsAt
<1>3. ASSUME NEW l, pc' = [pc EXCEPT ![t] = l], \A u \in Threads : u # t => route'[u] = route[u],
             pc'[t] \in Routing => ReturnsAt(t)'
      PROVE  Returns'
  <2>1. ASSUME NEW u \in Threads, u # t PROVE ReturnsAt(u)'
    <3>1. pc'[u] = pc[u] /\ route'[u] = route[u] /\ job'[u] = job[u] /\ ReturnsAt(u)
      BY <1>0, <1>1, <1>3, <2>1 DEF Returns
    <3> QED BY <1>0, <3>1, OthersReturn
  <2> QED BY <1>2, <1>3, <2>1, GoneReturns DEF Returns
<1>4. CASE Scan(t)
  <2>1. CASE Hits(Key(t)) = {}
    <3>1. pc[t] = "scan" /\ pc' = [pc EXCEPT ![t] = "lock"] /\ route' = route
      BY <1>4, <2>1 DEF Scan
    <3>2. ReturnsAt(t)'
      BY <1>0, <1>1, <1>2, <3>1 DEF ReturnsAt
    <3> QED BY <1>3, <3>1, <3>2
  <2>2. CASE Hits(Key(t)) # {}
    <3>1. Min(Hits(Key(t))) \in Ways
      BY <2>2, HitIs DEF Hits
    <3>2. RouteOf(Min(Hits(Key(t)))) \in Routes
      BY <3>1, RouteTypes DEF Sound, Base, TypeOK
    <3>3. pc' = [pc EXCEPT ![t] = IF t # Rx /\ FromLan(t) THEN "seq_retry" ELSE "idle"] /\ route' = route
      BY <1>4, <2>2, <3>2, ReturnMoves DEF Sound, Base, Scan
    <3>4. pc'[t] \notin Routing
      BY <1>0, <3>3
    <3> QED BY <1>3, <3>3, <3>4
  <2> QED BY <2>1, <2>2
<1>5. CASE InsertLock(t)
  <2>1. pc[t] = "lock" /\ pc' = [pc EXCEPT ![t] = "rescan"] /\ route' = route
    BY <1>5 DEF InsertLock
  <2>2. ReturnsAt(t)'
    BY <1>0, <1>1, <1>2, <2>1 DEF ReturnsAt
  <2> QED BY <1>3, <2>1, <2>2
<1>6. CASE Rescan(t)
  <2>0. pc[t] = "rescan" /\ table' = table /\ HasKey(job[t].p)
    BY <1>2, <1>6 DEF Rescan, shared, ReturnsAt
  <2>1. CASE /\ Hits(Key(t)) # {} /\ route' = [route EXCEPT ![t] = RouteOf(Min(Hits(Key(t))))]
             /\ pc' = [pc EXCEPT ![t] = "unlock"]
    <3>1. route'[t] = RouteIn(table, Key(t)) /\ SettledIn(table, Key(t))
      BY <1>0, <2>1 DEF RouteIn, SettledIn, HitsIn, Hits, RouteOf
    <3>2. ReturnsAt(t)'
      BY <1>0, <1>1, <2>0, <2>1, <3>1 DEF ReturnsAt
    <3> QED BY <1>0, <1>3, <2>1, <3>2
  <2>2. CASE Hits(Key(t)) = {} /\ Invalid(Key(t)) = {} /\ pc' = [pc EXCEPT ![t] = "unlock"] /\ route' = route
    <3>1. route[t] = RouteIn(table, Key(t)) /\ SettledIn(table, Key(t))
      BY <1>2, <2>0, <2>2 DEF RouteIn, SettledIn, HitsIn, Hits, Invalid, ReturnsAt
    <3>2. ReturnsAt(t)'
      BY <1>0, <1>1, <2>0, <2>2, <3>1 DEF ReturnsAt
    <3> QED BY <1>3, <2>2, <3>2
  <2>3. CASE pc' = [pc EXCEPT ![t] = "write"] /\ route' = route
    <3>1. ReturnsAt(t)'
      BY <1>0, <1>1, <2>0, <2>3 DEF ReturnsAt
    <3> QED BY <1>3, <2>3, <3>1
  <2> QED BY <1>6, <2>1, <2>2, <2>3 DEF Rescan
<1>7. CASE WriteKey(t)
  <2>1. pc[t] = "write" /\ pc' = [pc EXCEPT ![t] = "fields"] /\ \A u \in Threads : u # t => route'[u] = route[u]
    BY <1>0, <1>7 DEF WriteKey
  <2>2. ReturnsAt(t)'
    BY <1>0, <1>1, <1>2, <2>1 DEF ReturnsAt
  <2> QED BY <1>3, <2>1, <2>2
<1>8. CASE WriteFields(t)
  <2>1. pc[t] = "fields" /\ pc' = [pc EXCEPT ![t] = "publish"] /\ route' = route
    BY <1>8 DEF WriteFields
  <2>2. ReturnsAt(t)'
    BY <1>0, <1>1, <1>2, <2>1 DEF ReturnsAt
  <2> QED BY <1>3, <2>1, <2>2
<1>9. CASE PublishEntry(t)
  <2>1. pc[t] = "publish" /\ pc' = [pc EXCEPT ![t] = "unlock"] /\ route' = route
        /\ table' = [table EXCEPT ![empty[t]].valid = TRUE]
    BY <1>9 DEF PublishEntry
  <2>2. empty[t] \in SetFor(Key(t)) /\ empty[t] \in Ways /\ table[empty[t]].key = Key(t)
        /\ RouteOf(empty[t]) = route[t]
        /\ table[empty[t]] \in Entries /\ table \in [Ways -> Entries]
    BY <2>1 DEF Sound, Base, TypeOK, TableTypes, ThreadTypes, WayInHand
  <2>3. empty[t] \in HitsIn(table', Key(t))
        /\ [worker |-> table'[empty[t]].worker, slot |-> table'[empty[t]].slot] = route[t]
    BY <2>1, <2>2 DEF HitsIn, Entries, RouteOf
  <2>4. RouteIn(table', Key(t)) = route[t] /\ SettledIn(table', Key(t))
    BY <1>0, <2>3, OnlyHit DEF OneWayPerKey, SettledIn
  <2>5. ReturnsAt(t)'
    BY <1>0, <1>1, <1>2, <2>1, <2>4 DEF ReturnsAt
  <2> QED BY <1>3, <2>1, <2>5
<1>10. CASE InsertUnlock(t)
  <2>1. route[t] \in Routes /\ Return(t, route[t]) /\ pc[t] = "unlock" /\ route' = route
    BY <1>0, <1>10 DEF InsertUnlock
  <2>2. pc' = [pc EXCEPT ![t] = IF t # Rx /\ FromLan(t) THEN "seq_retry" ELSE "idle"]
    BY <2>1, ReturnMoves DEF Sound, Base
  <2>3. pc'[t] \notin Routing
    BY <1>0, <2>2
  <2> QED BY <1>3, <2>1, <2>2, <2>3
<1> QED BY <1>4, <1>5, <1>6, <1>7, <1>8, <1>9, <1>10 DEF RouteStep

LEMMA PacketReturns ==
  ASSUME Sound, Sound', EntriesKept, Returns, Routed, NEW t \in Threads, NEW l \in {"idle", "seq", "scan"},
         pc' = [pc EXCEPT ![t] = l],
         \A u \in Threads : u # t => route'[u] = route[u] /\ job'[u] = job[u],
         l # "idle" => HasKey(job'[t].p),
         l = "scan" => route'[t] = HashRoute(KeyOf(job'[t].p))
  PROVE  Returns'
<1>1. pc \in [Threads -> Places] /\ OneWayPerKey /\ OneWayPerKey'
  BY DEF Sound, Base, TypeOK, ThreadTypes
<1>2. ASSUME NEW u \in Threads, u # t PROVE ReturnsAt(u)'
  <2>1. pc'[u] = pc[u] /\ route'[u] = route[u] /\ job'[u] = job[u] /\ ReturnsAt(u)
    BY <1>1, <1>2 DEF Returns
  <2> QED BY <1>1, <2>1, OthersReturn
<1>3. ReturnsAt(t)'
  BY <1>1 DEF ReturnsAt, Key
<1> QED BY <1>2, <1>3 DEF Returns

-----------------------------------------------------------------------------
(* Packets on their route.                                                 *)

\* What is routed stays routed while others work on the table.
LEMMA RoutesKept ==
  ASSUME OneWayPerKey, OneWayPerKey', EntriesKept, NEW p, NEW s, OnRoute(table, p, s)
  PROVE  /\ OnRoute(table', p, s)
         /\ \A w : OnWorker(table, p, w) => OnWorker(table', p, w)
<1>1. HasKey(p) => SettledIn(table', KeyOf(p)) /\ RouteIn(table', KeyOf(p)) = RouteIn(table, KeyOf(p))
  BY SettledForEver DEF OnRoute
<1> QED BY <1>1 DEF OnRoute, OnWorker

LEMMA RingsKept ==
  ASSUME Sound, Sound', EntriesKept, Routed
  PROVE  MidOk(table', mid) /\ OutOk(table', out)
<1>1. OneWayPerKey /\ OneWayPerKey'
  BY DEF Sound, Base
<1>2. MidOk(table', mid)
  BY <1>1, RoutesKept DEF Routed, MidOk
<1>3. OutOk(table', out)
  BY <1>1, RoutesKept DEF Routed, OutOk
<1> QED BY <1>2, <1>3

LEMMA BusyKept ==
  ASSUME Sound, Sound', EntriesKept, Routed, NEW w \in Workers,
         pc'[w] = pc[w], job'[w] = job[w], outRing'[w] = outRing[w]
  PROVE  BusyOk(w)'
<1>1. OneWayPerKey /\ OneWayPerKey' /\ BusyOk(w)
  BY DEF Sound, Base, Routed
<1>2. CASE pc[w] # "idle" /\ job[w].p \in Packets
  <2>1. OnRoute(table', job[w].p, job[w].slot) /\ OnWorker(table', job[w].p, w)
    BY <1>1, <1>2, RoutesKept DEF BusyOk
  <2> QED BY <1>1, <1>2, <2>1 DEF BusyOk
<1>3. CASE ~(pc[w] # "idle" /\ job[w].p \in Packets)
  BY <1>1, <1>3 DEF BusyOk
<1> QED BY <1>2, <1>3

\* A packet enters a worker's ring, or the ring of a slot.
LEMMA MidPush ==
  ASSUME NEW T, NEW m \in [Workers -> Seq(Jobs)], MidOk(T, m), NEW w \in Workers, NEW j \in Jobs,
         j.p \in Packets, OnRoute(T, j.p, j.slot), OnWorker(T, j.p, w),
         NEW g, g = [m EXCEPT ![w] = Append(@, j)]
  PROVE  MidOk(T, g)
<1>1. /\ \A x \in Workers : x # w => g[x] = m[x]
      /\ Len(m[w]) \in Nat /\ Len(g[w]) = Len(m[w]) + 1 /\ g[w][Len(g[w])] = j
      /\ \A i \in 1 .. Len(m[w]) : g[w][i] = m[w][i]
  BY PushAt
<1>2. ASSUME NEW i \in 1 .. Len(g[w])
      PROVE  g[w][i].p \in Packets /\ OnRoute(T, g[w][i].p, g[w][i].slot) /\ OnWorker(T, g[w][i].p, w)
  <2>1. i = Len(g[w]) \/ i \in 1 .. Len(m[w])
    BY <1>1, <1>2
  <2> QED BY <1>1, <2>1 DEF MidOk
<1> QED BY <1>1, <1>2 DEF MidOk

LEMMA OutPush ==
  ASSUME NEW T, NEW o \in [Slots -> Seq(Jobs)], OutOk(T, o), NEW s \in Slots, NEW j \in Jobs,
         OnRoute(T, j.p, s), j.slot = s,
         NEW g, g = [o EXCEPT ![s] = Append(@, j)]
  PROVE  OutOk(T, g)
<1>1. /\ \A x \in Slots : x # s => g[x] = o[x]
      /\ Len(o[s]) \in Nat /\ Len(g[s]) = Len(o[s]) + 1 /\ g[s][Len(g[s])] = j
      /\ \A i \in 1 .. Len(o[s]) : g[s][i] = o[s][i]
  BY PushAt
<1>2. ASSUME NEW i \in 1 .. Len(g[s])
      PROVE  OnRoute(T, g[s][i].p, s) /\ g[s][i].slot = s
  <2>1. i = Len(g[s]) \/ i \in 1 .. Len(o[s])
    BY <1>1, <1>2
  <2> QED BY <1>1, <2>1 DEF OutOk
<1> QED BY <1>1, <1>2 DEF OutOk

LEMMA MidPop ==
  ASSUME NEW T, NEW m \in [Workers -> Seq(Jobs)], MidOk(T, m), NEW w \in Workers, m[w] # <<>>,
         NEW g, g = [m EXCEPT ![w] = Tail(@)]
  PROVE  MidOk(T, g) /\ Head(m[w]).p \in Packets
         /\ OnRoute(T, Head(m[w]).p, Head(m[w]).slot) /\ OnWorker(T, Head(m[w]).p, w)
<1>1. /\ \A x \in Workers : x # w => g[x] = m[x]
      /\ Len(g[w]) \in Nat /\ Len(m[w]) = Len(g[w]) + 1 /\ Head(m[w]) = m[w][1]
      /\ \A i \in 1 .. Len(g[w]) : g[w][i] = m[w][i + 1]
  BY PopAt
<1>2. ASSUME NEW i \in 1 .. Len(g[w])
      PROVE  g[w][i].p \in Packets /\ OnRoute(T, g[w][i].p, g[w][i].slot) /\ OnWorker(T, g[w][i].p, w)
  <2>1. i + 1 \in 1 .. Len(m[w])
    BY <1>1, <1>2
  <2> QED BY <1>1, <2>1 DEF MidOk
<1>3. 1 \in 1 .. Len(m[w])
  BY <1>1
<1> QED BY <1>1, <1>2, <1>3 DEF MidOk

\* A step inside the lookup.
LEMMA QuietRouted ==
  ASSUME Sound, Sound', EntriesKept, Routed, NEW t \in Threads, NEW l \in Routing, pc[t] # "idle",
         pc' = [pc EXCEPT ![t] = l], UNCHANGED <<job, outRing, mid, out>>
  PROVE  Routed'
<1>1. pc \in [Threads -> Places] /\ Workers \subseteq Threads /\ Rx \in Threads
      /\ OneWayPerKey /\ OneWayPerKey'
  BY DEF Sound, Base, TypeOK, ThreadTypes, Threads
<1>2. MidOk(table, mid)' /\ OutOk(table, out)'
  BY RingsKept DEF MidOk, OutOk
<1>3. ASSUME NEW w \in Workers PROVE BusyOk(w)'
  <2>1. CASE w # t
    BY <1>1, <2>1, BusyKept
  <2>2. CASE w = t /\ job[w].p \in Packets
    <3>1. OnRoute(table, job[w].p, job[w].slot) /\ OnWorker(table, job[w].p, w) /\ outRing[w] = job[w].slot
      BY <2>2 DEF Routed, BusyOk
    <3>2. OnRoute(table', job[w].p, job[w].slot) /\ OnWorker(table', job[w].p, w)
      BY <1>1, <3>1, RoutesKept
    <3> QED BY <2>2, <3>1, <3>2 DEF BusyOk
  <2>3. CASE w = t /\ job[w].p \notin Packets
    BY <1>1, <2>3 DEF BusyOk
  <2> QED BY <2>1, <2>2, <2>3
<1>4. pc'[Rx] # "idle" => job'[Rx].p \in Packets
  BY <1>1 DEF Routed
<1> QED BY <1>2, <1>3, <1>4 DEF Routed

\* A return of the flow's own route.
LEMMA ReturnRouted ==
  ASSUME Sound, Sound', table' = table, Returns, Routed, NEW t \in Threads, pc[t] \in Routing,
         NEW r \in Routes, Return(t, r), job' = job,
         SettledIn(table, Key(t)), r = RouteIn(table, Key(t))
  PROVE  Routed'
<1>1. pc \in [Threads -> Places] /\ Workers \subseteq Threads /\ Rx \in Threads /\ Rx \notin Workers
      /\ mid \in [Workers -> Seq(Jobs)] /\ out \in [Slots -> Seq(Jobs)] /\ outRing \in [Workers -> Slots]
      /\ r.worker \in Workers /\ r.slot \in Slots /\ job[t] \in Jobs /\ HasKey(job[t].p) /\ EntriesKept
  BY Sizes, TableAlone DEF Sound, Base, TypeOK, ThreadTypes, RingTypes, Threads, Routes, Returns, ReturnsAt
<1> DEFINE j == [job[t] EXCEPT !.slot = r.slot]
<1>2. j \in Jobs /\ j.p = job[t].p /\ j.slot = r.slot
  BY <1>1 DEF Jobs
<1>3. OnRoute(table, j.p, j.slot) /\ OnWorker(table, j.p, r.worker)
  BY <1>1, <1>2 DEF OnRoute, OnWorker, Key
<1> HIDE DEF j
<1>4. pc' = [pc EXCEPT ![t] = IF t # Rx /\ FromLan(t) THEN "seq_retry" ELSE "idle"]
  BY ReturnMoves DEF Sound, Base
<1>5. MidOk(table, mid) /\ OutOk(table, out)
  BY DEF Routed
<1>6. CASE t = Rx /\ outRing' = outRing /\ out' = out /\ mid' = [mid EXCEPT ![r.worker] = Append(@, j)]
  <2>1. j.p \in Packets
    BY <1>2, <1>6 DEF Routed
  <2>2. MidOk(table, mid')
    BY <1>1, <1>2, <1>3, <1>5, <1>6, <2>1, MidPush
  <2>3. ASSUME NEW w \in Workers PROVE BusyOk(w)'
    BY <1>1, <1>4, <1>6, BusyKept
  <2>4. pc'[Rx] = "idle"
    BY <1>1, <1>4, <1>6
  <2> QED BY <1>5, <1>6, <2>2, <2>3, <2>4 DEF Routed, MidOk, OutOk
<1>7. CASE t # Rx /\ FromLan(t) /\ UNCHANGED <<outRing, mid, out>>
  <2>1. ASSUME NEW w \in Workers PROVE BusyOk(w)'
    <3>1. CASE w # t
      BY <1>1, <1>4, <1>7, <3>1, BusyKept
    <3>2. CASE w = t
      BY <1>1, <1>4, <1>7, <3>2 DEF Routed, BusyOk, FromLan
    <3> QED BY <3>1, <3>2
  <2>2. pc'[Rx] = pc[Rx]
    BY <1>1, <1>4, <1>7
  <2> QED BY <1>5, <1>7, <2>1, <2>2 DEF Routed, MidOk, OutOk
<1>8. CASE /\ t \in Workers /\ ~FromLan(t) /\ mid' = mid /\ outRing' = [outRing EXCEPT ![t] = r.slot]
           /\ out' = [out EXCEPT ![r.slot] = Append(@, j)]
  <2>1. OutOk(table, out')
    BY <1>1, <1>2, <1>3, <1>5, <1>8, OutPush
  <2>2. ASSUME NEW w \in Workers PROVE BusyOk(w)'
    <3>1. CASE w # t
      BY <1>1, <1>4, <1>8, <3>1, BusyKept
    <3>2. CASE w = t
      BY <1>1, <1>4, <1>8, <3>2 DEF BusyOk
    <3> QED BY <3>1, <3>2
  <2>3. pc'[Rx] = pc[Rx]
    BY <1>1, <1>4, <1>8
  <2> QED BY <1>5, <1>8, <2>1, <2>2, <2>3 DEF Routed, MidOk, OutOk
<1> QED BY <1>6, <1>7, <1>8, ReturnMoves DEF j, Sound, Base

LEMMA LookupRouted ==
  ASSUME Sound, Sound', EntriesKept, Returns, Routed, NEW t \in Threads, RouteStep(t)
  PROVE  Routed'
<1>1. ReturnsAt(t)
  BY DEF Returns
<1>2. CASE Scan(t)
  <2>1. CASE Hits(Key(t)) = {}
    <3>1. pc[t] = "scan" /\ pc' = [pc EXCEPT ![t] = "lock"] /\ UNCHANGED <<job, outRing, mid, out>>
      BY <1>2, <2>1 DEF Scan
    <3> QED BY <3>1, QuietRouted
  <2>2. CASE Hits(Key(t)) # {}
    <3>1. Min(Hits(Key(t))) \in Ways
      BY <2>2, HitIs DEF Hits
    <3>2. RouteOf(Min(Hits(Key(t)))) \in Routes
      BY <3>1, RouteTypes DEF Sound, Base, TypeOK
    <3>3. RouteOf(Min(Hits(Key(t)))) = RouteIn(table, Key(t)) /\ SettledIn(table, Key(t))
      BY <2>2 DEF RouteIn, SettledIn, HitsIn, Hits, RouteOf
    <3>4. pc[t] = "scan" /\ table' = table /\ job' = job /\ Return(t, RouteOf(Min(Hits(Key(t)))))
      BY <1>2, <2>2 DEF Scan, shared
    <3> QED BY <3>2, <3>3, <3>4, ReturnRouted
  <2> QED BY <2>1, <2>2
<1>3. CASE InsertLock(t)
  BY <1>3, QuietRouted DEF InsertLock
<1>4. CASE Rescan(t)
  BY <1>4, QuietRouted DEF Rescan
<1>5. CASE WriteKey(t)
  BY <1>5, QuietRouted DEF WriteKey
<1>6. CASE WriteFields(t)
  BY <1>6, QuietRouted DEF WriteFields
<1>7. CASE PublishEntry(t)
  BY <1>7, QuietRouted DEF PublishEntry
<1>8. CASE InsertUnlock(t)
  <2>1. route[t] \in Routes /\ pc[t] = "unlock" /\ table' = table /\ job' = job /\ Return(t, route[t])
    BY <1>8 DEF InsertUnlock, Sound, Base, TypeOK, ThreadTypes
  <2> QED BY <1>1, <2>1, ReturnRouted DEF ReturnsAt
<1> QED BY <1>2, <1>3, <1>4, <1>5, <1>6, <1>7, <1>8 DEF RouteStep

\* A step of one worker or of the RX thread: what to show of the others.
LEMMA OneBusy ==
  ASSUME Sound, Sound', EntriesKept, Routed, NEW t \in Threads, NEW l, pc' = [pc EXCEPT ![t] = l],
         \A u \in Threads : u # t => job'[u] = job[u],
         \A w \in Workers : w # t => outRing'[w] = outRing[w],
         t \in Workers => BusyOk(t)',
         t = Rx => (pc'[Rx] # "idle" => job'[Rx].p \in Packets)
  PROVE  /\ \A w \in Workers : BusyOk(w)'
         /\ pc'[Rx] # "idle" => job'[Rx].p \in Packets
<1>1. pc \in [Threads -> Places] /\ Workers \subseteq Threads /\ Rx \in Threads
  BY DEF Sound, Base, TypeOK, ThreadTypes, Threads
<1>2. ASSUME NEW w \in Workers, w # t PROVE BusyOk(w)'
  BY <1>1, <1>2, BusyKept
<1>3. t # Rx => pc'[Rx] = pc[Rx] /\ job'[Rx] = job[Rx]
  BY <1>1
<1> QED BY <1>2, <1>3 DEF Routed

LEMMA RxTakesRouted ==
  ASSUME Sound, Sound', EntriesKept, Returns, Routed, NEW p \in Packets, RxTakes(p)
  PROVE  Returns' /\ Routed'
<1> DEFINE j == NewJob(p, arrived', 0)
           i == [j EXCEPT !.slot = HashRoute(p).slot]
<1>1. /\ pc \in [Threads -> Places] /\ job = [t \in Threads |-> job[t]] /\ Rx \in Threads /\ Rx \notin Workers
      /\ mid \in [Workers -> Seq(Jobs)] /\ route \in [Threads -> Routes]
  BY Sizes DEF Sound, Base, TypeOK, ThreadTypes, RingTypes, Threads
<1>2. /\ job' = [job EXCEPT ![Rx] = j] /\ UNCHANGED <<table, outRing, out>>
      /\ HashRoute(p) \in Routes /\ j.p = p /\ p \in Tuples
  BY HashesAre DEF RxTakes, shared, Tuples, NewJob
<1>3. i \in Jobs /\ i.p = p /\ i.slot = HashRoute(p).slot
  <2>1. arrived' \in Nat /\ HashRoute(p).slot \in Slots
    BY <1>2 DEF Sound, Routes
  <2>2. i = [p |-> p, n |-> arrived', slot |-> HashRoute(p).slot, seq |-> -1]
    BY DEF NewJob
  <2> HIDE DEF i
  <2> QED BY <1>2, <2>1, <2>2 DEF Jobs
<1> HIDE DEF j, i
<1>4. job'[Rx] = j /\ \A u \in Threads : u # Rx => job'[u] = job[u]
  BY <1>1, <1>2
<1>5. MidOk(table', mid) /\ OutOk(table', out)
  BY RingsKept
<1>6. CASE HasKey(p) /\ route' = [route EXCEPT ![Rx] = HashRoute(KeyOf(p))] /\ mid' = mid
           /\ pc' = [pc EXCEPT ![Rx] = "scan"]
  <2>1. \A u \in Threads : u # Rx => route'[u] = route[u]
    BY <1>1, <1>6
  <2>2. route'[Rx] = HashRoute(KeyOf(p))
    BY <1>1, <1>6
  <2>3. Returns'
    BY <1>1, <1>2, <1>4, <1>6, <2>1, <2>2, PacketReturns
  <2>4. (\A w \in Workers : BusyOk(w)') /\ (pc'[Rx] # "idle" => job'[Rx].p \in Packets)
    BY <1>1, <1>2, <1>4, <1>6, OneBusy
  <2> QED BY <1>2, <1>5, <1>6, <2>3, <2>4 DEF Routed, MidOk, OutOk
<1>7. CASE /\ ~HasKey(p) /\ mid' = [mid EXCEPT ![HashRoute(p).worker] = Append(@, i)]
           /\ pc' = [pc EXCEPT ![Rx] = "idle"] /\ route' = route
  <2>1. Returns'
    BY <1>1, <1>4, <1>7, PacketReturns
  <2>2. (\A w \in Workers : BusyOk(w)') /\ (pc'[Rx] # "idle" => job'[Rx].p \in Packets)
    BY <1>1, <1>2, <1>4, <1>7, OneBusy
  <2>3. OnRoute(table', i.p, i.slot) /\ OnWorker(table', i.p, HashRoute(p).worker) /\ HashRoute(p).worker \in Workers
    BY <1>2, <1>3, <1>7 DEF OnRoute, OnWorker, Routes
  <2>4. MidOk(table', mid')
    BY <1>1, <1>3, <1>5, <1>7, <2>3, MidPush
  <2> QED BY <1>2, <1>5, <2>1, <2>2, <2>4 DEF Routed, MidOk, OutOk
<1> QED BY <1>6, <1>7 DEF RxTakes, HandOver, i, j

LEMMA TakeLocalRouted ==
  ASSUME Sound, Sound', EntriesKept, Returns, Routed, NEW w \in Workers, TakeLocal(w)
  PROVE  Returns' /\ Routed'
<1> DEFINE j == Head(mid[w])
<1>1. /\ pc \in [Threads -> Places] /\ job = [t \in Threads |-> job[t]] /\ w \in Threads /\ w # Rx
      /\ mid \in [Workers -> Seq(Jobs)] /\ out \in [Slots -> Seq(Jobs)] /\ outRing \in [Workers -> Slots]
  BY Sizes DEF Sound, Base, TypeOK, ThreadTypes, RingTypes, Threads
<1>2. mid[w] # <<>> /\ mid' = [mid EXCEPT ![w] = Tail(@)] /\ UNCHANGED <<table, route>>
  BY DEF TakeLocal, shared
<1>3. MidOk(table', mid) /\ OutOk(table', out)
  BY RingsKept
<1>4. MidOk(table', mid') /\ j.p \in Packets /\ OnRoute(table', j.p, j.slot) /\ OnWorker(table', j.p, w)
  BY <1>1, <1>2, <1>3, MidPop
<1>5. j \in Jobs /\ j.slot \in Slots /\ RingFor(w, j) = j.slot
  <2>1. j \in Jobs
    BY <1>1, <1>2, PopAt
  <2> QED BY <2>1 DEF Jobs, RingFor, Bind
<1>6. job' = [job EXCEPT ![w] = j] /\ outRing' = [outRing EXCEPT ![w] = j.slot]
  BY <1>5 DEF TakeLocal
<1> HIDE DEF j
<1>7. job'[w] = j /\ outRing'[w] = j.slot /\ (\A u \in Threads : u # w => job'[u] = job[u])
      /\ \A u \in Workers : u # w => outRing'[u] = outRing[u]
  BY <1>1, <1>6
<1>8. BusyOk(w)'
  BY <1>4, <1>7 DEF BusyOk
<1>9. CASE j.p.proto = Udp /\ pc' = [pc EXCEPT ![w] = "seq"] /\ out' = out
  <2>0. HasKey(job'[w].p)
    BY <1>7, <1>9 DEF HasKey
  <2>1. Returns'
    BY <1>1, <1>2, <1>7, <1>9, <2>0, PacketReturns
  <2>2. (\A v \in Workers : BusyOk(v)') /\ (pc'[Rx] # "idle" => job'[Rx].p \in Packets)
    BY <1>1, <1>7, <1>8, <1>9, OneBusy
  <2> QED BY <1>3, <1>4, <1>9, <2>1, <2>2 DEF Routed, MidOk, OutOk
<1>10. CASE pc' = [pc EXCEPT ![w] = "idle"] /\ out' = [out EXCEPT ![j.slot] = Append(@, j)]
  <2>1. Returns'
    BY <1>1, <1>2, <1>7, <1>10, PacketReturns
  <2>2. (\A v \in Workers : BusyOk(v)') /\ (pc'[Rx] # "idle" => job'[Rx].p \in Packets)
    BY <1>1, <1>7, <1>8, <1>10, OneBusy
  <2>3. OutOk(table', out')
    BY <1>1, <1>3, <1>4, <1>5, <1>10, OutPush
  <2> QED BY <1>4, <2>1, <2>2, <2>3 DEF Routed, MidOk, OutOk
<1> QED BY <1>5, <1>9, <1>10 DEF TakeLocal, Push, j

LEMMA TakeWanRouted ==
  ASSUME Sound, Sound', EntriesKept, Returns, Routed, NEW w \in Workers, NEW p \in Packets, TakeWan(w, p)
  PROVE  Returns' /\ Routed'
<1> DEFINE q == Reverse(p)
           j == NewJob(q, arrived', HashRoute(q).slot)
<1>1. /\ pc \in [Threads -> Places] /\ job = [t \in Threads |-> job[t]] /\ w \in Threads /\ w # Rx
      /\ out \in [Slots -> Seq(Jobs)] /\ outRing \in [Workers -> Slots] /\ route \in [Threads -> Routes]
  BY Sizes DEF Sound, Base, TypeOK, ThreadTypes, RingTypes, Threads
<1>2. q \in Tuples /\ q \notin Packets /\ HashRoute(q) \in Routes /\ j.p = q /\ j.slot = HashRoute(q).slot
  BY HashesAre, TuplesAre DEF Tuples, Wan, NewJob
<1>3. j \in Jobs /\ j.slot \in Slots /\ Bind(j.slot) = j.slot
  <2>1. arrived' \in Nat /\ HashRoute(q).slot \in Slots
    BY <1>2 DEF Sound, Routes
  <2> HIDE DEF q
  <2> QED BY <1>2, <2>1 DEF Jobs, Bind, NewJob
<1>4. job' = [job EXCEPT ![w] = j] /\ UNCHANGED <<table, mid>>
  BY DEF TakeWan, shared
<1> HIDE DEF j, q
<1>5. job'[w] = j /\ (\A u \in Threads : u # w => job'[u] = job[u])
  BY <1>1, <1>4
<1>6. MidOk(table', mid) /\ OutOk(table', out)
  BY RingsKept
<1>7. CASE HasKey(q) /\ route' = [route EXCEPT ![w] = HashRoute(KeyOf(q))] /\ UNCHANGED <<outRing, out>>
           /\ pc' = [pc EXCEPT ![w] = "scan"]
  <2>1. route'[w] = HashRoute(KeyOf(q)) /\ (\A u \in Threads : u # w => route'[u] = route[u]) /\ pc'[w] = "scan"
    BY <1>1, <1>7
  <2>2. Returns'
    BY <1>1, <1>2, <1>5, <1>7, <2>1, PacketReturns
  <2>3. BusyOk(w)'
    BY <1>2, <1>5, <2>1 DEF BusyOk
  <2>4. (\A v \in Workers : BusyOk(v)') /\ (pc'[Rx] # "idle" => job'[Rx].p \in Packets)
    BY <1>1, <1>5, <1>7, <2>3, OneBusy
  <2> QED BY <1>4, <1>6, <1>7, <2>2, <2>4 DEF Routed, MidOk, OutOk
<1>8. CASE /\ ~HasKey(q) /\ outRing' = [outRing EXCEPT ![w] = j.slot]
           /\ out' = [out EXCEPT ![j.slot] = Append(@, j)] /\ pc' = [pc EXCEPT ![w] = "idle"] /\ route' = route
  <2>1. pc'[w] = "idle" /\ \A v \in Workers : v # w => outRing'[v] = outRing[v]
    BY <1>1, <1>8
  <2>2. Returns'
    BY <1>1, <1>5, <1>8, PacketReturns
  <2>3. BusyOk(w)'
    BY <2>1 DEF BusyOk
  <2>4. (\A v \in Workers : BusyOk(v)') /\ (pc'[Rx] # "idle" => job'[Rx].p \in Packets)
    BY <1>1, <1>5, <1>8, <2>1, <2>3, OneBusy
  <2>5. OnRoute(table', j.p, j.slot)
    BY <1>2, <1>8 DEF OnRoute
  <2>6. OutOk(table', out')
    BY <1>1, <1>3, <1>6, <1>8, <2>5, OutPush
  <2> QED BY <1>4, <1>6, <2>2, <2>4, <2>6 DEF Routed, MidOk, OutOk
<1> QED BY <1>3, <1>7, <1>8 DEF TakeWan, Push, j, q

\* A LAN packet leaves its worker, with a sequence number.
LEMMA NumberedRouted ==
  ASSUME Sound, Sound', EntriesKept, Returns, Routed, NEW w \in Workers, pc[w] \in {"seq", "seq_retry"},
         NEW n \in Int, Push(w, outRing[w], [job[w] EXCEPT !.seq = n]), UNCHANGED <<job, route, outRing, mid>>
  PROVE  Returns' /\ Routed'
<1> DEFINE j == [job[w] EXCEPT !.seq = n]
<1>1. /\ pc \in [Threads -> Places] /\ w \in Threads /\ w # Rx /\ job[w] \in Jobs
      /\ out \in [Slots -> Seq(Jobs)] /\ outRing \in [Workers -> Slots] /\ outRing[w] \in Slots
  BY Sizes DEF Sound, Base, TypeOK, ThreadTypes, RingTypes, Threads
<1>2. OnRoute(table, job[w].p, job[w].slot) /\ outRing[w] = job[w].slot
  BY DEF Routed, BusyOk
<1>3. j \in Jobs /\ j.p = job[w].p /\ j.slot = outRing[w]
  BY <1>1, <1>2 DEF Jobs
<1>4. pc' = [pc EXCEPT ![w] = "idle"] /\ out' = [out EXCEPT ![outRing[w]] = Append(@, j)]
  BY DEF Push
<1> HIDE DEF j
<1>5. OnRoute(table', j.p, outRing[w])
  BY <1>2, <1>3, RoutesKept DEF Sound, Base
<1>6. MidOk(table', mid) /\ OutOk(table', out)
  BY RingsKept
<1>7. OutOk(table', out')
  BY <1>1, <1>3, <1>4, <1>5, <1>6, OutPush
<1>8. Returns'
  BY <1>1, <1>4, PacketReturns
<1>9. BusyOk(w)'
  BY <1>1, <1>4 DEF BusyOk
<1>10. (\A v \in Workers : BusyOk(v)') /\ (pc'[Rx] # "idle" => job'[Rx].p \in Packets)
  BY <1>1, <1>4, <1>9, OneBusy
<1> QED BY <1>6, <1>7, <1>8, <1>10 DEF Routed, MidOk, OutOk

LEMMA FallbackNumber ==
  ASSUME SeqTypes, NEW w \in Workers
  PROVE  LET i == IF Mine(w) # {} THEN Min(Mine(w)) ELSE Victim(w)
             next == IF Mine(w) # {} THEN fallback[w][i].next ELSE EmptyFallback.next
         IN  next[Dir(w)] \in Int
<1> DEFINE i == IF Mine(w) # {} THEN Min(Mine(w)) ELSE Victim(w)
           next == IF Mine(w) # {} THEN fallback[w][i].next ELSE EmptyFallback.next
<1>1. next \in [0 .. 1 -> Nat]
  <2>1. CASE Mine(w) # {}
    <3>1. Min(Mine(w)) \in Mine(w)
      BY <2>1, MinIn, RouteAssumption, SetsAre DEF Mine
    <3>2. i \in FallbackWays
      BY <2>1, <3>1, SetsAre DEF Mine
    <3> HIDE DEF i
    <3> QED BY <2>1, <3>2 DEF SeqTypes, Fallbacks
  <2>2. CASE Mine(w) = {}
    BY <2>2 DEF EmptyFallback
  <2> QED BY <2>1, <2>2
<1> HIDE DEF next
<1>2. next[Dir(w)] \in Int
  BY <1>1 DEF Dir, Direction
<1> QED BY <1>2 DEF next

LEMMA SeqRouted ==
  ASSUME Sound, Sound', EntriesKept, Returns, Routed, NEW w \in Workers, SeqLookup(w) \/ SeqRetry(w)
  PROVE  Returns' /\ Routed'
<1>1. CASE Hits(Key(w)) # {}
  <2> DEFINE i == Min(Hits(Key(w)))
             n == table[i].seq[Dir(w)]
  <2>1. i \in Ways
    BY <1>1, HitIs DEF Hits
  <2>2. n \in Int
    <3>1. table[i] \in Entries /\ Dir(w) \in 0 .. 1
      BY <2>1 DEF Sound, Base, TypeOK, TableTypes, Dir, Direction
    <3> QED BY <3>1 DEF Entries
  <2>3. pc[w] \in {"seq", "seq_retry"} /\ Push(w, outRing[w], [job[w] EXCEPT !.seq = n])
        /\ UNCHANGED <<job, route, outRing, mid>>
    BY <1>1 DEF SeqLookup, SeqRetry, SeqOfEntry
  <2> HIDE DEF n
  <2> QED BY <2>2, <2>3, NumberedRouted
<1>2. CASE Hits(Key(w)) = {} /\ SeqLookup(w)
  <2>1. /\ pc[w] = "seq" /\ pc' = [pc EXCEPT ![w] = "scan"] /\ UNCHANGED <<job, outRing, mid, out, table>>
        /\ route' = [route EXCEPT ![w] = HashRoute(Key(w))] /\ w \in Threads
    BY <1>2 DEF SeqLookup, Threads
  <2>2. job[w].p \in Packets /\ route'[w] = HashRoute(KeyOf(job'[w].p))
        /\ \A u \in Threads : u # w => route'[u] = route[u]
    BY <2>1 DEF Sound, Base, TypeOK, ThreadTypes, Routed, BusyOk, Key
  <2>3. HasKey(job'[w].p)
    BY <2>1 DEF Returns, ReturnsAt
  <2>4. Returns'
    BY <2>1, <2>2, <2>3, PacketReturns
  <2>5. Routed'
    BY <2>1, QuietRouted
  <2> QED BY <2>4, <2>5
<1>3. CASE Hits(Key(w)) = {} /\ SeqRetry(w)
  <2> DEFINE i == IF Mine(w) # {} THEN Min(Mine(w)) ELSE Victim(w)
             next == IF Mine(w) # {} THEN fallback[w][i].next ELSE EmptyFallback.next
  <2>1. next[Dir(w)] \in Int
    BY FallbackNumber DEF Sound
  <2>2. pc[w] = "seq_retry" /\ Push(w, outRing[w], [job[w] EXCEPT !.seq = next[Dir(w)]])
        /\ UNCHANGED <<job, route, outRing, mid>>
    BY <1>3 DEF SeqRetry
  <2> HIDE DEF next
  <2> QED BY <2>1, <2>2, NumberedRouted
<1> QED BY <1>1, <1>2, <1>3

LEMMA RouteStepInv ==
  ASSUME RouteInv, arrived \in Nat, Next
  PROVE  RouteInv' /\ arrived' \in Nat
<1>1. Sound /\ Returns /\ Routed
  BY DEF RouteInv, Sound, Base
<1>2. Sound' /\ EntriesKept
  BY <1>1, SoundStep
<1>3. Returns' /\ Routed'
  <2>1. ASSUME NEW t \in Threads, RouteStep(t) PROVE Returns' /\ Routed'
    BY <1>1, <1>2, <2>1, LookupReturns, LookupRouted
  <2>2. ASSUME NEW p \in Packets, RxTakes(p) PROVE Returns' /\ Routed'
    BY <1>1, <1>2, <2>2, RxTakesRouted
  <2>3. ASSUME NEW w \in Workers, TakeLocal(w) PROVE Returns' /\ Routed'
    BY <1>1, <1>2, <2>3, TakeLocalRouted
  <2>4. ASSUME NEW w \in Workers, SeqLookup(w) \/ SeqRetry(w) PROVE Returns' /\ Routed'
    BY <1>1, <1>2, <2>4, SeqRouted
  <2>5. ASSUME NEW w \in Workers, NEW p \in Packets, TakeWan(w, p) PROVE Returns' /\ Routed'
    BY <1>1, <1>2, <2>5, TakeWanRouted
  <2> QED BY <2>1, <2>2, <2>3, <2>4, <2>5 DEF Next
<1> QED BY <1>2, <1>3 DEF RouteInv, Sound, Base

LEMMA RouteInit == Init => RouteInv /\ arrived \in Nat
<1> SUFFICES ASSUME Init PROVE RouteInv /\ arrived \in Nat
  OBVIOUS
<1>1. Base
  BY InitBase
<1>2. SeqTypes /\ arrived \in Nat
  <2>1. EmptyFallback \in Fallbacks
    BY DEF EmptyFallback, Fallbacks
  <2> QED BY <2>1 DEF Init, SeqTypes
<1>3. Returns
  BY DEF Init, Returns, ReturnsAt
<1>4. Routed
  <2>1. \A t \in Threads : pc[t] = "idle"
    BY DEF Init
  <2>2. MidOk(table, mid) /\ OutOk(table, out)
    BY DEF Init, MidOk, OutOk
  <2> QED BY <2>1, <2>2 DEF Routed, BusyOk, Threads
<1> QED BY <1>1, <1>2, <1>3, <1>4 DEF RouteInv, Base

LEMMA RouteStutter ==
  ASSUME RouteInv, UNCHANGED vars
  PROVE  RouteInv'
<1> USE DEF RouteInv, vars, shared
<1>1. TypeOK' /\ SeqTypes'
  BY DEF TypeOK, TableTypes, ThreadTypes, RingTypes, SeqTypes
<1>2. Exclusive' /\ OneWayPerKey'
  BY DEF Exclusive, OneWayPerKey
<1>3. WayInHand'
  BY DEF WayInHand, Hits, Key, RouteOf
<1>4. Returns'
  BY DEF Returns, ReturnsAt, Key
<1>5. Routed'
  BY DEF Routed, BusyOk, MidOk, OutOk
<1> QED BY <1>1, <1>2, <1>3, <1>4, <1>5

\* Routes are types, lock, table and threads as RouteInv says, at all times.
THEOREM RoutesHold == Spec => [](RouteInv /\ arrived \in Nat)
<1>1. Init => RouteInv /\ arrived \in Nat
  BY RouteInit
<1>2. RouteInv /\ arrived \in Nat /\ [Next \/ (Done /\ UNCHANGED vars)]_vars => (RouteInv /\ arrived \in Nat)'
  <2> SUFFICES ASSUME RouteInv, arrived \in Nat, [Next \/ (Done /\ UNCHANGED vars)]_vars
               PROVE  RouteInv' /\ arrived' \in Nat
    OBVIOUS
  <2>1. CASE Next
    BY <2>1, RouteStepInv
  <2>2. CASE UNCHANGED vars
    BY <2>2, RouteStutter DEF vars
  <2> QED BY <2>1, <2>2
<1> QED BY <1>1, <1>2, PTL DEF Spec

\* The two directions of a flow have one slot.
LEMMA OneSlot ==
  ASSUME NEW T, NEW p \in Tuples, NEW q \in Tuples, p \in {q, Reverse(q)},
         NEW s, NEW r, OnRoute(T, p, s), OnRoute(T, q, r)
  PROVE  s = r
<1>1. (HasKey(p) <=> HasKey(q)) /\ KeyOf(p) = KeyOf(q)
  BY SameKey, OneKey, TuplesAre DEF Tuples, Wan
<1>2. ~HasKey(p) => HashOf(p) = HashOf(q)
  BY <1>1, HashAssumption, TuplesAre DEF Tuples, Wan
<1> QED BY <1>1, <1>2 DEF OnRoute, HashRoute

LEMMA RoutedIsSticky == RouteInv => Sticky
<1> SUFFICES ASSUME RouteInv PROVE Sticky
  OBVIOUS
<1> DEFINE seen == (UNION {Given(w) : w \in Workers}) \cup (UNION {Gone(s) : s \in Slots})
<1>0. MidOk(table, mid) /\ OutOk(table, out) /\ mid \in [Workers -> Seq(Jobs)] /\ out \in [Slots -> Seq(Jobs)]
  BY DEF RouteInv, Routed, TypeOK, RingTypes
<1>1. ASSUME NEW w \in Workers, NEW x \in Given(w)
      PROVE  x \in Jobs /\ x.p \in Tuples /\ OnRoute(table, x.p, x.slot) /\ OnWorker(table, x.p, w)
  <2>1. PICK i \in DOMAIN mid[w] : x = mid[w][i]
    BY <1>1 DEF Given
  <2>2. i \in 1 .. Len(mid[w]) /\ mid[w][i] \in Jobs
    BY <1>0
  <2> QED BY <1>0, <2>1, <2>2 DEF MidOk, Jobs
<1>2. ASSUME NEW s \in Slots, NEW x \in Gone(s)
      PROVE  x \in Jobs /\ x.p \in Tuples /\ OnRoute(table, x.p, x.slot)
  <2>1. PICK i \in DOMAIN out[s] : x = out[s][i]
    BY <1>2 DEF Gone
  <2>2. i \in 1 .. Len(out[s]) /\ out[s][i] \in Jobs
    BY <1>0
  <2> QED BY <1>0, <2>1, <2>2 DEF OutOk, Jobs
<1>3. ASSUME NEW x \in seen PROVE x.p \in Tuples /\ OnRoute(table, x.p, x.slot)
  <2>1. (\E w \in Workers : x \in Given(w)) \/ \E s \in Slots : x \in Gone(s)
    BY <1>3
  <2> QED BY <1>1, <1>2, <2>1
<1> HIDE DEF seen
<1>4. ASSUME NEW x \in seen, NEW y \in seen, x.p \in {y.p, Reverse(y.p)} PROVE x.slot = y.slot
  BY <1>3, <1>4, OneSlot
<1>5. ASSUME NEW v \in Workers, NEW w \in Workers, NEW x \in Given(v), NEW y \in Given(w), x.p = y.p
      PROVE  v = w
  BY <1>1, <1>5 DEF OnWorker
<1> QED BY <1>4, <1>5 DEF Sticky, seen

\* A flow keeps its TX slot in both directions and its crypto worker: every lookup
\* of dp_flow_route_get_key, by any thread, before, during or after the insertion,
\* returns one route, for any number of workers, slots, ways and flows.
THEOREM FlowsAreSticky == Spec => []Sticky
<1>1. RouteInv /\ arrived \in Nat => Sticky
  BY RoutedIsSticky
<1> QED BY <1>1, RoutesHold, PTL

-----------------------------------------------------------------------------
(* Order: what each way of moving a packet does to it.                     *)

Flight(m, o, B, J, a) ==
  /\ m \in [Workers -> Seq(Jobs)] /\ o \in [Slots -> Seq(Jobs)] /\ B \in SUBSET Threads /\ a \in Nat
  /\ \A t \in B : J[t] \in Jobs

\* Numbers are numbers.
LEMMA FlightNumbers ==
  ASSUME NEW m, NEW o, NEW B, NEW J, NEW a, Flight(m, o, B, J, a)
  PROVE  /\ \A t \in B : J[t].n \in Nat
         /\ \A w \in Workers : Len(m[w]) \in Nat /\ \A i \in 1 .. Len(m[w]) : m[w][i].n \in Nat
         /\ \A s \in Slots : Len(o[s]) \in Nat /\ \A i \in 1 .. Len(o[s]) : o[s][i].n \in Nat
<1>1. \A t \in B : J[t].n \in Nat
  BY DEF Flight, Jobs
<1>2. ASSUME NEW S, NEW f \in [S -> Seq(Jobs)], NEW x \in S
      PROVE  Len(f[x]) \in Nat /\ \A i \in 1 .. Len(f[x]) : f[x][i].n \in Nat
  <2>1. f[x] \in Seq(Jobs)
    BY <1>2
  <2>2. Len(f[x]) \in Nat /\ \A i \in 1 .. Len(f[x]) : f[x][i] \in Jobs
    BY <2>1
  <2> QED BY <2>2 DEF Jobs
<1> QED BY <1>1, <1>2 DEF Flight

\* The RX thread takes the next packet.
LEMMA RxEnters ==
  ASSUME NEW m, NEW o, NEW B, NEW J, NEW a, Flight(m, o, B, J, a), Ordered(m, o, B, J, a), Rx \notin B,
         NEW K, \A t \in Threads : t # Rx => K[t] = J[t], K[Rx].n = a + 1
  PROVE  Ordered(m, o, B \cup {Rx}, K, a + 1)
<1> DEFINE C == B \cup {Rx}
<1>1. a \in Nat /\ (\A t \in C : t # Rx => t \in B /\ K[t] = J[t]) /\ Rx \notin Workers
      /\ (\A w \in Workers : w # Rx /\ (w \in C <=> w \in B))
  BY Sizes DEF Flight
<1>0. \A w \in Workers : K[w] = J[w]
  BY Sizes DEF Threads
<1> HIDE DEF C
<1> USE FlightNumbers
<1>2. Numbered(m, o, C, K, a + 1)
  BY <1>1 DEF Ordered, Numbered
<1>3. RxLast(m, o, C, K)
  BY <1>0, <1>1 DEF Ordered, Numbered, RxLast
<1>4. MidInOrder(m, C, K) /\ OneWorkerPerAnswer(C, K) /\ OutFirst(m, o, C, K)
  BY <1>0, <1>1 DEF Ordered, MidInOrder, OneWorkerPerAnswer, OutFirst
<1> QED BY <1>2, <1>3, <1>4 DEF Ordered, C

\* A worker takes an answer.
LEMMA WanEnters ==
  ASSUME NEW m, NEW o, NEW B, NEW J, NEW a, Flight(m, o, B, J, a), Ordered(m, o, B, J, a),
         NEW w \in Workers, w \notin B, NEW p \in Packets, PeerWorker[p] = w,
         NEW K, \A t \in Threads : t # w => K[t] = J[t], K[w].n = a + 1, K[w].p = Reverse(p)
  PROVE  Ordered(m, o, B \cup {w}, K, a + 1)
<1> DEFINE C == B \cup {w}
<1>1. a \in Nat /\ w # Rx /\ (Rx \in C <=> Rx \in B) /\ K[Rx] = J[Rx] /\ w \in C
      /\ (\A t \in C : t # w => t \in B /\ K[t] = J[t]) /\ K[w].p \notin Packets
      /\ \A q \in Packets : K[w].p = Reverse(q) => q = p
  BY Sizes, TuplesAre DEF Flight, Threads
<1> HIDE DEF C
<1> USE FlightNumbers
<1>2. Numbered(m, o, C, K, a + 1)
  BY <1>1 DEF Ordered, Numbered
<1>3. RxLast(m, o, C, K)
  BY <1>1 DEF Ordered, Numbered, RxLast
<1>4. MidInOrder(m, C, K)
  BY <1>1 DEF Ordered, MidInOrder
<1>5. OutFirst(m, o, C, K)
  BY <1>1, SMTT(40) DEF Ordered, Numbered, OutFirst
<1>6. OneWorkerPerAnswer(C, K)
  BY <1>1 DEF Ordered, OneWorkerPerAnswer
<1> QED BY <1>2, <1>3, <1>4, <1>5, <1>6 DEF Ordered, C

\* The RX thread hands its packet to worker w.
LEMMA RxHandsOver ==
  ASSUME NEW m, NEW o, NEW B, NEW J, NEW a, Flight(m, o, B, J, a), Ordered(m, o, B, J, a),
         Rx \in B, J[Rx].p \in Packets, NEW w \in Workers, NEW j \in Jobs, j.p = J[Rx].p, j.n = J[Rx].n,
         NEW g, g = [m EXCEPT ![w] = Append(@, j)]
  PROVE  Ordered(g, o, B \ {Rx}, J, a)
<1> DEFINE C == B \ {Rx}
<1>1. (\A t \in C : t \in B) /\ Rx \notin C
  OBVIOUS
<1>2. /\ \A v \in Workers : v # w => g[v] = m[v]
      /\ Len(m[w]) \in Nat /\ Len(g[w]) = Len(m[w]) + 1 /\ g[w][Len(g[w])] = j
      /\ \A i \in 1 .. Len(m[w]) : g[w][i] = m[w][i]
  BY PushAt DEF Flight
<1>4. \A v \in Workers : \A i \in 1 .. Len(g[v]) :
        (i \in 1 .. Len(m[v]) /\ g[v][i] = m[v][i]) \/ (v = w /\ g[v][i] = j /\ i = Len(g[w]))
  <2>1. m \in [Workers -> Seq(Jobs)]
    BY DEF Flight
  <2> QED BY <2>1, PushSplit
<1>3. \A i \in 1 .. Len(g[w]) : i \in 1 .. Len(m[w]) \/ (g[w][i] = j /\ i = Len(g[w]))
  BY <1>4, Zenon
<1> HIDE DEF C
<1> USE FlightNumbers
<1>5. j.n \in Nat /\ j.n <= a /\ a \in Nat
  BY DEF Jobs, Ordered, Numbered, Flight
<1>6. Numbered(g, o, C, J, a)
  BY <1>1, <1>4, <1>5 DEF Ordered, Numbered
<1>7. RxLast(g, o, C, J)
  BY <1>1 DEF RxLast
<1>8. MidInOrder(g, C, J)
  <2>1. ASSUME NEW v \in Workers, NEW i \in 1 .. Len(g[v]), NEW k \in 1 .. Len(g[v]), i < k
        PROVE  g[v][i].n < g[v][k].n
    <3>1. CASE v # w
      BY <1>2, <2>1, <3>1 DEF Ordered, MidInOrder
    <3>2. CASE v = w
      <4>1. i \in 1 .. Len(m[w]) /\ g[w][i] = m[w][i]
        BY <1>2, <1>3, <2>1, <3>2
      <4>2. CASE k \in 1 .. Len(m[w])
        BY <1>2, <2>1, <3>2, <4>1, <4>2 DEF Ordered, MidInOrder
      <4>3. CASE g[w][k] = j
        BY <2>1, <3>2, <4>1, <4>3 DEF Ordered, RxLast
      <4> QED BY <1>3, <3>2, <4>2, <4>3
    <3> QED BY <3>1, <3>2
  <2>2. ASSUME NEW v \in Workers, v \in C, J[v].p \in Packets, NEW i \in 1 .. Len(g[v])
        PROVE  J[v].n < g[v][i].n
    <3>1. v \in B
      BY <1>1, <2>2
    <3>2. J[v].n < J[Rx].n
      BY <2>2, <3>1 DEF Ordered, RxLast
    <3>3. \A k \in 1 .. Len(m[v]) : J[v].n < m[v][k].n
      BY <2>2, <3>1 DEF Ordered, MidInOrder
    <3> QED BY <1>4, <2>2, <3>2, <3>3
  <2> QED BY <2>1, <2>2 DEF MidInOrder
<1>9. OutFirst(g, o, C, J)
  <2>1. ASSUME NEW s \in Slots, NEW k \in 1 .. Len(o[s]), NEW v \in Workers, NEW i \in 1 .. Len(g[v]),
               o[s][k].p = g[v][i].p
        PROVE  o[s][k].n < g[v][i].n
    <3>1. CASE g[v][i] = j
      BY <2>1, <3>1 DEF Ordered, RxLast
    <3>2. CASE i \in 1 .. Len(m[v]) /\ g[v][i] = m[v][i]
      BY <2>1, <3>2 DEF Ordered, OutFirst
    <3> QED BY <1>4, <3>1, <3>2
  <2> QED BY <1>1, <2>1 DEF Ordered, OutFirst
<1>10. OneWorkerPerAnswer(C, J)
  BY <1>1 DEF Ordered, OneWorkerPerAnswer
<1> QED BY <1>6, <1>7, <1>8, <1>9, <1>10 DEF Ordered, C

Popped(f, a, g) == g = [f EXCEPT ![a] = Tail(@)]

\* Worker w takes the oldest packet of its ring.
LEMMA WorkerPops ==
  ASSUME NEW m, NEW o, NEW B, NEW J, NEW a, Flight(m, o, B, J, a), Ordered(m, o, B, J, a),
         NEW w \in Workers, w \notin B, m[w] # <<>>, Head(m[w]).p \in Packets,
         NEW g, Popped(m, w, g),
         NEW K, \A t \in Threads : t # w => K[t] = J[t], K[w] = Head(m[w])
  PROVE  Ordered(g, o, B \cup {w}, K, a)
<1> DEFINE C == B \cup {w}
           j == m[w][1]
<1>1. w # Rx /\ (Rx \in C <=> Rx \in B) /\ K[Rx] = J[Rx] /\ w \in C
      /\ (\A t \in C : t # w => t \in B /\ K[t] = J[t])
  BY Sizes DEF Flight, Threads
<1>2. /\ \A v \in Workers : v # w => g[v] = m[v]
      /\ Len(g[w]) \in Nat /\ Len(m[w]) = Len(g[w]) + 1 /\ Head(m[w]) = j
      /\ \A i \in 1 .. Len(g[w]) : g[w][i] = m[w][i + 1]
  BY PopAt DEF Flight, Popped
<1>3. 1 \in 1 .. Len(m[w]) /\ (\A i \in 1 .. Len(g[w]) : i + 1 \in 1 .. Len(m[w]) /\ 1 < i + 1)
      /\ K[w] = m[w][1] /\ j.p \in Packets
  BY <1>2
<1>4. \A v \in Workers : \A i \in 1 .. Len(g[v]) :
        \/ (v # w /\ i \in 1 .. Len(m[v]) /\ g[v][i] = m[v][i])
        \/ (v = w /\ i + 1 \in 1 .. Len(m[w]) /\ g[v][i] = m[w][i + 1])
  <2>1. m \in [Workers -> Seq(Jobs)]
    BY DEF Flight
  <2> QED BY <2>1, PopSplit DEF Popped
<1>0. \A v \in Workers : \A i \in 1 .. Len(g[v]) : \E k \in 1 .. Len(m[v]) : g[v][i] = m[v][k]
  BY <1>4
<1> HIDE DEF C
<1> USE FlightNumbers
<1>5. Numbered(g, o, C, K, a)
  <2>1. \A v \in Workers : \A i \in 1 .. Len(m[v]) : m[v][i].n <= a
    BY DEF Ordered, Numbered
  <2>2. \A v \in Workers : \A i \in 1 .. Len(g[v]) : g[v][i].n <= a
    BY <1>0, <2>1
  <2>3. K[w].n <= a
    BY <1>3, <2>1
  <2> QED BY <1>1, <2>2, <2>3 DEF Ordered, Numbered
<1>6. RxLast(g, o, C, K)
  <2> SUFFICES ASSUME Rx \in B
               PROVE  /\ \A v \in Workers : \A i \in 1 .. Len(g[v]) : g[v][i].n < J[Rx].n
                      /\ \A v \in Workers : v \in C /\ K[v].p \in Packets => K[v].n < J[Rx].n
                      /\ \A s \in Slots : \A i \in 1 .. Len(o[s]) : o[s][i].p \in Packets => o[s][i].n < J[Rx].n
    BY <1>1 DEF RxLast
  <2>1. /\ \A v \in Workers : \A i \in 1 .. Len(m[v]) : m[v][i].n < J[Rx].n
        /\ \A v \in Workers : v \in B /\ J[v].p \in Packets => J[v].n < J[Rx].n
        /\ \A s \in Slots : \A i \in 1 .. Len(o[s]) : o[s][i].p \in Packets => o[s][i].n < J[Rx].n
    BY DEF Ordered, RxLast
  <2>2. \A v \in Workers : \A i \in 1 .. Len(g[v]) : g[v][i].n < J[Rx].n
    BY <1>0, <2>1
  <2>3. K[w].n < J[Rx].n
    BY <1>3, <2>1
  <2>4. \A v \in Workers : v \in C /\ K[v].p \in Packets => K[v].n < J[Rx].n
    BY <1>1, <2>1, <2>3
  <2> QED BY <2>1, <2>2, <2>4
<1>7. MidInOrder(g, C, K)
  <2>1. ASSUME NEW v \in Workers, NEW i \in 1 .. Len(g[v]), NEW k \in 1 .. Len(g[v]), i < k
        PROVE  g[v][i].n < g[v][k].n
    <3>1. CASE v # w
      BY <1>2, <2>1, <3>1 DEF Ordered, MidInOrder
    <3>2. CASE v = w
      <4>1. i + 1 \in 1 .. Len(m[w]) /\ k + 1 \in 1 .. Len(m[w]) /\ i + 1 < k + 1
        BY <1>3, <2>1, <3>2
      <4>2. m[w][i + 1].n < m[w][k + 1].n
        BY <4>1 DEF Ordered, MidInOrder
      <4> QED BY <1>2, <2>1, <3>2, <4>2
    <3> QED BY <3>1, <3>2
  <2>2. ASSUME NEW v \in Workers, v \in C, K[v].p \in Packets, NEW i \in 1 .. Len(g[v])
        PROVE  K[v].n < g[v][i].n
    <3>1. CASE v # w
      BY <1>1, <1>2, <2>2, <3>1 DEF Ordered, MidInOrder
    <3>2. CASE v = w
      <4>1. m[w][1].n < m[w][i + 1].n
        BY <1>3, <2>2, <3>2 DEF Ordered, MidInOrder
      <4> QED BY <1>2, <1>3, <2>2, <3>2, <4>1
    <3> QED BY <3>1, <3>2
  <2> QED BY <2>1, <2>2 DEF MidInOrder
<1>8. OutFirst(g, o, C, K)
  <2>1. ASSUME NEW s \in Slots, NEW k \in 1 .. Len(o[s]), NEW v \in Workers, NEW i \in 1 .. Len(g[v]),
               o[s][k].p = g[v][i].p
        PROVE  o[s][k].n < g[v][i].n
    <3>1. PICK l \in 1 .. Len(m[v]) : g[v][i] = m[v][l]
      BY <1>0, <2>1
    <3>2. o[s][k].p = m[v][l].p => o[s][k].n < m[v][l].n
      BY DEF Ordered, OutFirst
    <3> QED BY <2>1, <3>1, <3>2
  <2>2. ASSUME NEW s \in Slots, NEW k \in 1 .. Len(o[s]), NEW v \in Workers, v \in C, o[s][k].p = K[v].p
        PROVE  o[s][k].n < K[v].n
    <3>1. CASE v # w
      BY <1>1, <2>2, <3>1 DEF Ordered, OutFirst
    <3>2. CASE v = w
      BY <1>3, <2>2, <3>2 DEF Ordered, OutFirst
    <3> QED BY <3>1, <3>2
  <2> QED BY <2>1, <2>2 DEF OutFirst
<1>9. OneWorkerPerAnswer(C, K)
  <2>1. \A p \in Packets : K[w].p # Reverse(p)
    BY <1>3, TuplesAre
  <2> QED BY <1>1, <2>1 DEF Ordered, OneWorkerPerAnswer
<1> QED BY <1>5, <1>6, <1>7, <1>8, <1>9 DEF Ordered, C

\* Worker w pushes its packet: nobody else has one of the same flow in hand.
LEMMA WorkerPushes ==
  ASSUME NEW m, NEW o, NEW B, NEW J, NEW a, Flight(m, o, B, J, a), Ordered(m, o, B, J, a),
         NEW T, MidOk(T, m), \A v \in Workers : v \in B /\ J[v].p \in Packets => OnWorker(T, J[v].p, v),
         NEW w \in Workers, w \in B, NEW s \in Slots, NEW j \in Jobs, j.p = J[w].p, j.n = J[w].n,
         NEW g, g = [o EXCEPT ![s] = Append(@, j)]
  PROVE  Ordered(m, g, B \ {w}, J, a)
<1> DEFINE C == B \ {w}
<1>1. (\A t \in C : t \in B /\ t # w) /\ w \notin C
  OBVIOUS
<1>2. /\ \A x \in Slots : x # s => g[x] = o[x]
      /\ Len(o[s]) \in Nat /\ Len(g[s]) = Len(o[s]) + 1 /\ g[s][Len(g[s])] = j
      /\ \A i \in 1 .. Len(o[s]) : g[s][i] = o[s][i]
  BY PushAt DEF Flight
<1>4. \A x \in Slots : \A i \in 1 .. Len(g[x]) :
        (i \in 1 .. Len(o[x]) /\ g[x][i] = o[x][i]) \/ (x = s /\ g[x][i] = j /\ i = Len(g[s]))
  <2>1. o \in [Slots -> Seq(Jobs)]
    BY DEF Flight
  <2> QED BY <2>1, PushSplit
<1>3. \A i \in 1 .. Len(g[s]) : i \in 1 .. Len(o[s]) \/ (g[s][i] = j /\ i = Len(g[s]))
  BY <1>4, Zenon
<1>5. \A v \in Workers : v \in C => J[v].p # j.p
  <2> SUFFICES ASSUME NEW v \in Workers, v \in C, J[v].p = j.p PROVE FALSE
    OBVIOUS
  <2>1. v \in B /\ v # w
    BY <1>1
  <2>2. CASE j.p \in Packets
    BY <2>1, <2>2 DEF OnWorker
  <2>3. CASE j.p \notin Packets
    <3>1. PICK p \in Packets : j.p = Reverse(p)
      BY <2>3 DEF Jobs, Tuples, Wan
    <3> QED BY <2>1, <3>1 DEF Ordered, OneWorkerPerAnswer
  <2> QED BY <2>2, <2>3
<1>6. ASSUME NEW v \in Workers, NEW i \in 1 .. Len(m[v]), m[v][i].p = j.p
      PROVE  j.n < m[v][i].n
  <2>1. j.p \in Packets /\ OnWorker(T, j.p, v)
    BY <1>6 DEF MidOk
  <2>2. v = w
    BY <2>1 DEF OnWorker
  <2> QED BY <1>6, <2>1, <2>2 DEF Ordered, MidInOrder
<1> HIDE DEF C
<1> USE FlightNumbers
<1>7. j.n \in Nat /\ j.n <= a
  BY DEF Jobs, Ordered, Numbered
<1>8. Numbered(m, g, C, J, a)
  BY <1>1, <1>4, <1>7 DEF Ordered, Numbered
<1>9. RxLast(m, g, C, J)
  <2> SUFFICES ASSUME Rx \in C PROVE RxLast(m, g, C, J)
    BY DEF RxLast
  <2>1. Rx \in B /\ (j.p \in Packets => j.n < J[Rx].n)
    BY <1>1 DEF Ordered, RxLast
  <2> QED BY <1>1, <1>4, <2>1 DEF Ordered, RxLast
<1>10. MidInOrder(m, C, J) /\ OneWorkerPerAnswer(C, J)
  BY <1>1 DEF Ordered, MidInOrder, OneWorkerPerAnswer
<1>11. OutFirst(m, g, C, J)
  <2>1. ASSUME NEW x \in Slots, NEW k \in 1 .. Len(g[x]), NEW v \in Workers, NEW i \in 1 .. Len(m[v]),
               g[x][k].p = m[v][i].p
        PROVE  g[x][k].n < m[v][i].n
    BY <1>4, <1>6, <2>1 DEF Ordered, OutFirst
  <2>2. ASSUME NEW x \in Slots, NEW k \in 1 .. Len(g[x]), NEW v \in Workers, v \in C, g[x][k].p = J[v].p
        PROVE  g[x][k].n < J[v].n
    BY <1>1, <1>4, <1>5, <2>2 DEF Ordered, OutFirst
  <2> QED BY <2>1, <2>2 DEF OutFirst
<1>12. OutInOrder(g)
  <2>1. ASSUME NEW x \in Slots, NEW i \in 1 .. Len(g[x]), NEW k \in 1 .. Len(g[x]), i < k, g[x][i].p = g[x][k].p
        PROVE  g[x][i].n < g[x][k].n
    <3>1. CASE x # s
      BY <1>2, <2>1, <3>1 DEF Ordered, OutInOrder
    <3>2. CASE x = s
      <4>1. i \in 1 .. Len(o[s]) /\ g[s][i] = o[s][i]
        BY <1>2, <1>3, <2>1, <3>2
      <4>2. CASE k \in 1 .. Len(o[s])
        BY <1>2, <2>1, <3>2, <4>1, <4>2, SMTT(40) DEF Ordered, OutInOrder
      <4>3. CASE g[s][k] = j
        BY <2>1, <3>2, <4>1, <4>3 DEF Ordered, OutFirst
      <4> QED BY <1>3, <3>2, <4>2, <4>3
    <3> QED BY <3>1, <3>2
  <2> QED BY <2>1 DEF OutInOrder
<1> QED BY <1>8, <1>9, <1>10, <1>11, <1>12 DEF Ordered, C

Positions == Ordered(mid, out, Busy, job, arrived)

LEMMA InFlight ==
  ASSUME RouteInv, arrived \in Nat
  PROVE  /\ Flight(mid, out, Busy, job, arrived) /\ MidOk(table, mid)
         /\ \A w \in Workers : w \in Busy /\ job[w].p \in Packets => OnWorker(table, job[w].p, w)
         /\ Rx \in Busy => job[Rx].p \in Packets
         /\ pc \in [Threads -> Places] /\ job = [t \in Threads |-> job[t]]
         /\ mid \in [Workers -> Seq(Jobs)] /\ out \in [Slots -> Seq(Jobs)]
<1>1. TypeOK /\ Routed
  BY DEF RouteInv
<1>2. Flight(mid, out, Busy, job, arrived)
  BY <1>1 DEF TypeOK, ThreadTypes, RingTypes, Flight, Busy
<1>3. \A w \in Workers : w \in Busy /\ job[w].p \in Packets => OnWorker(table, job[w].p, w)
  BY <1>1 DEF Routed, BusyOk, Busy
<1> QED BY <1>1, <1>2, <1>3 DEF TypeOK, ThreadTypes, RingTypes, Routed, Busy

\* What a step of one thread does to the set of busy ones.
LEMMA BusyNow ==
  ASSUME pc \in [Threads -> Places], NEW t \in Threads, NEW l, pc' = [pc EXCEPT ![t] = l]
  PROVE  (l = "idle" => Busy' = Busy \ {t}) /\ (l # "idle" => Busy' = Busy \cup {t})
<1>1. pc'[t] = l /\ \A u \in Threads : u # t => pc'[u] = pc[u]
  OBVIOUS
<1>2. CASE l = "idle"
  BY <1>1, <1>2 DEF Busy
<1>3. CASE l # "idle"
  BY <1>1, <1>3 DEF Busy
<1> QED BY <1>2, <1>3

LEMMA QuietOrder ==
  ASSUME RouteInv, arrived \in Nat, Positions, NEW t \in Threads, pc[t] # "idle", NEW l, l # "idle",
         pc' = [pc EXCEPT ![t] = l], UNCHANGED <<job, mid, out, arrived>>
  PROVE  Positions'
<1>1. Busy' = Busy
  <2>1. Busy' = Busy \cup {t} /\ t \in Busy
    BY InFlight, BusyNow DEF Busy
  <2> QED BY <2>1
<1> QED BY <1>1 DEF Positions

\* The worker pushes what it has in hand.
LEMMA PushOrder ==
  ASSUME RouteInv, arrived \in Nat, Positions, NEW w \in Workers, pc[w] # "idle", NEW s \in Slots,
         NEW j \in Jobs, j.p = job[w].p, j.n = job[w].n, out' = [out EXCEPT ![s] = Append(@, j)],
         pc' = [pc EXCEPT ![w] = "idle"], UNCHANGED <<job, mid, arrived>>
  PROVE  Positions'
<1>1. Busy' = Busy \ {w} /\ w \in Busy
  BY InFlight, BusyNow DEF Busy, Threads
<1>2. Ordered(mid, out', Busy \ {w}, job, arrived)
  BY <1>1, InFlight, WorkerPushes DEF Positions
<1> QED BY <1>1, <1>2 DEF Positions

LEMMA ReturnOrder ==
  ASSUME RouteInv, arrived \in Nat, Positions, NEW t \in Threads, pc[t] \in Routing, NEW r \in Routes, Return(t, r),
         UNCHANGED <<job, arrived>>
  PROVE  Positions'
<1> DEFINE j == [job[t] EXCEPT !.slot = r.slot]
<1>1. job[t] \in Jobs /\ r.slot \in Slots /\ r.worker \in Workers
  BY DEF RouteInv, TypeOK, ThreadTypes, Routes
<1>2. j \in Jobs /\ j.p = job[t].p /\ j.n = job[t].n
  BY <1>1 DEF Jobs
<1> HIDE DEF j
<1>3. pc' = [pc EXCEPT ![t] = IF t # Rx /\ FromLan(t) THEN "seq_retry" ELSE "idle"]
  BY ReturnMoves DEF RouteInv
<1>4. CASE t = Rx /\ out' = out /\ mid' = [mid EXCEPT ![r.worker] = Append(@, j)]
  <2>1. pc' = [pc EXCEPT ![Rx] = "idle"]
    BY <1>3, <1>4
  <2>2. Rx \in Busy
    BY <1>4 DEF Busy
  <2>3. Busy' = Busy \ {Rx} /\ job[Rx].p \in Packets
    BY <1>4, <2>1, <2>2, InFlight, BusyNow
  <2>4. Ordered(mid', out, Busy \ {Rx}, job, arrived)
    BY <1>1, <1>2, <1>4, <2>2, <2>3, InFlight, RxHandsOver DEF Positions
  <2> QED BY <1>4, <2>3, <2>4 DEF Positions
<1>5. CASE t # Rx /\ FromLan(t) /\ UNCHANGED <<outRing, mid, out>>
  BY <1>3, <1>5, QuietOrder
<1>6. CASE t \in Workers /\ ~FromLan(t) /\ mid' = mid /\ out' = [out EXCEPT ![r.slot] = Append(@, j)]
  <2>1. pc' = [pc EXCEPT ![t] = "idle"]
    BY <1>3, <1>6
  <2> QED BY <1>1, <1>2, <1>6, <2>1, PushOrder
<1> QED BY <1>4, <1>5, <1>6, ReturnMoves DEF RouteInv, j

LEMMA LookupOrder ==
  ASSUME RouteInv, arrived \in Nat, Positions, NEW t \in Threads, RouteStep(t)
  PROVE  Positions'
<1>1. CASE Scan(t)
  <2>1. CASE Hits(Key(t)) = {}
    BY <1>1, <2>1, QuietOrder DEF Scan
  <2>2. CASE Hits(Key(t)) # {}
    <3>1. Min(Hits(Key(t))) \in Ways
      BY <2>2, HitIs DEF Hits
    <3>2. RouteOf(Min(Hits(Key(t)))) \in Routes
      BY <3>1, RouteTypes DEF RouteInv, TypeOK
    <3>3. pc[t] = "scan" /\ UNCHANGED <<job, arrived>> /\ Return(t, RouteOf(Min(Hits(Key(t)))))
      BY <1>1, <2>2 DEF Scan
    <3> QED BY <3>2, <3>3, ReturnOrder
  <2> QED BY <2>1, <2>2
<1>2. CASE InsertLock(t)
  BY <1>2, QuietOrder DEF InsertLock
<1>3. CASE Rescan(t)
  BY <1>3, QuietOrder DEF Rescan
<1>4. CASE WriteKey(t)
  BY <1>4, QuietOrder DEF WriteKey
<1>5. CASE WriteFields(t)
  BY <1>5, QuietOrder DEF WriteFields
<1>6. CASE PublishEntry(t)
  BY <1>6, QuietOrder DEF PublishEntry
<1>7. CASE InsertUnlock(t)
  <2>1. route[t] \in Routes /\ pc[t] = "unlock" /\ UNCHANGED <<job, arrived>> /\ Return(t, route[t])
    BY <1>7 DEF InsertUnlock, RouteInv, TypeOK, ThreadTypes
  <2> QED BY <2>1, ReturnOrder
<1> QED BY <1>1, <1>2, <1>3, <1>4, <1>5, <1>6, <1>7 DEF RouteStep

LEMMA SeqOrder ==
  ASSUME RouteInv, arrived \in Nat, Positions, RouteInv', NEW w \in Workers, SeqLookup(w) \/ SeqRetry(w)
  PROVE  Positions'
<1>0. w \in Threads /\ pc[w] \in {"seq", "seq_retry"} /\ outRing[w] \in Slots /\ job[w] \in Jobs
      /\ UNCHANGED <<job, mid, arrived>>
  BY DEF Threads, RouteInv, TypeOK, ThreadTypes, RingTypes, SeqLookup, SeqRetry
<1>1. ASSUME NEW n \in Int, Push(w, outRing[w], [job[w] EXCEPT !.seq = n])
      PROVE  Positions'
  <2> DEFINE j == [job[w] EXCEPT !.seq = n]
  <2>1. j \in Jobs /\ j.p = job[w].p /\ j.n = job[w].n
    BY <1>0, <1>1 DEF Jobs
  <2>2. out' = [out EXCEPT ![outRing[w]] = Append(@, j)] /\ pc' = [pc EXCEPT ![w] = "idle"]
    BY <1>1 DEF Push
  <2> HIDE DEF j
  <2> QED BY <1>0, <2>1, <2>2, PushOrder
<1>2. CASE Hits(Key(w)) # {}
  <2> DEFINE i == Min(Hits(Key(w)))
             n == table[i].seq[Dir(w)]
  <2>1. i \in Ways
    BY <1>2, HitIs DEF Hits
  <2>2. n \in Int
    <3>1. table[i] \in Entries /\ Dir(w) \in 0 .. 1
      BY <2>1 DEF RouteInv, TypeOK, TableTypes, Dir, Direction
    <3> QED BY <3>1 DEF Entries
  <2>3. Push(w, outRing[w], [job[w] EXCEPT !.seq = n])
    BY <1>2 DEF SeqLookup, SeqRetry, SeqOfEntry
  <2> HIDE DEF n
  <2> QED BY <1>1, <2>2, <2>3
<1>3. CASE Hits(Key(w)) = {} /\ SeqLookup(w)
  BY <1>0, <1>3, QuietOrder DEF SeqLookup
<1>4. CASE Hits(Key(w)) = {} /\ SeqRetry(w)
  <2> DEFINE i == IF Mine(w) # {} THEN Min(Mine(w)) ELSE Victim(w)
             next == IF Mine(w) # {} THEN fallback[w][i].next ELSE EmptyFallback.next
  <2>1. next[Dir(w)] \in Int
    BY FallbackNumber DEF RouteInv
  <2>2. Push(w, outRing[w], [job[w] EXCEPT !.seq = next[Dir(w)]])
    BY <1>4 DEF SeqRetry
  <2> HIDE DEF next
  <2> QED BY <1>1, <2>1, <2>2
<1> QED BY <1>2, <1>3, <1>4

LEMMA RxTakesOrder ==
  ASSUME RouteInv, arrived \in Nat, Positions, NEW p \in Packets, RxTakes(p)
  PROVE  Positions'
<1> DEFINE j == NewJob(p, arrived', 0)
           i == [j EXCEPT !.slot = HashRoute(p).slot]
           B == Busy \cup {Rx}
<1>1. pc[Rx] = "idle" /\ arrived' = arrived + 1 /\ job' = [job EXCEPT ![Rx] = j] /\ out' = out /\ Rx \in Threads
  BY DEF RxTakes, Threads
<1>2. j \in Jobs /\ j.p = p /\ j.n = arrived + 1
  <2>1. arrived' \in Nat /\ 0 \in Slots /\ p \in Tuples
    BY <1>1, Sizes DEF Tuples
  <2> QED BY <1>1, <2>1 DEF Jobs, NewJob
<1>3. i \in Jobs /\ i.p = p /\ i.n = arrived + 1 /\ HashRoute(p).worker \in Workers
  <2>1. HashRoute(p) \in Routes
    BY HashesAre DEF Tuples
  <2> QED BY <1>2, <2>1 DEF Jobs, Routes
<1> HIDE DEF i, j
<1>4. job'[Rx] = j /\ \A t \in Threads : t # Rx => job'[t] = job[t]
  BY <1>1, InFlight
<1>5. Rx \notin Busy
  BY <1>1 DEF Busy
<1>6. Ordered(mid, out, B, job', arrived + 1)
  <2>1. job'[Rx].n = arrived + 1
    BY <1>2, <1>4
  <2> QED BY <1>4, <1>5, <2>1, InFlight, RxEnters DEF Positions
<1>7. CASE pc' = [pc EXCEPT ![Rx] = "scan"] /\ mid' = mid
  <2>0. "scan" # "idle"
    OBVIOUS
  <2>1. Busy' = B
    <3>1. pc \in [Threads -> Places]
      BY InFlight
    <3>2. Rx \in Threads /\ pc' = [pc EXCEPT ![Rx] = "scan"]
      BY <1>1, <1>7
    <3>3. pc'[Rx] = "scan" /\ \A u \in Threads : u # Rx => pc'[u] = pc[u]
      BY <3>1, <3>2
    <3> QED BY <2>0, <3>2, <3>3 DEF Busy
  <2> QED BY <1>1, <1>6, <1>7, <2>1 DEF Positions
<1>8. CASE pc' = [pc EXCEPT ![Rx] = "idle"] /\ mid' = [mid EXCEPT ![HashRoute(p).worker] = Append(@, i)]
  <2>1. Busy' = B \ {Rx} /\ Rx \in B
    <3>1. Busy' = Busy \ {Rx}
      BY <1>1, <1>8, InFlight, BusyNow
    <3> QED BY <3>1
  <2>2. Flight(mid, out, B, job', arrived + 1)
    BY <1>1, <1>2, <1>4, InFlight DEF Flight
  <2> HIDE DEF B
  <2>3. Ordered(mid', out, B \ {Rx}, job', arrived + 1)
    BY <1>2, <1>3, <1>4, <1>6, <1>8, <2>1, <2>2, RxHandsOver
  <2> QED BY <1>1, <2>1, <2>3 DEF Positions
<1> QED BY <1>7, <1>8 DEF RxTakes, HandOver, i, j

LEMMA TakeLocalOrder ==
  ASSUME RouteInv, arrived \in Nat, Positions, NEW w \in Workers, TakeLocal(w)
  PROVE  Positions'
<1> DEFINE j == Head(mid[w])
           B == Busy \cup {w}
<1>1. pc[w] = "idle" /\ mid[w] # <<>> /\ mid' = [mid EXCEPT ![w] = Tail(@)] /\ job' = [job EXCEPT ![w] = j]
      /\ w \in Threads /\ arrived' = arrived
  BY DEF TakeLocal, Threads
<1>2. j \in Jobs /\ mid' \in [Workers -> Seq(Jobs)]
  BY <1>1, InFlight, PopAt
<1>3. MidOk(table, mid') /\ j.p \in Packets /\ OnWorker(table, j.p, w)
  BY <1>1, InFlight, MidPop
<1>4. j.slot \in Slots /\ RingFor(w, j) = j.slot
  BY <1>2 DEF Jobs, RingFor, Bind
<1>5. job'[w] = j /\ \A t \in Threads : t # w => job'[t] = job[t]
  BY <1>1, InFlight
<1>6. w \notin Busy
  BY <1>1 DEF Busy
<1>7. Ordered(mid', out, B, job', arrived)
  <2>1. Popped(mid, w, mid')
    BY <1>1 DEF Popped
  <2> QED BY <1>1, <1>3, <1>5, <1>6, <2>1, InFlight, WorkerPops DEF Positions
<1> HIDE DEF j
<1>8. CASE pc' = [pc EXCEPT ![w] = "seq"] /\ out' = out
  <2>0. "seq" # "idle"
    OBVIOUS
  <2>1. Busy' = B
    BY <1>1, <1>8, <2>0, InFlight, BusyNow, ZenonT(60)
  <2> QED BY <1>1, <1>7, <1>8, <2>1 DEF Positions
<1>9. CASE pc' = [pc EXCEPT ![w] = "idle"] /\ out' = [out EXCEPT ![j.slot] = Append(@, j)]
  <2>1. Busy' = B \ {w} /\ w \in B
    <3>1. Busy' = Busy \ {w}
      BY <1>1, <1>9, InFlight, BusyNow
    <3> QED BY <3>1
  <2>2. Flight(mid', out, B, job', arrived)
    BY <1>1, <1>2, <1>5, InFlight DEF Flight
  <2>3. \A v \in Workers : v \in B /\ job'[v].p \in Packets => OnWorker(table, job'[v].p, v)
    BY <1>3, <1>5, InFlight DEF Threads
  <2> HIDE DEF B
  <2>4. Ordered(mid', out', B \ {w}, job', arrived)
    <3>1. job'[w].p = j.p /\ job'[w].n = j.n
      BY <1>5
    <3> QED BY <1>2, <1>3, <1>4, <1>7, <1>9, <2>1, <2>2, <2>3, <3>1, WorkerPushes
  <2> QED BY <1>1, <2>1, <2>4 DEF Positions
<1> QED BY <1>4, <1>8, <1>9 DEF TakeLocal, Push, j

LEMMA TakeWanOrder ==
  ASSUME RouteInv, arrived \in Nat, Positions, NEW w \in Workers, NEW p \in Packets, TakeWan(w, p)
  PROVE  Positions'
<1> DEFINE q == Reverse(p)
           j == NewJob(q, arrived', HashRoute(q).slot)
           B == Busy \cup {w}
<1>1. pc[w] = "idle" /\ arrived' = arrived + 1 /\ job' = [job EXCEPT ![w] = j] /\ mid' = mid /\ w \in Threads
      /\ PeerWorker[p] = w
  BY DEF TakeWan, Threads
<1>2. j \in Jobs /\ j.p = q /\ j.n = arrived + 1 /\ j.slot \in Slots /\ Bind(j.slot) = j.slot /\ q \notin Packets
  <2>1. arrived' \in Nat /\ q \in Tuples /\ HashRoute(q) \in Routes /\ q \notin Packets
    BY <1>1, HashesAre, TuplesAre DEF Tuples, Wan
  <2>2. HashRoute(q).slot \in Slots
    BY <2>1 DEF Routes
  <2> HIDE DEF q
  <2> QED BY <1>1, <2>1, <2>2 DEF Jobs, NewJob, Bind
<1> HIDE DEF j
<1>3. job'[w] = j /\ \A t \in Threads : t # w => job'[t] = job[t]
  BY <1>1, InFlight
<1>4. w \notin Busy
  BY <1>1 DEF Busy
<1>5. Ordered(mid, out, B, job', arrived + 1)
  <2>1. job'[w].n = arrived + 1 /\ job'[w].p = Reverse(p)
    BY <1>2, <1>3
  <2> QED BY <1>1, <1>3, <1>4, <2>1, InFlight, WanEnters, ZenonT(60) DEF Positions
<1> HIDE DEF q
<1>6. CASE pc' = [pc EXCEPT ![w] = "scan"] /\ out' = out
  <2>0. "scan" # "idle"
    OBVIOUS
  <2>1. Busy' = B
    BY <1>1, <1>6, <2>0, InFlight, BusyNow, ZenonT(60)
  <2> QED BY <1>1, <1>5, <1>6, <2>1 DEF Positions
<1>7. CASE pc' = [pc EXCEPT ![w] = "idle"] /\ out' = [out EXCEPT ![j.slot] = Append(@, j)]
  <2>1. Busy' = B \ {w} /\ w \in B
    <3>1. Busy' = Busy \ {w}
      BY <1>1, <1>7, InFlight, BusyNow
    <3> QED BY <3>1
  <2>2. Flight(mid, out, B, job', arrived + 1)
    BY <1>1, <1>2, <1>3, InFlight DEF Flight
  <2>3. \A v \in Workers : v \in B /\ job'[v].p \in Packets => OnWorker(table, job'[v].p, v)
    BY <1>2, <1>3, InFlight DEF Threads
  <2> HIDE DEF B
  <2>4. Ordered(mid, out', B \ {w}, job', arrived + 1)
    <3>1. job'[w].p = j.p /\ job'[w].n = j.n
      BY <1>3
    <3> QED BY <1>2, <1>5, <1>7, <2>1, <2>2, <2>3, <3>1, InFlight, WorkerPushes
  <2> QED BY <1>1, <2>1, <2>4 DEF Positions
<1> QED BY <1>2, <1>6, <1>7 DEF TakeWan, Push, j, q

LEMMA OrderStep ==
  ASSUME RouteInv, arrived \in Nat, Positions, RouteInv', Next
  PROVE  Positions'
BY LookupOrder, RxTakesOrder, TakeLocalOrder, SeqOrder, TakeWanOrder DEF Next

LEMMA OrderInit == Init => Positions
<1> SUFFICES ASSUME Init PROVE Positions
  OBVIOUS
<1>1. Busy = {} /\ (\A w \in Workers : 1 .. Len(mid[w]) = {}) /\ (\A s \in Slots : 1 .. Len(out[s]) = {})
  BY DEF Init, Busy
<1>2. Rx \notin Busy /\ \A w \in Workers : w \notin Busy
  BY <1>1
<1> QED BY <1>1, <1>2 DEF Positions, Ordered, Numbered, RxLast, MidInOrder, OutFirst, OneWorkerPerAnswer, OutInOrder

\* Types, lock, table, routes and the order of the packets on their way, as IInv
\* says, at all times.
THEOREM OrderHolds == Spec => []IInv
<1>1. Init => Positions
  BY OrderInit
<1>2. /\ Positions /\ RouteInv /\ arrived \in Nat /\ RouteInv'
      /\ [Next \/ (Done /\ UNCHANGED vars)]_vars
      => Positions'
  <2> SUFFICES ASSUME Positions, RouteInv, arrived \in Nat, RouteInv', [Next \/ (Done /\ UNCHANGED vars)]_vars
               PROVE  Positions'
    OBVIOUS
  <2>1. CASE Next
    BY <2>1, OrderStep
  <2>2. CASE UNCHANGED vars
    BY <2>2 DEF vars, Positions, Busy
  <2> QED BY <2>1, <2>2
<1>3. RouteInv /\ arrived \in Nat /\ Positions => IInv
  BY DEF IInv, Positions
<1> QED BY <1>1, <1>2, <1>3, RoutesHold, PTL DEF Spec

\* The packets of a flow enter one ring, in the order in which they came, though
\* each worker serves two input rings in turn and binds its output ring anew for
\* each packet.
THEOREM FlowsStayInOrder == Spec => []FlowInOrder
<1>1. IInv => FlowInOrder
  <2> SUFFICES ASSUME IInv, NEW s \in Slots, NEW r \in Slots, NEW i \in DOMAIN out[s], NEW k \in DOMAIN out[r],
                      out[s][i].p = out[r][k].p
               PROVE  s = r /\ (i < k => out[s][i].n < out[r][k].n)
    BY DEF FlowInOrder
  <2>1. OutOk(table, out) /\ out \in [Slots -> Seq(Jobs)] /\ OutInOrder(out)
    BY DEF IInv, RouteInv, Routed, TypeOK, RingTypes, Ordered
  <2>2. i \in 1 .. Len(out[s]) /\ k \in 1 .. Len(out[r]) /\ out[s][i] \in Jobs
    BY <2>1
  <2>3. OnRoute(table, out[s][i].p, s) /\ OnRoute(table, out[r][k].p, r) /\ out[s][i].p \in Tuples
    BY <2>1, <2>2 DEF OutOk, Jobs
  <2>4. s = r
    BY <2>3, OneSlot
  <2> QED BY <2>1, <2>2, <2>4 DEF OutInOrder
<1> QED BY <1>1, OrderHolds, PTL

-----------------------------------------------------------------------------
(* Balance: the counters are the flows, and never more than one apart.     *)

Load(T, s) == Cardinality({i \in Ways : T[i].valid /\ T[i].slot = s})
Publishing(s) == \E t \in Threads : pc[t] = "publish" /\ route[t].slot = s

Counted == \A s \in Slots : tcount[s] = Load(table, s) + (IF Publishing(s) THEN 1 ELSE 0)
Level ==
  /\ trr \in Slots
  /\ \A s, r \in Slots : tcount[s] <= tcount[r] + 1
  /\ \A t \in Threads : pc[t] = "fields" => \A s \in Slots : tcount[route[t].slot] <= tcount[s]
BalanceInv == Counted /\ Level

LEMMA LoadIsNat == ASSUME NEW T, NEW s PROVE Load(T, s) \in Nat
<1>1. IsFiniteSet({i \in Ways : T[i].valid /\ T[i].slot = s})
  BY RouteAssumption, FS_Subset
<1> QED BY <1>1, FS_CardinalityType DEF Load

\* A step that neither counts nor publishes.
LEMMA QuietBalance ==
  ASSUME BalanceInv, UNCHANGED <<tcount, trr>>,
         \A i \in Ways : table'[i].valid = table[i].valid /\ (table[i].valid => table'[i].slot = table[i].slot),
         \A t \in Threads : pc'[t] = "publish" <=> pc[t] = "publish",
         \A t \in Threads : pc'[t] = "fields" => pc[t] = "fields",
         \A t \in Threads : pc[t] \in {"fields", "publish"} => route'[t].slot = route[t].slot
  PROVE  BalanceInv'
<1>1. ASSUME NEW s \in Slots PROVE Load(table', s) = Load(table, s)
  <2>1. {i \in Ways : table'[i].valid /\ table'[i].slot = s} = {i \in Ways : table[i].valid /\ table[i].slot = s}
    OBVIOUS
  <2> QED BY <2>1 DEF Load
<1>2. ASSUME NEW s \in Slots PROVE Publishing(s)' <=> Publishing(s)
  BY DEF Publishing
<1>3. Counted'
  BY <1>1, <1>2 DEF BalanceInv, Counted
<1>4. Level'
  BY DEF BalanceInv, Level
<1> QED BY <1>3, <1>4 DEF BalanceInv

\* A step of a thread that has no entry in hand.
LEMMA IdleBalance ==
  ASSUME Sound, BalanceInv, NEW t \in Threads, NEW l, pc' = [pc EXCEPT ![t] = l],
         l \notin {"fields", "publish"}, pc[t] \notin {"fields", "publish"}, UNCHANGED <<tcount, trr>>,
         \A i \in Ways : table'[i].valid = table[i].valid /\ table'[i].slot = table[i].slot,
         \A u \in Threads : u # t => route'[u] = route[u]
  PROVE  BalanceInv'
<1>1. pc \in [Threads -> Places]
  BY DEF Sound, Base, TypeOK, ThreadTypes
<1>2. pc'[t] = l /\ \A u \in Threads : u # t => pc'[u] = pc[u]
  BY <1>1
<1>3. \A u \in Threads : pc'[u] = "publish" <=> pc[u] = "publish"
  BY <1>2
<1>4. \A u \in Threads : pc'[u] = "fields" => pc[u] = "fields"
  BY <1>2
<1>5. \A u \in Threads : pc[u] \in {"fields", "publish"} => route'[u].slot = route[u].slot
  OBVIOUS
<1> QED BY <1>3, <1>4, <1>5, QuietBalance

\* While t has the lock nobody else is writing an entry.
LEMMA OneWriter ==
  ASSUME Sound, NEW t \in Threads, pc[t] \in Inserting, NEW l, pc' = [pc EXCEPT ![t] = l]
  PROVE  /\ pc'[t] = l
         /\ \A u \in Threads : u # t => pc'[u] = pc[u] /\ pc[u] \notin Inserting
BY Alone DEF Sound, Base

LEMMA WriteKeyBalance ==
  ASSUME Sound, BalanceInv, NEW t \in Threads, WriteKey(t)
  PROVE  BalanceInv'
<1>1. /\ pc[t] = "write" /\ pc' = [pc EXCEPT ![t] = "fields"] /\ trr' = (trr + 1) % NSlots /\ tcount' = tcount
      /\ table' = [table EXCEPT ![empty[t]].key = Key(t)]
  BY DEF WriteKey
<1>2. /\ route \in [Threads -> Routes] /\ tcount \in [Slots -> Nat] /\ trr \in Slots
      /\ table \in [Ways -> Entries] /\ empty[t] \in Ways
  BY <1>1 DEF Sound, Base, TypeOK, TableTypes, ThreadTypes, BalanceInv, Level
<1>3. pc'[t] = "fields" /\ \A u \in Threads : u # t => pc'[u] = pc[u] /\ pc[u] \notin Inserting
  BY <1>1, OneWriter
<1>4. route'[t].slot = LeastLoaded(tcount, NSlots, trr)
  BY <1>2 DEF WriteKey
<1>5. \A i \in Ways : table'[i].valid = table[i].valid /\ table'[i].slot = table[i].slot
  BY <1>1, <1>2 DEF Entries
<1>6. Counted'
  <2>1. ASSUME NEW s \in Slots PROVE Load(table', s) = Load(table, s) /\ ~Publishing(s) /\ ~Publishing(s)'
    <3>1. {i \in Ways : table'[i].valid /\ table'[i].slot = s} = {i \in Ways : table[i].valid /\ table[i].slot = s}
      BY <1>5
    <3> QED BY <1>1, <1>3, <3>1 DEF Load, Publishing
  <2> QED BY <1>1, <2>1 DEF BalanceInv, Counted
<1>7. Level'
  <2>1. trr' \in Slots
    BY <1>1, <1>2, Sizes DEF Slots
  <2>2. \A s \in Slots : tcount[LeastLoaded(tcount, NSlots, trr)] <= tcount[s]
    BY <1>2, Sizes, LeastLoadedLeast DEF Slots
  <2>3. \A u \in Threads : pc'[u] = "fields" => u = t
    BY <1>3
  <2> QED BY <1>1, <1>4, <2>1, <2>2, <2>3 DEF BalanceInv, Level
<1> QED BY <1>6, <1>7 DEF BalanceInv

LEMMA WriteFieldsBalance ==
  ASSUME Sound, BalanceInv, NEW t \in Threads, WriteFields(t)
  PROVE  BalanceInv'
<1> DEFINE r == route[t].slot
<1>1. /\ pc[t] = "fields" /\ pc' = [pc EXCEPT ![t] = "publish"] /\ trr' = trr /\ route' = route
      /\ tcount' = [tcount EXCEPT ![r] = @ + 1]
      /\ \A i \in Ways : i # empty[t] => table'[i] = table[i]
  BY DEF WriteFields, Sound, Base, TypeOK, TableTypes
<1>2. /\ r \in Slots /\ tcount \in [Slots -> Nat]
      /\ table \in [Ways -> Entries] /\ empty[t] \in Ways /\ ~table[empty[t]].valid
  BY <1>1 DEF Sound, Base, TypeOK, TableTypes, ThreadTypes, WayInHand, Routes
<1>3. pc'[t] = "publish" /\ \A u \in Threads : u # t => pc'[u] = pc[u] /\ pc[u] \notin Inserting
  BY <1>1, OneWriter
<1>4. ~table'[empty[t]].valid
  BY <1>2 DEF WriteFields, Entries, EmptyEntry
<1> HIDE DEF r
<1>5. tcount'[r] = tcount[r] + 1 /\ \A s \in Slots : s # r => tcount'[s] = tcount[s]
  BY <1>1, <1>2
<1>6. Counted'
  <2>1. ASSUME NEW s \in Slots PROVE Load(table', s) = Load(table, s) /\ ~Publishing(s) /\ (Publishing(s)' <=> s = r)
    <3>1. {i \in Ways : table'[i].valid /\ table'[i].slot = s} = {i \in Ways : table[i].valid /\ table[i].slot = s}
      BY <1>1, <1>2, <1>4
    <3> QED BY <1>1, <1>3, <3>1 DEF Load, Publishing, r
  <2>2. ASSUME NEW s \in Slots PROVE tcount[s] = Load(table, s) /\ Load(table, s) \in Nat
    BY <2>1, <2>2, LoadIsNat DEF BalanceInv, Counted
  <2> QED BY <1>5, <2>1, <2>2 DEF Counted
<1>7. Level'
  <2>1. \A s \in Slots : tcount[r] <= tcount[s] /\ tcount[s] \in Nat
    BY <1>1, <1>2 DEF BalanceInv, Level, r
  <2>2. \A s, q \in Slots : tcount[s] <= tcount[q] + 1
    BY DEF BalanceInv, Level
  <2>3. \A s, q \in Slots : tcount'[s] <= tcount'[q] + 1
    <3> SUFFICES ASSUME NEW s \in Slots, NEW q \in Slots PROVE tcount'[s] <= tcount'[q] + 1
      OBVIOUS
    <3>1. tcount[s] <= tcount[q] + 1 /\ tcount[r] <= tcount[q] /\ tcount[s] \in Nat /\ tcount[q] \in Nat /\ tcount[r] \in Nat
      BY <1>2, <2>1, <2>2
    <3> QED BY <1>5, <3>1
  <2>4. \A u \in Threads : pc'[u] # "fields"
    BY <1>3
  <2> QED BY <1>1, <2>3, <2>4 DEF BalanceInv, Level
<1> QED BY <1>6, <1>7 DEF BalanceInv

LEMMA PublishBalance ==
  ASSUME Sound, BalanceInv, NEW t \in Threads, PublishEntry(t)
  PROVE  BalanceInv'
<1> DEFINE r == route[t].slot
           a == empty[t]
<1>1. /\ pc[t] = "publish" /\ pc' = [pc EXCEPT ![t] = "unlock"] /\ UNCHANGED <<trr, route, tcount>>
      /\ table' = [table EXCEPT ![a].valid = TRUE]
  BY DEF PublishEntry
<1>2. /\ r \in Slots /\ tcount \in [Slots -> Nat]
      /\ table \in [Ways -> Entries] /\ a \in Ways /\ ~table[a].valid
      /\ RouteOf(a) = route[t]
  BY <1>1 DEF Sound, Base, TypeOK, TableTypes, ThreadTypes, WayInHand, Routes
<1>3. pc'[t] = "unlock" /\ \A u \in Threads : u # t => pc'[u] = pc[u] /\ pc[u] \notin Inserting
  BY <1>1, OneWriter
<1>4. table'[a].valid /\ table'[a].slot = r /\ \A i \in Ways : i # a => table'[i] = table[i]
  BY <1>1, <1>2 DEF Entries, RouteOf
<1> HIDE DEF r, a
<1>5. Counted'
  <2>1. ASSUME NEW s \in Slots
        PROVE  /\ (Publishing(s) <=> s = r) /\ ~Publishing(s)'
               /\ Load(table', s) = IF s = r THEN Load(table, s) + 1 ELSE Load(table, s)
    <3> DEFINE F == {i \in Ways : table[i].valid /\ table[i].slot = s}
               G == {i \in Ways : table'[i].valid /\ table'[i].slot = s}
    <3>1. IsFiniteSet(F)
      BY RouteAssumption, FS_Subset
    <3>2. CASE s = r
      <4>1. G = F \cup {a} /\ a \notin F
        BY <1>2, <1>4, <3>2
      <4>2. Cardinality(G) = Cardinality(F) + 1
        BY <3>1, <4>1, FS_AddElement
      <4> QED BY <1>1, <1>3, <3>2, <4>2 DEF Load, Publishing, r
    <3>3. CASE s # r
      <4>1. G = F
        BY <1>2, <1>4, <3>3
      <4> QED BY <1>1, <1>3, <3>3, <4>1 DEF Load, Publishing, r
    <3> QED BY <3>2, <3>3
  <2>2. \A s \in Slots : Load(table, s) \in Nat
    BY LoadIsNat
  <2>3. ASSUME NEW s \in Slots PROVE tcount[s] = Load(table, s) + IF s = r THEN 1 ELSE 0
    BY <2>1 DEF BalanceInv, Counted
  <2>4. ASSUME NEW s \in Slots PROVE tcount[s] = Load(table', s)
    BY <2>1, <2>2, <2>3
  <2>5. ASSUME NEW s \in Slots PROVE tcount'[s] = Load(table', s) + (IF Publishing(s)' THEN 1 ELSE 0)
    <3>1. Load(table', s) \in Nat /\ tcount'[s] = tcount[s] /\ ~Publishing(s)'
      BY <1>1, <2>1, LoadIsNat
    <3> QED BY <2>4, <3>1
  <2> QED BY <2>5 DEF Counted
<1>6. Level'
  BY <1>1, <1>3 DEF BalanceInv, Level
<1> QED BY <1>5, <1>6 DEF BalanceInv

\* A sequence number taken from an entry changes neither its slot nor its validity.
LEMMA SeqKeeps ==
  ASSUME Sound, NEW w \in Workers, SeqOfEntry(w)
  PROVE  \A i \in Ways : table'[i].valid = table[i].valid /\ table'[i].slot = table[i].slot
<1> DEFINE a == Min(Hits(Key(w)))
<1>1. table \in [Ways -> Entries] /\ table' = [table EXCEPT ![a].seq[Dir(w)] = (@ + 1) % SeqMod]
  BY DEF Sound, Base, TypeOK, TableTypes, SeqOfEntry
<1> HIDE DEF a
<1>2. \A i \in Ways : i # a => table'[i] = table[i]
  BY <1>1
<1>3. a \in Ways => table'[a].valid = table[a].valid /\ table'[a].slot = table[a].slot
  BY <1>1 DEF Entries
<1> QED BY <1>2, <1>3

LEMMA BalanceStep ==
  ASSUME Sound, BalanceInv, Next
  PROVE  BalanceInv'
<1>0. route \in [Threads -> Routes] /\ Workers \subseteq Threads /\ Rx \in Threads
  BY DEF Sound, Base, TypeOK, ThreadTypes, Threads
<1>1. ASSUME NEW t \in Threads, RouteStep(t) PROVE BalanceInv'
  <2>1. CASE Scan(t)
    <3>0. UNCHANGED <<table, tcount, trr, route>> /\ pc[t] = "scan"
      BY <2>1 DEF Scan, shared
    <3>1. CASE Hits(Key(t)) = {}
      <4>1. pc' = [pc EXCEPT ![t] = "lock"]
        BY <2>1, <3>1 DEF Scan
      <4> QED BY <3>0, <4>1, IdleBalance
    <3>2. CASE Hits(Key(t)) # {}
      <4>1. Min(Hits(Key(t))) \in Ways
        BY <3>2, HitIs DEF Hits
      <4>2. RouteOf(Min(Hits(Key(t)))) \in Routes
        BY <4>1, RouteTypes DEF Sound, Base, TypeOK
      <4>3. pc' = [pc EXCEPT ![t] = IF t # Rx /\ FromLan(t) THEN "seq_retry" ELSE "idle"]
        BY <2>1, <3>2, <4>2, ReturnMoves DEF Sound, Base, Scan
      <4> QED BY <3>0, <4>3, IdleBalance, ZenonT(60)
    <3> QED BY <3>1, <3>2
  <2>2. CASE InsertLock(t)
    BY <2>2, IdleBalance DEF InsertLock
  <2>3. CASE Rescan(t)
    <3>1. pc[t] = "rescan" /\ UNCHANGED <<table, tcount, trr>> /\ \A u \in Threads : u # t => route'[u] = route[u]
      BY <1>0, <2>3 DEF Rescan, shared
    <3>2. pc' = [pc EXCEPT ![t] = "unlock"] \/ pc' = [pc EXCEPT ![t] = "write"]
      BY <2>3 DEF Rescan
    <3> QED BY <3>1, <3>2, IdleBalance
  <2>4. CASE WriteKey(t)
    BY <2>4, WriteKeyBalance
  <2>5. CASE WriteFields(t)
    BY <2>5, WriteFieldsBalance
  <2>6. CASE PublishEntry(t)
    BY <2>6, PublishBalance
  <2>7. CASE InsertUnlock(t)
    <3>1. route[t] \in Routes /\ Return(t, route[t]) /\ pc[t] = "unlock" /\ UNCHANGED <<table, tcount, trr, route>>
      BY <1>0, <2>7 DEF InsertUnlock
    <3>2. pc' = [pc EXCEPT ![t] = IF t # Rx /\ FromLan(t) THEN "seq_retry" ELSE "idle"]
      BY <3>1, ReturnMoves DEF Sound, Base
    <3> QED BY <3>1, <3>2, IdleBalance, ZenonT(60)
  <2> QED BY <1>1, <2>1, <2>2, <2>3, <2>4, <2>5, <2>6, <2>7 DEF RouteStep
<1>2. ASSUME NEW p \in Packets, RxTakes(p) PROVE BalanceInv'
  <2>1. pc[Rx] = "idle" /\ UNCHANGED <<table, tcount, trr>> /\ \A u \in Threads : u # Rx => route'[u] = route[u]
    BY <1>0, <1>2 DEF RxTakes, shared
  <2>2. pc' = [pc EXCEPT ![Rx] = "scan"] \/ pc' = [pc EXCEPT ![Rx] = "idle"]
    BY <1>2 DEF RxTakes, HandOver
  <2> QED BY <1>0, <2>1, <2>2, IdleBalance
<1>3. ASSUME NEW w \in Workers, NEW p \in Packets, TakeWan(w, p) PROVE BalanceInv'
  <2>1. pc[w] = "idle" /\ UNCHANGED <<table, tcount, trr>> /\ \A u \in Threads : u # w => route'[u] = route[u]
    BY <1>0, <1>3 DEF TakeWan, shared
  <2>2. pc' = [pc EXCEPT ![w] = "scan"] \/ pc' = [pc EXCEPT ![w] = "idle"]
    BY <1>3 DEF TakeWan, Push
  <2> QED BY <1>0, <2>1, <2>2, IdleBalance
<1>4. ASSUME NEW w \in Workers, TakeLocal(w) PROVE BalanceInv'
  <2>1. pc[w] = "idle" /\ UNCHANGED <<table, tcount, trr, route>>
    BY <1>4 DEF TakeLocal, shared
  <2>2. pc' = [pc EXCEPT ![w] = "seq"] \/ pc' = [pc EXCEPT ![w] = "idle"]
    BY <1>4 DEF TakeLocal, Push
  <2> QED BY <1>0, <2>1, <2>2, IdleBalance
<1>5. ASSUME NEW w \in Workers, SeqLookup(w) \/ SeqRetry(w) PROVE BalanceInv'
  <2>1. pc[w] \in {"seq", "seq_retry"} /\ UNCHANGED <<tcount, trr>> /\ \A u \in Threads : u # w => route'[u] = route[u]
    BY <1>0, <1>5 DEF SeqLookup, SeqRetry
  <2>2. SeqOfEntry(w) \/ table' = table
    BY <1>5 DEF SeqLookup, SeqRetry
  <2>3. \A i \in Ways : table'[i].valid = table[i].valid /\ table'[i].slot = table[i].slot
    BY <2>2, SeqKeeps
  <2>4. pc' = [pc EXCEPT ![w] = "scan"] \/ pc' = [pc EXCEPT ![w] = "idle"]
    BY <1>5 DEF SeqLookup, SeqRetry, SeqOfEntry, Push
  <2> QED BY <1>0, <2>1, <2>3, <2>4, IdleBalance
<1> QED BY <1>1, <1>2, <1>3, <1>4, <1>5 DEF Next

LEMMA BalanceInit == Init => BalanceInv
<1> SUFFICES ASSUME Init PROVE BalanceInv
  OBVIOUS
<1>1. ASSUME NEW s \in Slots PROVE Load(table, s) = 0 /\ ~Publishing(s) /\ tcount[s] = 0
  <2>1. {i \in Ways : table[i].valid /\ table[i].slot = s} = {}
    BY DEF Init, EmptyEntry
  <2> QED BY <2>1, FS_EmptySet DEF Load, Publishing, Init
<1>2. Counted
  BY <1>1 DEF Counted
<1>3. Level
  BY <1>1, Sizes DEF Level, Init
<1> QED BY <1>2, <1>3 DEF BalanceInv

\* "Independently balanced TX slot": outside an insertion no TX slot has more than
\* one flow more than another, whoever inserted them and however many ways,
\* slots and threads there are.
THEOREM SlotsStayBalanced == Spec => []SlotsBalanced
<1>1. Init => BalanceInv
  BY BalanceInit
<1>2. /\ BalanceInv /\ RouteInv /\ arrived \in Nat
      /\ [Next \/ (Done /\ UNCHANGED vars)]_vars
      => BalanceInv'
  <2> SUFFICES ASSUME BalanceInv, RouteInv, arrived \in Nat, [Next \/ (Done /\ UNCHANGED vars)]_vars
               PROVE  BalanceInv'
    OBVIOUS
  <2>1. CASE Next
    BY <2>1, BalanceStep DEF RouteInv, Sound, Base
  <2>2. CASE UNCHANGED vars
    BY <2>2 DEF vars, shared, BalanceInv, Counted, Level, Publishing
  <2> QED BY <2>1, <2>2
<1>3. RouteInv /\ BalanceInv => SlotsBalanced
  <2> SUFFICES ASSUME RouteInv, BalanceInv, ~lock, NEW s \in Slots, NEW r \in Slots
               PROVE  Load(table, s) <= Load(table, r) + 1
    BY DEF SlotsBalanced, Load
  <2>1. \A q \in Slots : ~Publishing(q)
    BY DEF RouteInv, Exclusive, Publishing
  <2>2. \A q \in Slots : tcount[q] = Load(table, q)
    BY <2>1, LoadIsNat DEF BalanceInv, Counted
  <2> QED BY <2>2 DEF BalanceInv, Level
<1> QED BY <1>1, <1>2, <1>3, RoutesHold, PTL DEF Spec

-----------------------------------------------------------------------------
(* Sequence numbers.                                                       *)


\* The UDP flows from the LAN that their full route set has no way for, the ones
\* of any set that meet p in a fallback set, and the condition that p has an entry
\* or that the fallback set can hold them all.
Unserved(T) ==
  {p \in Packets : p.proto = Udp /\ HitsIn(T, KeyOf(p)) = {} /\ \A i \in SetFor(KeyOf(p)) : T[i].valid}
RivalsIn(T, p) ==
  {q \in Unserved(T) : /\ HashRoute(KeyOf(q)).worker = HashRoute(KeyOf(p)).worker
                       /\ FallbackSetFor(KeyOf(q)) = FallbackSetFor(KeyOf(p))}
Room(T, p) ==
  \/ HitsIn(T, KeyOf(p)) # {}
  \/ Cardinality(RivalsIn(T, p)) <= Cardinality(FallbackSetFor(KeyOf(p)))

\* A packet has no number before it is pushed, and only a LAN packet of UDP gets one.
Unnumbered(m) ==
  /\ \A t \in Threads : pc[t] # "idle" => job[t].seq = -1
  /\ \A w \in Workers : pc[w] # "idle" /\ job[w].p \in Packets => job[w].p.proto = Udp
  /\ \A w \in Workers : \A i \in 1 .. Len(m[w]) : m[w][i].seq = -1
OnlyUdp(o) ==
  \A s \in Slots : \A i \in 1 .. Len(o[s]) :
    o[s][i].seq >= 0 => o[s][i].p \in Packets /\ o[s][i].p.proto = Udp

\* A fallback table has one way per flow, in the set of its hash, for flows of the
\* worker without an entry only.
OwnWays(T, F) ==
  \A w \in Workers : \A i \in FallbackWays : F[w][i].valid =>
    /\ \E p \in Unserved(T) : /\ F[w][i].key = KeyOf(p) /\ i \in FallbackSetFor(KeyOf(p))
                              /\ w = HashRoute(KeyOf(p)).worker
    /\ \A k \in FallbackWays : F[w][k].valid /\ F[w][k].key = F[w][i].key => k = i

\* The next number of p's flow is c: the one of its entry, or of its way in the
\* fallback table of the worker that the hash gives it.
NextIs(T, F, p, c) ==
  IF HitsIn(T, KeyOf(p)) # {}
  THEN \A i \in HitsIn(T, KeyOf(p)) : T[i].seq[Direction(p)] = c
  ELSE \E i \in FallbackSetFor(KeyOf(p)) :
         LET f == F[HashRoute(KeyOf(p)).worker][i]
         IN  f.valid /\ f.key = KeyOf(p) /\ f.next[Direction(p)] = c

\* It is ahead of the number of the flow's packet x, by one more than the packets
\* that came between x and another one, z, at most.
AheadOf(T, F, x, z) ==
  \E c \in 1 .. z.n - x.n + 1 : NextIs(T, F, x.p, (x.seq + c) % SeqMod)
AllAhead(T, F, o) ==
  \A s \in Slots : \A i \in 1 .. Len(o[s]) : o[s][i].seq >= 0 /\ Room(T, o[s][i].p) =>
    \E k \in 1 .. Len(o[s]) : o[s][k].p = o[s][i].p /\ AheadOf(T, F, o[s][i], o[s][k])

\* The number of y is ahead of the one of x by no more than the packets that came
\* between them.
RisesTo(x, y) == \E c \in 1 .. y.n - x.n : y.seq = (x.seq + c) % SeqMod
Rising(T, o) ==
  \A s \in Slots : \A i, k \in 1 .. Len(o[s]) :
    i < k /\ o[s][i].p = o[s][k].p /\ o[s][i].seq >= 0 /\ Room(T, o[s][i].p)
    => RisesTo(o[s][i], o[s][k])

SeqInv ==
  /\ Unnumbered(mid) /\ OnlyUdp(out) /\ OwnWays(table, fallback)
  /\ AllAhead(table, fallback, out) /\ Rising(table, out)

\* The successor of a remainder.
LEMMA DivMod ==
  ASSUME NEW M \in Nat \ {0}, NEW x \in Nat
  PROVE  x \div M \in Nat /\ x = M * (x \div M) + (x % M) /\ x % M \in 0 .. M - 1
OBVIOUS

LEMMA ModOf ==
  ASSUME NEW M \in Nat \ {0}, NEW q \in Nat, NEW r \in 0 .. M - 1
  PROVE  (M * q + r) % M = r
OBVIOUS

LEMMA ModSucc ==
  ASSUME NEW M \in Nat \ {0}, NEW x \in Nat
  PROVE  ((x % M) + 1) % M = (x + 1) % M
<1> DEFINE q == x \div M
           r == x % M
<1>1. q \in Nat /\ x = M * q + r /\ r \in 0 .. M - 1
  BY DivMod
<1> HIDE DEF q, r
<1>2. CASE r + 1 < M
  <2>1. r + 1 \in 0 .. M - 1 /\ M * q + (r + 1) = x + 1 /\ M * 0 + (r + 1) = r + 1
    BY <1>1, <1>2
  <2>2. (M * q + (r + 1)) % M = r + 1 /\ (M * 0 + (r + 1)) % M = r + 1
    BY <1>1, <2>1, ModOf
  <2>3. (x + 1) % M = r + 1 /\ (r + 1) % M = r + 1
    BY <2>1, <2>2
  <2> QED BY <2>3 DEF r
<1>3. CASE r + 1 = M
  <2>1. 0 \in 0 .. M - 1 /\ M * (q + 1) + 0 = x + 1 /\ M * 1 + 0 = r + 1 /\ q + 1 \in Nat
    BY <1>1, <1>3
  <2>2. (M * (q + 1) + 0) % M = 0 /\ (M * 1 + 0) % M = 0
    BY <2>1, ModOf
  <2>3. (x + 1) % M = 0 /\ (r + 1) % M = 0
    BY <2>1, <2>2
  <2> QED BY <2>3 DEF r
<1> QED BY <1>1, <1>2, <1>3

LEMMA AheadByOne ==
  ASSUME NEW M \in Nat \ {0}, NEW a \in Nat, NEW c \in Nat
  PROVE  (((a + c) % M) + 1) % M = (a + (c + 1)) % M
<1>1. a + c \in Nat /\ (a + c) + 1 = a + (c + 1)
  OBVIOUS
<1> QED BY <1>1, ModSucc

\* A key is the key of one LAN packet.
LEMMA KeyOfOne ==
  ASSUME NEW p \in Packets, NEW q \in Packets, KeyOf(p) = KeyOf(q)
  PROVE  p = q
<1>1. KeyOf(p) \in {p, Reverse(p)} /\ KeyOf(q) \in {q, Reverse(q)}
  BY OneKey
<1>2. Reverse(p) \notin Packets /\ Reverse(q) \notin Packets
      /\ Reverse(Reverse(p)) = p /\ Reverse(Reverse(q)) = q
  BY TuplesAre
<1> QED BY <1>1, <1>2, Zenon

LEMMA RivalsFinite ==
  ASSUME NEW T, NEW p
  PROVE  IsFiniteSet(RivalsIn(T, p)) /\ IsFiniteSet(FallbackSetFor(KeyOf(p)))
<1>1. RivalsIn(T, p) \subseteq Packets
  BY DEF RivalsIn, Unserved
<1>2. FallbackSetFor(KeyOf(p)) \subseteq FallbackWays
  BY SetsAre
<1> QED BY <1>1, <1>2, FS_Subset, RouteAssumption

LEMMA SameHits ==
  ASSUME OneWayPerKey', EntriesKept, NEW k, SettledIn(table, k)
  PROVE  HitsIn(table', k) = HitsIn(table, k)
<1>1. HitsIn(table, k) \subseteq HitsIn(table', k)
  BY SetsAre DEF HitsIn, EntriesKept
<1>2. CASE HitsIn(table, k) # {}
  <2>1. PICK i \in HitsIn(table, k) : TRUE
    BY <1>2
  <2>2. \A j \in HitsIn(table', k) : j = i
    BY <1>1, <2>1, OneHit DEF OneWayPerKey
  <2> QED BY <1>1, <2>1, <2>2
<1>3. CASE \A i \in SetFor(k) : table[i].valid
  BY <1>3, SetsAre DEF HitsIn, EntriesKept
<1> QED BY <1>1, <1>2, <1>3 DEF SettledIn

\* A full set stays full of the same flows, so a flow with a settled route had
\* room if it has.
LEMMA UnservedGrow ==
  ASSUME EntriesKept
  PROVE  Unserved(table) \subseteq Unserved(table')
<1>1. ASSUME NEW p \in Unserved(table) PROVE p \in Unserved(table')
  <2>1. \A i \in SetFor(KeyOf(p)) : table[i].valid /\ table[i].key # KeyOf(p)
    BY DEF Unserved, HitsIn
  <2>2. \A i \in SetFor(KeyOf(p)) : table'[i].valid /\ table'[i].key # KeyOf(p)
    BY <2>1, SetsAre DEF EntriesKept
  <2> QED BY <2>2 DEF Unserved, HitsIn
<1> QED BY <1>1

LEMMA RoomBefore ==
  ASSUME EntriesKept, OneWayPerKey', NEW p, SettledIn(table, KeyOf(p)), Room(table', p)
  PROVE  Room(table, p)
<1>1. CASE HitsIn(table', KeyOf(p)) # {}
  BY <1>1, SameHits DEF Room
<1>2. CASE HitsIn(table', KeyOf(p)) = {}
  <2> DEFINE c == Cardinality(RivalsIn(table, p))
             d == Cardinality(RivalsIn(table', p))
             f == Cardinality(FallbackSetFor(KeyOf(p)))
  <2>1. RivalsIn(table, p) \subseteq RivalsIn(table', p)
    BY UnservedGrow DEF RivalsIn
  <2>2. c <= d
    BY <2>1, RivalsFinite, FS_Subset
  <2>3. c \in Nat /\ d \in Nat /\ f \in Nat
    BY RivalsFinite, FS_CardinalityType
  <2>4. d <= f
    BY <1>2 DEF Room
  <2> HIDE DEF c, d, f
  <2>5. c <= f
    BY <2>2, <2>3, <2>4
  <2> QED BY <2>5 DEF Room, c, f
<1> QED BY <1>1, <1>2

\* Numbers of entries that are valid stay as they are, except for the one that is
\* handed out.
NumbersKept == \A i \in Ways : table[i].valid => table'[i].seq = table[i].seq

LEMMA NextKept ==
  ASSUME OneWayPerKey', EntriesKept, NumbersKept, NEW F, NEW p, NEW c,
         SettledIn(table, KeyOf(p)), NextIs(table, F, p, c)
  PROVE  NextIs(table', F, p, c)
<1>1. HitsIn(table', KeyOf(p)) = HitsIn(table, KeyOf(p))
  BY SameHits
<1>2. \A i \in HitsIn(table, KeyOf(p)) : table'[i].seq = table[i].seq
  BY SetsAre DEF HitsIn, NumbersKept
<1> QED BY <1>1, <1>2 DEF NextIs

\* What was numbered is on its route, which is settled.
LEMMA NumberedSettled ==
  ASSUME Routed, OnlyUdp(out), NEW s \in Slots, NEW i \in 1 .. Len(out[s]), out[s][i].seq >= 0
  PROVE  SettledIn(table, KeyOf(out[s][i].p))
<1>1. out[s][i].p.proto = Udp
  BY DEF OnlyUdp
<1>2. HasKey(out[s][i].p)
  BY <1>1 DEF HasKey
<1> QED BY <1>2 DEF Routed, OutOk, OnRoute

LEMMA WaysKept ==
  ASSUME EntriesKept, OwnWays(table, fallback)
  PROVE  OwnWays(table', fallback)
BY UnservedGrow DEF OwnWays

\* A step that pushes nothing and hands out no number.
LEMMA QuietSeq ==
  ASSUME RouteInv, RouteInv', EntriesKept, NumbersKept, SeqInv, Unnumbered(mid)', out' = out, fallback' = fallback
  PROVE  SeqInv'
<1>1. OnlyUdp(out') /\ OwnWays(table', fallback')
  BY WaysKept DEF SeqInv
<1>2. OneWayPerKey' /\ Routed /\ OnlyUdp(out)
  BY DEF RouteInv, SeqInv
<1>3. ASSUME NEW s \in Slots, NEW i \in 1 .. Len(out[s]), out[s][i].seq >= 0, Room(table', out[s][i].p)
      PROVE  Room(table, out[s][i].p) /\ SettledIn(table, KeyOf(out[s][i].p))
  BY <1>2, <1>3, NumberedSettled, RoomBefore
<1>4. AllAhead(table', fallback, out)
  <2> SUFFICES ASSUME NEW s \in Slots, NEW i \in 1 .. Len(out[s]), out[s][i].seq >= 0, Room(table', out[s][i].p)
               PROVE  \E k \in 1 .. Len(out[s]) :
                        out[s][k].p = out[s][i].p /\ AheadOf(table', fallback, out[s][i], out[s][k])
    BY DEF AllAhead
  <2>1. Room(table, out[s][i].p) /\ SettledIn(table, KeyOf(out[s][i].p))
    BY <1>3
  <2>2. PICK k \in 1 .. Len(out[s]) :
               out[s][k].p = out[s][i].p /\ AheadOf(table, fallback, out[s][i], out[s][k])
    BY <2>1 DEF SeqInv, AllAhead
  <2>3. PICK c \in 1 .. out[s][k].n - out[s][i].n + 1 :
               NextIs(table, fallback, out[s][i].p, (out[s][i].seq + c) % SeqMod)
    BY <2>2 DEF AheadOf
  <2>4. NextIs(table', fallback, out[s][i].p, (out[s][i].seq + c) % SeqMod)
    BY <1>2, <2>1, <2>3, NextKept
  <2> QED BY <2>2, <2>4 DEF AheadOf
<1>5. Rising(table', out)
  BY <1>3 DEF SeqInv, Rising
<1> QED BY <1>1, <1>4, <1>5 DEF SeqInv

LEMMA InRing ==
  ASSUME NEW o \in [Slots -> Seq(Jobs)], NEW s \in Slots, NEW i \in 1 .. Len(o[s])
  PROVE  o[s][i] \in Jobs /\ o[s][i].n \in Nat /\ o[s][i].seq \in Int
<1>1. o[s] \in Seq(Jobs)
  OBVIOUS
<1>2. o[s][i] \in Jobs
  BY <1>1
<1> QED BY <1>2 DEF Jobs

\* Numbers rise when the one pushed is ahead of those of its flow in the ring.
AllRiseTo(T, r, j) ==
  \A i \in 1 .. Len(r) : r[i].p = j.p /\ r[i].seq >= 0 /\ Room(T, j.p) => RisesTo(r[i], j)

LEMMA RisingPush ==
  ASSUME NEW T, NEW o \in [Slots -> Seq(Jobs)], Rising(T, o), NEW s \in Slots, NEW j \in Jobs,
         NEW g, g = [o EXCEPT ![s] = Append(@, j)], AllRiseTo(T, o[s], j)
  PROVE  Rising(T, g)
<1> SUFFICES ASSUME NEW x \in Slots, NEW i \in 1 .. Len(g[x]), NEW k \in 1 .. Len(g[x]), i < k,
                    g[x][i].p = g[x][k].p, g[x][i].seq >= 0, Room(T, g[x][i].p)
             PROVE  RisesTo(g[x][i], g[x][k])
  BY DEF Rising
<1>1. (k \in 1 .. Len(o[x]) /\ g[x][k] = o[x][k]) \/ (x = s /\ g[x][k] = j /\ k = Len(g[s]))
  BY PushSplit
<1>2. (i \in 1 .. Len(o[x]) /\ g[x][i] = o[x][i]) \/ (x = s /\ g[x][i] = j /\ i = Len(g[s]))
  BY PushSplit
<1>3. Len(g[s]) \in Nat /\ Len(o[s]) \in Nat /\ Len(g[s]) = Len(o[s]) + 1
  BY PushAt
<1>4. ~(x = s /\ i = Len(g[s]))
  BY <1>3
<1>5. i \in 1 .. Len(o[x]) /\ g[x][i] = o[x][i]
  BY <1>2, <1>4
<1>6. CASE k \in 1 .. Len(o[x]) /\ g[x][k] = o[x][k]
  BY <1>5, <1>6 DEF Rising
<1>7. CASE x = s /\ g[x][k] = j
  BY <1>5, <1>7 DEF AllRiseTo
<1> QED BY <1>1, <1>6, <1>7

\* A push of a packet that gets no number.
LEMMA PlainPush ==
  ASSUME RouteInv, RouteInv', SeqInv, Unnumbered(mid)', table' = table, fallback' = fallback,
         NEW s \in Slots, NEW j \in Jobs, j.seq = -1, ~(j.p \in Packets /\ j.p.proto = Udp),
         out' = [out EXCEPT ![s] = Append(@, j)]
  PROVE  SeqInv'
<1>0. out \in [Slots -> Seq(Jobs)]
  BY DEF RouteInv, TypeOK, RingTypes
<1>1. \A x \in Slots : \A i \in 1 .. Len(out'[x]) :
        (i \in 1 .. Len(out[x]) /\ out'[x][i] = out[x][i]) \/ (x = s /\ out'[x][i] = j /\ i = Len(out'[s]))
  BY <1>0, PushSplit
<1>2. ~(j.seq >= 0)
  OBVIOUS
<1>3. OnlyUdp(out')
  BY <1>1, <1>2 DEF OnlyUdp, SeqInv
<1>4. \A x \in Slots : \A i \in 1 .. Len(out[x]) : i \in 1 .. Len(out'[x]) /\ out'[x][i] = out[x][i]
  BY <1>0, PushStays
<1>5. AllAhead(table, fallback, out')
  <2> SUFFICES ASSUME NEW x \in Slots, NEW i \in 1 .. Len(out'[x]), out'[x][i].seq >= 0, Room(table, out'[x][i].p)
               PROVE  \E k \in 1 .. Len(out'[x]) :
                        out'[x][k].p = out'[x][i].p /\ AheadOf(table, fallback, out'[x][i], out'[x][k])
    BY DEF AllAhead
  <2>1. i \in 1 .. Len(out[x]) /\ out'[x][i] = out[x][i]
    BY <1>1, <1>2
  <2>2. PICK k \in 1 .. Len(out[x]) :
               out[x][k].p = out[x][i].p /\ AheadOf(table, fallback, out[x][i], out[x][k])
    BY <2>1 DEF SeqInv, AllAhead
  <2> QED BY <1>4, <2>1, <2>2
<1>6. Rising(table, out')
  <2>1. \A i \in 1 .. Len(out[s]) : ~(out[s][i].p = j.p /\ out[s][i].seq >= 0)
    BY DEF OnlyUdp, SeqInv
  <2>2. Rising(table, out) /\ AllRiseTo(table, out[s], j)
    BY <2>1 DEF SeqInv, AllRiseTo
  <2> QED BY <1>0, <2>2, RisingPush
<1> QED BY <1>3, <1>5, <1>6 DEF SeqInv

\* A finite set of numbers has a greatest one.
LEMMA MaxIn ==
  ASSUME NEW S \in SUBSET Nat, IsFiniteSet(S), S # {}
  PROVE  Max(S) \in S
<1> DEFINE Tops(Z) == \E x \in Z : \A y \in Z : x >= y
           Bad == {n \in Nat : \E Z \in SUBSET Nat : IsFiniteSet(Z) /\ Cardinality(Z) = n /\ Z # {} /\ ~Tops(Z)}
<1>1. Bad = {}
  <2> SUFFICES ASSUME Bad # {} PROVE FALSE
    OBVIOUS
  <2>1. PICK n \in Bad : \A m \in Bad : n <= m
    BY LeastNat
  <2>2. PICK Z \in SUBSET Nat : IsFiniteSet(Z) /\ Cardinality(Z) = n /\ Z # {} /\ ~Tops(Z)
    BY <2>1
  <2>3. PICK x \in Z : TRUE
    BY <2>2
  <2>4. IsFiniteSet(Z \ {x}) /\ Cardinality(Z \ {x}) = n - 1 /\ Cardinality(Z \ {x}) \in Nat /\ n \in Nat
    BY <2>1, <2>2, <2>3, FS_RemoveElement, FS_CardinalityType
  <2>5. n - 1 \notin Bad
    BY <2>1, <2>4
  <2>6. Z \ {x} = {} \/ Tops(Z \ {x})
    BY <2>4, <2>5
  <2>7. CASE Z \ {x} = {}
    BY <2>2, <2>3, <2>7
  <2>8. CASE Tops(Z \ {x})
    <3>1. PICK t \in Z \ {x} : \A y \in Z \ {x} : t >= y
      BY <2>8
    <3>2. x \in Nat /\ t \in Nat /\ Z \subseteq Nat
      BY <2>2, <2>3, <3>1
    <3>3. CASE t >= x
      BY <2>2, <3>1, <3>2, <3>3
    <3>4. CASE x >= t
      <4>1. \A y \in Z : x >= y
        BY <3>1, <3>2, <3>4
      <4> QED BY <2>2, <2>3, <4>1
    <3> QED BY <3>2, <3>3, <3>4
  <2> QED BY <2>6, <2>7, <2>8
<1>2. Cardinality(S) \in Nat
  BY FS_CardinalityType
<1>3. Tops(S)
  BY <1>1, <1>2
<1> QED BY <1>3 DEF Max

\* The push of a packet with its flow's next number n, which leaves the flow's next
\* number one further, as long as the flow has room, and those of others alone.
LEMMA NumberPush ==
  ASSUME RouteInv, Positions, SeqInv, NEW w \in Workers, pc[w] \in {"seq", "seq_retry"},
         NEW n \in Nat, NEW j, j = [job[w] EXCEPT !.seq = n],
         out' = [out EXCEPT ![outRing[w]] = Append(@, j)],
         \A q \in Packets : Room(table', q) => Room(table, q),
         Room(table, job[w].p) =>
           /\ \A c : NextIs(table, fallback, job[w].p, c) => c = n
           /\ NextIs(table', fallback', job[w].p, (n + 1) % SeqMod),
         \A q \in Packets : \A c : q # job[w].p /\ Room(table, q) /\ NextIs(table, fallback, q, c)
                                   => NextIs(table', fallback', q, c)
  PROVE  OnlyUdp(out') /\ AllAhead(table', fallback', out') /\ Rising(table', out')
<1> DEFINE p == job[w].p
           s == outRing[w]
<1>1. /\ p \in Packets /\ p.proto = Udp /\ job[w] \in Jobs /\ s \in Slots /\ w \in Busy
      /\ OnRoute(table, p, s)
  BY DEF RouteInv, Routed, BusyOk, Routing, Looking, Inserting, SeqInv, Unnumbered, TypeOK, ThreadTypes,
         RingTypes, Threads, Busy
<1>2. j \in Jobs /\ j.p = p /\ j.seq = n /\ j.n = job[w].n /\ j.n \in Nat
  BY <1>1 DEF Jobs
<1>3. out \in [Slots -> Seq(Jobs)] /\ out' = [out EXCEPT ![s] = Append(@, j)]
  BY DEF RouteInv, TypeOK, RingTypes
<1>4. /\ Room(table, p) => /\ \A c : NextIs(table, fallback, p, c) => c = n
                           /\ NextIs(table', fallback', p, (n + 1) % SeqMod)
      /\ \A q \in Packets : \A c : q # p /\ Room(table, q) /\ NextIs(table, fallback, q, c)
                                   => NextIs(table', fallback', q, c)
  OBVIOUS
<1>5. \A x \in Slots : \A k \in 1 .. Len(out[x]) : out[x][k].p = p => out[x][k].n < j.n
  BY <1>1, <1>2 DEF Positions, Ordered, OutFirst
<1> HIDE DEF p, s
<1>6. \A x \in Slots : \A i \in 1 .. Len(out'[x]) :
        (i \in 1 .. Len(out[x]) /\ out'[x][i] = out[x][i]) \/ (x = s /\ out'[x][i] = j /\ i = Len(out'[s]))
  BY <1>1, <1>2, <1>3, PushSplit
<1>7. /\ \A x \in Slots : \A i \in 1 .. Len(out[x]) : i \in 1 .. Len(out'[x]) /\ out'[x][i] = out[x][i]
      /\ Len(out'[s]) \in 1 .. Len(out'[s]) /\ out'[s][Len(out'[s])] = j
  BY <1>1, <1>2, <1>3, PushStays
<1>8. OnlyUdp(out')
  BY <1>1, <1>2, <1>6 DEF OnlyUdp, SeqInv
<1>9. SeqMod \in Nat \ {0}
  BY RouteAssumption
<1>10. ASSUME NEW x \in Slots, NEW i \in 1 .. Len(out[x]), out[x][i].p = p, out[x][i].seq >= 0, Room(table, p)
       PROVE  x = s /\ \E c \in 1 .. j.n - out[x][i].n : n = (out[x][i].seq + c) % SeqMod
  <2>1. x = s
    <3>1. OnRoute(table, p, x) /\ HasKey(p)
      BY <1>1, <1>10 DEF RouteInv, Routed, OutOk, HasKey
    <3> QED BY <1>1, <3>1 DEF OnRoute
  <2>2. PICK k \in 1 .. Len(out[x]) : out[x][k].p = p /\ AheadOf(table, fallback, out[x][i], out[x][k])
    BY <1>10 DEF SeqInv, AllAhead
  <2>3. PICK c \in 1 .. out[x][k].n - out[x][i].n + 1 :
               NextIs(table, fallback, p, (out[x][i].seq + c) % SeqMod)
    BY <1>10, <2>2 DEF AheadOf
  <2>4. n = (out[x][i].seq + c) % SeqMod
    BY <1>4, <1>10, <2>3
  <2>5. out[x][k].n \in Nat /\ out[x][i].n \in Nat /\ out[x][k].n < j.n
    BY <1>3, <1>5, <2>2, InRing
  <2>6. c \in 1 .. j.n - out[x][i].n
    BY <1>2, <2>3, <2>5
  <2> QED BY <2>1, <2>4, <2>6
<1>11. AllAhead(table', fallback', out')
  <2> SUFFICES ASSUME NEW x \in Slots, NEW i \in 1 .. Len(out'[x]), out'[x][i].seq >= 0, Room(table', out'[x][i].p)
               PROVE  \E k \in 1 .. Len(out'[x]) :
                        out'[x][k].p = out'[x][i].p /\ AheadOf(table', fallback', out'[x][i], out'[x][k])
    BY DEF AllAhead
  <2>0. out'[x][i].p \in Packets /\ Room(table, out'[x][i].p)
    BY <1>8 DEF OnlyUdp
  <2>1. CASE out'[x][i] = j
    <3>1. NextIs(table', fallback', p, (j.seq + 1) % SeqMod)
      BY <1>2, <1>4, <2>0, <2>1
    <3>2. 1 \in 1 .. j.n - j.n + 1
      BY <1>2
    <3>3. AheadOf(table', fallback', j, j)
      BY <1>2, <3>1, <3>2 DEF AheadOf
    <3> QED BY <2>1, <3>3
  <2>2. CASE i \in 1 .. Len(out[x]) /\ out'[x][i] = out[x][i] /\ out[x][i].p = p
    <3>1. PICK c \in 1 .. j.n - out[x][i].n : n = (out[x][i].seq + c) % SeqMod
      BY <1>10, <2>0, <2>2
    <3>2. out[x][i].n \in Nat /\ out[x][i].seq \in Nat
      BY <1>3, <2>2, InRing, SMTT(30)
    <3>3. c \in Nat /\ c + 1 \in 1 .. j.n - out[x][i].n + 1
      BY <1>2, <3>1, <3>2, SMTT(30)
    <3>4. (n + 1) % SeqMod = (out[x][i].seq + (c + 1)) % SeqMod
      BY <1>9, <3>1, <3>2, <3>3, AheadByOne
    <3>6. NextIs(table', fallback', p, (out[x][i].seq + (c + 1)) % SeqMod)
      BY <1>4, <2>0, <2>2, <3>4
    <3>7. AheadOf(table', fallback', out[x][i], j)
      BY <2>2, <3>3, <3>6 DEF AheadOf
    <3>8. x = s
      BY <1>10, <2>0, <2>2
    <3>9. Len(out'[x]) \in 1 .. Len(out'[x]) /\ out'[x][Len(out'[x])] = j
      BY <1>7, <3>8
    <3> QED BY <1>2, <2>2, <3>7, <3>9
  <2>3. CASE i \in 1 .. Len(out[x]) /\ out'[x][i] = out[x][i] /\ out[x][i].p # p
    <3>1. PICK k \in 1 .. Len(out[x]) :
                 out[x][k].p = out[x][i].p /\ AheadOf(table, fallback, out[x][i], out[x][k])
      BY <2>0, <2>3 DEF SeqInv, AllAhead
    <3>2. PICK c \in 1 .. out[x][k].n - out[x][i].n + 1 :
                 NextIs(table, fallback, out[x][i].p, (out[x][i].seq + c) % SeqMod)
      BY <3>1 DEF AheadOf
    <3>3. NextIs(table', fallback', out[x][i].p, (out[x][i].seq + c) % SeqMod)
      BY <1>4, <2>0, <2>3, <3>2
    <3>4. AheadOf(table', fallback', out[x][i], out[x][k])
      BY <3>3 DEF AheadOf
    <3> QED BY <1>7, <2>3, <3>1, <3>4
  <2> QED BY <1>6, <2>1, <2>2, <2>3
<1>12. Rising(table', out')
  <2>1. Rising(table', out)
    BY DEF SeqInv, Rising, OnlyUdp
  <2>2. ASSUME NEW i \in 1 .. Len(out[s]), out[s][i].p = j.p, out[s][i].seq >= 0, Room(table', j.p)
        PROVE  RisesTo(out[s][i], j)
    <3>1. Room(table, p)
      BY <1>1, <1>2, <2>2
    <3> QED BY <1>1, <1>2, <1>10, <2>2, <3>1 DEF RisesTo
  <2>3. AllRiseTo(table', out[s], j)
    BY <2>2 DEF AllRiseTo
  <2>4. out \in [Slots -> Seq(Jobs)] /\ s \in Slots /\ j \in Jobs /\ out' = [out EXCEPT ![s] = Append(@, j)]
    BY <1>1, <1>2, <1>3
  <2> QED BY <2>1, <2>3, <2>4, RisingPush
<1> QED BY <1>8, <1>11, <1>12

\* The number of an entry: the push of a packet whose flow has one.
LEMMA EntryPush ==
  ASSUME RouteInv, Positions, SeqInv, Unnumbered(mid)', fallback' = fallback, NEW w \in Workers,
         pc[w] \in {"seq", "seq_retry"}, Hits(Key(w)) # {}, SeqOfEntry(w)
  PROVE  SeqInv'
<1> DEFINE a == Min(Hits(Key(w)))
           d == Dir(w)
           p == job[w].p
           n == table[a].seq[d]
           j == [job[w] EXCEPT !.seq = n]
<1>1. a \in Ways /\ a \in HitsIn(table, KeyOf(p))
  BY HitIs DEF Hits, HitsIn, Key
<1>2. p \in Packets
  BY DEF RouteInv, Routed, BusyOk, Routing, Looking, Inserting
<1>3. table \in [Ways -> Entries] /\ d \in 0 .. 1 /\ d = Direction(p)
  BY DEF RouteInv, TypeOK, TableTypes, Dir, Direction
<1>4. /\ out' = [out EXCEPT ![outRing[w]] = Append(@, j)]
      /\ table' = [table EXCEPT ![a].seq[d] = (@ + 1) % SeqMod]
  BY DEF SeqOfEntry, Push
<1> HIDE DEF a, d
<1>5. table[a] \in Entries
  BY <1>1, <1>3
<1>6. n \in Nat /\ table[a].seq \in [0 .. 1 -> Nat]
  BY <1>3, <1>5 DEF Entries
<1>7. \A i \in Ways : i # a => table'[i] = table[i]
  BY <1>3, <1>4
<1>8. /\ table'[a].valid = table[a].valid /\ table'[a].key = table[a].key
      /\ table'[a].seq = [table[a].seq EXCEPT ![d] = (@ + 1) % SeqMod]
  BY <1>1, <1>3, <1>4, <1>5 DEF Entries
<1>9. table'[a].seq[d] = (n + 1) % SeqMod
  BY <1>3, <1>6, <1>8
<1> HIDE DEF n
<1>10. \A k : HitsIn(table', k) = HitsIn(table, k)
  BY <1>7, <1>8, SetsAre DEF HitsIn
<1>11. Unserved(table') = Unserved(table)
  <2>1. \A i \in Ways : table'[i].valid = table[i].valid
    BY <1>7, <1>8
  <2> QED BY <1>10, <2>1, SetsAre DEF Unserved
<1>12. \A q \in Packets : Room(table', q) => Room(table, q)
  BY <1>10, <1>11 DEF Room, RivalsIn
<1>13. \A i \in HitsIn(table, KeyOf(p)) : i = a
  BY <1>1, OneHit DEF RouteInv, OneWayPerKey
<1>14. /\ \A c : NextIs(table, fallback, p, c) => c = n
       /\ NextIs(table', fallback', p, (n + 1) % SeqMod)
  BY <1>1, <1>3, <1>9, <1>10, <1>13 DEF NextIs, n
<1>15. ASSUME NEW q \in Packets, NEW c, q # p, NextIs(table, fallback, q, c)
       PROVE  NextIs(table', fallback', q, c)
  <2>1. KeyOf(q) # KeyOf(p)
    BY <1>2, <1>15, KeyOfOne
  <2>2. \A i \in HitsIn(table, KeyOf(q)) : table'[i] = table[i]
    BY <1>1, <1>7, <2>1, SetsAre DEF HitsIn
  <2> QED BY <1>10, <1>15, <2>2 DEF NextIs
<1>16. OnlyUdp(out') /\ AllAhead(table', fallback', out') /\ Rising(table', out')
  BY <1>4, <1>6, <1>12, <1>14, <1>15, NumberPush
<1>17. OwnWays(table', fallback')
  BY <1>11 DEF OwnWays, SeqInv
<1> QED BY <1>16, <1>17 DEF SeqInv

\* The way that is given up is one of the flow's set.
LEMMA VictimIn ==
  ASSUME SeqTypes, NEW w \in Workers, job[w].p \in Packets
  PROVE  /\ Victim(w) \in FallbackSetFor(Key(w))
         /\ (\E i \in FallbackSetFor(Key(w)) : ~fallback[w][i].valid) => ~fallback[w][Victim(w)].valid
<1> DEFINE S == FallbackSetFor(Key(w))
           free == {i \in S : ~fallback[w][i].valid}
           oldest == {i \in S : \A j \in S : fallback[w][i].stamp <= fallback[w][j].stamp}
           stamps == {fallback[w][i].stamp : i \in S}
<1>1. S # {} /\ S \in SUBSET FallbackWays /\ S \in SUBSET Nat /\ IsFiniteSet(S)
  BY SetsAre, FS_Subset, RouteAssumption DEF Key
<1> HIDE DEF S
<1>2. CASE free # {}
  <2>1. free \subseteq S
    OBVIOUS
  <2>2. free \in SUBSET Nat /\ IsFiniteSet(free)
    BY <1>1, <2>1, FS_Subset
  <2>3. Victim(w) = Max(free)
    BY <1>2 DEF Victim, S
  <2>4. Max(free) \in free
    BY <1>2, <2>2, MaxIn
  <2> QED BY <2>3, <2>4 DEF S
<1>3. CASE free = {}
  <2>1. \A i \in S : fallback[w][i].stamp \in Nat
    BY <1>1 DEF SeqTypes, Fallbacks
  <2>2. stamps \in SUBSET Nat /\ stamps # {}
    BY <1>1, <2>1
  <2>3. PICK m \in stamps : \A y \in stamps : m <= y
    BY <2>2, LeastNat
  <2>7. PICK i \in S : fallback[w][i].stamp = m
    OBVIOUS
  <2>8. i \in oldest
    BY <2>3, <2>7
  <2>4. oldest # {} /\ oldest \in SUBSET Nat
    BY <1>1, <2>8
  <2>5. Victim(w) = Min(oldest)
    BY <1>3 DEF Victim, S
  <2> HIDE DEF oldest
  <2>6. Min(oldest) \in oldest
    BY <2>4, MinIn
  <2> QED BY <1>3, <2>5, <2>6 DEF oldest, S
<1> QED BY <1>2, <1>3

\* As long as the flows that meet in a fallback set fit in it, one that has no way
\* there finds a free one.
LEMMA FreeWay ==
  ASSUME SeqTypes, NEW w \in Workers, OwnWays(table, fallback), Mine(w) = {}, job[w].p \in Unserved(table),
         Room(table, job[w].p), w = HashRoute(KeyOf(job[w].p)).worker
  PROVE  ~fallback[w][Victim(w)].valid
<1> DEFINE p == job[w].p
           S == FallbackSetFor(KeyOf(p))
           R == RivalsIn(table, p)
           f == [i \in S |-> CHOOSE q \in R : fallback[w][i].key = KeyOf(q)]
<1>0. p \in Packets /\ S = FallbackSetFor(Key(w)) /\ S \subseteq FallbackWays /\ HitsIn(table, KeyOf(p)) = {}
  BY SetsAre DEF Unserved, Key
<1>1. \E i \in S : ~fallback[w][i].valid
  <2> SUFFICES ASSUME \A i \in S : fallback[w][i].valid PROVE FALSE
    OBVIOUS
  <2>2. ASSUME NEW i \in S PROVE \E q \in R : fallback[w][i].key = KeyOf(q)
    <3>1. PICK q \in Unserved(table) : /\ fallback[w][i].key = KeyOf(q) /\ i \in FallbackSetFor(KeyOf(q))
                                       /\ w = HashRoute(KeyOf(q)).worker
      BY <1>0 DEF OwnWays
    <3>2. FallbackSetFor(KeyOf(q)) = FallbackSetFor(KeyOf(p))
      BY <3>1 DEF FallbackSetFor
    <3> QED BY <3>1, <3>2 DEF RivalsIn
  <2>3. ASSUME NEW i \in S PROVE f[i] \in R /\ fallback[w][i].key = KeyOf(f[i])
    BY <2>2
  <2>4. \A i \in S : fallback[w][i].key # KeyOf(p)
    BY <1>0 DEF Mine, Key
  <2> HIDE DEF f
  <2>5. \A i \in S : f[i] \in R \ {p}
    BY <2>3, <2>4
  <2>6. \A i, k \in S : f[i] = f[k] => i = k
    BY <1>0, <2>3 DEF OwnWays
  <2>7. f \in Injection(S, R \ {p})
    <3>1. f \in [S -> R \ {p}] /\ DOMAIN f = S
      BY <2>5 DEF f
    <3> QED BY <2>6, <3>1 DEF Injection, IsInjective
  <2>8. p \in R
    BY DEF RivalsIn
  <2>9. IsFiniteSet(R) /\ IsFiniteSet(S)
    BY RivalsFinite
  <2>10. IsFiniteSet(R \ {p}) /\ Cardinality(R \ {p}) = Cardinality(R) - 1
    BY <2>8, <2>9, FS_RemoveElement
  <2>11. Cardinality(S) <= Cardinality(R \ {p})
    BY <2>7, <2>10, FS_Injection
  <2>12. Cardinality(R) \in Nat /\ Cardinality(S) \in Nat
    BY <2>9, FS_CardinalityType
  <2>13. Cardinality(R) <= Cardinality(S)
    BY <1>0 DEF Room
  <2> QED BY <2>10, <2>11, <2>12, <2>13
<1> QED BY <1>0, <1>1, VictimIn

\* The number of a fallback way: the push of a packet whose flow has no entry.
LEMMA FallbackPush ==
  ASSUME RouteInv, Positions, SeqInv, Unnumbered(mid)', NEW w \in Workers, SeqRetry(w), Hits(Key(w)) = {}
  PROVE  SeqInv'
<1> DEFINE i == IF Mine(w) # {} THEN Min(Mine(w)) ELSE Victim(w)
           next == IF Mine(w) # {} THEN fallback[w][i].next ELSE EmptyFallback.next
           d == Dir(w)
           p == job[w].p
           n == next[d]
           j == [job[w] EXCEPT !.seq = n]
           e == [valid |-> TRUE, key |-> Key(w), stamp |-> (stamp[w] + 1) % SeqMod,
                 next |-> [next EXCEPT ![d] = (@ + 1) % SeqMod]]
<1>0. SeqTypes /\ OwnWays(table, fallback)
  BY DEF RouteInv, SeqInv
<1>1. /\ out' = [out EXCEPT ![outRing[w]] = Append(@, j)] /\ table' = table
      /\ fallback' = [fallback EXCEPT ![w][i] = e] /\ pc[w] = "seq_retry"
  BY <1>0 DEF SeqRetry, Push, SeqTypes
<1>2. p \in Packets /\ p.proto = Udp /\ Key(w) = KeyOf(p)
  BY <1>1 DEF RouteInv, Routed, BusyOk, Routing, Looking, Inserting, SeqInv, Unnumbered, Key, Threads
<1>3. fallback \in [Workers -> [FallbackWays -> Fallbacks]] /\ d \in 0 .. 1 /\ d = Direction(p)
  BY <1>0 DEF SeqTypes, Dir, Direction
<1>4. /\ Mine(w) # {} => i \in Mine(w)
      /\ i \in FallbackSetFor(KeyOf(p)) /\ i \in FallbackWays
  <2>1. Mine(w) \in SUBSET Nat /\ Mine(w) \in SUBSET FallbackSetFor(KeyOf(p))
    BY <1>2, SetsAre, RouteAssumption DEF Mine
  <2>2. Mine(w) # {} => Min(Mine(w)) \in Mine(w)
    BY <2>1, MinIn
  <2>3. Victim(w) \in FallbackSetFor(KeyOf(p))
    BY <1>0, <1>2, VictimIn
  <2> QED BY <2>1, <2>2, <2>3, SetsAre
<1>5. next \in [0 .. 1 -> Nat]
  <2>1. CASE Mine(w) # {}
    <3> HIDE DEF i
    <3> QED BY <1>3, <1>4, <2>1 DEF Fallbacks
  <2>2. CASE Mine(w) = {}
    BY <2>2 DEF EmptyFallback
  <2> QED BY <2>1, <2>2
<1>6. /\ Mine(w) # {} => next = fallback[w][i].next
      /\ Mine(w) = {} => i = Victim(w)
  OBVIOUS
<1> HIDE DEF i, next, d, p
<1>7. n \in Nat /\ e.valid /\ e.key = KeyOf(p) /\ e.next[d] = (n + 1) % SeqMod
  BY <1>2, <1>3, <1>5
<1> HIDE DEF n, e
<1>8. /\ \A v \in Workers : v # w => fallback'[v] = fallback[v]
      /\ \A k \in FallbackWays : fallback'[w][k] = IF k = i THEN e ELSE fallback[w][k]
  BY <1>1, <1>3
<1>9. HitsIn(table, KeyOf(p)) = {} /\ p \in Unserved(table) /\ w = HashRoute(KeyOf(p)).worker
  <2>1. HitsIn(table, KeyOf(p)) = {}
    BY <1>2 DEF HitsIn, Hits
  <2>2. HasKey(p)
    BY <1>2 DEF HasKey
  <2>3. OnRoute(table, p, job[w].slot) /\ OnWorker(table, p, w)
    BY <1>1, <1>2 DEF RouteInv, Routed, BusyOk, p
  <2> QED BY <1>2, <2>1, <2>2, <2>3 DEF OnRoute, OnWorker, SettledIn, RouteIn, Unserved
<1>10. \A k \in FallbackWays : fallback[w][k].valid /\ fallback[w][k].key = KeyOf(p) => Mine(w) # {} /\ k = i
  <2> SUFFICES ASSUME NEW k \in FallbackWays, fallback[w][k].valid, fallback[w][k].key = KeyOf(p)
               PROVE  Mine(w) # {} /\ k = i
    OBVIOUS
  <2>1. PICK q \in Unserved(table) : fallback[w][k].key = KeyOf(q) /\ k \in FallbackSetFor(KeyOf(q))
    BY <1>0 DEF OwnWays
  <2>2. k \in Mine(w)
    BY <1>2, <2>1 DEF Mine
  <2>3. fallback[w][i].valid /\ fallback[w][i].key = KeyOf(p)
    BY <1>2, <1>4, <2>2 DEF Mine
  <2> QED BY <1>0, <1>4, <2>2, <2>3 DEF OwnWays
<1>11. OwnWays(table, fallback')
  <2> SUFFICES ASSUME NEW v \in Workers, NEW k \in FallbackWays, fallback'[v][k].valid
               PROVE  /\ \E q \in Unserved(table) : /\ fallback'[v][k].key = KeyOf(q)
                                                    /\ k \in FallbackSetFor(KeyOf(q))
                                                    /\ v = HashRoute(KeyOf(q)).worker
                      /\ \A m \in FallbackWays :
                           fallback'[v][m].valid /\ fallback'[v][m].key = fallback'[v][k].key => m = k
    BY DEF OwnWays
  <2>1. CASE v # w
    BY <1>0, <1>8, <2>1 DEF OwnWays
  <2>2. CASE v = w
    <3>1. \E q \in Unserved(table) : /\ fallback'[v][k].key = KeyOf(q) /\ k \in FallbackSetFor(KeyOf(q))
                                     /\ v = HashRoute(KeyOf(q)).worker
      <4>1. CASE k = i
        BY <1>4, <1>7, <1>8, <1>9, <2>2, <4>1
      <4>2. CASE k # i
        BY <1>0, <1>8, <2>2, <4>2 DEF OwnWays
      <4> QED BY <4>1, <4>2
    <3>2. ASSUME NEW m \in FallbackWays, fallback'[v][m].valid, fallback'[v][m].key = fallback'[v][k].key, m # k
          PROVE  FALSE
      <4>1. CASE m # i /\ k # i
        BY <1>0, <1>8, <2>2, <3>2, <4>1 DEF OwnWays
      <4>2. CASE m = i
        BY <1>7, <1>8, <1>10, <2>2, <3>2, <4>2
      <4>3. CASE k = i
        BY <1>7, <1>8, <1>10, <2>2, <3>2, <4>3
      <4> QED BY <4>1, <4>2, <4>3
    <3> QED BY <3>1, <3>2
  <2> QED BY <2>1, <2>2
<1>12. ASSUME NEW c, NextIs(table, fallback, p, c) PROVE c = n
  <2>1. PICK k \in FallbackSetFor(KeyOf(p)) :
               fallback[w][k].valid /\ fallback[w][k].key = KeyOf(p) /\ fallback[w][k].next[d] = c
    BY <1>3, <1>9, <1>12 DEF NextIs
  <2>2. Mine(w) # {} /\ k = i
    BY <1>10, <2>1, SetsAre
  <2> QED BY <1>6, <2>1, <2>2 DEF n
<1>13. NextIs(table', fallback', p, (n + 1) % SeqMod)
  <2>1. fallback'[w][i] = e
    BY <1>4, <1>8
  <2>2. fallback'[w][i].valid /\ fallback'[w][i].key = KeyOf(p)
        /\ fallback'[w][i].next[Direction(p)] = (n + 1) % SeqMod
    BY <1>3, <1>7, <2>1
  <2> QED BY <1>1, <1>4, <1>9, <2>2 DEF NextIs
<1>14. ASSUME NEW q \in Packets, NEW c, q # p, Room(table, q), NextIs(table, fallback, q, c)
       PROVE  NextIs(table', fallback', q, c)
  <2>1. CASE HitsIn(table, KeyOf(q)) # {}
    BY <1>1, <1>14, <2>1 DEF NextIs
  <2>2. CASE HitsIn(table, KeyOf(q)) = {}
    <3> DEFINE v == HashRoute(KeyOf(q)).worker
    <3>1. PICK k \in FallbackSetFor(KeyOf(q)) :
                 fallback[v][k].valid /\ fallback[v][k].key = KeyOf(q) /\ fallback[v][k].next[Direction(q)] = c
      BY <1>14, <2>2 DEF NextIs
    <3>2. v \in Workers /\ k \in FallbackWays
      BY HashesAre, SetsAre DEF Tuples, Routes
    <3>3. ~(v = w /\ k = i)
      <4> SUFFICES ASSUME v = w, k = i PROVE FALSE
        OBVIOUS
      <4>1. Mine(w) = {}
        <5>1. KeyOf(q) # KeyOf(p)
          BY <1>2, <1>14, KeyOfOne
        <5> QED BY <1>2, <1>4, <3>1, <5>1 DEF Mine
      <4>2. FallbackSetFor(KeyOf(q)) = FallbackSetFor(KeyOf(p))
        BY <1>4, <3>1 DEF FallbackSetFor
      <4>3. RivalsIn(table, q) = RivalsIn(table, p)
        BY <1>9, <4>2 DEF RivalsIn
      <4>4. Room(table, p)
        BY <1>14, <2>2, <4>2, <4>3 DEF Room
      <4>5. ~fallback[w][Victim(w)].valid
        BY <1>0, <1>9, <4>1, <4>4, FreeWay DEF p
      <4> QED BY <1>6, <3>1, <4>1, <4>5
    <3> HIDE DEF v
    <3>4. fallback'[v][k] = fallback[v][k]
      BY <1>8, <3>2, <3>3
    <3> QED BY <1>1, <2>2, <3>1, <3>4 DEF NextIs, v
  <2> QED BY <2>1, <2>2
<1>15. OnlyUdp(out') /\ AllAhead(table', fallback', out') /\ Rising(table', out')
  <2>1. \A q \in Packets : Room(table', q) => Room(table, q)
    BY <1>1
  <2> QED BY <1>1, <1>7, <1>12, <1>13, <1>14, <2>1, NumberPush DEF p
<1> QED BY <1>1, <1>11, <1>15 DEF SeqInv

\* Packets stay without a number until they are pushed: a thread moves on, with
\* its packet in hand or after it has handed it over.
LEMMA UnnumberedMoves ==
  ASSUME RouteInv, Unnumbered(mid), NEW t \in Threads, pc[t] # "idle", NEW l, pc' = [pc EXCEPT ![t] = l],
         job' = job, \/ mid' = mid
                     \/ \E v \in Workers : \E j \in Jobs : j.seq = -1 /\ mid' = [mid EXCEPT ![v] = Append(@, j)]
  PROVE  Unnumbered(mid)'
<1>0. pc \in [Threads -> Places] /\ mid \in [Workers -> Seq(Jobs)] /\ Workers \subseteq Threads
  BY DEF RouteInv, TypeOK, ThreadTypes, RingTypes, Threads
<1>1. \A u \in Threads : pc'[u] # "idle" => pc[u] # "idle"
  BY <1>0
<1>2. \A w \in Workers : \A i \in 1 .. Len(mid'[w]) : mid'[w][i].seq = -1
  <2>1. CASE mid' = mid
    BY <2>1 DEF Unnumbered
  <2>2. ASSUME NEW v \in Workers, NEW j \in Jobs, j.seq = -1, mid' = [mid EXCEPT ![v] = Append(@, j)]
        PROVE  \A w \in Workers : \A i \in 1 .. Len(mid'[w]) : mid'[w][i].seq = -1
    <3>1. \A w \in Workers : \A i \in 1 .. Len(mid'[w]) :
            (i \in 1 .. Len(mid[w]) /\ mid'[w][i] = mid[w][i]) \/ (w = v /\ mid'[w][i] = j /\ i = Len(mid'[v]))
      BY <1>0, <2>2, PushSplit
    <3> QED BY <2>2, <3>1 DEF Unnumbered
  <2> QED BY <2>1, <2>2
<1> QED BY <1>0, <1>1, <1>2 DEF Unnumbered

LEMMA ReturnSeq ==
  ASSUME RouteInv, RouteInv', SeqInv, NEW t \in Threads, pc[t] \in Routing, NEW r \in Routes, Return(t, r),
         UNCHANGED <<table, fallback, job>>
  PROVE  SeqInv'
<1> DEFINE j == [job[t] EXCEPT !.slot = r.slot]
<1>1. job[t] \in Jobs /\ r.slot \in Slots /\ r.worker \in Workers /\ pc[t] # "idle" /\ job[t].seq = -1
  BY DEF RouteInv, TypeOK, ThreadTypes, Routes, Routing, Looking, Inserting, SeqInv, Unnumbered
<1>2. j \in Jobs /\ j.p = job[t].p /\ j.seq = -1
  BY <1>1 DEF Jobs
<1> HIDE DEF j
<1>3. pc' = [pc EXCEPT ![t] = IF t # Rx /\ FromLan(t) THEN "seq_retry" ELSE "idle"]
  BY ReturnMoves DEF RouteInv
<1>4. EntriesKept /\ NumbersKept
  BY TableAlone DEF NumbersKept
<1>5. CASE t = Rx /\ out' = out /\ mid' = [mid EXCEPT ![r.worker] = Append(@, j)]
  <2>1. Unnumbered(mid)'
    BY <1>1, <1>2, <1>3, <1>5, UnnumberedMoves DEF SeqInv
  <2> QED BY <1>4, <1>5, <2>1, QuietSeq
<1>6. CASE UNCHANGED <<outRing, mid, out>>
  <2>1. Unnumbered(mid)'
    BY <1>1, <1>3, <1>6, UnnumberedMoves DEF SeqInv
  <2> QED BY <1>4, <1>6, <2>1, QuietSeq
<1>7. CASE t \in Workers /\ ~FromLan(t) /\ mid' = mid /\ out' = [out EXCEPT ![r.slot] = Append(@, j)]
  <2>1. Unnumbered(mid)'
    BY <1>1, <1>3, <1>7, UnnumberedMoves DEF SeqInv
  <2> QED BY <1>1, <1>2, <1>7, <2>1, PlainPush DEF FromLan
<1> QED BY <1>5, <1>6, <1>7, ReturnMoves DEF RouteInv, j

\* A step of a lookup that does not return.
LEMMA LookingSeq ==
  ASSUME RouteInv, RouteInv', SeqInv, EntriesKept, NumbersKept, NEW t \in Threads, pc[t] # "idle",
         NEW l, pc' = [pc EXCEPT ![t] = l], UNCHANGED <<job, mid, out, fallback>>
  PROVE  SeqInv'
<1>1. Unnumbered(mid)'
  BY UnnumberedMoves DEF SeqInv
<1> QED BY <1>1, QuietSeq

LEMMA LookupSeq ==
  ASSUME RouteInv, RouteInv', EntriesKept, SeqInv, NEW t \in Threads, RouteStep(t)
  PROVE  SeqInv'
<1>0. table' = table => NumbersKept
  BY DEF NumbersKept
<1>1. CASE Scan(t)
  <2>1. CASE Hits(Key(t)) = {}
    BY <1>0, <1>1, <2>1, LookingSeq DEF Scan, shared
  <2>2. CASE Hits(Key(t)) # {}
    <3>1. Min(Hits(Key(t))) \in Ways
      BY <2>2, HitIs DEF Hits
    <3>2. RouteOf(Min(Hits(Key(t)))) \in Routes
      BY <3>1, RouteTypes DEF RouteInv, TypeOK
    <3>3. pc[t] \in Routing /\ UNCHANGED <<table, fallback, job>> /\ Return(t, RouteOf(Min(Hits(Key(t)))))
      BY <1>1, <2>2 DEF Scan, shared, Routing, Looking
    <3> QED BY <3>2, <3>3, ReturnSeq
  <2> QED BY <2>1, <2>2
<1>2. CASE InsertLock(t)
  BY <1>0, <1>2, LookingSeq DEF InsertLock
<1>3. CASE Rescan(t)
  <2>1. pc[t] # "idle" /\ UNCHANGED <<table, job, mid, out, fallback>>
    BY <1>3 DEF Rescan, shared
  <2>2. pc' = [pc EXCEPT ![t] = "unlock"] \/ pc' = [pc EXCEPT ![t] = "write"]
    BY <1>3 DEF Rescan
  <2> QED BY <1>0, <2>1, <2>2, LookingSeq
<1>4. ASSUME pc[t] \in Inserting, NEW e, table' = [table EXCEPT ![empty[t]] = e]
      PROVE  NumbersKept
  <2>1. empty[t] \in Ways /\ ~table[empty[t]].valid /\ table \in [Ways -> Entries]
    BY <1>4 DEF RouteInv, TypeOK, TableTypes, ThreadTypes, WayInHand
  <2>2. \A i \in Ways : i # empty[t] => table'[i] = table[i]
    BY <1>4, <2>1
  <2> QED BY <2>1, <2>2 DEF NumbersKept
<1>5. CASE WriteKey(t)
  <2>1. pc[t] = "write" /\ pc' = [pc EXCEPT ![t] = "fields"] /\ UNCHANGED <<job, mid, out, fallback>>
        /\ table' = [table EXCEPT ![empty[t]] = [@ EXCEPT !.key = Key(t)]]
    BY <1>5 DEF WriteKey
  <2>2. NumbersKept
    BY <1>4, <2>1 DEF Inserting
  <2> QED BY <2>1, <2>2, LookingSeq
<1>6. CASE WriteFields(t)
  <2>1. pc[t] = "fields" /\ pc' = [pc EXCEPT ![t] = "publish"] /\ UNCHANGED <<job, mid, out, fallback>>
        /\ table' = [table EXCEPT ![empty[t]] =
                 [@ EXCEPT !.seq = EmptyEntry.seq, !.worker = route[t].worker, !.slot = route[t].slot]]
    BY <1>6 DEF WriteFields
  <2>2. NumbersKept
    BY <1>4, <2>1 DEF Inserting
  <2> QED BY <2>1, <2>2, LookingSeq
<1>7. CASE PublishEntry(t)
  <2>1. pc[t] = "publish" /\ pc' = [pc EXCEPT ![t] = "unlock"] /\ UNCHANGED <<job, mid, out, fallback>>
        /\ table' = [table EXCEPT ![empty[t]] = [@ EXCEPT !.valid = TRUE]]
    BY <1>7 DEF PublishEntry
  <2>2. NumbersKept
    BY <1>4, <2>1 DEF Inserting
  <2> QED BY <2>1, <2>2, LookingSeq
<1>8. CASE InsertUnlock(t)
  <2>1. route[t] \in Routes /\ pc[t] \in Routing /\ UNCHANGED <<table, fallback, job>> /\ Return(t, route[t])
    BY <1>8 DEF InsertUnlock, RouteInv, TypeOK, ThreadTypes, Routing
  <2> QED BY <2>1, ReturnSeq
<1> QED BY <1>1, <1>2, <1>3, <1>5, <1>6, <1>7, <1>8 DEF RouteStep

\* dp_next_udp_tx_seq, with either source of the number.
LEMMA NumberSeq ==
  ASSUME RouteInv, RouteInv', Positions, EntriesKept, SeqInv, NEW w \in Workers, SeqLookup(w) \/ SeqRetry(w)
  PROVE  SeqInv'
<1>1. /\ w \in Threads /\ pc[w] \in {"seq", "seq_retry"} /\ UNCHANGED <<job, mid>>
      /\ pc' = [pc EXCEPT ![w] = "scan"] \/ pc' = [pc EXCEPT ![w] = "idle"]
  BY DEF Threads, SeqLookup, SeqRetry, SeqOfEntry, Push
<1>2. Unnumbered(mid)'
  BY <1>1, UnnumberedMoves DEF SeqInv
<1>3. CASE Hits(Key(w)) # {}
  BY <1>1, <1>2, <1>3, EntryPush DEF SeqLookup, SeqRetry
<1>4. CASE Hits(Key(w)) = {} /\ SeqLookup(w)
  <2>1. UNCHANGED <<out, table, fallback>>
    BY <1>4 DEF SeqLookup
  <2>2. NumbersKept
    BY <2>1 DEF NumbersKept
  <2> QED BY <1>2, <2>1, <2>2, QuietSeq
<1>5. CASE Hits(Key(w)) = {} /\ SeqRetry(w)
  BY <1>2, <1>5, FallbackPush
<1> QED BY <1>3, <1>4, <1>5

\* A thread takes a packet, which has no number.
LEMMA UnnumberedTakes ==
  ASSUME RouteInv, Unnumbered(mid), NEW t \in Threads, NEW l, NEW j, j.seq = -1,
         pc' = [pc EXCEPT ![t] = l], job' = [job EXCEPT ![t] = j],
         t \in Workers /\ l # "idle" /\ j.p \in Packets => j.p.proto = Udp,
         \A w \in Workers : \A i \in 1 .. Len(mid'[w]) : mid'[w][i].seq = -1
  PROVE  Unnumbered(mid)'
<1>1. pc \in [Threads -> Places] /\ job = [u \in Threads |-> job[u]] /\ Workers \subseteq Threads
  BY DEF RouteInv, TypeOK, ThreadTypes, Threads
<1>2. /\ pc'[t] = l /\ job'[t] = j
      /\ \A u \in Threads : u # t => pc'[u] = pc[u] /\ job'[u] = job[u]
  BY <1>1
<1> QED BY <1>1, <1>2 DEF Unnumbered

LEMMA RxTakesSeq ==
  ASSUME RouteInv, RouteInv', EntriesKept, SeqInv, NEW p \in Packets, RxTakes(p), arrived \in Nat
  PROVE  SeqInv'
<1> DEFINE j == NewJob(p, arrived', 0)
           r == HashRoute(p)
           h == [j EXCEPT !.slot = r.slot]
<1>1. /\ job' = [job EXCEPT ![Rx] = j] /\ j.seq = -1 /\ Rx \in Threads /\ Rx \notin Workers
      /\ UNCHANGED <<table, fallback, out>>
  BY Sizes DEF RxTakes, NewJob, shared, Threads
<1>2. NumbersKept
  BY <1>1 DEF NumbersKept
<1>3. mid \in [Workers -> Seq(Jobs)] /\ \A w \in Workers : \A i \in 1 .. Len(mid[w]) : mid[w][i].seq = -1
  BY DEF RouteInv, TypeOK, RingTypes, SeqInv, Unnumbered
<1>4. Unnumbered(mid)'
  <2>1. CASE HasKey(p)
    <3>1. pc' = [pc EXCEPT ![Rx] = "scan"] /\ mid' = mid
      BY <2>1 DEF RxTakes
    <3> HIDE DEF j
    <3> QED BY <1>1, <1>3, <3>1, UnnumberedTakes DEF SeqInv
  <2>2. CASE ~HasKey(p)
    <3>1. pc' = [pc EXCEPT ![Rx] = "idle"] /\ mid' = [mid EXCEPT ![r.worker] = Append(@, h)]
      BY <2>2 DEF RxTakes, HandOver
    <3>2. r.worker \in Workers /\ r.slot \in Slots
      BY HashesAre DEF Tuples, Routes
    <3>3. h \in Jobs /\ h.seq = -1
      <4>1. arrived' \in Nat
        BY DEF RxTakes
      <4> QED BY <3>2, <4>1, Sizes DEF NewJob, Jobs, Tuples
    <3> HIDE DEF h, r, j
    <3>4. \A w \in Workers : \A i \in 1 .. Len(mid'[w]) :
            \/ i \in 1 .. Len(mid[w]) /\ mid'[w][i] = mid[w][i]
            \/ w = r.worker /\ mid'[w][i] = h /\ i = Len(mid'[r.worker])
      BY <1>3, <3>1, <3>2, <3>3, PushSplit
    <3>5. \A w \in Workers : \A i \in 1 .. Len(mid'[w]) : mid'[w][i].seq = -1
      BY <1>3, <3>3, <3>4
    <3> QED BY <1>1, <3>1, <3>5, UnnumberedTakes DEF SeqInv
  <2> QED BY <2>1, <2>2
<1> QED BY <1>1, <1>2, <1>4, QuietSeq

LEMMA TakeLocalSeq ==
  ASSUME RouteInv, RouteInv', EntriesKept, SeqInv, NEW w \in Workers, TakeLocal(w)
  PROVE  SeqInv'
<1> DEFINE j == Head(mid[w])
           r == RingFor(w, j)
<1>1. /\ job' = [job EXCEPT ![w] = j] /\ UNCHANGED <<table, fallback>> /\ w \in Threads
      /\ mid[w] # <<>> /\ mid' = [mid EXCEPT ![w] = Tail(@)]
  BY DEF TakeLocal, shared, Threads
<1>2. mid \in [Workers -> Seq(Jobs)] /\ \A v \in Workers : \A i \in 1 .. Len(mid[v]) : mid[v][i].seq = -1
  BY DEF RouteInv, TypeOK, RingTypes, SeqInv, Unnumbered
<1>3. j = mid[w][1] /\ j \in Jobs /\ Len(mid[w]) \in Nat /\ Len(mid[w]) # 0
  BY <1>1, <1>2
<1>4. j.seq = -1 /\ r \in Slots
  BY <1>2, <1>3, Sizes DEF RingFor, Bind, Jobs
<1>5. \A v \in Workers : \A i \in 1 .. Len(mid'[v]) : mid'[v][i].seq = -1
  <2>1. \A v \in Workers : \A i \in 1 .. Len(mid'[v]) :
          \E k \in 1 .. Len(mid[v]) : mid'[v][i] = mid[v][k]
    BY <1>1, <1>2, PopSplit
  <2>2. TAKE v \in Workers
  <2>3. TAKE i \in 1 .. Len(mid'[v])
  <2>4. PICK k \in 1 .. Len(mid[v]) : mid'[v][i] = mid[v][k]
    BY <2>1, <2>2, <2>3, Zenon
  <2>5. mid[v][k].seq = -1
    BY <1>2, <2>2, <2>4, Zenon
  <2> QED BY <2>4, <2>5, Zenon
<1>6. CASE j.p.proto = Udp
  <2>1. pc' = [pc EXCEPT ![w] = "seq"] /\ out' = out
    BY <1>6 DEF TakeLocal
  <2> HIDE DEF j, r
  <2>2. Unnumbered(mid)'
    BY <1>1, <1>4, <1>5, <1>6, <2>1, UnnumberedTakes DEF SeqInv
  <2>3. NumbersKept
    BY <1>1 DEF NumbersKept
  <2> QED BY <1>1, <2>1, <2>2, <2>3, QuietSeq
<1>7. CASE j.p.proto # Udp
  <2>1. pc' = [pc EXCEPT ![w] = "idle"] /\ out' = [out EXCEPT ![r] = Append(@, j)]
    BY <1>7 DEF TakeLocal, Push
  <2> HIDE DEF j, r
  <2>2. Unnumbered(mid)'
    BY <1>1, <1>4, <1>5, <2>1, UnnumberedTakes DEF SeqInv
  <2> QED BY <1>1, <1>3, <1>4, <1>7, <2>1, <2>2, PlainPush
<1> QED BY <1>6, <1>7

LEMMA TakeWanSeq ==
  ASSUME RouteInv, RouteInv', EntriesKept, SeqInv, arrived \in Nat,
         NEW w \in Workers, NEW p \in Packets, TakeWan(w, p)
  PROVE  SeqInv'
<1> DEFINE q == Reverse(p)
           j == NewJob(q, arrived', HashRoute(q).slot)
           r == Bind(j.slot)
<1>1. /\ job' = [job EXCEPT ![w] = j] /\ j.seq = -1 /\ j.p = q /\ w \in Threads
      /\ UNCHANGED <<table, fallback, mid>> /\ q \notin Packets /\ q \in Tuples
  BY TuplesAre DEF TakeWan, NewJob, shared, Threads, Tuples, Wan
<1>2. j \in Jobs /\ r \in Slots
  <2>1. HashRoute(q) \in Routes /\ arrived' \in Nat
    BY <1>1, HashesAre DEF TakeWan
  <2> QED BY <1>1, <2>1, Sizes DEF NewJob, Jobs, Routes, Bind
<1>3. \A v \in Workers : \A i \in 1 .. Len(mid'[v]) : mid'[v][i].seq = -1
  BY <1>1 DEF SeqInv, Unnumbered
<1>4. CASE HasKey(q)
  <2>1. pc' = [pc EXCEPT ![w] = "scan"] /\ out' = out
    BY <1>4 DEF TakeWan
  <2> HIDE DEF j, q, r
  <2>2. Unnumbered(mid)'
    BY <1>1, <1>3, <2>1, UnnumberedTakes DEF SeqInv
  <2>3. NumbersKept
    BY <1>1 DEF NumbersKept
  <2> QED BY <1>1, <2>1, <2>2, <2>3, QuietSeq
<1>5. CASE ~HasKey(q)
  <2>1. pc' = [pc EXCEPT ![w] = "idle"] /\ out' = [out EXCEPT ![r] = Append(@, j)]
    BY <1>5 DEF TakeWan, Push
  <2> HIDE DEF j, q, r
  <2>2. Unnumbered(mid)'
    BY <1>1, <1>3, <2>1, UnnumberedTakes DEF SeqInv
  <2> QED BY <1>1, <1>2, <2>1, <2>2, PlainPush
<1> QED BY <1>4, <1>5

LEMMA SeqStep ==
  ASSUME IInv, RouteInv', SeqInv, Next
  PROVE  SeqInv'
<1>0. RouteInv /\ arrived \in Nat /\ Positions
  BY DEF IInv, Positions
<1>1. EntriesKept
  BY <1>0, SoundStep DEF RouteInv, Sound, Base
<1>2. ASSUME NEW t \in Threads, RouteStep(t) PROVE SeqInv'
  BY <1>0, <1>1, <1>2, LookupSeq
<1>3. ASSUME NEW p \in Packets, RxTakes(p) PROVE SeqInv'
  BY <1>0, <1>1, <1>3, RxTakesSeq
<1>4. ASSUME NEW w \in Workers, TakeLocal(w) PROVE SeqInv'
  BY <1>0, <1>1, <1>4, TakeLocalSeq
<1>5. ASSUME NEW w \in Workers, SeqLookup(w) \/ SeqRetry(w) PROVE SeqInv'
  BY <1>0, <1>1, <1>5, NumberSeq
<1>6. ASSUME NEW w \in Workers, NEW p \in Packets, TakeWan(w, p) PROVE SeqInv'
  BY <1>0, <1>1, <1>6, TakeWanSeq
<1> QED BY <1>2, <1>3, <1>4, <1>5, <1>6 DEF Next

LEMMA SeqInit == Init => SeqInv
<1> SUFFICES ASSUME Init PROVE SeqInv
  OBVIOUS
<1>1. Unnumbered(mid)
  BY DEF Init, Unnumbered, Threads
<1>2. OnlyUdp(out) /\ AllAhead(table, fallback, out) /\ Rising(table, out)
  BY DEF Init, OnlyUdp, AllAhead, Rising
<1>3. OwnWays(table, fallback)
  BY DEF Init, OwnWays, EmptyFallback
<1> QED BY <1>1, <1>2, <1>3 DEF SeqInv

\* What dp_next_udp_tx_seq keeps of "monotonic wire sequence in one
\* flow/direction": a flow that has an entry, or whose fallback set can hold all
\* the flows of any route set that meet in it, has rising numbers on the wire, in
\* the arithmetic of uint32_t, through the entry, the detour and the fallback
\* alike, for any number of flows, ways, sets and workers and any modulus.
THEOREM SequencesRise == Spec => []SeqMonotonicWhileRoom
<1>1. Init => SeqInv
  BY SeqInit
<1>2. SeqInv /\ IInv /\ IInv' /\ [Next \/ (Done /\ UNCHANGED vars)]_vars => SeqInv'
  <2> SUFFICES ASSUME SeqInv, IInv, IInv', [Next \/ (Done /\ UNCHANGED vars)]_vars
               PROVE  SeqInv'
    OBVIOUS
  <2>1. CASE Next
    BY <2>1, SeqStep DEF IInv
  <2>2. CASE UNCHANGED vars
    BY <2>2 DEF vars, shared, SeqInv, Unnumbered
  <2> QED BY <2>1, <2>2
<1>3. IInv /\ SeqInv => SeqMonotonicWhileRoom
  <2> SUFFICES ASSUME IInv, SeqInv PROVE SeqMonotonicWhileRoom
    OBVIOUS
  <2>1. \A p : SeqRoom(p) => Room(table, p)
    <3>1. \A k : Hits(k) = HitsIn(table, k) /\ (Invalid(k) = {} <=> \A i \in SetFor(k) : table[i].valid)
      BY DEF Hits, HitsIn, Invalid
    <3>2. \A p : Rivals(p) = RivalsIn(table, p)
      BY <3>1 DEF Rivals, RivalsIn, Unserved
    <3> QED BY <3>1, <3>2 DEF SeqRoom, Room
  <2>2. Rising(table, out)
    BY DEF SeqInv
  <2>3. \A s \in Slots : DOMAIN out[s] = 1 .. Len(out[s])
    BY DEF IInv, RouteInv, TypeOK, RingTypes
  <2> QED BY <2>1, <2>2, <2>3 DEF Rising, RisesTo, SeqMonotonicWhileRoom
<1> QED BY <1>1, <1>2, <1>3, OrderHolds, PTL DEF Spec
=============================================================================
