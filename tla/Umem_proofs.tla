---------------------------- MODULE Umem_proofs ----------------------------
(***************************************************************************)
(* Proofs about Umem, for any number of frames and workers, any sizes and  *)
(* both directions: every frame has one owner, the TX ring holds whole     *)
(* chains, packets carry their length, RX descriptors are released.        *)
(***************************************************************************)
EXTENDS Umem, TLAPS, FiniteSetTheorems, FunctionTheorems, NaturalsInduction,
        WellFoundedInduction, SequenceTheorems

-----------------------------------------------------------------------------
(* The inductive invariant.                                                *)

Room == FrameSize - Headroom

AddrT == [f : Frames, off : Nat]
RxDescT == [f : Frames, off : Nat, len : Nat \ {0}, contd : BOOLEAN]
TxDescT == [f : Frames, off : Nat, len : Nat, contd : BOOLEAN]
SegT == [f : Frames, off : Nat, len : Nat, cap : Nat \ {0}]
PktT == [len : Nat, segs : Seq(SegT)]
SmallT == {p \in PktT : Len(p.segs) <= MaxSegs}

TypeRings ==
  /\ pool \in Seq(AddrT) /\ lost \in SUBSET Frames
  /\ fq \in [Dirs -> Seq(AddrT)] /\ cq \in [Dirs -> Seq(AddrT)]
  /\ rx \in [Dirs -> Seq(RxDescT)] /\ tx \in [Dirs -> Seq(TxDescT)]
  /\ \A d \in Dirs : Len(fq[d]) <= FqCap
TypeRx ==
  /\ taken \in [Dirs -> Nat] /\ rx_pending \in [Dirs -> Nat]
  /\ rxpc \in [Dirs -> {"refill", "recv", "dispatch"}] /\ batch \in [Dirs -> Seq(SmallT)]
  /\ rx_chain \in [Dirs -> SmallT]
  /\ rx_chain_invalid = [d \in Dirs |-> FALSE] /\ rx_rejects = [d \in Dirs |-> <<>>]
TypePackets ==
  /\ mid \in [Dirs -> [Workers -> Seq(SmallT)]] /\ out \in [Dirs -> Seq(SmallT)]
  /\ wpc \in [Workers -> {"idle", "write_job", "write_tail", "push"}]
  /\ wdir \in [Workers -> Dirs]
  /\ job \in [Workers -> SmallT] /\ tail \in [Workers -> SmallT]
  /\ plan \in [Workers -> Seq(Int)]
TypeInv == TypeRings /\ TypeRx /\ TypePackets

\* Every chain of s ends within n descriptors.
Ends(s, n) ==
  \A j \in 1 .. Len(s) : \E k \in j .. Least(j + n - 1, Len(s)) : ~s[k].contd

\* s continues the chain begun with c segments; pos gives each descriptor its
\* place in its chain.  All but the last fill the room after the headroom, and
\* the packet is one that the XDP program redirects.
Continues(c, s, pos) ==
  \A j \in 1 .. Len(s) :
    /\ pos[j] = IF j = 1 THEN c + 1 ELSE IF s[j - 1].contd THEN pos[j - 1] + 1 ELSE 1
    /\ (pos[j] - 1) * Room + s[j].len <= WireMax
    /\ s[j].contd => s[j].len = Room

\* What recv_queue has of a chain, and what is still in the ring.
Chained(c, u) ==
  /\ c.len = Len(c.segs) * Room
  /\ u = <<>> => c = NoPacket
  /\ Ends(u, Batch)
  /\ \E pos \in [1 .. Len(u) -> 1 .. MaxSegs] : Continues(Len(c.segs), u, pos)
RxChained(d) == Chained(rx_chain[d], RxUnread(d))

\* What is peeked and not released belongs to the batch being dispatched.
RxTaken(d) ==
  /\ taken[d] = IF rxpc[d] = "dispatch" THEN rx_pending[d] ELSE 0
  /\ taken[d] <= Len(rx[d])
  /\ rxpc[d] # "dispatch" => batch[d] = <<>>

RxInv == \A d \in Dirs : RxChained(d) /\ RxTaken(d)

\* A packet that was written: its length is in its segments, none of them empty.
Carries(pkt) ==
  /\ pkt.len = SumLen(pkt.segs)
  /\ Len(pkt.segs) \in 1 .. MaxSegs
  /\ \A j \in DOMAIN pkt.segs : pkt.segs[j].len > 0

\* Which packets a worker holds, by its place.
WorkerAt(w) ==
  /\ wpc[w] = "idle" => job[w] = NoPacket /\ tail[w] = NoPacket
  /\ wpc[w] # "idle" => Len(plan[w]) \in {1, 2}
  /\ wpc[w] = "write_job" => tail[w] = NoPacket
  /\ wpc[w] = "write_tail" => Len(plan[w]) = 2 /\ Carries(job[w])
  /\ wpc[w] = "push" => /\ Carries(job[w])
                        /\ IF Len(plan[w]) = 2 THEN Carries(tail[w]) ELSE tail[w] = NoPacket
WorkerInv == \A w \in Workers : WorkerAt(w)

\* TxWholeChains and LengthsAgree, in these terms.
TxInv == \A d \in Dirs : Ends(tx[d], MaxSegs)
OutInv == \A d \in Dirs : \A i \in DOMAIN out[d] : Carries(out[d][i])

Safe == TypeInv /\ RxInv /\ WorkerInv /\ TxInv /\ OutInv
IInv == Safe /\ OneOwner

-----------------------------------------------------------------------------
(* Numbers and sequences.                                                  *)

\* A set of numbers has a least one.
LEMMA LeastNumber ==
  ASSUME NEW S \in SUBSET Nat, S # {}
  PROVE  \E x \in S : \A y \in S : x <= y
<1> DEFINE R == OpToRel(<, Nat)
<1>1. IsWellFoundedOn(R, Nat)
  BY NatLessThanWellFounded
<1>2. PICK x \in S : \A y \in S : ~(<<y, x>> \in R)
  <2> HIDE DEF R
  <2> QED BY <1>1, WFMin
<1>3. \A y \in S : ~(y < x)
  BY <1>2 DEF OpToRel
<1> HIDE DEF R
<1> QED BY <1>3

\* Induction on the numbers up to a bound, with a set for the predicate.
LEMMA UpTo ==
  ASSUME NEW n \in Nat, NEW S, 0 \in S, \A i \in 0 .. n - 1 : i \in S => i + 1 \in S
  PROVE  0 .. n \subseteq S
<1> DEFINE B == (0 .. n) \ S
<1>1. SUFFICES ASSUME B # {} PROVE FALSE
  OBVIOUS
<1>2. PICK x \in B : \A y \in B : x <= y
  <2>1. B \in SUBSET Nat
    OBVIOUS
  <2> QED BY <1>1, <2>1, LeastNumber
<1>3. x # 0 /\ x - 1 \in 0 .. n - 1
  BY <1>2
<1>4. x - 1 \in S
  BY <1>2, <1>3
<1> QED BY <1>2, <1>3, <1>4

\* A nonempty set of numbers up to n has a greatest one, which Max returns.
LEMMA GreatestUpTo ==
  ASSUME NEW n \in Nat, NEW S \in SUBSET (1 .. n), S # {}
  PROVE  Max(S) \in S /\ \A y \in S : y <= Max(S)
<1> DEFINE D == {n - x : x \in S}
<1>1. PICK m \in D : \A y \in D : m <= y
  <2>1. D \in SUBSET Nat
    OBVIOUS
  <2>2. D # {}
    <3>1. PICK x : x \in S
      OBVIOUS
    <3> QED BY <3>1
  <2> HIDE DEF D
  <2> QED BY <2>1, <2>2, LeastNumber
<1>2. PICK x \in S : m = n - x
  OBVIOUS
<1>3. \A y \in S : x >= y
  <2> TAKE y \in S
  <2>1. n - y \in D
    OBVIOUS
  <2> QED BY <1>1, <1>2, <2>1
<1> QED BY <1>3 DEF Max

\* A nonempty set of numbers has a least one, which Min returns.
LEMMA MinOfNumbers ==
  ASSUME NEW S \in SUBSET Nat, S # {}
  PROVE  Min(S) \in S /\ \A y \in S : Min(S) <= y
BY LeastNumber DEF Min

\* A function on 1 .. n is a sequence.
LEMMA FunIsSeq ==
  ASSUME NEW T, NEW n \in Nat, NEW s \in [1 .. n -> T]
  PROVE  s \in Seq(T) /\ Len(s) = n
<1>1. s \in Seq(T)
  OBVIOUS
<1> QED BY <1>1, LenProperties

LEMMA Concat ==
  ASSUME NEW T, NEW s \in Seq(T), NEW t \in Seq(T)
  PROVE  /\ s \o t \in Seq(T) /\ Len(s \o t) = Len(s) + Len(t)
         /\ \A i \in 1 .. Len(s) : (s \o t)[i] = s[i]
         /\ \A i \in 1 .. Len(t) : (s \o t)[Len(s) + i] = t[i]
OBVIOUS

\* Any part of a sequence that lies inside it.
LEMMA Part ==
  ASSUME NEW T, NEW s \in Seq(T), NEW a \in Nat, NEW b \in Nat, a >= 1, b <= Len(s)
  PROVE  /\ SubSeq(s, a, b) \in Seq(T)
         /\ Len(SubSeq(s, a, b)) = IF a <= b THEN b - a + 1 ELSE 0
         /\ \A i \in 1 .. b - a + 1 : SubSeq(s, a, b)[i] = s[a + i - 1]
<1>1. \A i \in a .. b : s[i] \in T
  BY ElementOfSeq
<1> QED BY <1>1, SubSeqProperties

\* A sequence is its first k elements and the others.
LEMMA Split ==
  ASSUME NEW T, NEW s \in Seq(T), NEW k \in 0 .. Len(s)
  PROVE  s = SubSeq(s, 1, k) \o SubSeq(s, k + 1, Len(s))
<1> DEFINE a == SubSeq(s, 1, k)  b == SubSeq(s, k + 1, Len(s))
<1>1. /\ a \in Seq(T) /\ Len(a) = k /\ \A i \in 1 .. k : a[i] = s[i]
  BY Part
<1>2. /\ b \in Seq(T) /\ Len(b) = Len(s) - k /\ \A i \in 1 .. Len(s) - k : b[i] = s[k + i]
  BY Part
<1> HIDE DEF a, b
<1>3. /\ a \o b \in Seq(T) /\ Len(a \o b) = Len(s)
      /\ \A i \in 1 .. Len(s) : (a \o b)[i] = IF i <= k THEN a[i] ELSE b[i - k]
  BY <1>1, <1>2, ConcatProperties
<1>4. \A i \in 1 .. Len(s) : (a \o b)[i] = s[i]
  BY <1>1, <1>2, <1>3
<1>5. a \o b = s
  BY <1>3, <1>4, SeqEqual
<1> QED BY <1>5 DEF a, b

-----------------------------------------------------------------------------
(* Counting a frame in a sequence.                                         *)

LEMMA TimesNat ==
  ASSUME NEW T, NEW s \in Seq(T), NEW f
  PROVE  /\ IsFiniteSet({i \in DOMAIN s : s[i].f = f}) /\ Times(f, s) \in Nat
         /\ Times(f, s) = Cardinality({i \in 1 .. Len(s) : s[i].f = f})
<1>1. DOMAIN s = 1 .. Len(s) /\ Len(s) \in Nat
  OBVIOUS
<1>2. IsFiniteSet(1 .. Len(s))
  BY <1>1, FS_Interval
<1>3. IsFiniteSet({i \in DOMAIN s : s[i].f = f})
  BY <1>1, <1>2, FS_Subset
<1> QED BY <1>1, <1>3, FS_CardinalityType DEF Times

LEMMA TimesEmpty == \A f : Times(f, <<>>) = 0
<1> TAKE f
<1>1. {i \in DOMAIN <<>> : (<<>>)[i].f = f} = {}
  OBVIOUS
<1> QED BY <1>1, FS_EmptySet DEF Times

\* Only the frames matter: addresses, descriptors and segments count alike.
LEMMA TimesSame ==
  ASSUME NEW T, NEW U, NEW s \in Seq(T), NEW t \in Seq(U), NEW f,
         Len(s) = Len(t), \A i \in 1 .. Len(s) : s[i].f = t[i].f
  PROVE  Times(f, s) = Times(f, t)
<1>1. {i \in 1 .. Len(s) : s[i].f = f} = {i \in 1 .. Len(t) : t[i].f = f}
  OBVIOUS
<1> QED BY <1>1, TimesNat

LEMMA TimesConcat ==
  ASSUME NEW T, NEW s \in Seq(T), NEW t \in Seq(T), NEW f
  PROVE  Times(f, s \o t) = Times(f, s) + Times(f, t)
<1> DEFINE n == Len(s)
           A == {i \in 1 .. Len(s) : s[i].f = f}
           B == {i \in 1 .. Len(t) : t[i].f = f}
           C == {i \in 1 .. Len(s \o t) : (s \o t)[i].f = f}
           D == {i \in n + 1 .. n + Len(t) : t[i - n].f = f}
           g == [i \in B |-> i + n]
<1>1. Len(s) \in Nat /\ Len(t) \in Nat
  OBVIOUS
<1>2. IsFiniteSet(A) /\ IsFiniteSet(B) /\ IsFiniteSet(D)
  <2>1. IsFiniteSet(1 .. Len(s)) /\ IsFiniteSet(1 .. Len(t)) /\ IsFiniteSet(n + 1 .. n + Len(t))
    BY <1>1, FS_Interval
  <2> QED BY <2>1, FS_Subset
<1>3. Cardinality(D) = Cardinality(B)
  <2>1. g \in Bijection(B, D)
    <3>1. g \in [B -> D] /\ \A a, b \in B : g[a] = g[b] => a = b
      BY <1>1
    <3>2. \A e \in D : \E b \in B : g[b] = e
      <4> TAKE e \in D
      <4>1. e - n \in B /\ (e - n) + n = e
        BY <1>1
      <4> QED BY <4>1
    <3> HIDE DEF g, B, D
    <3> QED BY <3>1, <3>2, Fun_IsBij
  <2> HIDE DEF g, B, D
  <2>2. ExistsBijection(B, D)
    BY <2>1, Fun_ExistsBij
  <2> QED BY <1>2, <2>2, FS_Bijection
<1>4. C = A \cup D /\ A \cap D = {}
  <2>1. Len(s \o t) = Len(s) + Len(t)
    BY Concat
  <2>2. \A i \in 1 .. Len(s \o t) : (s \o t)[i] = IF i <= n THEN s[i] ELSE t[i - n]
    BY <2>1, ConcatProperties
  <2> QED BY <2>1, <2>2, <1>1
<1>5. Cardinality(C) = Cardinality(A) + Cardinality(B)
  <2> HIDE DEF A, B, C, D
  <2>1. Cardinality(A \cup D) = Cardinality(A) + Cardinality(D) - Cardinality(A \cap D)
    BY <1>2, FS_Union
  <2>2. Cardinality(A \cap D) = 0 /\ Cardinality(A) \in Nat /\ Cardinality(D) \in Nat
    BY <1>2, <1>4, FS_EmptySet, FS_CardinalityType
  <2> QED BY <1>3, <1>4, <2>1, <2>2
<1>6. s \o t \in Seq(T)
  BY Concat
<1>7. Times(f, s) = Cardinality(A) /\ Times(f, t) = Cardinality(B)
  BY TimesNat
<1>8. Times(f, s \o t) = Cardinality(C)
  BY <1>6, TimesNat
<1> HIDE DEF A, B, C
<1> QED BY <1>5, <1>7, <1>8

\* One element more, and one less.
LEMMA TimesOne ==
  ASSUME NEW e, NEW f
  PROVE  Times(f, <<e>>) = IF e.f = f THEN 1 ELSE 0
<1> DEFINE A == {i \in DOMAIN <<e>> : (<<e>>)[i].f = f}
<1>1. A = IF e.f = f THEN {1} ELSE {}
  OBVIOUS
<1>2. Cardinality(A) = IF e.f = f THEN 1 ELSE 0
  BY <1>1, FS_EmptySet, FS_Singleton
<1> QED BY <1>2 DEF Times

LEMMA TimesSplit ==
  ASSUME NEW T, NEW s \in Seq(T), NEW k \in 0 .. Len(s), NEW f
  PROVE  Times(f, s) = Times(f, SubSeq(s, 1, k)) + Times(f, SubSeq(s, k + 1, Len(s)))
<1>1. SubSeq(s, 1, k) \in Seq(T) /\ SubSeq(s, k + 1, Len(s)) \in Seq(T)
  BY Part
<1>2. s = SubSeq(s, 1, k) \o SubSeq(s, k + 1, Len(s))
  BY Split
<1> QED BY <1>1, <1>2, TimesConcat

LEMMA TimesAppend ==
  ASSUME NEW T, NEW s \in Seq(T), NEW e \in T, NEW f
  PROVE  Times(f, Append(s, e)) = Times(f, s) + IF e.f = f THEN 1 ELSE 0
<1>1. Append(s, e) = s \o <<e>> /\ <<e>> \in Seq(T)
  OBVIOUS
<1>2. Times(f, s \o <<e>>) = Times(f, s) + Times(f, <<e>>)
  BY <1>1, TimesConcat
<1>3. Times(f, <<e>>) = IF e.f = f THEN 1 ELSE 0
  BY TimesOne
<1> QED BY <1>1, <1>2, <1>3

\* A frame that occurs is counted.
LEMMA TimesOccurs ==
  ASSUME NEW T, NEW s \in Seq(T), NEW i \in 1 .. Len(s)
  PROVE  Times(s[i].f, s) >= 1
<1> DEFINE A == {j \in DOMAIN s : s[j].f = s[i].f}
<1>1. IsFiniteSet(A) /\ Cardinality(A) = Times(s[i].f, s) /\ Times(s[i].f, s) \in Nat
  BY TimesNat DEF Times
<1>2. A # {}
  OBVIOUS
<1> HIDE DEF A
<1> QED BY <1>1, <1>2, FS_EmptySet

\* A sequence in which no frame occurs twice has no more elements than there
\* are frames: pool_push never drops an address.
LEMMA NoOverflow ==
  ASSUME NEW T, NEW s \in Seq(T), \A e \in T : e.f \in Frames,
         \A f \in Frames : Times(f, s) <= 1
  PROVE  Len(s) <= NFrames
<1> DEFINE g == [i \in 1 .. Len(s) |-> s[i].f]
<1>1. g \in [1 .. Len(s) -> Frames]
  BY ElementOfSeq
<1>2. ASSUME NEW i \in 1 .. Len(s), NEW j \in 1 .. Len(s), g[i] = g[j], i # j
      PROVE  FALSE
  <2> DEFINE A == {k \in DOMAIN s : s[k].f = s[i].f}
  <2>1. IsFiniteSet(A) /\ Cardinality(A) <= 1 /\ Cardinality(A) \in Nat
    BY TimesNat, <1>1 DEF Times
  <2>2. {i, j} \in SUBSET A
    BY <1>2
  <2> HIDE DEF A
  <2>3. Cardinality({i, j}) = 2
    <3>1. {i, j} = {i} \cup {j} /\ j \notin {i}
      BY <1>2
    <3>2. IsFiniteSet({i}) /\ Cardinality({i}) = 1
      BY FS_Singleton
    <3>3. Cardinality({i} \cup {j}) = Cardinality({i}) + 1
      BY <3>1, <3>2, FS_AddElement
    <3> QED BY <3>1, <3>2, <3>3
  <2> QED BY <2>1, <2>2, <2>3, FS_Subset
<1>3. g \in Injection(1 .. Len(s), Frames)
  <2> HIDE DEF g
  <2> QED BY <1>1, <1>2, Fun_IsInj
<1>4. Cardinality(1 .. Len(s)) <= Cardinality(Frames)
  <2> HIDE DEF g
  <2> QED BY <1>3, FS_Injection, UmemAssumption
<1>5. Len(s) \in Nat
  OBVIOUS
<1>6. Cardinality(1 .. Len(s)) = Len(s)
  BY <1>5, FS_Interval, SMTT(30)
<1> QED BY <1>4, <1>6 DEF NFrames

-----------------------------------------------------------------------------
(* Sums along a sequence.                                                  *)

\* The fold that SumLen and SumCap are made of satisfies its equation.
LEMMA SumFoldExists ==
  ASSUME NEW n \in Nat, NEW c
  PROVE  \E it : it = [S \in SUBSET (1 .. n) |->
                         IF S = {} THEN 0 ELSE it[S \ {Max(S)}] + c[Max(S)]]
<1> DEFINE P == {m \in 0 .. n : \E it : it = [S \in SUBSET (1 .. m) |->
                                  IF S = {} THEN 0 ELSE it[S \ {Max(S)}] + c[Max(S)]]}
<1>1. 0 \in P
  <2> DEFINE it == [S \in SUBSET (1 .. 0) |-> 0]
  <2>1. it = [S \in SUBSET (1 .. 0) |-> IF S = {} THEN 0 ELSE it[S \ {Max(S)}] + c[Max(S)]]
    <3>1. \A S \in SUBSET (1 .. 0) : S = {}
      OBVIOUS
    <3> QED BY <3>1
  <2>2. 0 \in 0 .. n
    OBVIOUS
  <2> HIDE DEF it
  <2> QED BY <2>1, <2>2
<1>2. ASSUME NEW m \in 0 .. n - 1, m \in P PROVE m + 1 \in P
  <2>1. PICK it : it = [S \in SUBSET (1 .. m) |->
                          IF S = {} THEN 0 ELSE it[S \ {Max(S)}] + c[Max(S)]]
    BY <1>2
  <2> DEFINE F(S) == IF m + 1 \in S THEN it[S \ {m + 1}] + c[m + 1] ELSE it[S]
             nit == [S \in SUBSET (1 .. m + 1) |-> F(S)]
  <2>2. ASSUME NEW S \in SUBSET (1 .. m + 1)
        PROVE  F(S) = IF S = {} THEN 0 ELSE nit[S \ {Max(S)}] + c[Max(S)]
    <3>1. CASE S = {}
      <4>1. {} \in SUBSET (1 .. m) /\ m + 1 \notin S
        BY <3>1
      <4> QED BY <3>1, <4>1, <2>1
    <3>2. CASE m + 1 \in S
      <4>1. Max(S) = m + 1
        <5>1. m + 1 \in Nat /\ S # {}
          BY <3>2
        <5>2. Max(S) \in S /\ \A y \in S : y <= Max(S)
          BY <5>1, GreatestUpTo
        <5>3. Max(S) \in 1 .. m + 1 /\ m + 1 <= Max(S)
          BY <3>2, <5>2
        <5> QED BY <5>3
      <4>2. S \ {m + 1} \in SUBSET (1 .. m + 1) /\ m + 1 \notin S \ {m + 1} /\ S # {}
        BY <3>2
      <4>3. nit[S \ {m + 1}] = it[S \ {m + 1}]
        BY <4>2
      <4> HIDE DEF nit
      <4> QED BY <3>2, <4>1, <4>2, <4>3
    <3>3. CASE S # {} /\ m + 1 \notin S
      <4>1. S \in SUBSET (1 .. m)
        BY <3>3
      <4>2. Max(S) \in S
        <5>1. m \in Nat
          OBVIOUS
        <5> QED BY <3>3, <4>1, <5>1, GreatestUpTo
      <4>3. S \ {Max(S)} \in SUBSET (1 .. m + 1) /\ m + 1 \notin S \ {Max(S)}
        BY <3>3
      <4>4. nit[S \ {Max(S)}] = it[S \ {Max(S)}]
        BY <4>3
      <4>5. it[S] = it[S \ {Max(S)}] + c[Max(S)]
        BY <2>1, <3>3, <4>1
      <4> HIDE DEF nit
      <4> QED BY <3>3, <4>4, <4>5
    <3> QED BY <3>1, <3>2, <3>3
  <2>3. nit = [S \in SUBSET (1 .. m + 1) |-> IF S = {} THEN 0 ELSE nit[S \ {Max(S)}] + c[Max(S)]]
    <3> DEFINE N == nit
    <3>1. \A S \in SUBSET (1 .. m + 1) : F(S) = IF S = {} THEN 0 ELSE N[S \ {Max(S)}] + c[Max(S)]
      BY <2>2
    <3>2. N = [S \in SUBSET (1 .. m + 1) |-> F(S)]
      OBVIOUS
    <3> HIDE DEF F, N
    <3>3. N = [S \in SUBSET (1 .. m + 1) |-> IF S = {} THEN 0 ELSE N[S \ {Max(S)}] + c[Max(S)]]
      BY <3>1, <3>2
    <3> QED BY <3>3 DEF N
  <2>4. m + 1 \in 0 .. n
    OBVIOUS
  <2> HIDE DEF nit
  <2> QED BY <2>3, <2>4
<1>3. n \in P
  <2> HIDE DEF P
  <2> QED BY <1>1, <1>2, UpTo
<1> QED BY <1>3

\* g[i] is the sum of the first i values of c.
Adds(g, c, n) ==
  /\ g \in [0 .. n -> Nat] /\ g[0] = 0
  /\ \A i \in 1 .. n : g[i] = g[i - 1] + c[i]

LEMMA FoldAdds ==
  ASSUME NEW n \in Nat, NEW c \in [1 .. n -> Nat],
         NEW it, it = [S \in SUBSET (1 .. n) |->
                         IF S = {} THEN 0 ELSE it[S \ {Max(S)}] + c[Max(S)]]
  PROVE  Adds([i \in 0 .. n |-> it[1 .. i]], c, n)
<1> DEFINE g == [i \in 0 .. n |-> it[1 .. i]]
<1>1. g[0] = 0
  <2>1. 1 .. 0 = {} /\ {} \in SUBSET (1 .. n)
    OBVIOUS
  <2>2. it[{}] = 0
    BY <2>1
  <2> QED BY <2>1, <2>2
<1>2. ASSUME NEW i \in 1 .. n PROVE g[i] = g[i - 1] + c[i]
  <2>1. 1 .. i \in SUBSET (1 .. n) /\ 1 .. i # {}
    OBVIOUS
  <2>2. Max(1 .. i) = i
    <3>1. Max(1 .. i) \in 1 .. i /\ \A y \in 1 .. i : y <= Max(1 .. i)
      BY <2>1, GreatestUpTo
    <3> QED BY <3>1
  <2>3. (1 .. i) \ {i} = 1 .. i - 1
    OBVIOUS
  <2>4. it[1 .. i] = it[(1 .. i) \ {Max(1 .. i)}] + c[Max(1 .. i)]
    BY <2>1
  <2>5. it[1 .. i] = it[1 .. i - 1] + c[i]
    BY <2>2, <2>3, <2>4
  <2>6. i - 1 \in 0 .. n /\ i \in 0 .. n
    OBVIOUS
  <2> QED BY <2>5, <2>6
<1>3. \A i \in 0 .. n : g[i] \in Nat
  <2> DEFINE P == {i \in 0 .. n : g[i] \in Nat}
  <2>1. 0 \in P
    BY <1>1
  <2>2. \A i \in 0 .. n - 1 : i \in P => i + 1 \in P
    <3> SUFFICES ASSUME NEW i \in 0 .. n - 1, i \in P PROVE i + 1 \in P
      OBVIOUS
    <3>1. i + 1 \in 1 .. n /\ (i + 1) - 1 = i /\ i + 1 \in 0 .. n
      OBVIOUS
    <3>2. g[i + 1] = g[i] + c[i + 1]
      BY <3>1, <1>2
    <3> HIDE DEF g
    <3> QED BY <3>1, <3>2
  <2>3. 0 .. n \subseteq P
    <3> HIDE DEF P
    <3> QED BY <2>1, <2>2, UpTo
  <2> QED BY <2>3
<1>4. g \in [0 .. n -> Nat]
  BY <1>3
<1> QED BY <1>1, <1>2, <1>4 DEF Adds

\* The sum of the first k values depends on these only.
LEMMA AddsUnique ==
  ASSUME NEW n \in Nat, NEW m \in Nat, NEW g, NEW h, NEW c, NEW e,
         Adds(g, c, n), Adds(h, e, m), NEW k \in Nat, k <= n, k <= m,
         \A i \in 1 .. k : c[i] = e[i]
  PROVE  g[k] = h[k]
<1> DEFINE P == {i \in 0 .. k : g[i] = h[i]}
<1>1. 0 \in P
  BY DEF Adds
<1>2. \A i \in 0 .. k - 1 : i \in P => i + 1 \in P
  <2> SUFFICES ASSUME NEW i \in 0 .. k - 1, i \in P PROVE i + 1 \in P
    OBVIOUS
  <2>1. i + 1 \in 1 .. n /\ i + 1 \in 1 .. m /\ (i + 1) - 1 = i /\ i + 1 \in 1 .. k
    OBVIOUS
  <2>2. g[i + 1] = g[i] + c[i + 1] /\ h[i + 1] = h[i] + e[i + 1]
    BY <2>1 DEF Adds
  <2> QED BY <2>1, <2>2
<1>3. 0 .. k \subseteq P
  <2> HIDE DEF P
  <2> QED BY <1>1, <1>2, UpTo
<1> QED BY <1>3

Lens(s) == [i \in 1 .. Len(s) |-> s[i].len]
Caps(s) == [i \in 1 .. Len(s) |-> s[i].cap]

\* SumLen adds the lengths.
LEMMA SumLenAdds ==
  ASSUME NEW T, NEW s \in Seq(T), \A e \in T : e.len \in Nat
  PROVE  \E g : Adds(g, Lens(s), Len(s)) /\ SumLen(s) = g[Len(s)]
<1> DEFINE n == Len(s)
<1>1. n \in Nat /\ DOMAIN s = 1 .. n
  OBVIOUS
<1>2. Lens(s) \in [1 .. n -> Nat]
  BY ElementOfSeq DEF Lens
<1> HIDE DEF n
<1>3. ASSUME NEW S \in SUBSET (1 .. n), S # {} PROVE Lens(s)[Max(S)] = s[Max(S)].len
  <2>1. Max(S) \in 1 .. n
    BY <1>1, <1>3, GreatestUpTo
  <2> QED BY <2>1 DEF Lens, n
<1> DEFINE E(it) == it = [S \in SUBSET (1 .. n) |->
                            IF S = {} THEN 0 ELSE it[S \ {Max(S)}] + Lens(s)[Max(S)]]
           D(it) == it = [S \in SUBSET (1 .. n) |->
                            IF S = {} THEN 0 ELSE it[S \ {Max(S)}] + s[Max(S)].len]
<1>4. \A it : D(it) <=> E(it)
  <2> TAKE it
  <2>1. \A S \in SUBSET (1 .. n) :
          (IF S = {} THEN 0 ELSE it[S \ {Max(S)}] + Lens(s)[Max(S)])
          = (IF S = {} THEN 0 ELSE it[S \ {Max(S)}] + s[Max(S)].len)
    BY <1>3
  <2>2. [S \in SUBSET (1 .. n) |-> IF S = {} THEN 0 ELSE it[S \ {Max(S)}] + Lens(s)[Max(S)]]
        = [S \in SUBSET (1 .. n) |-> IF S = {} THEN 0 ELSE it[S \ {Max(S)}] + s[Max(S)].len]
    BY <2>1
  <2> QED BY <2>2
<1>5. \E it : E(it)
  BY <1>1, SumFoldExists
<1>6. \E it : D(it)
  <2> HIDE DEF D, E
  <2> QED BY <1>4, <1>5
<1>7. \E it : D(it) /\ SumLen(s) = it[1 .. n]
  BY <1>1, <1>6 DEF SumLen, FoldLeft, MapThenFoldSet
<1>8. PICK it : E(it) /\ SumLen(s) = it[1 .. n]
  <2> HIDE DEF D, E
  <2> QED BY <1>4, <1>7
<1>9. Adds([i \in 0 .. n |-> it[1 .. i]], Lens(s), n)
  <2>1. E(it)
    BY <1>8
  <2> QED BY <1>1, <1>2, <2>1, FoldAdds
<1>10. [i \in 0 .. n |-> it[1 .. i]][n] = it[1 .. n]
  BY <1>1
<1> HIDE DEF E, D
<1> QED BY <1>8, <1>9, <1>10 DEF n

\* SumCap adds the capacities.
LEMMA SumCapAdds ==
  ASSUME NEW T, NEW s \in Seq(T), \A e \in T : e.cap \in Nat
  PROVE  \E g : Adds(g, Caps(s), Len(s)) /\ SumCap(s) = g[Len(s)]
<1> DEFINE n == Len(s)
<1>1. n \in Nat /\ DOMAIN s = 1 .. n
  OBVIOUS
<1>2. Caps(s) \in [1 .. n -> Nat]
  BY ElementOfSeq DEF Caps
<1> HIDE DEF n
<1>3. ASSUME NEW S \in SUBSET (1 .. n), S # {} PROVE Caps(s)[Max(S)] = s[Max(S)].cap
  <2>1. Max(S) \in 1 .. n
    BY <1>1, <1>3, GreatestUpTo
  <2> QED BY <2>1 DEF Caps, n
<1> DEFINE E(it) == it = [S \in SUBSET (1 .. n) |->
                            IF S = {} THEN 0 ELSE it[S \ {Max(S)}] + Caps(s)[Max(S)]]
           D(it) == it = [S \in SUBSET (1 .. n) |->
                            IF S = {} THEN 0 ELSE it[S \ {Max(S)}] + s[Max(S)].cap]
<1>4. \A it : D(it) <=> E(it)
  <2> TAKE it
  <2>1. \A S \in SUBSET (1 .. n) :
          (IF S = {} THEN 0 ELSE it[S \ {Max(S)}] + Caps(s)[Max(S)])
          = (IF S = {} THEN 0 ELSE it[S \ {Max(S)}] + s[Max(S)].cap)
    BY <1>3
  <2>2. [S \in SUBSET (1 .. n) |-> IF S = {} THEN 0 ELSE it[S \ {Max(S)}] + Caps(s)[Max(S)]]
        = [S \in SUBSET (1 .. n) |-> IF S = {} THEN 0 ELSE it[S \ {Max(S)}] + s[Max(S)].cap]
    BY <2>1
  <2> QED BY <2>2
<1>5. \E it : E(it)
  BY <1>1, SumFoldExists
<1>6. \E it : D(it)
  <2> HIDE DEF D, E
  <2> QED BY <1>4, <1>5
<1>7. \E it : D(it) /\ SumCap(s) = it[1 .. n]
  BY <1>1, <1>6 DEF SumCap, FoldLeft, MapThenFoldSet
<1>8. PICK it : E(it) /\ SumCap(s) = it[1 .. n]
  <2> HIDE DEF D, E
  <2> QED BY <1>4, <1>7
<1>9. Adds([i \in 0 .. n |-> it[1 .. i]], Caps(s), n)
  <2>1. E(it)
    BY <1>8
  <2> QED BY <1>1, <1>2, <2>1, FoldAdds
<1>10. [i \in 0 .. n |-> it[1 .. i]][n] = it[1 .. n]
  BY <1>1
<1> HIDE DEF E, D
<1> QED BY <1>8, <1>9, <1>10 DEF n

-----------------------------------------------------------------------------
(* Sums over a finite set.                                                 *)

AnyOf(S) == CHOOSE x \in S : TRUE
SetSum(g, it, T) == it = [U \in SUBSET T |-> IF U = {} THEN 0 ELSE g[AnyOf(U)] + it[U \ {AnyOf(U)}]]

\* The fold that SumFunction is made of satisfies its equation.
LEMMA SetSumExists ==
  ASSUME NEW T, IsFiniteSet(T), NEW g
  PROVE  \E it : SetSum(g, it, T)
<1> DEFINE n == Cardinality(T)
           Small(m) == {U \in SUBSET T : Cardinality(U) <= m}
           Q(it, m) == it = [U \in Small(m) |-> IF U = {} THEN 0 ELSE g[AnyOf(U)] + it[U \ {AnyOf(U)}]]
           P == {m \in 0 .. n : \E it : Q(it, m)}
<1>1. n \in Nat /\ \A U \in SUBSET T : IsFiniteSet(U) /\ Cardinality(U) \in 0 .. n
  BY FS_CardinalityType, FS_Subset
<1>2. \A U \in SUBSET T : U # {} => AnyOf(U) \in U /\ U \ {AnyOf(U)} \in SUBSET T
                                   /\ Cardinality(U \ {AnyOf(U)}) = Cardinality(U) - 1
  <2> SUFFICES ASSUME NEW U \in SUBSET T, U # {}
               PROVE  AnyOf(U) \in U /\ Cardinality(U \ {AnyOf(U)}) = Cardinality(U) - 1
    OBVIOUS
  <2>1. AnyOf(U) \in U
    BY DEF AnyOf
  <2> QED BY <1>1, <2>1, FS_RemoveElement
<1>3. \A U \in SUBSET T : Cardinality(U) = 0 <=> U = {}
  BY <1>1, FS_EmptySet
<1> HIDE DEF n
<1>4. 0 \in P
  <2> DEFINE it == [U \in Small(0) |-> 0]
  <2>1. \A U \in Small(0) : U = {}
    BY <1>1, <1>3
  <2>2. Q(it, 0)
    BY <2>1
  <2>3. 0 \in 0 .. n
    BY <1>1
  <2> HIDE DEF it, Q
  <2> QED BY <2>2, <2>3
<1>5. ASSUME NEW m \in 0 .. n - 1, m \in P PROVE m + 1 \in P
  <2>1. PICK it : Q(it, m)
    BY <1>5
  <2> DEFINE F(U) == IF U \in Small(m) THEN it[U] ELSE g[AnyOf(U)] + it[U \ {AnyOf(U)}]
             nit == [U \in Small(m + 1) |-> F(U)]
  <2>2. ASSUME NEW U \in Small(m + 1)
        PROVE  F(U) = IF U = {} THEN 0 ELSE g[AnyOf(U)] + nit[U \ {AnyOf(U)}]
    <3>1. U \in SUBSET T /\ Cardinality(U) \in Nat /\ Cardinality(U) <= m + 1 /\ m \in Nat
      BY <1>1
    <3>2. CASE U = {}
      <4>1. U \in Small(m)
        BY <3>1, <3>2, <1>3
      <4>2. it[U] = 0
        BY <4>1, <3>2, <2>1
      <4> QED BY <3>2, <4>1, <4>2
    <3>3. CASE U # {}
      <4> DEFINE V == U \ {AnyOf(U)}
      <4>1. V \in SUBSET T /\ Cardinality(V) = Cardinality(U) - 1
        BY <3>1, <3>3, <1>2
      <4>2. V \in Small(m) /\ V \in Small(m + 1)
        BY <4>1, <3>1
      <4>3. nit[V] = it[V]
        <5> HIDE DEF V, Small
        <5> QED BY <4>2
      <4>4. U \in Small(m) => it[U] = g[AnyOf(U)] + it[V]
        <5> HIDE DEF Small
        <5> QED BY <3>3, <2>1
      <4> HIDE DEF nit, Small, V
      <4>5. F(U) = g[AnyOf(U)] + it[V]
        BY <4>4 DEF V
      <4> QED BY <3>3, <4>3, <4>5 DEF V
    <3> QED BY <3>2, <3>3
  <2>3. Q(nit, m + 1)
    <3> DEFINE N == nit
    <3>1. \A U \in Small(m + 1) : F(U) = IF U = {} THEN 0 ELSE g[AnyOf(U)] + N[U \ {AnyOf(U)}]
      BY <2>2
    <3>2. N = [U \in Small(m + 1) |-> F(U)]
      OBVIOUS
    <3> HIDE DEF F, N, Small
    <3>3. N = [U \in Small(m + 1) |-> IF U = {} THEN 0 ELSE g[AnyOf(U)] + N[U \ {AnyOf(U)}]]
      BY <3>1, <3>2
    <3> QED BY <3>3 DEF N
  <2>4. m + 1 \in 0 .. n
    BY <1>1
  <2> HIDE DEF nit, Q
  <2> QED BY <2>3, <2>4
<1>6. n \in P
  <2> HIDE DEF P
  <2> QED BY <1>1, <1>4, <1>5, UpTo
<1>7. Small(n) = SUBSET T
  BY <1>1
<1>8. PICK it : Q(it, n)
  <2> HIDE DEF Q
  <2> QED BY <1>6
<1>9. SetSum(g, it, T)
  <2> HIDE DEF Small
  <2> QED BY <1>7, <1>8 DEF SetSum
<1> QED BY <1>9

\* Any element can be taken out of the sum first.
Takes(g, it, T) ==
  \A U \in SUBSET T : /\ it[U] \in Nat
                      /\ U = {} => it[U] = 0
                      /\ \A x \in U : it[U] = g[x] + it[U \ {x}]

LEMMA SetSumTake ==
  ASSUME NEW T, IsFiniteSet(T), NEW g \in [T -> Nat], NEW it, SetSum(g, it, T)
  PROVE  Takes(g, it, T)
<1> DEFINE n == Cardinality(T)
           R(U) == it[U] \in Nat /\ \A x \in U : it[U] = g[x] + it[U \ {x}]
           P == {m \in 0 .. n : \A U \in SUBSET T : Cardinality(U) <= m => R(U)}
<1>1. n \in Nat /\ \A U \in SUBSET T : IsFiniteSet(U) /\ Cardinality(U) \in 0 .. n
  BY FS_CardinalityType, FS_Subset
<1>2. \A U \in SUBSET T : \A x \in U : U \ {x} \in SUBSET T
                                   /\ Cardinality(U \ {x}) = Cardinality(U) - 1
  BY <1>1, FS_RemoveElement
<1>3. \A U \in SUBSET T : Cardinality(U) = 0 <=> U = {}
  BY <1>1, FS_EmptySet
<1>4. /\ it[{}] = 0
      /\ \A U \in SUBSET T : U # {} => AnyOf(U) \in U /\ it[U] = g[AnyOf(U)] + it[U \ {AnyOf(U)}]
  <2>1. {} \in SUBSET T
    OBVIOUS
  <2>2. \A U \in SUBSET T : it[U] = IF U = {} THEN 0 ELSE g[AnyOf(U)] + it[U \ {AnyOf(U)}]
    BY DEF SetSum
  <2>3. \A U \in SUBSET T : U # {} => AnyOf(U) \in U
    BY DEF AnyOf
  <2> QED BY <2>1, <2>2, <2>3
<1> HIDE DEF n
<1>5. 0 \in P
  <2>1. \A U \in SUBSET T : Cardinality(U) <= 0 => U = {}
    BY <1>1, <1>3
  <2>2. R({})
    BY <1>4
  <2>3. 0 \in 0 .. n
    BY <1>1
  <2> HIDE DEF R
  <2> QED BY <2>1, <2>2, <2>3
<1>6. ASSUME NEW m \in 0 .. n - 1, m \in P PROVE m + 1 \in P
  <2>1. \A U \in SUBSET T : Cardinality(U) <= m => R(U)
    BY <1>6
  <2>2. ASSUME NEW U \in SUBSET T, Cardinality(U) <= m + 1 PROVE R(U)
    <3>1. CASE U = {}
      BY <3>1, <1>4
    <3>2. CASE U # {}
      <4> DEFINE y == AnyOf(U)
      <4>1. y \in U /\ it[U] = g[y] + it[U \ {y}] /\ g[y] \in Nat
        BY <3>2, <1>4
      <4> HIDE DEF y
      <4>2. \A x \in U : Cardinality(U \ {x}) <= m /\ U \ {x} \in SUBSET T
        BY <1>1, <1>2, <2>2
      <4>3. \A x \in U : R(U \ {x})
        <5> HIDE DEF R
        <5> QED BY <2>1, <4>2
      <4>4. it[U] \in Nat
        <5>1. it[U \ {y}] \in Nat
          BY <4>1, <4>3
        <5> QED BY <4>1, <5>1
      <4>5. ASSUME NEW x \in U PROVE it[U] = g[x] + it[U \ {x}]
        <5>1. CASE x = y
          BY <5>1, <4>1
        <5>2. CASE x # y
          <6>1. x \in U \ {y} /\ y \in U \ {x} /\ (U \ {y}) \ {x} = (U \ {x}) \ {y}
            BY <5>2, <4>1
          <6>2. it[U \ {y}] = g[x] + it[(U \ {y}) \ {x}]
            BY <6>1, <4>1, <4>3
          <6>3. it[U \ {x}] = g[y] + it[(U \ {x}) \ {y}]
            BY <6>1, <4>3
          <6>4. it[(U \ {x}) \ {y}] \in Nat
            <7>1. Cardinality(U \ {x}) \in Nat /\ Cardinality(U \ {x}) <= m
                  /\ U \ {x} \in SUBSET T /\ m \in Nat
              BY <4>2, <1>1
            <7>2. Cardinality((U \ {x}) \ {y}) = Cardinality(U \ {x}) - 1
                  /\ (U \ {x}) \ {y} \in SUBSET T
              BY <7>1, <6>1, <1>2
            <7>3. Cardinality((U \ {x}) \ {y}) <= m
              BY <7>1, <7>2
            <7> QED BY <2>1, <7>2, <7>3
          <6>5. g[x] \in Nat
            OBVIOUS
          <6>6. it[U \ {y}] = g[x] + it[(U \ {x}) \ {y}]
            BY <6>1, <6>2
          <6>7. it[U] = g[y] + it[U \ {y}] /\ g[y] \in Nat
            BY <4>1
          <6> QED BY <6>3, <6>4, <6>5, <6>6, <6>7
        <5> QED BY <5>1, <5>2
      <4> QED BY <4>4, <4>5
    <3> QED BY <3>1, <3>2
  <2>3. m + 1 \in 0 .. n
    BY <1>1
  <2> QED BY <2>2, <2>3
<1>7. n \in P
  <2> HIDE DEF P
  <2> QED BY <1>1, <1>5, <1>6, UpTo
<1>8. \A U \in SUBSET T : R(U)
  <2> HIDE DEF R
  <2> QED BY <1>1, <1>7
<1> QED BY <1>4, <1>8 DEF Takes

\* Two functions that agree on U have the same sum over U.
LEMMA SetSumSame ==
  ASSUME NEW T, IsFiniteSet(T), NEW g \in [T -> Nat], NEW h \in [T -> Nat],
         NEW i1, SetSum(g, i1, T), NEW i2, SetSum(h, i2, T),
         NEW W \in SUBSET T, \A x \in W : g[x] = h[x]
  PROVE  i1[W] = i2[W]
<1> DEFINE n == Cardinality(T)
           P == {m \in 0 .. n : \A U \in SUBSET W : Cardinality(U) <= m => i1[U] = i2[U]}
<1>1. n \in Nat /\ \A U \in SUBSET T : IsFiniteSet(U) /\ Cardinality(U) \in 0 .. n
  BY FS_CardinalityType, FS_Subset
<1>2. \A U \in SUBSET T : \A x \in U : U \ {x} \in SUBSET T
                                   /\ Cardinality(U \ {x}) = Cardinality(U) - 1
  BY <1>1, FS_RemoveElement
<1>3. \A U \in SUBSET T : Cardinality(U) = 0 <=> U = {}
  BY <1>1, FS_EmptySet
<1>4. \A U \in SUBSET T : /\ U = {} => i1[U] = 0 /\ i2[U] = 0
                          /\ \A x \in U : i1[U] = g[x] + i1[U \ {x}] /\ i2[U] = h[x] + i2[U \ {x}]
  <2>1. Takes(g, i1, T) /\ Takes(h, i2, T)
    BY SetSumTake
  <2> QED BY <2>1 DEF Takes
<1> HIDE DEF n
<1>5. 0 \in P
  <2>1. \A U \in SUBSET W : Cardinality(U) <= 0 => U = {}
    BY <1>1, <1>3
  <2> QED BY <2>1, <1>1, <1>4
<1>6. ASSUME NEW m \in 0 .. n - 1, m \in P PROVE m + 1 \in P
  <2>1. ASSUME NEW U \in SUBSET W, Cardinality(U) <= m + 1 PROVE i1[U] = i2[U]
    <3>1. CASE U = {}
      BY <3>1, <1>4
    <3>2. CASE U # {}
      <4>1. PICK x : x \in U
        BY <3>2
      <4>2. Cardinality(U \ {x}) <= m /\ U \ {x} \in SUBSET W
        BY <1>1, <1>2, <2>1, <4>1
      <4>3. i1[U \ {x}] = i2[U \ {x}]
        BY <1>6, <4>2
      <4> QED BY <4>1, <4>3, <1>4
    <3> QED BY <3>1, <3>2
  <2>2. m + 1 \in 0 .. n
    BY <1>1
  <2> QED BY <2>1, <2>2
<1>7. n \in P
  <2> HIDE DEF P
  <2>1. n \in Nat /\ n \in 0 .. n
    BY <1>1
  <2>2. \A m \in 0 .. n - 1 : m \in P => m + 1 \in P
    BY <1>6
  <2>3. 0 .. n \subseteq P
    BY <2>1, <2>2, <1>5, UpTo
  <2> QED BY <2>1, <2>3
<1> QED BY <1>1, <1>7

LEMMA SumFunctionIsSum ==
  ASSUME NEW T, IsFiniteSet(T), NEW g, DOMAIN g = T
  PROVE  \E it : SetSum(g, it, T) /\ SumFunction(g) = it[T]
<1>1. \E it : SetSum(g, it, T)
  BY SetSumExists
<1>2. SumFunction(g) = SumFunctionOnSet(g, T)
  BY DEF SumFunction
<1>3. \E it : SetSum(g, it, T) /\ SumFunctionOnSet(g, T) = it[T]
  BY <1>1 DEF SumFunctionOnSet, FoldFunctionOnSet, MapThenFoldSet, SetSum, AnyOf
<1> QED BY <1>2, <1>3

\* A sum of numbers is a number, no less than each of them.
LEMMA SumNat ==
  ASSUME NEW T, IsFiniteSet(T), NEW g \in [T -> Nat]
  PROVE  SumFunction(g) \in Nat /\ \A x \in T : SumFunction(g) >= g[x]
<1>1. PICK it : SetSum(g, it, T) /\ SumFunction(g) = it[T]
  BY SumFunctionIsSum
<1>2. \A U \in SUBSET T : it[U] \in Nat /\ \A x \in U : it[U] = g[x] + it[U \ {x}]
  <2>1. SetSum(g, it, T)
    BY <1>1
  <2>2. Takes(g, it, T)
    BY <2>1, SetSumTake
  <2> QED BY <2>2 DEF Takes
<1>3. it[T] \in Nat
  BY <1>2
<1>4. ASSUME NEW x \in T PROVE it[T] >= g[x]
  <2>1. it[T] = g[x] + it[T \ {x}] /\ it[T \ {x}] \in Nat /\ g[x] \in Nat
    BY <1>2
  <2> QED BY <2>1
<1> QED BY <1>1, <1>3, <1>4

\* A change at one point changes the sum by as much.
LEMMA SumPoint ==
  ASSUME NEW T, IsFiniteSet(T), NEW g \in [T -> Nat], NEW h \in [T -> Nat],
         NEW x \in T, \A y \in T : y # x => g[y] = h[y]
  PROVE  SumFunction(g) + h[x] = SumFunction(h) + g[x]
<1>1. PICK i1 : SetSum(g, i1, T) /\ SumFunction(g) = i1[T]
  BY SumFunctionIsSum
<1>2. PICK i2 : SetSum(h, i2, T) /\ SumFunction(h) = i2[T]
  BY SumFunctionIsSum
<1>3. i1[T] = g[x] + i1[T \ {x}] /\ i1[T \ {x}] \in Nat
  <2>1. SetSum(g, i1, T) /\ T \in SUBSET T /\ T \ {x} \in SUBSET T
    BY <1>1
  <2>2. Takes(g, i1, T)
    BY <2>1, SetSumTake
  <2> QED BY <2>1, <2>2 DEF Takes
<1>4. i2[T] = h[x] + i2[T \ {x}] /\ i2[T \ {x}] \in Nat
  <2>1. SetSum(h, i2, T) /\ T \in SUBSET T /\ T \ {x} \in SUBSET T
    BY <1>2
  <2>2. Takes(h, i2, T)
    BY <2>1, SetSumTake
  <2> QED BY <2>1, <2>2 DEF Takes
<1>5. i1[T \ {x}] = i2[T \ {x}]
  <2>1. T \ {x} \in SUBSET T /\ \A y \in T \ {x} : g[y] = h[y]
    OBVIOUS
  <2> QED BY <1>1, <1>2, <2>1, SetSumSame
<1>6. g[x] \in Nat /\ h[x] \in Nat
  OBVIOUS
<1> QED BY <1>1, <1>2, <1>3, <1>4, <1>5, <1>6

\* The sum of zeros.
LEMMA SumZero ==
  ASSUME NEW T, IsFiniteSet(T), NEW g \in [T -> Nat], \A x \in T : g[x] = 0
  PROVE  SumFunction(g) = 0
<1> DEFINE z == [U \in SUBSET T |-> 0]
<1>1. PICK it : SetSum(g, it, T) /\ SumFunction(g) = it[T]
  BY SumFunctionIsSum
<1>2. SetSum(g, z, T)
  <2>1. \A U \in SUBSET T : U # {} => AnyOf(U) \in U
    BY DEF AnyOf
  <2>2. \A U \in SUBSET T : 0 = IF U = {} THEN 0 ELSE g[AnyOf(U)] + z[U \ {AnyOf(U)}]
    BY <2>1
  <2> QED BY <2>2 DEF SetSum
<1>3. it[T] = z[T]
  <2> HIDE DEF z
  <2> QED BY <1>1, <1>2, SetSumSame
<1> QED BY <1>1, <1>3

-----------------------------------------------------------------------------
(* The segments of a sequence of packets.                                  *)

LEMMA FlattenExists ==
  ASSUME NEW n \in Nat, NEW s
  PROVE  \E it : it = [i \in 1 .. n |-> IF i = 1 THEN s[i] ELSE it[i - 1] \o s[i]]
<1> DEFINE Q(it, m) == it = [i \in 1 .. m |-> IF i = 1 THEN s[i] ELSE it[i - 1] \o s[i]]
           P == {m \in 0 .. n : \E it : Q(it, m)}
<1>1. 0 \in P
  <2> DEFINE it == [i \in 1 .. 0 |-> s[i]]
  <2>1. Q(it, 0)
    OBVIOUS
  <2>2. 0 \in 0 .. n
    OBVIOUS
  <2> HIDE DEF it, Q
  <2> QED BY <2>1, <2>2
<1>2. ASSUME NEW m \in 0 .. n - 1, m \in P PROVE m + 1 \in P
  <2>1. PICK it : Q(it, m)
    BY <1>2
  <2> DEFINE F(i) == IF i = m + 1 THEN (IF i = 1 THEN s[i] ELSE it[i - 1] \o s[i]) ELSE it[i]
             nit == [i \in 1 .. m + 1 |-> F(i)]
  <2>2. ASSUME NEW i \in 1 .. m + 1
        PROVE  F(i) = IF i = 1 THEN s[i] ELSE nit[i - 1] \o s[i]
    <3>1. \A j \in 1 .. m : nit[j] = it[j]
      OBVIOUS
    <3>2. i # 1 => i - 1 \in 1 .. m /\ nit[i - 1] = it[i - 1]
      BY <3>1
    <3>3. i # m + 1 => it[i] = IF i = 1 THEN s[i] ELSE it[i - 1] \o s[i]
      <4>1. i # m + 1 => i \in 1 .. m
        OBVIOUS
      <4>2. \A j \in 1 .. m : it[j] = IF j = 1 THEN s[j] ELSE it[j - 1] \o s[j]
        BY <2>1
      <4> QED BY <4>1, <4>2
    <3> HIDE DEF nit
    <3> QED BY <3>2, <3>3
  <2>3. Q(nit, m + 1)
    <3> DEFINE N == nit
    <3>1. \A i \in 1 .. m + 1 : F(i) = IF i = 1 THEN s[i] ELSE N[i - 1] \o s[i]
      BY <2>2
    <3>2. N = [i \in 1 .. m + 1 |-> F(i)]
      OBVIOUS
    <3> HIDE DEF F, N
    <3>3. N = [i \in 1 .. m + 1 |-> IF i = 1 THEN s[i] ELSE N[i - 1] \o s[i]]
      BY <3>1, <3>2
    <3> QED BY <3>3 DEF N
  <2>4. m + 1 \in 0 .. n
    OBVIOUS
  <2> HIDE DEF nit, Q
  <2> QED BY <2>3, <2>4
<1>3. n \in P
  <2> HIDE DEF P
  <2> QED BY <1>1, <1>2, UpTo
<1> QED BY <1>3

\* g[i] is what the first i packets consist of.
Joins(g, pkts, n) ==
  /\ g \in [0 .. n -> Seq(SegT)] /\ g[0] = <<>>
  /\ \A i \in 1 .. n : g[i] = g[i - 1] \o pkts[i].segs

LEMMA PktFields ==
  ASSUME NEW p \in PktT
  PROVE  p.len \in Nat /\ p.segs \in Seq(SegT)
BY DEF PktT

LEMMA SegsJoins ==
  ASSUME NEW pkts \in Seq(PktT)
  PROVE  \E g : Joins(g, pkts, Len(pkts)) /\ Segs(pkts) = g[Len(pkts)]
<1> DEFINE n == Len(pkts)
           s == [i \in 1 .. n |-> pkts[i].segs]
<1>1. n \in Nat /\ DOMAIN pkts = 1 .. n /\ \A i \in 1 .. n : s[i] \in Seq(SegT) /\ s[i] = pkts[i].segs
  <2>1. \A i \in 1 .. n : pkts[i] \in PktT
    BY ElementOfSeq
  <2> QED BY <2>1, PktFields
<1>2. s \in Seq(Seq(SegT)) /\ Len(s) = n
  <2>1. s \in [1 .. n -> Seq(SegT)]
    BY <1>1
  <2> HIDE DEF s, n
  <2> QED BY <1>1, <2>1, FunIsSeq
<1>3. Segs(pkts) = FlattenSeq(s)
  BY <1>1 DEF Segs
<1> HIDE DEF s, n
<1>4. CASE n = 0
  <2> DEFINE g == [i \in 0 .. 0 |-> <<>>]
  <2>1. s = <<>>
    BY <1>2, <1>4
  <2>2. FlattenSeq(s) = <<>>
    BY <2>1, <1>2, <1>4 DEF FlattenSeq
  <2>3. Joins(g, pkts, 0) /\ g[0] = <<>>
    BY DEF Joins
  <2> HIDE DEF g
  <2> QED BY <1>3, <1>4, <2>2, <2>3 DEF n
<1>5. CASE n # 0
  <2>1. \E it : it = [i \in 1 .. n |-> IF i = 1 THEN s[i] ELSE it[i - 1] \o s[i]]
    BY <1>1, FlattenExists
  <2>2. PICK it : /\ it = [i \in 1 .. n |-> IF i = 1 THEN s[i] ELSE it[i - 1] \o s[i]]
                  /\ FlattenSeq(s) = it[n]
    BY <2>1, <1>2, <1>5 DEF FlattenSeq
  <2> DEFINE g == [i \in 0 .. n |-> IF i = 0 THEN <<>> ELSE it[i]]
             P == {i \in 0 .. n : g[i] \in Seq(SegT)}
  <2>3. g[0] = <<>> /\ g[n] = it[n]
    BY <1>1, <1>5
  <2>4. ASSUME NEW i \in 1 .. n PROVE g[i] = IF i = 1 THEN s[i] ELSE g[i - 1] \o s[i]
    <3>1. it[i] = IF i = 1 THEN s[i] ELSE it[i - 1] \o s[i]
      BY <2>2
    <3>2. i # 1 => g[i - 1] = it[i - 1]
      BY <1>1
    <3>3. g[i] = it[i]
      BY <1>1
    <3> HIDE DEF g
    <3> QED BY <3>1, <3>2, <3>3
  <2> HIDE DEF g
  <2>5. 0 \in P
    <3>1. 0 \in 0 .. n /\ <<>> \in Seq(SegT)
      BY <1>1
    <3> QED BY <2>3, <3>1
  <2>6. \A i \in 0 .. n - 1 : i \in P => i + 1 \in P
    <3> SUFFICES ASSUME NEW i \in 0 .. n - 1, i \in P PROVE i + 1 \in P
      OBVIOUS
    <3>1. i + 1 \in 1 .. n /\ i + 1 \in 0 .. n /\ (i + 1) - 1 = i
      BY <1>1
    <3>2. g[i + 1] = IF i + 1 = 1 THEN s[i + 1] ELSE g[i] \o s[i + 1]
      BY <2>4, <3>1
    <3>3. s[i + 1] \in Seq(SegT) /\ g[i] \in Seq(SegT)
      BY <1>1, <3>1
    <3>4. g[i] \o s[i + 1] \in Seq(SegT)
      BY <3>3
    <3> QED BY <3>1, <3>2, <3>3, <3>4
  <2>7. \A i \in 0 .. n : g[i] \in Seq(SegT)
    <3>1. 0 .. n \subseteq P
      <4> HIDE DEF P
      <4> QED BY <1>1, <2>5, <2>6, UpTo
    <3> QED BY <3>1
  <2>8. \A i \in 1 .. n : g[i] = g[i - 1] \o pkts[i].segs
    <3> TAKE i \in 1 .. n
    <3>1. g[i] = IF i = 1 THEN s[i] ELSE g[i - 1] \o s[i]
      BY <2>4
    <3>2. s[i] = pkts[i].segs /\ s[i] \in Seq(SegT)
      BY <1>1
    <3>3. i = 1 => g[i - 1] \o s[i] = s[i]
      <4>1. <<>> \o s[i] = s[i]
        BY <3>2, ConcatEmptySeq
      <4>2. i = 1 => i - 1 = 0
        OBVIOUS
      <4> QED BY <2>3, <4>1, <4>2
    <3> QED BY <3>1, <3>2, <3>3
  <2>9. g \in [0 .. n -> Seq(SegT)]
    BY <2>7 DEF g
  <2>10. Joins(g, pkts, n)
    BY <2>3, <2>8, <2>9 DEF Joins
  <2> QED BY <1>3, <2>2, <2>3, <2>10 DEF n
<1> QED BY <1>4, <1>5

LEMMA SegsType ==
  ASSUME NEW pkts \in Seq(PktT)
  PROVE  Segs(pkts) \in Seq(SegT) /\ (pkts = <<>> => Segs(pkts) = <<>>)
<1>1. PICK g : Joins(g, pkts, Len(pkts)) /\ Segs(pkts) = g[Len(pkts)]
  BY SegsJoins
<1>2. Len(pkts) \in 0 .. Len(pkts) /\ (pkts = <<>> => Len(pkts) = 0)
  OBVIOUS
<1> QED BY <1>1, <1>2 DEF Joins

LEMMA JoinsUnique ==
  ASSUME NEW n \in Nat, NEW m \in Nat, NEW g, NEW h, NEW a, NEW b,
         Joins(g, a, n), Joins(h, b, m), NEW k \in Nat, k <= n, k <= m,
         \A i \in 1 .. k : a[i] = b[i]
  PROVE  g[k] = h[k]
<1> DEFINE P == {i \in 0 .. k : g[i] = h[i]}
<1>1. 0 \in P
  BY DEF Joins
<1>2. \A i \in 0 .. k - 1 : i \in P => i + 1 \in P
  <2> SUFFICES ASSUME NEW i \in 0 .. k - 1, i \in P PROVE i + 1 \in P
    OBVIOUS
  <2>1. i + 1 \in 1 .. n /\ i + 1 \in 1 .. m /\ (i + 1) - 1 = i /\ i + 1 \in 1 .. k
    OBVIOUS
  <2>2. g[i + 1] = g[i] \o a[i + 1].segs /\ h[i + 1] = h[i] \o b[i + 1].segs
    BY <2>1 DEF Joins
  <2>3. g[i] = h[i] /\ a[i + 1] = b[i + 1]
    BY <2>1
  <2>4. g[i + 1] = h[i + 1] /\ i + 1 \in 0 .. k
    BY <2>1, <2>2, <2>3
  <2> QED BY <2>4
<1>3. 0 .. k \subseteq P
  <2> HIDE DEF P
  <2> QED BY <1>1, <1>2, UpTo
<1> QED BY <1>3

LEMMA SegsAppend ==
  ASSUME NEW pkts \in Seq(PktT), NEW p \in PktT
  PROVE  Segs(Append(pkts, p)) = Segs(pkts) \o p.segs
<1> DEFINE n == Len(pkts)  q == Append(pkts, p)
<1>1. n \in Nat /\ q \in Seq(PktT) /\ Len(q) = n + 1 /\ q[n + 1] = p /\ \A i \in 1 .. n : q[i] = pkts[i]
  OBVIOUS
<1> HIDE DEF q
<1>2. PICK g : Joins(g, pkts, n) /\ Segs(pkts) = g[n]
  BY SegsJoins
<1>3. PICK h : Joins(h, q, n + 1) /\ Segs(q) = h[n + 1]
  BY <1>1, SegsJoins
<1> HIDE DEF n
<1>4. g[n] = h[n]
  <2>1. Joins(g, pkts, n) /\ Joins(h, q, n + 1)
    BY <1>2, <1>3
  <2>2. n \in Nat /\ n + 1 \in Nat /\ n <= n + 1 /\ \A i \in 1 .. n : pkts[i] = q[i]
    BY <1>1
  <2> QED BY <2>1, <2>2, JoinsUnique
<1>5. h[n + 1] = h[n] \o p.segs
  <2>1. n + 1 \in 1 .. n + 1 /\ (n + 1) - 1 = n
    BY <1>1
  <2>2. h[n + 1] = h[(n + 1) - 1] \o q[n + 1].segs
    BY <1>3, <2>1 DEF Joins
  <2> QED BY <2>1, <2>2, <1>1
<1>6. Segs(q) = Segs(pkts) \o p.segs
  BY <1>2, <1>3, <1>4, <1>5
<1> QED BY <1>6 DEF q

LEMMA SegsTail ==
  ASSUME NEW pkts \in Seq(PktT), pkts # <<>>
  PROVE  Segs(pkts) = Head(pkts).segs \o Segs(Tail(pkts))
<1> DEFINE n == Len(pkts)  t == Tail(pkts)  first == pkts[1].segs
<1>1. /\ n \in Nat \ {0} /\ t \in Seq(PktT) /\ Len(t) = n - 1 /\ Head(pkts) = pkts[1]
      /\ \A i \in 1 .. n - 1 : t[i] = pkts[i + 1]
  BY HeadTailProperties
<1>2. \A i \in 1 .. n : pkts[i] \in PktT /\ pkts[i].segs \in Seq(SegT)
  <2>1. \A i \in 1 .. n : pkts[i] \in PktT
    BY ElementOfSeq
  <2> QED BY <2>1, PktFields
<1>3. first \in Seq(SegT)
  BY <1>1, <1>2
<1> HIDE DEF t
<1>4. PICK g : Joins(g, pkts, n) /\ Segs(pkts) = g[n]
  BY SegsJoins
<1>5. PICK h : Joins(h, t, n - 1) /\ Segs(t) = h[n - 1]
  BY <1>1, SegsJoins
<1> HIDE DEF n, first
<1> DEFINE P == {i \in 0 .. n - 1 : g[i + 1] = first \o h[i]}
<1>6. 0 \in P
  <2>1. g[1] = g[0] \o pkts[1].segs /\ g[0] = <<>> /\ h[0] = <<>>
    <3>1. 1 \in 1 .. n /\ 1 - 1 = 0
      BY <1>1
    <3>2. g[1] = g[1 - 1] \o pkts[1].segs
      BY <1>4, <3>1 DEF Joins
    <3> QED BY <3>1, <3>2, <1>4, <1>5 DEF Joins
  <2>2. g[1] = first /\ first \o h[0] = first
    BY <2>1, <1>3 DEF first
  <2>3. 0 \in 0 .. n - 1 /\ 0 + 1 = 1
    BY <1>1
  <2> QED BY <2>2, <2>3
<1>7. \A i \in 0 .. (n - 1) - 1 : i \in P => i + 1 \in P
  <2> SUFFICES ASSUME NEW i \in 0 .. (n - 1) - 1, i \in P PROVE i + 1 \in P
    OBVIOUS
  <2>1. /\ i + 2 \in 1 .. n /\ (i + 2) - 1 = i + 1 /\ i + 1 \in 1 .. n - 1 /\ (i + 1) - 1 = i
        /\ i + 1 \in 0 .. n - 1 /\ i \in 0 .. n - 1 /\ (i + 1) + 1 = i + 2
    BY <1>1
  <2>2. g[i + 2] = g[(i + 2) - 1] \o pkts[i + 2].segs
    BY <1>4, <2>1 DEF Joins
  <2>3. h[i + 1] = h[(i + 1) - 1] \o t[i + 1].segs
    BY <1>5, <2>1 DEF Joins
  <2>4. t[i + 1] = pkts[i + 2] /\ pkts[i + 2].segs \in Seq(SegT) /\ h[i] \in Seq(SegT)
    BY <1>1, <1>2, <1>5, <2>1 DEF Joins
  <2>5. g[i + 1] = first \o h[i]
    OBVIOUS
  <2>6. (first \o h[i]) \o pkts[i + 2].segs = first \o (h[i] \o pkts[i + 2].segs)
    <3> DEFINE x == h[i]  y == pkts[i + 2].segs
    <3>1. x \in Seq(SegT) /\ y \in Seq(SegT)
      BY <2>4
    <3> HIDE DEF x, y
    <3>2. (first \o x) \o y = first \o (x \o y)
      BY <1>3, <3>1, ConcatAssociative
    <3> QED BY <3>2 DEF x, y
  <2>7. g[i + 2] = first \o h[i + 1]
    BY <2>1, <2>2, <2>3, <2>4, <2>5, <2>6
  <2> QED BY <2>1, <2>7
<1>8. n - 1 \in P
  <2>1. n - 1 \in Nat
    BY <1>1
  <2>2. 0 .. n - 1 \subseteq P
    <3> HIDE DEF P
    <3> QED BY <2>1, <1>6, <1>7, UpTo
  <2> QED BY <2>1, <2>2
<1>9. g[n] = first \o h[n - 1]
  <2>1. (n - 1) + 1 = n
    BY <1>1
  <2> QED BY <1>8, <2>1
<1> QED BY <1>1, <1>4, <1>5, <1>9 DEF first, t

-----------------------------------------------------------------------------
(* The loop of recv_queue.                                                 *)

RecvFold(it, st, c, n) ==
  it = [S \in SUBSET (1 .. n) |-> IF S = {} THEN st ELSE RecvDesc(it[S \ {Max(S)}], c[Max(S)])]

LEMMA RecvFoldExists ==
  ASSUME NEW n \in Nat, NEW c, NEW st
  PROVE  \E it : RecvFold(it, st, c, n)
<1> DEFINE P == {m \in 0 .. n : \E it : it = [S \in SUBSET (1 .. m) |->
                                  IF S = {} THEN st ELSE RecvDesc(it[S \ {Max(S)}], c[Max(S)])]}
<1>1. 0 \in P
  <2> DEFINE it == [S \in SUBSET (1 .. 0) |-> st]
  <2>1. it = [S \in SUBSET (1 .. 0) |-> IF S = {} THEN st ELSE RecvDesc(it[S \ {Max(S)}], c[Max(S)])]
    <3>1. \A S \in SUBSET (1 .. 0) : S = {}
      OBVIOUS
    <3> QED BY <3>1
  <2>2. 0 \in 0 .. n
    OBVIOUS
  <2> HIDE DEF it
  <2> QED BY <2>1, <2>2
<1>2. ASSUME NEW m \in 0 .. n - 1, m \in P PROVE m + 1 \in P
  <2>1. PICK it : it = [S \in SUBSET (1 .. m) |->
                          IF S = {} THEN st ELSE RecvDesc(it[S \ {Max(S)}], c[Max(S)])]
    BY <1>2
  <2> DEFINE F(S) == IF m + 1 \in S THEN RecvDesc(it[S \ {m + 1}], c[m + 1]) ELSE it[S]
             nit == [S \in SUBSET (1 .. m + 1) |-> F(S)]
  <2>2. ASSUME NEW S \in SUBSET (1 .. m + 1)
        PROVE  F(S) = IF S = {} THEN st ELSE RecvDesc(nit[S \ {Max(S)}], c[Max(S)])
    <3>1. CASE S = {}
      <4>1. {} \in SUBSET (1 .. m) /\ m + 1 \notin S
        BY <3>1
      <4> QED BY <3>1, <4>1, <2>1
    <3>2. CASE m + 1 \in S
      <4>1. Max(S) = m + 1
        <5>1. m + 1 \in Nat /\ S # {}
          BY <3>2
        <5>2. Max(S) \in S /\ \A y \in S : y <= Max(S)
          BY <5>1, GreatestUpTo
        <5>3. Max(S) \in 1 .. m + 1 /\ m + 1 <= Max(S)
          BY <3>2, <5>2
        <5> QED BY <5>3
      <4>2. S \ {m + 1} \in SUBSET (1 .. m + 1) /\ m + 1 \notin S \ {m + 1} /\ S # {}
        BY <3>2
      <4>3. nit[S \ {m + 1}] = it[S \ {m + 1}]
        BY <4>2
      <4> HIDE DEF nit
      <4> QED BY <3>2, <4>1, <4>2, <4>3
    <3>3. CASE S # {} /\ m + 1 \notin S
      <4>1. S \in SUBSET (1 .. m)
        BY <3>3
      <4>2. Max(S) \in S
        <5>1. m \in Nat
          OBVIOUS
        <5> QED BY <3>3, <4>1, <5>1, GreatestUpTo
      <4>3. S \ {Max(S)} \in SUBSET (1 .. m + 1) /\ m + 1 \notin S \ {Max(S)}
        BY <3>3
      <4>4. nit[S \ {Max(S)}] = it[S \ {Max(S)}]
        BY <4>3
      <4>5. it[S] = RecvDesc(it[S \ {Max(S)}], c[Max(S)])
        BY <2>1, <3>3, <4>1
      <4> HIDE DEF nit
      <4> QED BY <3>3, <4>4, <4>5
    <3> QED BY <3>1, <3>2, <3>3
  <2>3. nit = [S \in SUBSET (1 .. m + 1) |-> IF S = {} THEN st ELSE RecvDesc(nit[S \ {Max(S)}], c[Max(S)])]
    <3> DEFINE N == nit
    <3>1. \A S \in SUBSET (1 .. m + 1) : F(S) = IF S = {} THEN st ELSE RecvDesc(N[S \ {Max(S)}], c[Max(S)])
      BY <2>2
    <3>2. N = [S \in SUBSET (1 .. m + 1) |-> F(S)]
      OBVIOUS
    <3> HIDE DEF F, N
    <3>3. N = [S \in SUBSET (1 .. m + 1) |-> IF S = {} THEN st ELSE RecvDesc(N[S \ {Max(S)}], c[Max(S)])]
      BY <3>1, <3>2
    <3> QED BY <3>3 DEF N
  <2>4. m + 1 \in 0 .. n
    OBVIOUS
  <2> HIDE DEF nit
  <2> QED BY <2>3, <2>4
<1>3. n \in P
  <2> HIDE DEF P
  <2> QED BY <1>1, <1>2, UpTo
<1> QED BY <1>3 DEF RecvFold

\* run[i] is the loop's state after i descriptors.
Runs(run, st, descs, n) ==
  run[0] = st /\ \A i \in 1 .. n : run[i] = RecvDesc(run[i - 1], descs[i])

LEMMA RecvLoopRuns ==
  ASSUME NEW T, NEW descs \in Seq(T), NEW st
  PROVE  \E run : Runs(run, st, descs, Len(descs)) /\ RecvLoop(st, descs) = run[Len(descs)]
<1> DEFINE n == Len(descs)
<1>1. n \in Nat /\ DOMAIN descs = 1 .. n
  OBVIOUS
<1> HIDE DEF n
<1>2. \E it : RecvFold(it, st, descs, n)
  BY <1>1, RecvFoldExists
<1>3. PICK it : RecvFold(it, st, descs, n) /\ RecvLoop(st, descs) = it[1 .. n]
  BY <1>1, <1>2 DEF RecvFold, RecvLoop, FoldLeft, MapThenFoldSet
<1> DEFINE run == [i \in 0 .. n |-> it[1 .. i]]
<1>4. run[0] = st /\ run[n] = it[1 .. n]
  <2>1. 1 .. 0 = {} /\ {} \in SUBSET (1 .. n) /\ 0 \in 0 .. n /\ n \in 0 .. n
    BY <1>1
  <2>2. it[{}] = st
    BY <2>1, <1>3 DEF RecvFold
  <2> QED BY <2>1, <2>2
<1>5. ASSUME NEW i \in 1 .. n PROVE run[i] = RecvDesc(run[i - 1], descs[i])
  <2>1. 1 .. i \in SUBSET (1 .. n) /\ 1 .. i # {}
    BY <1>1
  <2>2. Max(1 .. i) = i
    <3>1. Max(1 .. i) \in 1 .. i /\ \A y \in 1 .. i : y <= Max(1 .. i)
      BY <1>1, <2>1, GreatestUpTo
    <3> QED BY <3>1
  <2>3. (1 .. i) \ {i} = 1 .. i - 1
    OBVIOUS
  <2>4. it[1 .. i] = RecvDesc(it[(1 .. i) \ {Max(1 .. i)}], descs[Max(1 .. i)])
    BY <1>3, <2>1 DEF RecvFold
  <2>5. it[1 .. i] = RecvDesc(it[1 .. i - 1], descs[i])
    BY <2>2, <2>3, <2>4
  <2>6. run[i] = it[1 .. i] /\ run[i - 1] = it[1 .. i - 1]
    BY <1>1
  <2> HIDE DEF run
  <2> QED BY <2>5, <2>6
<1>6. Runs(run, st, descs, n)
  <2> HIDE DEF run
  <2> QED BY <1>4, <1>5 DEF Runs
<1> HIDE DEF run
<1> QED BY <1>3, <1>4, <1>6 DEF n

-----------------------------------------------------------------------------
(* Chains of descriptors.                                                  *)

LEMMA Constants ==
  /\ Room \in Nat \ {0} /\ MaxSegs \in Nat /\ JumboMax \in Nat /\ WireMax \in Nat /\ Batch \in Nat
  /\ FrameSize \in Nat /\ Headroom \in Nat /\ Headroom < FrameSize /\ WireMax <= JumboMax
  /\ RingCap \in Nat /\ TxCap \in Nat /\ FqCap \in Nat /\ RxCap \in Nat /\ Overhead \in Nat
  /\ MaxSegs <= TxCap /\ NFrames \in Nat
<1>1. NFrames \in Nat
  BY UmemAssumption, FS_CardinalityType DEF NFrames
<1> QED BY <1>1, UmemAssumption DEF Room

LEMMA OneMore ==
  ASSUME NEW a \in Nat, NEW r \in Nat
  PROVE  (a + 1) * r = a * r + r /\ a * r \in Nat /\ 0 * r = 0
OBVIOUS

\* How a received packet is cut: room by room, none of it empty.
LEMMA Chunks ==
  ASSUME NEW len \in Nat \ {0}
  PROVE  LET c == ChunkLens(len)  k == Len(c)
         IN  /\ c \in Seq(Nat \ {0}) /\ k \in Nat \ {0}
             /\ \A i \in 1 .. k : (i < k => c[i] = Room) /\ (i - 1) * Room + c[i] <= len
<1> DEFINE k == (len + Room - 1) \div Room
           F(i) == IF i < k THEN Room ELSE len - (k - 1) * Room
           c == [i \in 1 .. k |-> F(i)]
<1>0. Room \in Nat \ {0}
  BY Constants
<1>1. k \in Nat /\ k * Room <= len + Room - 1 /\ len + Room - 1 < k * Room + Room
  BY <1>0
<1>2. k # 0
  BY <1>0, <1>1
<1> HIDE DEF k
<1>3. (k - 1) * Room + Room = k * Room /\ (k - 1) * Room \in Nat
  <2>1. k - 1 \in Nat /\ (k - 1) + 1 = k
    BY <1>1, <1>2
  <2> QED BY <1>0, <2>1, OneMore
<1>4. \A i \in 1 .. k : F(i) \in Nat \ {0}
  BY <1>0, <1>1, <1>3
<1>5. c \in Seq(Nat \ {0}) /\ Len(c) = k
  <2>1. c \in [1 .. k -> Nat \ {0}]
    BY <1>4
  <2> HIDE DEF c
  <2> QED BY <1>1, <2>1, FunIsSeq
<1>6. ChunkLens(len) = c
  BY DEF ChunkLens, k, Room
<1>7. ASSUME NEW i \in 1 .. k PROVE (i - 1) * Room + F(i) <= len
  <2>1. CASE i = k
    BY <2>1, <1>0, <1>1, <1>3
  <2>2. CASE i # k
    <3>1. i \in Nat /\ i <= k - 1 /\ k - 1 \in Nat
      BY <1>1, <2>2
    <3>2. (i - 1) * Room + Room = i * Room
      <4>1. i - 1 \in Nat /\ (i - 1) + 1 = i
        OBVIOUS
      <4> QED BY <1>0, <4>1, OneMore
    <3>3. i * Room <= (k - 1) * Room
      BY <1>0, <3>1
    <3>4. F(i) = Room
      BY <3>1, <1>1
    <3>5. (k - 1) * Room < len
      BY <1>0, <1>1, <1>3
    <3>6. i * Room \in Nat /\ (i - 1) * Room \in Nat
      BY <1>0, <3>1, OneMore
    <3> HIDE DEF F
    <3> QED BY <1>0, <1>3, <3>2, <3>3, <3>4, <3>5, <3>6
  <2> QED BY <2>1, <2>2
<1>8. \A i \in 1 .. k : c[i] = F(i)
  OBVIOUS
<1>9. \A i \in 1 .. k : (i < k => c[i] = Room) /\ (i - 1) * Room + c[i] <= len
  <2>1. \A i \in 1 .. k : i < k => F(i) = Room
    OBVIOUS
  <2> HIDE DEF F, c
  <2> QED BY <1>7, <1>8, <2>1
<1> HIDE DEF c
<1> QED BY <1>1, <1>2, <1>5, <1>6, <1>9

LEMMA EndsConcat ==
  ASSUME NEW T, NEW s \in Seq(T), NEW t \in Seq(T), NEW n \in Nat, Ends(s, n), Ends(t, n)
  PROVE  Ends(s \o t, n)
<1> DEFINE st == s \o t
<1>1. /\ Len(s) \in Nat /\ Len(t) \in Nat /\ Len(st) = Len(s) + Len(t)
      /\ \A i \in 1 .. Len(s) : st[i] = s[i]
      /\ \A i \in 1 .. Len(t) : st[Len(s) + i] = t[i]
  BY Concat
<1> HIDE DEF st
<1>2. ASSUME NEW j \in 1 .. Len(st)
      PROVE  \E k \in j .. Least(j + n - 1, Len(st)) : ~st[k].contd
  <2>1. CASE j <= Len(s)
    <3>1. PICK k \in j .. Least(j + n - 1, Len(s)) : ~s[k].contd
      BY <2>1, <1>1 DEF Ends
    <3>2. k \in j .. Least(j + n - 1, Len(st)) /\ k \in 1 .. Len(s)
      BY <2>1, <1>1, <3>1 DEF Least
    <3> QED BY <3>1, <3>2, <1>1
  <2>2. CASE j > Len(s)
    <3>1. j - Len(s) \in 1 .. Len(t)
      BY <2>2, <1>1
    <3>2. PICK k \in (j - Len(s)) .. Least((j - Len(s)) + n - 1, Len(t)) : ~t[k].contd
      BY <3>1 DEF Ends
    <3>3. Len(s) + k \in j .. Least(j + n - 1, Len(st)) /\ k \in 1 .. Len(t)
      BY <2>2, <1>1, <3>1, <3>2 DEF Least
    <3>4. ~st[Len(s) + k].contd
      BY <3>2, <3>3, <1>1
    <3> QED BY <3>3, <3>4
  <2> QED BY <2>1, <2>2, <1>1
<1>3. Ends(st, n)
  BY <1>2 DEF Ends
<1> QED BY <1>3 DEF st

LEMMA EndsSuffix ==
  ASSUME NEW T, NEW s \in Seq(T), NEW n \in Nat, Ends(s, n), NEW m \in 0 .. Len(s)
  PROVE  Ends(SubSeq(s, m + 1, Len(s)), n)
<1> DEFINE t == SubSeq(s, m + 1, Len(s))
<1>1. Len(s) \in Nat /\ Len(t) = Len(s) - m /\ \A i \in 1 .. Len(s) - m : t[i] = s[m + i]
  BY Part
<1> HIDE DEF t
<1>2. ASSUME NEW j \in 1 .. Len(t)
      PROVE  \E k \in j .. Least(j + n - 1, Len(t)) : ~t[k].contd
  <2>1. m + j \in 1 .. Len(s)
    BY <1>1
  <2>2. PICK k \in (m + j) .. Least((m + j) + n - 1, Len(s)) : ~s[k].contd
    BY <2>1 DEF Ends
  <2>3. k - m \in j .. Least(j + n - 1, Len(t)) /\ k - m \in 1 .. Len(s) - m /\ m + (k - m) = k
    BY <1>1, <2>1, <2>2 DEF Least
  <2>4. ~t[k - m].contd
    BY <2>2, <2>3, <1>1
  <2> QED BY <2>3, <2>4
<1> QED BY <1>2 DEF Ends, t

\* One chain: all its descriptors but the last are continued.
LEMMA EndsChain ==
  ASSUME NEW T, NEW s \in Seq(T), NEW n \in Nat, Len(s) <= n,
         \A i \in 1 .. Len(s) : s[i].contd = (i < Len(s))
  PROVE  Ends(s, n)
<1>1. ASSUME NEW j \in 1 .. Len(s)
      PROVE  \E k \in j .. Least(j + n - 1, Len(s)) : ~s[k].contd
  <2>1. Len(s) \in j .. Least(j + n - 1, Len(s)) /\ Len(s) \in 1 .. Len(s) /\ ~(Len(s) < Len(s))
    BY DEF Least
  <2>2. ~s[Len(s)].contd
    <3>1. s[Len(s)].contd = (Len(s) < Len(s))
      BY <2>1
    <3>2. (Len(s) < Len(s)) = FALSE
      BY <2>1
    <3> QED BY <3>1, <3>2
  <2> QED BY <2>1, <2>2
<1> QED BY <1>1 DEF Ends

LEMMA EndsLast ==
  ASSUME NEW T, NEW s \in Seq(T), NEW n \in Nat, Ends(s, n), s # <<>>
  PROVE  ~s[Len(s)].contd
<1>1. Len(s) \in 1 .. Len(s)
  OBVIOUS
<1>2. PICK k \in Len(s) .. Least(Len(s) + n - 1, Len(s)) : ~s[k].contd
  BY <1>1 DEF Ends
<1>3. k = Len(s)
  BY <1>1, <1>2 DEF Least
<1> QED BY <1>2, <1>3

LEMMA EndsEmpty == \A n : Ends(<<>>, n)
BY DEF Ends

LEMMA WholeIsEnds ==
  ASSUME TypeInv, NEW d \in Dirs
  PROVE  (/\ tx[d] # <<>> => ~Last(tx[d]).contd
          /\ \A i \in DOMAIN tx[d] : \E k \in i .. Least(i + MaxSegs - 1, Len(tx[d])) : ~tx[d][k].contd)
         <=> Ends(tx[d], MaxSegs)
<1>1. tx[d] \in Seq(TxDescT) /\ DOMAIN tx[d] = 1 .. Len(tx[d])
  BY DEF TypeInv, TypeRings
<1>2. MaxSegs \in Nat
  BY Constants
<1>3. Ends(tx[d], MaxSegs) /\ tx[d] # <<>> => ~Last(tx[d]).contd
  BY <1>1, <1>2, EndsLast DEF Last
<1> QED BY <1>1, <1>3 DEF Ends

-----------------------------------------------------------------------------
(* Packets, the pool, and what moves between them.                         *)

LEMMA SmallFields ==
  ASSUME NEW p \in SmallT
  PROVE  /\ p \in PktT /\ p.len \in Nat /\ p.segs \in Seq(SegT) /\ Len(p.segs) \in Nat
         /\ Len(p.segs) <= MaxSegs /\ DOMAIN p.segs = 1 .. Len(p.segs)
<1>1. p \in PktT /\ Len(p.segs) <= MaxSegs
  BY DEF SmallT
<1>2. p.len \in Nat /\ p.segs \in Seq(SegT)
  BY <1>1, PktFields
<1> QED BY <1>1, <1>2

LEMMA SmallMake ==
  ASSUME NEW n \in Nat, NEW s \in Seq(SegT), Len(s) <= MaxSegs
  PROVE  [len |-> n, segs |-> s] \in SmallT
BY DEF SmallT, PktT

LEMMA NoPacketSmall ==
  NoPacket \in SmallT /\ NoPacket.segs = <<>> /\ Addrs(NoPacket) = <<>>
<1>1. MaxSegs \in Nat
  BY Constants
<1>2. NoPacket \in SmallT
  BY <1>1 DEF NoPacket, SmallT, PktT
<1> QED BY <1>2 DEF NoPacket, Addrs

LEMMA SmallSeq == ASSUME NEW s \in Seq(SmallT) PROVE s \in Seq(PktT)
<1>1. SmallT \subseteq PktT
  BY DEF SmallT
<1> QED BY <1>1

LEMMA AddrsOf ==
  ASSUME NEW p \in PktT, NEW f
  PROVE  /\ Addrs(p) \in Seq(AddrT) /\ Len(Addrs(p)) = Len(p.segs)
         /\ Times(f, Addrs(p)) = Times(f, p.segs)
<1>1. p.segs \in Seq(SegT) /\ Len(p.segs) \in Nat /\ DOMAIN p.segs = 1 .. Len(p.segs)
  BY PktFields
<1>2. \A i \in 1 .. Len(p.segs) : p.segs[i] \in SegT
  BY <1>1
<1>3. \A s \in SegT : AddrOf(s) \in AddrT /\ AddrOf(s).f = s.f
  BY DEF SegT, AddrT, AddrOf, Addr
<1>4. Addrs(p) = [i \in 1 .. Len(p.segs) |-> AddrOf(p.segs[i])]
  BY <1>1 DEF Addrs
<1>5. Addrs(p) \in [1 .. Len(p.segs) -> AddrT]
  BY <1>2, <1>3, <1>4
<1>6. Addrs(p) \in Seq(AddrT) /\ Len(Addrs(p)) = Len(p.segs)
  BY <1>1, <1>5, FunIsSeq
<1>7. \A i \in 1 .. Len(p.segs) : Addrs(p)[i].f = p.segs[i].f
  BY <1>2, <1>3, <1>4
<1>8. Times(f, Addrs(p)) = Times(f, p.segs)
  BY <1>1, <1>6, <1>7, TimesSame
<1> QED BY <1>6, <1>8

LEMMA DescsOf ==
  ASSUME NEW p \in PktT, NEW f
  PROVE  /\ Descs(p) \in Seq(TxDescT) /\ Len(Descs(p)) = Len(p.segs)
         /\ \A i \in 1 .. Len(p.segs) : Descs(p)[i].contd = (i < Len(p.segs))
         /\ Times(f, Descs(p)) = Times(f, p.segs)
<1> DEFINE D(i) == [f |-> p.segs[i].f, off |-> p.segs[i].off,
                    len |-> Least(p.segs[i].len, FrameSize), contd |-> i < Len(p.segs)]
<1>1. p.segs \in Seq(SegT) /\ Len(p.segs) \in Nat /\ DOMAIN p.segs = 1 .. Len(p.segs)
  BY PktFields
<1>2. \A i \in 1 .. Len(p.segs) : p.segs[i] \in SegT
  BY <1>1
<1>3. ASSUME NEW i \in 1 .. Len(p.segs)
      PROVE  D(i) \in TxDescT /\ D(i).f = p.segs[i].f /\ D(i).contd = (i < Len(p.segs))
  <2>1. p.segs[i].f \in Frames /\ p.segs[i].off \in Nat /\ p.segs[i].len \in Nat
    BY <1>2 DEF SegT
  <2>2. Least(p.segs[i].len, FrameSize) \in Nat
    BY <2>1, Constants DEF Least
  <2>3. (i < Len(p.segs)) \in BOOLEAN
    OBVIOUS
  <2> QED BY <2>1, <2>2, <2>3 DEF TxDescT
<1>4. Descs(p) = [i \in 1 .. Len(p.segs) |-> D(i)]
  BY <1>1 DEF Descs
<1> HIDE DEF D
<1>5. Descs(p) \in [1 .. Len(p.segs) -> TxDescT]
  BY <1>3, <1>4
<1>6. Descs(p) \in Seq(TxDescT) /\ Len(Descs(p)) = Len(p.segs)
  BY <1>1, <1>5, FunIsSeq
<1>7. \A i \in 1 .. Len(p.segs) : Descs(p)[i] = D(i)
  BY <1>4
<1>8. Times(f, Descs(p)) = Times(f, p.segs)
  <2>1. \A i \in 1 .. Len(p.segs) : Descs(p)[i].f = p.segs[i].f
    BY <1>3, <1>7
  <2> QED BY <1>1, <1>6, <2>1, TimesSame
<1> QED BY <1>3, <1>6, <1>7, <1>8

LEMMA PushType ==
  ASSUME NEW p \in Seq(AddrT), NEW a \in Seq(AddrT)
  PROVE  PoolPush(p, a) \in Seq(AddrT)
<1> DEFINE m == Least(Len(a), NFrames - Len(p))
<1>1. m \in Int /\ m <= Len(a) /\ Len(a) \in Nat
  BY Constants DEF Least
<1> HIDE DEF m
<1>2. SubSeq(a, 1, m) \in Seq(AddrT)
  <2>1. CASE m >= 1
    BY <2>1, <1>1, Part
  <2>2. CASE m < 1
    <3>1. SubSeq(a, 1, m) = <<>>
      BY <2>2, <1>1
    <3>2. <<>> \in Seq(AddrT)
      OBVIOUS
    <3> QED BY <3>1, <3>2
  <2> QED BY <2>1, <2>2, <1>1
<1>3. p \o SubSeq(a, 1, m) \in Seq(AddrT)
  BY <1>2, Concat
<1> QED BY <1>3 DEF PoolPush, m

\* While no frame is free twice, pool_push takes every address it is given.
LEMMA PushFits ==
  ASSUME NEW p \in Seq(AddrT), NEW a \in Seq(AddrT),
         \A g \in Frames : Times(g, p) + Times(g, a) <= 1
  PROVE  \A g : Times(g, PoolPush(p, a)) = Times(g, p) + Times(g, a)
<1>1. p \o a \in Seq(AddrT) /\ Len(p \o a) = Len(p) + Len(a) /\ Len(p) \in Nat /\ Len(a) \in Nat
  BY Concat
<1>2. \A g : Times(g, p \o a) = Times(g, p) + Times(g, a)
  BY TimesConcat
<1>3. Len(p \o a) <= NFrames
  <2>1. \A e \in AddrT : e.f \in Frames
    BY DEF AddrT
  <2> QED BY <1>1, <1>2, <2>1, NoOverflow
<1>4. Least(Len(a), NFrames - Len(p)) = Len(a)
  BY <1>1, <1>3, Constants DEF Least
<1>5. SubSeq(a, 1, Len(a)) = a
  OBVIOUS
<1>6. PoolPush(p, a) = p \o a
  BY <1>4, <1>5 DEF PoolPush
<1> QED BY <1>2, <1>6

LEMMA LeastIs ==
  ASSUME NEW a \in Int, NEW b \in Int
  PROVE  /\ Least(a, b) \in Int /\ Least(a, b) <= a /\ Least(a, b) <= b
         /\ (a <= b => Least(a, b) = a) /\ (b <= a => Least(a, b) = b)
BY DEF Least

LEMMA OnePart ==
  ASSUME NEW T, NEW s \in Seq(T), s # <<>>
  PROVE  SubSeq(s, 1, 1) = <<s[1]>> /\ s[1] \in T
<1>1. Len(s) \in Nat /\ Len(s) >= 1
  OBVIOUS
<1>2. s[1] \in T
  BY <1>1
<1>3. \A a \in Nat : a = 1 => SubSeq(s, a, a) \in Seq(T) /\ Len(SubSeq(s, a, a)) = 1 /\ SubSeq(s, a, a)[1] = s[1]
  BY <1>1, Part
<1>4. SubSeq(s, 1, 1) \in Seq(T) /\ Len(SubSeq(s, 1, 1)) = 1 /\ SubSeq(s, 1, 1)[1] = s[1]
  BY <1>3
<1>5. <<s[1]>> \in Seq(T) /\ Len(<<s[1]>>) = 1 /\ (<<s[1]>>)[1] = s[1]
  BY <1>2
<1>6. SubSeq(s, 1, 1) = <<s[1]>>
  <2>1. \A i \in 1 .. 1 : SubSeq(s, 1, 1)[i] = (<<s[1]>>)[i]
    BY <1>4, <1>5
  <2> QED BY <1>4, <1>5, <2>1, SeqEqual
<1> QED BY <1>2, <1>6

LEMMA AppendPart ==
  ASSUME NEW T, NEW s \in Seq(T), NEW n \in Nat, n + 1 \in 1 .. Len(s)
  PROVE  SubSeq(s, 1, n + 1) = Append(SubSeq(s, 1, n), s[n + 1])
<1>1. SubSeq(s, 1, n + 1) = SubSeq(s, 1, (n + 1) - 1) \o <<s[n + 1]>>
  BY SubSeqRecursiveSecond
<1>2. SubSeq(s, 1, n) \in Seq(T) /\ s[n + 1] \in T /\ (n + 1) - 1 = n
  BY Part
<1> QED BY <1>1, <1>2

LEMMA PopParts ==
  ASSUME NEW p \in Seq(AddrT), NEW n \in Nat, NEW f
  PROVE  /\ PoolPop(p, n).got \in Seq(AddrT) /\ PoolPop(p, n).left \in Seq(AddrT)
         /\ Len(PoolPop(p, n).got) <= n
         /\ Times(f, p) = Times(f, PoolPop(p, n).got) + Times(f, PoolPop(p, n).left)
         /\ n = 1 /\ p # <<>> => PoolPop(p, n).got = <<p[1]>> /\ p[1] \in AddrT
<1> DEFINE k == Least(n, Len(p))
<1>1. /\ PoolPop(p, n).got = SubSeq(p, 1, k) /\ PoolPop(p, n).left = SubSeq(p, n + 1, Len(p))
      /\ Len(p) \in Nat /\ k \in 0 .. Len(p) /\ k <= n
  BY DEF PoolPop, Least
<1>2. SubSeq(p, n + 1, Len(p)) = SubSeq(p, k + 1, Len(p))
  <2>1. CASE n < Len(p)
    BY <2>1 DEF Least
  <2>2. CASE n >= Len(p)
    <3>1. k = Len(p)
      BY <1>1, <2>2 DEF Least
    <3>2. SubSeq(p, n + 1, Len(p)) = <<>> /\ SubSeq(p, Len(p) + 1, Len(p)) = <<>>
      BY <1>1, <2>2, SubSeqEmpty
    <3> QED BY <3>1, <3>2
  <2> QED BY <1>1, <2>1, <2>2
<1>3. n = 1 /\ p # <<>> => SubSeq(p, 1, k) = <<p[1]>> /\ p[1] \in AddrT
  <2>1. n = 1 /\ p # <<>> => k = 1 /\ 1 \in 1 .. Len(p)
    <3>1. SUFFICES ASSUME n = 1, p # <<>> PROVE k = 1 /\ 1 \in 1 .. Len(p)
      OBVIOUS
    <3>2. Len(p) >= 1
      BY <3>1
    <3>3. k = 1
      <4>1. Len(p) \in Nat
        OBVIOUS
      <4>2. Least(1, Len(p)) = 1
        BY <4>1, <3>2, LeastIs
      <4> QED BY <4>2, <3>1
    <3> QED BY <1>1, <3>2, <3>3
  <2>2. p # <<>> => SubSeq(p, 1, 1) = <<p[1]>> /\ p[1] \in AddrT
    BY OnePart
  <2> HIDE DEF k
  <2> QED BY <2>1, <2>2
<1> HIDE DEF k
<1>4. SubSeq(p, 1, k) \in Seq(AddrT) /\ SubSeq(p, k + 1, Len(p)) \in Seq(AddrT) /\ Len(SubSeq(p, 1, k)) = k
  BY <1>1, Part
<1>5. Times(f, p) = Times(f, SubSeq(p, 1, k)) + Times(f, SubSeq(p, k + 1, Len(p)))
  BY <1>1, TimesSplit
<1> QED BY <1>1, <1>2, <1>3, <1>4, <1>5

-----------------------------------------------------------------------------
(* ne_packet_write.                                                        *)

LEMMA AddsStart ==
  ASSUME NEW g, NEW c, NEW n \in Nat, Adds(g, c, n)
  PROVE  g[0] = 0 /\ \A i \in 0 .. n : g[i] \in Nat
BY DEF Adds

\* What a segment gets depends on the capacities before it.
LEMMA FillLenIs ==
  ASSUME NEW s \in Seq(SegT), NEW g, Adds(g, Caps(s), Len(s)), NEW i \in 1 .. Len(s), NEW len
  PROVE  FillLen(s, i, len) = IF g[i - 1] >= len THEN 0 ELSE Least(s[i].cap, len - g[i - 1])
<1> DEFINE t == SubSeq(s, 1, i - 1)
<1>1. Len(s) \in Nat /\ i - 1 \in Nat /\ i - 1 <= Len(s)
  OBVIOUS
<1>2. t \in Seq(SegT) /\ Len(t) = i - 1 /\ \A j \in 1 .. i - 1 : t[j] = s[j]
  BY <1>1, Part
<1> HIDE DEF t
<1>3. \A e \in SegT : e.cap \in Nat
  BY DEF SegT
<1>4. PICK h : Adds(h, Caps(t), Len(t)) /\ SumCap(t) = h[Len(t)]
  BY <1>2, <1>3, SumCapAdds
<1>5. \A j \in 1 .. i - 1 : Caps(t)[j] = Caps(s)[j]
  BY <1>1, <1>2 DEF Caps
<1>6. h[i - 1] = g[i - 1]
  BY <1>1, <1>2, <1>4, <1>5, AddsUnique
<1>7. SumCap(SubSeq(s, 1, i - 1)) = g[i - 1]
  BY <1>2, <1>4, <1>6 DEF t
<1> QED BY <1>7 DEF FillLen

LEMMA FillOne ==
  ASSUME NEW a \in Nat, NEW c \in Nat, NEW len \in Nat
  PROVE  Least(len, a) + (IF a >= len THEN 0 ELSE Least(c, len - a)) = Least(len, a + c)
BY DEF Least

\* The segments fill up in order: after i of them, the smaller of the length
\* and their capacity is written.
Fills(l, g, c, len, n) ==
  \A i \in 1 .. n : l[i] = IF g[i - 1] >= len THEN 0 ELSE Least(c[i], len - g[i - 1])

LEMMA FillSum ==
  ASSUME NEW n \in Nat, NEW c \in [1 .. n -> Nat \ {0}], NEW g, Adds(g, c, n),
         NEW len \in Nat, NEW l, NEW h, Adds(h, l, n), Fills(l, g, c, len, n)
  PROVE  \A i \in 0 .. n : h[i] = Least(len, g[i])
<1> DEFINE P == {i \in 0 .. n : h[i] = Least(len, g[i])}
<1>0. h[0] = 0 /\ g[0] = 0 /\ \A i \in 0 .. n : h[i] \in Nat /\ g[i] \in Nat
  BY AddsStart
<1>1. 0 \in P
  <2>1. Least(len, 0) = 0
    BY LeastIs
  <2> QED BY <1>0, <2>1
<1>2. \A i \in 0 .. n - 1 : i \in P => i + 1 \in P
  <2> SUFFICES ASSUME NEW i \in 0 .. n - 1, i \in P PROVE i + 1 \in P
    OBVIOUS
  <2>1. i + 1 \in 1 .. n /\ (i + 1) - 1 = i /\ i + 1 \in 0 .. n /\ i \in 0 .. n
    OBVIOUS
  <2>2. h[i + 1] = h[i] + l[i + 1] /\ g[i + 1] = g[i] + c[i + 1]
    BY <2>1 DEF Adds
  <2>3. l[i + 1] = IF g[i] >= len THEN 0 ELSE Least(c[i + 1], len - g[i])
    BY <2>1 DEF Fills
  <2>4. h[i] \in Nat /\ g[i] \in Nat /\ c[i + 1] \in Nat /\ h[i] = Least(len, g[i])
    BY <1>0, <2>1
  <2>5. h[i + 1] = Least(len, g[i + 1])
    <3>1. Least(len, g[i]) + (IF g[i] >= len THEN 0 ELSE Least(c[i + 1], len - g[i])) = Least(len, g[i] + c[i + 1])
      BY <2>4, FillOne
    <3> QED BY <2>2, <2>3, <2>4, <3>1
  <2> QED BY <2>1, <2>5
<1>3. 0 .. n \subseteq P
  <2> HIDE DEF P
  <2> QED BY <1>1, <1>2, UpTo
<1> QED BY <1>3

\* NUsed: the segments before the first empty one.
LEMMA NUsedIs ==
  ASSUME NEW s \in Seq(SegT)
  PROVE  /\ NUsed(s) \in 0 .. Len(s) /\ \A i \in 1 .. NUsed(s) : s[i].len # 0
         /\ NUsed(s) < Len(s) => s[NUsed(s) + 1].len = 0
<1> DEFINE S == {i \in DOMAIN s : s[i].len = 0} \cup {Len(s) + 1}
<1>1. Len(s) \in Nat /\ DOMAIN s = 1 .. Len(s)
  OBVIOUS
<1>2. S \in SUBSET Nat /\ S # {} /\ Len(s) + 1 \in S
  BY <1>1
<1>3. \A i \in S : i \in 1 .. Len(s) + 1 /\ (i # Len(s) + 1 => s[i].len = 0)
  BY <1>1
<1>4. \A i \in 1 .. Len(s) : s[i].len = 0 => i \in S
  BY <1>1
<1>5. NUsed(s) = Min(S) - 1
  BY DEF NUsed
<1> HIDE DEF S
<1>6. Min(S) \in S /\ \A y \in S : Min(S) <= y
  BY <1>2, MinOfNumbers
<1>7. Min(S) \in 1 .. Len(s) + 1
  BY <1>3, <1>6
<1>8. ASSUME NEW i \in 1 .. NUsed(s) PROVE s[i].len # 0
  <2>1. i \in 1 .. Len(s) /\ i < Min(S)
    BY <1>1, <1>5, <1>7
  <2>2. i \notin S
    <3>1. SUFFICES ASSUME i \in S PROVE FALSE
      OBVIOUS
    <3>2. Min(S) <= i
      BY <1>6, <3>1
    <3> QED BY <3>2, <2>1, <1>7
  <2> QED BY <1>4, <2>1, <2>2
<1>9. ASSUME NUsed(s) < Len(s) PROVE s[NUsed(s) + 1].len = 0
  <2>1. Min(S) # Len(s) + 1 /\ NUsed(s) + 1 = Min(S)
    BY <1>1, <1>5, <1>7, <1>9
  <2> QED BY <2>1, <1>3, <1>6
<1> QED BY <1>1, <1>5, <1>7, <1>8, <1>9

\* ne_packet_write carries the whole length, in segments none of which is
\* empty, and keeps or gives back every frame the packet had.
LEMMA FillKeeps ==
  ASSUME NEW p \in SmallT, NEW len \in Nat \ {0}, SumCap(p.segs) >= len, NEW f
  PROVE  LET full == Filled(p, len)
             kept == [len |-> full.len, segs |-> Used(full)]
             back == [full EXCEPT !.segs = Unused(full)]
         IN  /\ kept \in SmallT /\ Carries(kept) /\ back \in PktT
             /\ Times(f, p.segs) = Times(f, kept.segs) + Times(f, back.segs)
<1> DEFINE s == p.segs
           n == Len(s)
           full == Filled(p, len)
           L(i) == FillLen(s, i, len)
           t == [i \in 1 .. n |-> [s[i] EXCEPT !.len = L(i)]]
           u == NUsed(t)
           a == SubSeq(t, 1, u)
           b == SubSeq(t, u + 1, n)
<1>0. s \in Seq(SegT) /\ n \in Nat /\ n <= MaxSegs /\ DOMAIN s = 1 .. n
  BY SmallFields
<1>1. \A i \in 1 .. n : s[i] \in SegT
  BY <1>0
<1>2. \A e \in SegT : e.cap \in Nat \ {0} /\ e.len \in Nat /\ e.f \in Frames /\ e.off \in Nat
  BY DEF SegT
<1>3. PICK g : Adds(g, Caps(s), n) /\ SumCap(s) = g[n]
  BY <1>0, <1>2, SumCapAdds
<1>4. Caps(s) \in [1 .. n -> Nat \ {0}] /\ \A i \in 1 .. n : Caps(s)[i] = s[i].cap
  BY <1>1, <1>2 DEF Caps
<1>5. g[0] = 0 /\ \A i \in 0 .. n : g[i] \in Nat
  BY <1>0, <1>3, AddsStart
<1>6. \A i \in 1 .. n : L(i) = IF g[i - 1] >= len THEN 0 ELSE Least(Caps(s)[i], len - g[i - 1])
  BY <1>0, <1>3, <1>4, FillLenIs
<1>7. \A i \in 1 .. n : L(i) \in Nat
  <2>1. TAKE i \in 1 .. n
  <2>2. g[i - 1] \in Nat /\ Caps(s)[i] \in Nat
    BY <1>4, <1>5
  <2>3. L(i) = IF g[i - 1] >= len THEN 0 ELSE Least(Caps(s)[i], len - g[i - 1])
    BY <1>6
  <2> HIDE DEF L
  <2> QED BY <2>2, <2>3 DEF Least
<1> HIDE DEF L
<1>8. ASSUME NEW i \in 1 .. n
      PROVE  [s[i] EXCEPT !.len = L(i)] \in SegT /\ [s[i] EXCEPT !.len = L(i)].len = L(i)
             /\ [s[i] EXCEPT !.len = L(i)].f = s[i].f
  BY <1>1, <1>7 DEF SegT
<1>9. t \in Seq(SegT) /\ Len(t) = n /\ \A i \in 1 .. n : t[i].len = L(i) /\ t[i].f = s[i].f
  <2>1. t \in [1 .. n -> SegT]
    BY <1>8
  <2>2. \A i \in 1 .. n : t[i] = [s[i] EXCEPT !.len = L(i)]
    OBVIOUS
  <2> HIDE DEF t
  <2>3. t \in Seq(SegT) /\ Len(t) = n
    BY <1>0, <2>1, FunIsSeq
  <2> QED BY <2>2, <2>3, <1>8
<1>10. full = [len |-> len, segs |-> t]
  BY <1>0 DEF Filled, L
<1> HIDE DEF t, full
<1>11. /\ u \in 0 .. n /\ \A i \in 1 .. u : t[i].len # 0
       /\ u < n => t[u + 1].len = 0
  BY <1>9, NUsedIs
<1>12. Used(full) = a /\ Unused(full) = b /\ full.len = len
  BY <1>9, <1>10 DEF Used, Unused
<1> HIDE DEF u
<1>13. /\ a \in Seq(SegT) /\ Len(a) = u /\ \A i \in 1 .. u : a[i] = t[i]
       /\ b \in Seq(SegT)
  BY <1>0, <1>9, <1>11, Part
<1>14. Times(f, s) = Times(f, a) + Times(f, b)
  <2>1. Times(f, s) = Times(f, t)
    BY <1>0, <1>9, TimesSame
  <2>2. Times(f, t) = Times(f, a) + Times(f, b)
    BY <1>9, <1>11, TimesSplit
  <2> QED BY <2>1, <2>2
<1> HIDE DEF a, b
<1>15. g[u] >= len
  <2>1. CASE u = n
    BY <2>1, <1>3
  <2>2. CASE u < n
    <3>1. u + 1 \in 1 .. n /\ (u + 1) - 1 = u /\ u \in 0 .. n
      BY <2>2, <1>0, <1>11
    <3>2. L(u + 1) = 0
      BY <3>1, <2>2, <1>9, <1>11
    <3>3. L(u + 1) = IF g[u] >= len THEN 0 ELSE Least(Caps(s)[u + 1], len - g[u])
      BY <3>1, <1>6
    <3>4. g[u] \in Nat /\ Caps(s)[u + 1] \in Nat \ {0}
      BY <3>1, <1>4, <1>5
    <3> QED BY <3>2, <3>3, <3>4 DEF Least
  <2> QED BY <2>1, <2>2, <1>0, <1>11
<1>16. u >= 1
  BY <1>5, <1>11, <1>15
<1>17. SumLen(a) = len
  <2>1. PICK h : Adds(h, Lens(t), Len(t)) /\ SumLen(t) = h[Len(t)]
    BY <1>2, <1>9, SumLenAdds
  <2>2. PICK k : Adds(k, Lens(a), Len(a)) /\ SumLen(a) = k[Len(a)]
    BY <1>2, <1>13, SumLenAdds
  <2>3. \A i \in 1 .. n : Lens(t)[i] = L(i)
    BY <1>9 DEF Lens
  <2>4. \A i \in 1 .. u : Lens(a)[i] = Lens(t)[i]
    <3>1. \A i \in 1 .. u : i \in 1 .. n
      BY <1>11, <1>0
    <3> QED BY <3>1, <1>9, <1>13 DEF Lens
  <2>5. k[u] = h[u]
    BY <1>0, <1>9, <1>11, <1>13, <2>1, <2>2, <2>4, AddsUnique
  <2>6. h[u] = Least(len, g[u])
    <3>1. \A i \in 1 .. n : Lens(t)[i] = IF g[i - 1] >= len THEN 0 ELSE Least(Caps(s)[i], len - g[i - 1])
      BY <2>3, <1>6
    <3>2. Adds(h, Lens(t), n)
      BY <2>1, <1>9
    <3>3. \A i \in 0 .. n : h[i] = Least(len, g[i])
      <4> DEFINE c == Caps(s)  l == Lens(t)
      <4>1. n \in Nat /\ c \in [1 .. n -> Nat \ {0}] /\ Adds(g, c, n) /\ len \in Nat /\ Adds(h, l, n)
        BY <3>2, <1>0, <1>3, <1>4
      <4>2. Fills(l, g, c, len, n)
        BY <3>1 DEF Fills
      <4> HIDE DEF n, c, l
      <4> QED BY <4>1, <4>2, FillSum
    <3> QED BY <3>3, <1>11
  <2>7. g[u] \in Nat
    BY <1>5, <1>11
  <2>8. Least(len, g[u]) = len
    BY <2>7, <1>15, LeastIs
  <2> QED BY <2>2, <2>5, <2>6, <2>8, <1>13
<1>18. [len |-> len, segs |-> a] \in SmallT
  BY <1>0, <1>11, <1>13, SmallMake, Constants
<1>19. Carries([len |-> len, segs |-> a])
  <2>1. Len(a) \in 1 .. MaxSegs
    BY <1>0, <1>11, <1>13, <1>16, Constants
  <2>2. \A j \in DOMAIN a : a[j].len > 0
    <3>1. TAKE j \in DOMAIN a
    <3>2. j \in 1 .. u /\ j \in 1 .. n
      BY <1>11, <1>13, <1>0
    <3>3. a[j].len = L(j) /\ L(j) # 0 /\ L(j) \in Nat
      BY <3>2, <1>7, <1>9, <1>11, <1>13
    <3> QED BY <3>3
  <2> QED BY <1>17, <2>1, <2>2 DEF Carries
<1>20. [full EXCEPT !.segs = Unused(full)] = [len |-> len, segs |-> b]
  BY <1>10, <1>12
<1>21. [len |-> len, segs |-> b] \in PktT
  BY <1>13 DEF PktT
<1> HIDE DEF s
<1>22. /\ [len |-> full.len, segs |-> Used(full)] = [len |-> len, segs |-> a]
       /\ [len |-> len, segs |-> a].segs = a /\ [len |-> len, segs |-> b].segs = b
  BY <1>12
<1>23. Times(f, p.segs) = Times(f, a) + Times(f, b)
  BY <1>14 DEF s
<1> QED BY <1>18, <1>19, <1>20, <1>21, <1>22, <1>23 DEF full

-----------------------------------------------------------------------------
(* recv_queue.                                                             *)

\* The state of the loop while nothing was rejected.
Got(c, o) == [chain |-> c, invalid |-> FALSE, rejects |-> <<>>, out |-> o]

SegOf(desc) == [f |-> desc.f, off |-> desc.off, len |-> desc.len, cap |-> desc.len]
Longer(c, desc) == [len |-> c.len + desc.len, segs |-> Append(c.segs, SegOf(desc))]

LEMMA GotFields ==
  ASSUME NEW c, NEW o
  PROVE  /\ Got(c, o).chain = c /\ Got(c, o).out = o
         /\ Got(c, o).invalid = FALSE /\ Got(c, o).rejects = <<>>
BY Zenon DEF Got

\* A descriptor of a chain that is let in is never rejected.
LEMMA RecvStep ==
  ASSUME NEW c \in SmallT, NEW o \in Seq(SmallT), NEW desc \in RxDescT,
         c.len = Len(c.segs) * Room, Len(c.segs) < MaxSegs,
         Len(c.segs) * Room + desc.len <= WireMax
  PROVE  /\ RecvDesc(Got(c, o), desc) =
              IF desc.contd THEN Got(Longer(c, desc), o) ELSE Got(NoPacket, Append(o, Longer(c, desc)))
         /\ Longer(c, desc) \in SmallT /\ Longer(c, desc).segs = Append(c.segs, SegOf(desc))
         /\ SegOf(desc) \in SegT /\ SegOf(desc).f = desc.f
         /\ Len(Longer(c, desc).segs) = Len(c.segs) + 1
         /\ Longer(c, desc).len = Len(c.segs) * Room + desc.len
<1> DEFINE st == Got(c, o)
           c2 == Longer(c, desc)
           bad == \/ st.invalid \/ Len(st.chain.segs) >= MaxSegs
                  \/ desc.len > JumboMax \/ st.chain.len + desc.len > JumboMax
           ch == IF bad THEN st.chain
                 ELSE [len |-> st.chain.len + desc.len, segs |-> Append(st.chain.segs, SegOf(desc))]
           r == IF bad THEN AddRejects(st.rejects, <<AddrOf(desc)>>) ELSE st.rejects
           State(a, i, b, e) == [chain |-> a, invalid |-> i, rejects |-> b, out |-> e]
<1>1. c.len \in Nat /\ c.segs \in Seq(SegT) /\ Len(c.segs) \in Nat /\ Len(c.segs) <= MaxSegs
  BY SmallFields
<1>2. desc.len \in Nat \ {0} /\ desc.contd \in BOOLEAN /\ desc.f \in Frames /\ desc.off \in Nat
  BY DEF RxDescT
<1>3. SegOf(desc) \in SegT /\ SegOf(desc).f = desc.f
  BY <1>2 DEF SegOf, SegT
<1>4. c2.len = c.len + desc.len /\ c2.segs = Append(c.segs, SegOf(desc))
  BY DEF Longer
<1>5. Append(c.segs, SegOf(desc)) \in Seq(SegT) /\ Len(Append(c.segs, SegOf(desc))) = Len(c.segs) + 1
  BY <1>1, <1>3
<1>6. c2 \in SmallT
  <2>1. c.len + desc.len \in Nat
    BY <1>1, <1>2
  <2>2. Len(c.segs) + 1 <= MaxSegs
    BY <1>1, Constants
  <2> QED BY <1>5, <2>1, <2>2, SmallMake DEF Longer
<1>7. c2 # NoPacket
  <2>1. c2.len # 0
    BY <1>1, <1>2, <1>4
  <2> QED BY <2>1 DEF NoPacket
<1>8. st.invalid = FALSE /\ st.chain = c /\ st.rejects = <<>> /\ st.out = o
  BY DEF Got
<1>9. ~bad
  <2>1. c.len + desc.len <= JumboMax /\ desc.len <= JumboMax /\ ~(Len(c.segs) >= MaxSegs)
    <3>1. c.len + desc.len <= WireMax
      OBVIOUS
    <3>2. c.len \in Nat /\ desc.len \in Nat /\ Len(c.segs) \in Nat
      BY <1>1, <1>2
    <3> HIDE DEF Room
    <3>3. ~(Len(c.segs) >= MaxSegs)
      BY <3>2, Constants
    <3> QED BY <3>1, <3>2, <3>3, Constants
  <2>2. ~(c.len + desc.len > JumboMax) /\ ~(desc.len > JumboMax)
    BY <2>1, <1>1, <1>2, Constants
  <2> QED BY <1>8, <2>1, <2>2
<1>10. ch = c2 /\ r = <<>>
  <2>1. ch = [len |-> st.chain.len + desc.len, segs |-> Append(st.chain.segs, SegOf(desc))] /\ r = st.rejects
    <3> HIDE DEF bad
    <3> QED BY <1>9
  <2> HIDE DEF st, ch, r
  <2> QED BY <1>8, <2>1 DEF Longer
<1>11. RecvDesc(st, desc) =
         CASE desc.contd -> State(ch, bad, r, st.out)
           [] ~desc.contd /\ (bad \/ ch = NoPacket) ->
                State(NoPacket, FALSE, AddRejects(r, Addrs(ch)), st.out)
           [] OTHER -> State(NoPacket, FALSE, r, Append(st.out, ch))
  BY DEF RecvDesc, SegOf
<1>12. State(ch, bad, r, st.out) = Got(ch, o)
  <2>1. bad = FALSE
    BY <1>9
  <2> HIDE DEF bad, ch, r
  <2>2. r = <<>>
    BY <1>10
  <2> HIDE DEF st
  <2> QED BY <1>8, <2>1, <2>2 DEF Got
<1>13. State(NoPacket, FALSE, r, Append(st.out, ch)) = Got(NoPacket, Append(o, ch))
  <2> HIDE DEF bad, ch, r, st
  <2> QED BY <1>8, <1>10 DEF Got
<1> HIDE DEF State, ch, r, bad, st, c2
<1>15. RecvDesc(st, desc) = IF desc.contd THEN Got(c2, o) ELSE Got(NoPacket, Append(o, c2))
  <2>1. CASE desc.contd
    BY <2>1, <1>10, <1>11, <1>12
  <2>2. CASE ~desc.contd
    <3>1. ~(bad \/ ch = NoPacket)
      BY <1>7, <1>9, <1>10
    <3>2. RecvDesc(st, desc) = State(NoPacket, FALSE, r, Append(st.out, ch))
      BY <2>2, <3>1, <1>11
    <3> QED BY <2>2, <3>2, <1>10, <1>13
  <2> QED BY <2>1, <2>2
<1> QED BY <1>1, <1>2, <1>3, <1>4, <1>5, <1>6, <1>15 DEF st, c2

\* After n descriptors: how long the open chain is, and where the frames are.
ChainLen(c, s, pos, n) ==
  IF n = 0 THEN Len(c.segs) ELSE IF s[n].contd THEN pos[n] ELSE 0

Reached(x, c, s, pos, n, f) ==
  \E ch \in SmallT, o \in Seq(SmallT) :
    /\ x = Got(ch, o)
    /\ ch.len = Len(ch.segs) * Room /\ Len(ch.segs) = ChainLen(c, s, pos, n)
    /\ (n = 0 => ch = c) /\ (n # 0 /\ ~s[n].contd => ch = NoPacket)
    /\ (\E i \in 1 .. n : ~s[i].contd) => o # <<>>
    /\ Times(f, ch.segs) + Times(f, Segs(o)) = Times(f, c.segs) + Times(f, SubSeq(s, 1, n))

LEMMA RecvNext ==
  ASSUME NEW s \in Seq(RxDescT), NEW c \in SmallT, NEW pos \in [1 .. Len(s) -> 1 .. MaxSegs],
         Continues(Len(c.segs), s, pos), NEW f, NEW n \in 0 .. Len(s) - 1, NEW x,
         Reached(x, c, s, pos, n, f)
  PROVE  Reached(RecvDesc(x, s[n + 1]), c, s, pos, n + 1, f)
<1> DEFINE e == s[n + 1]
<1>0. Len(s) \in Nat /\ n + 1 \in 1 .. Len(s) /\ (n + 1) - 1 = n /\ n + 1 # 0 /\ n \in Nat
  OBVIOUS
<1>1. PICK ch \in SmallT, o \in Seq(SmallT) :
        /\ x = Got(ch, o)
        /\ ch.len = Len(ch.segs) * Room /\ Len(ch.segs) = ChainLen(c, s, pos, n)
        /\ (\E i \in 1 .. n : ~s[i].contd) => o # <<>>
        /\ Times(f, ch.segs) + Times(f, Segs(o)) = Times(f, c.segs) + Times(f, SubSeq(s, 1, n))
  BY DEF Reached
<1>2. e \in RxDescT /\ pos[n + 1] \in 1 .. MaxSegs
  BY <1>0
<1>3. /\ pos[n + 1] = IF n + 1 = 1 THEN Len(c.segs) + 1 ELSE IF s[n].contd THEN pos[n] + 1 ELSE 1
      /\ (pos[n + 1] - 1) * Room + e.len <= WireMax
      /\ e.contd => e.len = Room
  BY <1>0 DEF Continues
<1>4. Len(ch.segs) \in Nat /\ ch.segs \in Seq(SegT) /\ ch \in PktT
  BY SmallFields
<1>5. pos[n + 1] = Len(ch.segs) + 1
  BY <1>0, <1>1, <1>3 DEF ChainLen
<1>6. Len(ch.segs) < MaxSegs /\ pos[n + 1] - 1 = Len(ch.segs)
  BY <1>2, <1>4, <1>5, Constants
<1>7. Len(ch.segs) * Room + e.len <= WireMax
  BY <1>3, <1>6
<1> HIDE DEF e
<1>8. /\ RecvDesc(x, e) = IF e.contd THEN Got(Longer(ch, e), o) ELSE Got(NoPacket, Append(o, Longer(ch, e)))
      /\ Longer(ch, e) \in SmallT /\ Longer(ch, e).segs = Append(ch.segs, SegOf(e))
      /\ SegOf(e) \in SegT /\ SegOf(e).f = e.f
      /\ Len(Longer(ch, e).segs) = Len(ch.segs) + 1
      /\ Longer(ch, e).len = Len(ch.segs) * Room + e.len
  BY <1>1, <1>2, <1>6, <1>7, RecvStep
<1> DEFINE c2 == Longer(ch, e)
<1>9. Times(f, c2.segs) = Times(f, ch.segs) + IF e.f = f THEN 1 ELSE 0
  BY <1>4, <1>8, TimesAppend
<1>10. Times(f, SubSeq(s, 1, n + 1)) = Times(f, SubSeq(s, 1, n)) + IF e.f = f THEN 1 ELSE 0
  <2>1. SubSeq(s, 1, n) \in Seq(RxDescT)
    BY <1>0, Part
  <2>2. SubSeq(s, 1, n + 1) = Append(SubSeq(s, 1, n), e)
    BY <1>0, AppendPart DEF e
  <2>3. Times(f, Append(SubSeq(s, 1, n), e)) = Times(f, SubSeq(s, 1, n)) + IF e.f = f THEN 1 ELSE 0
    BY <1>2, <2>1, TimesAppend
  <2> QED BY <2>2, <2>3
<1>11. Segs(o) \in Seq(SegT) /\ o \in Seq(PktT) /\ c2 \in PktT
  BY <1>8, SmallSeq, SegsType DEF SmallT
<1>12. Times(f, ch.segs) \in Nat /\ Times(f, Segs(o)) \in Nat
  BY <1>4, <1>11, TimesNat
<1>13. Times(f, c.segs) \in Nat /\ Times(f, SubSeq(s, 1, n)) \in Nat
  <2>1. SubSeq(s, 1, n) \in Seq(RxDescT)
    BY <1>0, Part
  <2> QED BY <2>1, TimesNat, SmallFields
<1>14. CASE e.contd
  <2>1. RecvDesc(x, e) = Got(c2, o)
    BY <1>8, <1>14
  <2>2. c2.len = Len(c2.segs) * Room
    <3>1. (Len(ch.segs) + 1) * Room = Len(ch.segs) * Room + Room
      BY <1>4, Constants, OneMore
    <3> QED BY <1>3, <1>8, <1>14, <3>1 DEF e
  <2>3. Len(c2.segs) = ChainLen(c, s, pos, n + 1)
    BY <1>0, <1>5, <1>8, <1>14 DEF ChainLen, e
  <2>4. (\E i \in 1 .. n + 1 : ~s[i].contd) => o # <<>>
    <3>1. \A i \in 1 .. n + 1 : i = n + 1 \/ i \in 1 .. n
      BY <1>0
    <3> QED BY <3>1, <1>1, <1>14 DEF e
  <2>5. Times(f, c2.segs) + Times(f, Segs(o)) = Times(f, c.segs) + Times(f, SubSeq(s, 1, n + 1))
    BY <1>1, <1>9, <1>10, <1>12, <1>13
  <2>6. s[n + 1].contd
    BY <1>14 DEF e
  <2> HIDE DEF c2
  <2>7. c2 \in SmallT
    BY <1>8 DEF c2
  <2>8. Reached(RecvDesc(x, e), c, s, pos, n + 1, f)
    BY <1>0, <2>1, <2>2, <2>3, <2>4, <2>5, <2>6, <2>7 DEF Reached
  <2> QED BY <2>8 DEF e
<1>15. CASE ~e.contd
  <2> DEFINE o2 == Append(o, c2)
  <2>1. RecvDesc(x, e) = Got(NoPacket, o2)
    BY <1>8, <1>15
  <2>2. NoPacket.len = Len(NoPacket.segs) * Room /\ Len(NoPacket.segs) = 0
    BY Constants DEF NoPacket
  <2>3. ChainLen(c, s, pos, n + 1) = 0
    BY <1>0, <1>15 DEF ChainLen, e
  <2>4. o2 \in Seq(SmallT) /\ o2 # <<>>
    <3>1. c2 \in SmallT
      BY <1>8
    <3> HIDE DEF c2
    <3>2. o2 \in Seq(SmallT) /\ Len(o2) = Len(o) + 1 /\ Len(o) \in Nat
      BY <3>1
    <3> HIDE DEF o2
    <3> QED BY <3>2
  <2>5. Times(f, Segs(o2)) = Times(f, Segs(o)) + Times(f, c2.segs)
    <3>1. Segs(o2) = Segs(o) \o c2.segs
      BY <1>11, SegsAppend
    <3>2. c2.segs \in Seq(SegT)
      BY <1>11, PktFields
    <3> QED BY <1>11, <3>1, <3>2, TimesConcat
  <2>6. Times(f, NoPacket.segs) = 0
    BY TimesEmpty DEF NoPacket
  <2>7. Times(f, NoPacket.segs) + Times(f, Segs(o2)) = Times(f, c.segs) + Times(f, SubSeq(s, 1, n + 1))
    BY <1>1, <1>9, <1>10, <1>12, <1>13, <2>5, <2>6
  <2>8. NoPacket \in SmallT
    BY NoPacketSmall
  <2> HIDE DEF o2
  <2>9. Reached(RecvDesc(x, e), c, s, pos, n + 1, f)
    BY <1>0, <2>1, <2>2, <2>3, <2>4, <2>7, <2>8 DEF Reached
  <2> QED BY <2>9 DEF e
<1> QED BY <1>14, <1>15

\* recv_queue over the first descriptors of what is in the ring.
LEMMA RecvRun ==
  ASSUME NEW s \in Seq(RxDescT), NEW c \in SmallT, NEW pos \in [1 .. Len(s) -> 1 .. MaxSegs],
         c.len = Len(c.segs) * Room, Continues(Len(c.segs), s, pos), NEW f, NEW n \in 0 .. Len(s)
  PROVE  Reached(RecvLoop(Got(c, <<>>), SubSeq(s, 1, n)), c, s, pos, n, f)
<1> DEFINE t == SubSeq(s, 1, n)
<1>0. Len(s) \in Nat /\ n \in Nat
  OBVIOUS
<1>1. t \in Seq(RxDescT) /\ Len(t) = n /\ \A i \in 1 .. n : t[i] = s[i]
  BY <1>0, Part
<1> HIDE DEF t
<1>2. PICK run : Runs(run, Got(c, <<>>), t, n) /\ RecvLoop(Got(c, <<>>), t) = run[n]
  BY <1>1, RecvLoopRuns
<1> DEFINE P == {i \in 0 .. n : Reached(run[i], c, s, pos, i, f)}
<1>3. 0 \in P
  <2>1. run[0] = Got(c, <<>>)
    BY <1>2 DEF Runs
  <2>2. <<>> \in Seq(SmallT) /\ SubSeq(s, 1, 0) = <<>> /\ Segs(<<>>) = <<>>
    <3>1. <<>> \in Seq(PktT) /\ <<>> \in Seq(SmallT)
      OBVIOUS
    <3>2. Segs(<<>>) = <<>>
      BY <3>1, SegsType
    <3>3. SubSeq(s, 1, 0) = <<>>
      BY SubSeqEmpty
    <3> QED BY <3>1, <3>2, <3>3
  <2>3. ~ \E i \in 1 .. 0 : ~s[i].contd
    OBVIOUS
  <2>4. Reached(run[0], c, s, pos, 0, f)
    BY <2>1, <2>2, <2>3 DEF Reached, ChainLen
  <2> QED BY <1>0, <2>4
<1>4. \A i \in 0 .. n - 1 : i \in P => i + 1 \in P
  <2> SUFFICES ASSUME NEW i \in 0 .. n - 1, i \in P PROVE i + 1 \in P
    OBVIOUS
  <2>1. i + 1 \in 1 .. n /\ (i + 1) - 1 = i /\ i \in 0 .. Len(s) - 1 /\ i + 1 \in 0 .. n
    BY <1>0
  <2>2. run[i + 1] = RecvDesc(run[i], s[i + 1])
    BY <2>1, <1>1, <1>2 DEF Runs
  <2>3. Reached(run[i], c, s, pos, i, f)
    OBVIOUS
  <2>4. Reached(RecvDesc(run[i], s[i + 1]), c, s, pos, i + 1, f)
    BY <2>1, <2>3, RecvNext
  <2> QED BY <2>1, <2>2, <2>4
<1>5. n \in P
  <2> HIDE DEF P
  <2>1. 0 .. n \subseteq P
    BY <1>0, <1>3, <1>4, UpTo
  <2> QED BY <1>0, <2>1
<1> QED BY <1>2, <1>5 DEF t

-----------------------------------------------------------------------------
(* Counting the owners of a frame.                                         *)

ItemT == AddrT \cup RxDescT \cup TxDescT \cup SegT

LEMMA AsItems ==
  /\ \A s \in Seq(AddrT) : s \in Seq(ItemT)
  /\ \A s \in Seq(RxDescT) : s \in Seq(ItemT)
  /\ \A s \in Seq(TxDescT) : s \in Seq(ItemT)
  /\ \A s \in Seq(SegT) : s \in Seq(ItemT)
<1>1. AddrT \subseteq ItemT /\ RxDescT \subseteq ItemT /\ TxDescT \subseteq ItemT /\ SegT \subseteq ItemT
  BY DEF ItemT
<1> QED BY <1>1, SeqMonotonic

LEMMA TimesJoin ==
  ASSUME NEW a \in Seq(ItemT), NEW b \in Seq(ItemT), NEW f
  PROVE  a \o b \in Seq(ItemT) /\ Times(f, a \o b) = Times(f, a) + Times(f, b)
BY Concat, TimesConcat

\* The frame f in the parts of a direction, of a worker, of a ring to a worker.
DirTimes(d, f) ==
  Times(f, fq[d]) + Times(f, RxUnread(d)) + Times(f, rx_chain[d].segs) + Times(f, Segs(batch[d]))
  + Times(f, Segs(out[d])) + Times(f, tx[d]) + Times(f, cq[d])
JobTimes(w, f) == Times(f, job[w].segs) + Times(f, tail[w].segs)
MidTimes(d, w, f) == Times(f, Segs(mid[d][w]))
LostTimes(f) == IF f \in lost THEN 1 ELSE 0

DirNats(d, f) ==
  /\ Times(f, fq[d]) \in Nat /\ Times(f, RxUnread(d)) \in Nat /\ Times(f, rx_chain[d].segs) \in Nat
  /\ Times(f, Segs(batch[d])) \in Nat /\ Times(f, Segs(out[d])) \in Nat
  /\ Times(f, tx[d]) \in Nat /\ Times(f, cq[d]) \in Nat

Counted ==
  /\ \A f : Times(f, pool) \in Nat
  /\ \A d \in Dirs : \A f : Times(f, InDirection(d)) = DirTimes(d, f) /\ DirNats(d, f)
  /\ \A w \in Workers : \A f : Times(f, InWorker(w)) = JobTimes(w, f)
                               /\ Times(f, job[w].segs) \in Nat /\ Times(f, tail[w].segs) \in Nat
  /\ \A d \in Dirs : \A w \in Workers : \A f : MidTimes(d, w, f) \in Nat

LEMMA TypeCounts == TypeInv => Counted
<1> SUFFICES ASSUME TypeInv PROVE Counted
  OBVIOUS
<1>1. \A f : Times(f, pool) \in Nat
  BY TimesNat DEF TypeInv, TypeRings
<1>2. ASSUME NEW d \in Dirs, NEW f
      PROVE  Times(f, InDirection(d)) = DirTimes(d, f) /\ DirNats(d, f)
  <2> DEFINE q == fq[d]  u == RxUnread(d)  c == rx_chain[d].segs  b == Segs(batch[d])
             o == Segs(out[d])  t == tx[d]  e == cq[d]
  <2>1. q \in Seq(AddrT) /\ e \in Seq(AddrT) /\ t \in Seq(TxDescT) /\ rx[d] \in Seq(RxDescT)
    BY DEF TypeInv, TypeRings
  <2>2. rx_chain[d] \in SmallT /\ batch[d] \in Seq(SmallT) /\ taken[d] \in Nat /\ rx_rejects[d] = <<>>
    BY DEF TypeInv, TypeRx
  <2>3. out[d] \in Seq(SmallT)
    BY DEF TypeInv, TypePackets
  <2>4. u \in Seq(RxDescT)
    <3>1. Len(rx[d]) \in Nat /\ taken[d] + 1 \in Nat /\ taken[d] + 1 >= 1
      BY <2>1, <2>2
    <3> QED BY <2>1, <3>1, Part DEF RxUnread
  <2>5. c \in Seq(SegT) /\ b \in Seq(SegT) /\ o \in Seq(SegT)
    <3>1. c \in Seq(SegT)
      BY <2>2, SmallFields
    <3>2. b \in Seq(SegT)
      BY <2>2, SmallSeq, SegsType
    <3>3. o \in Seq(SegT)
      BY <2>3, SmallSeq, SegsType
    <3> QED BY <3>1, <3>2, <3>3
  <2>6. InDirection(d) = q \o u \o c \o <<>> \o b \o o \o t \o e
    BY <2>2 DEF InDirection
  <2>7. DirTimes(d, f) = Times(f, q) + Times(f, u) + Times(f, c) + Times(f, b)
                         + Times(f, o) + Times(f, t) + Times(f, e)
    BY DEF DirTimes
  <2>8. DirNats(d, f) <=> /\ Times(f, q) \in Nat /\ Times(f, u) \in Nat /\ Times(f, c) \in Nat
                          /\ Times(f, b) \in Nat /\ Times(f, o) \in Nat /\ Times(f, t) \in Nat
                          /\ Times(f, e) \in Nat
    BY DEF DirNats
  <2> HIDE DEF q, u, c, b, o, t, e
  <2>9. /\ q \in Seq(ItemT) /\ u \in Seq(ItemT) /\ c \in Seq(ItemT) /\ <<>> \in Seq(ItemT)
        /\ b \in Seq(ItemT) /\ o \in Seq(ItemT) /\ t \in Seq(ItemT) /\ e \in Seq(ItemT)
    BY <2>1, <2>4, <2>5, AsItems
  <2>10. Times(f, q \o u \o c \o <<>> \o b \o o \o t \o e)
         = Times(f, q) + Times(f, u) + Times(f, c) + Times(f, <<>>) + Times(f, b)
           + Times(f, o) + Times(f, t) + Times(f, e)
    <3>1. q \o u \in Seq(ItemT) /\ Times(f, q \o u) = Times(f, q) + Times(f, u)
      BY <2>9, TimesJoin
    <3> DEFINE b2 == q \o u
    <3>2. b2 \o c \in Seq(ItemT) /\ Times(f, b2 \o c) = Times(f, b2) + Times(f, c)
      <4>1. b2 \in Seq(ItemT)
        BY <3>1
      <4> HIDE DEF b2
      <4> QED BY <2>9, <4>1, TimesJoin
    <3> DEFINE b3 == b2 \o c
    <3>3. b3 \o <<>> \in Seq(ItemT) /\ Times(f, b3 \o <<>>) = Times(f, b3) + Times(f, <<>>)
      <4>1. b3 \in Seq(ItemT)
        BY <3>2
      <4> HIDE DEF b3
      <4> QED BY <2>9, <4>1, TimesJoin
    <3> DEFINE b4 == b3 \o <<>>
    <3>4. b4 \o b \in Seq(ItemT) /\ Times(f, b4 \o b) = Times(f, b4) + Times(f, b)
      <4>1. b4 \in Seq(ItemT)
        BY <3>3
      <4> HIDE DEF b4
      <4> QED BY <2>9, <4>1, TimesJoin
    <3> DEFINE b5 == b4 \o b
    <3>5. b5 \o o \in Seq(ItemT) /\ Times(f, b5 \o o) = Times(f, b5) + Times(f, o)
      <4>1. b5 \in Seq(ItemT)
        BY <3>4
      <4> HIDE DEF b5
      <4> QED BY <2>9, <4>1, TimesJoin
    <3> DEFINE b6 == b5 \o o
    <3>6. b6 \o t \in Seq(ItemT) /\ Times(f, b6 \o t) = Times(f, b6) + Times(f, t)
      <4>1. b6 \in Seq(ItemT)
        BY <3>5
      <4> HIDE DEF b6
      <4> QED BY <2>9, <4>1, TimesJoin
    <3> DEFINE b7 == b6 \o t
    <3>7. b7 \o e \in Seq(ItemT) /\ Times(f, b7 \o e) = Times(f, b7) + Times(f, e)
      <4>1. b7 \in Seq(ItemT)
        BY <3>6
      <4> HIDE DEF b7
      <4> QED BY <2>9, <4>1, TimesJoin
    <3> QED BY <3>1, <3>2, <3>3, <3>4, <3>5, <3>6, <3>7
  <2>11. /\ Times(f, q) \in Nat /\ Times(f, u) \in Nat /\ Times(f, c) \in Nat /\ Times(f, b) \in Nat
         /\ Times(f, o) \in Nat /\ Times(f, t) \in Nat /\ Times(f, e) \in Nat
    BY <2>9, TimesNat
  <2>12. Times(f, <<>>) = 0
    BY TimesEmpty
  <2> QED BY <2>6, <2>7, <2>8, <2>10, <2>11, <2>12
<1>3. ASSUME NEW w \in Workers, NEW f
      PROVE  Times(f, InWorker(w)) = JobTimes(w, f)
             /\ Times(f, job[w].segs) \in Nat /\ Times(f, tail[w].segs) \in Nat
  <2>1. job[w].segs \in Seq(SegT) /\ tail[w].segs \in Seq(SegT)
    BY SmallFields DEF TypeInv, TypePackets
  <2> QED BY <2>1, TimesConcat, TimesNat DEF InWorker, JobTimes
<1>4. ASSUME NEW d \in Dirs, NEW w \in Workers, NEW f PROVE MidTimes(d, w, f) \in Nat
  <2>1. mid[d][w] \in Seq(SmallT)
    BY DEF TypeInv, TypePackets
  <2>2. Segs(mid[d][w]) \in Seq(SegT)
    BY <2>1, SmallSeq, SegsType
  <2> QED BY <2>2, TimesNat DEF MidTimes
<1> QED BY <1>1, <1>2, <1>3, <1>4 DEF Counted

LEMMA TypeCountsNext == TypeInv' => Counted'
BY TypeCounts, PTL

\* The owners of f, added up.
DirFn(f) == [d \in Dirs |-> Times(f, InDirection(d))]
JobFn(f) == [w \in Workers |-> Times(f, InWorker(w))]
MidFn(f) == [dw \in Dirs \X Workers |-> Times(f, Segs(mid[dw[1]][dw[2]]))]
Sums == \A f : Owners(f) = Times(f, pool) + LostTimes(f) + SumFunction(DirFn(f))
                           + SumFunction(JobFn(f)) + SumFunction(MidFn(f))

LEMMA SumsIs == Sums
BY DEF Sums, Owners, LostTimes, DirFn, JobFn, MidFn

LEMMA SumsNext == Sums'
BY SumsIs, PTL

LEMMA FiniteParts == IsFiniteSet(Dirs) /\ IsFiniteSet(Workers) /\ IsFiniteSet(Dirs \X Workers)
<1>1. IsFiniteSet({"egress", "ingress"})
  <2>1. IsFiniteSet({}) /\ {"egress", "ingress"} = ({} \cup {"egress"}) \cup {"ingress"}
    BY FS_EmptySet
  <2> QED BY <2>1, FS_AddElement, ZenonT(40)
<1>2. IsFiniteSet(Dirs)
  BY <1>1, UmemAssumption, FS_Subset
<1> QED BY <1>2, UmemAssumption, FS_Product

\* The values of the parts.
FnValues(f) ==
  /\ DirFn(f) \in [Dirs -> Nat] /\ JobFn(f) \in [Workers -> Nat] /\ MidFn(f) \in [Dirs \X Workers -> Nat]
  /\ \A d \in Dirs : DirFn(f)[d] = DirTimes(d, f)
  /\ \A w \in Workers : JobFn(f)[w] = JobTimes(w, f)
  /\ \A d \in Dirs : \A w \in Workers : MidFn(f)[<<d, w>>] = MidTimes(d, w, f)

LEMMA CountedValues == Counted => \A f : FnValues(f)
<1> SUFFICES ASSUME Counted, NEW f PROVE FnValues(f)
  OBVIOUS
<1>1. ASSUME NEW d \in Dirs PROVE DirFn(f)[d] = DirTimes(d, f) /\ DirTimes(d, f) \in Nat
  <2>1. Times(f, InDirection(d)) = DirTimes(d, f) /\ DirNats(d, f)
    BY DEF Counted
  <2>2. DirTimes(d, f) \in Nat
    BY <2>1 DEF DirNats, DirTimes
  <2> QED BY <2>1, <2>2 DEF DirFn
<1>2. ASSUME NEW w \in Workers PROVE JobFn(f)[w] = JobTimes(w, f) /\ JobTimes(w, f) \in Nat
  <2>1. Times(f, InWorker(w)) = JobTimes(w, f) /\ Times(f, job[w].segs) \in Nat /\ Times(f, tail[w].segs) \in Nat
    BY DEF Counted
  <2>2. JobTimes(w, f) \in Nat
    BY <2>1 DEF JobTimes
  <2> QED BY <2>1, <2>2 DEF JobFn
<1>3. ASSUME NEW d \in Dirs, NEW w \in Workers
      PROVE  MidFn(f)[<<d, w>>] = MidTimes(d, w, f) /\ MidTimes(d, w, f) \in Nat
  <2>1. <<d, w>> \in Dirs \X Workers /\ (<<d, w>>)[1] = d /\ (<<d, w>>)[2] = w
    OBVIOUS
  <2>2. MidTimes(d, w, f) \in Nat
    BY DEF Counted
  <2>3. MidFn(f)[<<d, w>>] = Times(f, Segs(mid[d][w]))
    BY <2>1 DEF MidFn
  <2> QED BY <2>2, <2>3 DEF MidTimes
<1>4. DirFn(f) \in [Dirs -> Nat]
  <2>1. \A d \in Dirs : Times(f, InDirection(d)) \in Nat
    BY <1>1 DEF DirFn
  <2> QED BY <2>1 DEF DirFn
<1>5. JobFn(f) \in [Workers -> Nat]
  <2>1. \A w \in Workers : Times(f, InWorker(w)) \in Nat
    BY <1>2 DEF JobFn
  <2> QED BY <2>1 DEF JobFn
<1>6. MidFn(f) \in [Dirs \X Workers -> Nat]
  <2>1. ASSUME NEW dw \in Dirs \X Workers PROVE Times(f, Segs(mid[dw[1]][dw[2]])) \in Nat
    <3>1. dw[1] \in Dirs /\ dw[2] \in Workers
      OBVIOUS
    <3>2. MidTimes(dw[1], dw[2], f) \in Nat
      BY <3>1, <1>3
    <3> QED BY <3>2 DEF MidTimes
  <2> QED BY <2>1 DEF MidFn
<1> QED BY <1>1, <1>2, <1>3, <1>4, <1>5, <1>6 DEF FnValues

Valued == \A f : FnValues(f)

LEMMA ValuesNow == TypeInv => Valued
BY TypeCounts, CountedValues DEF Valued

LEMMA ValuesNext == TypeInv' => Valued'
BY ValuesNow, PTL

\* A frame that is free, lost or in one part is nowhere else.
LEMMA PartOfOne ==
  ASSUME TypeInv, OneOwner, NEW f \in Frames
  PROVE  /\ Times(f, pool) \in Nat
         /\ \A d \in Dirs : Times(f, pool) + LostTimes(f) + DirTimes(d, f) <= 1 /\ DirTimes(d, f) \in Nat
         /\ \A w \in Workers : Times(f, pool) + JobTimes(w, f) <= 1 /\ JobTimes(w, f) \in Nat
         /\ \A d \in Dirs : \A w \in Workers :
              Times(f, pool) + MidTimes(d, w, f) <= 1 /\ MidTimes(d, w, f) \in Nat
<1>1. FnValues(f) /\ Times(f, pool) \in Nat
  BY ValuesNow, TypeCounts DEF Valued, Counted
<1>2. SumFunction(DirFn(f)) \in Nat /\ \A d \in Dirs : SumFunction(DirFn(f)) >= DirFn(f)[d]
  BY <1>1, FiniteParts, SumNat DEF FnValues
<1>3. SumFunction(JobFn(f)) \in Nat /\ \A w \in Workers : SumFunction(JobFn(f)) >= JobFn(f)[w]
  BY <1>1, FiniteParts, SumNat DEF FnValues
<1>4. SumFunction(MidFn(f)) \in Nat /\ \A x \in Dirs \X Workers : SumFunction(MidFn(f)) >= MidFn(f)[x]
  BY <1>1, FiniteParts, SumNat DEF FnValues
<1>5. Times(f, pool) + LostTimes(f) + SumFunction(DirFn(f)) + SumFunction(JobFn(f)) + SumFunction(MidFn(f)) = 1
  BY SumsIs DEF Sums, OneOwner
<1>6. LostTimes(f) \in Nat
  BY DEF LostTimes
<1>7. ASSUME NEW d \in Dirs
      PROVE  Times(f, pool) + LostTimes(f) + DirTimes(d, f) <= 1 /\ DirTimes(d, f) \in Nat
  <2>1. DirFn(f)[d] = DirTimes(d, f) /\ DirFn(f)[d] \in Nat
    BY <1>1 DEF FnValues
  <2>2. SumFunction(DirFn(f)) >= DirFn(f)[d]
    BY <1>2
  <2> QED BY <2>1, <2>2, <1>1, <1>2, <1>3, <1>4, <1>5, <1>6
<1>8. ASSUME NEW w \in Workers
      PROVE  Times(f, pool) + JobTimes(w, f) <= 1 /\ JobTimes(w, f) \in Nat
  <2>1. JobFn(f)[w] = JobTimes(w, f) /\ JobFn(f)[w] \in Nat
    BY <1>1 DEF FnValues
  <2>2. SumFunction(JobFn(f)) >= JobFn(f)[w]
    BY <1>3
  <2> QED BY <2>1, <2>2, <1>1, <1>2, <1>3, <1>4, <1>5, <1>6
<1>9. ASSUME NEW d \in Dirs, NEW w \in Workers
      PROVE  Times(f, pool) + MidTimes(d, w, f) <= 1 /\ MidTimes(d, w, f) \in Nat
  <2>1. <<d, w>> \in Dirs \X Workers
    OBVIOUS
  <2>2. MidFn(f)[<<d, w>>] = MidTimes(d, w, f) /\ MidFn(f)[<<d, w>>] \in Nat
    BY <1>1, <2>1 DEF FnValues
  <2>3. SumFunction(MidFn(f)) >= MidFn(f)[<<d, w>>]
    BY <1>4, <2>1
  <2> QED BY <2>2, <2>3, <1>1, <1>2, <1>3, <1>4, <1>5, <1>6
<1> QED BY <1>1, <1>7, <1>8, <1>9

\* A step that moves f between the pool, the lost frames and one direction.
LEMMA MoveInDir ==
  ASSUME TypeInv, TypeInv', NEW f \in Frames, Owners(f) = 1, NEW d \in Dirs,
         \A e \in Dirs : e # d => DirTimes(e, f)' = DirTimes(e, f),
         UNCHANGED <<job, tail, mid>>,
         Times(f, pool') + LostTimes(f)' + DirTimes(d, f)' = Times(f, pool) + LostTimes(f) + DirTimes(d, f)
  PROVE  Owners(f)' = 1
<1>1. FnValues(f) /\ FnValues(f)' /\ Times(f, pool) \in Nat /\ Times(f, pool') \in Nat
  BY ValuesNow, ValuesNext, TypeCounts, TypeCountsNext DEF Valued, Counted
<1>2. JobFn(f)' = JobFn(f) /\ MidFn(f)' = MidFn(f)
  BY DEF JobFn, MidFn, InWorker
<1> DEFINE g == DirFn(f)  h == DirFn(f)'
<1>3. /\ g \in [Dirs -> Nat] /\ \A e \in Dirs : g[e] = DirTimes(e, f)
      /\ h \in [Dirs -> Nat] /\ \A e \in Dirs : h[e] = DirTimes(e, f)'
  BY <1>1 DEF FnValues
<1> HIDE DEF g, h
<1>4. SumFunction(g) + h[d] = SumFunction(h) + g[d]
  <2>1. \A e \in Dirs : e # d => g[e] = h[e]
    BY <1>3
  <2> QED BY <1>3, <2>1, FiniteParts, SumPoint
<1>5. SumFunction(g) \in Nat /\ SumFunction(h) \in Nat /\ g[d] \in Nat /\ h[d] \in Nat
  BY <1>3, FiniteParts, SumNat
<1> DEFINE sj == SumFunction(JobFn(f))  sm == SumFunction(MidFn(f))
<1>6. sj \in Nat /\ sm \in Nat
  BY <1>1, FiniteParts, SumNat DEF FnValues
<1>7. 1 = Times(f, pool) + LostTimes(f) + SumFunction(g) + sj + sm
  BY SumsIs DEF Sums, g
<1>8. Owners(f)' = Times(f, pool') + LostTimes(f)' + SumFunction(h) + sj + sm
  BY SumsNext, <1>2 DEF Sums, h
<1>9. LostTimes(f) \in Nat /\ LostTimes(f)' \in Nat
  BY DEF LostTimes
<1> HIDE DEF sj, sm
<1>10. g[d] = DirTimes(d, f) /\ h[d] = DirTimes(d, f)'
  BY <1>3
<1> QED BY <1>1, <1>4, <1>5, <1>6, <1>7, <1>8, <1>9, <1>10

\* A step that moves f between the pool, one direction, one worker and the
\* ring between them.
LEMMA MoveAtWorker ==
  ASSUME TypeInv, TypeInv', NEW f \in Frames, Owners(f) = 1, NEW d \in Dirs, NEW w \in Workers,
         \A e \in Dirs : e # d => DirTimes(e, f)' = DirTimes(e, f),
         \A v \in Workers : v # w => JobTimes(v, f)' = JobTimes(v, f),
         \A e \in Dirs : \A v \in Workers : <<e, v>> # <<d, w>> => MidTimes(e, v, f)' = MidTimes(e, v, f),
         UNCHANGED lost,
         Times(f, pool') + DirTimes(d, f)' + JobTimes(w, f)' + MidTimes(d, w, f)'
         = Times(f, pool) + DirTimes(d, f) + JobTimes(w, f) + MidTimes(d, w, f)
  PROVE  Owners(f)' = 1
<1>1. FnValues(f) /\ FnValues(f)' /\ Times(f, pool) \in Nat /\ Times(f, pool') \in Nat
  BY ValuesNow, ValuesNext, TypeCounts, TypeCountsNext DEF Valued, Counted
<1> DEFINE g == DirFn(f)  h == DirFn(f)'  gj == JobFn(f)  hj == JobFn(f)'
           gm == MidFn(f)  hm == MidFn(f)'  DW == Dirs \X Workers
<1>2. /\ g \in [Dirs -> Nat] /\ \A e \in Dirs : g[e] = DirTimes(e, f)
      /\ h \in [Dirs -> Nat] /\ \A e \in Dirs : h[e] = DirTimes(e, f)'
  BY <1>1 DEF FnValues
<1>3. /\ gj \in [Workers -> Nat] /\ \A e \in Workers : gj[e] = JobTimes(e, f)
      /\ hj \in [Workers -> Nat] /\ \A e \in Workers : hj[e] = JobTimes(e, f)'
  BY <1>1 DEF FnValues
<1>4. /\ gm \in [DW -> Nat] /\ \A e \in Dirs : \A v \in Workers : gm[<<e, v>>] = MidTimes(e, v, f)
      /\ hm \in [DW -> Nat] /\ \A e \in Dirs : \A v \in Workers : hm[<<e, v>>] = MidTimes(e, v, f)'
  BY <1>1 DEF FnValues
<1>5. 1 = Times(f, pool) + LostTimes(f) + SumFunction(g) + SumFunction(gj) + SumFunction(gm)
  BY SumsIs DEF Sums
<1>6. Owners(f)' = Times(f, pool') + LostTimes(f) + SumFunction(h) + SumFunction(hj) + SumFunction(hm)
  BY SumsNext DEF Sums, LostTimes
<1> HIDE DEF g, h, gj, hj, gm, hm
<1>7. SumFunction(g) + h[d] = SumFunction(h) + g[d]
  <2>1. \A e \in Dirs : e # d => g[e] = h[e]
    BY <1>2
  <2> QED BY <1>2, <2>1, FiniteParts, SumPoint
<1>8. SumFunction(gj) + hj[w] = SumFunction(hj) + gj[w]
  <2>1. \A e \in Workers : e # w => gj[e] = hj[e]
    BY <1>3
  <2> QED BY <1>3, <2>1, FiniteParts, SumPoint
<1>9. SumFunction(gm) + hm[<<d, w>>] = SumFunction(hm) + gm[<<d, w>>]
  <2>1. ASSUME NEW x \in DW, x # <<d, w>> PROVE gm[x] = hm[x]
    <3>1. PICK e \in Dirs, v \in Workers : x = <<e, v>>
      OBVIOUS
    <3> QED BY <2>1, <3>1, <1>4
  <2>2. <<d, w>> \in DW /\ IsFiniteSet(DW)
    BY FiniteParts
  <2> HIDE DEF DW
  <2> QED BY <1>4, <2>1, <2>2, SumPoint
<1>10. /\ SumFunction(g) \in Nat /\ SumFunction(h) \in Nat /\ SumFunction(gj) \in Nat
       /\ SumFunction(hj) \in Nat /\ SumFunction(gm) \in Nat /\ SumFunction(hm) \in Nat
  BY <1>2, <1>3, <1>4, FiniteParts, SumNat
<1>11. /\ g[d] \in Nat /\ h[d] \in Nat /\ gj[w] \in Nat /\ hj[w] \in Nat
       /\ g[d] = DirTimes(d, f) /\ h[d] = DirTimes(d, f)' /\ gj[w] = JobTimes(w, f) /\ hj[w] = JobTimes(w, f)'
  BY <1>2, <1>3
<1>12. /\ gm[<<d, w>>] \in Nat /\ hm[<<d, w>>] \in Nat
       /\ gm[<<d, w>>] = MidTimes(d, w, f) /\ hm[<<d, w>>] = MidTimes(d, w, f)'
  <2>1. <<d, w>> \in DW
    OBVIOUS
  <2> QED BY <1>4, <2>1
<1>13. LostTimes(f) \in Nat
  BY DEF LostTimes
<1> QED BY <1>1, <1>5, <1>6, <1>7, <1>8, <1>9, <1>10, <1>11, <1>12, <1>13

-----------------------------------------------------------------------------
(* Chains in the RX ring.                                                  *)

\* The kernel appends whole chains.
LEMMA ChainedMore ==
  ASSUME NEW c \in SmallT, NEW u \in Seq(RxDescT), NEW s \in Seq(RxDescT), Chained(c, u),
         Len(s) <= Batch, Len(s) <= MaxSegs,
         \A i \in 1 .. Len(s) : /\ s[i].contd = (i < Len(s))
                                /\ i < Len(s) => s[i].len = Room
                                /\ (i - 1) * Room + s[i].len <= WireMax
  PROVE  s # <<>> => Chained(c, u \o s)
<1> SUFFICES ASSUME s # <<>> PROVE Chained(c, u \o s)
  OBVIOUS
<1> DEFINE t == u \o s  m == Len(u)  k == Len(s)
<1>1. m \in Nat /\ k \in Nat /\ k >= 1 /\ Batch \in Nat /\ MaxSegs \in Nat /\ Room \in Nat
  BY Constants
<1>2. /\ t \in Seq(RxDescT) /\ Len(t) = m + k
      /\ \A i \in 1 .. m : t[i] = u[i]
      /\ \A i \in 1 .. k : t[m + i] = s[i]
  BY Concat
<1>3. t # <<>>
  BY <1>1, <1>2
<1>4. Ends(t, Batch)
  <2>1. Ends(s, Batch)
    BY <1>1, EndsChain
  <2>2. Ends(u, Batch)
    BY DEF Chained
  <2> QED BY <1>1, <2>1, <2>2, EndsConcat
<1>5. PICK pos \in [1 .. m -> 1 .. MaxSegs] : Continues(Len(c.segs), u, pos)
  BY DEF Chained
<1>6. m # 0 => ~u[m].contd
  <2>1. Ends(u, Batch)
    BY DEF Chained
  <2>2. m # 0 => u # <<>>
    OBVIOUS
  <2> QED BY <1>1, <2>1, <2>2, EndsLast
<1>7. m = 0 => Len(c.segs) = 0
  <2>1. m = 0 => u = <<>>
    OBVIOUS
  <2>2. u = <<>> => c = NoPacket
    BY DEF Chained
  <2> QED BY <2>1, <2>2 DEF NoPacket
<1> DEFINE P(j) == IF j <= m THEN pos[j] ELSE j - m
           q == [j \in 1 .. m + k |-> P(j)]
<1>8. \A j \in 1 .. m + k : P(j) \in 1 .. MaxSegs
  BY <1>1, <1>5
<1>9. q \in [1 .. m + k -> 1 .. MaxSegs] /\ \A j \in 1 .. m + k : q[j] = P(j)
  BY <1>8
<1> HIDE DEF q, t, k
<1>10. ASSUME NEW j \in 1 .. m + k
       PROVE  /\ q[j] = IF j = 1 THEN Len(c.segs) + 1 ELSE IF t[j - 1].contd THEN q[j - 1] + 1 ELSE 1
              /\ (q[j] - 1) * Room + t[j].len <= WireMax
              /\ t[j].contd => t[j].len = Room
  <2>1. CASE j <= m
    <3>1. j \in 1 .. m /\ q[j] = pos[j] /\ t[j] = u[j]
      BY <1>1, <1>2, <1>9, <2>1
    <3>2. j # 1 => j - 1 \in 1 .. m /\ j - 1 \in 1 .. m + k /\ j - 1 <= m
      BY <1>1, <2>1
    <3>3. j # 1 => q[j - 1] = pos[j - 1] /\ t[j - 1] = u[j - 1]
      BY <1>2, <1>9, <3>2
    <3>4. /\ pos[j] = IF j = 1 THEN Len(c.segs) + 1 ELSE IF u[j - 1].contd THEN pos[j - 1] + 1 ELSE 1
          /\ (pos[j] - 1) * Room + u[j].len <= WireMax
          /\ u[j].contd => u[j].len = Room
      BY <3>1, <1>5 DEF Continues
    <3> QED BY <3>1, <3>3, <3>4
  <2>2. CASE j > m
    <3> DEFINE i == j - m
    <3>1. i \in 1 .. k /\ m + i = j /\ q[j] = i
      BY <1>1, <1>9, <2>2
    <3>2. t[j] = s[i]
      BY <3>1, <1>2
    <3>3. (q[j] - 1) * Room + t[j].len <= WireMax /\ (t[j].contd => t[j].len = Room)
      <4> HIDE DEF i
      <4>1. /\ s[i].contd = (i < Len(s)) /\ (i < Len(s) => s[i].len = Room)
            /\ (i - 1) * Room + s[i].len <= WireMax
        BY <3>1 DEF k
      <4> QED BY <3>1, <3>2, <4>1
    <3>4. CASE i = 1 /\ m = 0
      BY <3>1, <3>3, <3>4, <1>7
    <3>5. CASE i = 1 /\ m # 0
      <4>1. j # 1 /\ j - 1 = m /\ m \in 1 .. m
        <5>1. m + 1 = j
          BY <3>1, <3>5
        <5>2. m \in Nat /\ m # 0
          BY <1>1, <3>5
        <5> HIDE DEF i, m
        <5> QED BY <5>1, <5>2
      <4>2. t[m] = u[m]
        <5> HIDE DEF i, m
        <5> QED BY <4>1, <1>2
      <4>3. ~u[m].contd
        <5> HIDE DEF i, m
        <5> QED BY <3>5, <1>6
      <4>4. ~t[j - 1].contd
        <5> HIDE DEF i, m
        <5> QED BY <4>1, <4>2, <4>3
      <4> QED BY <3>1, <3>3, <3>5, <4>1, <4>4
    <3>6. CASE i # 1
      <4>1. /\ j # 1 /\ i - 1 \in 1 .. k /\ m + (i - 1) = j - 1 /\ j - 1 \in 1 .. m + k
            /\ ~(j - 1 <= m) /\ i - 1 < k
        BY <1>1, <3>1, <3>6, <2>2
      <4>2. q[j - 1] = i - 1
        BY <4>1, <1>9
      <4>3. t[j - 1] = s[i - 1]
        BY <4>1, <1>2
      <4>4. s[i - 1].contd = (i - 1 < k)
        BY <4>1 DEF k
      <4>5. t[j - 1].contd
        BY <4>1, <4>3, <4>4
      <4> QED BY <3>1, <3>3, <4>1, <4>2, <4>5
    <3> QED BY <3>4, <3>5, <3>6
  <2> QED BY <2>1, <2>2, <1>1
<1>11. Continues(Len(c.segs), t, q)
  BY <1>2, <1>10 DEF Continues
<1>12. c.len = Len(c.segs) * Room
  BY DEF Chained
<1>13. q \in [1 .. Len(t) -> 1 .. MaxSegs]
  BY <1>2, <1>9
<1> QED BY <1>3, <1>4, <1>11, <1>12, <1>13 DEF Chained, t

\* recv_queue leaves a chain and the rest of it in the ring, rejects nothing
\* and keeps every frame.
LEMMA RecvKeeps ==
  ASSUME NEW c \in SmallT, NEW u \in Seq(RxDescT), Chained(c, u), NEW n \in 0 .. Len(u), NEW f
  PROVE  \E ch \in SmallT, o \in Seq(SmallT) :
           /\ RecvLoop(Got(c, <<>>), SubSeq(u, 1, n)) = Got(ch, o)
           /\ Chained(ch, SubSeq(u, n + 1, Len(u)))
           /\ (\E i \in 1 .. n : ~u[i].contd) => o # <<>>
           /\ Times(f, ch.segs) + Times(f, Segs(o)) = Times(f, c.segs) + Times(f, SubSeq(u, 1, n))
<1> DEFINE v == SubSeq(u, n + 1, Len(u))
<1>1. Len(u) \in Nat /\ n \in Nat /\ Batch \in Nat
  BY Constants
<1>2. PICK pos \in [1 .. Len(u) -> 1 .. MaxSegs] : Continues(Len(c.segs), u, pos)
  BY DEF Chained
<1>3. Reached(RecvLoop(Got(c, <<>>), SubSeq(u, 1, n)), c, u, pos, n, f)
  BY <1>2, RecvRun DEF Chained
<1>4. PICK ch \in SmallT, o \in Seq(SmallT) :
        /\ RecvLoop(Got(c, <<>>), SubSeq(u, 1, n)) = Got(ch, o)
        /\ ch.len = Len(ch.segs) * Room /\ Len(ch.segs) = ChainLen(c, u, pos, n)
        /\ (n = 0 => ch = c) /\ (n # 0 /\ ~u[n].contd => ch = NoPacket)
        /\ (\E i \in 1 .. n : ~u[i].contd) => o # <<>>
        /\ Times(f, ch.segs) + Times(f, Segs(o)) = Times(f, c.segs) + Times(f, SubSeq(u, 1, n))
  BY <1>3 DEF Reached
<1>5. v \in Seq(RxDescT) /\ Len(v) = Len(u) - n /\ \A i \in 1 .. Len(u) - n : v[i] = u[n + i]
  BY <1>1, Part
<1>6. Ends(u, Batch) /\ (u = <<>> => c = NoPacket)
  BY DEF Chained
<1>7. Ends(v, Batch)
  BY <1>1, <1>6, EndsSuffix
<1> HIDE DEF v
<1>8. v = <<>> => ch = NoPacket
  <2>1. SUFFICES ASSUME v = <<>> PROVE ch = NoPacket
    OBVIOUS
  <2>2. n = Len(u)
    <3>1. Len(v) = 0
      BY <2>1
    <3> QED BY <3>1, <1>1, <1>5
  <2>3. CASE n = 0
    <3>1. u = <<>>
      <4>1. Len(u) = 0
        BY <2>2, <2>3
      <4>2. u # <<>> => Len(u) \in Nat \ {0}
        BY EmptySeq
      <4> QED BY <4>1, <4>2
    <3> QED BY <3>1, <2>3, <1>4, <1>6
  <2>4. CASE n # 0
    <3>1. u # <<>>
      BY <2>2, <2>4
    <3>2. ~u[n].contd
      BY <3>1, <2>2, <1>1, <1>6, EndsLast
    <3> QED BY <3>2, <2>4, <1>4
  <2> QED BY <2>3, <2>4
<1> DEFINE q == [j \in 1 .. Len(u) - n |-> pos[n + j]]
<1>9. q \in [1 .. Len(v) -> 1 .. MaxSegs] /\ \A j \in 1 .. Len(u) - n : q[j] = pos[n + j]
  <2>1. \A j \in 1 .. Len(u) - n : n + j \in 1 .. Len(u)
    BY <1>1
  <2> QED BY <2>1, <1>2, <1>5
<1> HIDE DEF q
<1>10. ASSUME NEW j \in 1 .. Len(v)
       PROVE  /\ q[j] = IF j = 1 THEN Len(ch.segs) + 1 ELSE IF v[j - 1].contd THEN q[j - 1] + 1 ELSE 1
              /\ (q[j] - 1) * Room + v[j].len <= WireMax
              /\ v[j].contd => v[j].len = Room
  <2>1. n + j \in 1 .. Len(u) /\ j \in 1 .. Len(u) - n /\ (n + j) - 1 = n + (j - 1)
    BY <1>1, <1>5
  <2>2. v[j] = u[n + j] /\ q[j] = pos[n + j]
    BY <2>1, <1>5, <1>9
  <2>3. /\ pos[n + j] = IF n + j = 1 THEN Len(c.segs) + 1
                        ELSE IF u[(n + j) - 1].contd THEN pos[(n + j) - 1] + 1 ELSE 1
        /\ (pos[n + j] - 1) * Room + u[n + j].len <= WireMax
        /\ u[n + j].contd => u[n + j].len = Room
    BY <2>1, <1>2 DEF Continues
  <2>4. q[j] = IF j = 1 THEN Len(ch.segs) + 1 ELSE IF v[j - 1].contd THEN q[j - 1] + 1 ELSE 1
    <3>1. CASE j = 1
      <4>1. (n + j) - 1 = n /\ (n + j = 1 <=> n = 0)
        BY <3>1, <1>1
      <4>2. Len(ch.segs) = IF n = 0 THEN Len(c.segs) ELSE IF u[n].contd THEN pos[n] ELSE 0
        BY <1>4 DEF ChainLen
      <4>3. CASE n = 0
        BY <3>1, <4>1, <4>2, <4>3, <2>2, <2>3
      <4>4. CASE n # 0
        BY <3>1, <4>1, <4>2, <4>4, <2>2, <2>3
      <4> QED BY <4>3, <4>4
    <3>2. CASE j # 1
      <4>1. j - 1 \in 1 .. Len(u) - n /\ n + j # 1
        BY <3>2, <2>1, <1>1
      <4>2. v[j - 1] = u[n + (j - 1)] /\ q[j - 1] = pos[n + (j - 1)]
        BY <4>1, <1>5, <1>9
      <4> QED BY <3>2, <4>1, <4>2, <2>1, <2>2, <2>3
    <3> QED BY <3>1, <3>2
  <2> QED BY <2>2, <2>3, <2>4
<1>11. Continues(Len(ch.segs), v, q)
  BY <1>10 DEF Continues
<1>12. Chained(ch, v)
  BY <1>4, <1>7, <1>8, <1>9, <1>11 DEF Chained
<1> QED BY <1>4, <1>12 DEF v

-----------------------------------------------------------------------------
(* What a step leaves alone.                                               *)

Same(e) ==
  /\ fq'[e] = fq[e] /\ rx'[e] = rx[e] /\ tx'[e] = tx[e] /\ cq'[e] = cq[e] /\ out'[e] = out[e]
  /\ taken'[e] = taken[e] /\ rxpc'[e] = rxpc[e] /\ batch'[e] = batch[e]
  /\ rx_pending'[e] = rx_pending[e] /\ rx_chain'[e] = rx_chain[e]

LEMMA SameDir ==
  ASSUME Safe, NEW e \in Dirs, Same(e)
  PROVE  /\ RxChained(e)' /\ RxTaken(e)' /\ Ends(tx'[e], MaxSegs)
         /\ \A i \in DOMAIN out'[e] : Carries(out'[e][i])
         /\ \A f : DirTimes(e, f)' = DirTimes(e, f)
<1>1. RxUnread(e)' = RxUnread(e)
  BY DEF Same, RxUnread
<1>2. RxChained(e)'
  BY <1>1 DEF Same, Safe, RxInv, RxChained
<1>3. RxTaken(e)'
  BY DEF Same, Safe, RxInv, RxTaken
<1>4. Ends(tx'[e], MaxSegs)
  BY DEF Same, Safe, TxInv
<1>5. \A i \in DOMAIN out'[e] : Carries(out'[e][i])
  BY DEF Same, Safe, OutInv
<1>6. \A f : DirTimes(e, f)' = DirTimes(e, f)
  BY <1>1 DEF Same, DirTimes
<1> QED BY <1>2, <1>3, <1>4, <1>5, <1>6

\* A step at one direction.
LEMMA StepAtDir ==
  ASSUME Safe, TypeInv', WorkerInv', NEW d \in Dirs, \A e \in Dirs : e # d => Same(e),
         RxChained(d)', RxTaken(d)', Ends(tx'[d], MaxSegs),
         \A i \in DOMAIN out'[d] : Carries(out'[d][i])
  PROVE  Safe'
<1>1. RxInv'
  BY SameDir DEF RxInv
<1>2. TxInv'
  BY SameDir DEF TxInv
<1>3. OutInv'
  <2>1. \A e \in Dirs : \A i \in DOMAIN out'[e] : Carries(out'[e][i])
    BY SameDir
  <2> QED BY <2>1 DEF OutInv, Carries
<1> QED BY <1>1, <1>2, <1>3 DEF Safe

LEMMA CountAtDir ==
  ASSUME Safe, TypeInv', OneOwner, NEW d \in Dirs, \A e \in Dirs : e # d => Same(e),
         UNCHANGED <<job, tail, mid>>,
         \A f \in Frames : Times(f, pool') + LostTimes(f)' + DirTimes(d, f)'
                           = Times(f, pool) + LostTimes(f) + DirTimes(d, f)
  PROVE  OneOwner'
<1>1. TypeInv
  BY DEF Safe
<1>2. ASSUME NEW f \in Frames PROVE Owners(f)' = 1
  <2>1. Owners(f) = 1
    BY DEF OneOwner
  <2>2. \A e \in Dirs : e # d => DirTimes(e, f)' = DirTimes(e, f)
    BY SameDir
  <2> QED BY <1>1, <2>1, <2>2, MoveInDir
<1> QED BY <1>2 DEF OneOwner

LEMMA WorkersKept ==
  ASSUME WorkerInv, UNCHANGED workerVars
  PROVE  WorkerInv'
BY DEF WorkerInv, WorkerAt, workerVars, Carries

\* What the parts of the invariant say of a direction.
LEMMA DirTypes ==
  ASSUME Safe, NEW d \in Dirs
  PROVE  /\ pool \in Seq(AddrT) /\ fq[d] \in Seq(AddrT) /\ cq[d] \in Seq(AddrT)
         /\ rx[d] \in Seq(RxDescT) /\ tx[d] \in Seq(TxDescT) /\ lost \in SUBSET Frames
         /\ taken[d] \in 0 .. Len(rx[d]) /\ rx_pending[d] \in Nat /\ RxUnread(d) \in Seq(RxDescT)
         /\ rx_chain[d] \in SmallT /\ batch[d] \in Seq(SmallT) /\ out[d] \in Seq(SmallT)
         /\ \A w \in Workers : mid[d][w] \in Seq(SmallT)
         /\ Chained(rx_chain[d], RxUnread(d)) /\ RxTaken(d) /\ Ends(tx[d], MaxSegs)
         /\ \A i \in DOMAIN out[d] : Carries(out[d][i])
         /\ \A f : DirNats(d, f) /\ Times(f, pool) \in Nat
<1>1. TypeInv /\ RxChained(d) /\ RxTaken(d) /\ Ends(tx[d], MaxSegs) /\ \A i \in DOMAIN out[d] : Carries(out[d][i])
  BY DEF Safe, RxInv, TxInv, OutInv
<1>2. /\ pool \in Seq(AddrT) /\ fq[d] \in Seq(AddrT) /\ cq[d] \in Seq(AddrT)
      /\ rx[d] \in Seq(RxDescT) /\ tx[d] \in Seq(TxDescT) /\ lost \in SUBSET Frames
  BY <1>1 DEF TypeInv, TypeRings
<1>3. /\ taken[d] \in Nat /\ rx_pending[d] \in Nat /\ rx_chain[d] \in SmallT /\ batch[d] \in Seq(SmallT)
  BY <1>1 DEF TypeInv, TypeRx
<1>4. out[d] \in Seq(SmallT) /\ \A w \in Workers : mid[d][w] \in Seq(SmallT)
  BY <1>1 DEF TypeInv, TypePackets
<1>5. taken[d] \in 0 .. Len(rx[d])
  <2>1. taken[d] <= Len(rx[d]) /\ Len(rx[d]) \in Nat
    BY <1>1, <1>2 DEF RxTaken
  <2> QED BY <1>3, <2>1
<1>6. RxUnread(d) \in Seq(RxDescT)
  <2>1. Len(rx[d]) \in Nat /\ taken[d] + 1 \in Nat /\ taken[d] + 1 >= 1
    BY <1>2, <1>3
  <2> QED BY <1>2, <2>1, Part DEF RxUnread
<1>7. \A f : DirNats(d, f) /\ Times(f, pool) \in Nat
  BY <1>1, TypeCounts DEF Counted
<1> QED BY <1>1, <1>2, <1>3, <1>4, <1>5, <1>6, <1>7 DEF RxChained

LEMMA SuffixConcat ==
  ASSUME NEW T, NEW s \in Seq(T), NEW t \in Seq(T), NEW m \in 0 .. Len(s)
  PROVE  SubSeq(s \o t, m + 1, Len(s \o t)) = SubSeq(s, m + 1, Len(s)) \o t
<1> DEFINE st == s \o t  a == SubSeq(s, m + 1, Len(s))  x == SubSeq(st, m + 1, Len(st))
<1>0. Len(s) \in Nat /\ Len(t) \in Nat /\ m \in Nat
  OBVIOUS
<1>1. /\ st \in Seq(T) /\ Len(st) = Len(s) + Len(t)
      /\ \A i \in 1 .. Len(s) : st[i] = s[i]
      /\ \A i \in 1 .. Len(t) : st[Len(s) + i] = t[i]
  BY Concat
<1>2. a \in Seq(T) /\ Len(a) = Len(s) - m /\ \A i \in 1 .. Len(s) - m : a[i] = s[m + i]
  BY <1>0, Part
<1> HIDE DEF st, a
<1>3. x \in Seq(T) /\ Len(x) = Len(s) + Len(t) - m /\ \A i \in 1 .. Len(s) + Len(t) - m : x[i] = st[m + i]
  BY <1>0, <1>1, Part
<1> HIDE DEF x
<1>4. /\ a \o t \in Seq(T) /\ Len(a \o t) = Len(s) - m + Len(t)
      /\ \A i \in 1 .. Len(s) - m : (a \o t)[i] = a[i]
      /\ \A i \in 1 .. Len(t) : (a \o t)[(Len(s) - m) + i] = t[i]
  <2>1. /\ a \o t \in Seq(T) /\ Len(a \o t) = Len(a) + Len(t)
        /\ \A i \in 1 .. Len(a) : (a \o t)[i] = a[i]
        /\ \A i \in 1 .. Len(t) : (a \o t)[Len(a) + i] = t[i]
    <3>1. a \in Seq(T)
      BY <1>2
    <3> QED BY <3>1, Concat
  <2>2. Len(a) = Len(s) - m
    BY <1>2
  <2> QED BY <2>1, <2>2
<1>5. ASSUME NEW i \in 1 .. Len(x) PROVE x[i] = (a \o t)[i]
  <2>1. CASE i <= Len(s) - m
    <3>1. i \in 1 .. Len(s) - m /\ m + i \in 1 .. Len(s) /\ i \in 1 .. Len(s) + Len(t) - m
      BY <2>1, <1>0, <1>3
    <3> QED BY <3>1, <1>1, <1>2, <1>3, <1>4
  <2>2. CASE i > Len(s) - m
    <3> DEFINE j == i - (Len(s) - m)
    <3>1. j \in 1 .. Len(t) /\ m + i = Len(s) + j /\ i = (Len(s) - m) + j /\ i \in 1 .. Len(s) + Len(t) - m
      BY <2>2, <1>0, <1>3
    <3> HIDE DEF j
    <3>2. x[i] = st[Len(s) + j] /\ st[Len(s) + j] = t[j]
      BY <3>1, <1>1, <1>3
    <3>3. (a \o t)[i] = t[j]
      BY <3>1, <1>4
    <3> QED BY <3>2, <3>3
  <2>3. i <= Len(s) - m \/ i > Len(s) - m
    BY <1>0, <1>3
  <2> QED BY <2>1, <2>2, <2>3
<1>6. x = a \o t
  <2>1. Len(x) = Len(a \o t)
    BY <1>0, <1>3, <1>4
  <2> QED BY <1>3, <1>4, <1>5, <2>1, SeqEqual
<1> QED BY <1>6 DEF x, a, st

-----------------------------------------------------------------------------
(* The kernel's steps.                                                     *)

LEMMA KernelRxStep ==
  ASSUME IInv, NEW d \in Dirs, KernelRx(d)
  PROVE  IInv'
<1>0. Safe /\ OneOwner /\ TypeInv
  BY DEF IInv, Safe
<1> USE <1>0
<1>1. PICK len \in {l \in RxLens[d] : Redirects(l)} :
        LET ls == ChunkLens(len)
            k == Len(ls)
        IN  /\ Len(fq[d]) >= k /\ Len(rx[d]) + k <= RxCap
            /\ rx' = [rx EXCEPT ![d] = @ \o [i \in 1 .. k |->
                        [f |-> fq[d][i].f, off |-> Headroom, len |-> ls[i], contd |-> i < k]]]
            /\ fq' = [fq EXCEPT ![d] = SubSeq(@, k + 1, Len(@))]
            /\ UNCHANGED <<pool, tx, cq, rxVars, mid, out, workerVars, lost>>
  BY DEF KernelRx
<1> DEFINE ls == ChunkLens(len)
           k == Len(ls)
           D(i) == [f |-> fq[d][i].f, off |-> Headroom, len |-> ls[i], contd |-> i < k]
           s == [i \in 1 .. k |-> D(i)]
           rest == SubSeq(fq[d], k + 1, Len(fq[d]))
           first == SubSeq(fq[d], 1, k)
<1>2. /\ Len(fq[d]) >= k /\ rx' = [rx EXCEPT ![d] = rx[d] \o s] /\ fq' = [fq EXCEPT ![d] = rest]
      /\ pool' = pool /\ tx' = tx /\ cq' = cq /\ mid' = mid /\ out' = out /\ lost' = lost
      /\ UNCHANGED rxVars /\ UNCHANGED workerVars
  BY <1>1
<1>3. len \in Nat \ {0} /\ len <= WireMax /\ k <= Batch /\ k <= MaxSegs
  BY UmemAssumption, BatchAssumption DEF Redirects
<1>4. /\ ls \in Seq(Nat \ {0}) /\ k \in Nat \ {0}
      /\ \A i \in 1 .. k : (i < k => ls[i] = Room) /\ (i - 1) * Room + ls[i] <= len
  BY <1>3, Chunks
<1>5. /\ fq[d] \in Seq(AddrT) /\ Len(fq[d]) \in Nat /\ rx[d] \in Seq(RxDescT) /\ taken[d] \in 0 .. Len(rx[d])
      /\ RxUnread(d) \in Seq(RxDescT) /\ rx_chain[d] \in SmallT /\ Chained(rx_chain[d], RxUnread(d))
      /\ RxTaken(d) /\ Ends(tx[d], MaxSegs) /\ \A i \in DOMAIN out[d] : Carries(out[d][i])
  BY DirTypes
<1> HIDE DEF ls, k
<1>6. ASSUME NEW i \in 1 .. k
      PROVE  /\ D(i) \in RxDescT /\ D(i).f = fq[d][i].f /\ D(i).len = ls[i] /\ D(i).contd = (i < k)
  <2>1. i \in 1 .. Len(fq[d])
    BY <1>2, <1>4, <1>5
  <2>2. fq[d][i] \in AddrT
    BY <2>1, <1>5
  <2>3. fq[d][i].f \in Frames /\ Headroom \in Nat
    BY <2>2, Constants DEF AddrT
  <2>4. ls[i] \in Nat \ {0}
    BY <1>4 DEF k
  <2>5. (i < k) \in BOOLEAN
    OBVIOUS
  <2> QED BY <2>3, <2>4, <2>5 DEF RxDescT
<1> HIDE DEF D
<1>7. s \in Seq(RxDescT) /\ Len(s) = k /\ \A i \in 1 .. k : s[i] = D(i)
  <2>1. s \in [1 .. k -> RxDescT] /\ \A i \in 1 .. k : s[i] = D(i)
    BY <1>6
  <2> HIDE DEF s
  <2> QED BY <2>1, <1>4, FunIsSeq
<1> HIDE DEF s
<1>8. /\ rest \in Seq(AddrT) /\ first \in Seq(AddrT) /\ Len(first) = k
      /\ Len(rest) <= Len(fq[d]) /\ \A i \in 1 .. k : first[i] = fq[d][i]
  BY <1>2, <1>4, <1>5, Part, SMTT(30)
<1>9. \A f : Times(f, s) = Times(f, first)
  <2>1. \A i \in 1 .. k : s[i].f = first[i].f
    BY <1>6, <1>7, <1>8
  <2>2. s \in Seq(RxDescT) /\ first \in Seq(AddrT) /\ Len(s) = Len(first) /\ \A i \in 1 .. Len(s) : s[i].f = first[i].f
    BY <1>7, <1>8, <2>1
  <2> HIDE DEF first
  <2> QED BY <2>2, TimesSame
<1>10. \A f : Times(f, fq[d]) = Times(f, first) + Times(f, rest)
  <2>1. k \in 0 .. Len(fq[d])
    BY <1>2, <1>4, <1>5
  <2> QED BY <1>5, <2>1, TimesSplit
<1> HIDE DEF rest, first
<1>11. rx'[d] = rx[d] \o s /\ fq'[d] = rest /\ \A e \in Dirs : e # d => rx'[e] = rx[e] /\ fq'[e] = fq[e]
  BY <1>2 DEF TypeInv, TypeRings
<1>12. \A e \in Dirs : e # d => Same(e)
  BY <1>2, <1>11 DEF Same, rxVars
<1>13. rx[d] \o s \in Seq(RxDescT) /\ Len(rx[d]) <= Len(rx[d] \o s)
  BY <1>5, <1>7, Concat
<1>14. TypeInv'
  <2>1. TypeRings'
    <3>1. fq' \in [Dirs -> Seq(AddrT)] /\ rx' \in [Dirs -> Seq(RxDescT)]
      BY <1>2, <1>8, <1>13 DEF TypeInv, TypeRings
    <3>2. \A e \in Dirs : Len(fq'[e]) <= FqCap
      <4>1. Len(fq[d]) <= FqCap /\ Len(rest) \in Nat
        BY <1>8 DEF TypeInv, TypeRings
      <4>2. Len(fq'[d]) <= FqCap
        BY <4>1, <1>5, <1>8, <1>11, Constants
      <4> QED BY <4>2, <1>11 DEF TypeInv, TypeRings
    <3> QED BY <3>1, <3>2, <1>2 DEF TypeInv, TypeRings
  <2>2. TypeRx'
    BY <1>2 DEF TypeInv, TypeRx, rxVars
  <2>3. TypePackets'
    BY <1>2 DEF TypeInv, TypePackets, workerVars
  <2> QED BY <2>1, <2>2, <2>3 DEF TypeInv
<1>15. RxUnread(d)' = RxUnread(d) \o s
  <2>1. taken'[d] = taken[d]
    BY <1>2 DEF rxVars
  <2> QED BY <2>1, <1>5, <1>7, <1>11, SuffixConcat DEF RxUnread
<1>16. RxChained(d)'
  <2>1. \A i \in 1 .. Len(s) : /\ s[i].contd = (i < Len(s))
                               /\ i < Len(s) => s[i].len = Room
                               /\ (i - 1) * Room + s[i].len <= WireMax
    <3>1. TAKE i \in 1 .. Len(s)
    <3>2. i \in 1 .. k /\ s[i].contd = (i < k) /\ s[i].len = ls[i]
      BY <1>6, <1>7
    <3>3. (i < k => ls[i] = Room) /\ (i - 1) * Room + ls[i] <= len /\ ls[i] \in Nat
      BY <3>2, <1>4 DEF k
    <3>4. (i - 1) * Room + ls[i] <= WireMax
      <4>1. (i - 1) * Room \in Nat
        BY <3>2, <1>4, Constants, OneMore
      <4> QED BY <4>1, <3>3, <1>3, Constants
    <3> QED BY <3>2, <3>3, <3>4, <1>7
  <2>2. s # <<>>
    BY <1>4, <1>7
  <2>3. Chained(rx_chain[d], RxUnread(d) \o s)
    BY <2>1, <2>2, <1>3, <1>5, <1>7, ChainedMore
  <2>4. rx_chain'[d] = rx_chain[d]
    BY <1>2 DEF rxVars
  <2> QED BY <2>3, <2>4, <1>15 DEF RxChained
<1>17. RxTaken(d)'
  <2>1. taken'[d] <= Len(rx'[d])
    <3>1. Len(rx[d]) \in Nat /\ Len(rx[d] \o s) \in Nat /\ taken'[d] = taken[d]
      BY <1>2, <1>5, <1>13 DEF rxVars
    <3> QED BY <3>1, <1>5, <1>11, <1>13
  <2> QED BY <2>1, <1>2, <1>5 DEF RxTaken, rxVars
<1>18. WorkerInv'
  BY <1>2, WorkersKept DEF Safe
<1>19. Safe'
  BY <1>2, <1>5, <1>12, <1>14, <1>16, <1>17, <1>18, StepAtDir
<1>20. OneOwner'
  <2>1. ASSUME NEW f \in Frames
        PROVE  Times(f, pool') + LostTimes(f)' + DirTimes(d, f)' = Times(f, pool) + LostTimes(f) + DirTimes(d, f)
    <3>1. Times(f, RxUnread(d) \o s) = Times(f, RxUnread(d)) + Times(f, s)
      BY <1>5, <1>7, TimesConcat
    <3>2. DirTimes(d, f)' = Times(f, rest) + Times(f, RxUnread(d) \o s) + Times(f, rx_chain[d].segs)
                            + Times(f, Segs(batch[d])) + Times(f, Segs(out[d])) + Times(f, tx[d]) + Times(f, cq[d])
      BY <1>2, <1>11, <1>15 DEF DirTimes, rxVars
    <3>3. DirNats(d, f) /\ Times(f, rest) \in Nat /\ Times(f, s) \in Nat /\ Times(f, first) \in Nat
      BY <1>7, <1>8, DirTypes, TimesNat
    <3>4. DirTimes(d, f)' = DirTimes(d, f)
      BY <3>1, <3>2, <3>3, <1>9, <1>10 DEF DirTimes, DirNats
    <3> QED BY <3>4, <1>2 DEF LostTimes
  <2> QED BY <2>1, <1>2, <1>12, <1>14, CountAtDir DEF workerVars
<1> QED BY <1>19, <1>20 DEF IInv

LEMMA TimesAbsent ==
  ASSUME NEW T, NEW s \in Seq(T), NEW f, \A i \in 1 .. Len(s) : s[i].f # f
  PROVE  Times(f, s) = 0
<1>1. {i \in DOMAIN s : s[i].f = f} = {}
  OBVIOUS
<1> QED BY <1>1, FS_EmptySet DEF Times

LEMMA KernelTxStep ==
  ASSUME IInv, NEW d \in Dirs, KernelTx(d)
  PROVE  IInv'
<1>0. Safe /\ OneOwner /\ TypeInv
  BY DEF IInv, Safe
<1> USE <1>0
<1> DEFINE t == tx[d]
           k == Min({i \in DOMAIN tx[d] : ~tx[d][i].contd})
           chain == SubSeq(tx[d], 1, k)
           rest == SubSeq(tx[d], k + 1, Len(tx[d]))
           valid == \A i \in 1 .. k : chain[i].off + chain[i].len <= FrameSize
           back == [i \in 1 .. k |-> AddrOf(chain[i])]
           gone == {chain[i].f : i \in 1 .. k}
<1>1. /\ tx[d] # <<>> /\ tx' = [tx EXCEPT ![d] = rest]
      /\ cq' = [cq EXCEPT ![d] = IF valid THEN cq[d] \o back ELSE cq[d]]
      /\ lost' = IF valid THEN lost ELSE lost \cup gone
      /\ pool' = pool /\ fq' = fq /\ rx' = rx /\ mid' = mid /\ out' = out
      /\ UNCHANGED rxVars /\ UNCHANGED workerVars
  BY DEF KernelTx
<1>2. /\ t \in Seq(TxDescT) /\ Len(t) \in Nat /\ DOMAIN t = 1 .. Len(t) /\ cq[d] \in Seq(AddrT)
      /\ Ends(t, MaxSegs) /\ MaxSegs \in Nat /\ lost \in SUBSET Frames
      /\ \A i \in DOMAIN out[d] : Carries(out[d][i])
  BY DirTypes, Constants
<1>3. k \in 1 .. Len(t)
  <2> DEFINE S == {i \in DOMAIN tx[d] : ~tx[d][i].contd}
  <2>1. Len(t) \in S
    <3>1. ~t[Len(t)].contd
      BY <1>1, <1>2, EndsLast
    <3>2. Len(t) \in 1 .. Len(t)
      BY <1>1, <1>2
    <3> QED BY <1>2, <3>1, <3>2
  <2>2. S \in SUBSET Nat /\ S \subseteq 1 .. Len(t)
    BY <1>2
  <2> HIDE DEF S
  <2>3. Min(S) \in S
    BY <2>1, <2>2, MinOfNumbers
  <2> QED BY <2>2, <2>3 DEF S
<1> HIDE DEF k
<1>4. /\ chain \in Seq(TxDescT) /\ Len(chain) = k /\ rest \in Seq(TxDescT) /\ k \in Nat /\ k \in 0 .. Len(t)
      /\ \A i \in 1 .. k : chain[i] \in TxDescT
  <2>1. chain \in Seq(TxDescT) /\ Len(chain) = k /\ rest \in Seq(TxDescT) /\ k \in Nat /\ k \in 0 .. Len(t)
    BY <1>2, <1>3, Part
  <2> HIDE DEF chain
  <2> QED BY <2>1
<1>5. Ends(rest, MaxSegs)
  BY <1>2, <1>4, EndsSuffix
<1>6. \A f : Times(f, t) = Times(f, chain) + Times(f, rest)
  BY <1>2, <1>4, TimesSplit
<1> HIDE DEF chain, rest, t
<1>7. \A x \in TxDescT : AddrOf(x) \in AddrT /\ AddrOf(x).f = x.f /\ x.f \in Frames
  BY DEF TxDescT, AddrT, AddrOf, Addr
<1>8. back \in Seq(AddrT) /\ Len(back) = k /\ \A i \in 1 .. k : back[i].f = chain[i].f
  <2>1. back \in [1 .. k -> AddrT] /\ \A i \in 1 .. k : back[i] = AddrOf(chain[i])
    BY <1>4, <1>7
  <2> HIDE DEF back
  <2>2. back \in Seq(AddrT) /\ Len(back) = k
    BY <1>4, <2>1, FunIsSeq
  <2> QED BY <1>4, <1>7, <2>1, <2>2
<1> HIDE DEF back
<1>9. \A f : Times(f, back) = Times(f, chain)
  BY <1>4, <1>8, TimesSame
<1>10. gone \in SUBSET Frames
  BY <1>4, <1>7
<1> HIDE DEF valid
<1> DEFINE c2 == IF valid THEN cq[d] \o back ELSE cq[d]
<1>11. c2 \in Seq(AddrT)
  <2>1. cq[d] \o back \in Seq(AddrT)
    BY <1>2, <1>8, Concat
  <2> QED BY <2>1, <1>2
<1>12. tx'[d] = rest /\ cq'[d] = c2 /\ \A e \in Dirs : e # d => tx'[e] = tx[e] /\ cq'[e] = cq[e]
  BY <1>1 DEF TypeInv, TypeRings
<1>13. \A e \in Dirs : e # d => Same(e)
  BY <1>1, <1>12 DEF Same, rxVars
<1>14. TypeInv'
  <2>1. lost' \in SUBSET Frames
    BY <1>1, <1>2, <1>10
  <2>2. tx' \in [Dirs -> Seq(TxDescT)] /\ cq' \in [Dirs -> Seq(AddrT)]
    <3> HIDE DEF c2
    <3>1. cq' = [cq EXCEPT ![d] = c2]
      BY <1>1 DEF c2
    <3> QED BY <3>1, <1>1, <1>4, <1>11 DEF TypeInv, TypeRings
  <2>3. TypeRings'
    BY <2>1, <2>2, <1>1 DEF TypeInv, TypeRings
  <2>4. TypeRx'
    BY <1>1 DEF TypeInv, TypeRx, rxVars
  <2>5. TypePackets'
    BY <1>1 DEF TypeInv, TypePackets, workerVars
  <2> QED BY <2>3, <2>4, <2>5 DEF TypeInv
<1>15. RxChained(d)' /\ RxTaken(d)'
  BY <1>1, DirTypes DEF RxChained, RxTaken, RxUnread, rxVars
<1>16. WorkerInv'
  BY <1>1, WorkersKept DEF Safe
<1>17. Safe'
  BY <1>1, <1>2, <1>5, <1>12, <1>13, <1>14, <1>15, <1>16, StepAtDir
<1>18. OneOwner'
  <2>1. ASSUME NEW f \in Frames
        PROVE  Times(f, pool') + LostTimes(f)' + DirTimes(d, f)' = Times(f, pool) + LostTimes(f) + DirTimes(d, f)
    <3>1. DirTimes(d, f)' = Times(f, fq[d]) + Times(f, RxUnread(d)) + Times(f, rx_chain[d].segs)
                            + Times(f, Segs(batch[d])) + Times(f, Segs(out[d])) + Times(f, rest) + Times(f, c2)
      <4> HIDE DEF c2
      <4> QED BY <1>1, <1>12 DEF DirTimes, RxUnread, rxVars
    <3>2. DirNats(d, f) /\ Times(f, rest) \in Nat /\ Times(f, chain) \in Nat /\ Times(f, pool) \in Nat
      BY <1>4, DirTypes, TimesNat
    <3>3. Times(f, tx[d]) = Times(f, chain) + Times(f, rest)
      BY <1>6 DEF t
    <3>4. CASE valid
      <4>1. Times(f, c2) = Times(f, cq[d]) + Times(f, chain)
        BY <3>4, <1>2, <1>8, <1>9, TimesConcat
      <4>2. LostTimes(f)' = LostTimes(f) /\ LostTimes(f) \in Nat
        BY <3>4, <1>1 DEF LostTimes
      <4> HIDE DEF c2
      <4> QED BY <3>1, <3>2, <3>3, <4>1, <4>2, <1>1, SMTT(30) DEF DirTimes, DirNats
    <3>5. CASE ~valid
      <4>1. c2 = cq[d] /\ lost' = lost \cup gone
        BY <3>5, <1>1
      <4> HIDE DEF c2
      <4>2. Times(f, pool) + LostTimes(f) + DirTimes(d, f) <= 1
        BY PartOfOne
      <4>3. LostTimes(f) \in {0, 1} /\ LostTimes(f)' \in {0, 1}
        BY DEF LostTimes
      <4>4. LostTimes(f) + Times(f, chain) <= 1
        BY <3>2, <3>3, <4>2, <4>3 DEF DirTimes, DirNats
      <4>5. LostTimes(f)' = LostTimes(f) + Times(f, chain)
        <5>1. CASE f \in gone
          <6>1. PICK i \in 1 .. k : f = chain[i].f
            BY <5>1
          <6>2. Times(f, chain) >= 1
            BY <6>1, <1>4, TimesOccurs
          <6>3. LostTimes(f)' = 1
            BY <4>1, <5>1 DEF LostTimes
          <6> QED BY <6>2, <6>3, <4>3, <4>4, <3>2
        <5>2. CASE f \notin gone
          <6>1. \A i \in 1 .. Len(chain) : chain[i].f # f
            BY <5>2, <1>4
          <6>2. Times(f, chain) = 0
            BY <6>1, <1>4, TimesAbsent
          <6>3. LostTimes(f)' = LostTimes(f)
            BY <4>1, <5>2 DEF LostTimes
          <6> QED BY <6>2, <6>3, <4>3
        <5> QED BY <5>1, <5>2
      <4>6. Times(f, c2) = Times(f, cq[d]) /\ Times(f, pool') = Times(f, pool)
        BY <4>1, <1>1
      <4>7. DirTimes(d, f)' + Times(f, chain) = DirTimes(d, f)
        BY <3>1, <3>2, <3>3, <4>6 DEF DirTimes, DirNats
      <4>8. DirTimes(d, f) \in Nat /\ DirTimes(d, f)' \in Nat
        <5>1. Times(f, cq[d]) \in Nat
          BY <3>2 DEF DirNats
        <5> QED BY <3>1, <3>2, <4>6, <5>1 DEF DirTimes, DirNats
      <4> QED BY <3>2, <4>3, <4>5, <4>6, <4>7, <4>8
    <3> QED BY <3>4, <3>5
  <2> QED BY <2>1, <1>1, <1>13, <1>14, CountAtDir DEF workerVars
<1> QED BY <1>17, <1>18 DEF IInv

-----------------------------------------------------------------------------
(* The RX thread.                                                          *)

LEMMA RefillStep ==
  ASSUME IInv, NEW d \in Dirs, Refill(d)
  PROVE  IInv'
<1>0. Safe /\ OneOwner /\ TypeInv
  BY DEF IInv, Safe
<1> USE <1>0
<1> DEFINE n == Least(FqCap - Len(fq[d]), Batch)
           got == PoolPop(pool, n).got
           left == PoolPop(pool, n).left
<1>1. /\ rxpc[d] = "refill" /\ fq' = [fq EXCEPT ![d] = fq[d] \o got] /\ pool' = left
      /\ rxpc' = [rxpc EXCEPT ![d] = "recv"]
      /\ UNCHANGED <<rx, tx, cq, batch, rx_pending, rx_chain, rx_chain_invalid, rx_rejects,
                     taken, mid, out, workerVars, lost>>
  BY DEF Refill
<1>2. /\ fq[d] \in Seq(AddrT) /\ Len(fq[d]) \in Nat /\ pool \in Seq(AddrT) /\ RxTaken(d)
      /\ Chained(rx_chain[d], RxUnread(d)) /\ Ends(tx[d], MaxSegs) /\ \A i \in DOMAIN out[d] : Carries(out[d][i])
  BY DirTypes
<1>3. n \in Nat /\ n <= FqCap - Len(fq[d])
  <2>1. Len(fq[d]) <= FqCap
    BY DEF TypeInv, TypeRings
  <2>2. FqCap - Len(fq[d]) \in Nat /\ Batch \in Nat
    BY <2>1, <1>2, Constants
  <2> QED BY <2>2 DEF Least
<1> HIDE DEF n
<1>4. /\ got \in Seq(AddrT) /\ left \in Seq(AddrT) /\ Len(got) <= n
      /\ \A f : Times(f, pool) = Times(f, got) + Times(f, left)
  BY <1>2, <1>3, PopParts
<1> HIDE DEF got, left
<1>5. fq[d] \o got \in Seq(AddrT) /\ Len(fq[d] \o got) = Len(fq[d]) + Len(got)
  BY <1>2, <1>4, Concat
<1>6. /\ fq'[d] = fq[d] \o got /\ rxpc'[d] = "recv"
      /\ \A e \in Dirs : e # d => fq'[e] = fq[e] /\ rxpc'[e] = rxpc[e]
  BY <1>1 DEF TypeInv, TypeRings, TypeRx
<1>7. \A e \in Dirs : e # d => Same(e)
  BY <1>1, <1>6 DEF Same
<1>8. TypeInv'
  <2>1. fq' \in [Dirs -> Seq(AddrT)]
    BY <1>1, <1>5 DEF TypeInv, TypeRings
  <2>2. \A e \in Dirs : Len(fq'[e]) <= FqCap
    <3>1. Len(got) \in Nat
      BY <1>4
    <3>2. Len(fq'[d]) <= FqCap
      BY <3>1, <1>2, <1>3, <1>4, <1>5, <1>6, Constants
    <3> QED BY <3>2, <1>6 DEF TypeInv, TypeRings
  <2>3. TypeRings'
    BY <2>1, <2>2, <1>1, <1>4 DEF TypeInv, TypeRings
  <2>4. TypeRx'
    BY <1>1 DEF TypeInv, TypeRx
  <2>5. TypePackets'
    BY <1>1 DEF TypeInv, TypePackets, workerVars
  <2> QED BY <2>3, <2>4, <2>5 DEF TypeInv
<1>9. RxChained(d)'
  BY <1>1, <1>2 DEF RxChained, RxUnread
<1>10. RxTaken(d)'
  BY <1>1, <1>2, <1>6 DEF RxTaken
<1>11. WorkerInv'
  BY <1>1, WorkersKept DEF Safe
<1>12. Safe'
  BY <1>1, <1>2, <1>7, <1>8, <1>9, <1>10, <1>11, StepAtDir
<1>13. OneOwner'
  <2>1. ASSUME NEW f \in Frames
        PROVE  Times(f, pool') + LostTimes(f)' + DirTimes(d, f)' = Times(f, pool) + LostTimes(f) + DirTimes(d, f)
    <3>1. Times(f, fq'[d]) = Times(f, fq[d]) + Times(f, got)
      BY <1>2, <1>4, <1>6, TimesConcat
    <3>2. DirTimes(d, f)' = Times(f, fq'[d]) + Times(f, RxUnread(d)) + Times(f, rx_chain[d].segs)
                            + Times(f, Segs(batch[d])) + Times(f, Segs(out[d])) + Times(f, tx[d]) + Times(f, cq[d])
      BY <1>1 DEF DirTimes, RxUnread
    <3>3. DirNats(d, f) /\ Times(f, got) \in Nat /\ Times(f, left) \in Nat
      BY <1>4, DirTypes, TimesNat
    <3>4. DirTimes(d, f)' = DirTimes(d, f) + Times(f, got) /\ DirTimes(d, f) \in Nat
      BY <3>1, <3>2, <3>3 DEF DirTimes, DirNats
    <3>5. LostTimes(f)' = LostTimes(f) /\ LostTimes(f) \in Nat
      BY <1>1 DEF LostTimes
    <3>6. Times(f, pool') = Times(f, left) /\ Times(f, pool) = Times(f, got) + Times(f, left)
      BY <1>1, <1>4
    <3> QED BY <3>3, <3>4, <3>5, <3>6
  <2> QED BY <2>1, <1>1, <1>7, <1>8, CountAtDir DEF workerVars
<1> QED BY <1>12, <1>13 DEF IInv

LEMMA RecvStepDone ==
  ASSUME IInv, NEW d \in Dirs, Recv(d)
  PROVE  IInv'
<1>0. Safe /\ OneOwner /\ TypeInv
  BY DEF IInv, Safe
<1> USE <1>0
<1> DEFINE n == Least(Batch, Len(rx[d]) - taken[d])
           st == RecvLoop([chain |-> rx_chain[d], invalid |-> rx_chain_invalid[d],
                           rejects |-> rx_rejects[d], out |-> <<>>],
                          SubSeq(rx[d], taken[d] + 1, taken[d] + n))
           u == rx[d]
           c == rx_chain[d]
           v == SubSeq(u, n + 1, Len(u))
<1>1. /\ rxpc[d] = "recv" /\ taken' = [taken EXCEPT ![d] = taken[d] + n]
      /\ rx_pending' = [rx_pending EXCEPT ![d] = n]
      /\ rx_chain' = [rx_chain EXCEPT ![d] = st.chain]
      /\ rx_chain_invalid' = [rx_chain_invalid EXCEPT ![d] = st.invalid]
      /\ rx_rejects' = [rx_rejects EXCEPT ![d] = st.rejects]
      /\ batch' = [batch EXCEPT ![d] = st.out]
      /\ rxpc' = [rxpc EXCEPT ![d] = IF st.out = <<>> THEN "refill" ELSE "dispatch"]
      /\ UNCHANGED <<pool, fq, rx, tx, cq, mid, out, workerVars, lost>>
  BY DEF Recv
<1>2. /\ u \in Seq(RxDescT) /\ Len(u) \in Nat /\ RxTaken(d) /\ c \in SmallT
      /\ Chained(c, RxUnread(d)) /\ Ends(tx[d], MaxSegs) /\ \A i \in DOMAIN out[d] : Carries(out[d][i])
  BY DirTypes
<1>3. taken[d] = 0 /\ batch[d] = <<>>
  BY <1>1, <1>2 DEF RxTaken
<1>4. RxUnread(d) = u
  <2>1. SubSeq(u, 1, Len(u)) = u
    BY <1>2, SubSeqFull
  <2> QED BY <2>1, <1>3 DEF RxUnread
<1>5. n \in 0 .. Len(u) /\ n = Least(Batch, Len(u)) /\ n \in Nat
  BY <1>2, <1>3, Constants DEF Least
<1>6. st = RecvLoop(Got(c, <<>>), SubSeq(u, 1, n))
  <2>1. rx_chain_invalid[d] = FALSE /\ rx_rejects[d] = <<>>
    BY DEF TypeInv, TypeRx
  <2>2. SubSeq(rx[d], taken[d] + 1, taken[d] + n) = SubSeq(u, 1, n)
    BY <1>3, <1>5
  <2> HIDE DEF n
  <2> QED BY <2>1, <2>2 DEF Got
<1> HIDE DEF n, st
<1>7. ASSUME NEW f
      PROVE  /\ st.chain \in SmallT /\ st.out \in Seq(SmallT) /\ st.invalid = FALSE /\ st.rejects = <<>>
             /\ Chained(st.chain, v)
             /\ (\E i \in 1 .. n : ~u[i].contd) => st.out # <<>>
             /\ Times(f, st.chain.segs) + Times(f, Segs(st.out)) = Times(f, c.segs) + Times(f, SubSeq(u, 1, n))
  <2>1. Chained(c, u)
    BY <1>2, <1>4
  <2>2. PICK ch \in SmallT, o \in Seq(SmallT) :
           /\ RecvLoop(Got(c, <<>>), SubSeq(u, 1, n)) = Got(ch, o)
           /\ Chained(ch, SubSeq(u, n + 1, Len(u)))
           /\ (\E i \in 1 .. n : ~u[i].contd) => o # <<>>
           /\ Times(f, ch.segs) + Times(f, Segs(o)) = Times(f, c.segs) + Times(f, SubSeq(u, 1, n))
    BY <1>2, <1>5, <2>1, RecvKeeps
  <2>3. st.chain = ch /\ st.out = o /\ st.invalid = FALSE /\ st.rejects = <<>>
    <3>1. st = Got(ch, o)
      BY <2>2, <1>6
    <3> QED BY <3>1, GotFields, ZenonT(40)
  <2> QED BY <2>2, <2>3
<1>8. v \in Seq(RxDescT)
  BY <1>2, <1>5, Part
<1>9. /\ taken'[d] = n /\ rx_pending'[d] = n /\ rx_chain'[d] = st.chain /\ batch'[d] = st.out
      /\ rxpc'[d] = IF st.out = <<>> THEN "refill" ELSE "dispatch"
      /\ \A e \in Dirs : e # d => /\ taken'[e] = taken[e] /\ rx_pending'[e] = rx_pending[e]
                                  /\ rx_chain'[e] = rx_chain[e] /\ batch'[e] = batch[e] /\ rxpc'[e] = rxpc[e]
  BY <1>1, <1>3, <1>5 DEF TypeInv, TypeRx
<1>10. \A e \in Dirs : e # d => Same(e)
  BY <1>1, <1>9 DEF Same
<1>11. TypeInv'
  <2>1. TypeRings'
    BY <1>1 DEF TypeInv, TypeRings
  <2>2. TypeRx'
    <3>1. taken' \in [Dirs -> Nat] /\ rx_pending' \in [Dirs -> Nat]
      BY <1>1, <1>3, <1>5 DEF TypeInv, TypeRx
    <3>2. batch' \in [Dirs -> Seq(SmallT)] /\ rx_chain' \in [Dirs -> SmallT]
      BY <1>1, <1>7 DEF TypeInv, TypeRx
    <3>3. rxpc' \in [Dirs -> {"refill", "recv", "dispatch"}]
      BY <1>1 DEF TypeInv, TypeRx
    <3>4. rx_chain_invalid' = [e \in Dirs |-> FALSE]
      BY <1>1, <1>7 DEF TypeInv, TypeRx
    <3>5. rx_rejects' = [e \in Dirs |-> <<>>]
      BY <1>1, <1>7 DEF TypeInv, TypeRx
    <3> QED BY <3>1, <3>2, <3>3, <3>4, <3>5 DEF TypeRx
  <2>3. TypePackets'
    BY <1>1 DEF TypeInv, TypePackets, workerVars
  <2> QED BY <2>1, <2>2, <2>3 DEF TypeInv
<1>12. RxUnread(d)' = v
  BY <1>1, <1>9 DEF RxUnread
<1>13. RxChained(d)'
  BY <1>7, <1>9, <1>12 DEF RxChained
<1>14. RxTaken(d)'
  <2>1. n <= Len(rx'[d])
    BY <1>1, <1>2, <1>5
  <2>2. st.out = <<>> => n = 0
    <3>1. SUFFICES ASSUME n # 0 PROVE st.out # <<>>
      OBVIOUS
    <3>2. Ends(u, Batch)
      BY <1>2, <1>4 DEF Chained
    <3>3. 1 \in 1 .. Len(u)
      BY <3>1, <1>2, <1>5
    <3>4. PICK k \in 1 .. Least(1 + Batch - 1, Len(u)) : ~u[k].contd
      BY <3>2, <3>3 DEF Ends
    <3>5. 1 + Batch - 1 = Batch
      BY Constants
    <3>6. k \in 1 .. n
      BY <3>4, <3>5, <1>5
    <3> QED BY <3>4, <3>6, <1>7
  <2> QED BY <2>1, <2>2, <1>9 DEF RxTaken
<1>15. WorkerInv'
  BY <1>1, WorkersKept DEF Safe
<1>16. Safe'
  BY <1>1, <1>2, <1>10, <1>11, <1>13, <1>14, <1>15, StepAtDir
<1>17. OneOwner'
  <2>1. ASSUME NEW f \in Frames
        PROVE  Times(f, pool') + LostTimes(f)' + DirTimes(d, f)' = Times(f, pool) + LostTimes(f) + DirTimes(d, f)
    <3>1. Times(f, u) = Times(f, SubSeq(u, 1, n)) + Times(f, v)
      BY <1>2, <1>5, TimesSplit
    <3>2. Times(f, st.chain.segs) + Times(f, Segs(st.out)) = Times(f, c.segs) + Times(f, SubSeq(u, 1, n))
      BY <1>7
    <3>3. Times(f, Segs(batch[d])) = 0
      <4>1. <<>> \in Seq(PktT)
        OBVIOUS
      <4>2. Segs(<<>>) = <<>>
        BY <4>1, SegsType
      <4> QED BY <4>2, <1>3, TimesEmpty
    <3> DEFINE P == Times(f, v)  Q == Times(f, st.chain.segs)  R == Times(f, Segs(st.out))  X == Times(f, SubSeq(u, 1, n))
    <3>4. DirTimes(d, f)' = Times(f, fq[d]) + P + Q + R + Times(f, Segs(out[d])) + Times(f, tx[d]) + Times(f, cq[d])
      BY <1>1, <1>9, <1>12 DEF DirTimes
    <3>5. DirTimes(d, f) = Times(f, fq[d]) + Times(f, u) + Times(f, c.segs) + 0
                           + Times(f, Segs(out[d])) + Times(f, tx[d]) + Times(f, cq[d])
      BY <1>4, <3>3 DEF DirTimes
    <3>6. P \in Nat /\ Q \in Nat /\ R \in Nat /\ X \in Nat
      <4>1. SubSeq(u, 1, n) \in Seq(RxDescT)
        BY <1>2, <1>5, Part
      <4>2. st.chain.segs \in Seq(SegT)
        BY <1>7, SmallFields
      <4>3. Segs(st.out) \in Seq(SegT)
        BY <1>7, SmallSeq, SegsType
      <4> QED BY <4>1, <4>2, <4>3, <1>8, TimesNat
    <3>7. DirNats(d, f) /\ RxUnread(d) = u
      BY DirTypes, <1>4
    <3>8. Times(f, u) = X + P /\ Q + R = Times(f, c.segs) + X
      BY <3>1, <3>2
    <3> HIDE DEF P, Q, R, X
    <3>9. DirTimes(d, f)' = DirTimes(d, f)
      BY <3>4, <3>5, <3>6, <3>7, <3>8 DEF DirNats
    <3>10. pool' = pool /\ LostTimes(f)' = LostTimes(f)
      BY <1>1 DEF LostTimes
    <3> QED BY <3>9, <3>10
  <2> QED BY <2>1, <1>1, <1>10, <1>11, CountAtDir DEF workerVars
<1> QED BY <1>16, <1>17 DEF IInv

\* A step at a worker, at one direction and at the ring between them.
LEMMA CountAtWorker ==
  ASSUME Safe, TypeInv', OneOwner, NEW d \in Dirs, NEW w \in Workers,
         \A e \in Dirs : e # d => Same(e),
         \A x \in Workers : x # w => job'[x] = job[x] /\ tail'[x] = tail[x],
         \A e \in Dirs : \A x \in Workers : <<e, x>> # <<d, w>> => mid'[e][x] = mid[e][x],
         lost' = lost,
         \A f \in Frames : Times(f, pool') + DirTimes(d, f)' + JobTimes(w, f)' + MidTimes(d, w, f)'
                           = Times(f, pool) + DirTimes(d, f) + JobTimes(w, f) + MidTimes(d, w, f)
  PROVE  OneOwner'
<1>1. TypeInv
  BY DEF Safe
<1>2. ASSUME NEW f \in Frames PROVE Owners(f)' = 1
  <2>1. Owners(f) = 1
    BY DEF OneOwner
  <2>2. \A e \in Dirs : e # d => DirTimes(e, f)' = DirTimes(e, f)
    BY SameDir
  <2>3. \A x \in Workers : x # w => JobTimes(x, f)' = JobTimes(x, f)
    BY DEF JobTimes
  <2>4. \A e \in Dirs : \A x \in Workers : <<e, x>> # <<d, w>> => MidTimes(e, x, f)' = MidTimes(e, x, f)
    BY DEF MidTimes
  <2> QED BY <1>1, <2>1, <2>2, <2>3, <2>4, MoveAtWorker
<1> QED BY <1>2 DEF OneOwner

\* The packet at the head of a queue and those behind it.
LEMMA HeadTail ==
  ASSUME NEW q \in Seq(SmallT), q # <<>>, NEW f
  PROVE  /\ Head(q) \in SmallT /\ Tail(q) \in Seq(SmallT) /\ Head(q).segs \in Seq(SegT)
         /\ Times(f, Segs(q)) = Times(f, Head(q).segs) + Times(f, Segs(Tail(q)))
         /\ Times(f, Head(q).segs) \in Nat /\ Times(f, Segs(Tail(q))) \in Nat
<1>1. Head(q) \in SmallT /\ Tail(q) \in Seq(SmallT)
  OBVIOUS
<1>2. q \in Seq(PktT) /\ Tail(q) \in Seq(PktT)
  BY <1>1, SmallSeq
<1>3. Segs(q) = Head(q).segs \o Segs(Tail(q))
  BY <1>2, SegsTail
<1>4. Head(q).segs \in Seq(SegT) /\ Segs(Tail(q)) \in Seq(SegT)
  BY <1>1, <1>2, SmallFields, SegsType
<1>5. Times(f, Segs(q)) = Times(f, Head(q).segs) + Times(f, Segs(Tail(q)))
  BY <1>3, <1>4, TimesConcat
<1> QED BY <1>1, <1>4, <1>5, TimesNat

\* The dispatch loop frees the packet.
FreesHead(d) ==
  /\ rxpc[d] = "dispatch" /\ batch[d] # <<>>
  /\ pool' = PoolPush(pool, Addrs(Head(batch[d]))) /\ batch' = [batch EXCEPT ![d] = Tail(@)]
  /\ UNCHANGED <<fq, rx, tx, cq, rxpc, rx_pending, rx_chain, rx_chain_invalid, rx_rejects,
                 taken, mid, out, workerVars, lost>>

LEMMA FreeHeadStep ==
  ASSUME IInv, NEW d \in Dirs, FreesHead(d)
  PROVE  IInv'
<1>0. Safe /\ OneOwner /\ TypeInv
  BY DEF IInv, Safe
<1> USE <1>0
<1> DEFINE p == Head(batch[d])
<1>1. /\ pool \in Seq(AddrT) /\ batch[d] \in Seq(SmallT) /\ RxTaken(d)
      /\ Chained(rx_chain[d], RxUnread(d)) /\ Ends(tx[d], MaxSegs) /\ \A i \in DOMAIN out[d] : Carries(out[d][i])
  BY DirTypes
<1>2. /\ p \in SmallT /\ p \in PktT /\ Tail(batch[d]) \in Seq(SmallT)
      /\ \A f : /\ Times(f, Segs(batch[d])) = Times(f, p.segs) + Times(f, Segs(Tail(batch[d])))
                /\ Times(f, p.segs) \in Nat /\ Times(f, Segs(Tail(batch[d]))) \in Nat
  BY <1>1, HeadTail DEF SmallT, FreesHead
<1> HIDE DEF p
<1>3. Addrs(p) \in Seq(AddrT) /\ \A f : Times(f, Addrs(p)) = Times(f, p.segs)
  BY <1>2, AddrsOf
<1>4. pool' = PoolPush(pool, Addrs(p)) /\ pool' \in Seq(AddrT)
  BY <1>1, <1>3, PushType DEF p, FreesHead
<1>5. \A f \in Frames : Times(f, pool) + Times(f, Addrs(p)) <= 1
  <2>1. TAKE f \in Frames
  <2>2. Times(f, pool) + LostTimes(f) + DirTimes(d, f) <= 1 /\ Times(f, pool) \in Nat
    BY PartOfOne
  <2>3. DirNats(d, f) /\ LostTimes(f) \in Nat
    BY DirTypes DEF LostTimes
  <2>4. /\ Times(f, Segs(batch[d])) = Times(f, p.segs) + Times(f, Segs(Tail(batch[d])))
        /\ Times(f, p.segs) \in Nat /\ Times(f, Segs(Tail(batch[d]))) \in Nat
        /\ Times(f, Addrs(p)) = Times(f, p.segs)
    BY <1>2, <1>3
  <2> QED BY <2>2, <2>3, <2>4 DEF DirTimes, DirNats
<1>6. \A f : Times(f, pool') = Times(f, pool) + Times(f, p.segs)
  BY <1>1, <1>3, <1>4, <1>5, PushFits
<1>7. batch'[d] = Tail(batch[d]) /\ \A e \in Dirs : e # d => batch'[e] = batch[e]
  BY DEF TypeInv, TypeRx, FreesHead
<1>8. \A e \in Dirs : e # d => Same(e)
  BY <1>7 DEF Same, FreesHead
<1>9. TypeInv'
  <2>1. TypeRings'
    BY <1>4 DEF TypeInv, TypeRings, FreesHead
  <2>2. TypeRx'
    BY <1>2 DEF TypeInv, TypeRx, FreesHead
  <2>3. TypePackets'
    BY DEF TypeInv, TypePackets, workerVars, FreesHead
  <2> QED BY <2>1, <2>2, <2>3 DEF TypeInv
<1>10. RxChained(d)' /\ RxTaken(d)'
  BY <1>1 DEF RxChained, RxTaken, RxUnread, FreesHead
<1>11. WorkerInv'
  BY WorkersKept DEF Safe, FreesHead
<1>12. Safe'
  BY <1>1, <1>8, <1>9, <1>10, <1>11, StepAtDir DEF FreesHead
<1>13. OneOwner'
  <2>1. ASSUME NEW f \in Frames
        PROVE  Times(f, pool') + LostTimes(f)' + DirTimes(d, f)' = Times(f, pool) + LostTimes(f) + DirTimes(d, f)
    <3>1. DirTimes(d, f)' = Times(f, fq[d]) + Times(f, RxUnread(d)) + Times(f, rx_chain[d].segs)
                            + Times(f, Segs(Tail(batch[d]))) + Times(f, Segs(out[d])) + Times(f, tx[d]) + Times(f, cq[d])
      BY <1>7 DEF DirTimes, RxUnread, FreesHead
    <3>2. DirNats(d, f) /\ Times(f, pool) \in Nat
      BY DirTypes
    <3>3. DirTimes(d, f)' + Times(f, p.segs) = DirTimes(d, f) /\ DirTimes(d, f)' \in Nat /\ DirTimes(d, f) \in Nat
      <4>1. /\ Times(f, Segs(batch[d])) = Times(f, p.segs) + Times(f, Segs(Tail(batch[d])))
            /\ Times(f, p.segs) \in Nat /\ Times(f, Segs(Tail(batch[d]))) \in Nat
        BY <1>2
      <4> QED BY <3>1, <3>2, <4>1 DEF DirTimes, DirNats
    <3>4. LostTimes(f)' = LostTimes(f) /\ LostTimes(f) \in Nat
      BY DEF LostTimes, FreesHead
    <3> QED BY <3>2, <3>3, <3>4, <1>2, <1>6
  <2> QED BY <2>1, <1>8, <1>9, CountAtDir DEF workerVars, FreesHead
<1> QED BY <1>12, <1>13 DEF IInv

LEMMA DispatchStep ==
  ASSUME IInv, NEW d \in Dirs, Dispatch(d)
  PROVE  IInv'
<1>0. Safe /\ OneOwner /\ TypeInv
  BY DEF IInv, Safe
<1> USE <1>0
<1>1. PICK w \in Workers :
       IF RingRoom(mid[d][w], 1)
       THEN mid' = [mid EXCEPT ![d][w] = Append(@, Head(batch[d]))] /\ UNCHANGED pool
       ELSE pool' = PoolPush(pool, Addrs(Head(batch[d]))) /\ UNCHANGED mid
  BY DEF Dispatch
<1>2. /\ rxpc[d] = "dispatch" /\ batch[d] # <<>> /\ batch' = [batch EXCEPT ![d] = Tail(@)]
      /\ UNCHANGED <<fq, rx, tx, cq, rxpc, rx_pending, rx_chain, rx_chain_invalid, rx_rejects,
                     taken, out, workerVars, lost>>
  BY DEF Dispatch
<1>3. CASE ~RingRoom(mid[d][w], 1)
  BY <1>1, <1>2, <1>3, FreeHeadStep DEF FreesHead
<1>4. CASE RingRoom(mid[d][w], 1)
  <2> DEFINE p == Head(batch[d])
  <2>1. /\ batch[d] \in Seq(SmallT) /\ RxTaken(d) /\ mid[d][w] \in Seq(SmallT)
        /\ Chained(rx_chain[d], RxUnread(d)) /\ Ends(tx[d], MaxSegs) /\ \A i \in DOMAIN out[d] : Carries(out[d][i])
    BY DirTypes
  <2>2. /\ p \in SmallT /\ p \in PktT /\ Tail(batch[d]) \in Seq(SmallT) /\ p.segs \in Seq(SegT)
        /\ \A f : /\ Times(f, Segs(batch[d])) = Times(f, p.segs) + Times(f, Segs(Tail(batch[d])))
                  /\ Times(f, p.segs) \in Nat /\ Times(f, Segs(Tail(batch[d]))) \in Nat
    BY <1>2, <2>1, HeadTail DEF SmallT
  <2>3. mid' = [mid EXCEPT ![d][w] = Append(mid[d][w], p)] /\ pool' = pool
    BY <1>1, <1>4
  <2> HIDE DEF p
  <2>4. Append(mid[d][w], p) \in Seq(SmallT)
    BY <2>1, <2>2
  <2>5. mid \in [Dirs -> [Workers -> Seq(SmallT)]]
    BY DEF TypeInv, TypePackets
  <2>6. /\ mid' \in [Dirs -> [Workers -> Seq(SmallT)]] /\ mid'[d][w] = Append(mid[d][w], p)
        /\ \A e \in Dirs : \A x \in Workers : <<e, x>> # <<d, w>> => mid'[e][x] = mid[e][x]
    BY <2>3, <2>4, <2>5
  <2>7. batch'[d] = Tail(batch[d]) /\ \A e \in Dirs : e # d => batch'[e] = batch[e]
    BY <1>2 DEF TypeInv, TypeRx
  <2>8. \A e \in Dirs : e # d => Same(e)
    BY <1>2, <2>7 DEF Same
  <2>9. TypeInv'
    <3>1. TypeRings'
      BY <1>2, <2>3 DEF TypeInv, TypeRings
    <3>2. TypeRx'
      BY <1>2, <2>2 DEF TypeInv, TypeRx
    <3>3. TypePackets'
      BY <1>2, <2>6 DEF TypeInv, TypePackets, workerVars
    <3> QED BY <3>1, <3>2, <3>3 DEF TypeInv
  <2>10. RxChained(d)' /\ RxTaken(d)'
    BY <1>2, <2>1 DEF RxChained, RxTaken, RxUnread
  <2>11. WorkerInv'
    BY <1>2, WorkersKept DEF Safe
  <2>12. Safe'
    BY <1>2, <2>1, <2>8, <2>9, <2>10, <2>11, StepAtDir
  <2>13. ASSUME NEW f \in Frames
         PROVE  Times(f, pool') + DirTimes(d, f)' + JobTimes(w, f)' + MidTimes(d, w, f)'
                = Times(f, pool) + DirTimes(d, f) + JobTimes(w, f) + MidTimes(d, w, f)
    <3>1. DirTimes(d, f)' = Times(f, fq[d]) + Times(f, RxUnread(d)) + Times(f, rx_chain[d].segs)
                            + Times(f, Segs(Tail(batch[d]))) + Times(f, Segs(out[d])) + Times(f, tx[d]) + Times(f, cq[d])
      BY <1>2, <2>7 DEF DirTimes, RxUnread
    <3>2. DirNats(d, f) /\ Times(f, pool) \in Nat
      BY DirTypes
    <3>3. DirTimes(d, f)' + Times(f, p.segs) = DirTimes(d, f) /\ DirTimes(d, f)' \in Nat /\ DirTimes(d, f) \in Nat
      <4>1. /\ Times(f, Segs(batch[d])) = Times(f, p.segs) + Times(f, Segs(Tail(batch[d])))
            /\ Times(f, p.segs) \in Nat /\ Times(f, Segs(Tail(batch[d]))) \in Nat
        BY <2>2
      <4> QED BY <3>1, <3>2, <4>1 DEF DirTimes, DirNats
    <3>4. MidTimes(d, w, f)' = MidTimes(d, w, f) + Times(f, p.segs)
      <4>1. mid[d][w] \in Seq(PktT)
        BY <2>1, SmallSeq
      <4>2. Segs(Append(mid[d][w], p)) = Segs(mid[d][w]) \o p.segs /\ Segs(mid[d][w]) \in Seq(SegT)
        BY <4>1, <2>2, SegsAppend, SegsType
      <4>3. Times(f, Segs(mid[d][w]) \o p.segs) = Times(f, Segs(mid[d][w])) + Times(f, p.segs)
        BY <4>2, <2>2, TimesConcat
      <4> QED BY <4>2, <4>3, <2>6 DEF MidTimes
    <3>5. MidTimes(d, w, f) \in Nat /\ JobTimes(w, f) \in Nat
      BY PartOfOne
    <3>6. JobTimes(w, f)' = JobTimes(w, f) /\ Times(f, pool') = Times(f, pool)
      BY <1>2, <2>3 DEF JobTimes, workerVars
    <3>7. Times(f, p.segs) \in Nat
      BY <2>2
    <3> HIDE DEF DirTimes
    <3>8. Times(f, pool) \in Nat
      BY <3>2
    <3> QED BY <3>3, <3>4, <3>5, <3>6, <3>7, <3>8, SMTT(30)
  <2>14. OneOwner'
    BY <2>6, <2>8, <2>9, <2>13, <1>2, CountAtWorker DEF workerVars
  <2> QED BY <2>12, <2>14 DEF IInv
<1> QED BY <1>3, <1>4

LEMMA UnmarkedStep ==
  ASSUME IInv, NEW d \in Dirs, DispatchUnmarked(d)
  PROVE  IInv'
BY FreeHeadStep DEF DispatchUnmarked, FreesHead

LEMMA ReleaseStep ==
  ASSUME IInv, NEW d \in Dirs, Release(d)
  PROVE  IInv'
<1>0. Safe /\ OneOwner /\ TypeInv
  BY DEF IInv, Safe
<1> USE <1>0
<1> DEFINE m == rx_pending[d]  v == SubSeq(rx[d], m + 1, Len(rx[d]))
<1>1. /\ rxpc[d] = "dispatch" /\ batch[d] = <<>> /\ rx' = [rx EXCEPT ![d] = v]
      /\ taken' = [taken EXCEPT ![d] = taken[d] - m] /\ rx_pending' = [rx_pending EXCEPT ![d] = 0]
      /\ pool' = PoolPush(pool, rx_rejects[d]) /\ rx_rejects' = [rx_rejects EXCEPT ![d] = <<>>]
      /\ rxpc' = [rxpc EXCEPT ![d] = "refill"]
      /\ UNCHANGED <<fq, tx, cq, batch, rx_chain, rx_chain_invalid, mid, out, workerVars, lost>>
  BY DEF Release
<1>2. /\ pool \in Seq(AddrT) /\ rx[d] \in Seq(RxDescT) /\ Len(rx[d]) \in Nat /\ RxTaken(d)
      /\ taken[d] \in 0 .. Len(rx[d]) /\ m \in Nat
      /\ Chained(rx_chain[d], RxUnread(d)) /\ Ends(tx[d], MaxSegs) /\ \A i \in DOMAIN out[d] : Carries(out[d][i])
  BY DirTypes
<1>3. taken[d] = m /\ taken[d] - m = 0 /\ m <= Len(rx[d])
  BY <1>1, <1>2 DEF RxTaken
<1>4. v \in Seq(RxDescT) /\ Len(v) \in Nat /\ RxUnread(d) = v
  <2>1. v \in Seq(RxDescT) /\ RxUnread(d) = v
    BY <1>2, <1>3, Part DEF RxUnread
  <2> QED BY <2>1
<1> HIDE DEF m, v
<1>5. pool' = pool
  <2>1. rx_rejects[d] = <<>>
    BY DEF TypeInv, TypeRx
  <2>2. PoolPush(pool, <<>>) = pool
    <3>1. \A j \in Int : j <= 0 => SubSeq(<<>>, 1, j) = <<>>
      BY SubSeqEmpty
    <3>2. NFrames - Len(pool) \in Int /\ Len(<<>>) = 0
      BY <1>2, Constants
    <3>3. Least(Len(<<>>), NFrames - Len(pool)) \in Int /\ Least(Len(<<>>), NFrames - Len(pool)) <= 0
      <4>1. Least(0, NFrames - Len(pool)) \in Int /\ Least(0, NFrames - Len(pool)) <= 0
        <5>1. \A x \in Int : Least(0, x) \in Int /\ Least(0, x) <= 0
          BY DEF Least
        <5> QED BY <3>2, <5>1
      <4> QED BY <3>2, <4>1
    <3>4. pool \o <<>> = pool
      BY <1>2
    <3> QED BY <3>1, <3>3, <3>4 DEF PoolPush
  <2> QED BY <1>1, <2>1, <2>2
<1>6. /\ rx'[d] = v /\ taken'[d] = 0 /\ rx_pending'[d] = 0 /\ rxpc'[d] = "refill"
      /\ \A e \in Dirs : e # d => /\ rx'[e] = rx[e] /\ taken'[e] = taken[e]
                                  /\ rx_pending'[e] = rx_pending[e] /\ rxpc'[e] = rxpc[e]
  BY <1>1, <1>3 DEF TypeInv, TypeRings, TypeRx
<1>7. \A e \in Dirs : e # d => Same(e)
  BY <1>1, <1>6 DEF Same
<1>8. TypeInv'
  <2>1. TypeRings'
    BY <1>1, <1>4, <1>5 DEF TypeInv, TypeRings
  <2>2. TypeRx'
    <3>1. taken' \in [Dirs -> Nat] /\ rx_pending' \in [Dirs -> Nat]
      BY <1>1, <1>3 DEF TypeInv, TypeRx
    <3>2. rx_rejects' = [e \in Dirs |-> <<>>]
      BY <1>1 DEF TypeInv, TypeRx
    <3>3. rxpc' \in [Dirs -> {"refill", "recv", "dispatch"}]
      BY <1>1 DEF TypeInv, TypeRx
    <3> QED BY <3>1, <3>2, <3>3, <1>1 DEF TypeInv, TypeRx
  <2>3. TypePackets'
    BY <1>1 DEF TypeInv, TypePackets, workerVars
  <2> QED BY <2>1, <2>2, <2>3 DEF TypeInv
<1>9. RxUnread(d)' = RxUnread(d)
  <2>1. SubSeq(v, 1, Len(v)) = v
    BY <1>4, SubSeqFull
  <2>2. RxUnread(d)' = SubSeq(v, 0 + 1, Len(v))
    BY <1>6 DEF RxUnread
  <2> QED BY <1>4, <2>1, <2>2
<1>10. RxChained(d)'
  BY <1>1, <1>2, <1>9 DEF RxChained
<1>11. RxTaken(d)'
  BY <1>1, <1>4, <1>6 DEF RxTaken
<1>12. WorkerInv'
  BY <1>1, WorkersKept DEF Safe
<1>13. Safe'
  BY <1>1, <1>2, <1>7, <1>8, <1>10, <1>11, <1>12, StepAtDir
<1>14. OneOwner'
  <2>1. ASSUME NEW f \in Frames
        PROVE  Times(f, pool') + LostTimes(f)' + DirTimes(d, f)' = Times(f, pool) + LostTimes(f) + DirTimes(d, f)
    <3>1. DirTimes(d, f)' = DirTimes(d, f)
      BY <1>1, <1>9 DEF DirTimes
    <3> QED BY <3>1, <1>1, <1>5 DEF LostTimes
  <2> QED BY <2>1, <1>1, <1>7, <1>8, CountAtDir DEF workerVars
<1> QED BY <1>13, <1>14 DEF IInv

-----------------------------------------------------------------------------
(* The crypto workers.                                                     *)

LEMMA OthersWork ==
  ASSUME WorkerInv, NEW w \in Workers, WorkerAt(w)',
         \A x \in Workers : x # w => /\ wpc'[x] = wpc[x] /\ plan'[x] = plan[x]
                                     /\ job'[x] = job[x] /\ tail'[x] = tail[x]
  PROVE  WorkerInv'
<1>1. ASSUME NEW x \in Workers, x # w PROVE WorkerAt(x)'
  BY <1>1 DEF WorkerInv, WorkerAt, Carries
<1> QED BY <1>1 DEF WorkerInv

LEMMA StepNoDir ==
  ASSUME Safe, TypeInv', WorkerInv', \A e \in Dirs : Same(e)
  PROVE  Safe'
<1>1. PICK d \in Dirs : TRUE
  BY UmemAssumption
<1>2. /\ RxChained(d)' /\ RxTaken(d)' /\ Ends(tx'[d], MaxSegs)
      /\ \A i \in DOMAIN out'[d] : Carries(out'[d][i])
  BY SameDir
<1> QED BY <1>2, StepAtDir

LEMMA WorkerTypes ==
  ASSUME Safe, NEW w \in Workers
  PROVE  /\ pool \in Seq(AddrT) /\ job[w] \in SmallT /\ tail[w] \in SmallT
         /\ job[w].segs \in Seq(SegT) /\ tail[w].segs \in Seq(SegT)
         /\ wpc[w] \in {"idle", "write_job", "write_tail", "push"} /\ wdir[w] \in Dirs
         /\ plan[w] \in Seq(Int) /\ WorkerAt(w)
         /\ \A f : /\ Times(f, pool) \in Nat
                   /\ Times(f, job[w].segs) \in Nat /\ Times(f, tail[w].segs) \in Nat
                   /\ JobTimes(w, f) = Times(f, job[w].segs) + Times(f, tail[w].segs)
<1>1. TypeInv /\ WorkerAt(w)
  BY DEF Safe, WorkerInv
<1>2. /\ pool \in Seq(AddrT) /\ job[w] \in SmallT /\ tail[w] \in SmallT
      /\ wpc[w] \in {"idle", "write_job", "write_tail", "push"} /\ wdir[w] \in Dirs /\ plan[w] \in Seq(Int)
  BY <1>1 DEF TypeInv, TypeRings, TypePackets
<1>3. job[w].segs \in Seq(SegT) /\ tail[w].segs \in Seq(SegT)
  BY <1>2, SmallFields
<1> QED BY <1>1, <1>2, <1>3, TimesNat DEF JobTimes

\* A worker gives back all its frames.
FreesJob(w) ==
  /\ pool' = PoolPush(pool, Addrs(tail[w]) \o Addrs(job[w]))
  /\ job' = [job EXCEPT ![w] = NoPacket] /\ tail' = [tail EXCEPT ![w] = NoPacket]
  /\ wpc' = [wpc EXCEPT ![w] = "idle"]
  /\ UNCHANGED <<fq, rx, tx, cq, rxVars, mid, out, wdir, plan, lost>>

LEMMA FreeJobStep ==
  ASSUME IInv, NEW w \in Workers, FreesJob(w)
  PROVE  IInv'
<1>0. Safe /\ OneOwner /\ TypeInv
  BY DEF IInv, Safe
<1> USE <1>0
<1> DEFINE a == Addrs(tail[w]) \o Addrs(job[w])
<1>1. /\ pool \in Seq(AddrT) /\ job[w] \in SmallT /\ tail[w] \in SmallT /\ wdir[w] \in Dirs
      /\ \A f : /\ Times(f, pool) \in Nat
                /\ Times(f, job[w].segs) \in Nat /\ Times(f, tail[w].segs) \in Nat
                /\ JobTimes(w, f) = Times(f, job[w].segs) + Times(f, tail[w].segs)
  BY WorkerTypes
<1>2. /\ Addrs(job[w]) \in Seq(AddrT) /\ Addrs(tail[w]) \in Seq(AddrT)
      /\ \A f : Times(f, Addrs(job[w])) = Times(f, job[w].segs) /\ Times(f, Addrs(tail[w])) = Times(f, tail[w].segs)
  BY <1>1, AddrsOf DEF SmallT
<1>3. a \in Seq(AddrT) /\ \A f : Times(f, a) = JobTimes(w, f)
  <2>1. a \in Seq(AddrT)
    BY <1>2, Concat
  <2>2. ASSUME NEW f PROVE Times(f, a) = JobTimes(w, f)
    <3>1. Times(f, a) = Times(f, Addrs(tail[w])) + Times(f, Addrs(job[w]))
      BY <1>2, TimesConcat
    <3>2. Times(f, Addrs(job[w])) = Times(f, job[w].segs) /\ Times(f, Addrs(tail[w])) = Times(f, tail[w].segs)
      BY <1>2
    <3>3. /\ Times(f, job[w].segs) \in Nat /\ Times(f, tail[w].segs) \in Nat
          /\ JobTimes(w, f) = Times(f, job[w].segs) + Times(f, tail[w].segs)
      BY <1>1
    <3> HIDE DEF a
    <3> QED BY <3>1, <3>2, <3>3
  <2> QED BY <2>1, <2>2
<1>4. pool' = PoolPush(pool, a)
  BY DEF FreesJob
<1> HIDE DEF a
<1>5. pool' \in Seq(AddrT)
  BY <1>1, <1>3, <1>4, PushType
<1>6. \A f \in Frames : Times(f, pool) + Times(f, a) <= 1
  BY <1>3, PartOfOne
<1>7. \A f : Times(f, pool') = Times(f, pool) + JobTimes(w, f)
  BY <1>1, <1>3, <1>4, <1>6, PushFits
<1>8. /\ job'[w] = NoPacket /\ tail'[w] = NoPacket /\ wpc'[w] = "idle"
      /\ \A x \in Workers : x # w => wpc'[x] = wpc[x] /\ job'[x] = job[x] /\ tail'[x] = tail[x]
  BY DEF FreesJob, TypeInv, TypePackets
<1>9. \A e \in Dirs : Same(e)
  BY DEF Same, FreesJob, rxVars
<1>10. TypeInv'
  <2>1. TypeRings'
    BY <1>5 DEF TypeInv, TypeRings, FreesJob
  <2>2. TypeRx'
    BY DEF TypeInv, TypeRx, FreesJob, rxVars
  <2>3. TypePackets'
    BY NoPacketSmall DEF TypeInv, TypePackets, FreesJob
  <2> QED BY <2>1, <2>2, <2>3 DEF TypeInv
<1>11. WorkerInv'
  <2>1. WorkerAt(w)'
    BY <1>8 DEF WorkerAt
  <2>2. \A x \in Workers : plan'[x] = plan[x]
    BY DEF FreesJob
  <2> QED BY <2>1, <2>2, <1>8, OthersWork DEF Safe
<1>12. Safe'
  BY <1>9, <1>10, <1>11, StepNoDir
<1>13. OneOwner'
  <2>0. PICK d \in Dirs : TRUE
    BY UmemAssumption
  <2>1. ASSUME NEW f \in Frames
        PROVE  Times(f, pool') + DirTimes(d, f)' + JobTimes(w, f)' + MidTimes(d, w, f)'
               = Times(f, pool) + DirTimes(d, f) + JobTimes(w, f) + MidTimes(d, w, f)
    <3>1. JobTimes(w, f)' = 0
      <4>1. NoPacket.segs = <<>> /\ Times(f, <<>>) = 0
        BY NoPacketSmall, TimesEmpty
      <4>2. Times(f, job'[w].segs) = 0 /\ Times(f, tail'[w].segs) = 0
        BY <4>1, <1>8
      <4> QED BY <4>2 DEF JobTimes
    <3>2. DirTimes(d, f)' = DirTimes(d, f) /\ MidTimes(d, w, f)' = MidTimes(d, w, f)
      BY <1>1, <1>9, SameDir DEF FreesJob, MidTimes
    <3>3. /\ DirTimes(d, f) \in Nat /\ JobTimes(w, f) \in Nat /\ MidTimes(d, w, f) \in Nat /\ Times(f, pool) \in Nat
      BY <1>1, PartOfOne
    <3>4. Times(f, pool') = Times(f, pool) + JobTimes(w, f)
      BY <1>7
    <3> QED BY <3>1, <3>2, <3>3, <3>4
  <2> QED BY <2>1, <1>1, <1>8, <1>9, <1>10, CountAtWorker DEF FreesJob
<1> QED BY <1>12, <1>13 DEF IInv

LEMMA WriteFailStep ==
  ASSUME IInv, NEW w \in Workers, WriteFail(w)
  PROVE  IInv'
BY FreeJobStep DEF WriteFail, FreesJob

LEMMA PlansType ==
  ASSUME NEW d, NEW len \in Nat, NEW pl \in Plans(d, len), pl # <<>>
  PROVE  pl \in Seq(Int) /\ Len(pl) \in {1, 2}
<1>1. Overhead \in Nat /\ WireMax \in Nat /\ JoinLens \subseteq Nat
  BY Constants, UmemAssumption
<1>2. CASE d = "egress"
  <2>1. pl = <<len + Overhead>> \/ pl = <<WireMax, len + 3 * Overhead - WireMax>>
    BY <1>2 DEF Plans
  <2>2. len + Overhead \in Int /\ WireMax \in Int /\ len + 3 * Overhead - WireMax \in Int
    BY <1>1
  <2>3. \A a \in Int : <<a>> \in Seq(Int) /\ Len(<<a>>) = 1
    OBVIOUS
  <2>4. \A a \in Int, b \in Int : <<a, b>> \in Seq(Int) /\ Len(<<a, b>>) = 2
    OBVIOUS
  <2> QED BY <2>1, <2>2, <2>3, <2>4
<1>3. CASE d # "egress"
  <2>1. PICK l \in JoinLens \cup ({len - Overhead} \cap (Nat \ {0})) : pl = <<l>>
    BY <1>3 DEF Plans
  <2>2. l \in Int
    BY <1>1
  <2> QED BY <2>1, <2>2
<1> QED BY <1>2, <1>3

LEMMA TakeStep ==
  ASSUME IInv, NEW w \in Workers, Take(w)
  PROVE  IInv'
<1>0. Safe /\ OneOwner /\ TypeInv
  BY DEF IInv, Safe
<1> USE <1>0
<1>1. PICK d \in Dirs :
       /\ mid[d][w] # <<>>
       /\ mid' = [mid EXCEPT ![d][w] = Tail(@)]
       /\ wdir' = [wdir EXCEPT ![w] = d]
       /\ \E pl \in IF Linearizes(Head(mid[d][w])) THEN Plans(d, Head(mid[d][w]).len) ELSE {<<>>} :
                IF pl = <<>>
                THEN /\ pool' = PoolPush(pool, Addrs(Head(mid[d][w])))
                     /\ UNCHANGED <<wpc, job, plan>>
                ELSE /\ wpc' = [wpc EXCEPT ![w] = "write_job"]
                     /\ job' = [job EXCEPT ![w] = Head(mid[d][w])]
                     /\ plan' = [plan EXCEPT ![w] = pl]
                     /\ UNCHANGED pool
  BY DEF Take
<1>2. wpc[w] = "idle" /\ UNCHANGED <<fq, rx, tx, cq, rxVars, out, tail, lost>>
  BY DEF Take
<1> DEFINE p == Head(mid[d][w])  q == Tail(mid[d][w])
<1>3. PICK pl \in IF Linearizes(p) THEN Plans(d, p.len) ELSE {<<>>} :
                IF pl = <<>>
                THEN /\ pool' = PoolPush(pool, Addrs(p))
                     /\ UNCHANGED <<wpc, job, plan>>
                ELSE /\ wpc' = [wpc EXCEPT ![w] = "write_job"]
                     /\ job' = [job EXCEPT ![w] = p]
                     /\ plan' = [plan EXCEPT ![w] = pl]
                     /\ UNCHANGED pool
  BY <1>1
<1>4. mid' = [mid EXCEPT ![d][w] = q] /\ mid \in [Dirs -> [Workers -> Seq(SmallT)]] /\ mid[d][w] \in Seq(SmallT)
  BY <1>1 DEF TypeInv, TypePackets
<1>5. /\ p \in SmallT /\ p \in PktT /\ p.len \in Nat /\ q \in Seq(SmallT)
      /\ \A f : /\ Times(f, Segs(mid[d][w])) = Times(f, p.segs) + Times(f, Segs(q))
                /\ Times(f, p.segs) \in Nat /\ Times(f, Segs(q)) \in Nat
  BY <1>1, <1>4, HeadTail, SmallFields
<1> HIDE DEF p, q
<1>6. /\ mid' \in [Dirs -> [Workers -> Seq(SmallT)]] /\ mid'[d][w] = q
      /\ \A e \in Dirs : \A x \in Workers : <<e, x>> # <<d, w>> => mid'[e][x] = mid[e][x]
  BY <1>4, <1>5
<1>7. /\ pool \in Seq(AddrT) /\ job[w] = NoPacket /\ tail[w] = NoPacket
      /\ \A f : /\ Times(f, pool) \in Nat
                /\ Times(f, job[w].segs) \in Nat /\ Times(f, tail[w].segs) \in Nat
                /\ JobTimes(w, f) = Times(f, job[w].segs) + Times(f, tail[w].segs)
  BY <1>2, WorkerTypes DEF WorkerAt
<1>8. \A e \in Dirs : Same(e)
  BY <1>2 DEF Same, rxVars
<1>9. wdir' \in [Workers -> Dirs]
  BY <1>1 DEF TypeInv, TypePackets
<1>10. Addrs(p) \in Seq(AddrT) /\ \A f : Times(f, Addrs(p)) = Times(f, p.segs)
  BY <1>5, AddrsOf
<1>11. \A f : DirTimes(d, f)' = DirTimes(d, f)
  BY <1>8, SameDir
<1>12. TypeRx'
  BY <1>2 DEF TypeInv, TypeRx, rxVars
<1>13. \A f : MidTimes(d, w, f)' + Times(f, p.segs) = MidTimes(d, w, f) /\ MidTimes(d, w, f)' \in Nat
  <2>1. TAKE f
  <2>2. MidTimes(d, w, f)' = Times(f, Segs(q)) /\ MidTimes(d, w, f) = Times(f, Segs(mid[d][w]))
    BY <1>6 DEF MidTimes
  <2>3. /\ Times(f, Segs(mid[d][w])) = Times(f, p.segs) + Times(f, Segs(q))
        /\ Times(f, p.segs) \in Nat /\ Times(f, Segs(q)) \in Nat
    BY <1>5
  <2> QED BY <2>2, <2>3
<1>14. CASE pl = <<>>
  <2>1. pool' = PoolPush(pool, Addrs(p)) /\ wpc' = wpc /\ job' = job /\ plan' = plan
    BY <1>3, <1>14
  <2>2. pool' \in Seq(AddrT)
    BY <2>1, <1>7, <1>10, PushType
  <2>3. \A f \in Frames : Times(f, pool) + Times(f, Addrs(p)) <= 1
    <3>1. TAKE f \in Frames
    <3>2. Times(f, pool) + MidTimes(d, w, f) <= 1 /\ Times(f, pool) \in Nat /\ MidTimes(d, w, f) \in Nat
      BY PartOfOne
    <3>3. /\ MidTimes(d, w, f)' + Times(f, p.segs) = MidTimes(d, w, f) /\ MidTimes(d, w, f)' \in Nat
          /\ Times(f, Addrs(p)) = Times(f, p.segs) /\ Times(f, p.segs) \in Nat
      BY <1>5, <1>10, <1>13
    <3> QED BY <3>2, <3>3
  <2>4. \A f : Times(f, pool') = Times(f, pool) + Times(f, p.segs)
    BY <2>1, <2>3, <1>7, <1>10, PushFits
  <2>5. TypeInv'
    <3>1. TypeRings'
      BY <1>2, <2>2 DEF TypeInv, TypeRings
    <3>2. TypePackets'
      BY <1>2, <1>6, <1>9, <2>1 DEF TypeInv, TypePackets
    <3> QED BY <3>1, <3>2, <1>12 DEF TypeInv
  <2>6. WorkerInv'
    BY <1>2, <2>1 DEF Safe, WorkerInv, WorkerAt, Carries
  <2>7. Safe'
    BY <1>8, <2>5, <2>6, StepNoDir
  <2>8. ASSUME NEW f \in Frames
        PROVE  Times(f, pool') + DirTimes(d, f)' + JobTimes(w, f)' + MidTimes(d, w, f)'
               = Times(f, pool) + DirTimes(d, f) + JobTimes(w, f) + MidTimes(d, w, f)
    <3>1. JobTimes(w, f)' = JobTimes(w, f)
      BY <1>2, <2>1 DEF JobTimes
    <3>2. DirTimes(d, f) \in Nat /\ JobTimes(w, f) \in Nat /\ MidTimes(d, w, f) \in Nat /\ Times(f, pool) \in Nat
      BY PartOfOne
    <3>3. Times(f, pool') = Times(f, pool) + Times(f, p.segs) /\ Times(f, p.segs) \in Nat
      BY <2>4, <1>5
    <3>4. /\ MidTimes(d, w, f)' + Times(f, p.segs) = MidTimes(d, w, f) /\ MidTimes(d, w, f)' \in Nat
          /\ DirTimes(d, f)' = DirTimes(d, f)
      BY <1>11, <1>13
    <3> QED BY <3>1, <3>2, <3>3, <3>4
  <2>9. OneOwner'
    BY <2>1, <2>5, <2>8, <1>2, <1>6, <1>8, CountAtWorker
  <2> QED BY <2>7, <2>9 DEF IInv
<1>15. CASE pl # <<>>
  <2>1. /\ wpc' = [wpc EXCEPT ![w] = "write_job"] /\ job' = [job EXCEPT ![w] = p]
        /\ plan' = [plan EXCEPT ![w] = pl] /\ pool' = pool
    BY <1>3, <1>15
  <2>2. pl \in Seq(Int) /\ Len(pl) \in {1, 2}
    <3>1. pl \in Plans(d, p.len)
      BY <1>3, <1>15
    <3> QED BY <3>1, <1>5, <1>15, PlansType
  <2>3. /\ wpc'[w] = "write_job" /\ job'[w] = p /\ plan'[w] = pl /\ tail'[w] = NoPacket
        /\ \A x \in Workers : x # w => /\ wpc'[x] = wpc[x] /\ plan'[x] = plan[x]
                                       /\ job'[x] = job[x] /\ tail'[x] = tail[x]
    BY <2>1, <1>2, <1>7 DEF TypeInv, TypePackets
  <2>4. TypeInv'
    <3>1. TypeRings'
      BY <1>2, <2>1 DEF TypeInv, TypeRings
    <3>2. job' \in [Workers -> SmallT] /\ plan' \in [Workers -> Seq(Int)]
      BY <1>5, <2>1, <2>2 DEF TypeInv, TypePackets
    <3>3. wpc' \in [Workers -> {"idle", "write_job", "write_tail", "push"}]
      BY <2>1 DEF TypeInv, TypePackets
    <3>4. TypePackets'
      BY <3>2, <3>3, <1>2, <1>6, <1>9 DEF TypeInv, TypePackets
    <3> QED BY <3>1, <3>4, <1>12 DEF TypeInv
  <2>5. WorkerInv'
    <3>1. WorkerAt(w)'
      BY <2>2, <2>3 DEF WorkerAt
    <3> QED BY <3>1, <2>3, OthersWork DEF Safe
  <2>6. Safe'
    BY <1>8, <2>4, <2>5, StepNoDir
  <2>7. ASSUME NEW f \in Frames
        PROVE  Times(f, pool') + DirTimes(d, f)' + JobTimes(w, f)' + MidTimes(d, w, f)'
               = Times(f, pool) + DirTimes(d, f) + JobTimes(w, f) + MidTimes(d, w, f)
    <3>1. NoPacket.segs = <<>> /\ Times(f, <<>>) = 0
      BY NoPacketSmall, TimesEmpty
    <3>2. JobTimes(w, f) = 0
      BY <3>1, <1>7 DEF JobTimes
    <3>3. JobTimes(w, f)' = Times(f, p.segs) + 0
      BY <3>1, <2>3 DEF JobTimes
    <3>4. DirTimes(d, f) \in Nat /\ MidTimes(d, w, f) \in Nat /\ Times(f, pool) \in Nat
      BY PartOfOne
    <3>5. /\ MidTimes(d, w, f)' + Times(f, p.segs) = MidTimes(d, w, f) /\ MidTimes(d, w, f)' \in Nat
          /\ DirTimes(d, f)' = DirTimes(d, f) /\ Times(f, p.segs) \in Nat
      BY <1>5, <1>11, <1>13
    <3>6. Times(f, pool') = Times(f, pool)
      BY <2>1
    <3> QED BY <3>2, <3>3, <3>4, <3>5, <3>6
  <2>8. OneOwner'
    BY <2>3, <2>4, <2>7, <1>2, <1>6, <1>8, CountAtWorker
  <2> QED BY <2>6, <2>8 DEF IInv
<1> QED BY <1>14, <1>15

\* A worker moves frames between the pool and its own packets.
Writes(w) ==
  /\ pool' \in Seq(AddrT) /\ job' \in [Workers -> SmallT] /\ tail' \in [Workers -> SmallT]
  /\ wpc' \in [Workers -> {"idle", "write_job", "write_tail", "push"}]
  /\ \A x \in Workers : x # w => wpc'[x] = wpc[x] /\ job'[x] = job[x] /\ tail'[x] = tail[x]
  /\ UNCHANGED <<fq, rx, tx, cq, rxVars, mid, out, wdir, plan, lost>>
  /\ \A f \in Frames : Times(f, pool') + Times(f, job'[w].segs) + Times(f, tail'[w].segs)
                       = Times(f, pool) + Times(f, job[w].segs) + Times(f, tail[w].segs)

LEMMA WritesStep ==
  ASSUME IInv, NEW w \in Workers, Writes(w), WorkerAt(w)'
  PROVE  IInv'
<1>0. Safe /\ OneOwner /\ TypeInv
  BY DEF IInv, Safe
<1> USE <1>0
<1>1. \A e \in Dirs : Same(e)
  BY DEF Same, Writes, rxVars
<1>2. TypeInv'
  <2>1. TypeRings'
    BY DEF TypeInv, TypeRings, Writes
  <2>2. TypeRx'
    BY DEF TypeInv, TypeRx, Writes, rxVars
  <2>3. TypePackets'
    BY DEF TypeInv, TypePackets, Writes
  <2> QED BY <2>1, <2>2, <2>3 DEF TypeInv
<1>3. \A x \in Workers : x # w => /\ wpc'[x] = wpc[x] /\ plan'[x] = plan[x]
                                  /\ job'[x] = job[x] /\ tail'[x] = tail[x]
  BY DEF Writes
<1>4. WorkerInv'
  BY <1>3, OthersWork DEF Safe
<1>5. Safe'
  BY <1>1, <1>2, <1>4, StepNoDir
<1>6. OneOwner'
  <2>0. PICK d \in Dirs : TRUE
    BY UmemAssumption
  <2>1. ASSUME NEW f \in Frames
        PROVE  Times(f, pool') + DirTimes(d, f)' + JobTimes(w, f)' + MidTimes(d, w, f)'
               = Times(f, pool) + DirTimes(d, f) + JobTimes(w, f) + MidTimes(d, w, f)
    <3>1. JobTimes(w, f)' = Times(f, job'[w].segs) + Times(f, tail'[w].segs)
      BY DEF JobTimes
    <3>2. DirTimes(d, f)' = DirTimes(d, f) /\ MidTimes(d, w, f)' = MidTimes(d, w, f)
      BY <1>1, SameDir DEF Writes, MidTimes
    <3>3. DirTimes(d, f) \in Nat /\ MidTimes(d, w, f) \in Nat /\ Times(f, pool) \in Nat
      BY PartOfOne
    <3>4. /\ Times(f, job[w].segs) \in Nat /\ Times(f, tail[w].segs) \in Nat
          /\ JobTimes(w, f) = Times(f, job[w].segs) + Times(f, tail[w].segs)
      BY WorkerTypes
    <3>5. /\ Times(f, pool') \in Nat /\ Times(f, job'[w].segs) \in Nat /\ Times(f, tail'[w].segs) \in Nat
      BY <1>2, TypeCountsNext DEF Counted
    <3>6. Times(f, pool') + Times(f, job'[w].segs) + Times(f, tail'[w].segs)
          = Times(f, pool) + Times(f, job[w].segs) + Times(f, tail[w].segs)
      BY DEF Writes
    <3> QED BY <3>1, <3>2, <3>3, <3>4, <3>5, <3>6
  <2>2. lost' = lost /\ \A e \in Dirs : \A x \in Workers : <<e, x>> # <<d, w>> => mid'[e][x] = mid[e][x]
    BY DEF Writes
  <2> QED BY <2>1, <2>2, <1>1, <1>2, <1>3, CountAtWorker
<1> QED BY <1>5, <1>6 DEF IInv

LEMMA WriteAllocStep ==
  ASSUME IInv, NEW w \in Workers, WriteAlloc(w)
  PROVE  IInv'
<1>0. Safe /\ OneOwner /\ TypeInv
  BY DEF IInv, Safe
<1> USE <1>0
<1> DEFINE pop == PoolPop(pool, 1)
           addr == pop.got[1]
           seg == [f |-> addr.f, off |-> addr.off, len |-> 0, cap |-> FrameSize]
           More(p) == [len |-> p.len, segs |-> Append(p.segs, seg)]
<1>1. /\ wpc[w] \in {"write_job", "write_tail"} /\ Len(Target(w).segs) < MaxSegs /\ pool # <<>>
      /\ pool' = pop.left
      /\ UNCHANGED <<fq, rx, tx, cq, rxVars, mid, out, wpc, wdir, plan, lost>>
      /\ IF wpc[w] = "write_job"
         THEN job' = [job EXCEPT ![w].segs = Append(@, seg)] /\ UNCHANGED tail
         ELSE tail' = [tail EXCEPT ![w].segs = Append(@, seg)] /\ UNCHANGED job
  BY DEF WriteAlloc
<1>2. /\ pool \in Seq(AddrT) /\ job[w] \in SmallT /\ tail[w] \in SmallT /\ WorkerAt(w)
      /\ \A f : /\ Times(f, pool) \in Nat
                /\ Times(f, job[w].segs) \in Nat /\ Times(f, tail[w].segs) \in Nat
  BY WorkerTypes
<1>3. /\ pop.left \in Seq(AddrT) /\ pop.got = <<pool[1]>> /\ pool[1] \in AddrT
      /\ \A f : Times(f, pool) = Times(f, <<pool[1]>>) + Times(f, pop.left)
  <2>1. 1 \in Nat /\ 1 = 1 /\ pool # <<>>
    BY <1>1
  <2>2. ASSUME NEW f
        PROVE  /\ pop.left \in Seq(AddrT) /\ pop.got = <<pool[1]>> /\ pool[1] \in AddrT
               /\ Times(f, pool) = Times(f, pop.got) + Times(f, pop.left)
    BY <1>2, <2>1, PopParts
  <2> HIDE DEF pop
  <2> QED BY <2>2
<1> HIDE DEF pop
<1>4. addr = pool[1] /\ addr.f \in Frames /\ addr.off \in Nat
  BY <1>3 DEF AddrT
<1>5. FrameSize \in Nat \ {0} /\ MaxSegs \in Nat
  BY Constants
<1>6. seg \in SegT /\ seg.f = pool[1].f
  BY <1>4, <1>5 DEF SegT
<1> HIDE DEF addr, seg
<1>7. ASSUME NEW p \in SmallT, Len(p.segs) < MaxSegs
      PROVE  /\ More(p) \in SmallT /\ [p EXCEPT !.segs = Append(p.segs, seg)] = More(p)
             /\ \A f : Times(f, More(p).segs) + Times(f, pop.left) = Times(f, p.segs) + Times(f, pool)
                       /\ Times(f, More(p).segs) \in Nat /\ Times(f, pop.left) \in Nat
  <2>1. p \in PktT /\ p.len \in Nat /\ p.segs \in Seq(SegT) /\ Len(p.segs) \in Nat
    BY SmallFields
  <2>2. Append(p.segs, seg) \in Seq(SegT) /\ Len(Append(p.segs, seg)) = Len(p.segs) + 1
    BY <2>1, <1>6
  <2>3. Len(p.segs) + 1 <= MaxSegs
    BY <2>1, <1>5, <1>7
  <2>4. More(p) \in SmallT
    BY <2>1, <2>2, <2>3, SmallMake
  <2>5. [p EXCEPT !.segs = Append(p.segs, seg)] = More(p)
    BY <2>1, SMTT(30) DEF PktT
  <2>6. ASSUME NEW f
        PROVE  /\ Times(f, More(p).segs) + Times(f, pop.left) = Times(f, p.segs) + Times(f, pool)
               /\ Times(f, More(p).segs) \in Nat /\ Times(f, pop.left) \in Nat
    <3>1. Times(f, Append(p.segs, seg)) = Times(f, p.segs) + IF seg.f = f THEN 1 ELSE 0
      BY <2>1, <1>6, TimesAppend
    <3>2. Times(f, <<pool[1]>>) = IF pool[1].f = f THEN 1 ELSE 0
      BY TimesOne
    <3>3. Times(f, pool) = Times(f, <<pool[1]>>) + Times(f, pop.left)
      BY <1>3
    <3>4. Times(f, p.segs) \in Nat /\ Times(f, pop.left) \in Nat
      BY <2>1, <1>3, TimesNat
    <3>5. More(p).segs = Append(p.segs, seg)
      OBVIOUS
    <3>6. CASE seg.f = f
      BY <3>1, <3>2, <3>3, <3>4, <3>5, <3>6, <1>6, SMTT(30)
    <3>7. CASE seg.f # f
      BY <3>1, <3>2, <3>3, <3>4, <3>5, <3>7, <1>6
    <3> QED BY <3>6, <3>7
  <2> QED BY <2>4, <2>5, <2>6
<1>8. /\ wpc \in [Workers -> {"idle", "write_job", "write_tail", "push"}]
      /\ job \in [Workers -> SmallT] /\ tail \in [Workers -> SmallT]
  BY DEF TypeInv, TypePackets
<1>9. CASE wpc[w] = "write_job"
  <2>1. Len(job[w].segs) < MaxSegs
    BY <1>1, <1>9 DEF Target
  <2>2. /\ More(job[w]) \in SmallT /\ [job[w] EXCEPT !.segs = Append(job[w].segs, seg)] = More(job[w])
        /\ \A f : Times(f, More(job[w]).segs) + Times(f, pop.left) = Times(f, job[w].segs) + Times(f, pool)
                  /\ Times(f, More(job[w]).segs) \in Nat /\ Times(f, pop.left) \in Nat
    BY <2>1, <1>2, <1>7
  <2> HIDE DEF More
  <2>3. job' = [job EXCEPT ![w] = More(job[w])] /\ tail' = tail /\ wpc' = wpc /\ plan' = plan
    BY <1>1, <1>8, <1>9, <2>2
  <2>4. /\ job' \in [Workers -> SmallT] /\ job'[w] = More(job[w])
        /\ \A x \in Workers : x # w => job'[x] = job[x]
    BY <2>2, <2>3, <1>8
  <2>5. WorkerAt(w)'
    BY <2>3, <1>2, <1>9 DEF WorkerAt
  <2>6. ASSUME NEW f \in Frames
        PROVE  Times(f, pool') + Times(f, job'[w].segs) + Times(f, tail'[w].segs)
               = Times(f, pool) + Times(f, job[w].segs) + Times(f, tail[w].segs)
    <3>1. /\ Times(f, More(job[w]).segs) + Times(f, pop.left) = Times(f, job[w].segs) + Times(f, pool)
          /\ Times(f, More(job[w]).segs) \in Nat /\ Times(f, pop.left) \in Nat
      BY <2>2
    <3>2. Times(f, pool') = Times(f, pop.left) /\ Times(f, job'[w].segs) = Times(f, More(job[w]).segs) /\ tail'[w] = tail[w]
      BY <1>1, <2>3, <2>4
    <3>3. Times(f, pool) \in Nat /\ Times(f, job[w].segs) \in Nat /\ Times(f, tail[w].segs) \in Nat
      BY <1>2
    <3> QED BY <3>1, <3>2, <3>3
  <2>7. Writes(w)
    BY <1>1, <1>3, <1>8, <2>3, <2>4, <2>6 DEF Writes
  <2> QED BY <2>5, <2>7, WritesStep
<1>10. CASE wpc[w] = "write_tail"
  <2>1. Len(tail[w].segs) < MaxSegs
    BY <1>1, <1>10 DEF Target
  <2>2. /\ More(tail[w]) \in SmallT /\ [tail[w] EXCEPT !.segs = Append(tail[w].segs, seg)] = More(tail[w])
        /\ \A f : Times(f, More(tail[w]).segs) + Times(f, pop.left) = Times(f, tail[w].segs) + Times(f, pool)
                  /\ Times(f, More(tail[w]).segs) \in Nat /\ Times(f, pop.left) \in Nat
    BY <2>1, <1>2, <1>7
  <2> HIDE DEF More
  <2>3. tail' = [tail EXCEPT ![w] = More(tail[w])] /\ job' = job /\ wpc' = wpc /\ plan' = plan
    BY <1>1, <1>8, <1>10, <2>2
  <2>4. /\ tail' \in [Workers -> SmallT] /\ tail'[w] = More(tail[w])
        /\ \A x \in Workers : x # w => tail'[x] = tail[x]
    BY <2>2, <2>3, <1>8
  <2>5. WorkerAt(w)'
    BY <2>3, <1>2, <1>10 DEF WorkerAt, Carries
  <2>6. ASSUME NEW f \in Frames
        PROVE  Times(f, pool') + Times(f, job'[w].segs) + Times(f, tail'[w].segs)
               = Times(f, pool) + Times(f, job[w].segs) + Times(f, tail[w].segs)
    <3>1. /\ Times(f, More(tail[w]).segs) + Times(f, pop.left) = Times(f, tail[w].segs) + Times(f, pool)
          /\ Times(f, More(tail[w]).segs) \in Nat /\ Times(f, pop.left) \in Nat
      BY <2>2
    <3>2. Times(f, pool') = Times(f, pop.left) /\ Times(f, tail'[w].segs) = Times(f, More(tail[w]).segs) /\ job'[w] = job[w]
      BY <1>1, <2>3, <2>4
    <3>3. Times(f, pool) \in Nat /\ Times(f, job[w].segs) \in Nat /\ Times(f, tail[w].segs) \in Nat
      BY <1>2
    <3> QED BY <3>1, <3>2, <3>3
  <2>7. Writes(w)
    BY <1>1, <1>3, <1>8, <2>3, <2>4, <2>6 DEF Writes
  <2> QED BY <2>5, <2>7, WritesStep
<1> QED BY <1>1, <1>9, <1>10

LEMMA SumCapNat ==
  ASSUME NEW p \in SmallT
  PROVE  SumCap(p.segs) \in Nat
<1>1. p.segs \in Seq(SegT) /\ Len(p.segs) \in Nat
  BY SmallFields
<1>2. \A e \in SegT : e.cap \in Nat
  BY DEF SegT
<1>3. PICK g : Adds(g, Caps(p.segs), Len(p.segs)) /\ SumCap(p.segs) = g[Len(p.segs)]
  BY <1>1, <1>2, SumCapAdds
<1> QED BY <1>1, <1>3, AddsStart

\* The packet after the copy loop, and what goes back to the pool.
Kept(p, len) == [len |-> Filled(p, len).len, segs |-> Used(Filled(p, len))]
Spare(p, len) == [Filled(p, len) EXCEPT !.segs = Unused(Filled(p, len))]

LEMMA KeptSpare ==
  ASSUME NEW p \in SmallT, NEW len \in Nat \ {0}, SumCap(p.segs) >= len
  PROVE  /\ Kept(p, len) \in SmallT /\ Carries(Kept(p, len)) /\ Addrs(Spare(p, len)) \in Seq(AddrT)
         /\ \A f : /\ Times(f, p.segs) = Times(f, Kept(p, len).segs) + Times(f, Addrs(Spare(p, len)))
                   /\ Times(f, Kept(p, len).segs) \in Nat /\ Times(f, Addrs(Spare(p, len))) \in Nat
<1>1. ASSUME NEW f
      PROVE  /\ Kept(p, len) \in SmallT /\ Carries(Kept(p, len)) /\ Spare(p, len) \in PktT
             /\ Times(f, p.segs) = Times(f, Kept(p, len).segs) + Times(f, Spare(p, len).segs)
  BY FillKeeps DEF Kept, Spare
<1>2. ASSUME NEW f
      PROVE  /\ Addrs(Spare(p, len)) \in Seq(AddrT)
             /\ Times(f, Addrs(Spare(p, len))) = Times(f, Spare(p, len).segs)
  BY <1>1, AddrsOf
<1>3. Kept(p, len).segs \in Seq(SegT)
  BY <1>1, SmallFields
<1>4. ASSUME NEW f
      PROVE  Times(f, Kept(p, len).segs) \in Nat /\ Times(f, Addrs(Spare(p, len))) \in Nat
  BY <1>2, <1>3, TimesNat
<1> QED BY <1>1, <1>2, <1>4

LEMMA WriteFillStep ==
  ASSUME IInv, NEW w \in Workers, WriteFill(w)
  PROVE  IInv'
<1>0. Safe /\ OneOwner /\ TypeInv
  BY DEF IInv, Safe
<1> USE <1>0
<1> DEFINE p == Target(w)  len == TargetLen(w)
           k == Kept(p, len)  a == Addrs(Spare(p, len))
           pc == IF wpc[w] = "write_job" /\ Len(plan[w]) = 2 THEN "write_tail" ELSE "push"
<1>1. /\ wpc[w] \in {"write_job", "write_tail"} /\ Writable(w) /\ ~NeedsFrame(w)
      /\ IF wpc[w] = "write_job"
         THEN job' = [job EXCEPT ![w] = k] /\ UNCHANGED tail
         ELSE tail' = [tail EXCEPT ![w] = k] /\ UNCHANGED job
      /\ pool' = PoolPush(pool, a)
      /\ wpc' = [wpc EXCEPT ![w] = pc]
      /\ UNCHANGED <<fq, rx, tx, cq, rxVars, mid, out, wdir, plan, lost>>
  BY DEF WriteFill, Kept, Spare
<1>2. /\ pool \in Seq(AddrT) /\ job[w] \in SmallT /\ tail[w] \in SmallT /\ WorkerAt(w)
      /\ \A f : /\ Times(f, pool) \in Nat
                /\ Times(f, job[w].segs) \in Nat /\ Times(f, tail[w].segs) \in Nat
                /\ JobTimes(w, f) = Times(f, job[w].segs) + Times(f, tail[w].segs)
  BY WorkerTypes
<1>3. p \in SmallT
  BY <1>2 DEF Target
<1>4. len \in Nat \ {0} /\ SumCap(p.segs) >= len
  <2>1. len \in 1 .. JumboMax /\ JumboMax \in Nat
    BY <1>1, Constants DEF Writable
  <2>2. SumCap(p.segs) \in Nat
    BY <1>3, SumCapNat
  <2>3. ~(SumCap(p.segs) < len)
    BY <1>1 DEF NeedsFrame
  <2> HIDE DEF p, len
  <2> QED BY <2>1, <2>2, <2>3
<1>5. /\ k \in SmallT /\ Carries(k) /\ a \in Seq(AddrT)
      /\ \A f : /\ Times(f, p.segs) = Times(f, k.segs) + Times(f, a)
                /\ Times(f, k.segs) \in Nat /\ Times(f, a) \in Nat
  <2> HIDE DEF p, len
  <2> QED BY <1>3, <1>4, KeptSpare
<1> HIDE DEF k, a, len
<1>6. \A f : Times(f, p.segs) <= JobTimes(w, f) /\ Times(f, p.segs) \in Nat
  BY <1>2 DEF Target
<1>7. \A f \in Frames : Times(f, pool) + Times(f, a) <= 1
  <2>1. TAKE f \in Frames
  <2>2. Times(f, pool) + JobTimes(w, f) <= 1 /\ JobTimes(w, f) \in Nat /\ Times(f, pool) \in Nat
    BY PartOfOne
  <2>3. Times(f, p.segs) <= JobTimes(w, f) /\ Times(f, p.segs) \in Nat
    BY <1>6
  <2>4. Times(f, p.segs) = Times(f, k.segs) + Times(f, a) /\ Times(f, k.segs) \in Nat /\ Times(f, a) \in Nat
    BY <1>5
  <2> QED BY <2>2, <2>3, <2>4
<1>8. pool' \in Seq(AddrT) /\ \A f : Times(f, pool') = Times(f, pool) + Times(f, a)
  BY <1>1, <1>2, <1>5, <1>7, PushType, PushFits
<1>9. /\ wpc \in [Workers -> {"idle", "write_job", "write_tail", "push"}]
      /\ job \in [Workers -> SmallT] /\ tail \in [Workers -> SmallT]
  BY DEF TypeInv, TypePackets
<1>10. /\ wpc' \in [Workers -> {"idle", "write_job", "write_tail", "push"}] /\ wpc'[w] = pc
       /\ \A x \in Workers : x # w => wpc'[x] = wpc[x]
  BY <1>1, <1>9
<1>11. CASE wpc[w] = "write_job"
  <2>1. job' = [job EXCEPT ![w] = k] /\ tail' = tail /\ plan' = plan /\ p = job[w]
    BY <1>1, <1>11 DEF Target
  <2>2. /\ job' \in [Workers -> SmallT] /\ job'[w] = k
        /\ \A x \in Workers : x # w => job'[x] = job[x]
    BY <2>1, <1>5, <1>9
  <2>3. tail[w] = NoPacket /\ Len(plan[w]) \in {1, 2}
    BY <1>2, <1>11 DEF WorkerAt
  <2>4. WorkerAt(w)'
    <3>1. CASE Len(plan[w]) = 2
      <4>1. wpc'[w] = "write_tail"
        BY <3>1, <1>10, <1>11
      <4> QED BY <4>1, <3>1, <2>1, <2>2, <2>3, <1>5 DEF WorkerAt, Carries
    <3>2. CASE Len(plan[w]) # 2
      <4>1. wpc'[w] = "push"
        BY <3>2, <1>10, <1>11
      <4> QED BY <4>1, <3>2, <2>1, <2>2, <2>3, <1>5 DEF WorkerAt, Carries
    <3> QED BY <3>1, <3>2
  <2>5. ASSUME NEW f \in Frames
        PROVE  Times(f, pool') + Times(f, job'[w].segs) + Times(f, tail'[w].segs)
               = Times(f, pool) + Times(f, job[w].segs) + Times(f, tail[w].segs)
    <3>1. Times(f, job[w].segs) = Times(f, k.segs) + Times(f, a) /\ Times(f, k.segs) \in Nat /\ Times(f, a) \in Nat
      BY <1>5, <2>1
    <3>2. Times(f, pool') = Times(f, pool) + Times(f, a) /\ job'[w] = k /\ tail'[w] = tail[w]
      BY <1>8, <2>1, <2>2
    <3>3. Times(f, pool) \in Nat /\ Times(f, job[w].segs) \in Nat /\ Times(f, tail[w].segs) \in Nat
      BY <1>2
    <3> QED BY <3>1, <3>2, <3>3
  <2>6. Writes(w)
    BY <1>1, <1>8, <1>9, <1>10, <2>1, <2>2, <2>5 DEF Writes
  <2> QED BY <2>4, <2>6, WritesStep
<1>12. CASE wpc[w] = "write_tail"
  <2>1. tail' = [tail EXCEPT ![w] = k] /\ job' = job /\ plan' = plan /\ p = tail[w]
    BY <1>1, <1>12 DEF Target
  <2>2. /\ tail' \in [Workers -> SmallT] /\ tail'[w] = k
        /\ \A x \in Workers : x # w => tail'[x] = tail[x]
    BY <2>1, <1>5, <1>9
  <2>3. Carries(job[w]) /\ Len(plan[w]) = 2
    BY <1>2, <1>12 DEF WorkerAt
  <2>4. WorkerAt(w)'
    <3>1. wpc'[w] = "push"
      BY <1>10, <1>12
    <3> QED BY <3>1, <2>1, <2>2, <2>3, <1>5 DEF WorkerAt, Carries
  <2>5. ASSUME NEW f \in Frames
        PROVE  Times(f, pool') + Times(f, job'[w].segs) + Times(f, tail'[w].segs)
               = Times(f, pool) + Times(f, job[w].segs) + Times(f, tail[w].segs)
    <3>1. Times(f, tail[w].segs) = Times(f, k.segs) + Times(f, a) /\ Times(f, k.segs) \in Nat /\ Times(f, a) \in Nat
      BY <1>5, <2>1
    <3>2. Times(f, pool') = Times(f, pool) + Times(f, a) /\ tail'[w] = k /\ job'[w] = job[w]
      BY <1>8, <2>1, <2>2
    <3>3. Times(f, pool) \in Nat /\ Times(f, job[w].segs) \in Nat /\ Times(f, tail[w].segs) \in Nat
      BY <1>2
    <3> QED BY <3>1, <3>2, <3>3
  <2>6. Writes(w)
    BY <1>1, <1>8, <1>9, <1>10, <2>1, <2>2, <2>5 DEF Writes
  <2> QED BY <2>4, <2>6, WritesStep
<1> QED BY <1>1, <1>11, <1>12

\* A software ring takes one written packet more.
LEMMA RingTakes ==
  ASSUME NEW q \in Seq(SmallT), \A i \in DOMAIN q : Carries(q[i]), NEW p \in SmallT, Carries(p)
  PROVE  /\ q \o <<p>> \in Seq(SmallT) /\ \A i \in DOMAIN (q \o <<p>>) : Carries((q \o <<p>>)[i])
         /\ \A f : /\ Times(f, Segs(q \o <<p>>)) = Times(f, Segs(q)) + Times(f, p.segs)
                   /\ Times(f, Segs(q)) \in Nat /\ Times(f, p.segs) \in Nat
<1>1. /\ q \o <<p>> = Append(q, p) /\ Append(q, p) \in Seq(SmallT) /\ Len(q) \in Nat
      /\ DOMAIN Append(q, p) = 1 .. Len(q) + 1 /\ DOMAIN q = 1 .. Len(q)
  OBVIOUS
<1>2. \A i \in 1 .. Len(q) + 1 : Append(q, p)[i] = IF i = Len(q) + 1 THEN p ELSE q[i]
  BY <1>1
<1>3. ASSUME NEW i \in 1 .. Len(q) + 1 PROVE Carries(Append(q, p)[i])
  <2>1. CASE i = Len(q) + 1
    BY <2>1, <1>1, <1>2
  <2>2. CASE i # Len(q) + 1
    <3>1. i \in DOMAIN q /\ Append(q, p)[i] = q[i]
      BY <2>2, <1>1, <1>2
    <3> QED BY <3>1
  <2> QED BY <2>1, <2>2
<1>4. q \in Seq(PktT) /\ p \in PktT /\ p.segs \in Seq(SegT)
  BY SmallSeq, SmallFields
<1>5. Segs(Append(q, p)) = Segs(q) \o p.segs /\ Segs(q) \in Seq(SegT)
  BY <1>4, SegsAppend, SegsType
<1>6. ASSUME NEW f
      PROVE  /\ Times(f, Segs(Append(q, p))) = Times(f, Segs(q)) + Times(f, p.segs)
             /\ Times(f, Segs(q)) \in Nat /\ Times(f, p.segs) \in Nat
  <2>1. Times(f, Segs(q) \o p.segs) = Times(f, Segs(q)) + Times(f, p.segs)
    BY <1>4, <1>5, TimesConcat
  <2>2. Times(f, Segs(q)) \in Nat /\ Times(f, p.segs) \in Nat
    BY <1>4, <1>5, TimesNat
  <2> QED BY <1>5, <2>1, <2>2
<1> QED BY <1>1, <1>3, <1>6

LEMMA PushOutStep ==
  ASSUME IInv, NEW w \in Workers, PushOut(w)
  PROVE  IInv'
<1>0. Safe /\ OneOwner /\ TypeInv
  BY DEF IInv, Safe
<1> USE <1>0
<1>1. /\ pool \in Seq(AddrT) /\ job[w] \in SmallT /\ tail[w] \in SmallT /\ WorkerAt(w) /\ wdir[w] \in Dirs
      /\ \A f : /\ Times(f, pool) \in Nat
                /\ Times(f, job[w].segs) \in Nat /\ Times(f, tail[w].segs) \in Nat
                /\ JobTimes(w, f) = Times(f, job[w].segs) + Times(f, tail[w].segs)
  BY WorkerTypes
<1>2. PICK d \in Dirs : d = wdir[w]
  BY <1>1
<1> DEFINE pkts == IF Len(plan[w]) = 2 THEN <<job[w], tail[w]>> ELSE <<job[w]>>
           twice == IF d = "ingress" THEN Addrs(Cleared(job[w])) ELSE <<>>
<1>3. /\ wpc[w] = "push" /\ job' = [job EXCEPT ![w] = NoPacket] /\ tail' = [tail EXCEPT ![w] = NoPacket]
      /\ wpc' = [wpc EXCEPT ![w] = "idle"]
      /\ UNCHANGED <<fq, rx, tx, cq, rxVars, mid, wdir, plan, lost>>
      /\ IF RingRoom(out[d], Len(pkts))
         THEN out' = [out EXCEPT ![d] = @ \o pkts] /\ UNCHANGED pool
         ELSE pool' = PoolPush(pool, Addrs(tail[w]) \o Addrs(job[w]) \o twice) /\ UNCHANGED out
  BY <1>2 DEF PushOut
<1>4. CASE ~RingRoom(out[d], Len(pkts))
  <2>1. twice = <<>>
    BY NoPacketSmall DEF Cleared
  <2>2. Addrs(job[w]) \in Seq(AddrT) /\ Addrs(tail[w]) \in Seq(AddrT)
    BY <1>1, AddrsOf DEF SmallT
  <2>3. Addrs(tail[w]) \o Addrs(job[w]) \o <<>> = Addrs(tail[w]) \o Addrs(job[w])
    <3>1. Addrs(tail[w]) \o Addrs(job[w]) \in Seq(AddrT)
      BY <2>2, Concat
    <3>2. \A s \in Seq(AddrT) : s \o <<>> = s
      OBVIOUS
    <3> QED BY <3>1, <3>2
  <2> HIDE DEF twice, pkts
  <2>4. FreesJob(w)
    BY <1>3, <1>4, <2>1, <2>3 DEF FreesJob
  <2> QED BY <2>4, FreeJobStep
<1>5. CASE RingRoom(out[d], Len(pkts))
  <2>1. out' = [out EXCEPT ![d] = out[d] \o pkts] /\ pool' = pool
    BY <1>3, <1>5
  <2>2. Carries(job[w]) /\ IF Len(plan[w]) = 2 THEN Carries(tail[w]) ELSE tail[w] = NoPacket
    BY <1>1, <1>3 DEF WorkerAt
  <2>3. out[d] \in Seq(SmallT) /\ \A i \in DOMAIN out[d] : Carries(out[d][i])
    BY DirTypes
  <2> DEFINE q == out[d]  q1 == q \o <<job[w]>>
  <2>4. /\ q1 \in Seq(SmallT) /\ \A i \in DOMAIN q1 : Carries(q1[i])
        /\ \A f : Times(f, Segs(q1)) = Times(f, Segs(q)) + Times(f, job[w].segs) /\ Times(f, Segs(q)) \in Nat
    BY <1>1, <2>2, <2>3, RingTakes
  <2>5. /\ q \o pkts \in Seq(SmallT) /\ \A i \in DOMAIN (q \o pkts) : Carries((q \o pkts)[i])
        /\ \A f : Times(f, Segs(q \o pkts)) = Times(f, Segs(q)) + Times(f, job[w].segs) + Times(f, tail[w].segs)
    <3>1. CASE Len(plan[w]) = 2
      <4>1. q \o <<job[w], tail[w]>> = q1 \o <<tail[w]>>
        BY <1>1, <2>3
      <4>2. q \o pkts = q1 \o <<tail[w]>>
        BY <3>1, <4>1
      <4> HIDE DEF q1, q, pkts
      <4>3. Carries(tail[w])
        BY <2>2, <3>1
      <4>4. /\ q1 \o <<tail[w]>> \in Seq(SmallT) /\ \A i \in DOMAIN (q1 \o <<tail[w]>>) : Carries((q1 \o <<tail[w]>>)[i])
            /\ \A f : Times(f, Segs(q1 \o <<tail[w]>>)) = Times(f, Segs(q1)) + Times(f, tail[w].segs)
        BY <1>1, <2>4, <4>3, RingTakes
      <4> QED BY <2>4, <4>2, <4>4
    <3>2. CASE Len(plan[w]) # 2
      <4>1. q \o pkts = q1 /\ tail[w] = NoPacket
        BY <2>2, <3>2
      <4> HIDE DEF q1, q, pkts
      <4>2. \A f : Times(f, tail[w].segs) = 0
        BY <4>1, NoPacketSmall, TimesEmpty
      <4>3. ASSUME NEW f
            PROVE  Times(f, Segs(q1)) = Times(f, Segs(q)) + Times(f, job[w].segs) + Times(f, tail[w].segs)
        <5>1. Times(f, Segs(q1)) = Times(f, Segs(q)) + Times(f, job[w].segs) /\ Times(f, Segs(q)) \in Nat
          BY <2>4
        <5>2. Times(f, tail[w].segs) = 0 /\ Times(f, job[w].segs) \in Nat
          BY <4>2, <1>1
        <5> QED BY <5>1, <5>2
      <4> QED BY <2>4, <4>1, <4>3
    <3> QED BY <3>1, <3>2
  <2> DEFINE o == q \o pkts
  <2>6. /\ out' = [out EXCEPT ![d] = o] /\ o \in Seq(SmallT) /\ \A i \in DOMAIN o : Carries(o[i])
        /\ \A f : Times(f, Segs(o)) = Times(f, Segs(out[d])) + Times(f, job[w].segs) + Times(f, tail[w].segs)
    BY <2>1, <2>5
  <2> HIDE DEF o, q, q1, pkts, twice
  <2>7. /\ out' \in [Dirs -> Seq(SmallT)] /\ out'[d] = o /\ \A e \in Dirs : e # d => out'[e] = out[e]
    BY <2>6 DEF TypeInv, TypePackets
  <2>8. /\ job'[w] = NoPacket /\ tail'[w] = NoPacket /\ wpc'[w] = "idle"
        /\ \A x \in Workers : x # w => wpc'[x] = wpc[x] /\ job'[x] = job[x] /\ tail'[x] = tail[x]
    BY <1>3 DEF TypeInv, TypePackets
  <2>9. \A e \in Dirs : e # d => Same(e)
    BY <1>3, <2>7 DEF Same, rxVars
  <2>10. TypeInv'
    <3>1. TypeRings'
      BY <1>3, <2>1 DEF TypeInv, TypeRings
    <3>2. TypeRx'
      BY <1>3 DEF TypeInv, TypeRx, rxVars
    <3>3. TypePackets'
      BY <1>3, <2>7, NoPacketSmall DEF TypeInv, TypePackets
    <3> QED BY <3>1, <3>2, <3>3 DEF TypeInv
  <2>11. WorkerInv'
    <3>1. WorkerAt(w)'
      BY <2>8 DEF WorkerAt
    <3>2. \A x \in Workers : plan'[x] = plan[x]
      BY <1>3
    <3> QED BY <3>1, <3>2, <2>8, OthersWork DEF Safe
  <2>12. RxChained(d)' /\ RxTaken(d)' /\ Ends(tx'[d], MaxSegs)
    BY <1>3, DirTypes DEF RxChained, RxTaken, RxUnread, rxVars
  <2>13. Safe'
    BY <2>6, <2>7, <2>9, <2>10, <2>11, <2>12, StepAtDir
  <2>14. ASSUME NEW f \in Frames
         PROVE  Times(f, pool') + DirTimes(d, f)' + JobTimes(w, f)' + MidTimes(d, w, f)'
                = Times(f, pool) + DirTimes(d, f) + JobTimes(w, f) + MidTimes(d, w, f)
    <3>1. DirTimes(d, f)' = Times(f, fq[d]) + Times(f, RxUnread(d)) + Times(f, rx_chain[d].segs)
                            + Times(f, Segs(batch[d])) + Times(f, Segs(o)) + Times(f, tx[d]) + Times(f, cq[d])
      BY <1>3, <2>7 DEF DirTimes, RxUnread, rxVars
    <3>2. DirNats(d, f)
      BY DirTypes
    <3>3. /\ Times(f, Segs(o)) = Times(f, Segs(out[d])) + Times(f, job[w].segs) + Times(f, tail[w].segs)
          /\ Times(f, pool) \in Nat /\ Times(f, job[w].segs) \in Nat /\ Times(f, tail[w].segs) \in Nat
          /\ JobTimes(w, f) = Times(f, job[w].segs) + Times(f, tail[w].segs)
      BY <2>6, <1>1
    <3>4. /\ DirTimes(d, f)' = DirTimes(d, f) + JobTimes(w, f)
          /\ DirTimes(d, f) \in Nat /\ JobTimes(w, f) \in Nat
      BY <3>1, <3>2, <3>3 DEF DirTimes, DirNats
    <3>5. JobTimes(w, f)' = 0
      <4>1. NoPacket.segs = <<>> /\ Times(f, <<>>) = 0
        BY NoPacketSmall, TimesEmpty
      <4>2. Times(f, job'[w].segs) = 0 /\ Times(f, tail'[w].segs) = 0
        BY <4>1, <2>8
      <4> QED BY <4>2 DEF JobTimes
    <3>6. MidTimes(d, w, f)' = MidTimes(d, w, f) /\ MidTimes(d, w, f) \in Nat /\ Times(f, pool') = Times(f, pool)
      BY <1>3, <2>1, PartOfOne DEF MidTimes
    <3> QED BY <3>3, <3>4, <3>5, <3>6
  <2>15. lost' = lost /\ \A e \in Dirs : \A x \in Workers : <<e, x>> # <<d, w>> => mid'[e][x] = mid[e][x]
    BY <1>3
  <2>16. OneOwner'
    BY <2>8, <2>9, <2>10, <2>14, <2>15, CountAtWorker
  <2> QED BY <2>13, <2>16 DEF IInv
<1> QED BY <1>4, <1>5

-----------------------------------------------------------------------------
(* The TX thread.                                                          *)

LEMMA DrainCqStep ==
  ASSUME IInv, NEW d \in Dirs, DrainCq(d)
  PROVE  IInv'
<1>0. Safe /\ OneOwner /\ TypeInv
  BY DEF IInv, Safe
<1> USE <1>0
<1>1. /\ pool' = PoolPush(pool, cq[d]) /\ cq' = [cq EXCEPT ![d] = <<>>]
      /\ UNCHANGED <<fq, rx, tx, rxVars, mid, out, workerVars, lost>>
  BY DEF DrainCq
<1>2. /\ pool \in Seq(AddrT) /\ cq[d] \in Seq(AddrT) /\ Ends(tx[d], MaxSegs)
      /\ Chained(rx_chain[d], RxUnread(d)) /\ RxTaken(d) /\ \A i \in DOMAIN out[d] : Carries(out[d][i])
  BY DirTypes
<1>3. \A f \in Frames : Times(f, pool) + Times(f, cq[d]) <= 1
  <2>1. TAKE f \in Frames
  <2>2. Times(f, pool) + LostTimes(f) + DirTimes(d, f) <= 1 /\ Times(f, pool) \in Nat
    BY PartOfOne
  <2>3. LostTimes(f) \in Nat
    BY DEF LostTimes
  <2>4. DirNats(d, f)
    BY DirTypes
  <2> QED BY <2>2, <2>3, <2>4 DEF DirTimes, DirNats
<1>4. pool' \in Seq(AddrT) /\ \A f : Times(f, pool') = Times(f, pool) + Times(f, cq[d])
  BY <1>1, <1>2, <1>3, PushType, PushFits
<1>5. cq' \in [Dirs -> Seq(AddrT)] /\ cq'[d] = <<>> /\ \A e \in Dirs : e # d => cq'[e] = cq[e]
  <2>1. <<>> \in Seq(AddrT)
    OBVIOUS
  <2> QED BY <1>1, <2>1 DEF TypeInv, TypeRings
<1>6. \A e \in Dirs : e # d => Same(e)
  BY <1>1, <1>5 DEF Same, rxVars
<1>7. TypeInv'
  <2>1. TypeRings'
    BY <1>1, <1>4, <1>5 DEF TypeInv, TypeRings
  <2>2. TypeRx'
    BY <1>1 DEF TypeInv, TypeRx, rxVars
  <2>3. TypePackets'
    BY <1>1 DEF TypeInv, TypePackets, workerVars
  <2> QED BY <2>1, <2>2, <2>3 DEF TypeInv
<1>8. RxChained(d)' /\ RxTaken(d)'
  BY <1>1, <1>2 DEF RxChained, RxTaken, RxUnread, rxVars
<1>9. WorkerInv'
  BY <1>1, WorkersKept DEF Safe
<1>10. Safe'
  BY <1>1, <1>2, <1>6, <1>7, <1>8, <1>9, StepAtDir
<1>11. OneOwner'
  <2>1. ASSUME NEW f \in Frames
        PROVE  Times(f, pool') + LostTimes(f)' + DirTimes(d, f)' = Times(f, pool) + LostTimes(f) + DirTimes(d, f)
    <3>1. DirTimes(d, f)' = Times(f, fq[d]) + Times(f, RxUnread(d)) + Times(f, rx_chain[d].segs)
                            + Times(f, Segs(batch[d])) + Times(f, Segs(out[d])) + Times(f, tx[d]) + Times(f, <<>>)
      BY <1>1, <1>5 DEF DirTimes, RxUnread, rxVars
    <3>2. DirNats(d, f) /\ Times(f, pool) \in Nat
      BY DirTypes
    <3>3. Times(f, <<>>) = 0 /\ Times(f, pool') = Times(f, pool) + Times(f, cq[d])
      BY <1>4, TimesEmpty
    <3>4. LostTimes(f)' = LostTimes(f) /\ LostTimes(f) \in Nat
      BY <1>1 DEF LostTimes
    <3> QED BY <3>1, <3>2, <3>3, <3>4, SMTT(30) DEF DirTimes, DirNats
  <2> QED BY <2>1, <1>1, <1>6, <1>7, CountAtDir DEF workerVars
<1> QED BY <1>10, <1>11 DEF IInv

LEMMA TxDrainStep ==
  ASSUME IInv, NEW d \in Dirs, TxDrain(d)
  PROVE  IInv'
<1>0. Safe /\ OneOwner /\ TypeInv
  BY DEF IInv, Safe
<1> USE <1>0
<1> DEFINE p == Head(out[d])  q == Tail(out[d])
           refused == p.len > JumboMax \/ Len(p.segs) > TxCap - Len(tx[d])
<1>1. /\ out[d] # <<>> /\ out' = [out EXCEPT ![d] = q]
      /\ IF refused THEN pool' = PoolPush(pool, Addrs(p)) /\ UNCHANGED tx
                    ELSE tx' = [tx EXCEPT ![d] = @ \o Descs(p)] /\ UNCHANGED pool
      /\ UNCHANGED <<fq, rx, cq, rxVars, mid, workerVars, lost>>
  BY DEF TxDrain
<1>2. /\ pool \in Seq(AddrT) /\ tx[d] \in Seq(TxDescT) /\ Ends(tx[d], MaxSegs) /\ out[d] \in Seq(SmallT)
      /\ Chained(rx_chain[d], RxUnread(d)) /\ RxTaken(d) /\ \A i \in DOMAIN out[d] : Carries(out[d][i])
  BY DirTypes
<1>3. /\ p \in SmallT /\ p \in PktT /\ q \in Seq(SmallT) /\ Len(p.segs) \in Nat /\ Len(p.segs) <= MaxSegs
      /\ \A f : /\ Times(f, Segs(out[d])) = Times(f, p.segs) + Times(f, Segs(q))
                /\ Times(f, p.segs) \in Nat /\ Times(f, Segs(q)) \in Nat
  BY <1>1, <1>2, HeadTail, SmallFields
<1>4. \A i \in DOMAIN q : Carries(q[i])
  <2>1. /\ Len(out[d]) \in Nat /\ DOMAIN q = 1 .. Len(out[d]) - 1 /\ DOMAIN out[d] = 1 .. Len(out[d])
        /\ \A i \in 1 .. Len(out[d]) - 1 : q[i] = out[d][i + 1]
    BY <1>1, <1>2, HeadTailProperties
  <2> HIDE DEF q
  <2>2. \A i \in 1 .. Len(out[d]) - 1 : i + 1 \in DOMAIN out[d]
    BY <2>1
  <2> QED BY <1>2, <2>1, <2>2
<1> HIDE DEF p, q, refused
<1>5. out' \in [Dirs -> Seq(SmallT)] /\ out'[d] = q /\ \A e \in Dirs : e # d => out'[e] = out[e]
  BY <1>1, <1>3 DEF TypeInv, TypePackets
<1>6. TypeRx' /\ TypePackets'
  BY <1>1, <1>5 DEF TypeInv, TypeRx, rxVars, TypePackets, workerVars
<1>7. RxChained(d)' /\ RxTaken(d)'
  BY <1>1, <1>2 DEF RxChained, RxTaken, RxUnread, rxVars
<1>8. WorkerInv'
  BY <1>1, WorkersKept DEF Safe
<1>9. ASSUME NEW f \in Frames
      PROVE  /\ Times(f, Segs(out[d])) = Times(f, p.segs) + Times(f, Segs(q))
             /\ Times(f, p.segs) \in Nat /\ Times(f, Segs(q)) \in Nat
             /\ DirNats(d, f) /\ Times(f, pool) \in Nat
             /\ LostTimes(f)' = LostTimes(f) /\ LostTimes(f) \in Nat
             /\ Times(f, pool) + LostTimes(f) + DirTimes(d, f) <= 1
             /\ DirTimes(d, f)' = Times(f, fq[d]) + Times(f, RxUnread(d)) + Times(f, rx_chain[d].segs)
                            + Times(f, Segs(batch[d])) + Times(f, Segs(q)) + Times(f, tx'[d]) + Times(f, cq[d])
  <2>1. /\ Times(f, Segs(out[d])) = Times(f, p.segs) + Times(f, Segs(q))
        /\ Times(f, p.segs) \in Nat /\ Times(f, Segs(q)) \in Nat
    BY <1>3
  <2>2. DirNats(d, f) /\ Times(f, pool) \in Nat
    BY DirTypes
  <2>3. LostTimes(f)' = LostTimes(f) /\ LostTimes(f) \in Nat
    BY <1>1 DEF LostTimes
  <2>4. Times(f, pool) + LostTimes(f) + DirTimes(d, f) <= 1
    BY PartOfOne
  <2>5. DirTimes(d, f)' = Times(f, fq[d]) + Times(f, RxUnread(d)) + Times(f, rx_chain[d].segs)
                          + Times(f, Segs(batch[d])) + Times(f, Segs(q)) + Times(f, tx'[d]) + Times(f, cq[d])
    BY <1>1, <1>5 DEF DirTimes, RxUnread, rxVars
  <2> QED BY <2>1, <2>2, <2>3, <2>4, <2>5
<1>10. CASE refused
  <2>1. pool' = PoolPush(pool, Addrs(p)) /\ tx' = tx
    BY <1>1, <1>10
  <2>2. Addrs(p) \in Seq(AddrT) /\ \A f : Times(f, Addrs(p)) = Times(f, p.segs)
    BY <1>3, AddrsOf
  <2>3. \A f \in Frames : Times(f, pool) + Times(f, Addrs(p)) <= 1
    <3>1. TAKE f \in Frames
    <3>2. Times(f, Addrs(p)) = Times(f, p.segs)
      BY <2>2
    <3> QED BY <3>2, <1>9 DEF DirTimes, DirNats
  <2>4. pool' \in Seq(AddrT) /\ \A f : Times(f, pool') = Times(f, pool) + Times(f, p.segs)
    BY <2>1, <2>2, <2>3, <1>2, PushType, PushFits
  <2>5. \A e \in Dirs : e # d => Same(e)
    BY <1>1, <1>5, <2>1 DEF Same, rxVars
  <2>6. TypeInv'
    <3>1. TypeRings'
      BY <1>1, <2>1, <2>4 DEF TypeInv, TypeRings
    <3> QED BY <3>1, <1>6 DEF TypeInv
  <2>7. Safe'
    BY <1>2, <1>4, <1>5, <1>7, <1>8, <2>1, <2>5, <2>6, StepAtDir
  <2>8. ASSUME NEW f \in Frames
        PROVE  Times(f, pool') + LostTimes(f)' + DirTimes(d, f)' = Times(f, pool) + LostTimes(f) + DirTimes(d, f)
    <3>1. Times(f, pool') = Times(f, pool) + Times(f, p.segs) /\ tx'[d] = tx[d]
      BY <2>1, <2>4
    <3> QED BY <3>1, <1>9 DEF DirTimes, DirNats
  <2>9. OneOwner'
    BY <2>5, <2>6, <2>8, <1>1, CountAtDir DEF workerVars
  <2> QED BY <2>7, <2>9 DEF IInv
<1>11. CASE ~refused
  <2> DEFINE t == tx[d] \o Descs(p)
  <2>1. tx' = [tx EXCEPT ![d] = t] /\ pool' = pool
    BY <1>1, <1>11
  <2>2. /\ Descs(p) \in Seq(TxDescT) /\ Len(Descs(p)) = Len(p.segs)
        /\ \A i \in 1 .. Len(p.segs) : Descs(p)[i].contd = (i < Len(p.segs))
        /\ \A f : Times(f, Descs(p)) = Times(f, p.segs)
    BY <1>3, DescsOf
  <2>3. Ends(Descs(p), MaxSegs)
    <3>1. \A i \in 1 .. Len(Descs(p)) : Descs(p)[i].contd = (i < Len(Descs(p)))
      BY <2>2
    <3>2. MaxSegs \in Nat /\ Len(Descs(p)) <= MaxSegs
      BY <2>2, <1>3, Constants
    <3> QED BY <2>2, <3>1, <3>2, EndsChain
  <2>4. t \in Seq(TxDescT) /\ Ends(t, MaxSegs)
    BY <1>2, <2>2, <2>3, Concat, EndsConcat, Constants
  <2>5. \A f : Times(f, t) = Times(f, tx[d]) + Times(f, p.segs)
    BY <1>2, <2>2, TimesConcat
  <2> HIDE DEF t
  <2>6. /\ tx' \in [Dirs -> Seq(TxDescT)] /\ tx'[d] = t /\ \A e \in Dirs : e # d => tx'[e] = tx[e]
    BY <2>1, <2>4 DEF TypeInv, TypeRings
  <2>7. \A e \in Dirs : e # d => Same(e)
    BY <1>1, <1>5, <2>6 DEF Same, rxVars
  <2>8. TypeInv'
    <3>1. TypeRings'
      BY <1>1, <2>1, <2>6 DEF TypeInv, TypeRings
    <3> QED BY <3>1, <1>6 DEF TypeInv
  <2>9. Safe'
    BY <1>4, <1>5, <1>7, <1>8, <2>4, <2>6, <2>7, <2>8, StepAtDir
  <2>10. ASSUME NEW f \in Frames
         PROVE  Times(f, pool') + LostTimes(f)' + DirTimes(d, f)' = Times(f, pool) + LostTimes(f) + DirTimes(d, f)
    <3>1. Times(f, pool') = Times(f, pool) /\ Times(f, tx'[d]) = Times(f, tx[d]) + Times(f, p.segs)
      BY <2>1, <2>5, <2>6
    <3> QED BY <3>1, <1>9 DEF DirTimes, DirNats
  <2>11. OneOwner'
    BY <2>7, <2>8, <2>10, <1>1, CountAtDir DEF workerVars
  <2> QED BY <2>9, <2>11 DEF IInv
<1> QED BY <1>10, <1>11

-----------------------------------------------------------------------------
(* ne_pair_open.                                                           *)

\* Every frame once, in some order.
LEMMA Enumerated ==
  /\ SetToSeq(Frames) \in [1 .. NFrames -> Frames]
  /\ \A i \in 1 .. NFrames, j \in 1 .. NFrames : SetToSeq(Frames)[i] = SetToSeq(Frames)[j] => i = j
  /\ \A f \in Frames : \E i \in 1 .. NFrames : SetToSeq(Frames)[i] = f
<1>0. NFrames \in Nat /\ IsFiniteSet(Frames)
  BY Constants, UmemAssumption
<1>1. PICK b : b \in Bijection(1 .. NFrames, Frames)
  BY <1>0, FS_CardinalityType DEF NFrames, ExistsBijection
<1>2. b \in [1 .. NFrames -> Frames] /\ IsInjective(b)
  BY <1>1 DEF Bijection, Injection, IsInjective
<1>3. \E g \in [1 .. NFrames -> Frames] : IsInjective(g)
  BY <1>2
<1> DEFINE s == SetToSeq(Frames)
<1>4. s \in [1 .. NFrames -> Frames] /\ IsInjective(s)
  BY <1>3 DEF SetToSeq, NFrames
<1> HIDE DEF s
<1>5. s \in Injection(1 .. NFrames, Frames)
  BY <1>4 DEF Injection, IsInjective
<1>6. s \in Surjection(1 .. NFrames, Frames)
  <2>1. Cardinality(1 .. NFrames) = NFrames
    <3>1. 1 \in Int /\ NFrames \in Int /\ NFrames >= 0
      BY <1>0
    <3> QED BY <1>0, <3>1, FS_Interval
  <2>2. Cardinality(1 .. NFrames) = Cardinality(Frames)
    BY <2>1 DEF NFrames
  <2> QED BY <1>0, <1>5, <2>2, FS_Injection
<1>7. \A f \in Frames : \E i \in 1 .. NFrames : s[i] = f
  BY <1>6 DEF Surjection
<1>8. \A i \in 1 .. NFrames, j \in 1 .. NFrames : s[i] = s[j] => i = j
  BY <1>4 DEF IsInjective
<1> QED BY <1>4, <1>7, <1>8 DEF s

AllFrames == [i \in 1 .. NFrames |-> Addr(SetToSeq(Frames)[i], 0)]

LEMMA AllOnce ==
  /\ AllFrames \in Seq(AddrT) /\ Len(AllFrames) = NFrames
  /\ \A f \in Frames : Times(f, AllFrames) = 1
<1>0. NFrames \in Nat
  BY Constants
<1>1. \A i \in 1 .. NFrames : SetToSeq(Frames)[i] \in Frames
  BY Enumerated
<1>2. \A i \in 1 .. NFrames : AllFrames[i] \in AddrT /\ AllFrames[i].f = SetToSeq(Frames)[i]
  BY <1>1 DEF AllFrames, Addr, AddrT
<1>3. AllFrames \in [1 .. NFrames -> AddrT]
  BY <1>1 DEF AllFrames, Addr, AddrT
<1>4. AllFrames \in Seq(AddrT) /\ Len(AllFrames) = NFrames
  BY <1>0, <1>3, FunIsSeq
<1>5. ASSUME NEW f \in Frames PROVE Times(f, AllFrames) = 1
  <2>1. PICK i \in 1 .. NFrames : SetToSeq(Frames)[i] = f
    BY Enumerated
  <2>2. {j \in 1 .. NFrames : AllFrames[j].f = f} = {i}
    BY <1>2, <2>1, Enumerated
  <2>3. Times(f, AllFrames) = Cardinality({j \in 1 .. NFrames : AllFrames[j].f = f})
    BY <1>4, TimesNat, ZenonT(40)
  <2> QED BY <2>2, <2>3, FS_Singleton
<1> QED BY <1>4, <1>5

\* One direction or both.
LEMMA SumDirs ==
  ASSUME NEW g \in [Dirs -> Nat]
  PROVE  \/ /\ Cardinality(Dirs) = 1
            /\ \E d : Dirs = {d} /\ SumFunction(g) = g[d]
         \/ /\ Cardinality(Dirs) = 2 /\ Dirs = {"egress", "ingress"}
            /\ SumFunction(g) = g["egress"] + g["ingress"]
<1> DEFINE z == [e \in Dirs |-> 0]
<1>1. z \in [Dirs -> Nat] /\ \A e \in Dirs : z[e] = 0
  OBVIOUS
<1> HIDE DEF z
<1>2. SumFunction(z) = 0
  BY <1>1, FiniteParts, SumZero
<1>3. CASE \E d : Dirs = {d}
  <2>1. PICK d : Dirs = {d}
    BY <1>3
  <2>2. SumFunction(g) + z[d] = SumFunction(z) + g[d]
    <3>1. d \in Dirs /\ \A e \in Dirs : e # d => g[e] = z[e]
      BY <2>1
    <3> QED BY <3>1, <1>1, FiniteParts, SumPoint
  <2>3. SumFunction(g) \in Nat /\ g[d] \in Nat /\ z[d] = 0
    BY <2>1, <1>1, FiniteParts, SumNat
  <2>4. Cardinality(Dirs) = 1
    BY <2>1, FS_Singleton
  <2>5. SumFunction(g) = g[d]
    BY <2>2, <2>3, <1>2
  <2> QED BY <2>1, <2>4, <2>5
<1>4. CASE ~\E d : Dirs = {d}
  <2>1. Dirs = {"egress", "ingress"}
    <3>1. Dirs \subseteq {"egress", "ingress"} /\ Dirs # {}
      BY UmemAssumption
    <3>2. CASE "egress" \notin Dirs
      <4>1. Dirs = {"ingress"}
        BY <3>1, <3>2
      <4> QED BY <4>1, <1>4
    <3>3. CASE "ingress" \notin Dirs
      <4>1. Dirs = {"egress"}
        BY <3>1, <3>3
      <4> QED BY <4>1, <1>4
    <3> QED BY <3>1, <3>2, <3>3
  <2> DEFINE h == [e \in Dirs |-> IF e = "egress" THEN 0 ELSE g[e]]
  <2>2. h \in [Dirs -> Nat] /\ h["egress"] = 0 /\ h["ingress"] = g["ingress"]
    BY <2>1
  <2> HIDE DEF h
  <2>3. SumFunction(g) + h["egress"] = SumFunction(h) + g["egress"]
    <3>1. "egress" \in Dirs /\ \A e \in Dirs : e # "egress" => g[e] = h[e]
      BY <2>1, <2>2
    <3> QED BY <3>1, <2>2, FiniteParts, SumPoint
  <2>4. SumFunction(h) + z["ingress"] = SumFunction(z) + h["ingress"]
    <3>1. "ingress" \in Dirs /\ \A e \in Dirs : e # "ingress" => h[e] = z[e]
      BY <2>1, <2>2, <1>1
    <3> QED BY <3>1, <2>2, <1>1, FiniteParts, SumPoint
  <2>5. SumFunction(g) \in Nat /\ SumFunction(h) \in Nat /\ g["egress"] \in Nat /\ g["ingress"] \in Nat /\ z["ingress"] = 0
    BY <2>1, <2>2, <1>1, FiniteParts, SumNat
  <2>6. Cardinality(Dirs) = 2
    <3>1. {"egress", "ingress"} = {"egress"} \cup {"ingress"} /\ "ingress" \notin {"egress"}
      OBVIOUS
    <3>2. IsFiniteSet({"egress"}) /\ Cardinality({"egress"}) = 1
      BY FS_Singleton
    <3>3. Cardinality({"egress"} \cup {"ingress"}) = 1 + 1
      BY <3>1, <3>2, FS_AddElement
    <3> QED BY <2>1, <3>1, <3>3
  <2>7. SumFunction(g) = g["egress"] + g["ingress"]
    BY <2>2, <2>3, <2>4, <2>5, <1>2
  <2> QED BY <2>1, <2>6, <2>7
<1> QED BY <1>3, <1>4

\* The fill rings never ask for more frames than there are.
LEMMA PrefillFits ==
  /\ PrefillPerQueue \in Nat /\ PrefillPerQueue <= FqCap
  /\ Cardinality(Dirs) \in {1, 2} /\ PrefillPerQueue * Cardinality(Dirs) <= NFrames
<1>1. Cardinality(Dirs) \in {1, 2}
  <2>1. [e \in Dirs |-> 0] \in [Dirs -> Nat]
    OBVIOUS
  <2> QED BY <2>1, SumDirs
<1>2. NFrames \in Nat /\ FqCap \in Nat
  BY Constants
<1> DEFINE c == Cardinality(Dirs)  m == (NFrames * 3) \div 4  k == m \div c
<1>3. m \in Nat /\ m <= NFrames
  BY <1>2
<1> HIDE DEF m
<1>4. k \in Nat /\ k * c <= m
  <2>1. CASE c = 1
    BY <2>1, <1>3
  <2>2. CASE c = 2
    BY <2>2, <1>3
  <2> QED BY <1>1, <2>1, <2>2
<1>5. PrefillPerQueue = Least(k, FqCap)
  BY DEF PrefillPerQueue, m
<1> HIDE DEF k
<1>6. PrefillPerQueue \in Nat /\ PrefillPerQueue <= FqCap /\ PrefillPerQueue <= k
  BY <1>2, <1>4, <1>5 DEF Least
<1>7. PrefillPerQueue * c <= k * c
  <2>1. CASE c = 1
    BY <2>1, <1>4, <1>6
  <2>2. CASE c = 2
    BY <2>2, <1>4, <1>6
  <2> QED BY <1>1, <2>1, <2>2
<1>8. PrefillPerQueue * c <= NFrames
  <2>1. k * c \in Nat /\ PrefillPerQueue * c \in Nat
    BY <1>1, <1>4, <1>6
  <2> QED BY <2>1, <1>2, <1>3, <1>4, <1>7
<1> QED BY <1>1, <1>6, <1>8

\* The fill rings and the pool share out all frames.
LEMMA InitShares ==
  ASSUME Init
  PROVE  /\ pool \in Seq(AddrT) /\ fq \in [Dirs -> Seq(AddrT)] /\ \A d \in Dirs : Len(fq[d]) <= FqCap
         /\ \A f \in Frames : \A g \in [Dirs -> Nat] :
              (\A d \in Dirs : g[d] = Times(f, fq[d])) => Times(f, pool) + SumFunction(g) = 1
<1> DEFINE all == AllFrames  n == PrefillPerQueue  N == NFrames  c == Cardinality(Dirs)
           start == [d \in Dirs |-> IF d = "egress" \/ c = 1 THEN 0 ELSE n]
<1>1. /\ fq = [d \in Dirs |-> SubSeq(all, start[d] + 1, start[d] + n)]
      /\ pool = SubSeq(all, n * c + 1, N)
  BY DEF Init, AllFrames
<1>2. all \in Seq(AddrT) /\ Len(all) = N /\ \A f \in Frames : Times(f, all) = 1
  BY AllOnce
<1>3. n \in Nat /\ n <= FqCap /\ c \in {1, 2} /\ n * c <= N /\ N \in Nat /\ FqCap \in Nat
  BY PrefillFits, Constants
<1>4. c = 2 => Dirs = {"egress", "ingress"}
  <2>1. [e \in Dirs |-> 0] \in [Dirs -> Nat]
    OBVIOUS
  <2>2. Cardinality(Dirs) = 1 \/ Dirs = {"egress", "ingress"}
    BY <2>1, SumDirs
  <2> QED BY <2>2
<1>5. \A d \in Dirs : start[d] = IF d = "egress" \/ c = 1 THEN 0 ELSE n
  OBVIOUS
<1> HIDE DEF all, n, N, start
<1>6. ASSUME NEW d \in Dirs PROVE start[d] \in Nat /\ start[d] + n <= N
  <2>1. CASE c = 1
    <3>1. start[d] = 0 /\ n * c = n
      BY <1>3, <1>5, <2>1
    <3> QED BY <3>1, <1>3
  <2>2. CASE c = 2
    <3>1. start[d] \in {0, n} /\ n * c = n + n
      BY <1>3, <1>5, <2>2
    <3> QED BY <3>1, <1>3
  <2> QED BY <1>3, <2>1, <2>2
<1>7. ASSUME NEW d \in Dirs PROVE fq[d] \in Seq(AddrT) /\ Len(fq[d]) <= FqCap
  <2> DEFINE a == start[d] + 1  b == start[d] + n
  <2>1. a \in Nat /\ b \in Nat /\ a >= 1 /\ b <= Len(all) /\ b - a + 1 = n /\ fq[d] = SubSeq(all, a, b)
    <3>1. fq[d] = SubSeq(all, start[d] + 1, start[d] + n)
      BY <1>1
    <3>2. start[d] \in Nat /\ start[d] + n <= N
      BY <1>6
    <3> QED BY <3>1, <3>2, <1>2, <1>3, SMTT(30)
  <2> HIDE DEF a, b
  <2>2. SubSeq(all, a, b) \in Seq(AddrT) /\ Len(SubSeq(all, a, b)) = IF a <= b THEN b - a + 1 ELSE 0
    BY <2>1, <1>2, Part
  <2> QED BY <2>1, <2>2, <1>3
<1>8. n * c \in 0 .. N /\ n * c + 1 >= 1 /\ n * c + 1 \in Nat
  <2>1. n * c \in Nat
    BY <1>3
  <2> QED BY <2>1, <1>3
<1>9. pool \in Seq(AddrT)
  <2> DEFINE a == n * c + 1
  <2>1. a \in Nat /\ a >= 1 /\ pool = SubSeq(all, a, N)
    BY <1>1, <1>8
  <2> HIDE DEF a
  <2>2. N <= Len(all)
    BY <1>2, <1>3
  <2> QED BY <1>2, <1>3, <2>1, <2>2, Part
<1>10. ASSUME NEW f \in Frames, NEW g \in [Dirs -> Nat], \A d \in Dirs : g[d] = Times(f, fq[d])
       PROVE  Times(f, pool) + SumFunction(g) = 1
  <2>1. Times(f, all) = Times(f, SubSeq(all, 1, n * c)) + Times(f, pool)
    <3> DEFINE k == n * c
    <3>1. k \in 0 .. Len(all) /\ pool = SubSeq(all, k + 1, Len(all))
      BY <1>1, <1>2, <1>8
    <3> HIDE DEF k
    <3>2. Times(f, all) = Times(f, SubSeq(all, 1, k)) + Times(f, SubSeq(all, k + 1, Len(all)))
      BY <1>2, <3>1, TimesSplit
    <3> QED BY <3>1, <3>2 DEF k
  <2>2. CASE c = 1
    <3>1. PICK d : Dirs = {d} /\ SumFunction(g) = g[d]
      BY <2>2, SumDirs
    <3>2. start[d] = 0 /\ n * c = n
      BY <3>1, <2>2, <1>3, <1>5
    <3>3. fq[d] = SubSeq(all, 1, n)
      <4>1. fq[d] = SubSeq(all, start[d] + 1, start[d] + n)
        BY <3>1, <1>1
      <4>2. start[d] + 1 = 1 /\ start[d] + n = n
        BY <3>2, <1>3
      <4> QED BY <4>1, <4>2
    <3>4. SumFunction(g) = Times(f, SubSeq(all, 1, n)) /\ Times(f, all) = 1
      BY <3>1, <3>3, <1>2, <1>10
    <3>5. Times(f, pool) \in Nat /\ Times(f, SubSeq(all, 1, n)) \in Nat
      <4>1. Times(f, fq[d]) \in Nat
        BY <3>1, <1>7, TimesNat
      <4> QED BY <4>1, <3>3, <1>9, TimesNat
    <3> QED BY <2>1, <3>2, <3>4, <3>5
  <2>3. CASE c = 2
    <3>1. Dirs = {"egress", "ingress"} /\ SumFunction(g) = g["egress"] + g["ingress"]
      BY <2>3, SumDirs
    <3>2. n * c = n + n /\ start["egress"] = 0 /\ start["ingress"] = n
      BY <3>1, <2>3, <1>3, <1>5
    <3>3. fq["egress"] = SubSeq(all, 1, n) /\ fq["ingress"] = SubSeq(all, n + 1, n + n)
      <4>1. /\ fq["egress"] = SubSeq(all, start["egress"] + 1, start["egress"] + n)
            /\ fq["ingress"] = SubSeq(all, start["ingress"] + 1, start["ingress"] + n)
        BY <3>1, <1>1
      <4>2. start["egress"] + 1 = 1 /\ start["egress"] + n = n
        BY <3>2, <1>3
      <4> QED BY <3>2, <4>1, <4>2
    <3> DEFINE s == SubSeq(all, 1, n + n)
    <3>4. s \in Seq(AddrT) /\ Len(s) = n + n /\ n + n <= N /\ \A i \in 1 .. n + n : s[i] = all[i]
      <4>1. n + n \in Nat /\ n + n <= Len(all)
        BY <1>2, <1>3, <3>2
      <4> QED BY <4>1, <1>2, Part
    <3>5. Times(f, s) = Times(f, SubSeq(s, 1, n)) + Times(f, SubSeq(s, n + 1, n + n))
      <4>1. n \in 0 .. Len(s)
        BY <3>4, <1>3
      <4> HIDE DEF s
      <4> QED BY <3>4, <4>1, TimesSplit
    <3>6. SubSeq(s, 1, n) = SubSeq(all, 1, n)
      <4>1. /\ SubSeq(s, 1, n) \in Seq(AddrT) /\ Len(SubSeq(s, 1, n)) = n
            /\ \A i \in 1 .. n : SubSeq(s, 1, n)[i] = s[i]
        <5>1. n <= Len(s)
          BY <3>4, <1>3
        <5> HIDE DEF s
        <5> QED BY <5>1, <3>4, <1>3, Part
      <4>2. /\ SubSeq(all, 1, n) \in Seq(AddrT) /\ Len(SubSeq(all, 1, n)) = n
            /\ \A i \in 1 .. n : SubSeq(all, 1, n)[i] = all[i]
        <5>1. n <= Len(all)
          BY <3>4, <1>2, <1>3
        <5> QED BY <5>1, <1>2, <1>3, Part
      <4>3. \A i \in 1 .. n : i \in 1 .. n + n
        BY <1>3
      <4> HIDE DEF s
      <4>4. \A i \in 1 .. n : SubSeq(s, 1, n)[i] = SubSeq(all, 1, n)[i]
        BY <3>4, <4>1, <4>2, <4>3
      <4> QED BY <4>1, <4>2, <4>4, SeqEqual
    <3>7. SubSeq(s, n + 1, n + n) = SubSeq(all, n + 1, n + n)
      <4>0. n + 1 \in Nat /\ n + 1 >= 1 /\ n + n \in Nat /\ n + n <= Len(s) /\ n + n <= Len(all)
        BY <3>4, <1>2, <1>3
      <4>1. /\ SubSeq(s, n + 1, n + n) \in Seq(AddrT) /\ Len(SubSeq(s, n + 1, n + n)) = n
            /\ \A i \in 1 .. n : SubSeq(s, n + 1, n + n)[i] = s[n + i]
        <5> HIDE DEF s
        <5> QED BY <4>0, <3>4, <1>3, Part
      <4>2. /\ SubSeq(all, n + 1, n + n) \in Seq(AddrT) /\ Len(SubSeq(all, n + 1, n + n)) = n
            /\ \A i \in 1 .. n : SubSeq(all, n + 1, n + n)[i] = all[n + i]
        BY <4>0, <1>2, <1>3, Part
      <4>3. \A i \in 1 .. n : n + i \in 1 .. n + n
        BY <1>3
      <4> HIDE DEF s
      <4>4. \A i \in 1 .. n : SubSeq(s, n + 1, n + n)[i] = SubSeq(all, n + 1, n + n)[i]
        BY <3>4, <4>1, <4>2, <4>3
      <4> QED BY <4>1, <4>2, <4>4, SeqEqual
    <3>8. Times(f, s) = g["egress"] + g["ingress"]
      <4>1. g["egress"] = Times(f, fq["egress"]) /\ g["ingress"] = Times(f, fq["ingress"])
        BY <3>1, <1>10
      <4> QED BY <4>1, <3>3, <3>5, <3>6, <3>7
    <3>9. Times(f, pool) \in Nat /\ Times(f, s) \in Nat /\ Times(f, all) = 1
      BY <3>4, <1>2, <1>9, TimesNat
    <3>10. Times(f, all) = Times(f, s) + Times(f, pool)
      BY <2>1, <3>2
    <3> HIDE DEF s
    <3> QED BY <3>1, <3>8, <3>9, <3>10
  <2> QED BY <1>3, <2>2, <2>3
<1>11. fq \in [Dirs -> Seq(AddrT)]
  BY <1>1, <1>7
<1> QED BY <1>7, <1>9, <1>10, <1>11

LEMMA InitIInv == Init => IInv
<1> SUFFICES ASSUME Init PROVE IInv
  OBVIOUS
<1>1. /\ pool \in Seq(AddrT) /\ fq \in [Dirs -> Seq(AddrT)] /\ \A d \in Dirs : Len(fq[d]) <= FqCap
      /\ \A f \in Frames : \A g \in [Dirs -> Nat] :
           (\A d \in Dirs : g[d] = Times(f, fq[d])) => Times(f, pool) + SumFunction(g) = 1
  BY InitShares
<1>2. /\ rx = [d \in Dirs |-> <<>>] /\ tx = [d \in Dirs |-> <<>>]
      /\ cq = [d \in Dirs |-> <<>>] /\ taken = [d \in Dirs |-> 0]
      /\ rxpc = [d \in Dirs |-> "refill"] /\ batch = [d \in Dirs |-> <<>>]
      /\ rx_pending = [d \in Dirs |-> 0] /\ rx_chain = [d \in Dirs |-> NoPacket]
      /\ rx_chain_invalid = [d \in Dirs |-> FALSE]
      /\ rx_rejects = [d \in Dirs |-> <<>>]
      /\ mid = [d \in Dirs |-> [w \in Workers |-> <<>>]]
      /\ out = [d \in Dirs |-> <<>>]
      /\ wpc = [w \in Workers |-> "idle"] /\ wdir \in [Workers -> {CHOOSE d \in Dirs : TRUE}]
      /\ job = [w \in Workers |-> NoPacket] /\ tail = [w \in Workers |-> NoPacket]
      /\ plan = [w \in Workers |-> <<>>]
      /\ lost = {}
  BY DEF Init
<1>3. /\ \A d \in Dirs : /\ rx[d] = <<>> /\ tx[d] = <<>> /\ cq[d] = <<>> /\ taken[d] = 0
                         /\ rxpc[d] = "refill" /\ batch[d] = <<>> /\ rx_pending[d] = 0
                         /\ rx_chain[d] = NoPacket /\ out[d] = <<>>
                         /\ \A w \in Workers : mid[d][w] = <<>>
      /\ \A w \in Workers : wpc[w] = "idle" /\ job[w] = NoPacket /\ tail[w] = NoPacket /\ plan[w] = <<>>
  BY <1>2
<1>4. /\ <<>> \in Seq(AddrT) /\ <<>> \in Seq(RxDescT) /\ <<>> \in Seq(TxDescT) /\ <<>> \in Seq(SmallT)
      /\ <<>> \in Seq(Int) /\ NoPacket \in SmallT /\ NoPacket.segs = <<>>
  BY NoPacketSmall
<1>5. TypeInv
  <2>1. TypeRings
    BY <1>1, <1>2, <1>4 DEF TypeRings
  <2>2. TypeRx
    <3>1. taken \in [Dirs -> Nat] /\ rx_pending \in [Dirs -> Nat]
      BY <1>2
    <3>2. rxpc \in [Dirs -> {"refill", "recv", "dispatch"}]
      BY <1>2
    <3>3. batch \in [Dirs -> Seq(SmallT)] /\ rx_chain \in [Dirs -> SmallT]
      BY <1>2, <1>4
    <3> QED BY <3>1, <3>2, <3>3, <1>2 DEF TypeRx
  <2>3. TypePackets
    <3>1. mid \in [Dirs -> [Workers -> Seq(SmallT)]] /\ out \in [Dirs -> Seq(SmallT)]
      BY <1>2, <1>4
    <3>2. wpc \in [Workers -> {"idle", "write_job", "write_tail", "push"}]
      BY <1>2
    <3>3. wdir \in [Workers -> Dirs]
      <4>1. (CHOOSE d \in Dirs : TRUE) \in Dirs
        BY UmemAssumption
      <4> QED BY <4>1, <1>2
    <3>4. job \in [Workers -> SmallT] /\ tail \in [Workers -> SmallT] /\ plan \in [Workers -> Seq(Int)]
      BY <1>2, <1>4
    <3> QED BY <3>1, <3>2, <3>3, <3>4 DEF TypePackets
  <2> QED BY <2>1, <2>2, <2>3 DEF TypeInv
<1>6. ASSUME NEW d \in Dirs PROVE RxUnread(d) = <<>>
  <2>1. rx[d] = <<>> /\ taken[d] = 0
    BY <1>3
  <2>2. RxUnread(d) = SubSeq(<<>>, 0 + 1, Len(<<>>))
    BY <2>1 DEF RxUnread
  <2>3. Len(<<>>) = 0 /\ 0 + 1 = 1
    OBVIOUS
  <2>4. \A j \in Int : j <= 0 => SubSeq(<<>>, 1, j) = <<>>
    BY SubSeqEmpty
  <2> QED BY <2>2, <2>3, <2>4
<1>7. RxInv
  <2>1. ASSUME NEW d \in Dirs PROVE RxChained(d) /\ RxTaken(d)
    <3>1. Chained(NoPacket, <<>>)
      <4>1. NoPacket.len = 0 /\ NoPacket.segs = <<>> /\ Len(<<>>) = 0 /\ 0 * Room = 0
        <5>1. Room \in Nat
          BY Constants
        <5> QED BY <5>1 DEF NoPacket
      <4>2. NoPacket.len = Len(NoPacket.segs) * Room
        BY <4>1
      <4>3. [j \in 1 .. Len(<<>>) |-> 1] \in [1 .. Len(<<>>) -> 1 .. MaxSegs]
        BY <4>1
      <4>4. Continues(Len(NoPacket.segs), <<>>, [j \in 1 .. Len(<<>>) |-> 1])
        BY <4>1 DEF Continues
      <4> QED BY <4>2, <4>3, <4>4, EndsEmpty DEF Chained
    <3>2. RxChained(d)
      BY <3>1, <1>3, <1>6 DEF RxChained
    <3>3. RxTaken(d)
      BY <1>3 DEF RxTaken
    <3> QED BY <3>2, <3>3
  <2> QED BY <2>1 DEF RxInv
<1>8. WorkerInv
  BY <1>3 DEF WorkerInv, WorkerAt
<1>9. TxInv /\ OutInv
  <2>1. TxInv
    BY <1>3, EndsEmpty DEF TxInv
  <2>2. OutInv
    BY <1>3 DEF OutInv
  <2> QED BY <2>1, <2>2
<1>10. ASSUME NEW f \in Frames PROVE Owners(f) = 1
  <2>1. FnValues(f) /\ Times(f, pool) \in Nat
    BY <1>5, ValuesNow, TypeCounts DEF Valued, Counted
  <2>2. Times(f, <<>>) = 0 /\ Segs(<<>>) = <<>>
    <3>1. <<>> \in Seq(PktT)
      OBVIOUS
    <3>2. \A s \in Seq(PktT) : s = <<>> => Segs(s) = <<>>
      BY SegsType
    <3> QED BY <3>1, <3>2, TimesEmpty
  <2>3. ASSUME NEW d \in Dirs PROVE DirFn(f)[d] = Times(f, fq[d])
    <3>1. DirFn(f)[d] = DirTimes(d, f)
      BY <2>1 DEF FnValues
    <3>2. DirTimes(d, f) = Times(f, fq[d]) + 0 + 0 + 0 + 0 + 0 + 0
      BY <1>3, <1>4, <1>6, <2>2 DEF DirTimes
    <3>3. Times(f, fq[d]) \in Nat
      BY <1>1, TimesNat
    <3> QED BY <3>1, <3>2, <3>3
  <2>4. SumFunction(JobFn(f)) = 0
    <3>1. \A w \in Workers : JobFn(f)[w] = 0
      BY <2>1, <2>2, <1>3, <1>4 DEF FnValues, JobTimes
    <3> QED BY <2>1, <3>1, FiniteParts, SumZero DEF FnValues
  <2>5. SumFunction(MidFn(f)) = 0
    <3>1. ASSUME NEW x \in Dirs \X Workers PROVE MidFn(f)[x] = 0
      <4>1. MidFn(f)[x] = Times(f, Segs(mid[x[1]][x[2]])) /\ x[1] \in Dirs /\ x[2] \in Workers
        BY DEF MidFn
      <4> QED BY <4>1, <2>2, <1>3
    <3> QED BY <2>1, <3>1, FiniteParts, SumZero DEF FnValues
  <2>6. Times(f, pool) + SumFunction(DirFn(f)) = 1
    BY <1>1, <2>1, <2>3 DEF FnValues
  <2>7. SumFunction(DirFn(f)) \in Nat
    BY <2>1, FiniteParts, SumNat DEF FnValues
  <2>8. LostTimes(f) = 0
    BY <1>2 DEF LostTimes
  <2>9. Owners(f) = Times(f, pool) + LostTimes(f) + SumFunction(DirFn(f)) + SumFunction(JobFn(f)) + SumFunction(MidFn(f))
    BY SumsIs DEF Sums
  <2> QED BY <2>1, <2>4, <2>5, <2>6, <2>7, <2>8, <2>9
<1>11. OneOwner
  BY <1>10 DEF OneOwner
<1> QED BY <1>5, <1>7, <1>8, <1>9, <1>11 DEF IInv, Safe

\* A step that changes nothing.
LEMMA StutterStep ==
  ASSUME IInv, UNCHANGED vars
  PROVE  IInv'
<1>0. Safe /\ OneOwner /\ TypeInv
  BY DEF IInv, Safe
<1>1. /\ pool' = pool /\ lost' = lost /\ mid' = mid /\ out' = out /\ fq' = fq /\ rx' = rx /\ tx' = tx /\ cq' = cq
      /\ UNCHANGED rxVars /\ UNCHANGED workerVars
  BY DEF vars
<1>2. TypeInv'
  <2>1. TypeRings'
    BY <1>0, <1>1 DEF TypeInv, TypeRings
  <2>2. TypeRx'
    BY <1>0, <1>1 DEF TypeInv, TypeRx, rxVars
  <2>3. TypePackets'
    BY <1>0, <1>1 DEF TypeInv, TypePackets, workerVars
  <2> QED BY <2>1, <2>2, <2>3 DEF TypeInv
<1>3. \A e \in Dirs : Same(e)
  BY <1>1 DEF Same, rxVars
<1>4. WorkerInv'
  BY <1>0, <1>1, WorkersKept DEF Safe
<1>5. Safe'
  BY <1>0, <1>2, <1>3, <1>4, StepNoDir
<1>6. OneOwner'
  <2>1. PICK d \in Dirs : TRUE
    BY UmemAssumption
  <2>2. \A f \in Frames : Times(f, pool') + LostTimes(f)' + DirTimes(d, f)'
                          = Times(f, pool) + LostTimes(f) + DirTimes(d, f)
    BY <1>0, <1>1, <1>3, SameDir DEF LostTimes
  <2> QED BY <2>2, <1>0, <1>1, <1>2, <1>3, CountAtDir DEF workerVars
<1> QED BY <1>5, <1>6 DEF IInv

-----------------------------------------------------------------------------
(* The theorems.                                                           *)

\* The inductive invariant: the types and sizes of rings and packets, what the
\* receive loop has of a chain and what is still in the ring, what a worker
\* holds at each place of ne_packet_write, whole chains in the TX rings,
\* written packets in the software rings, and one owner for every frame.
THEOREM UmemInvariance == Spec => []IInv
<1>1. Init => IInv
  BY InitIInv
<1>2. IInv /\ [Next]_vars => IInv'
  <2> SUFFICES ASSUME IInv, [Next]_vars PROVE IInv'
    OBVIOUS
  <2>1. CASE UNCHANGED vars
    BY <2>1, StutterStep
  <2>2. ASSUME NEW d \in Dirs, KernelRx(d) \/ KernelTx(d) PROVE IInv'
    BY <2>2, KernelRxStep, KernelTxStep
  <2>3. ASSUME NEW d \in Dirs, RxThread(d) PROVE IInv'
    <3>1. CASE Refill(d)
      BY <3>1, RefillStep
    <3>2. CASE Recv(d)
      BY <3>2, RecvStepDone
    <3>3. CASE Dispatch(d)
      BY <3>3, DispatchStep
    <3>4. CASE DispatchUnmarked(d)
      BY <3>4, UnmarkedStep
    <3>5. CASE Release(d)
      BY <3>5, ReleaseStep
    <3> QED BY <2>3, <3>1, <3>2, <3>3, <3>4, <3>5 DEF RxThread
  <2>4. ASSUME NEW d \in Dirs, TxThread(d) PROVE IInv'
    BY <2>4, DrainCqStep, TxDrainStep DEF TxThread
  <2>5. ASSUME NEW w \in Workers, Worker(w) PROVE IInv'
    <3>1. CASE Take(w)
      BY <3>1, TakeStep
    <3>2. CASE WriteAlloc(w)
      BY <3>2, WriteAllocStep
    <3>3. CASE WriteFail(w)
      BY <3>3, WriteFailStep
    <3>4. CASE WriteFill(w)
      BY <3>4, WriteFillStep
    <3>5. CASE PushOut(w)
      BY <3>5, PushOutStep
    <3> QED BY <2>5, <3>1, <3>2, <3>3, <3>4, <3>5 DEF Worker
  <2> QED BY <2>1, <2>2, <2>3, <2>4, <2>5 DEF Next
<1> QED BY <1>1, <1>2, PTL DEF Spec

\* Every UMEM frame has exactly one owner, whatever the number of frames, the
\* sizes of rings, packets and batches: ne_packet_free, pool_push and pool_pop
\* never leak a frame and never hand one out twice.
THEOREM OneOwnerAlways == Spec => []OneOwner
<1>1. IInv => OneOwner
  BY DEF IInv
<1> QED BY <1>1, UmemInvariance, PTL

\* The TX ring holds whole chains of at most MaxSegs descriptors
\* (tx_drain_queue reserves for the largest packet before it pops one).
THEOREM TxWholeChainsAlways == Spec => []TxWholeChains
<1>1. IInv => TxWholeChains
  <2> SUFFICES ASSUME IInv PROVE TxWholeChains
    OBVIOUS
  <2>1. TypeInv /\ \A d \in Dirs : Ends(tx[d], MaxSegs)
    BY DEF IInv, Safe, TxInv
  <2> QED BY <2>1, WholeIsEnds DEF TxWholeChains
<1> QED BY <1>1, UmemInvariance, PTL

\* A packet in a ring to the TX thread has between one and MaxSegs segments,
\* none empty, that add up to its length: what ne_packet_write spread over old
\* and new frames is what tx_drain_queue describes to the kernel.
THEOREM LengthsAgreeAlways == Spec => []LengthsAgree
<1>1. IInv => LengthsAgree
  BY DEF IInv, Safe, OutInv, Carries, LengthsAgree
<1> QED BY <1>1, UmemInvariance, PTL

\* When an RX thread starts its loop again every peeked descriptor is released
\* and every rejected frame recycled; a chain cut by the end of a batch has its
\* rest in the ring.
THEOREM RxReleasedAlways == Spec => []RxReleased
<1>1. IInv => RxReleased
  <2> SUFFICES ASSUME IInv, NEW d \in Dirs, rxpc[d] = "refill"
               PROVE  /\ taken[d] = 0 /\ rx_rejects[d] = <<>>
                      /\ rx_chain[d] # NoPacket => RxUnread(d) # <<>>
    BY DEF RxReleased
  <2>1. TypeInv /\ RxChained(d) /\ RxTaken(d)
    BY DEF IInv, Safe, RxInv
  <2>2. rx_rejects[d] = <<>>
    BY <2>1 DEF TypeInv, TypeRx
  <2>3. taken[d] = 0
    BY <2>1 DEF RxTaken
  <2>4. RxUnread(d) = <<>> => rx_chain[d] = NoPacket
    BY <2>1 DEF RxChained, Chained
  <2> QED BY <2>2, <2>3, <2>4
<1> QED BY <1>1, UmemInvariance, PTL

=============================================================================
