--------------------------- MODULE XskRing_proofs ---------------------------
(***************************************************************************)
(* The rings of an AF_XDP socket, for every ring size, width of the        *)
(* indices, batch size and number of frames.                               *)
(***************************************************************************)
EXTENDS XskRing, FiniteSetTheorems, TLAPS

-----------------------------------------------------------------------------
(* Arithmetic of the wrapping indices.                                     *)

Idx == 0 .. U32 - 1

\* The indices' range is at least two turns of the ring.
LEMMA U32Bound == U32 \in Nat /\ U32 >= 2 * Size /\ Size \in Nat /\ Size >= 1 /\ Turns \in Nat
<1>1. Size \in Nat /\ Size >= 1 /\ Turns \in Nat /\ Turns >= 2
  BY XskAssumption
<1> QED BY <1>1 DEF U32

LEMMA ModIs ==
  ASSUME NEW n \in Nat \ {0}, NEW a \in Int
  PROVE  /\ a >= 0 /\ a < n => a % n = a
         /\ a >= n /\ a < n + n => a % n = a - n
         /\ a < 0 /\ a + n >= 0 => a % n = a + n
OBVIOUS

LEMMA AddIs ==
  ASSUME NEW x \in Idx, NEW n \in Idx
  PROVE  Add(x, n) = (IF x + n < U32 THEN x + n ELSE x + n - U32) /\ Add(x, n) \in Idx
BY U32Bound DEF Idx, Add

LEMMA SubIs ==
  ASSUME NEW x \in Idx, NEW y \in Idx
  PROVE  Sub(x, y) = (IF x >= y THEN x - y ELSE x - y + U32) /\ Sub(x, y) \in Idx
BY U32Bound DEF Idx, Sub

\* Distances from one index.
LEMMA SubFrom ==
  ASSUME NEW c \in Idx, NEW x \in Idx
  PROVE  /\ Sub(c, c) = 0 /\ (Sub(x, c) = 0 => x = c) /\ Sub(x, c) \in Nat
         /\ Add(c, Sub(x, c)) = x /\ Sub(x, Sub(x, c)) = c
         /\ \A y \in Idx : Sub(x, c) >= Sub(y, c) => Sub(x, y) = Sub(x, c) - Sub(y, c)
         /\ \A n \in Idx : Sub(x, c) >= n => Sub(x, Add(c, n)) = Sub(x, c) - n
         /\ \A n \in Idx : Sub(x, c) + n < U32 => Sub(Add(x, n), c) = Sub(x, c) + n
         /\ \A n \in Idx : Sub(Add(c, n), c) = n
<1> USE U32Bound
<1>0. Sub(c, c) = (IF c >= c THEN c - c ELSE c - c + U32)
  BY SubIs
<1>2. Sub(x, c) \in Idx /\ Sub(x, c) = (IF x >= c THEN x - c ELSE x - c + U32)
  BY SubIs
<1>1. Sub(c, c) = 0 /\ (Sub(x, c) = 0 => x = c) /\ Sub(x, c) \in Nat
  BY <1>0, <1>2 DEF Idx
<1> DEFINE d == Sub(x, c)
<1>3. Add(c, d) = (IF c + d < U32 THEN c + d ELSE c + d - U32)
  BY <1>2, AddIs
<1>4. Add(c, d) = x
  BY <1>2, <1>3 DEF Idx
<1>5. Sub(x, d) = (IF x >= d THEN x - d ELSE x - d + U32)
  BY <1>2, SubIs
<1>6. Sub(x, d) = c
  BY <1>2, <1>5 DEF Idx
<1>7. ASSUME NEW y \in Idx, d >= Sub(y, c) PROVE Sub(x, y) = d - Sub(y, c)
  <2>1. Sub(y, c) = (IF y >= c THEN y - c ELSE y - c + U32) /\ Sub(x, y) = (IF x >= y THEN x - y ELSE x - y + U32)
    BY SubIs
  <2> QED BY <2>1, <1>2, <1>7 DEF Idx
<1>8. ASSUME NEW n \in Idx, d >= n PROVE Sub(x, Add(c, n)) = d - n
  <2>1. Add(c, n) \in Idx /\ Add(c, n) = (IF c + n < U32 THEN c + n ELSE c + n - U32)
    BY AddIs
  <2>2. Sub(x, Add(c, n)) = (IF x >= Add(c, n) THEN x - Add(c, n) ELSE x - Add(c, n) + U32)
    BY <2>1, SubIs
  <2> QED BY <2>1, <2>2, <1>2, <1>8 DEF Idx
<1>9. ASSUME NEW n \in Idx, d + n < U32 PROVE Sub(Add(x, n), c) = d + n
  <2>1. Add(x, n) \in Idx /\ Add(x, n) = (IF x + n < U32 THEN x + n ELSE x + n - U32)
    BY AddIs
  <2>2. Sub(Add(x, n), c) = (IF Add(x, n) >= c THEN Add(x, n) - c ELSE Add(x, n) - c + U32)
    BY <2>1, SubIs
  <2> QED BY <2>1, <2>2, <1>2, <1>9 DEF Idx
<1>10. ASSUME NEW n \in Idx PROVE Sub(Add(c, n), c) = n
  <2>1. Add(c, n) \in Idx /\ Add(c, n) = (IF c + n < U32 THEN c + n ELSE c + n - U32)
    BY AddIs
  <2>2. Sub(Add(c, n), c) = (IF Add(c, n) >= c THEN Add(c, n) - c ELSE Add(c, n) - c + U32)
    BY <2>1, SubIs
  <2> QED BY <2>1, <2>2 DEF Idx
<1> QED BY <1>1, <1>4, <1>6, <1>7, <1>8, <1>9, <1>10

\* The same, one at a time.
LEMMA SubNat == ASSUME NEW c \in Idx, NEW x \in Idx PROVE Sub(x, c) \in Nat /\ Sub(x, c) \in Idx
BY SubFrom, SubIs

LEMMA SubSub ==
  ASSUME NEW c \in Idx, NEW x \in Idx, NEW y \in Idx, Sub(x, c) >= Sub(y, c)
  PROVE  Sub(x, y) = Sub(x, c) - Sub(y, c)
BY SubFrom

LEMMA SubMoved ==
  ASSUME NEW c \in Idx, NEW x \in Idx, NEW n \in Idx, Sub(x, c) >= n
  PROVE  Add(c, n) \in Idx /\ Sub(x, Add(c, n)) = Sub(x, c) - n
BY SubFrom, AddIs

LEMMA AddSub ==
  ASSUME NEW c \in Idx, NEW x \in Idx, NEW n \in Idx, Sub(x, c) + n < U32
  PROVE  Add(x, n) \in Idx /\ Sub(Add(x, n), c) = Sub(x, c) + n
BY SubFrom, AddIs

LEMMA AddSelf == ASSUME NEW c \in Idx, NEW n \in Idx PROVE Add(c, n) \in Idx /\ Sub(Add(c, n), c) = n
BY SubFrom, AddIs

LEMMA AddAdd ==
  ASSUME NEW x \in Idx, NEW a \in Idx, NEW b \in Idx, a + b < U32
  PROVE  Add(Add(x, a), b) = Add(x, a + b)
<1> USE U32Bound
<1>1. a + b \in Idx
  BY DEF Idx
<1>2. Add(x, a) \in Idx /\ Add(x, a) = (IF x + a < U32 THEN x + a ELSE x + a - U32)
  BY AddIs
<1>3. Add(x, a + b) = (IF x + (a + b) < U32 THEN x + (a + b) ELSE x + (a + b) - U32)
  BY <1>1, AddIs
<1>4. Add(Add(x, a), b) = (IF Add(x, a) + b < U32 THEN Add(x, a) + b ELSE Add(x, a) + b - U32)
  BY <1>2, AddIs
<1> QED BY <1>2, <1>3, <1>4 DEF Idx

-----------------------------------------------------------------------------
(* Positions in a ring.                                                    *)

LEMMA NoMultiple ==
  ASSUME NEW c \in Nat, c >= 1, NEW k \in Int
  PROVE  ~(0 < c * k /\ c * k < c)
<1>1. CASE k <= 0
  <2>1. c * k <= 0
    BY <1>1
  <2> QED BY <2>1
<1>2. CASE k >= 1
  <2>1. c * k >= c
    BY <1>2
  <2> QED BY <2>1
<1> QED BY <1>1, <1>2

\* The remainder is determined.
LEMMA AtUnique ==
  ASSUME NEW x \in Nat, NEW q \in Int, NEW r \in 0 .. Size - 1, x = Size * q + r
  PROVE  At(x) = r
<1>0. Size \in Nat /\ Size >= 1
  BY U32Bound
<1> DEFINE p == x \div Size
           s == x % Size
<1>1. p \in Int /\ s \in 0 .. Size - 1 /\ x = Size * p + s
  BY <1>0
<1> HIDE DEF p, s
<1>2. Size * (p - q) = r - s
  BY <1>0, <1>1
<1>3. Size * (q - p) = s - r
  BY <1>0, <1>1
<1>4. ~(0 < Size * (p - q) /\ Size * (p - q) < Size) /\ ~(0 < Size * (q - p) /\ Size * (q - p) < Size)
  BY <1>0, <1>1, NoMultiple
<1>5. r = s
  BY <1>0, <1>1, <1>2, <1>3, <1>4
<1> QED BY <1>5 DEF At, s

\* Going j entries on from o, also across the wrap of the index, goes j places
\* round the ring.
LEMMA AtAdd ==
  ASSUME NEW o \in Idx, NEW j \in 0 .. Size - 1
  PROVE  /\ At(Add(o, j)) = (IF At(o) + j < Size THEN At(o) + j ELSE At(o) + j - Size)
         /\ At(o) \in 0 .. Size - 1 /\ At(Add(o, j)) \in 0 .. Size - 1
<1> DEFINE q == o \div Size
           r == At(o)
<1>0. Size \in Nat /\ Size >= 1 /\ Turns \in Nat /\ U32 \in Nat /\ U32 = Size * Turns /\ o \in Nat /\ j \in Idx
  BY U32Bound DEF U32, Idx
<1>1. q \in Int /\ r \in 0 .. Size - 1 /\ o = Size * q + r
  BY <1>0 DEF At
<1>2. Add(o, j) = (IF o + j < U32 THEN o + j ELSE o + j - U32) /\ Add(o, j) \in Nat
  BY <1>0, AddIs DEF Idx
<1> HIDE DEF q, r
<1> DEFINE s == IF r + j < Size THEN r + j ELSE r + j - Size
<1>3. s \in 0 .. Size - 1
  BY <1>0, <1>1
<1>4. \E k \in Int : Add(o, j) = Size * k + s
  <2>1. CASE o + j < U32 /\ r + j < Size
    <3>1. Add(o, j) = Size * q + s
      BY <2>1, <1>0, <1>1, <1>2
    <3> QED BY <3>1, <1>1
  <2>2. CASE o + j < U32 /\ r + j >= Size
    <3>1. Add(o, j) = Size * q + Size + s
      BY <2>2, <1>0, <1>1, <1>2
    <3>2. Size * (q + 1) = Size * q + Size /\ q + 1 \in Int
      BY <1>0, <1>1
    <3> QED BY <3>1, <3>2
  <2>3. CASE o + j >= U32 /\ r + j < Size
    <3>1. Add(o, j) = Size * q - Size * Turns + s
      BY <2>3, <1>0, <1>1, <1>2
    <3>2. Size * (q - Turns) = Size * q - Size * Turns /\ q - Turns \in Int
      BY <1>0, <1>1
    <3> QED BY <3>1, <3>2
  <2>4. CASE o + j >= U32 /\ r + j >= Size
    <3>1. Add(o, j) = Size * q - Size * Turns + Size + s
      BY <2>4, <1>0, <1>1, <1>2
    <3>2. Size * (q - Turns + 1) = Size * q - Size * Turns + Size /\ q - Turns + 1 \in Int
      BY <1>0, <1>1
    <3> QED BY <3>1, <3>2
  <2> QED BY <2>1, <2>2, <2>3, <2>4, <1>0, <1>1
<1>5. At(Add(o, j)) = s
  <2> HIDE DEF s
  <2> QED BY <1>2, <1>3, <1>4, AtUnique
<1> QED BY <1>1, <1>3, <1>5 DEF r

\* The place of an entry tells how far it is from o.
LEMMA AtBack ==
  ASSUME NEW o \in Idx, NEW j \in 0 .. Size - 1
  PROVE  (At(Add(o, j)) - At(o)) % Size = j
<1> DEFINE a == At(Add(o, j)) - At(o)
<1>1. Size \in Nat \ {0} /\ j \in Int
  BY U32Bound
<1>2. At(Add(o, j)) = (IF At(o) + j < Size THEN At(o) + j ELSE At(o) + j - Size) /\ At(o) \in 0 .. Size - 1
  BY AtAdd
<1>3. (a = j \/ a = j - Size) /\ a \in Int
  BY <1>1, <1>2
<1> HIDE DEF a
<1>4. a % Size = j
  BY <1>1, <1>3, ModIs
<1> QED BY <1>4 DEF a

\* Entries less than a turn apart have different places.
LEMMA AtDiffer ==
  ASSUME NEW o \in Idx, NEW i \in 0 .. Size - 1, NEW j \in 0 .. Size - 1, At(Add(o, i)) = At(Add(o, j))
  PROVE  i = j
<1>1. (At(Add(o, i)) - At(o)) % Size = i /\ (At(Add(o, j)) - At(o)) % Size = j
  BY AtBack
<1> QED BY <1>1

\* Every place of the ring is that of an entry less than a turn from o.
LEMMA AtReach ==
  ASSUME NEW o \in Idx, NEW i \in 0 .. Size - 1, NEW k, k = (i - At(o)) % Size
  PROVE  k \in 0 .. Size - 1 /\ At(Add(o, k)) = i
<1>0. Size \in Nat \ {0} /\ Size >= 1
  BY U32Bound
<1>1. At(o) \in 0 .. Size - 1
  <2>1. 0 \in 0 .. Size - 1
    BY <1>0
  <2> QED BY <2>1, AtAdd
<1> DEFINE e == At(o)
           a == i - e
<1> HIDE DEF e
<1>2. a \in Int /\ a < Size /\ a + Size >= 0 /\ a + Size > 0
  <2>1. i \in Int /\ e \in Int /\ i >= 0 /\ i < Size /\ e >= 0 /\ e < Size
    BY <1>0, <1>1 DEF e
  <2> QED BY <1>0, <2>1
<1> HIDE DEF a
<1>3. (a >= 0 => a % Size = a) /\ (a < 0 => a % Size = a + Size)
  BY <1>0, <1>2, ModIs
<1>4. k = a % Size
  BY DEF a, e
<1>5. k \in 0 .. Size - 1 /\ (a >= 0 => k = a) /\ (a < 0 => k = a + Size)
  BY <1>0, <1>2, <1>3, <1>4
<1>6. At(Add(o, k)) = (IF At(o) + k < Size THEN At(o) + k ELSE At(o) + k - Size)
  BY <1>5, AtAdd
<1>7. At(Add(o, k)) = i
  BY <1>0, <1>1, <1>2, <1>5, <1>6 DEF a, e
<1> QED BY <1>5, <1>7

LEMMA AddZero == ASSUME NEW x \in Idx PROVE Add(x, 0) = x /\ 0 \in Idx
<1>1. 0 \in Idx /\ U32 \in Nat
  BY U32Bound DEF Idx
<1>2. Add(x, 0) = (IF x + 0 < U32 THEN x + 0 ELSE x + 0 - U32)
  BY <1>1, AddIs
<1> QED BY <1>1, <1>2 DEF Idx

\* A count of entries of a ring is less than the indices' range.
LEMMA SmallIdx == \A n \in 0 .. Size : n \in Idx /\ n \in Nat
BY U32Bound DEF Idx

-----------------------------------------------------------------------------
(* The ring the program produces into.                                     *)

Rings == [prod : Idx, cons : Idx, cprod : Idx, ccons : Idx, at : [0 .. Size - 1 -> Nat]]

\* The entries from index i on hold the frames s.
Holds(r, i, s) == \A k \in 1 .. Len(s) : r.at[At(Add(i, k - 1))] = s[k]

\* Counted from the kernel's index, the memory's producer index is not ahead of
\* the program's, o; the cached one is ahead of it by the entries reserved for
\* the frames h; and the cached consumer index is at most a turn ahead, so the
\* entries the program may reserve are free.
Produced(r, o, h) ==
  /\ Sub(r.prod, r.cons) <= Sub(o, r.cons)
  /\ Sub(o, r.cons) + Len(h) = Sub(r.cprod, r.cons)
  /\ Sub(r.cprod, r.cons) <= Sub(r.ccons, r.cons)
  /\ Sub(r.ccons, r.cons) <= Size

\* And the entries between the kernel's index and o hold what was submitted.
PSide(r, o, h, s) ==
  /\ r \in Rings /\ o \in Idx /\ h \in Seq(Nat) /\ s \in Seq(Nat)
  /\ Produced(r, o, h)
  /\ Len(s) = Sub(o, r.cons)
  /\ Holds(r, r.cons, s)

\* A refreshed cached consumer index is a whole turn ahead.
LEMMA NbFreeKeeps ==
  ASSUME NEW r, NEW o, NEW h, NEW s, PSide(r, o, h, s), NEW nb \in Nat
  PROVE  LET f == NbFree(r, nb)
         IN  PSide(f.r, o, h, s) /\ f.n = Sub(f.r.ccons, f.r.cprod) /\ f.r.at = r.at /\ f.r.prod = r.prod
<1>0. r \in Rings /\ o \in Idx /\ Size \in Nat
  BY U32Bound DEF PSide
<1>1. CASE Sub(r.ccons, r.cprod) >= nb
  BY <1>1 DEF NbFree
<1>2. CASE ~(Sub(r.ccons, r.cprod) >= nb)
  <2> DEFINE r1 == [r EXCEPT !.ccons = Add(r.cons, Size)]
  <2>1. Size \in Idx /\ r.cons \in Idx
    BY <1>0, SmallIdx DEF Rings
  <2>2. Add(r.cons, Size) \in Idx /\ Sub(Add(r.cons, Size), r.cons) = Size
    BY <2>1, AddIs, SubFrom
  <2>3. /\ r1 \in Rings /\ r1.ccons = Add(r.cons, Size)
        /\ r1.prod = r.prod /\ r1.cons = r.cons /\ r1.cprod = r.cprod /\ r1.at = r.at
    BY <1>0, <2>2 DEF Rings
  <2>4. NbFree(r, nb) = [r |-> r1, n |-> Sub(r1.ccons, r1.cprod)]
    BY <1>2 DEF NbFree
  <2> HIDE DEF r1
  <2>5. Sub(r.cprod, r.cons) <= Size
    <3>1. Sub(r.cprod, r.cons) \in Nat /\ Sub(r.ccons, r.cons) \in Nat
      BY <1>0, SubFrom DEF Rings
    <3> QED BY <3>1, <1>0 DEF PSide, Produced
  <2>6. PSide(r1, o, h, s)
    BY <1>0, <2>2, <2>3, <2>5 DEF PSide, Produced, Holds
  <2>7. NbFree(r, nb).r = r1 /\ NbFree(r, nb).n = Sub(r1.ccons, r1.cprod)
    BY <2>4
  <2> QED BY <2>3, <2>6, <2>7
<1> QED BY <1>1, <1>2

\* A reservation that succeeds takes only free entries.
LEMMA ReserveKeeps ==
  ASSUME NEW r, NEW o, NEW s, PSide(r, o, <<>>, s), NEW h \in Seq(Nat)
  PROVE  LET v == Reserve(r, Len(h))
         IN  /\ v.n = Len(h) => PSide(v.r, o, h, s)
             /\ v.n # Len(h) => PSide(v.r, o, <<>>, s)
             /\ v.r.prod = r.prod
<1> DEFINE nb == Len(h)
           f == NbFree(r, nb)
           g == f.r
<1>0. nb \in Nat
  OBVIOUS
<1>1. PSide(g, o, <<>>, s) /\ f.n = Sub(g.ccons, g.cprod) /\ g.prod = r.prod
  BY <1>0, NbFreeKeeps
<1>2. g \in Rings /\ o \in Idx /\ s \in Seq(Nat) /\ Size \in Nat
  BY <1>1, U32Bound DEF PSide
<1> HIDE DEF f
<1>a. g.prod \in Idx /\ g.cons \in Idx /\ g.cprod \in Idx /\ g.ccons \in Idx
  BY <1>2 DEF Rings
<1>3. /\ Sub(g.cprod, g.cons) \in Nat /\ Sub(g.ccons, g.cons) \in Nat /\ Sub(o, g.cons) \in Nat
      /\ Sub(g.ccons, g.cons) >= Sub(g.cprod, g.cons) =>
           Sub(g.ccons, g.cprod) = Sub(g.ccons, g.cons) - Sub(g.cprod, g.cons)
  BY <1>a, <1>2, SubNat, SubSub
<1>4. /\ Sub(g.prod, g.cons) <= Sub(o, g.cons) /\ Sub(o, g.cons) = Sub(g.cprod, g.cons)
      /\ Sub(g.cprod, g.cons) <= Sub(g.ccons, g.cons) /\ Sub(g.ccons, g.cons) <= Size
  <2>1. Len(<<>>) = 0
    OBVIOUS
  <2> QED BY <1>1, <1>3, <2>1 DEF PSide, Produced
<1>5. CASE f.n < nb
  <2>1. Reserve(r, nb) = [r |-> g, n |-> 0]
    BY <1>5 DEF Reserve, f
  <2>2. f.n \in Nat /\ nb # 0
    BY <1>0, <1>1, <1>3, <1>4, <1>5
  <2> QED BY <2>1, <2>2, <1>1
<1>6. CASE ~(f.n < nb)
  <2> DEFINE x == [g EXCEPT !.cprod = Add(@, nb)]
  <2>1. Reserve(r, nb) = [r |-> x, n |-> nb]
    BY <1>6 DEF Reserve, f
  <2>2. nb <= Size /\ Sub(g.cprod, g.cons) + nb <= Sub(g.ccons, g.cons)
    BY <1>0, <1>1, <1>2, <1>3, <1>4, <1>6
  <2>3. nb \in Idx /\ Sub(g.cprod, g.cons) + nb < U32
    BY <2>2, <1>0, <1>2, <1>3, <1>4, U32Bound DEF Idx
  <2>4. Add(g.cprod, nb) \in Idx /\ Sub(Add(g.cprod, nb), g.cons) = Sub(g.cprod, g.cons) + nb
    BY <2>3, <1>a, AddSub
  <2>5. /\ x \in Rings /\ x.cprod = Add(g.cprod, nb)
        /\ x.prod = g.prod /\ x.cons = g.cons /\ x.ccons = g.ccons /\ x.at = g.at
    BY <2>4, <1>2 DEF Rings
  <2> HIDE DEF x, g, nb
  <2>6. Produced(x, o, h)
    BY <2>2, <2>4, <2>5, <1>4 DEF Produced, nb
  <2>7. PSide(x, o, h, s)
    BY <2>5, <2>6, <1>1, <1>2 DEF PSide, Holds
  <2> QED BY <2>1, <2>5, <2>7, <1>1 DEF nb
<1> QED BY <1>5, <1>6

\* The index that is so many entries back.
LEMMA BackTo ==
  ASSUME NEW c \in Idx, NEW x \in Idx, NEW o \in Idx, NEW n \in Idx, Sub(o, c) + n = Sub(x, c)
  PROVE  Sub(x, n) = o /\ Add(o, n) = x
<1>1. Sub(x, c) = (IF x >= c THEN x - c ELSE x - c + U32) /\ Sub(o, c) = (IF o >= c THEN o - c ELSE o - c + U32)
  BY SubIs
<1>2. Sub(x, n) = (IF x >= n THEN x - n ELSE x - n + U32) /\ Add(o, n) = (IF o + n < U32 THEN o + n ELSE o + n - U32)
  BY SubIs, AddIs
<1>3. U32 \in Nat
  BY U32Bound
<1> QED BY <1>1, <1>2, <1>3 DEF Idx

\* Fill writes the frames into the entries from o on and leaves the others.
LEMMA FillWrites ==
  ASSUME NEW r \in Rings, NEW o \in Idx, NEW h \in Seq(Nat), Len(h) <= Size, Sub(r.cprod, Len(h)) = o
  PROVE  LET f == Fill(r, h)
         IN  /\ f \in Rings /\ f.prod = r.prod /\ f.cons = r.cons /\ f.cprod = r.cprod /\ f.ccons = r.ccons
             /\ Holds(f, o, h)
             /\ \A i \in 0 .. Size - 1 :
                  (\A j \in 0 .. Len(h) - 1 : At(Add(o, j)) # i) => f.at[i] = r.at[i]
<1> DEFINE K(i) == (i - At(o)) % Size
           t == [i \in 0 .. Size - 1 |-> IF K(i) < Len(h) THEN h[K(i) + 1] ELSE r.at[i]]
           f == [r EXCEPT !.at = t]
<1>0. Size \in Nat /\ Len(h) \in Nat /\ DOMAIN r.at = 0 .. Size - 1
  BY U32Bound DEF Rings
<1>1. Fill(r, h) = f
  BY <1>0 DEF Fill
<1>2. \A i \in 0 .. Size - 1 : K(i) \in 0 .. Size - 1 /\ At(Add(o, K(i))) = i
  BY AtReach
<1>3. \A j \in 0 .. Size - 1 : At(Add(o, j)) \in 0 .. Size - 1 /\ K(At(Add(o, j))) = j
  BY AtAdd, AtBack
<1> HIDE DEF K
<1>4. t \in [0 .. Size - 1 -> Nat]
  <2>1. ASSUME NEW i \in 0 .. Size - 1
        PROVE  (IF K(i) < Len(h) THEN h[K(i) + 1] ELSE r.at[i]) \in Nat
    <3>1. K(i) \in 0 .. Size - 1 /\ r.at[i] \in Nat
      BY <1>2 DEF Rings
    <3> QED BY <3>1, <1>0
  <2> QED BY <2>1
<1>5. \A i \in 0 .. Size - 1 : t[i] = IF K(i) < Len(h) THEN h[K(i) + 1] ELSE r.at[i]
  OBVIOUS
<1> HIDE DEF t
<1>6. f \in Rings /\ f.prod = r.prod /\ f.cons = r.cons /\ f.cprod = r.cprod /\ f.ccons = r.ccons /\ f.at = t
  BY <1>4 DEF Rings
<1>7. ASSUME NEW k \in 1 .. Len(h) PROVE t[At(Add(o, k - 1))] = h[k]
  <2>1. k - 1 \in 0 .. Size - 1 /\ k - 1 < Len(h) /\ k - 1 + 1 = k
    BY <1>0
  <2>2. At(Add(o, k - 1)) \in 0 .. Size - 1 /\ K(At(Add(o, k - 1))) = k - 1
    BY <2>1, <1>3
  <2> QED BY <2>1, <2>2, <1>5
<1>8. ASSUME NEW i \in 0 .. Size - 1, \A j \in 0 .. Len(h) - 1 : At(Add(o, j)) # i
      PROVE  t[i] = r.at[i]
  <2>1. ~(K(i) < Len(h))
    BY <1>0, <1>2, <1>8
  <2> QED BY <2>1, <1>5
<1> HIDE DEF f
<1> QED BY <1>1, <1>6, <1>7, <1>8 DEF Holds

\* The entries reserved are none of those the kernel has still to take.
LEMMA FillKeeps ==
  ASSUME NEW r, NEW o, NEW h, NEW s, PSide(r, o, h, s)
  PROVE  PSide(Fill(r, h), o, h, s) /\ Holds(Fill(r, h), o, h) /\ Fill(r, h).prod = r.prod
<1>0. /\ r \in Rings /\ o \in Idx /\ h \in Seq(Nat) /\ s \in Seq(Nat) /\ Size \in Nat
      /\ r.cons \in Idx /\ r.cprod \in Idx /\ r.ccons \in Idx
      /\ Len(h) \in Nat /\ Len(s) \in Nat
  BY U32Bound DEF PSide, Rings
<1>1. /\ Sub(o, r.cons) \in Nat /\ Sub(r.cprod, r.cons) \in Nat /\ Sub(r.ccons, r.cons) \in Nat
  BY <1>0, SubNat
<1>2. Len(s) = Sub(o, r.cons) /\ Len(s) + Len(h) = Sub(r.cprod, r.cons) /\ Len(s) + Len(h) <= Size
  BY <1>0, <1>1 DEF PSide, Produced
<1>3. Len(h) \in Idx /\ Len(s) \in Idx
  BY <1>0, <1>2, SmallIdx
<1>4. Sub(r.cprod, Len(h)) = o
  BY <1>0, <1>2, <1>3, BackTo
<1>5. o = Add(r.cons, Len(s))
  BY <1>0, <1>2, SubFrom
<1> DEFINE f == Fill(r, h)
<1>6. /\ f \in Rings /\ f.prod = r.prod /\ f.cons = r.cons /\ f.cprod = r.cprod /\ f.ccons = r.ccons
      /\ Holds(f, o, h)
      /\ \A i \in 0 .. Size - 1 : (\A j \in 0 .. Len(h) - 1 : At(Add(o, j)) # i) => f.at[i] = r.at[i]
  <2>1. Len(h) <= Size /\ r \in Rings /\ o \in Idx /\ h \in Seq(Nat)
    BY <1>0, <1>2
  <2> QED BY <2>1, <1>4, FillWrites, Zenon
<1> HIDE DEF f
<1>7. ASSUME NEW k \in 1 .. Len(s) PROVE f.at[At(Add(f.cons, k - 1))] = s[k]
  <2>1. k - 1 \in 0 .. Size - 1 /\ k \in Nat
    BY <1>0, <1>2
  <2>2. ASSUME NEW j \in 0 .. Len(h) - 1 PROVE At(Add(o, j)) # At(Add(r.cons, k - 1))
    <3>1. j \in 0 .. Size - 1 /\ Len(s) + j \in 0 .. Size - 1 /\ Len(s) + j # k - 1 /\ j \in Nat
      BY <1>0, <1>2, <2>1, SMTT(40)
    <3>2. j \in Idx /\ Len(s) + j < U32
      BY <3>1, <1>0, U32Bound DEF Idx
    <3>3. Add(o, j) = Add(r.cons, Len(s) + j)
      <4>1. Add(Add(r.cons, Len(s)), j) = Add(r.cons, Len(s) + j)
        BY <3>2, <1>0, <1>3, AddAdd, ZenonT(60)
      <4> QED BY <4>1, <1>5
    <3> QED BY <3>1, <3>3, <2>1, <1>0, AtDiffer
  <2>3. At(Add(r.cons, k - 1)) \in 0 .. Size - 1
    BY <1>0, <2>1, AtAdd
  <2>4. r.at[At(Add(r.cons, k - 1))] = s[k]
    BY DEF PSide, Holds
  <2> QED BY <2>2, <2>3, <2>4, <1>6
<1>8. Produced(f, o, h) /\ Len(s) = Sub(o, f.cons)
  BY <1>6 DEF PSide, Produced
<1> QED BY <1>0, <1>6, <1>7, <1>8 DEF PSide, Holds, f

\* The frames written become the last submitted.
LEMMA SubmitKeeps ==
  ASSUME NEW r, NEW o, NEW h, NEW s, PSide(r, o, h, s), Holds(r, o, h)
  PROVE  PSide(r, Add(o, Len(h)), <<>>, s \o h)
<1>0. /\ r \in Rings /\ o \in Idx /\ h \in Seq(Nat) /\ s \in Seq(Nat) /\ Size \in Nat
      /\ r.prod \in Idx /\ r.cons \in Idx /\ r.cprod \in Idx /\ r.ccons \in Idx
      /\ Len(h) \in Nat /\ Len(s) \in Nat
  BY U32Bound DEF PSide, Rings
<1>1. /\ Sub(r.prod, r.cons) \in Nat /\ Sub(o, r.cons) \in Nat
      /\ Sub(r.cprod, r.cons) \in Nat /\ Sub(r.ccons, r.cons) \in Nat
  BY <1>0, SubNat
<1>2. Len(s) = Sub(o, r.cons) /\ Len(s) + Len(h) = Sub(r.cprod, r.cons) /\ Len(s) + Len(h) <= Size
  BY <1>0, <1>1 DEF PSide, Produced
<1>3. Len(h) \in Idx /\ Len(s) \in Idx
  BY <1>0, <1>2, SmallIdx
<1>4. Add(o, Len(h)) = r.cprod
  BY <1>0, <1>2, <1>3, BackTo
<1>5. o = Add(r.cons, Len(s))
  BY <1>0, <1>2, SubFrom, SMTT(40)
<1>6. s \o h \in Seq(Nat) /\ Len(s \o h) = Len(s) + Len(h)
  BY <1>0
<1>7. ASSUME NEW k \in 1 .. Len(s \o h) PROVE r.at[At(Add(r.cons, k - 1))] = (s \o h)[k]
  <2>0. k \in Nat /\ k >= 1 /\ k <= Len(s) + Len(h)
    BY <1>0, <1>6
  <2>1. CASE k <= Len(s)
    <3>1. k \in 1 .. Len(s) /\ (s \o h)[k] = s[k]
      BY <1>0, <2>0, <2>1
    <3> QED BY <3>1 DEF PSide, Holds
  <2>2. CASE k > Len(s)
    <3> DEFINE j == k - Len(s)
    <3>1. j \in 1 .. Len(h) /\ (s \o h)[k] = h[j]
      BY <1>0, <2>0, <2>2
    <3>2. j - 1 \in Idx /\ Len(s) + (j - 1) < U32 /\ Len(s) + (j - 1) = k - 1
      <4>1. j - 1 \in Nat /\ j - 1 <= Size /\ k - 1 <= Size /\ Len(s) + (j - 1) = k - 1
        <5>1. Len(s) + Len(h) <= Size /\ Len(s) \in Nat /\ Len(h) \in Nat /\ Size \in Nat
          BY <1>0, <1>2
        <5> HIDE <1>2
        <5> QED BY <5>1, <2>0, <2>2
      <4>2. j - 1 \in Idx /\ Size < U32 /\ U32 \in Nat
        BY <1>0, <4>1, U32Bound, SmallIdx
      <4> QED BY <1>0, <2>0, <4>1, <4>2
    <3>3. Add(o, j - 1) = Add(r.cons, k - 1)
      <4>1. Add(Add(r.cons, Len(s)), j - 1) = Add(r.cons, Len(s) + (j - 1))
        <5> HIDE DEF j
        <5> QED BY <3>2, <1>0, <1>3, AddAdd
      <4> QED BY <4>1, <3>2, <1>5
    <3>4. r.at[At(Add(o, j - 1))] = h[j]
      BY <3>1 DEF Holds
    <3> QED BY <3>1, <3>3, <3>4
  <2> QED BY <1>0, <2>0, <2>1, <2>2
<1>8. Len(<<>>) = 0 /\ <<>> \in Seq(Nat)
  OBVIOUS
<1>9. Produced(r, Add(o, Len(h)), <<>>)
  BY <1>0, <1>1, <1>2, <1>4, <1>8 DEF PSide, Produced
<1> QED BY <1>0, <1>2, <1>4, <1>6, <1>7, <1>8, <1>9 DEF PSide, Holds

\* The store of the producer index reaches the memory.
LEMMA StoreKeeps ==
  ASSUME NEW r, NEW o, NEW h, NEW s, PSide(r, o, h, s)
  PROVE  LET d == [r EXCEPT !.prod = o]
         IN  PSide(d, o, h, s) /\ d.prod = o /\ d.at = r.at
<1> DEFINE d == [r EXCEPT !.prod = o]
<1>0. r \in Rings /\ o \in Idx /\ r.cons \in Idx
  BY DEF PSide, Rings
<1>1. d \in Rings /\ d.prod = o /\ d.cons = r.cons /\ d.cprod = r.cprod /\ d.ccons = r.ccons /\ d.at = r.at
  BY <1>0 DEF Rings
<1>2. Sub(o, r.cons) \in Nat
  BY <1>0, SubNat
<1> HIDE DEF d
<1>3. PSide(d, o, h, s)
  BY <1>0, <1>1, <1>2 DEF PSide, Produced, Holds
<1> QED BY <1>1, <1>3 DEF d

\* What the kernel takes is the first frame submitted.
LEMMA TakeKeeps ==
  ASSUME NEW r, NEW o, NEW h, NEW s, PSide(r, o, h, s), r.prod # r.cons
  PROVE  LET t == [r EXCEPT !.cons = Add(@, 1)]
         IN  /\ PSide(t, o, h, Tail(s)) /\ t.prod = r.prod /\ t.at = r.at
             /\ s # <<>> /\ r.at[At(r.cons)] = Head(s)
<1> DEFINE t == [r EXCEPT !.cons = Add(@, 1)]
<1>0. /\ r \in Rings /\ o \in Idx /\ h \in Seq(Nat) /\ s \in Seq(Nat) /\ Size \in Nat
      /\ r.prod \in Idx /\ r.cons \in Idx /\ r.cprod \in Idx /\ r.ccons \in Idx
      /\ Len(h) \in Nat /\ Len(s) \in Nat
  BY U32Bound DEF PSide, Rings
<1>1. /\ Sub(r.prod, r.cons) \in Nat /\ Sub(o, r.cons) \in Nat
      /\ Sub(r.cprod, r.cons) \in Nat /\ Sub(r.ccons, r.cons) \in Nat
  BY <1>0, SubNat
<1>2. Sub(r.prod, r.cons) # 0
  BY <1>0, SubFrom
<1>3. /\ Sub(r.prod, r.cons) >= 1 /\ Sub(o, r.cons) >= 1
      /\ Sub(r.cprod, r.cons) >= 1 /\ Sub(r.ccons, r.cons) >= 1
  BY <1>0, <1>1, <1>2 DEF PSide, Produced
<1>4. 1 \in Idx
  BY U32Bound DEF Idx
<1> DEFINE c == Add(r.cons, 1)
<1>5. c \in Idx /\ Sub(r.prod, c) = Sub(r.prod, r.cons) - 1 /\ Sub(o, c) = Sub(o, r.cons) - 1
  BY <1>0, <1>3, <1>4, SubMoved
<1>6. Sub(r.cprod, c) = Sub(r.cprod, r.cons) - 1 /\ Sub(r.ccons, c) = Sub(r.ccons, r.cons) - 1
  BY <1>0, <1>3, <1>4, SubMoved
<1>7. t \in Rings /\ t.cons = c /\ t.prod = r.prod /\ t.cprod = r.cprod /\ t.ccons = r.ccons /\ t.at = r.at
  BY <1>0, <1>5 DEF Rings
<1>8. Len(s) = Sub(o, r.cons) /\ Len(s) <= Size
  BY <1>0, <1>1 DEF PSide, Produced
<1>9. s # <<>> /\ Tail(s) \in Seq(Nat) /\ Len(Tail(s)) = Len(s) - 1
  BY <1>0, <1>3, <1>8
<1>10. r.at[At(r.cons)] = Head(s)
  <2>1. 1 \in 1 .. Len(s) /\ Add(r.cons, 1 - 1) = r.cons
    BY <1>0, <1>3, <1>8, AddZero
  <2>2. r.at[At(Add(r.cons, 1 - 1))] = s[1]
    BY <2>1 DEF PSide, Holds
  <2> QED BY <2>1, <2>2, <1>0, <1>9
<1>11. ASSUME NEW k \in 1 .. Len(Tail(s)) PROVE r.at[At(Add(c, k - 1))] = Tail(s)[k]
  <2>1. k + 1 \in 1 .. Len(s) /\ Tail(s)[k] = s[k + 1] /\ k + 1 - 1 = 1 + (k - 1)
    BY <1>0, <1>9
  <2>2. k - 1 \in Idx /\ 1 + (k - 1) < U32
    BY <1>0, <1>8, <1>9, U32Bound DEF Idx
  <2>3. Add(c, k - 1) = Add(r.cons, k + 1 - 1)
    <3>1. Add(Add(r.cons, 1), k - 1) = Add(r.cons, 1 + (k - 1))
      BY <1>0, <1>4, <2>2, AddAdd
    <3> QED BY <3>1, <2>1
  <2>4. r.at[At(Add(r.cons, k + 1 - 1))] = s[k + 1]
    BY <2>1 DEF PSide, Holds
  <2> QED BY <2>1, <2>3, <2>4
<1> HIDE DEF c, t
<1>12. Produced(t, o, h)
  BY <1>0, <1>1, <1>3, <1>5, <1>6, <1>7 DEF PSide, Produced
<1>13. PSide(t, o, h, Tail(s))
  BY <1>0, <1>1, <1>5, <1>7, <1>8, <1>9, <1>11, <1>12 DEF PSide, Holds
<1> QED BY <1>7, <1>9, <1>10, <1>13 DEF t

-----------------------------------------------------------------------------
(* The ring the program consumes.                                          *)

\* Counted from the released index, the program has peeked g entries, all among
\* those it has seen, and those among the ones written; what the kernel holds
\* still has a place.
CSide(r, g, s) ==
  /\ r \in Rings /\ g \in Nat /\ s \in Seq(Nat)
  /\ Sub(r.ccons, r.cons) = g
  /\ g <= Sub(r.cprod, r.cons)
  /\ Sub(r.cprod, r.cons) <= Sub(r.prod, r.cons)
  /\ Sub(r.prod, r.cons) + Len(s) <= Size

\* The frames in the ring.
Waiting(r) == Entries(r, r.cons, Sub(r.prod, r.cons))

LEMMA EntriesAre ==
  ASSUME NEW r \in Rings, NEW i \in Idx, NEW n \in 0 .. Size
  PROVE  /\ Entries(r, i, n) \in Seq(Nat) /\ Len(Entries(r, i, n)) = n
         /\ \A k \in 1 .. n : Entries(r, i, n)[k] = r.at[At(Add(i, k - 1))]
<1> DEFINE E(k) == r.at[At(Add(i, k - 1))]
<1>0. n \in Nat /\ Size \in Nat
  BY U32Bound
<1>1. ASSUME NEW k \in 1 .. n PROVE E(k) \in Nat
  <2>1. k - 1 \in 0 .. Size - 1
    BY <1>0
  <2>2. At(Add(i, k - 1)) \in 0 .. Size - 1
    BY <2>1, AtAdd
  <2> QED BY <2>2 DEF Rings
<1>2. Entries(r, i, n) = [k \in 1 .. n |-> E(k)]
  BY DEF Entries
<1> HIDE DEF E
<1>3. [k \in 1 .. n |-> E(k)] \in Seq(Nat) /\ Len([k \in 1 .. n |-> E(k)]) = n
  BY <1>0, <1>1
<1> QED BY <1>2, <1>3 DEF E

LEMMA CSideFacts ==
  ASSUME NEW r, NEW g, NEW s, CSide(r, g, s)
  PROVE  /\ r \in Rings /\ g \in Nat /\ s \in Seq(Nat) /\ Len(s) \in Nat /\ Size \in Nat
         /\ r.prod \in Idx /\ r.cons \in Idx /\ r.cprod \in Idx /\ r.ccons \in Idx
         /\ Sub(r.prod, r.cons) \in 0 .. Size /\ Sub(r.cprod, r.cons) \in 0 .. Size
         /\ g \in 0 .. Size /\ g <= Sub(r.prod, r.cons)
<1>0. /\ r \in Rings /\ g \in Nat /\ s \in Seq(Nat) /\ Len(s) \in Nat /\ Size \in Nat
      /\ r.prod \in Idx /\ r.cons \in Idx /\ r.cprod \in Idx /\ r.ccons \in Idx
  BY U32Bound DEF CSide, Rings
<1>1. Sub(r.prod, r.cons) \in Nat /\ Sub(r.cprod, r.cons) \in Nat
  BY <1>0, SubNat
<1> QED BY <1>0, <1>1 DEF CSide

\* Peeking, after everything peeked before was released.
LEMMA PeekKeeps ==
  ASSUME NEW r, NEW s, CSide(r, 0, s), NEW nb \in Nat
  PROVE  LET p == Peek(r, nb)
         IN  CSide(p.r, p.n, s) /\ Waiting(p.r) = Waiting(r) /\ p.n \in Nat
<1>0. /\ r \in Rings /\ s \in Seq(Nat) /\ Len(s) \in Nat /\ Size \in Nat
      /\ r.prod \in Idx /\ r.cons \in Idx /\ r.cprod \in Idx /\ r.ccons \in Idx
      /\ Sub(r.prod, r.cons) \in 0 .. Size /\ Sub(r.cprod, r.cons) \in 0 .. Size
  BY CSideFacts
<1>1. r.ccons = r.cons
  <2>1. Sub(r.ccons, r.cons) = 0
    BY DEF CSide
  <2> QED BY <1>0, <2>1, SubFrom
<1> DEFINE a == IF r.cprod = r.ccons THEN [r EXCEPT !.cprod = r.prod] ELSE r
           n == SegMin(Sub(a.cprod, a.ccons), nb)
           b == [a EXCEPT !.ccons = Add(@, n)]
<1>2. /\ a \in Rings /\ a.prod = r.prod /\ a.cons = r.cons /\ a.ccons = r.cons /\ a.at = r.at
      /\ a.cprod = r.prod \/ a.cprod = r.cprod
  <2>1. CASE r.cprod = r.ccons
    BY <2>1, <1>0, <1>1 DEF Rings
  <2>2. CASE ~(r.cprod = r.ccons)
    BY <2>2, <1>0, <1>1
  <2> QED BY <2>1, <2>2
<1>3. Peek(r, nb) = [r |-> b, n |-> n]
  <2>1. NbAvail(r, nb) = [r |-> a, n |-> n]
    BY DEF NbAvail
  <2> HIDE DEF a, n
  <2> QED BY <2>1 DEF Peek
<1> HIDE DEF a
<1>4. Sub(a.cprod, a.cons) \in 0 .. Size /\ Sub(a.cprod, a.cons) <= Sub(r.prod, r.cons)
  BY <1>0, <1>2 DEF CSide
<1>5. n \in 0 .. Size /\ n <= Sub(a.cprod, a.cons)
  BY <1>0, <1>2, <1>4 DEF SegMin
<1> HIDE DEF n
<1>6. n \in Idx
  BY <1>5, SmallIdx
<1>7. Add(r.cons, n) \in Idx /\ Sub(Add(r.cons, n), r.cons) = n
  BY <1>0, <1>6, AddSelf
<1>8. b \in Rings /\ b.prod = r.prod /\ b.cons = r.cons /\ b.ccons = Add(r.cons, n) /\ b.cprod = a.cprod /\ b.at = r.at
  BY <1>2, <1>7 DEF Rings
<1> HIDE DEF b
<1>9. CSide(b, n, s)
  BY <1>0, <1>2, <1>4, <1>5, <1>7, <1>8 DEF CSide
<1>10. Waiting(b) = Waiting(r)
  BY <1>8 DEF Waiting, Entries
<1> QED BY <1>3, <1>5, <1>9, <1>10

-----------------------------------------------------------------------------
(* Frames moving between places.                                           *)

Rg(s) == {s[i] : i \in 1 .. Len(s)}

\* w is a followed by b.
Joins(w, a, b) ==
  /\ w \in Seq(Nat) /\ a \in Seq(Nat) /\ b \in Seq(Nat)
  /\ Len(w) = Len(a) + Len(b)
  /\ \A k \in 1 .. Len(a) : w[k] = a[k]
  /\ \A k \in 1 .. Len(b) : w[Len(a) + k] = b[k]

LEMMA JoinsRg ==
  ASSUME NEW w, NEW a, NEW b, Joins(w, a, b)
  PROVE  /\ Rg(w) = Rg(a) \cup Rg(b) /\ Len(w) = Len(a) + Len(b) /\ Len(a) \in Nat /\ Len(b) \in Nat
         /\ w \in Seq(Nat) /\ a \in Seq(Nat) /\ b \in Seq(Nat)
<1>0. Len(a) \in Nat /\ Len(b) \in Nat /\ Len(w) \in Nat /\ Len(w) = Len(a) + Len(b)
  BY DEF Joins
<1>1. ASSUME NEW i \in 1 .. Len(w) PROVE w[i] \in Rg(a) \cup Rg(b)
  <2>1. CASE i <= Len(a)
    <3>1. i \in 1 .. Len(a) /\ w[i] = a[i]
      BY <1>0, <2>1 DEF Joins
    <3> QED BY <3>1 DEF Rg
  <2>2. CASE i > Len(a)
    <3> DEFINE j == i - Len(a)
    <3>1. j \in 1 .. Len(b) /\ Len(a) + j = i
      BY <1>0, <2>2
    <3>2. w[Len(a) + j] = b[j]
      BY <3>1 DEF Joins
    <3> QED BY <3>1, <3>2 DEF Rg
  <2> QED BY <1>0, <2>1, <2>2
<1>2. ASSUME NEW i \in 1 .. Len(a) PROVE a[i] \in Rg(w)
  <2>1. i \in 1 .. Len(w) /\ w[i] = a[i]
    BY <1>0 DEF Joins
  <2> QED BY <2>1 DEF Rg
<1>3. ASSUME NEW i \in 1 .. Len(b) PROVE b[i] \in Rg(w)
  <2>1. Len(a) + i \in 1 .. Len(w) /\ w[Len(a) + i] = b[i]
    BY <1>0 DEF Joins
  <2> QED BY <2>1 DEF Rg
<1>4. Rg(w) = Rg(a) \cup Rg(b)
  BY <1>1, <1>2, <1>3 DEF Rg
<1>5. w \in Seq(Nat) /\ a \in Seq(Nat) /\ b \in Seq(Nat)
  BY DEF Joins
<1> QED BY <1>0, <1>4, <1>5

LEMMA JoinsCat == ASSUME NEW a \in Seq(Nat), NEW b \in Seq(Nat) PROVE Joins(a \o b, a, b)
BY DEF Joins

LEMMA JoinsSplit ==
  ASSUME NEW w \in Seq(Nat), NEW n \in 0 .. Len(w)
  PROVE  Joins(w, SubSeq(w, 1, n), SubSeq(w, n + 1, Len(w)))
<1> DEFINE a == SubSeq(w, 1, n)
           b == SubSeq(w, n + 1, Len(w))
<1>0. n \in Nat /\ Len(w) \in Nat /\ n <= Len(w)
  OBVIOUS
<1>1. a \in Seq(Nat) /\ Len(a) = n /\ \A k \in 1 .. n : a[k] = w[k]
  BY <1>0
<1>2. b \in Seq(Nat) /\ Len(b) = Len(w) - n
  BY <1>0
<1>3. ASSUME NEW k \in 1 .. (Len(w) - n) PROVE b[k] = w[n + k]
  BY <1>0
<1> HIDE DEF a, b
<1>4. Joins(w, a, b)
  BY <1>0, <1>1, <1>2, <1>3 DEF Joins
<1> QED BY <1>4 DEF a, b

LEMMA JoinsHead ==
  ASSUME NEW w \in Seq(Nat), w # <<>>
  PROVE  Joins(w, <<Head(w)>>, Tail(w))
BY DEF Joins

LEMMA JoinsAppend ==
  ASSUME NEW w \in Seq(Nat), NEW x \in Nat
  PROVE  Joins(Append(w, x), w, <<x>>)
BY DEF Joins

\* Releasing the entries peeked: they were the first of the ring.
LEMMA ReleaseKeeps ==
  ASSUME NEW r, NEW g, NEW s, CSide(r, g, s)
  PROVE  LET d == ReleaseCons(r, g)
         IN  CSide(d, 0, s) /\ Joins(Waiting(r), Entries(r, Sub(r.ccons, g), g), Waiting(d))
<1> DEFINE d == ReleaseCons(r, g)
           m == Sub(r.prod, r.cons)
           c == Add(r.cons, g)
<1>0. /\ r \in Rings /\ g \in Nat /\ s \in Seq(Nat) /\ Len(s) \in Nat /\ Size \in Nat
      /\ r.prod \in Idx /\ r.cons \in Idx /\ r.cprod \in Idx /\ r.ccons \in Idx
      /\ m \in 0 .. Size /\ Sub(r.cprod, r.cons) \in 0 .. Size
      /\ g \in 0 .. Size /\ g <= m
  BY CSideFacts
<1>1. Sub(r.ccons, r.cons) = g /\ g \in Idx
  BY <1>0, SmallIdx DEF CSide
<1>2. Sub(r.ccons, g) = r.cons /\ c = r.ccons
  BY <1>0, <1>1, SubFrom
<1>3. c \in Idx /\ Sub(r.prod, c) = m - g /\ Sub(r.cprod, c) = Sub(r.cprod, r.cons) - g /\ Sub(r.ccons, c) = 0
  <2>1. Sub(r.cprod, r.cons) >= g /\ m >= g
    BY <1>0, <1>1 DEF CSide
  <2>2. Sub(r.ccons, c) = 0
    BY <1>0, <1>2, SubFrom
  <2> QED BY <2>1, <2>2, <1>0, <1>1, SubMoved, ZenonT(60)
<1>4. d \in Rings /\ d.prod = r.prod /\ d.cons = c /\ d.cprod = r.cprod /\ d.ccons = r.ccons /\ d.at = r.at
  BY <1>0, <1>3 DEF Rings, ReleaseCons
<1> HIDE DEF d, c, m
<1>5. CSide(d, 0, s)
  <2>1. m + Len(s) <= Size /\ Sub(r.cprod, r.cons) <= m /\ g <= Sub(r.cprod, r.cons)
    BY <1>1 DEF CSide, m
  <2> QED BY <2>1, <1>0, <1>3, <1>4 DEF CSide
<1> DEFINE w == Waiting(r)
           e == Entries(r, r.cons, g)
           v == Waiting(d)
<1>6. w \in Seq(Nat) /\ Len(w) = m /\ \A k \in 1 .. m : w[k] = r.at[At(Add(r.cons, k - 1))]
  BY <1>0, EntriesAre DEF Waiting, m
<1>7. e \in Seq(Nat) /\ Len(e) = g /\ \A k \in 1 .. g : e[k] = r.at[At(Add(r.cons, k - 1))]
  BY <1>0, EntriesAre
<1>8. v \in Seq(Nat) /\ Len(v) = m - g /\ \A k \in 1 .. (m - g) : v[k] = r.at[At(Add(c, k - 1))]
  <2>1. m - g \in 0 .. Size /\ v = Entries(d, c, m - g)
    BY <1>0, <1>3, <1>4 DEF Waiting
  <2> QED BY <2>1, <1>3, <1>4, EntriesAre
<1> HIDE DEF w, e, v
<1>9. ASSUME NEW k \in 1 .. g PROVE w[k] = e[k]
  <2>1. k \in 1 .. m
    BY <1>0
  <2> QED BY <2>1, <1>6, <1>7
<1>10. ASSUME NEW k \in 1 .. (m - g) PROVE w[g + k] = v[k]
  <2>1. g + k \in 1 .. m /\ (g + k) - 1 = g + (k - 1) /\ k - 1 \in 0 .. Size /\ g + (k - 1) \in 0 .. Size
    BY <1>0
  <2>2. k - 1 \in Idx /\ g + (k - 1) < U32
    <3>1. Size \in Nat /\ Size < U32 /\ U32 \in Nat
      BY U32Bound
    <3> QED BY <2>1, <3>1, SmallIdx
  <2>3. Add(c, k - 1) = Add(r.cons, (g + k) - 1)
    <3>1. Add(Add(r.cons, g), k - 1) = Add(r.cons, g + (k - 1))
      BY <2>2, <1>0, <1>1, AddAdd, ZenonT(60)
    <3> QED BY <3>1, <2>1 DEF c
  <2> QED BY <2>1, <2>3, <1>6, <1>8
<1>11. Joins(w, e, v)
  BY <1>0, <1>6, <1>7, <1>8, <1>9, <1>10 DEF Joins
<1> QED BY <1>2, <1>5, <1>11 DEF d, w, e, v

\* The kernel writes the entry after the last, which no one has yet to read.
LEMMA PutKeeps ==
  ASSUME NEW r, NEW g, NEW s, CSide(r, g, s), s # <<>>
  PROVE  LET d == [r EXCEPT !.at[At(r.prod)] = Head(s), !.prod = Add(@, 1)]
         IN  CSide(d, g, Tail(s)) /\ Joins(Waiting(d), Waiting(r), <<Head(s)>>)
<1> DEFINE d == [r EXCEPT !.at[At(r.prod)] = Head(s), !.prod = Add(@, 1)]
           m == Sub(r.prod, r.cons)
           t == [r.at EXCEPT ![At(r.prod)] = Head(s)]
<1>0. /\ r \in Rings /\ g \in Nat /\ s \in Seq(Nat) /\ Len(s) \in Nat /\ Size \in Nat
      /\ r.prod \in Idx /\ r.cons \in Idx /\ r.cprod \in Idx /\ r.ccons \in Idx
      /\ m \in 0 .. Size /\ Sub(r.cprod, r.cons) \in 0 .. Size
      /\ g \in 0 .. Size /\ g <= m
  BY CSideFacts
<1>1. Head(s) \in Nat /\ Tail(s) \in Seq(Nat) /\ Len(Tail(s)) = Len(s) - 1 /\ Len(s) >= 1
  BY <1>0
<1>2. m + Len(s) <= Size /\ m \in 0 .. Size - 1 /\ m + 1 \in 0 .. Size /\ m \in Nat
  BY <1>0, <1>1 DEF CSide
<1>3. 1 \in Idx /\ m \in Idx /\ m + 1 < U32
  BY <1>2, <1>0, U32Bound, SMTT(40) DEF Idx
<1>4. Add(r.prod, 1) \in Idx /\ Sub(Add(r.prod, 1), r.cons) = m + 1
  BY <1>0, <1>3, AddSub
<1>5. r.prod = Add(r.cons, m) /\ At(r.prod) \in 0 .. Size - 1
  BY <1>0, <1>2, SubFrom, AtAdd
<1>6. t \in [0 .. Size - 1 -> Nat] /\ t[At(r.prod)] = Head(s)
      /\ \A i \in 0 .. Size - 1 : i # At(r.prod) => t[i] = r.at[i]
  BY <1>0, <1>1, <1>5 DEF Rings
<1> HIDE DEF t
<1>7. d \in Rings /\ d.prod = Add(r.prod, 1) /\ d.cons = r.cons /\ d.cprod = r.cprod /\ d.ccons = r.ccons /\ d.at = t
  BY <1>0, <1>4, <1>6 DEF Rings, t
<1> HIDE DEF d, m
<1>8. CSide(d, g, Tail(s))
  <2>1. Sub(r.ccons, r.cons) = g /\ g <= Sub(r.cprod, r.cons) /\ Sub(r.cprod, r.cons) <= m
    BY DEF CSide, m
  <2> QED BY <2>1, <1>0, <1>1, <1>2, <1>4, <1>7 DEF CSide
<1> DEFINE w == Waiting(d)
           e == Waiting(r)
<1>9. e \in Seq(Nat) /\ Len(e) = m /\ \A k \in 1 .. m : e[k] = r.at[At(Add(r.cons, k - 1))]
  BY <1>0, EntriesAre DEF Waiting, m
<1>10. w \in Seq(Nat) /\ Len(w) = m + 1 /\ \A k \in 1 .. (m + 1) : w[k] = t[At(Add(r.cons, k - 1))]
  <2>1. w = Entries(d, r.cons, m + 1)
    BY <1>4, <1>7 DEF Waiting
  <2>2. w \in Seq(Nat) /\ Len(w) = m + 1 /\ \A k \in 1 .. (m + 1) : w[k] = d.at[At(Add(r.cons, k - 1))]
    <3> HIDE DEF w
    <3> QED BY <2>1, <1>0, <1>2, <1>7, EntriesAre
  <2> QED BY <2>2, <1>7
<1> HIDE DEF w, e
<1>11. ASSUME NEW k \in 1 .. m PROVE w[k] = e[k]
  <2>1. k - 1 \in 0 .. Size - 1 /\ k - 1 # m /\ k \in 1 .. (m + 1)
    BY <1>0, <1>2
  <2>2. At(Add(r.cons, k - 1)) # At(r.prod) /\ At(Add(r.cons, k - 1)) \in 0 .. Size - 1
    <3>1. At(Add(r.cons, k - 1)) # At(Add(r.cons, m))
      BY <2>1, <1>0, <1>2, AtDiffer
    <3>2. At(Add(r.cons, k - 1)) \in 0 .. Size - 1
      BY <2>1, <1>0, AtAdd
    <3> QED BY <3>1, <3>2, <1>5
  <2> QED BY <2>1, <2>2, <1>6, <1>9, <1>10
<1>12. w[m + 1] = Head(s)
  <2>1. m + 1 \in 1 .. (m + 1) /\ (m + 1) - 1 = m
    BY <1>2
  <2> QED BY <2>1, <1>5, <1>6, <1>10
<1>13. Joins(w, e, <<Head(s)>>)
  <2>1. <<Head(s)>> \in Seq(Nat) /\ Len(<<Head(s)>>) = 1 /\ <<Head(s)>>[1] = Head(s)
    BY <1>1
  <2>2. \A k \in 1 .. 1 : k = 1
    OBVIOUS
  <2> QED BY <2>1, <2>2, <1>2, <1>9, <1>10, <1>11, <1>12 DEF Joins
<1> QED BY <1>8, <1>13 DEF d, w, e

\* The places a to e hold every frame, and no more entries than frames.
Placed(a, b, c, d, e) ==
  /\ a \in Seq(Nat) /\ b \in Seq(Nat) /\ c \in Seq(Nat) /\ d \in Seq(Nat) /\ e \in Seq(Nat)
  /\ Len(a) + Len(b) + Len(c) + Len(d) + Len(e) = XskFrames
  /\ Rg(a) \cup Rg(b) \cup Rg(c) \cup Rg(d) \cup Rg(e) = 1 .. XskFrames

LEMMA RgEmpty == Rg(<<>>) = {} /\ Len(<<>>) = 0 /\ <<>> \in Seq(Nat)
BY DEF Rg

LEMMA PopPlaced ==
  ASSUME NEW a, NEW c, NEW d, NEW e, Placed(a, <<>>, c, d, e), NEW n \in 0 .. Len(a)
  PROVE  Placed(SubSeq(a, n + 1, Len(a)), SubSeq(a, 1, n), c, d, e)
<1> DEFINE x == SubSeq(a, 1, n)
           y == SubSeq(a, n + 1, Len(a))
<1>1. Joins(a, x, y)
  BY JoinsSplit DEF Placed
<1> HIDE DEF x, y
<1>2. /\ x \in Seq(Nat) /\ y \in Seq(Nat) /\ Rg(a) = Rg(x) \cup Rg(y)
      /\ Len(a) = Len(x) + Len(y) /\ Len(x) \in Nat /\ Len(y) \in Nat
  BY <1>1, JoinsRg
<1>3. Rg(y) \cup Rg(x) \cup Rg(c) \cup Rg(d) \cup Rg(e) = 1 .. XskFrames
  BY <1>2, RgEmpty, Zenon DEF Placed
<1>4. Len(y) + Len(x) + Len(c) + Len(d) + Len(e) = XskFrames
  BY <1>2, RgEmpty DEF Placed
<1> QED BY <1>2, <1>3, <1>4 DEF Placed, x, y

LEMMA BackPlaced ==
  ASSUME NEW a, NEW b, NEW c, NEW d, NEW e, Placed(a, b, c, d, e)
  PROVE  Placed(a \o b, <<>>, c, d, e)
<1> DEFINE x == a \o b
<1>1. Joins(x, a, b)
  BY JoinsCat DEF Placed
<1> HIDE DEF x
<1>2. /\ x \in Seq(Nat) /\ Rg(x) = Rg(a) \cup Rg(b)
      /\ Len(x) = Len(a) + Len(b) /\ Len(a) \in Nat /\ Len(b) \in Nat
  BY <1>1, JoinsRg
<1>3. Rg(x) \cup Rg(<<>>) \cup Rg(c) \cup Rg(d) \cup Rg(e) = 1 .. XskFrames
  BY <1>2, RgEmpty, Zenon DEF Placed
<1>4. Len(x) + Len(<<>>) + Len(c) + Len(d) + Len(e) = XskFrames
  BY <1>2, RgEmpty DEF Placed
<1> QED BY <1>2, <1>3, <1>4, RgEmpty DEF Placed, x

LEMMA SubmitPlaced ==
  ASSUME NEW a, NEW b, NEW c, NEW d, NEW e, Placed(a, b, c, d, e)
  PROVE  Placed(a, <<>>, c \o b, d, e)
<1> DEFINE x == c \o b
<1>1. Joins(x, c, b)
  BY JoinsCat DEF Placed
<1> HIDE DEF x
<1>2. /\ x \in Seq(Nat) /\ Rg(x) = Rg(c) \cup Rg(b)
      /\ Len(x) = Len(c) + Len(b) /\ Len(c) \in Nat /\ Len(b) \in Nat
  BY <1>1, JoinsRg
<1>3. Rg(a) \cup Rg(<<>>) \cup Rg(x) \cup Rg(d) \cup Rg(e) = 1 .. XskFrames
  BY <1>2, RgEmpty, Zenon DEF Placed
<1>4. Len(a) + Len(<<>>) + Len(x) + Len(d) + Len(e) = XskFrames
  BY <1>2, RgEmpty DEF Placed
<1> QED BY <1>2, <1>3, <1>4, RgEmpty DEF Placed, x

LEMMA TakePlaced ==
  ASSUME NEW a, NEW b, NEW c, NEW d, NEW e, Placed(a, b, c, d, e), c # <<>>
  PROVE  Placed(a, b, Tail(c), Append(d, Head(c)), e)
<1> DEFINE h == <<Head(c)>>
           x == Tail(c)
           y == Append(d, Head(c))
<1>1. Joins(c, h, x)
  BY JoinsHead DEF Placed
<1>2. Joins(y, d, h)
  <2>1. Head(c) \in Nat
    BY DEF Placed
  <2> QED BY <2>1, JoinsAppend DEF Placed
<1> HIDE DEF h, x, y
<1>3. /\ x \in Seq(Nat) /\ y \in Seq(Nat) /\ Rg(c) = Rg(h) \cup Rg(x) /\ Rg(y) = Rg(d) \cup Rg(h)
      /\ Len(c) = Len(h) + Len(x) /\ Len(y) = Len(d) + Len(h)
      /\ Len(h) \in Nat /\ Len(x) \in Nat /\ Len(d) \in Nat
  BY <1>1, <1>2, JoinsRg
<1>4. Rg(a) \cup Rg(b) \cup Rg(x) \cup Rg(y) \cup Rg(e) = 1 .. XskFrames
  BY <1>3, Zenon DEF Placed
<1>5. Len(a) + Len(b) + Len(x) + Len(y) + Len(e) = XskFrames
  BY <1>3 DEF Placed
<1> QED BY <1>3, <1>4, <1>5 DEF Placed, x, y

LEMMA PutPlaced ==
  ASSUME NEW a, NEW b, NEW c, NEW d, NEW e, Placed(a, b, c, d, e), d # <<>>,
         NEW y, Joins(y, e, <<Head(d)>>)
  PROVE  Placed(a, b, c, Tail(d), y)
<1> DEFINE h == <<Head(d)>>
           x == Tail(d)
<1>1. Joins(d, h, x)
  BY JoinsHead DEF Placed
<1>2. Joins(y, e, h)
  OBVIOUS
<1> HIDE DEF h, x
<1>3. /\ x \in Seq(Nat) /\ y \in Seq(Nat) /\ Rg(d) = Rg(h) \cup Rg(x) /\ Rg(y) = Rg(e) \cup Rg(h)
      /\ Len(d) = Len(h) + Len(x) /\ Len(y) = Len(e) + Len(h)
      /\ Len(h) \in Nat /\ Len(x) \in Nat /\ Len(e) \in Nat
  BY <1>1, <1>2, JoinsRg
<1>4. Rg(a) \cup Rg(b) \cup Rg(c) \cup Rg(x) \cup Rg(y) = 1 .. XskFrames
  BY <1>3, Zenon DEF Placed
<1>5. Len(a) + Len(b) + Len(c) + Len(x) + Len(y) = XskFrames
  BY <1>3 DEF Placed
<1> QED BY <1>3, <1>4, <1>5 DEF Placed, x

LEMMA ReleasePlaced ==
  ASSUME NEW a, NEW b, NEW c, NEW d, NEW e, Placed(a, b, c, d, e),
         NEW x, NEW y, Joins(e, x, y)
  PROVE  Placed(a \o x, b, c, d, y)
<1> DEFINE z == a \o x
<1>1. Joins(z, a, x)
  BY JoinsCat DEF Placed, Joins
<1> HIDE DEF z
<1>3. /\ y \in Seq(Nat) /\ z \in Seq(Nat) /\ Rg(e) = Rg(x) \cup Rg(y) /\ Rg(z) = Rg(a) \cup Rg(x)
      /\ Len(e) = Len(x) + Len(y) /\ Len(z) = Len(a) + Len(x)
      /\ Len(x) \in Nat /\ Len(y) \in Nat /\ Len(a) \in Nat
  BY <1>1, JoinsRg
<1>4. Rg(z) \cup Rg(b) \cup Rg(c) \cup Rg(d) \cup Rg(y) = 1 .. XskFrames
  BY <1>3, Zenon DEF Placed
<1>5. Len(z) + Len(b) + Len(c) + Len(d) + Len(y) = XskFrames
  BY <1>3 DEF Placed
<1> QED BY <1>3, <1>4, <1>5 DEF Placed, z

-----------------------------------------------------------------------------
(* The inductive invariant.                                                *)

\* The frames for which entries of P are reserved and not submitted.
Reserved == IF xpc \in {"fill", "submit"} THEN held ELSE <<>>

\* The store buffer holds at most one store.
Buffered == unseen = <<>> \/ \E i \in Idx : unseen = <<i>>

\* The thread has a packet in hand, or entries peeked, only where it says so.
InHand ==
  /\ xpc \notin {"reserve", "fill", "submit"} => held = <<>>
  /\ xpc \notin {"cqrel", "rxrel"} => got = 0

\* Between fill and submit the reserved entries hold the frames in hand.
Written == xpc = "submit" => Holds(P, OwnProd, held)

IInv ==
  /\ Buffered /\ InHand /\ Written
  /\ PSide(P, OwnProd, Reserved, order)
  /\ CSide(C, got, inside)
  /\ Placed(spare, held, order, inside, Waiting(C))

LEMMA XskBatches == RxBatch \in Nat /\ SegMax \in Nat /\ TxBatch \in Nat /\ XskFrames \in Nat
BY XskAssumption

LEMMA InitHolds == XskInit => IInv
<1> SUFFICES ASSUME XskInit PROVE IInv
  OBVIOUS
<1>0. 0 \in Idx /\ Size \in Idx /\ 0 \in 0 .. Size /\ Size \in Nat /\ XskFrames \in Nat
  BY U32Bound, XskBatches DEF Idx
<1>1. P \in Rings /\ P.prod = 0 /\ P.cons = 0 /\ P.cprod = 0 /\ P.ccons = Size
  BY <1>0 DEF XskInit, NewProd, Rings
<1>2. C \in Rings /\ C.prod = 0 /\ C.cons = 0 /\ C.cprod = 0 /\ C.ccons = 0
  BY <1>0 DEF XskInit, NewCons, NewProd, Rings
<1>3. OwnProd = 0 /\ Reserved = <<>> /\ order = <<>> /\ held = <<>> /\ inside = <<>> /\ got = 0
  BY <1>1 DEF XskInit, OwnProd, Reserved
<1>4. Sub(0, 0) = 0 /\ Sub(Size, 0) = Size
  <2>1. Sub(0, 0) = 0
    BY <1>0, SubFrom
  <2>2. Sub(Size, 0) = (IF Size >= 0 THEN Size - 0 ELSE Size - 0 + U32)
    BY <1>0, SubIs
  <2> QED BY <2>1, <2>2, <1>0
<1>5. PSide(P, OwnProd, Reserved, order)
  BY <1>0, <1>1, <1>3, <1>4, RgEmpty DEF PSide, Produced, Holds
<1>6. CSide(C, got, inside)
  BY <1>0, <1>2, <1>3, <1>4, RgEmpty DEF CSide
<1>7. Rg(Waiting(C)) = {} /\ Len(Waiting(C)) = 0 /\ Waiting(C) \in Seq(Nat)
  <2>1. Waiting(C) \in Seq(Nat) /\ Len(Waiting(C)) = 0
    BY <1>0, <1>2, <1>4, EntriesAre DEF Waiting
  <2> QED BY <2>1 DEF Rg
<1>8. spare \in Seq(Nat) /\ Len(spare) = XskFrames /\ Rg(spare) = 1 .. XskFrames
  <2>1. spare = [i \in 1 .. XskFrames |-> i]
    BY DEF XskInit
  <2>2. spare \in Seq(Nat) /\ Len(spare) = XskFrames
    BY <2>1, <1>0
  <2>3. \A i \in 1 .. XskFrames : spare[i] = i
    BY <2>1
  <2> QED BY <2>2, <2>3 DEF Rg
<1>9. Placed(spare, held, order, inside, Waiting(C))
  <2>1. Rg(spare) \cup Rg(held) \cup Rg(order) \cup Rg(inside) \cup Rg(Waiting(C)) = 1 .. XskFrames
    BY <1>3, <1>7, <1>8, RgEmpty
  <2>2. Len(spare) + Len(held) + Len(order) + Len(inside) + Len(Waiting(C)) = XskFrames
    BY <1>0, <1>3, <1>7, <1>8, RgEmpty
  <2> QED BY <2>1, <2>2, <1>3, <1>7, <1>8, RgEmpty DEF Placed
<1>10. Buffered /\ InHand /\ Written
  BY <1>3 DEF XskInit, Buffered, InHand, Written
<1> QED BY <1>5, <1>6, <1>9, <1>10 DEF IInv

\* OwnProd follows P.prod and the store buffer.
LEMMA OwnSame ==
  ASSUME P'.prod = P.prod, unseen' = unseen
  PROVE  OwnProd' = OwnProd
BY DEF OwnProd

-----------------------------------------------------------------------------
(* One lemma per action.                                                   *)

\* An action that only looks at the other end's indices.
LEMMA PeekStep ==
  ASSUME IInv, got = 0, xpc \in {"cq", "recv"}, NEW nb \in Nat,
         C' = Peek(C, nb).r, got' = Peek(C, nb).n,
         xpc' \in {"free", "flag", "cqrel", "rxrel"}, got' # 0 => xpc' \in {"cqrel", "rxrel"},
         UNCHANGED <<P, unseen, spare, held, inside, order>>
  PROVE  IInv'
<1>1. CSide(C, 0, inside)
  BY DEF IInv
<1>2. CSide(C', got', inside) /\ Waiting(C') = Waiting(C)
  BY <1>1, PeekKeeps
<1>3. OwnProd' = OwnProd
  BY DEF OwnProd
<1>4. Reserved = <<>> /\ Reserved' = <<>> /\ held = <<>>
  BY DEF Reserved, IInv, InHand
<1>5. PSide(P, OwnProd, Reserved, order)' /\ Placed(spare, held, order, inside, Waiting(C))'
  BY <1>2, <1>3, <1>4 DEF IInv
<1>6. (Buffered /\ InHand /\ Written)'
  BY <1>4 DEF IInv, Buffered, InHand, Written
<1> QED BY <1>2, <1>5, <1>6 DEF IInv

LEMMA ReleaseStep ==
  ASSUME IInv, xpc \in {"cqrel", "rxrel"},
         spare' = spare \o Entries(C, Sub(C.ccons, got), got), C' = ReleaseCons(C, got),
         got' = 0, xpc' \in {"free", "cq", "refill"},
         UNCHANGED <<P, unseen, held, inside, order>>
  PROVE  IInv'
<1>2. CSide(C', 0, inside) /\ Joins(Waiting(C), Entries(C, Sub(C.ccons, got), got), Waiting(C'))
  BY ReleaseKeeps DEF IInv
<1>3. OwnProd' = OwnProd
  BY DEF OwnProd
<1>4. Reserved = <<>> /\ Reserved' = <<>> /\ held = <<>>
  BY DEF Reserved, IInv, InHand
<1>5. Placed(spare', held, order, inside, Waiting(C'))
  BY <1>2, ReleasePlaced DEF IInv
<1>6. PSide(P, OwnProd, Reserved, order)' /\ CSide(C, got, inside)'
  BY <1>2, <1>3, <1>4 DEF IInv
<1>7. (Buffered /\ InHand /\ Written)'
  BY <1>4 DEF IInv, Buffered, InHand, Written
<1> QED BY <1>5, <1>6, <1>7 DEF IInv

\* Frames leave the pool after a look at the room in P.
LEMMA PopStep ==
  ASSUME IInv, xpc \in {"free", "refill"}, NEW nb \in Nat, P' = NbFree(P, nb).r,
         NEW n \in 0 .. Len(spare),
         held' = SubSeq(spare, 1, n), spare' = SubSeq(spare, n + 1, Len(spare)),
         xpc' \in {"recv", "reserve"}, xpc' = "recv" => n = 0,
         UNCHANGED <<C, unseen, got, inside, order>>
  PROVE  IInv'
<1>1. Reserved = <<>> /\ Reserved' = <<>> /\ held = <<>> /\ got = 0
  BY DEF Reserved, IInv, InHand
<1>2. PSide(P', OwnProd, <<>>, order) /\ P'.prod = P.prod
  BY <1>1, NbFreeKeeps DEF IInv
<1>3. OwnProd' = OwnProd
  BY <1>2, OwnSame
<1>4. Placed(spare', held', order, inside, Waiting(C))
  BY <1>1, PopPlaced DEF IInv
<1>5. xpc' = "recv" => held' = <<>>
  <2>1. spare \in Seq(Nat)
    BY DEF IInv, Placed
  <2> QED BY <2>1
<1>6. (Buffered /\ InHand /\ Written)'
  BY <1>1, <1>5 DEF IInv, Buffered, InHand, Written
<1>7. PSide(P, OwnProd, Reserved, order)' /\ CSide(C, got, inside)'
  BY <1>1, <1>2, <1>3 DEF IInv
<1> QED BY <1>4, <1>6, <1>7 DEF IInv

LEMMA TxEndStep == ASSUME IInv, TxEnd PROVE IInv'
<1>1. Reserved = <<>> /\ Reserved' = <<>> /\ held = <<>> /\ got = 0
  BY DEF TxEnd, Reserved, IInv, InHand
<1>2. PSide(P', OwnProd, <<>>, order) /\ P'.prod = P.prod
  <2>1. CASE UNCHANGED P
    BY <2>1, <1>1 DEF IInv
  <2>2. CASE P' = NbFree(P, SegMax).r
    BY <2>2, <1>1, NbFreeKeeps, XskBatches DEF IInv
  <2> QED BY <2>1, <2>2 DEF TxEnd
<1>3. OwnProd' = OwnProd
  BY <1>2, OwnSame DEF TxEnd
<1>4. (Buffered /\ InHand /\ Written)'
  BY <1>1 DEF TxEnd, IInv, Buffered, InHand, Written
<1>5. PSide(P, OwnProd, Reserved, order)' /\ CSide(C, got, inside)' /\ Placed(spare, held, order, inside, Waiting(C))'
  BY <1>1, <1>2, <1>3 DEF TxEnd, IInv, outside
<1> QED BY <1>4, <1>5 DEF IInv

LEMMA ReserveStep == ASSUME IInv, ReserveHeld PROVE IInv'
<1> DEFINE v == Reserve(P, Len(held))
<1>0. UNCHANGED <<C, unseen, got, inside, order>> /\ P' = v.r /\ xpc = "reserve"
  BY DEF ReserveHeld, outside
<1>1. Reserved = <<>> /\ got = 0 /\ held \in Seq(Nat)
  BY <1>0 DEF Reserved, IInv, InHand, Placed
<1>2. /\ v.n = Len(held) => PSide(P', OwnProd, held, order)
      /\ v.n # Len(held) => PSide(P', OwnProd, <<>>, order)
      /\ P'.prod = P.prod
  BY <1>0, <1>1, ReserveKeeps DEF IInv
<1>3. OwnProd' = OwnProd
  BY <1>0, <1>2, OwnSame
<1>4. CASE v.n = Len(held)
  <2>1. xpc' = "fill" /\ held' = held /\ spare' = spare
    BY <1>4 DEF ReserveHeld
  <2>2. Reserved' = held
    BY <2>1 DEF Reserved
  <2>3. (Buffered /\ InHand /\ Written)'
    BY <1>0, <1>1, <2>1 DEF IInv, Buffered, InHand, Written
  <2>4. PSide(P, OwnProd, Reserved, order)' /\ CSide(C, got, inside)' /\ Placed(spare, held, order, inside, Waiting(C))'
    BY <1>0, <1>2, <1>3, <1>4, <2>1, <2>2 DEF IInv
  <2> QED BY <2>3, <2>4 DEF IInv
<1>5. CASE v.n # Len(held)
  <2>1. xpc' \in {"flag", "recv"} /\ held' = <<>> /\ spare' = spare \o held
    BY <1>5 DEF ReserveHeld
  <2>2. Reserved' = <<>>
    BY <2>1 DEF Reserved
  <2>3. (Buffered /\ InHand /\ Written)'
    BY <1>0, <1>1, <2>1 DEF IInv, Buffered, InHand, Written
  <2>4. Placed(spare', held', order, inside, Waiting(C))
    BY <2>1, BackPlaced DEF IInv
  <2>5. PSide(P, OwnProd, Reserved, order)' /\ CSide(C, got, inside)' /\ Placed(spare, held, order, inside, Waiting(C))'
    BY <1>0, <1>2, <1>3, <1>5, <2>2, <2>4 DEF IInv
  <2> QED BY <2>3, <2>5 DEF IInv
<1> QED BY <1>4, <1>5

LEMMA FillStep == ASSUME IInv, FillHeld PROVE IInv'
<1>0. UNCHANGED <<C, unseen, got, inside, order, held, spare>> /\ P' = Fill(P, held) /\ xpc = "fill" /\ xpc' = "submit"
  BY DEF FillHeld, outside
<1>1. Reserved = held /\ Reserved' = held
  BY <1>0 DEF Reserved
<1>2. PSide(P', OwnProd, held, order) /\ Holds(P', OwnProd, held) /\ P'.prod = P.prod
  BY <1>0, <1>1, FillKeeps DEF IInv
<1>3. OwnProd' = OwnProd
  BY <1>0, <1>2, OwnSame
<1>4. (Buffered /\ InHand /\ Written)'
  BY <1>0, <1>2, <1>3 DEF IInv, Buffered, InHand, Written
<1>5. PSide(P, OwnProd, Reserved, order)' /\ CSide(C, got, inside)' /\ Placed(spare, held, order, inside, Waiting(C))'
  BY <1>0, <1>1, <1>2, <1>3 DEF IInv
<1> QED BY <1>4, <1>5 DEF IInv

LEMMA SubmitStep == ASSUME IInv, Submit PROVE IInv'
<1>0. /\ UNCHANGED <<P, C, got, inside, spare>> /\ xpc = "submit" /\ xpc' \in {"free", "flag"}
      /\ unseen' = <<Add(OwnProd, Len(held))>> /\ order' = order \o held /\ held' = <<>>
  BY DEF Submit, outside
<1>1. Reserved = held /\ Reserved' = <<>>
  BY <1>0 DEF Reserved
<1>2. PSide(P, Add(OwnProd, Len(held)), <<>>, order')
  BY <1>0, <1>1, SubmitKeeps DEF IInv, Written
<1>3. OwnProd' = Add(OwnProd, Len(held))
  <2>1. unseen' # <<>> /\ unseen'[1] = Add(OwnProd, Len(held))
    BY <1>0
  <2> QED BY <2>1 DEF OwnProd
<1>4. Placed(spare, held', order', inside, Waiting(C))
  BY <1>0, SubmitPlaced DEF IInv
<1>5. (Buffered /\ InHand /\ Written)'
  <2>1. Add(OwnProd, Len(held)) \in Idx
    BY <1>2 DEF PSide
  <2> QED BY <1>0, <2>1 DEF IInv, Buffered, InHand, Written
<1>6. PSide(P, OwnProd, Reserved, order)' /\ CSide(C, got, inside)' /\ Placed(spare, held, order, inside, Waiting(C))'
  BY <1>0, <1>1, <1>2, <1>3, <1>4 DEF IInv
<1> QED BY <1>5, <1>6 DEF IInv

LEMMA StoreStep == ASSUME IInv, StoreDrains PROVE IInv'
<1>0. /\ UNCHANGED <<C, got, inside, spare, held, order, xpc>> /\ unseen # <<>>
      /\ P' = [P EXCEPT !.prod = unseen[1]] /\ unseen' = <<>>
  BY DEF StoreDrains, thread, outside
<1>1. OwnProd = unseen[1] /\ Reserved' = Reserved
  BY <1>0 DEF OwnProd, Reserved
<1>2. PSide(P', OwnProd, Reserved, order) /\ P'.prod = OwnProd /\ P'.at = P.at
  BY <1>0, <1>1, StoreKeeps DEF IInv
<1>3. OwnProd' = OwnProd
  BY <1>0, <1>2 DEF OwnProd
<1>4. (Buffered /\ InHand /\ Written)'
  BY <1>0, <1>2, <1>3 DEF IInv, Buffered, InHand, Written, Holds
<1>5. PSide(P, OwnProd, Reserved, order)' /\ CSide(C, got, inside)' /\ Placed(spare, held, order, inside, Waiting(C))'
  BY <1>0, <1>1, <1>2, <1>3 DEF IInv
<1> QED BY <1>4, <1>5 DEF IInv

LEMMA TakeStep == ASSUME IInv, KernelTake PROVE IInv'
<1>0. /\ UNCHANGED <<C, unseen, got, spare, held, xpc>>
      /\ P' = [P EXCEPT !.cons = Add(@, 1)] /\ order' = Tail(order)
      /\ inside' = Append(inside, P.at[At(P.cons)])
      /\ P.prod # P.cons /\ Len(inside) + Sub(C.prod, C.cons) < Size
  BY DEF KernelTake, CanTake, thread
<1>1. Reserved' = Reserved
  BY <1>0 DEF Reserved
<1>2. /\ PSide(P', OwnProd, Reserved, order') /\ P'.prod = P.prod /\ P'.at = P.at
      /\ order # <<>> /\ P.at[At(P.cons)] = Head(order)
  BY <1>0, TakeKeeps DEF IInv
<1>3. OwnProd' = OwnProd
  BY <1>0, <1>2, OwnSame
<1>4. inside' = Append(inside, Head(order)) /\ Head(order) \in Nat
  <2>1. order \in Seq(Nat)
    BY DEF IInv, Placed
  <2> QED BY <2>1, <1>0, <1>2
<1>5. CSide(C, got, inside')
  <2>1. /\ inside \in Seq(Nat) /\ Len(inside) \in Nat /\ Sub(C.prod, C.cons) \in Nat /\ Size \in Nat
    BY CSideFacts DEF IInv
  <2>2. inside' \in Seq(Nat) /\ Len(inside') = Len(inside) + 1
    BY <2>1, <1>4
  <2>3. Sub(C.prod, C.cons) + Len(inside') <= Size
    BY <2>1, <2>2, <1>0
  <2> QED BY <2>2, <2>3 DEF IInv, CSide
<1>6. Placed(spare, held, order', inside', Waiting(C))
  BY <1>0, <1>2, <1>4, TakePlaced DEF IInv
<1>7. (Buffered /\ InHand /\ Written)'
  BY <1>0, <1>2, <1>3 DEF IInv, Buffered, InHand, Written, Holds
<1>8. PSide(P, OwnProd, Reserved, order)' /\ CSide(C, got, inside)' /\ Placed(spare, held, order, inside, Waiting(C))'
  BY <1>0, <1>1, <1>2, <1>3, <1>5, <1>6
<1> QED BY <1>7, <1>8 DEF IInv

LEMMA PutStep == ASSUME IInv, KernelPut PROVE IInv'
<1>0. /\ UNCHANGED <<P, unseen, got, spare, held, xpc, order>> /\ inside # <<>>
      /\ C' = [C EXCEPT !.at[At(C.prod)] = Head(inside), !.prod = Add(@, 1)]
      /\ inside' = Tail(inside)
  BY DEF KernelPut, thread
<1>1. Reserved' = Reserved /\ OwnProd' = OwnProd
  BY <1>0 DEF Reserved, OwnProd
<1>2. CSide(C', got, inside') /\ Joins(Waiting(C'), Waiting(C), <<Head(inside)>>)
  BY <1>0, PutKeeps DEF IInv
<1>3. Placed(spare, held, order, inside', Waiting(C'))
  BY <1>0, <1>2, PutPlaced DEF IInv
<1>4. (Buffered /\ InHand /\ Written)'
  BY <1>0, <1>1 DEF IInv, Buffered, InHand, Written
<1>5. PSide(P, OwnProd, Reserved, order)' /\ CSide(C, got, inside)' /\ Placed(spare, held, order, inside, Waiting(C))'
  BY <1>0, <1>1, <1>2, <1>3 DEF IInv
<1> QED BY <1>4, <1>5 DEF IInv

\* A step that leaves the rings and the frames, and what the thread holds.
LEMMA QuietStep ==
  ASSUME IInv, UNCHANGED <<P, C, unseen, spare, held, got, inside, order>>,
         \/ xpc' = xpc
         \/ xpc \in {"flag", "kick"} /\ xpc' \in {"flag", "kick", "free", "cq", "recv", "refill"}
  PROVE  IInv'
<1>1. Reserved' = Reserved /\ OwnProd' = OwnProd
  BY DEF IInv, InHand, Reserved, OwnProd
<1>2. (Buffered /\ InHand /\ Written)'
  BY <1>1 DEF IInv, Buffered, InHand, Written
<1> QED BY <1>1, <1>2 DEF IInv

LEMMA NextKeeps == IInv /\ [XskNext]_xskVars => IInv'
<1> SUFFICES ASSUME IInv, [XskNext]_xskVars PROVE IInv'
  OBVIOUS
<1>0. spare \in Seq(Nat) /\ Len(spare) \in Nat
  BY DEF IInv, Placed
<1>1. CASE CqPeek
  <2>1. got = 0
    BY <1>1 DEF CqPeek, IInv, InHand
  <2>2. /\ C' = Peek(C, RxBatch).r /\ got' = Peek(C, RxBatch).n /\ xpc = "cq"
        /\ xpc' = IF got' = 0 THEN "free" ELSE "cqrel"
        /\ UNCHANGED <<P, unseen, spare, held, inside, order>>
    BY <1>1 DEF CqPeek, outside
  <2> QED BY <2>1, <2>2, PeekStep, XskBatches
<1>2. CASE CqRelease
  BY <1>2, ReleaseStep DEF CqRelease, outside
<1>3. CASE TxPop
  <2>1. /\ P' = NbFree(P, SegMax).r /\ xpc = "free" /\ xpc' = "reserve"
        /\ UNCHANGED <<C, unseen, got, inside, order>>
    BY <1>3 DEF TxPop, outside
  <2>2. PICK n \in 1 .. SegMin(SegMax, Len(spare)) :
          held' = SubSeq(spare, 1, n) /\ spare' = SubSeq(spare, n + 1, Len(spare))
    BY <1>3 DEF TxPop
  <2>3. n \in 0 .. Len(spare)
    BY <1>0, XskBatches DEF SegMin
  <2> QED BY <2>1, <2>2, <2>3, PopStep, XskBatches
<1>4. CASE TxEnd
  BY <1>4, TxEndStep
<1>5. CASE RefillPop
  <2> DEFINE f == NbFree(P, RxBatch)
             n == SegMin(SegMin(f.n, RxBatch), Len(spare))
  <2>1. /\ P' = f.r /\ xpc = "refill" /\ xpc' = (IF n = 0 THEN "recv" ELSE "reserve")
        /\ held' = SubSeq(spare, 1, n) /\ spare' = SubSeq(spare, n + 1, Len(spare))
        /\ UNCHANGED <<C, unseen, got, inside, order>>
    BY <1>5 DEF RefillPop, outside
  <2>2. f.n \in Nat
    <3>1. PSide(f.r, OwnProd, Reserved, order) /\ f.n = Sub(f.r.ccons, f.r.cprod)
      BY NbFreeKeeps, XskBatches DEF IInv
    <3> HIDE DEF f
    <3>2. f.r.ccons \in Idx /\ f.r.cprod \in Idx
      BY <3>1 DEF PSide, Rings
    <3> QED BY <3>1, <3>2, SubNat
  <2>3. n \in 0 .. Len(spare)
    <3> HIDE DEF f
    <3> QED BY <1>0, <2>2, XskBatches DEF SegMin
  <2> HIDE DEF n
  <2> QED BY <2>1, <2>3, PopStep, XskBatches
<1>6. CASE RxPeek
  <2>1. got = 0
    BY <1>6 DEF RxPeek, IInv, InHand
  <2>2. /\ C' = Peek(C, RxBatch).r /\ got' = Peek(C, RxBatch).n /\ xpc = "recv"
        /\ xpc' = IF got' = 0 THEN "flag" ELSE "rxrel"
        /\ UNCHANGED <<P, unseen, spare, held, inside, order>>
    BY <1>6 DEF RxPeek, outside
  <2> QED BY <2>1, <2>2, PeekStep, XskBatches
<1>7. CASE RxRelease
  BY <1>7, ReleaseStep DEF RxRelease, outside
<1>8. CASE ReserveHeld
  BY <1>8, ReserveStep
<1>9. CASE FillHeld
  BY <1>9, FillStep
<1>10. CASE Submit
  BY <1>10, SubmitStep
<1>11. CASE LookAtFlag
  BY <1>11, QuietStep DEF LookAtFlag, After, ring, outside
<1>12. CASE Kick
  BY <1>12, QuietStep DEF Kick, After
<1>13. CASE StoreDrains
  BY <1>13, StoreStep
<1>14. CASE KernelTake
  BY <1>14, TakeStep
<1>15. CASE KernelPut
  BY <1>15, PutStep
<1>16. CASE KernelFlag
  BY <1>16, QuietStep DEF KernelFlag, thread, outside
<1>17. CASE KernelSleep
  BY <1>17, QuietStep DEF KernelSleep, thread, ring
<1>18. CASE UNCHANGED xskVars
  BY <1>18, QuietStep DEF xskVars, ring, thread, outside
<1> QED BY <1>1, <1>2, <1>3, <1>4, <1>5, <1>6, <1>7, <1>8, <1>9, <1>10, <1>11, <1>12,
           <1>13, <1>14, <1>15, <1>16, <1>17, <1>18 DEF XskNext, ThreadStep

\* The indices, the cached copies and the entries of both rings agree in every
\* reachable state.
THEOREM RingsAgree == XskSpec => []IInv
<1>1. XskInit => IInv
  BY InitHolds
<1>2. IInv /\ [XskNext]_xskVars => IInv'
  BY NextKeeps
<1> QED BY <1>1, <1>2, PTL DEF XskSpec

-----------------------------------------------------------------------------
(* The properties.                                                         *)

LEMMA OrderFromInv == IInv => TakenInOrder
<1> SUFFICES ASSUME IInv PROVE TakenInOrder
  OBVIOUS
<1> DEFINE n == Len(order)
<1>0. /\ P \in Rings /\ P.cons \in Idx /\ order \in Seq(Nat) /\ n = Sub(OwnProd, P.cons)
      /\ \A k \in 1 .. n : P.at[At(Add(P.cons, k - 1))] = order[k]
  BY DEF IInv, PSide, Holds, Rings
<1>1. InP = [k \in 1 .. n |-> P.at[At(Add(P.cons, k - 1))]]
  BY <1>0 DEF InP, Entries
<1>2. order = [k \in 1 .. n |-> order[k]]
  BY <1>0
<1>3. [k \in 1 .. n |-> P.at[At(Add(P.cons, k - 1))]] = [k \in 1 .. n |-> order[k]]
  BY <1>0
<1> QED BY <1>1, <1>2, <1>3 DEF TakenInOrder

LEMMA OnceFromInv == IInv => FramesOnce
<1> SUFFICES ASSUME IInv PROVE FramesOnce
  OBVIOUS
<1>0. InP = order /\ InC = Waiting(C)
  BY OrderFromInv DEF TakenInOrder, InC, Waiting
<1>1. /\ spare \in Seq(Nat) /\ held \in Seq(Nat) /\ order \in Seq(Nat)
      /\ inside \in Seq(Nat) /\ Waiting(C) \in Seq(Nat)
      /\ Len(spare) + Len(held) + Len(order) + Len(inside) + Len(Waiting(C)) = XskFrames
      /\ Rg(spare) \cup Rg(held) \cup Rg(order) \cup Rg(inside) \cup Rg(Waiting(C)) = 1 .. XskFrames
  BY DEF IInv, Placed
<1> DEFINE b == spare \o held
           c == b \o order
           d == c \o inside
           e == d \o Waiting(C)
<1>2. Everywhere = e
  BY <1>0 DEF Everywhere
<1>3. Joins(b, spare, held)
  BY <1>1, JoinsCat
<1>4. b \in Seq(Nat) /\ Rg(b) = Rg(spare) \cup Rg(held) /\ Len(b) = Len(spare) + Len(held)
  <2> HIDE DEF b
  <2> QED BY <1>3, JoinsRg
<1> HIDE DEF b
<1>5. Joins(c, b, order)
  BY <1>1, <1>4, JoinsCat
<1>6. c \in Seq(Nat) /\ Rg(c) = Rg(b) \cup Rg(order) /\ Len(c) = Len(b) + Len(order)
  <2> HIDE DEF c
  <2> QED BY <1>5, JoinsRg
<1> HIDE DEF c
<1>7. Joins(d, c, inside)
  BY <1>1, <1>6, JoinsCat
<1>8. d \in Seq(Nat) /\ Rg(d) = Rg(c) \cup Rg(inside) /\ Len(d) = Len(c) + Len(inside)
  <2> HIDE DEF d
  <2> QED BY <1>7, JoinsRg
<1> HIDE DEF d
<1>9. Joins(e, d, Waiting(C))
  BY <1>1, <1>8, JoinsCat
<1>10. e \in Seq(Nat) /\ Rg(e) = Rg(d) \cup Rg(Waiting(C)) /\ Len(e) = Len(d) + Len(Waiting(C))
  <2> HIDE DEF e
  <2> QED BY <1>9, JoinsRg
<1> HIDE DEF e
<1>11. Len(e) = XskFrames
  BY <1>1, <1>4, <1>6, <1>8, <1>10
<1>12. Rg(e) = 1 .. XskFrames
  BY <1>1, <1>4, <1>6, <1>8, <1>10
<1>13. DOMAIN e = 1 .. Len(e)
  BY <1>10
<1>14. {e[i] : i \in DOMAIN e} = 1 .. XskFrames
  BY <1>12, <1>13 DEF Rg
<1> QED BY <1>2, <1>11, <1>14 DEF FramesOnce

\* What the kernel will take from the ring is what the program submitted, in that
\* order, however stale the cached indices of xsk_prod_nb_free are, across the
\* wrap of the 32-bit indices and while the store of the producer index waits in
\* the store buffer: the segments of a packet stay together and in sequence.
THEOREM SubmitsStayInOrder == XskSpec => []TakenInOrder
<1>1. IInv => TakenInOrder
  BY OrderFromInv
<1> QED BY <1>1, RingsAgree, PTL

\* Every frame is in exactly one place: no entry of either ring is overwritten
\* before the other end has taken it, none is read before it is written
\* (xsk_ring_prod__reserve, xsk_ring_cons__peek, xsk_ring_cons__release).
THEOREM FramesNeverLost == XskSpec => []FramesOnce
<1>1. IInv => FramesOnce
  BY OnceFromInv
<1> QED BY <1>1, RingsAgree, PTL
=============================================================================
